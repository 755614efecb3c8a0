---------------------------- MODULE ReadWaveProofs ----------------------------
(***************************************************************************)
(* What holds of ReadWave for any waves of interest, any number of permits *)
(* and any behaviour of the other waves.                                   *)
(***************************************************************************)
EXTENDS ReadWave, FiniteSetTheorems, TLAPS

\* The worker of r is between its reservation of the start and its end.
Midway(r) == Announcing(r) \/ r.pc \in {"handler", "settle"}

\* r is done without an outcome and without an exception.
Blank(r) == r.done /\ ~r.error /\ r.outcome = "none"

\* How the fields of one job agree.
JobBooks(r) ==
  /\ r.pc \in {"queued", "begin"} =>
       /\ ~r.entered /\ ~r.late /\ ~r.error /\ ~r.released
       /\ r.done => r.abandoned
  /\ r.pc = "begin" => r.outcome = "none" /\ (r.abandoned => r.unstarted)
  /\ Announcing(r) => ~r.entered /\ ~r.done
  /\ r.pc \in {"handler", "settle"} => r.entered /\ ~r.done
  /\ r.pc = "settle" => r.ret # "none"
  /\ r.pc \in {"finish", "gone"} => r.done
  /\ r.pc = "gone" => r.released
  /\ r.entered => ~r.abandoned /\ ~r.unstarted
  /\ r.error => r.done /\ r.outcome = "none"
  /\ r.outcome # "none" =>
       /\ r.done
       /\ r.outcome = "notrun" => r.pc = "queued"
       /\ r.outcome \notin {"notrun", "indeterminate"} =>
            r.entered /\ r.outcome \in Returns
  /\ Blank(r) => r.abandoned
  /\ r.unstarted => r.abandoned
  /\ r.late /\ Announcing(r) => r.abandoned

\* How job j, whose record is r, agrees with the scheduler.
WaveBooks(j, r) ==
  /\ j >= next => r.pc = "queued" /\ r.outcome = "none" /\ (r.abandoned => r.unstarted)
  /\ r.reaped => Lifecycle
  /\ (Uncut \/ sched = "return") /\ r.unstarted => r.reaped /\ ~Midway(r)
  /\ Blank(r) => r.unstarted \/ (sched = "poll" /\ (cancelled \/ expired))
  /\ ~Uncut =>
       /\ r.pc = "queued" => r.done \/ r.unstarted
       /\ r.pc = "begin" => r.unstarted
       /\ Midway(r) => r.late
  /\ sched = "admit" /\ next <= wave.size => r.outcome # "indeterminate"
  /\ sched = "return" => Quiet(r) /\ ~r.reaped
  /\ sched \in Open => r.res = "none"
  /\ sched = "closed" =>
       /\ Midway(r) => r.released
       /\ ~r.unstarted /\ (~r.done \/ r.outcome = "indeterminate") =>
            r.res = "indeterminate"

\* A raise has a reason.
RaiseBooks == sched = "raised" => cutoff = "interrupt" \/ \E j \in Jobs : job[j].error

Held == {j \in Jobs : Holding(job[j])}

\* TypeOK without its bounds on the permits.
Shapes ==
  /\ wave \in Waves
  /\ job \in [Jobs -> JobType]
  /\ next \in 1..(wave.size + 1)
  /\ sched \in Open \cup {"closed", "raised"}
  /\ cutoff \in {"none", "deadline", "cancel", "steer", "interrupt"}
  /\ {cancelled, expired, guard, graceOver, ramped} \subseteq BOOLEAN
  /\ slotWait \in {"no", "waiting", "over"}

Books == \A j \in Jobs : JobBooks(job[j]) /\ WaveBooks(j, job[j])

Permits ==
  /\ free \in Nat /\ foreign \in 0..ForeignMax
  /\ free + foreign + Cardinality(Held) = Capacity

Inv == Shapes /\ Books /\ RaiseBooks /\ Permits

-----------------------------------------------------------------------------
(* Facts about waves, permits and records.                                 *)

LEMMA WaveFacts ==
  ASSUME wave \in Waves
  PROVE  /\ wave.size \in Nat \ {0} /\ wave.kind \in Kinds
         /\ wave.timeout \in BOOLEAN /\ wave.journal \in BOOLEAN
         /\ IsFiniteSet(Jobs)
         /\ \A S \in SUBSET Jobs : IsFiniteSet(S) /\ Cardinality(S) \in Nat
<1>1. wave \in [kind : Kinds, timeout : BOOLEAN, journal : BOOLEAN, size : Nat \ {0}, limit : Nat \ {0}]
  BY WavesAssumption
<1>2. IsFiniteSet(1..wave.size)
  BY <1>1, FS_Interval
<1> QED
  BY <1>1, <1>2, FS_Subset, FS_CardinalityType DEF Jobs

\* The permits balance when no job takes one or gives one back.
LEMMA PermitsStay ==
  ASSUME Shapes, Permits, wave' = wave, job' \in [Jobs -> JobType],
         \A j \in Jobs : Holding(job'[j]) = Holding(job[j]),
         free' + foreign' = free + foreign, free' \in Nat, foreign' \in 0..ForeignMax
  PROVE  Permits'
<1>1. Held' = Held
  BY DEF Held, Jobs, Holding, Launched
<1>2. Cardinality(Held) \in Nat
  BY WaveFacts DEF Held, Shapes
<1> QED BY <1>1, <1>2, BoundsAssumption DEF Permits

\* What Cut does to one job.
LEMMA CutOne ==
  ASSUME NEW f \in [Jobs -> JobType], NEW strict \in BOOLEAN, NEW j \in Jobs, JobBooks(f[j]),
         NEW r, r = Cut(f, strict)[j]
  PROVE  /\ r \in JobType /\ JobBooks(r)
         /\ r.pc = f[j].pc /\ r.entered = f[j].entered /\ r.done = f[j].done /\ r.error = f[j].error
         /\ r.outcome = f[j].outcome /\ r.released = f[j].released /\ r.reaped = f[j].reaped
         /\ r.res = f[j].res
         /\ r.pc = "queued" => r.done \/ r.unstarted
         /\ r.pc = "queued" /\ r.outcome = "none" => r.unstarted
         /\ r.pc = "begin" => r.unstarted
         /\ Midway(r) => r.late
         /\ Blank(r) => r.unstarted
<1>1. f[j] \in JobType
  OBVIOUS
<1> DEFINE q == f[j]
           late == Begun(q) /\ (q.reaped \/ ~q.done \/ (strict /\ q.tardy))
           never == (q.abandoned /\ q.outcome = "none") \/ (~Begun(q) /\ ~q.done)
           gone == q.abandoned \/ never \/ (late /\ Announcing(q))
<1>2. r = [q EXCEPT !.late = late, !.unstarted = never, !.abandoned = gone]
  BY Zenon DEF Cut
<1>3. late \in BOOLEAN /\ never \in BOOLEAN /\ gone \in BOOLEAN
  BY <1>1 DEF JobType
<1>4. /\ r \in JobType
      /\ r = [q EXCEPT !.late = r.late, !.unstarted = r.unstarted, !.abandoned = r.abandoned]
      /\ r.late = late /\ r.unstarted = never /\ r.abandoned = gone
  <2> HIDE DEF late, never, gone
  <2>1. r \in JobType /\ r.late = late /\ r.unstarted = never /\ r.abandoned = gone
    BY <1>1, <1>2, <1>3 DEF JobType
  <2> QED BY <1>2, <2>1, Zenon
<1> HIDE DEF late, never, gone
<1>5. /\ r.pc = q.pc /\ r.entered = q.entered /\ r.done = q.done /\ r.error = q.error
      /\ r.ret = q.ret /\ r.outcome = q.outcome /\ r.released = q.released
      /\ r.reaped = q.reaped /\ r.res = q.res
  BY <1>1, <1>4 DEF JobType
<1>6. JobBooks(r)
  <2>1. JobBooks(q) /\ q \in JobType
    BY <1>1
  <2> HIDE DEF q
  <2> QED BY <1>3, <1>4, <1>5, <2>1 DEF JobBooks, Blank, Begun, Announcing, late, never, gone
<1>7. /\ r.pc = "queued" => r.done \/ r.unstarted
      /\ r.pc = "queued" /\ r.outcome = "none" => r.unstarted
      /\ r.pc = "begin" => r.unstarted
      /\ Midway(r) => r.late
      /\ Blank(r) => r.unstarted
  <2>1. JobBooks(q) /\ q \in JobType
    BY <1>1
  <2> HIDE DEF q
  <2> QED BY <1>3, <1>4, <1>5, <2>1 DEF JobBooks, Blank, Begun, Announcing, Midway, late, never, gone
<1> QED BY <1>4, <1>5, <1>6, <1>7

-----------------------------------------------------------------------------
(* The worker threads.                                                     *)

\* A step that rewrites one job and leaves the scheduler alone.
LEMMA OneJob ==
  ASSUME Inv, NEW j \in Jobs, NEW r \in JobType, job' = [job EXCEPT ![j] = r],
         UNCHANGED <<wave, next, sched, cutoff, cancelled, clocks>>,
         JobBooks(r), WaveBooks(j, r), job[j].error => r.error
  PROVE  Shapes' /\ Books' /\ RaiseBooks'
<1>1. Shapes'
  BY DEF Inv, Shapes, Jobs, clocks
<1>2. job'[j] = r /\ \A i \in Jobs \ {j} : job'[i] = job[i]
  BY DEF Inv, Shapes
<1>3. ASSUME NEW i \in Jobs PROVE JobBooks(job'[i]) /\ WaveBooks(i, job'[i])
  BY <1>2 DEF Inv, Books
<1>4. \A i \in Jobs : WaveBooks(i, job'[i]) => WaveBooks(i, job[i])'
  BY DEF WaveBooks, clocks, Uncut, Lifecycle
<1>5. Books'
  BY <1>3, <1>4 DEF Books, Jobs, JobBooks, Blank, Announcing
<1>6. RaiseBooks'
  BY <1>2 DEF Inv, RaiseBooks, Jobs
<1> QED BY <1>1, <1>5, <1>6

LEMMA BecomeKeeps ==
  ASSUME Inv, NEW j \in Jobs, NEW r \in JobType, Become(j, r),
         JobBooks(r), WaveBooks(j, r), job[j].error => r.error,
         Holding(r) = Holding(job[j])
  PROVE  Inv'
<1>1. Shapes' /\ Books' /\ RaiseBooks'
  BY OneJob DEF Become
<1>2. \A i \in Jobs : Holding(job'[i]) = Holding(job[i])
  BY DEF Become, Inv, Shapes
<1>3. Permits'
  BY <1>1, <1>2, PermitsStay DEF Inv, Become, permits, Permits, Shapes, Jobs
<1> QED BY <1>1, <1>3 DEF Inv

LEMMA JobFacts ==
  ASSUME Inv, NEW j \in Jobs
  PROVE  job[j] \in JobType /\ JobBooks(job[j]) /\ WaveBooks(j, job[j])
BY DEF Inv, Shapes, Books

\* The finally clause: the permit goes back with the job that held it.
LEMMA FinishKeeps ==
  ASSUME Inv, NEW j \in Jobs, Finish(j)
  PROVE  Inv'
<1> DEFINE r == [job[j] EXCEPT !.released = TRUE, !.pc = "gone"]
<1>0. job[j] \in JobType /\ JobBooks(job[j]) /\ WaveBooks(j, job[j]) /\ job[j].pc = "finish"
  BY JobFacts DEF Finish
<1>1. r \in JobType /\ job' = [job EXCEPT ![j] = r]
  BY <1>0 DEF JobType, Finish, Steps
<1>2. /\ r.pc = "gone" /\ r.abandoned = job[j].abandoned /\ r.entered = job[j].entered
      /\ r.done = job[j].done /\ r.error = job[j].error /\ r.ret = job[j].ret
      /\ r.outcome = job[j].outcome /\ r.released = TRUE /\ r.late = job[j].late
      /\ r.unstarted = job[j].unstarted /\ r.reaped = job[j].reaped /\ r.res = job[j].res
  BY <1>0 DEF JobType
<1> HIDE DEF r
<1>3. JobBooks(r)
  BY <1>0, <1>2 DEF JobBooks, Blank, Announcing
<1>4. WaveBooks(j, r)
  BY <1>0, <1>2 DEF WaveBooks, Blank, Midway, Announcing, Quiet, Holding, Launched, JobBooks
<1>5. Shapes' /\ Books' /\ RaiseBooks'
  BY <1>1, <1>2, <1>3, <1>4, OneJob DEF Finish
<1>6. Permits'
  <2>1. wave' = wave /\ Jobs' = Jobs /\ foreign' = foreign
    BY DEF Finish, Jobs
  <2>2. \A i \in Jobs : job'[i] = IF i = j THEN r ELSE job[i]
    BY <1>1 DEF Inv, Shapes
  <2>3. Held' = Held \ {j}
    BY <1>2, <2>1, <2>2 DEF Held, Holding, Launched
  <2>4. IsFiniteSet(Held) /\ Cardinality(Held) \in Nat
    BY WaveFacts DEF Held, Inv, Shapes
  <2>5. j \in Held <=> ~job[j].released
    BY <1>0 DEF Held, Holding, Launched
  <2>6. Cardinality(Held') = IF job[j].released THEN Cardinality(Held) ELSE Cardinality(Held) - 1
    BY <2>3, <2>4, <2>5, FS_RemoveElement
  <2>7. free' = IF job[j].released THEN free ELSE free + 1
    BY DEF Finish
  <2> QED BY <2>1, <2>4, <2>6, <2>7, BoundsAssumption DEF Inv, Permits
<1> QED BY <1>5, <1>6 DEF Inv

LEMMA WorkerSteps ==
  ASSUME Inv, NEW j \in Jobs,
         WorkerLockStep(j) \/ Announce(j) \/ Publish(j) \/ HandlerEnds(j) \/ JobGracePasses(j)
  PROVE  Inv'
<1> USE DEF JobBooks, WaveBooks, Blank, Announcing, Midway, Holding, Launched, Quiet, Uncut
<1>0. job[j] \in JobType /\ JobBooks(job[j]) /\ WaveBooks(j, job[j]) /\ expired \in BOOLEAN /\ sched \in Open \cup {"closed", "raised"}
  BY JobFacts DEF Inv, Shapes
<1>1. CASE BeginRefused(j)
  <2> DEFINE r == [job[j] EXCEPT !.abandoned = TRUE, !.done = TRUE, !.tardy = expired, !.pc = "finish"]
  <2>1. r \in JobType /\ Become(j, r)
    BY <1>0, <1>1 DEF JobType, BeginRefused, Steps
  <2>2. /\ r.pc = "finish" /\ r.abandoned = TRUE /\ r.entered = job[j].entered /\ r.done = TRUE
        /\ r.error = job[j].error /\ r.ret = job[j].ret /\ r.outcome = job[j].outcome
        /\ r.released = job[j].released /\ r.late = job[j].late /\ r.unstarted = job[j].unstarted
        /\ r.reaped = job[j].reaped /\ r.res = job[j].res
    BY <1>0 DEF JobType
  <2> HIDE DEF r
  <2>3. JobBooks(r)
    BY <1>0, <1>1, <2>1, <2>2 DEF BeginRefused, Closing
  <2>4. WaveBooks(j, r)
    BY <1>0, <1>1, <2>1, <2>2 DEF BeginRefused, Closing, LockFree, Open
  <2>5. Holding(r) = Holding(job[j]) /\ (job[j].error => r.error)
    BY <1>0, <1>1, <2>1, <2>2 DEF BeginRefused
  <2> QED BY <2>1, <2>2, <2>3, <2>4, <2>5, BecomeKeeps
<1>2. CASE BeginAnnounce(j)
  <2> DEFINE r == [job[j] EXCEPT !.pc = "announce"]
  <2>1. r \in JobType /\ Become(j, r)
    BY <1>0, <1>2 DEF JobType, BeginAnnounce, Steps
  <2>2. /\ r.pc = "announce" /\ r.abandoned = job[j].abandoned /\ r.entered = job[j].entered
        /\ r.done = job[j].done /\ r.error = job[j].error /\ r.ret = job[j].ret
        /\ r.outcome = job[j].outcome /\ r.released = job[j].released /\ r.late = job[j].late
        /\ r.unstarted = job[j].unstarted /\ r.reaped = job[j].reaped /\ r.res = job[j].res
    BY <1>0 DEF JobType
  <2> HIDE DEF r
  <2>3. JobBooks(r)
    BY <1>0, <1>2, <2>1, <2>2 DEF BeginAnnounce, Closing
  <2>4. WaveBooks(j, r)
    BY <1>0, <1>2, <2>1, <2>2 DEF BeginAnnounce, Closing, LockFree, Open
  <2>5. Holding(r) = Holding(job[j]) /\ (job[j].error => r.error)
    BY <1>0, <1>2, <2>1, <2>2 DEF BeginAnnounce
  <2> QED BY <2>1, <2>2, <2>3, <2>4, <2>5, BecomeKeeps
<1>3. CASE BeginHandler(j)
  <2> DEFINE r == [job[j] EXCEPT !.entered = TRUE, !.pc = "handler"]
  <2>1. r \in JobType /\ Become(j, r)
    BY <1>0, <1>3 DEF JobType, BeginHandler, Steps
  <2>2. /\ r.pc = "handler" /\ r.abandoned = job[j].abandoned /\ r.entered = TRUE /\ r.done = job[j].done
        /\ r.error = job[j].error /\ r.ret = job[j].ret /\ r.outcome = job[j].outcome
        /\ r.released = job[j].released /\ r.late = job[j].late /\ r.unstarted = job[j].unstarted
        /\ r.reaped = job[j].reaped /\ r.res = job[j].res
    BY <1>0 DEF JobType
  <2> HIDE DEF r
  <2>3. JobBooks(r)
    BY <1>0, <1>3, <2>1, <2>2 DEF BeginHandler, Closing
  <2>4. WaveBooks(j, r)
    BY <1>0, <1>3, <2>1, <2>2 DEF BeginHandler, Closing, LockFree, Open
  <2>5. Holding(r) = Holding(job[j]) /\ (job[j].error => r.error)
    BY <1>0, <1>3, <2>1, <2>2 DEF BeginHandler
  <2> QED BY <2>1, <2>2, <2>3, <2>4, <2>5, BecomeKeeps
<1>4. CASE Announce(j)
  <2>0. PICK x \in {"crossing", "publishing"} : Become(j, [job[j] EXCEPT !.pc = x])
    BY <1>4 DEF Announce
  <2> DEFINE r == [job[j] EXCEPT !.pc = x]
  <2>1. r \in JobType /\ Become(j, r)
    BY <1>0, <1>4, <2>0 DEF JobType, Steps
  <2>2. /\ r.pc = x /\ r.abandoned = job[j].abandoned /\ r.entered = job[j].entered
        /\ r.done = job[j].done /\ r.error = job[j].error /\ r.ret = job[j].ret
        /\ r.outcome = job[j].outcome /\ r.released = job[j].released /\ r.late = job[j].late
        /\ r.unstarted = job[j].unstarted /\ r.reaped = job[j].reaped /\ r.res = job[j].res
    BY <1>0, <2>0 DEF JobType
  <2> HIDE DEF r
  <2>3. JobBooks(r)
    BY <1>0, <1>4, <2>0, <2>1, <2>2 DEF Announce
  <2>4. WaveBooks(j, r)
    BY <1>0, <1>4, <2>0, <2>1, <2>2 DEF Announce, LockFree, Open
  <2>5. Holding(r) = Holding(job[j]) /\ (job[j].error => r.error)
    BY <1>0, <1>4, <2>0, <2>1, <2>2 DEF Announce
  <2> QED BY <2>1, <2>2, <2>3, <2>4, <2>5, BecomeKeeps
<1>5. CASE Publish(j)
  <2>0. PICK last \in {"crossing", "broken"} :
          Become(j, [job[j] EXCEPT !.published = TRUE, !.pc = last])
    BY <1>5 DEF Publish
  <2> DEFINE r == [job[j] EXCEPT !.published = TRUE, !.pc = last]
  <2>1. r \in JobType /\ Become(j, r)
    BY <1>0, <1>5, <2>0 DEF JobType, Steps
  <2>2. /\ r.pc = last /\ r.abandoned = job[j].abandoned /\ r.entered = job[j].entered
        /\ r.done = job[j].done /\ r.error = job[j].error /\ r.ret = job[j].ret
        /\ r.outcome = job[j].outcome /\ r.released = job[j].released /\ r.late = job[j].late
        /\ r.unstarted = job[j].unstarted /\ r.reaped = job[j].reaped /\ r.res = job[j].res
    BY <1>0, <2>0 DEF JobType
  <2> HIDE DEF r
  <2>3. JobBooks(r)
    BY <1>0, <1>5, <2>0, <2>1, <2>2 DEF Publish
  <2>4. WaveBooks(j, r)
    BY <1>0, <1>5, <2>0, <2>1, <2>2 DEF Publish, LockFree, Open
  <2>5. Holding(r) = Holding(job[j]) /\ (job[j].error => r.error)
    BY <1>0, <1>5, <2>0, <2>1, <2>2 DEF Publish
  <2> QED BY <2>1, <2>2, <2>3, <2>4, <2>5, BecomeKeeps
<1>6. CASE AnnounceFailed(j)
  <2> DEFINE r == [job[j] EXCEPT !.error = TRUE, !.done = TRUE, !.tardy = expired, !.pc = "finish"]
  <2>1. r \in JobType /\ Become(j, r)
    BY <1>0, <1>6 DEF JobType, AnnounceFailed, Steps
  <2>2. /\ r.pc = "finish" /\ r.abandoned = job[j].abandoned /\ r.entered = job[j].entered
        /\ r.done = TRUE /\ r.error = TRUE /\ r.ret = job[j].ret /\ r.outcome = job[j].outcome
        /\ r.released = job[j].released /\ r.late = job[j].late /\ r.unstarted = job[j].unstarted
        /\ r.reaped = job[j].reaped /\ r.res = job[j].res
    BY <1>0 DEF JobType
  <2> HIDE DEF r
  <2>3. JobBooks(r)
    BY <1>0, <1>6, <2>1, <2>2 DEF AnnounceFailed
  <2>4. WaveBooks(j, r)
    BY <1>0, <1>6, <2>1, <2>2 DEF AnnounceFailed, LockFree, Open
  <2>5. Holding(r) = Holding(job[j]) /\ (job[j].error => r.error)
    BY <1>0, <1>6, <2>1, <2>2 DEF AnnounceFailed
  <2> QED BY <2>1, <2>2, <2>3, <2>4, <2>5, BecomeKeeps
<1>7. CASE CrossRefused(j)
  <2> DEFINE r == [job[j] EXCEPT !.abandoned = TRUE, !.done = TRUE, !.outcome = "indeterminate", !.tardy = expired, !.pc = "finish"]
  <2>1. r \in JobType /\ Become(j, r)
    BY <1>0, <1>7 DEF JobType, CrossRefused, Steps, Results, Returns
  <2>2. /\ r.pc = "finish" /\ r.abandoned = TRUE /\ r.entered = job[j].entered /\ r.done = TRUE
        /\ r.error = job[j].error /\ r.ret = job[j].ret /\ r.outcome = "indeterminate"
        /\ r.released = job[j].released /\ r.late = job[j].late /\ r.unstarted = job[j].unstarted
        /\ r.reaped = job[j].reaped /\ r.res = job[j].res
    BY <1>0 DEF JobType
  <2> HIDE DEF r
  <2>3. JobBooks(r)
    BY <1>0, <1>7, <2>1, <2>2 DEF CrossRefused, Closing
  <2>4. WaveBooks(j, r)
    BY <1>0, <1>7, <2>1, <2>2 DEF CrossRefused, Closing, LockFree, Open
  <2>5. Holding(r) = Holding(job[j]) /\ (job[j].error => r.error)
    BY <1>0, <1>7, <2>1, <2>2 DEF CrossRefused
  <2> QED BY <2>1, <2>2, <2>3, <2>4, <2>5, BecomeKeeps
<1>8. CASE Cross(j)
  <2> DEFINE r == [job[j] EXCEPT !.entered = TRUE, !.pc = "handler"]
  <2>1. r \in JobType /\ Become(j, r)
    BY <1>0, <1>8 DEF JobType, Cross, Steps
  <2>2. /\ r.pc = "handler" /\ r.abandoned = job[j].abandoned /\ r.entered = TRUE /\ r.done = job[j].done
        /\ r.error = job[j].error /\ r.ret = job[j].ret /\ r.outcome = job[j].outcome
        /\ r.released = job[j].released /\ r.late = job[j].late /\ r.unstarted = job[j].unstarted
        /\ r.reaped = job[j].reaped /\ r.res = job[j].res
    BY <1>0 DEF JobType
  <2> HIDE DEF r
  <2>3. JobBooks(r)
    BY <1>0, <1>8, <2>1, <2>2 DEF Cross, Closing
  <2>4. WaveBooks(j, r)
    BY <1>0, <1>8, <2>1, <2>2 DEF Cross, Closing, LockFree, Open
  <2>5. Holding(r) = Holding(job[j]) /\ (job[j].error => r.error)
    BY <1>0, <1>8, <2>1, <2>2 DEF Cross
  <2> QED BY <2>1, <2>2, <2>3, <2>4, <2>5, BecomeKeeps
<1>9. CASE HandlerEnds(j)
  <2>0. PICK x \in Returns : Become(j, [job[j] EXCEPT !.ret = x, !.tardy = expired, !.pc = "settle"])
    BY <1>9 DEF HandlerEnds, Answers, Returns
  <2> DEFINE r == [job[j] EXCEPT !.ret = x, !.tardy = expired, !.pc = "settle"]
  <2>1. r \in JobType /\ Become(j, r)
    BY <1>0, <1>9, <2>0 DEF JobType, Steps
  <2>2. /\ r.pc = "settle" /\ r.abandoned = job[j].abandoned /\ r.entered = job[j].entered
        /\ r.done = job[j].done /\ r.error = job[j].error /\ r.ret = x /\ r.outcome = job[j].outcome
        /\ r.released = job[j].released /\ r.late = job[j].late /\ r.unstarted = job[j].unstarted
        /\ r.reaped = job[j].reaped /\ r.res = job[j].res
    BY <1>0, <2>0 DEF JobType
  <2> HIDE DEF r
  <2>3. JobBooks(r)
    BY <1>0, <1>9, <2>0, <2>1, <2>2 DEF HandlerEnds, Returns
  <2>4. WaveBooks(j, r)
    BY <1>0, <1>9, <2>0, <2>1, <2>2 DEF HandlerEnds, Returns, LockFree, Open
  <2>5. Holding(r) = Holding(job[j]) /\ (job[j].error => r.error)
    BY <1>0, <1>9, <2>0, <2>1, <2>2 DEF HandlerEnds
  <2> QED BY <2>1, <2>2, <2>3, <2>4, <2>5, BecomeKeeps
<1>10. CASE Settle(j)
  <2> DEFINE r == [job[j] EXCEPT !.outcome = job[j].ret, !.done = TRUE, !.ret = "none", !.pc = "finish"]
  <2>1. r \in JobType /\ Become(j, r)
    BY <1>0, <1>10 DEF JobType, Settle, Steps, Results
  <2>2. /\ r.pc = "finish" /\ r.abandoned = job[j].abandoned /\ r.entered = job[j].entered
        /\ r.done = TRUE /\ r.error = job[j].error /\ r.ret = "none" /\ r.outcome = job[j].ret
        /\ r.released = job[j].released /\ r.late = job[j].late /\ r.unstarted = job[j].unstarted
        /\ r.reaped = job[j].reaped /\ r.res = job[j].res
    BY <1>0 DEF JobType
  <2> HIDE DEF r
  <2>3. JobBooks(r)
    BY <1>0, <1>10, <2>1, <2>2 DEF Settle, Returns, JobType
  <2>4. WaveBooks(j, r)
    BY <1>0, <1>10, <2>1, <2>2 DEF Settle, Returns, JobType, LockFree, Open
  <2>5. Holding(r) = Holding(job[j]) /\ (job[j].error => r.error)
    BY <1>0, <1>10, <2>1, <2>2 DEF Settle
  <2> QED BY <2>1, <2>2, <2>3, <2>4, <2>5, BecomeKeeps
<1>11. CASE JobGracePasses(j)
  <2> DEFINE r == [job[j] EXCEPT !.over = TRUE]
  <2>1. r \in JobType /\ Become(j, r)
    BY <1>0, <1>11 DEF JobType, JobGracePasses, Become, Still
  <2>2. /\ r.pc = job[j].pc /\ r.abandoned = job[j].abandoned /\ r.entered = job[j].entered
        /\ r.done = job[j].done /\ r.error = job[j].error /\ r.ret = job[j].ret
        /\ r.outcome = job[j].outcome /\ r.released = job[j].released /\ r.late = job[j].late
        /\ r.unstarted = job[j].unstarted /\ r.reaped = job[j].reaped /\ r.res = job[j].res
    BY <1>0 DEF JobType
  <2> HIDE DEF r
  <2>3. JobBooks(r)
    BY <1>0, <1>11, <2>1, <2>2 DEF JobGracePasses
  <2>4. WaveBooks(j, r)
    BY <1>0, <1>11, <2>1, <2>2 DEF JobGracePasses, LockFree, Open
  <2>5. Holding(r) = Holding(job[j]) /\ (job[j].error => r.error)
    BY <1>0, <1>11, <2>1, <2>2 DEF JobGracePasses
  <2> QED BY <2>1, <2>2, <2>3, <2>4, <2>5, BecomeKeeps
<1>12. CASE Finish(j)
  BY <1>12, FinishKeeps
<1> QED
  BY <1>1, <1>2, <1>3, <1>4, <1>5, <1>6, <1>7, <1>8, <1>9, <1>10, <1>11, <1>12 DEF WorkerLockStep

-----------------------------------------------------------------------------
(* The scheduler thread.                                                   *)

\* What holds of a job all the while the scheduler admits, when the tail
\* that was never launched begins at n.
AdmitBooks(j, r, n) ==
  /\ r \in JobType /\ JobBooks(r)
  /\ j >= n => r.pc = "queued" /\ r.outcome = "none" /\ (r.abandoned => r.unstarted)
  /\ r.reaped => Lifecycle
  /\ r.unstarted => r.reaped /\ ~Midway(r)
  /\ Blank(r) => r.unstarted
  /\ r.res = "none"

\* The reaping of one job by its own clocks.
LEMMA ReapOne ==
  ASSUME Inv, sched = "poll", NEW idle \in SUBSET Silent, NEW j \in Jobs,
         NEW r, r = TimedOut(idle)[j]
  PROVE  /\ r \in JobType /\ JobBooks(r) /\ WaveBooks(j, r)
         /\ Holding(r) = Holding(job[j])
         /\ r.entered = job[j].entered /\ r.res = job[j].res /\ r.pc = job[j].pc
         /\ r.outcome = job[j].outcome /\ r.released = job[j].released
<1> DEFINE q == job[j]
<1>0. q \in JobType /\ JobBooks(q) /\ WaveBooks(j, q)
  BY JobFacts
<1>1. CASE j \notin Reapable(idle)
  BY <1>0, <1>1 DEF TimedOut
<1>2. CASE j \in Reapable(idle) /\ Begun(q)
  <2> DEFINE away == q.abandoned \/ Announcing(q)
  <2>1. r = [q EXCEPT !.reaped = TRUE, !.late = TRUE, !.abandoned = away] /\ away \in BOOLEAN
    BY <1>0, <1>2 DEF TimedOut, Reap, JobType
  <2>2. Lifecycle /\ ~q.done
    BY <1>2 DEF Reapable, PerJobCutoffs
  <2> HIDE DEF away
  <2>3. /\ r \in JobType /\ r.reaped /\ r.late /\ r.abandoned = away
        /\ r.pc = q.pc /\ r.entered = q.entered /\ r.done = q.done /\ r.error = q.error
        /\ r.ret = q.ret /\ r.outcome = q.outcome /\ r.released = q.released
        /\ r.unstarted = q.unstarted /\ r.res = q.res
    BY <1>0, <2>1 DEF JobType
  <2> HIDE DEF q
  <2>4. JobBooks(r)
    BY <1>0, <1>2, <2>2, <2>3 DEF JobBooks, Blank, Begun, Announcing, away
  <2>5. WaveBooks(j, r)
    BY <1>0, <2>2, <2>3 DEF WaveBooks, Blank, Announcing, Midway, Quiet, Holding, Launched, Uncut, Begun, away, JobBooks
  <2> QED BY <2>3, <2>4, <2>5 DEF Holding, Launched, q
<1>3. CASE j \in Reapable(idle) /\ ~Begun(q)
  <2>1. r = [q EXCEPT !.reaped = TRUE, !.unstarted = TRUE, !.abandoned = TRUE, !.done = TRUE]
    BY <1>3 DEF TimedOut, Reap
  <2>2. Lifecycle /\ ~q.done
    BY <1>3 DEF Reapable, PerJobCutoffs
  <2>3. /\ r \in JobType /\ r.reaped /\ r.late = q.late /\ r.abandoned /\ r.done /\ r.unstarted
        /\ r.pc = q.pc /\ r.entered = q.entered /\ r.error = q.error /\ r.ret = q.ret
        /\ r.outcome = q.outcome /\ r.released = q.released /\ r.res = q.res
    BY <1>0, <2>1 DEF JobType
  <2> HIDE DEF q
  <2>4. JobBooks(r)
    BY <1>0, <1>3, <2>2, <2>3 DEF JobBooks, Blank, Begun, Announcing
  <2>5. WaveBooks(j, r)
    BY <1>0, <1>3, <2>2, <2>3 DEF WaveBooks, Blank, Announcing, Midway, Quiet, Holding, Launched, Uncut, Begun, JobBooks
  <2> QED BY <2>3, <2>4, <2>5 DEF Holding, Launched, q
<1> QED BY <1>1, <1>2, <1>3

\* The closing of the tail that was never launched.
LEMMA TailOne ==
  ASSUME NEW f \in [Jobs -> JobType], NEW j \in Jobs, AdmitBooks(j, f[j], next),
         NEW r, r = TailClosed(f)[j], next \in 1..(wave.size + 1), wave.size \in Nat
  PROVE  /\ AdmitBooks(j, r, wave.size + 1)
         /\ Holding(r) = Holding(f[j])
<1> DEFINE q == f[j]
<1>0. j \in Nat /\ next \in Nat /\ ~(j >= wave.size + 1)
  BY DEF Jobs
<1>1. CASE j < next
  <2>1. r = f[j]
    BY <1>1 DEF TailClosed
  <2> QED BY <1>0, <2>1 DEF AdmitBooks
<1>2. CASE ~(j < next)
  <2>1. r = [q EXCEPT !.abandoned = TRUE, !.done = TRUE, !.outcome = "notrun"] /\ q \in JobType
    BY <1>2 DEF TailClosed
  <2>2. /\ r \in JobType /\ r.abandoned /\ r.done /\ r.outcome = "notrun" /\ r.reaped = q.reaped
        /\ r.pc = q.pc /\ r.entered = q.entered /\ r.error = q.error /\ r.late = q.late
        /\ r.ret = q.ret /\ r.released = q.released /\ r.res = q.res /\ r.unstarted = q.unstarted
    BY <2>1 DEF JobType, Results
  <2>3. q.pc = "queued" /\ AdmitBooks(j, q, next)
    BY <1>0, <1>2 DEF AdmitBooks
  <2> HIDE DEF q
  <2> QED BY <1>0, <2>2, <2>3 DEF AdmitBooks, JobBooks, Blank, Announcing, Midway, Holding, Launched, q
<1> QED BY <1>1, <1>2

\* The records of an admitting scheduler, taken together.
Admitting(f, n) == \A j \in Jobs : AdmitBooks(j, f[j], n) /\ Holding(f[j]) = Holding(job[j])

LEMMA PollAdmits ==
  ASSUME Inv, sched = "poll", ~cancelled, ~expired, NEW idle \in SUBSET Silent
  PROVE  /\ TimedOut(idle) \in [Jobs -> JobType] /\ Admitting(TimedOut(idle), next)
         /\ \A j \in Jobs : WaveBooks(j, TimedOut(idle)[j])
<1>1. \A j \in Jobs : /\ TimedOut(idle)[j] \in JobType /\ JobBooks(TimedOut(idle)[j])
                      /\ WaveBooks(j, TimedOut(idle)[j])
                      /\ Holding(TimedOut(idle)[j]) = Holding(job[j])
  BY ReapOne
<1>2. TimedOut(idle) \in [Jobs -> JobType]
  BY <1>1 DEF TimedOut
<1>3. \A j \in Jobs : \A r \in JobType : JobBooks(r) /\ WaveBooks(j, r) => AdmitBooks(j, r, next)
  BY DEF WaveBooks, AdmitBooks, Uncut, Open
<1> QED BY <1>1, <1>2, <1>3 DEF Admitting

LEMMA AdmitAdmits ==
  ASSUME Inv, sched = "admit"
  PROVE  Admitting(job, next)
<1>1. \A j \in Jobs : \A r \in JobType : JobBooks(r) /\ WaveBooks(j, r) => AdmitBooks(j, r, next)
  BY DEF WaveBooks, AdmitBooks, Uncut, Open
<1> QED BY <1>1, JobFacts DEF Admitting

LEMMA TailAdmits ==
  ASSUME Inv, NEW f \in [Jobs -> JobType], Admitting(f, next)
  PROVE  TailClosed(f) \in [Jobs -> JobType] /\ Admitting(TailClosed(f), wave.size + 1)
<1>1. wave.size \in Nat /\ next \in 1..(wave.size + 1)
  BY WaveFacts DEF Inv, Shapes
<1>2. \A j \in Jobs : /\ AdmitBooks(j, TailClosed(f)[j], wave.size + 1)
                      /\ Holding(TailClosed(f)[j]) = Holding(f[j])
  BY <1>1, TailOne DEF Admitting
<1>3. TailClosed(f) \in [Jobs -> JobType]
  BY <1>2 DEF TailClosed, AdmitBooks
<1> QED BY <1>2, <1>3 DEF Admitting

\* A cut leaves the books in order and the scheduler in the grace.
LEMMA CutKeeps ==
  ASSUME Inv, sched \in Open, NEW f \in [Jobs -> JobType], NEW strict \in BOOLEAN,
         \A j \in Jobs : /\ JobBooks(f[j]) /\ WaveBooks(j, f[j])
                         /\ Holding(f[j]) = Holding(job[j]),
         job' = Cut(f, strict), sched' = "grace", cutoff' = Kind,
         UNCHANGED <<wave, next, cancelled, clocks, permits>>
  PROVE  Inv'
<1>1. \A j \in Jobs : /\ job'[j] \in JobType /\ JobBooks(job'[j])
                      /\ job'[j].pc = f[j].pc /\ job'[j].outcome = f[j].outcome
                      /\ job'[j].reaped = f[j].reaped /\ job'[j].res = f[j].res
                      /\ job'[j].released = f[j].released
  BY CutOne
<1>2. \A j \in Jobs : /\ job'[j].pc = "queued" => job'[j].done \/ job'[j].unstarted
                      /\ job'[j].pc = "queued" /\ job'[j].outcome = "none" => job'[j].unstarted
                      /\ job'[j].pc = "begin" => job'[j].unstarted
                      /\ Midway(job'[j]) => job'[j].late
                      /\ Blank(job'[j]) => job'[j].unstarted
  BY CutOne
<1>3. Shapes'
  <2>1. job' \in [Jobs -> JobType]
    BY <1>1 DEF Cut
  <2> QED BY <2>1 DEF Inv, Shapes, Jobs, clocks, Kind, Open
<1>4. ASSUME NEW j \in Jobs PROVE WaveBooks(j, job[j])'
  <2>1. WaveBooks(j, f[j])
    OBVIOUS
  <2> QED BY <1>1, <1>2, <2>1 DEF WaveBooks, Uncut, Lifecycle, Open, Blank, Midway, Announcing
<1>5. Books'
  BY <1>1, <1>4 DEF Books, Jobs, JobBooks, Blank, Announcing
<1>6. Permits'
  BY <1>1, <1>2, <1>3, PermitsStay DEF Inv, Holding, Launched, permits, Shapes, Jobs, Permits
<1>7. RaiseBooks'
  BY DEF RaiseBooks
<1> QED BY <1>3, <1>5, <1>6, <1>7 DEF Inv

LEMMA PollCutKeeps == ASSUME Inv, PollCut PROVE Inv'
<1>1. PICK idle \in SUBSET Silent, steered \in BOOLEAN :
        job' = Cut(IF cancelled THEN job ELSE TimedOut(idle), ~cancelled /\ ~steered)
  BY DEF PollCut
<1> DEFINE f == IF cancelled THEN job ELSE TimedOut(idle)
           strict == ~cancelled /\ ~steered
<1>2. sched = "poll"
  BY DEF PollCut
<1>3. \A j \in Jobs : /\ f[j] \in JobType /\ JobBooks(f[j]) /\ WaveBooks(j, f[j])
                      /\ Holding(f[j]) = Holding(job[j])
  BY <1>2, ReapOne, JobFacts
<1>4. f \in [Jobs -> JobType] /\ strict \in BOOLEAN
  BY <1>3 DEF TimedOut, Inv, Shapes
<1>5. job' = Cut(f, strict)
  BY <1>1
<1> HIDE DEF f, strict
<1> QED BY <1>2, <1>3, <1>4, <1>5, CutKeeps DEF PollCut, Open

LEMMA AdmitCutKeeps == ASSUME Inv, AdmitCut PROVE Inv'
<1>1. sched \in Open /\ job' = Cut(job, ~cancelled) /\ (~cancelled) \in BOOLEAN
  BY DEF AdmitCut, Open
<1>2. \A j \in Jobs : JobBooks(job[j]) /\ WaveBooks(j, job[j])
  BY JobFacts
<1> QED BY <1>1, <1>2, CutKeeps DEF AdmitCut, Inv, Shapes

LEMMA PollPassKeeps == ASSUME Inv, PollPass PROVE Inv'
<1>1. sched = "poll" /\ ~cancelled /\ ~expired /\ sched' = "admit"
  BY DEF PollPass
<1>2. UNCHANGED <<wave, cutoff, cancelled, clocks, permits>>
  BY DEF PollPass
<1>3. PICK idle \in SUBSET Silent :
        IF Unresolved(TimedOut(idle))
        THEN job' = TailClosed(TimedOut(idle)) /\ next' = wave.size + 1
        ELSE job' = TimedOut(idle) /\ UNCHANGED next
  BY DEF PollPass
<1> DEFINE f == TimedOut(idle)
<1>4. f \in [Jobs -> JobType] /\ Admitting(f, next)
  BY <1>1, PollAdmits
<1> HIDE DEF f
<1>5. wave.size \in Nat /\ next \in 1..(wave.size + 1)
  BY WaveFacts DEF Inv, Shapes
<1>6. job' \in [Jobs -> JobType] /\ Admitting(job', next') /\ next' \in 1..(wave.size + 1)
  BY <1>3, <1>4, <1>5, TailAdmits DEF f
<1>7. next' <= wave.size => \A j \in Jobs : job'[j].outcome # "indeterminate"
  <2> SUFFICES ASSUME next' <= wave.size PROVE \A j \in Jobs : f[j].outcome # "indeterminate" /\ job' = f
    OBVIOUS
  <2>1. job' = f /\ ~Unresolved(f) /\ next' = next
    BY <1>3, <1>5 DEF f
  <2> SUFFICES ASSUME NEW j \in Jobs PROVE f[j].outcome # "indeterminate"
    BY <2>1
  <2>2. AdmitBooks(j, f[j], next)
    BY <1>4 DEF Admitting
  <2> QED BY <1>5, <2>1, <2>2 DEF AdmitBooks, JobBooks, Unresolved, Jobs
<1>8. Shapes'
  BY <1>1, <1>2, <1>6 DEF Inv, Shapes, Jobs, clocks, Open
<1>9. Books'
  <2>1. ASSUME NEW j \in Jobs PROVE WaveBooks(j, job[j])'
    <3>1. AdmitBooks(j, job'[j], next')
      BY <1>6 DEF Admitting
    <3> QED BY <1>1, <1>2, <1>7, <3>1 DEF AdmitBooks, WaveBooks, Uncut, Lifecycle, Open, Blank, Midway, Announcing
  <2>2. \A j \in Jobs : JobBooks(job'[j])
    BY <1>6 DEF Admitting, AdmitBooks
  <2> QED BY <1>2, <2>1, <2>2 DEF Books, Jobs, JobBooks, Blank, Announcing
<1>10. Permits'
  BY <1>2, <1>6, PermitsStay DEF Inv, permits, Admitting, Permits
<1> QED BY <1>1, <1>8, <1>9, <1>10 DEF Inv, RaiseBooks

\* A pass that ends with the records g and the launch pointer n.
LEMMA PassEndKeeps ==
  ASSUME Inv, NEW g \in [Jobs -> JobType], NEW n \in 1..(wave.size + 1), Admitting(g, n),
         job' = g, next' = n, sched' = PassEnd(g, n), slotWait' \in {"no", "waiting", "over"},
         UNCHANGED <<wave, cutoff, cancelled, expired, guard, graceOver, ramped, permits>>
  PROVE  Inv'
<1>1. Shapes'
  BY DEF Inv, Shapes, Jobs, PassEnd, Open
<1>2. \A j \in Jobs : AdmitBooks(j, g[j], n) /\ g[j] \in JobType
  BY DEF Admitting
<1>3. ASSUME NEW j \in Jobs PROVE WaveBooks(j, job[j])'
  <2>1. AdmitBooks(j, job'[j], next')
    BY <1>2
  <2>2. CASE sched' = "poll"
    BY <2>1, <2>2 DEF AdmitBooks, WaveBooks, Uncut, Lifecycle, Open, Blank, Midway, Announcing
  <2>3. CASE sched' = "return"
    <3>1. Quiet(job'[j]) /\ ~(Lifecycle /\ job'[j].reaped)
      BY <2>3 DEF PassEnd, PerJobCutoffs
    <3>2. ~job'[j].reaped
      BY <2>1, <3>1, <1>2 DEF AdmitBooks
    <3>3. job'[j].done /\ job'[j].pc \notin {"begin"} /\ ~Midway(job'[j])
      BY <2>1, <3>1 DEF AdmitBooks, JobBooks, Quiet, Holding, Launched, Midway, Announcing
    <3> QED BY <2>1, <2>3, <3>1, <3>2, <3>3 DEF AdmitBooks, WaveBooks, Uncut, Lifecycle, Open, Blank, Midway, Announcing, Quiet, Holding, Launched
  <2>4. CASE sched' = "grace"
    <3>1. Quiet(job'[j]) \/ LogicallySettled(job'[j])
      BY <2>4 DEF PassEnd
    <3>2. /\ job'[j].pc = "queued" => job'[j].done \/ job'[j].unstarted
          /\ job'[j].pc = "begin" => job'[j].unstarted
          /\ Midway(job'[j]) => job'[j].late
      BY <2>1, <3>1 DEF AdmitBooks, JobBooks, Quiet, Holding, Launched, Midway, Announcing, LogicallySettled
    <3> QED BY <2>1, <2>4, <3>2 DEF AdmitBooks, WaveBooks, Uncut, Lifecycle, Open, Blank, Midway, Announcing
  <2> QED BY <2>2, <2>3, <2>4 DEF PassEnd
<1>4. Books'
  BY <1>2, <1>3 DEF Books, Jobs, JobBooks, Blank, Announcing, AdmitBooks
<1>5. Permits'
  BY PermitsStay DEF Inv, permits, Admitting, Permits
<1>6. RaiseBooks'
  BY DEF PassEnd, RaiseBooks
<1> QED BY <1>1, <1>4, <1>5, <1>6 DEF Inv

LEMMA PassEndSteps == ASSUME Inv, AdmitStarved \/ AdmitExhausted \/ AdmitNone PROVE Inv'
<1>1. sched = "admit"
  BY DEF AdmitStarved, AdmitExhausted, AdmitNone, Admit
<1>2. wave.size \in Nat /\ next \in 1..(wave.size + 1) /\ wave.size + 1 \in 1..(wave.size + 1)
      /\ job \in [Jobs -> JobType] /\ slotWait \in {"no", "waiting", "over"}
  BY WaveFacts DEF Inv, Shapes
<1>3. Admitting(job, next)
  BY <1>1, AdmitAdmits
<1>4. CASE AdmitStarved \/ AdmitNone
  BY <1>2, <1>3, <1>4, PassEndKeeps DEF AdmitStarved, AdmitNone, clocks
<1>5. CASE AdmitExhausted
  <2>1. TailClosed(job) \in [Jobs -> JobType] /\ Admitting(TailClosed(job), wave.size + 1)
    BY <1>2, <1>3, TailAdmits
  <2>2. job' = TailClosed(job) /\ next' = wave.size + 1 /\ sched' = PassEnd(TailClosed(job), wave.size + 1)
    BY <1>5 DEF AdmitExhausted
  <2> QED BY <1>2, <1>5, <2>1, <2>2, PassEndKeeps DEF AdmitExhausted, clocks
<1> QED BY <1>4, <1>5

LEMMA LaunchKeeps == ASSUME Inv, AdmitLaunch PROVE Inv'
<1> DEFINE r == [job[next] EXCEPT !.pc = "begin"]
<1>1. /\ sched = "admit" /\ next <= wave.size /\ free > 0 /\ free' = free - 1 /\ next' = next + 1
      /\ job' = [job EXCEPT ![next] = r] /\ slotWait' = "no" /\ ramped' = FALSE
      /\ UNCHANGED <<wave, sched, cutoff, cancelled, expired, guard, graceOver, foreign>>
  BY DEF AdmitLaunch, Admit, Room
<1>2. wave.size \in Nat /\ next \in Jobs /\ next \in Nat
  BY <1>1, WaveFacts DEF Inv, Shapes, Jobs
<1>3. job[next] \in JobType /\ JobBooks(job[next]) /\ WaveBooks(next, job[next])
  BY <1>2, JobFacts
<1>4. /\ r \in JobType /\ r.pc = "begin" /\ r.abandoned = job[next].abandoned /\ r.entered = job[next].entered
      /\ r.done = job[next].done /\ r.error = job[next].error /\ r.ret = job[next].ret
      /\ r.outcome = job[next].outcome /\ r.released = job[next].released /\ r.late = job[next].late
      /\ r.unstarted = job[next].unstarted /\ r.reaped = job[next].reaped /\ r.res = job[next].res
  BY <1>3 DEF JobType, Steps
<1> HIDE DEF r
<1>5. job[next].pc = "queued" /\ job[next].outcome = "none" /\ (job[next].abandoned => job[next].unstarted)
  BY <1>2, <1>3 DEF WaveBooks
<1>6. \A j \in Jobs : job'[j] = IF j = next THEN r ELSE job[j]
  BY <1>1, <1>2 DEF Inv, Shapes
<1>7. Shapes'
  <2>1. job' \in [Jobs -> JobType]
    BY <1>1, <1>2, <1>4 DEF Inv, Shapes
  <2>2. next' \in 1..(wave.size + 1)
    BY <1>1, <1>2
  <2> QED BY <1>1, <2>1, <2>2 DEF Inv, Shapes, Jobs
<1>8. ASSUME NEW j \in Jobs PROVE JobBooks(job'[j]) /\ WaveBooks(j, job[j])'
  <2>1. CASE j = next
    <3>1. job'[j] = r
      BY <1>6, <2>1
    <3>2. JobBooks(r)
      BY <1>3, <1>4, <1>5 DEF JobBooks, Blank, Announcing
    <3> QED BY <1>1, <1>2, <1>3, <1>4, <1>5, <2>1, <3>1, <3>2 DEF WaveBooks, Uncut, Lifecycle, Open, Blank, Midway, Announcing
  <2>2. CASE j # next
    <3>1. job'[j] = job[j] /\ JobBooks(job[j]) /\ WaveBooks(j, job[j]) /\ j \in Nat
      BY <1>2, <1>6, <2>2, JobFacts DEF Jobs
    <3> QED BY <1>1, <1>2, <2>2, <3>1 DEF WaveBooks, Uncut, Lifecycle, Open, Blank, Midway, Announcing
  <2> QED BY <2>1, <2>2
<1>9. Books'
  BY <1>1, <1>8 DEF Books, Jobs, JobBooks, Blank, Announcing
<1>10. Permits'
  <2>1. Held' = Held \cup {next} /\ next \notin Held
    BY <1>1, <1>2, <1>3, <1>4, <1>5, <1>6 DEF Held, Holding, Launched, Jobs, JobBooks
  <2>2. IsFiniteSet(Held) /\ Cardinality(Held) \in Nat
    BY WaveFacts DEF Held, Inv, Shapes
  <2>3. Cardinality(Held') = Cardinality(Held) + 1
    BY <2>1, <2>2, FS_AddElement
  <2> QED BY <1>1, <2>2, <2>3, BoundsAssumption DEF Inv, Permits
<1> QED BY <1>1, <1>7, <1>9, <1>10 DEF Inv, RaiseBooks

LEMMA ReturnKeeps == ASSUME Inv, ReturnRaw PROVE Inv'
<1>1. sched = "return" /\ UNCHANGED <<wave, next, cutoff, cancelled, clocks, permits>>
  BY DEF ReturnRaw
<1>2. \A j \in Jobs : job[j] \in JobType /\ JobBooks(job[j]) /\ WaveBooks(j, job[j])
  BY JobFacts
<1>3. \A j \in Jobs : /\ job[j].done /\ ~job[j].unstarted /\ ~Midway(job[j]) /\ job[j].pc # "begin"
                      /\ ~job[j].error => job[j].outcome # "none"
  BY <1>1, <1>2 DEF WaveBooks, JobBooks, Quiet, Holding, Launched, Midway, Announcing, Blank
<1>4. CASE sched' = "raised"
  <2>1. job' = job /\ \E j \in Jobs : job[j].error
    BY <1>3, <1>4 DEF ReturnRaw
  <2>2. Shapes'
    BY <1>1, <1>4, <2>1 DEF Inv, Shapes, Jobs, clocks
  <2>3. \A j \in Jobs : WaveBooks(j, job[j])'
    BY <1>1, <1>2, <1>3, <1>4, <2>1 DEF WaveBooks, Uncut, Lifecycle, Open, Blank
  <2>4. Books'
    BY <1>1, <1>2, <2>1, <2>3 DEF Books, Jobs
  <2>5. Permits'
    BY <1>1, <2>1, PermitsStay DEF Inv, permits, Permits, Shapes
  <2> QED BY <1>1, <2>1, <2>2, <2>4, <2>5 DEF Inv, RaiseBooks, Jobs
<1>5. CASE sched' = "closed"
  <2>1. job' = [j \in Jobs |-> [job[j] EXCEPT !.res = job[j].outcome]]
    BY <1>5 DEF ReturnRaw
  <2>2. \A j \in Jobs : job[j].outcome \in Results
    BY <1>2, <1>3, <1>5 DEF ReturnRaw, JobType
  <2>3. \A j \in Jobs : /\ job'[j] \in JobType /\ job'[j].res = job[j].outcome
                        /\ job'[j].pc = job[j].pc /\ job'[j].abandoned = job[j].abandoned /\ job'[j].entered = job[j].entered
                        /\ job'[j].done = job[j].done /\ job'[j].error = job[j].error /\ job'[j].ret = job[j].ret
                        /\ job'[j].outcome = job[j].outcome /\ job'[j].released = job[j].released /\ job'[j].late = job[j].late
                        /\ job'[j].unstarted = job[j].unstarted /\ job'[j].reaped = job[j].reaped
    BY <1>2, <2>1, <2>2 DEF JobType
  <2>4. Shapes'
    BY <1>1, <1>5, <2>1, <2>3 DEF Inv, Shapes, Jobs, clocks
  <2>5. ASSUME NEW j \in Jobs PROVE JobBooks(job'[j]) /\ WaveBooks(j, job[j])'
    <3>1. JobBooks(job'[j])
      BY <1>2, <2>3 DEF JobBooks, Blank, Announcing
    <3> QED BY <1>1, <1>2, <1>3, <1>5, <2>3, <3>1 DEF WaveBooks, Uncut, Lifecycle, Open, Blank, Midway, Announcing
  <2>6. Books'
    BY <1>1, <2>5 DEF Books, Jobs, JobBooks, Blank, Announcing
  <2>7. Permits'
    BY <1>1, <2>3, <2>4, PermitsStay DEF Inv, permits, Permits, Shapes, Holding, Launched, Jobs
  <2> QED BY <1>5, <2>4, <2>6, <2>7 DEF Inv, RaiseBooks
<1> QED BY <1>4, <1>5 DEF ReturnRaw

LEMMA InterruptKeeps == ASSUME Inv, Interrupt PROVE Inv'
<1>1. /\ sched \in Open \ {"return"} /\ sched' = "raised" /\ cutoff' = "interrupt"
      /\ UNCHANGED <<wave, next, cancelled, clocks, permits>>
  BY DEF Interrupt, Open
<1>2. \A j \in Jobs : job[j] \in JobType /\ JobBooks(job[j]) /\ WaveBooks(j, job[j])
  BY JobFacts
<1> DEFINE c == Cut(job, FALSE)
<1>3. ASSUME NEW j \in Jobs
      PROVE  /\ c[j] \in JobType /\ JobBooks(c[j])
             /\ c[j].pc = job[j].pc /\ c[j].released = job[j].released
             /\ c[j].reaped = job[j].reaped /\ c[j].outcome = job[j].outcome
             /\ c[j].pc = "queued" => c[j].done \/ c[j].unstarted
             /\ c[j].pc = "queued" /\ c[j].outcome = "none" => c[j].unstarted
             /\ c[j].pc = "begin" => c[j].unstarted
             /\ Midway(c[j]) => c[j].late
             /\ Blank(c[j]) => c[j].unstarted
  <2>1. job \in [Jobs -> JobType] /\ JobBooks(job[j])
    BY <1>2 DEF Inv, Shapes
  <2>2. PICK strict \in BOOLEAN : c = Cut(job, strict)
    BY Zenon
  <2> HIDE DEF c
  <2> QED BY <2>1, <2>2, CutOne
<1>4. job' = [j \in Jobs |-> [c[j] EXCEPT !.res = IF c[j].done /\ ~c[j].error THEN c[j].outcome ELSE "none"]]
  BY DEF Interrupt
<1> HIDE DEF c
<1>5. ASSUME NEW j \in Jobs
      PROVE  /\ job'[j] \in JobType
             /\ job'[j].pc = c[j].pc /\ job'[j].abandoned = c[j].abandoned /\ job'[j].entered = c[j].entered
             /\ job'[j].done = c[j].done /\ job'[j].error = c[j].error /\ job'[j].ret = c[j].ret
             /\ job'[j].outcome = c[j].outcome /\ job'[j].released = c[j].released /\ job'[j].late = c[j].late
             /\ job'[j].unstarted = c[j].unstarted /\ job'[j].reaped = c[j].reaped
  <2> DEFINE x == IF c[j].done /\ ~c[j].error THEN c[j].outcome ELSE "none"
  <2>1. job'[j] = [c[j] EXCEPT !.res = x] /\ c[j] \in JobType
    BY <1>3, <1>4
  <2>2. x \in Results \cup {"none"}
    BY <2>1 DEF JobType
  <2> HIDE DEF x
  <2> QED BY <2>1, <2>2 DEF JobType
<1>6. Shapes'
  BY <1>1, <1>4, <1>5 DEF Inv, Shapes, Jobs, clocks
<1>7. ASSUME NEW j \in Jobs PROVE JobBooks(job'[j]) /\ WaveBooks(j, job[j])'
  <2>1. JobBooks(job'[j])
    BY <1>3, <1>5 DEF JobBooks, Blank, Announcing
  <2>2. WaveBooks(j, job[j])
    BY <1>2
  <2> QED BY <1>1, <1>3, <1>5, <2>1, <2>2 DEF WaveBooks, Uncut, Lifecycle, Open, Blank, Midway, Announcing
<1>8. Books'
  BY <1>1, <1>7 DEF Books, Jobs, JobBooks, Blank, Announcing
<1>9. Permits'
  BY <1>1, <1>3, <1>5, <1>6, PermitsStay DEF Inv, permits, Permits, Shapes, Holding, Launched, Jobs
<1> QED BY <1>1, <1>6, <1>8, <1>9 DEF Inv, RaiseBooks

\* The end of a wave, when the wave is not raised: what one answer is.
LEMMA AnswerOne ==
  ASSUME Inv, sched = "grace", NEW j \in Jobs, ~Raises(job[j])
  PROVE  /\ Assembled(job[j]) \in Results
         /\ ~job[j].unstarted /\ (~job[j].done \/ job[j].outcome = "indeterminate") =>
              Assembled(job[j]) = "indeterminate"
         /\ job[j].outcome = "committed" /\ job[j].released => Assembled(job[j]) = "committed"
         /\ IF job[j].entered THEN Assembled(job[j]) # "notrun"
            ELSE Assembled(job[j]) \in {"notrun", "indeterminate"}
<1> DEFINE q == job[j]
<1>1. q \in JobType /\ JobBooks(q) /\ WaveBooks(j, q)
  BY JobFacts
<1>2. /\ q.outcome \in Results \cup {"none"}
      /\ {q.unstarted, q.late, q.done, q.released, q.entered, q.error} \subseteq BOOLEAN
  BY <1>1 DEF JobType
<1>3. q.done \/ q.late \/ q.unstarted
  BY <1>1 DEF WaveBooks, JobBooks, Uncut, Midway, JobType, Steps, Announcing
<1> HIDE DEF q
<1>4. CASE q.unstarted
  BY <1>1, <1>2, <1>4 DEF Assembled, JobBooks, Results, q
<1>5. CASE ~q.unstarted /\ Straggling(q)
  <2>1. Assembled(q) = "indeterminate"
    BY <1>5 DEF Assembled
  <2> QED BY <1>1, <1>2, <1>5, <2>1 DEF JobBooks, Results, Returns, Straggling, q
<1>6. CASE ~q.unstarted /\ ~Straggling(q)
  <2>1. q.outcome # "none" /\ ~q.error /\ q.done
    BY <1>1, <1>6 DEF Raises, JobBooks, q
  <2>2. Assembled(q) = IF q.late THEN LateResult(q) ELSE q.outcome
    BY <1>6 DEF Assembled
  <2>3. q.late => q.outcome # "notrun"
    BY <1>1, <2>1 DEF JobBooks
  <2>4. /\ LateResult(q) \in {q.outcome, "failed", "indeterminate", "withdrawn"}
        /\ q.outcome \in {"indeterminate", "committed"} => LateResult(q) = q.outcome
    BY DEF LateResult
  <2>5. q.outcome \in {"notrun", "indeterminate"} \/ (q.entered /\ q.outcome \in Returns)
    BY <1>1, <2>1 DEF JobBooks
  <2>6. q.outcome = "notrun" => ~q.entered
    BY <1>1, <2>1 DEF JobBooks
  <2>7. ~q.entered => LateResult(q) \in {"notrun", "indeterminate"} \/ ~q.late
    BY <2>3, <2>4, <2>5 DEF Returns
  <2> QED BY <1>2, <2>1, <2>2, <2>3, <2>4, <2>5, <2>6, <2>7 DEF Results, Returns, q
<1> QED BY <1>4, <1>5, <1>6

\* The records at the end: stragglers lose their permit and nothing else.
LEMMA CloseRecords ==
  ASSUME Inv, Close, NEW j \in Jobs
  PROVE  /\ job'[j] \in JobType
         /\ job'[j].res = IF sched' = "raised" THEN job[j].res ELSE Assembled(job[j])
         /\ job'[j].released = (job[j].released \/ (Straggling(job[j]) /\ Launched(job[j])))
         /\ job'[j].pc = job[j].pc /\ job'[j].abandoned = job[j].abandoned
         /\ job'[j].entered = job[j].entered /\ job'[j].done = job[j].done
         /\ job'[j].error = job[j].error /\ job'[j].ret = job[j].ret
         /\ job'[j].outcome = job[j].outcome /\ job'[j].late = job[j].late
         /\ job'[j].unstarted = job[j].unstarted /\ job'[j].reaped = job[j].reaped
<1> DEFINE q == job[j]
           raises == \E i \in Jobs : Raises(job[i])
           loose == q.released \/ (j \in Stragglers /\ Launched(q))
           x == IF raises THEN q.res ELSE Assembled(q)
<1>1. q \in JobType /\ sched = "grace" /\ sched' = IF raises THEN "raised" ELSE "closed"
  BY JobFacts DEF Close
<1>2. ReleaseStragglers[j] = [q EXCEPT !.released = loose]
  BY DEF ReleaseStragglers
<1>3. job'[j] = [ReleaseStragglers[j] EXCEPT !.res = x]
  <2>1. job'[j] = [ReleaseStragglers[j] EXCEPT !.res = IF raises THEN ReleaseStragglers[j].res ELSE Assembled(job[j])]
    BY DEF Close
  <2>2. ReleaseStragglers[j].res = q.res
    BY <1>1, <1>2 DEF JobType
  <2> QED BY <2>1, <2>2
<1>4. loose \in BOOLEAN /\ x \in Results \cup {"none"}
  <2>1. q.released \in BOOLEAN /\ q.res \in Results \cup {"none"}
    BY <1>1 DEF JobType
  <2>2. ~raises => Assembled(q) \in Results
    BY <1>1, AnswerOne
  <2> QED BY <2>1, <2>2
<1>5. loose = (q.released \/ (Straggling(q) /\ Launched(q)))
  BY DEF Stragglers
<1>6. x = IF sched' = "raised" THEN q.res ELSE Assembled(q)
  BY <1>1
<1> HIDE DEF loose, x
<1>7. job'[j] = [q EXCEPT !.released = loose, !.res = x]
  BY <1>2, <1>3
<1>8. /\ job'[j] \in JobType /\ job'[j].res = x /\ job'[j].released = loose
      /\ job'[j].pc = q.pc /\ job'[j].abandoned = q.abandoned /\ job'[j].entered = q.entered
      /\ job'[j].done = q.done /\ job'[j].error = q.error /\ job'[j].ret = q.ret
      /\ job'[j].outcome = q.outcome /\ job'[j].late = q.late
      /\ job'[j].unstarted = q.unstarted /\ job'[j].reaped = q.reaped
  BY <1>1, <1>4, <1>7 DEF JobType
<1> QED BY <1>5, <1>6, <1>8

LEMMA CloseKeeps == ASSUME Inv, Close PROVE Inv'
<1> DEFINE raises == \E i \in Jobs : Raises(job[i])
<1>1. /\ sched = "grace" /\ sched' = IF raises THEN "raised" ELSE "closed"
      /\ UNCHANGED <<wave, next, cutoff, cancelled, clocks, foreign>>
  BY DEF Close
<1>2. \A j \in Jobs : job[j] \in JobType /\ JobBooks(job[j]) /\ WaveBooks(j, job[j])
  BY JobFacts
<1>3. Shapes'
  <2>1. job' \in [Jobs -> JobType]
    BY CloseRecords DEF Close
  <2> QED BY <1>1, <2>1 DEF Inv, Shapes, Jobs, clocks
<1>4. ASSUME NEW j \in Jobs PROVE JobBooks(job'[j]) /\ WaveBooks(j, job[j])'
  <2> DEFINE q == job[j]
             r == job'[j]
  <2>1. /\ r.released = (q.released \/ (Straggling(q) /\ Launched(q)))
        /\ r.pc = q.pc /\ r.abandoned = q.abandoned /\ r.entered = q.entered
        /\ r.done = q.done /\ r.error = q.error /\ r.ret = q.ret
        /\ r.outcome = q.outcome /\ r.late = q.late
        /\ r.unstarted = q.unstarted /\ r.reaped = q.reaped
    BY CloseRecords
  <2>2. sched' = "closed" =>
          (~q.unstarted /\ (~q.done \/ q.outcome = "indeterminate") => r.res = "indeterminate")
    BY <1>1, CloseRecords, AnswerOne
  <2>3. JobBooks(q) /\ WaveBooks(j, q)
    BY <1>2
  <2>4. q.released \in BOOLEAN /\ q.late \in BOOLEAN /\ q.done \in BOOLEAN
    BY <1>2 DEF JobType
  <2> HIDE DEF q
  <2>5. JobBooks(r)
    BY <2>1, <2>3, <2>4 DEF JobBooks, Blank, Announcing, Straggling
  <2>6. Midway(r) => r.released /\ r.late
    BY <1>1, <2>1, <2>3, <2>4 DEF JobBooks, WaveBooks, Midway, Announcing, Straggling, Launched, Uncut
  <2> QED BY <1>1, <2>1, <2>2, <2>3, <2>5, <2>6 DEF WaveBooks, Uncut, Lifecycle, Open, Blank, Midway, Announcing
<1>5. Books'
  BY <1>1, <1>4 DEF Books, Jobs, JobBooks, Blank, Announcing
<1>6. Permits'
  <2> DEFINE Freed == {j \in Jobs : ReleaseStragglers[j].released /\ ~job[j].released}
  <2>1. ASSUME NEW j \in Jobs
        PROVE  ReleaseStragglers[j].released = (job[j].released \/ (Straggling(job[j]) /\ Launched(job[j])))
    BY <1>2 DEF ReleaseStragglers, Stragglers, JobType
  <2>2. Held' = Held \ Freed /\ Freed \subseteq Held
    BY <1>1, <2>1, CloseRecords DEF Held, Holding, Launched, Jobs
  <2>3. /\ IsFiniteSet(Held) /\ Cardinality(Held) \in Nat /\ Cardinality(Freed) \in Nat
        /\ Cardinality(Held') \in Nat
    BY <2>2, WaveFacts DEF Held, Inv, Shapes
  <2>4. Held \cap Freed = Freed
    BY <2>2
  <2>5. Cardinality(Held') = Cardinality(Held) - Cardinality(Freed)
    <3> HIDE DEF Freed
    <3>1. Cardinality(Held \ Freed) = Cardinality(Held) - Cardinality(Held \cap Freed)
      BY <2>3, FS_Difference
    <3> QED BY <2>2, <2>4, <3>1
  <2>6. free' = free + Cardinality(Freed)
    BY DEF Close
  <2> HIDE DEF Freed
  <2> QED BY <1>1, <2>3, <2>5, <2>6, BoundsAssumption DEF Inv, Permits
<1>7. RaiseBooks'
  <2> SUFFICES ASSUME raises PROVE \E j \in Jobs : job'[j].error
    BY <1>1 DEF RaiseBooks, Jobs
  <2>1. PICK j \in Jobs : Raises(job[j])
    OBVIOUS
  <2>2. job[j].error
    BY <1>1, <1>2, <2>1 DEF Raises, JobBooks, WaveBooks, Straggling, Blank, Uncut, Midway, Announcing, JobType, Steps
  <2> QED BY <2>2, CloseRecords
<1> QED BY <1>3, <1>5, <1>6, <1>7 DEF Inv

-----------------------------------------------------------------------------
(* The user, the clocks and the other waves, and the start.                *)

LEMMA OutsideKeeps ==
  ASSUME Inv, UNCHANGED <<wave, job, next, sched, cutoff>>, Shapes',
         cancelled => cancelled', expired => expired',
         free' \in Nat, foreign' \in 0..ForeignMax, free' + foreign' = free + foreign
  PROVE  Inv'
<1>1. \A j \in Jobs : WaveBooks(j, job[j]) => WaveBooks(j, job[j])'
  BY DEF WaveBooks, Uncut, Lifecycle
<1>2. Books'
  BY <1>1 DEF Inv, Books, Jobs
<1>3. Permits'
  BY PermitsStay DEF Inv, Shapes
<1> QED BY <1>2, <1>3 DEF Inv, RaiseBooks, Jobs

LEMMA OutsideSteps ==
  ASSUME Inv, CancelTurn \/ DeadlinePasses \/ GuardPasses \/ GracePasses \/ SlotWaitPasses
              \/ StaggerPasses \/ ForeignTakes \/ ForeignFrees
  PROVE  Inv'
<1>1. free \in Nat /\ foreign \in Nat /\ foreign <= ForeignMax /\ ForeignMax \in Nat
  BY BoundsAssumption DEF Inv, Permits
<1> USE DEF Still
<1>2. CASE CancelTurn \/ DeadlinePasses \/ GuardPasses \/ GracePasses \/ SlotWaitPasses \/ StaggerPasses
  <2>1. UNCHANGED <<wave, job, next, sched, cutoff, permits>> /\ (cancelled => cancelled') /\ (expired => expired')
    BY <1>2 DEF CancelTurn, DeadlinePasses, GuardPasses, GracePasses, SlotWaitPasses, StaggerPasses, clocks
  <2>2. Shapes'
    BY <1>2 DEF Inv, Shapes, Jobs, CancelTurn, DeadlinePasses, GuardPasses, GracePasses, SlotWaitPasses, StaggerPasses, clocks
  <2> QED BY <1>1, <2>1, <2>2, OutsideKeeps DEF permits, Inv, Permits
<1>3. CASE ForeignTakes
  <2>1. free' \in Nat /\ foreign' \in 0..ForeignMax /\ free' + foreign' = free + foreign
    BY <1>1, <1>3 DEF ForeignTakes
  <2> QED BY <1>3, <2>1, OutsideKeeps DEF ForeignTakes, clocks, Inv, Shapes, Jobs
<1>4. CASE ForeignFrees
  <2>1. free' \in Nat /\ foreign' \in 0..ForeignMax /\ free' + foreign' = free + foreign
    BY <1>1, <1>4 DEF ForeignFrees
  <2> QED BY <1>4, <2>1, OutsideKeeps DEF ForeignFrees, clocks, Inv, Shapes, Jobs
<1> QED BY <1>2, <1>3, <1>4

LEMMA Start == Init => Inv
<1> SUFFICES ASSUME Init PROVE Inv
  OBVIOUS
<1>1. wave.size \in Nat \ {0}
  BY WaveFacts DEF Init
<1>2. Fresh \in JobType /\ job = [j \in Jobs |-> Fresh]
  BY DEF Init, Fresh, JobType, Steps
<1>3. Shapes
  <2>1. job \in [Jobs -> JobType] /\ next \in 1..(wave.size + 1)
    BY <1>1, <1>2 DEF Init
  <2> QED BY <2>1 DEF Init, Shapes, Open
<1>4. ASSUME NEW j \in Jobs PROVE JobBooks(job[j]) /\ WaveBooks(j, job[j])
  <2>1. job[j] = Fresh
    BY <1>2
  <2> QED BY <2>1 DEF Init, Fresh, JobBooks, WaveBooks, Blank, Announcing, Midway, Uncut, Open
<1>5. Permits
  <2>1. Held = {}
    BY <1>2 DEF Held, Holding, Launched, Fresh
  <2> QED BY <2>1, FS_EmptySet, BoundsAssumption DEF Init, Permits
<1> QED BY <1>3, <1>4, <1>5 DEF Inv, Books, RaiseBooks, Init

LEMMA Step == Inv /\ [Next]_vars => Inv'
<1> SUFFICES ASSUME Inv, [Next]_vars PROVE Inv'
  OBVIOUS
<1>1. CASE Scheduler
  BY <1>1, PollCutKeeps, PollPassKeeps, AdmitCutKeeps, LaunchKeeps, PassEndSteps, ReturnKeeps, CloseKeeps DEF Scheduler
<1>2. CASE Interrupt
  BY <1>2, InterruptKeeps
<1>3. ASSUME NEW j \in Jobs,
             WorkerLockStep(j) \/ Announce(j) \/ Publish(j) \/ HandlerEnds(j) \/ JobGracePasses(j)
      PROVE  Inv'
  BY <1>3, WorkerSteps
<1>4. CASE CancelTurn \/ DeadlinePasses \/ GuardPasses \/ GracePasses \/ SlotWaitPasses
           \/ StaggerPasses \/ ForeignTakes \/ ForeignFrees
  BY <1>4, OutsideSteps
<1>5. CASE UNCHANGED vars
  BY <1>5, OutsideKeeps DEF vars, clocks, permits, Inv, Shapes, Jobs, Permits
<1> QED BY <1>1, <1>2, <1>3, <1>4, <1>5 DEF Next

LEMMA Invariance == Spec => []Inv
BY Start, Step, PTL DEF Spec

-----------------------------------------------------------------------------
(* What a caller can see of a step.                                        *)

\* The passes of the scheduler launch nothing, start no handler and answer
\* no call.
LEMMA PassesUnseen ==
  ASSUME Inv, NEW j \in Jobs,
         PollCut \/ PollPass \/ AdmitCut \/ AdmitStarved \/ AdmitExhausted \/ AdmitNone
  PROVE  /\ job'[j].pc = job[j].pc /\ job'[j].entered = job[j].entered
         /\ job'[j].res = job[j].res
         /\ sched \in Open /\ sched' \in Open /\ wave' = wave
<1> DEFINE Alike(f) == /\ f \in [Jobs -> JobType]
                       /\ \A i \in Jobs : /\ JobBooks(f[i]) /\ f[i].pc = job[i].pc
                                          /\ f[i].entered = job[i].entered /\ f[i].res = job[i].res
<1>0. /\ wave' = wave /\ sched \in Open /\ sched' \in Open
  BY DEF PollCut, PollPass, AdmitCut, AdmitStarved, AdmitExhausted, AdmitNone, Admit, PassEnd, Open
<1>1. Alike(job)
  BY JobFacts DEF Inv, Shapes
<1>2. ASSUME sched = "poll", NEW idle \in SUBSET Silent PROVE Alike(TimedOut(idle))
  <2>1. \A i \in Jobs : /\ TimedOut(idle)[i] \in JobType /\ JobBooks(TimedOut(idle)[i])
                        /\ TimedOut(idle)[i].pc = job[i].pc /\ TimedOut(idle)[i].res = job[i].res
                        /\ TimedOut(idle)[i].entered = job[i].entered
    BY <1>2, ReapOne
  <2> QED BY <2>1 DEF TimedOut
<1>3. ASSUME NEW f, Alike(f)
      PROVE  TailClosed(f)[j].pc = job[j].pc /\ TailClosed(f)[j].entered = job[j].entered /\ TailClosed(f)[j].res = job[j].res
  <2>1. f[j] \in JobType
    BY <1>3
  <2>2. TailClosed(f)[j] = IF j < next THEN f[j] ELSE [f[j] EXCEPT !.abandoned = TRUE, !.done = TRUE, !.outcome = "notrun"]
    BY DEF TailClosed
  <2> QED BY <1>3, <2>1, <2>2 DEF JobType
<1>4. ASSUME NEW f, Alike(f), NEW strict \in BOOLEAN
      PROVE  Cut(f, strict)[j].pc = job[j].pc /\ Cut(f, strict)[j].entered = job[j].entered /\ Cut(f, strict)[j].res = job[j].res
  BY <1>4, CutOne
<1>5. CASE PollCut
  <2>1. PICK idle \in SUBSET Silent, steered \in BOOLEAN :
          job' = Cut(IF cancelled THEN job ELSE TimedOut(idle), ~cancelled /\ ~steered)
    BY <1>5 DEF PollCut
  <2> DEFINE f == IF cancelled THEN job ELSE TimedOut(idle)
             strict == ~cancelled /\ ~steered
  <2>2. Alike(f) /\ strict \in BOOLEAN /\ job' = Cut(f, strict)
    BY <1>1, <1>2, <1>5, <2>1 DEF PollCut
  <2> HIDE DEF f, strict, Alike
  <2> QED BY <1>0, <1>4, <2>2
<1>6. CASE AdmitCut
  BY <1>0, <1>1, <1>4, <1>6 DEF AdmitCut
<1>7. CASE PollPass
  <2>1. PICK idle \in SUBSET Silent : job' \in {TimedOut(idle), TailClosed(TimedOut(idle))}
    BY <1>7 DEF PollPass
  <2>2. Alike(TimedOut(idle))
    BY <1>2, <1>7 DEF PollPass
  <2> QED BY <1>0, <1>3, <2>1, <2>2
<1>8. CASE AdmitStarved \/ AdmitExhausted \/ AdmitNone
  <2>1. job' \in {job, TailClosed(job)}
    BY <1>8 DEF AdmitStarved, AdmitExhausted, AdmitNone
  <2> QED BY <1>0, <1>1, <1>3, <2>1
<1> QED BY <1>5, <1>6, <1>7, <1>8

\* The step of a worker starts at most its own handler, and only while the
\* wave is open.
LEMMA WorkerSeen ==
  ASSUME Inv, NEW i \in Jobs, NEW j \in Jobs,
         WorkerLockStep(i) \/ Announce(i) \/ Publish(i) \/ HandlerEnds(i) \/ JobGracePasses(i)
  PROVE  /\ wave' = wave /\ sched' = sched
         /\ job'[j].res = job[j].res
         /\ job[j].pc = "queued" => job'[j].pc # "begin"
         /\ \/ job'[j].entered = job[j].entered
            \/ j = i /\ sched \in Open /\ ~job[j].entered /\ job'[j].entered = TRUE
<1>1. wave' = wave /\ sched' = sched
  BY DEF WorkerLockStep, BeginRefused, BeginAnnounce, BeginHandler, AnnounceFailed, CrossRefused, Cross,
     Settle, Finish, Announce, Publish, HandlerEnds, JobGracePasses, Become, Still
<1>2. job \in [Jobs -> JobType]
  BY DEF Inv, Shapes
<1>3. CASE i # j
  <2>1. job'[j] = job[j]
    BY <1>2, <1>3 DEF WorkerLockStep, BeginRefused, BeginAnnounce, BeginHandler, AnnounceFailed, CrossRefused, Cross,
     Settle, Finish, Announce, Publish, HandlerEnds, JobGracePasses, Become, Still
  <2> QED BY <1>1, <2>1
<1>4. CASE i = j
  <2>1. job[j] \in JobType
    BY JobFacts
  <2>2. CASE BeginHandler(j) \/ Cross(j)
    <3>1. job'[j] = [job[j] EXCEPT !.entered = TRUE, !.pc = "handler"]
      BY <1>2, <2>2 DEF BeginHandler, Cross, Become
    <3>2. job[j].pc \in {"begin", "crossing"} /\ ~Closing(j)
      BY <2>2 DEF BeginHandler, Cross
    <3>3. JobBooks(job[j]) /\ WaveBooks(j, job[j])
      BY JobFacts
    <3>4. sched \in Open /\ ~job[j].entered
      BY <3>2, <3>3 DEF JobBooks, WaveBooks, Closing, Uncut, Midway, Announcing, Open
    <3> QED BY <1>1, <1>4, <2>1, <3>1, <3>4 DEF JobType
  <2> DEFINE Seen == /\ job'[j].entered = job[j].entered /\ job'[j].res = job[j].res
                     /\ job[j].pc = "queued" => job'[j].pc # "begin"
  <2>3. CASE BeginRefused(j)
    <3>1. job'[j] = [job[j] EXCEPT !.abandoned = TRUE, !.done = TRUE, !.tardy = expired, !.pc = "finish"]
      BY <1>2, <2>3 DEF BeginRefused, Become
    <3>2. Seen
      BY <2>1, <3>1 DEF JobType
    <3> QED BY <1>1, <3>2
  <2>4. CASE CrossRefused(j)
    <3>1. job'[j] = [job[j] EXCEPT !.abandoned = TRUE, !.done = TRUE, !.outcome = "indeterminate", !.tardy = expired, !.pc = "finish"]
      BY <1>2, <2>4 DEF CrossRefused, Become
    <3>2. Seen
      BY <2>1, <3>1 DEF JobType
    <3> QED BY <1>1, <3>2
  <2>5. CASE AnnounceFailed(j)
    <3>1. job'[j] = [job[j] EXCEPT !.error = TRUE, !.done = TRUE, !.tardy = expired, !.pc = "finish"]
      BY <1>2, <2>5 DEF AnnounceFailed, Become
    <3>2. Seen
      BY <2>1, <3>1 DEF JobType
    <3> QED BY <1>1, <3>2
  <2>6. CASE Settle(j)
    <3>1. job'[j] = [job[j] EXCEPT !.outcome = job[j].ret, !.done = TRUE, !.ret = "none", !.pc = "finish"]
      BY <1>2, <2>6 DEF Settle, Become
    <3>2. Seen
      BY <2>1, <3>1 DEF JobType
    <3> QED BY <1>1, <3>2
  <2>7. CASE Finish(j)
    <3>1. job'[j] = [job[j] EXCEPT !.released = TRUE, !.pc = "gone"]
      BY <1>2, <2>7 DEF Finish
    <3>2. Seen
      BY <2>1, <3>1 DEF JobType
    <3> QED BY <1>1, <3>2
  <2>8. CASE JobGracePasses(j)
    <3>1. job'[j] = [job[j] EXCEPT !.over = TRUE]
      BY <1>2, <2>8 DEF JobGracePasses
    <3>2. Seen
      BY <2>1, <3>1 DEF JobType
    <3> QED BY <1>1, <3>2
  <2>9. CASE BeginAnnounce(j) \/ Announce(j)
    <3>1. PICK x \in {"announce", "publishing", "crossing"} : job'[j] = [job[j] EXCEPT !.pc = x]
      BY <1>2, <2>9 DEF BeginAnnounce, Announce, Become
    <3>2. Seen
      BY <2>1, <3>1 DEF JobType
    <3> QED BY <1>1, <3>2
  <2>10. CASE Publish(j)
    <3>1. PICK x \in {"crossing", "broken"} : job'[j] = [job[j] EXCEPT !.published = TRUE, !.pc = x]
      BY <1>2, <2>10 DEF Publish, Become
    <3>2. Seen
      BY <2>1, <3>1 DEF JobType
    <3> QED BY <1>1, <3>2
  <2>11. CASE HandlerEnds(j)
    <3>1. PICK x \in Answers : job'[j] = [job[j] EXCEPT !.ret = x, !.tardy = expired, !.pc = "settle"]
      BY <1>2, <2>11 DEF HandlerEnds, Become
    <3>2. Seen
      BY <2>1, <3>1 DEF JobType
    <3> QED BY <1>1, <3>2
  <2> QED BY <1>4, <2>2, <2>3, <2>4, <2>5, <2>6, <2>7, <2>8, <2>9, <2>10, <2>11 DEF WorkerLockStep
<1> QED BY <1>3, <1>4

\* The rest of the steps: the launch starts nothing, and what the user, the
\* clocks and the other waves do is not seen.
LEMMA OthersUnseen ==
  ASSUME Inv, NEW j \in Jobs,
         \/ AdmitLaunch
         \/ CancelTurn \/ DeadlinePasses \/ GuardPasses \/ GracePasses
         \/ SlotWaitPasses \/ StaggerPasses \/ ForeignTakes \/ ForeignFrees
         \/ UNCHANGED vars
  PROVE  /\ wave' = wave /\ sched' = sched
         /\ job'[j].entered = job[j].entered /\ job'[j].res = job[j].res
         /\ ~AdmitLaunch => job' = job
<1>1. CASE AdmitLaunch
  <2>1. job' = [job EXCEPT ![next] = [@ EXCEPT !.pc = "begin"]] /\ wave' = wave /\ sched' = sched
    BY <1>1 DEF AdmitLaunch
  <2>2. job \in [Jobs -> JobType] /\ job[j] \in JobType
    BY JobFacts DEF Inv, Shapes
  <2> QED BY <1>1, <2>1, <2>2 DEF JobType
<1>2. CASE ~AdmitLaunch
  BY <1>2 DEF CancelTurn, DeadlinePasses, GuardPasses, GracePasses, SlotWaitPasses, StaggerPasses,
     ForeignTakes, ForeignFrees, Still, vars
<1> QED BY <1>1, <1>2

\* Interrupt starts nothing; what it hands over is true.
LEMMA InterruptSeen ==
  ASSUME Inv, Interrupt, NEW j \in Jobs
  PROVE  /\ wave' = wave /\ sched \in Open /\ sched' = "raised"
         /\ job'[j].entered = job[j].entered /\ job'[j].pc = job[j].pc
         /\ job'[j].res \in {"none", job[j].outcome}
<1> DEFINE c == Cut(job, FALSE)
<1>1. wave' = wave /\ sched \in Open /\ sched' = "raised"
  BY DEF Interrupt, Open
<1>2. c[j] \in JobType /\ c[j].entered = job[j].entered /\ c[j].outcome = job[j].outcome /\ c[j].pc = job[j].pc
  <2>1. job \in [Jobs -> JobType] /\ JobBooks(job[j])
    BY JobFacts DEF Inv, Shapes
  <2>2. PICK strict \in BOOLEAN : c = Cut(job, strict)
    BY Zenon
  <2> HIDE DEF c
  <2> QED BY <2>1, <2>2, CutOne
<1>3. job'[j] = [c[j] EXCEPT !.res = IF c[j].done /\ ~c[j].error THEN c[j].outcome ELSE "none"]
  BY DEF Interrupt
<1> HIDE DEF c
<1> QED BY <1>1, <1>2, <1>3 DEF JobType

LEMMA ReturnSeen ==
  ASSUME Inv, ReturnRaw, NEW j \in Jobs
  PROVE  /\ wave' = wave /\ sched \in Open /\ sched' \in {"closed", "raised"}
         /\ job'[j].entered = job[j].entered /\ job'[j].pc = job[j].pc
         /\ sched' = "closed" => job'[j].res = job[j].outcome /\ job[j].outcome # "none"
         /\ sched' = "raised" => job'[j].res = job[j].res
<1>1. job[j] \in JobType
  BY JobFacts
<1>2. CASE sched' = "closed"
  <2>1. job'[j] = [job[j] EXCEPT !.res = job[j].outcome] /\ job[j].outcome # "none"
    BY <1>2 DEF ReturnRaw
  <2> QED BY <1>1, <1>2, <2>1 DEF ReturnRaw, JobType, Open
<1>3. CASE sched' # "closed"
  BY <1>3 DEF ReturnRaw, Open
<1> QED BY <1>2, <1>3

\* What a job's own outcome says is true of it.
LEMMA OutcomeTrue ==
  ASSUME Inv, NEW j \in Jobs, job[j].outcome # "none"
  PROVE  IF job[j].entered THEN job[j].outcome \in Returns
         ELSE job[j].outcome \in {"notrun", "indeterminate"}
<1>1. JobBooks(job[j])
  BY JobFacts
<1> QED BY <1>1 DEF JobBooks, Returns

\* A wave that is open has answered no call.
LEMMA OpenUnanswered == Inv /\ sched \in Open => \A j \in Jobs : job[j].res = "none"
BY JobFacts DEF WaveBooks

-----------------------------------------------------------------------------
(* The theorems.                                                           *)

\* For any waves, any number of permits and whatever the other turns hold:
\* the state is well typed and no permit is lost or given back twice, neither
\* by the early release of a wedged reader nor by the worker's own finally.
THEOREM PermitsBalance == Spec => []SlotBooks
<1>1. Inv => SlotBooks
  <2> SUFFICES ASSUME Inv PROVE SlotBooks
    OBVIOUS
  <2>1. Cardinality(Held) \in Nat
    BY WaveFacts DEF Held, Inv, Shapes
  <2>2. free \in 0..Capacity
    BY <2>1, BoundsAssumption DEF Inv, Permits
  <2> QED BY <2>2 DEF Inv, Shapes, Permits, Held, SlotBooks, TypeOK
<1> QED BY <1>1, Invariance, PTL

\* In every wave: uncertainty is answered as such, and only an interrupt or a
\* failed start journal makes the wave raise.
THEOREM UncertaintyStays == Spec => []UncertaintyKept
<1>1. Inv => UncertaintyKept
  <2> SUFFICES ASSUME Inv PROVE UncertaintyKept
    OBVIOUS
  <2>1. \A j \in Jobs : JobBooks(job[j]) /\ WaveBooks(j, job[j])
    BY JobFacts
  <2> QED BY <2>1 DEF UncertaintyKept, JobBooks, WaveBooks, Inv, RaiseBooks
<1> QED BY <1>1, Invariance, PTL

\* In every wave: a permit still held after the return is with a worker that
\* needs only the lock to give it back.
THEOREM PermitsComeHome == Spec => []NoWedgedPermit
<1>1. Inv => NoWedgedPermit
  <2> SUFFICES ASSUME Inv, sched = "closed", NEW j \in Jobs, Holding(job[j])
               PROVE  job[j].pc \in {"begin", "finish"}
    BY DEF NoWedgedPermit
  <2>1. job[j] \in JobType /\ JobBooks(job[j]) /\ WaveBooks(j, job[j])
    BY JobFacts
  <2>2. job[j].pc \in Steps \ {"queued", "gone"} /\ ~Midway(job[j])
    BY <2>1 DEF JobBooks, WaveBooks, Holding, Launched, JobType
  <2> QED BY <2>2 DEF Steps, Midway, Announcing
<1> QED BY <1>1, Invariance, PTL

\* In every wave: a report sealed and published before the close is answered
\* as committed, whatever cut the wave short.
THEOREM CommitAlwaysWins == Spec => CommitWins
<1>1. ASSUME Inv, [Next]_vars, NEW j \in Jobs, sched' = "closed", sched # "closed",
             job[j].outcome = "committed", job[j].released
      PROVE  job'[j].res = "committed"
  <2>1. job[j] \in JobType
    BY <1>1, JobFacts
  <2>2. CASE ReturnRaw
    <3>1. job'[j] = [job[j] EXCEPT !.res = job[j].outcome]
      BY <1>1, <2>2 DEF ReturnRaw
    <3> QED BY <1>1, <2>1, <3>1 DEF JobType
  <2>3. CASE Close
    <3>1. sched = "grace" /\ ~Raises(job[j])
      BY <1>1, <2>3 DEF Close
    <3>2. Assembled(job[j]) = "committed"
      BY <1>1, <3>1, AnswerOne
    <3> QED BY <1>1, <2>3, <3>2, CloseRecords
  <2>4. ReturnRaw \/ Close
    BY <1>1 DEF Next, vars, Scheduler, Interrupt, PollCut, PollPass, AdmitCut, AdmitLaunch, AdmitStarved,
         AdmitExhausted, AdmitNone, PassEnd, WorkerLockStep, BeginRefused, BeginAnnounce, BeginHandler,
         AnnounceFailed, CrossRefused, Cross, Settle, Finish, Announce, Publish, HandlerEnds, Become,
         JobGracePasses, Still, CancelTurn, DeadlinePasses, GuardPasses, GracePasses, SlotWaitPasses,
         StaggerPasses, ForeignTakes, ForeignFrees
  <2> QED BY <2>2, <2>3, <2>4
<1>2. Inv /\ [Next]_vars =>
        [\A j \in Jobs : (/\ sched' = "closed" /\ sched # "closed"
                          /\ job[j].outcome = "committed" /\ job[j].released)
                         => job'[j].res = "committed"]_vars
  BY <1>1
<1> QED BY <1>2, Invariance, PTL DEF Spec, CommitWins

\* In every wave: no job is launched while an outcome is unresolved.
THEOREM NoSlotOverUncertainty == Spec => NoLaunchOverUncertainty
<1>1. ASSUME Inv, [Next]_vars, NEW j \in Jobs, job[j].pc = "queued", job'[j].pc = "begin", NEW k \in Jobs
      PROVE  ~(job[k].done /\ job[k].outcome = "indeterminate")
  <2>1. AdmitLaunch
    <3>1. CASE \E i \in Jobs : WorkerLockStep(i) \/ Announce(i) \/ Publish(i) \/ HandlerEnds(i) \/ JobGracePasses(i)
      BY <1>1, <3>1, WorkerSeen
    <3>2. CASE PollCut \/ PollPass \/ AdmitCut \/ AdmitStarved \/ AdmitExhausted \/ AdmitNone
      BY <1>1, <3>2, PassesUnseen
    <3>3. CASE Close
      BY <1>1, <3>3, CloseRecords
    <3>4. CASE ReturnRaw \/ Interrupt
      BY <1>1, <3>4, ReturnSeen, InterruptSeen
    <3>5. CASE \/ CancelTurn \/ DeadlinePasses \/ GuardPasses \/ GracePasses
               \/ SlotWaitPasses \/ StaggerPasses \/ ForeignTakes \/ ForeignFrees
               \/ UNCHANGED vars
      BY <1>1, <3>5, OthersUnseen
    <3> QED BY <1>1, <3>1, <3>2, <3>3, <3>4, <3>5 DEF Next, Scheduler
  <2>2. WaveBooks(k, job[k])
    BY <1>1, JobFacts
  <2> QED BY <2>1, <2>2 DEF AdmitLaunch, Admit, Room, WaveBooks
<1>2. Inv /\ [Next]_vars =>
        [\A j \in Jobs : (job[j].pc = "queued" /\ job'[j].pc = "begin")
           => \A k \in Jobs : ~(job[k].done /\ job[k].outcome = "indeterminate")]_vars
  BY <1>1
<1> QED BY <1>2, Invariance, PTL DEF Spec, NoLaunchOverUncertainty

\* What WaveContract sees of a wave.
Phase == IF sched \in Open THEN "open" ELSE sched
Started == {j \in Jobs : job[j].entered}
Answered == [j \in Jobs |-> job[j].res]

\* Every wave keeps the contract of WaveContract, step by step.
THEOREM ContractKept == Spec => KeepsContract
<1>1. Init => Contract!Init
  <2> SUFFICES ASSUME Init PROVE Contract!Init
    OBVIOUS
  <2>1. \A j \in Jobs : job[j].res = "none" /\ ~job[j].entered
    BY DEF Init, Fresh
  <2> QED BY <2>1 DEF Init, Open, Contract!Init
<1>2. ASSUME Inv, [Next]_vars
      PROVE  Contract!Next \/ UNCHANGED <<Phase, Started, Answered>>
  <2>1. CASE \E i \in Jobs : WorkerLockStep(i) \/ Announce(i) \/ Publish(i) \/ HandlerEnds(i) \/ JobGracePasses(i)
    <3>1. PICK i \in Jobs : WorkerLockStep(i) \/ Announce(i) \/ Publish(i) \/ HandlerEnds(i) \/ JobGracePasses(i)
      BY <2>1
    <3>2. \A j \in Jobs : /\ wave' = wave /\ sched' = sched /\ job'[j].res = job[j].res
                          /\ \/ job'[j].entered = job[j].entered
                             \/ j = i /\ sched \in Open /\ ~job[j].entered /\ job'[j].entered = TRUE
      BY <1>2, <3>1, WorkerSeen
    <3>3. Phase' = Phase /\ Answered' = Answered /\ Jobs' = Jobs
      BY <3>2 DEF Phase, Answered, Jobs
    <3>4. CASE job'[i].entered = job[i].entered
      <4>1. Started' = Started
        BY <3>2, <3>4 DEF Started, Jobs
      <4> QED BY <3>3, <4>1
    <3>5. CASE job'[i].entered # job[i].entered
      <4>1. Phase = "open" /\ i \in Jobs \ Started /\ Started' = Started \cup {i}
        BY <3>2, <3>5 DEF Phase, Started, Jobs
      <4> QED BY <3>3, <4>1 DEF Contract!Next, Contract!Start, Phase, Started, Answered
    <3> QED BY <3>4, <3>5
  <2>2. CASE \/ PollCut \/ PollPass \/ AdmitCut \/ AdmitStarved \/ AdmitExhausted \/ AdmitNone
    <3>1. \A j \in Jobs : /\ wave' = wave /\ sched \in Open /\ sched' \in Open
                          /\ job'[j].entered = job[j].entered /\ job'[j].res = job[j].res
      BY <1>2, <2>2, PassesUnseen
    <3>2. wave' = wave /\ sched \in Open /\ sched' \in Open
      BY <2>2 DEF PollCut, PollPass, AdmitCut, AdmitStarved, AdmitExhausted, AdmitNone, Admit, PassEnd, Open
    <3> QED BY <3>1, <3>2 DEF Phase, Started, Answered, Jobs
  <2>3. CASE \/ AdmitLaunch \/ CancelTurn \/ DeadlinePasses \/ GuardPasses \/ GracePasses
             \/ SlotWaitPasses \/ StaggerPasses \/ ForeignTakes \/ ForeignFrees \/ UNCHANGED vars
    <3>1. \A j \in Jobs : job'[j].entered = job[j].entered /\ job'[j].res = job[j].res
      BY <1>2, <2>3, OthersUnseen
    <3>2. wave' = wave /\ sched' = sched
      BY <2>3 DEF AdmitLaunch, CancelTurn, DeadlinePasses, GuardPasses, GracePasses, SlotWaitPasses,
         StaggerPasses, ForeignTakes, ForeignFrees, Still, vars
    <3> QED BY <3>1, <3>2 DEF Phase, Started, Answered, Jobs
  <2>4. CASE ReturnRaw \/ Close \/ Interrupt
    <3>1. /\ wave' = wave /\ sched \in Open /\ sched' \in {"closed", "raised"}
          /\ \A j \in Jobs : job'[j].entered = job[j].entered
      <4>1. wave' = wave /\ sched \in Open /\ sched' \in {"closed", "raised"}
        BY <2>4 DEF ReturnRaw, Close, Interrupt, Open
      <4> QED BY <1>2, <2>4, <4>1, ReturnSeen, CloseRecords, InterruptSeen
    <3>2. ASSUME NEW j \in Jobs
          PROVE  \/ sched' = "raised" /\ job'[j].res = "none"
                 \/ job'[j].res \in IF job[j].entered THEN Contract!Ran ELSE Contract!NotRan
      <4>1. CASE ReturnRaw
        BY <1>2, <3>1, <4>1, ReturnSeen, OutcomeTrue, OpenUnanswered DEF Contract!Ran, Contract!NotRan, Returns
      <4>2. CASE Interrupt
        BY <1>2, <4>2, InterruptSeen, OutcomeTrue DEF Contract!Ran, Contract!NotRan, Returns
      <4>3. CASE Close /\ sched' = "raised"
        BY <1>2, <3>1, <4>3, CloseRecords, OpenUnanswered
      <4>4. CASE Close /\ sched' = "closed"
        <5>1. sched = "grace" /\ ~Raises(job[j])
          BY <4>4 DEF Close
        <5>2. job'[j].res = Assembled(job[j])
          BY <1>2, <4>4, CloseRecords
        <5> QED BY <1>2, <5>1, <5>2, AnswerOne DEF Contract!Ran, Contract!NotRan, Results, Returns
      <4> QED BY <2>4, <3>1, <4>1, <4>2, <4>3, <4>4
    <3>3. Phase = "open" /\ Phase' = sched' /\ Started' = Started /\ Jobs' = Jobs
      BY <3>1 DEF Phase, Started, Jobs, Open
    <3>4. /\ DOMAIN Answered = Jobs /\ DOMAIN Answered' = Jobs
          /\ \A j \in Jobs : Answered'[j] = job'[j].res /\ (j \in Started <=> job[j].entered)
      BY <3>3 DEF Answered, Started
    <3>5. CASE sched' = "closed"
      BY <3>2, <3>3, <3>4, <3>5 DEF Contract!Next, Contract!Answer, Contract!True, Phase, Started, Answered
    <3>6. CASE sched' = "raised"
      BY <3>2, <3>3, <3>4, <3>6 DEF Contract!Next, Contract!Break, Contract!True, Phase, Started, Answered
    <3> QED BY <3>1, <3>5, <3>6
  <2> QED BY <1>2, <2>1, <2>2, <2>3, <2>4 DEF Next, Scheduler
<1>3. Inv /\ [Next]_vars => [Contract!Next]_<<Phase, Started, Answered>>
  BY <1>2
<1> QED BY <1>1, <1>3, Invariance, PTL DEF Spec, KeepsContract, Contract!Spec, Phase, Started, Answered
=============================================================================
