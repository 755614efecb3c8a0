----------------------------- MODULE ProviderCall -----------------------------
(***************************************************************************)
(* One logical model call of sliceagent_core: the retry loop (with_retry), *)
(* the process-wide gate on physical requests (_PhysicalCallGate), and the *)
(* two ways a request is run: the shared transport loop                    *)
(* (_AsyncTransportHub.run) and the watchdog's daemon worker               *)
(* (_create_watchdog).                                                     *)
(*                                                                         *)
(* A physical request lives outside: it may answer, fail, ignore its       *)
(* cancellation, or fail to say that it was closed.  Time is a Tick on     *)
(* countdowns; a thread may be late by any number of ticks.                *)
(***************************************************************************)
EXTENDS Integers, FiniteSets

CONSTANTS
  Caller,      \* threads that make logical calls
  Capacity,    \* slots of the gate
  Budget,      \* the hard timeout of a request, in ticks
  Grace,       \* the close grace, in ticks
  Margin,      \* the teardown margin of a reap horizon, in ticks
  MaxTries,    \* max_attempts
  MaxSilent,   \* max_pre_first_byte_attempts
  MaxCalls     \* bound on the physical requests of a history

ASSUME ProviderAssumption ==
  /\ Capacity \in Nat \ {0} /\ Budget \in Nat \ {0} /\ Grace \in Nat \ {0}
  /\ Margin \in Nat /\ MaxTries \in Nat \ {0} /\ MaxSilent \in Nat \ {0}
  /\ MaxCalls \in Nat

VARIABLES
  call,     \* per caller: its logical call, over or in flight
  req,      \* per physical request
  used      \* physical requests so far

vars == <<call, req, used>>

Call == 1..MaxCalls
Nobody == "nobody"
Free == -1
Reaped == -2
None == 0

\* cause and patience belong to close_physical; said is what the stream of the
\* current attempt has accumulated.
Idle == [pc |-> "idle", kind |-> "stream", cur |-> None, tries |-> 0, silent |-> 0,
         said |-> "nothing", cause |-> "none", patience |-> 0, outcome |-> "none"]

\* lease: ticks to the reap horizon, or Free, or Reaped; left: ticks to the
\* caller's fallback deadline; handoff: _SubmissionHandoff; adm:
\* _TransportAdmission; task, result: the coroutine or the daemon worker and what
\* its future holds; kill: future.cancel() was called; socket: live at the provider.
Unused == [owner |-> Nobody, kind |-> "stream", lease |-> Free, left |-> 0,
           handoff |-> "undecided", adm |-> "pending", task |-> "none", result |-> "none",
           kill |-> FALSE, socket |-> FALSE]

Init ==
  /\ call = [c \in Caller |-> Idle]
  /\ req = [a \in Call |-> Unused]
  /\ used = 0

\* The caller's own request, and whether its transport is the shared loop.
Cur(c) == call[c].cur
Streams(c) == call[c].kind = "stream"
At(c, l) == call[c].pc = l

\* The request deadline of a has passed; the fallback comes Grace later.
Due(a) == req[a].left <= Grace

Held(r) == {a \in Call : r[a].lease >= 0}

\* _reap_expired.
Reap(r) == [a \in Call |-> IF r[a].lease = 0 THEN [r[a] EXCEPT !.lease = Reaped] ELSE r[a]]

\* A slip: the module's default horizon, which knows nothing of this call.
DefaultHorizon(a) == Grace + Margin

\* The call's remaining life, close grace and teardown margin; at least a tick.
Horizon(a) == req[a].left + Margin + 1

\* _release: idempotent, and of no effect on a reaped lease.
Released(l) == IF l >= 0 THEN Free ELSE l

\* cancel_before_owner and cancel_before_admission decide what is undecided.
Refuse(h) == IF h = "undecided" THEN "refused" ELSE h
Withdraw(d) == IF d = "pending" THEN "cancelled" ELSE d

Goto(c, l) == call' = [call EXCEPT ![c].pc = l]

\* The logical call returns and forgets the attempt: with an answer, "failed" (an
\* error that promises that nothing is live) or "indeterminate".
Over(c, o) == call' = [call EXCEPT ![c] = [Idle EXCEPT !.pc = "over", !.cur = Cur(c), !.outcome = o]]

-----------------------------------------------------------------------------
(* The logical call: with_retry over complete_model_call.                  *)

\* A caller's next call is another caller of the model.
Begin(c) ==
  /\ At(c, "idle")
  /\ \E k \in {"stream", "daemon"} : call' = [call EXCEPT ![c].pc = "ready", ![c].kind = k]
  /\ UNCHANGED <<req, used>>

\* One physical attempt: a request with an inactive lease and a fresh budget.
Attempt(c) ==
  /\ At(c, "ready") /\ used < MaxCalls
  /\ used' = used + 1
  /\ call' = [call EXCEPT ![c].pc = "acquiring", ![c].cur = used + 1, ![c].tries = @ + 1]
  /\ req' = [req EXCEPT ![used + 1] = [Unused EXCEPT !.owner = c, !.kind = call[c].kind,
                                                     !.left = Budget + Grace]]

\* The transport loop could not be started, or the history is at its bound.
NoAttempt(c) ==
  /\ At(c, "ready")
  /\ Over(c, "failed")
  /\ UNCHANGED <<req, used>>

\* Round again, with the attempt forgotten.
Again(c, n) ==
  call' = [call EXCEPT ![c] = [@ EXCEPT !.pc = "ready", !.silent = n, !.said = "nothing",
                                        !.cause = "none", !.patience = 0]]

Silent(c, why) == call[c].silent + (IF why = "silent" THEN 1 ELSE 0)

\* An attempt failed: the owner has cancelled, or it gives up, or goes round again.
RetryOn(c, why) ==
  \/ Over(c, "failed")
  \/ IF \/ why = "fatal" \/ call[c].tries = MaxTries
        \/ why = "silent" /\ Silent(c, why) >= MaxSilent
     THEN Over(c, "failed")
     ELSE Again(c, Silent(c, why))

\* An answer, unless it is empty.
Answered(c) == Over(c, "answer") \/ RetryOn(c, "plain")

\* _stream_assemble on a timeout: nothing is replayed after semantic output.
TimedOut(c) ==
  CASE call[c].said = "semantic" -> Over(c, "indeterminate")
    [] call[c].said = "nothing"  -> RetryOn(c, "silent")
    [] OTHER                     -> RetryOn(c, "plain")

\* On another error: replayed if nothing semantic was said, salvaged as a
\* truncated answer if there is text, otherwise indeterminate.
Broke(c) ==
  IF call[c].said # "semantic" THEN \E k \in {"plain", "fatal"} : RetryOn(c, k)
  ELSE \E o \in {"answer", "indeterminate"} : Over(c, o)

-----------------------------------------------------------------------------
(* Admission to the gate (acquire_lease) and the submission.               *)

Admit(c) ==
  LET r == Reap(req) IN
  /\ At(c, "acquiring")
  /\ Cardinality(Held(r)) < Capacity
  /\ req' = [r EXCEPT ![Cur(c)].lease = Horizon(Cur(c))]
  /\ Goto(c, "admitted")
  /\ UNCHANGED used

\* Nothing was submitted, or what was submitted is refused, and the slot is free.
Abandoned(q) == [q EXCEPT !.lease = Released(@), !.handoff = Refuse(@), !.adm = Withdraw(@)]

\* The deadline passes with every slot occupied.
NotAdmitted(c) ==
  LET r == Reap(req) IN
  /\ At(c, "acquiring") /\ Due(Cur(c)) /\ Cardinality(Held(r)) >= Capacity
  /\ Over(c, "failed")
  /\ req' = [r EXCEPT ![Cur(c)] = Abandoned(@)]
  /\ UNCHANGED used

\* The wait for the slot took the whole budget.
AdmittedLate(c) ==
  /\ At(c, "admitted") /\ Due(Cur(c))
  /\ Over(c, "failed")
  /\ req' = [req EXCEPT ![Cur(c)] = Abandoned(@)]
  /\ UNCHANGED used

\* run_coroutine_threadsafe, or the daemon thread is started: inert until its
\* owner confirms.
Submit(c) ==
  /\ At(c, "admitted") /\ ~Due(Cur(c))
  /\ req' = [req EXCEPT ![Cur(c)].task = "queued"]
  /\ Goto(c, "submitted")
  /\ UNCHANGED used

Confirm(c) ==
  /\ At(c, "submitted") /\ (Streams(c) \/ ~Due(Cur(c)))
  /\ req' = [req EXCEPT ![Cur(c)].handoff = "owned"]
  /\ Goto(c, "polling")
  /\ UNCHANGED used

\* The daemon's start took the whole budget.
StartedLate(c) ==
  /\ At(c, "submitted") /\ ~Streams(c) /\ Due(Cur(c))
  /\ req' = [req EXCEPT ![Cur(c)].handoff = Refuse(@), ![Cur(c)].lease = Released(@)]
  /\ Over(c, "failed")
  /\ UNCHANGED used

-----------------------------------------------------------------------------
(* The caller of a stream: cut-off and close_physical.                     *)

\* What was said matters to a deadline only.
Closing(c, why) ==
  call' = [call EXCEPT ![c].pc = "closing", ![c].patience = Grace, ![c].cause = why,
                       ![c].said = IF why = "deadline" THEN @ ELSE "nothing"]

\* A slip: the slot of a request that never started is left to the coroutine.
CutForgetsSlot(c, why) ==
  LET a == Cur(c) IN
  /\ req' = [req EXCEPT ![a] = [@ EXCEPT !.handoff = Refuse(@), !.adm = Withdraw(@), !.kill = TRUE]]
  /\ IF req[a].adm = "pending" THEN Over(c, "failed")
     ELSE Closing(c, why)

\* The handoff and the admission are decided in one step: the coroutine asks
\* for the second only after the first.
Cut(c, why) ==
  LET a == Cur(c) IN
  IF req[a].adm = "pending"
  THEN /\ req' = [req EXCEPT ![a] = [Abandoned(@) EXCEPT !.kill = TRUE]]
       /\ Over(c, "failed")
  ELSE /\ req' = [req EXCEPT ![a].kill = TRUE]
       /\ Closing(c, why)

\* The fallback deadline; the future may be done by now.
CutOff(c) ==
  /\ At(c, "polling") /\ Streams(c) /\ req[Cur(c)].left = 0
  /\ Cut(c, "deadline")
  /\ UNCHANGED used

\* admission.closed: no request can be live.
Shut(a) == req[a].adm \in {"cancelled", "closed"}

\* The owner's cancellation is seen (before a request, at the gate, by the poll
\* loop), or an asynchronous exception (Ctrl-C) lands in the ownership scope. Both
\* end the logical call, so when a cancellation was asked for does not matter. One
\* that lands in close_physical's wait escapes and promises nothing of the request.
GivenUp(c) ==
  /\ \/ At(c, "ready") /\ Over(c, "failed") /\ UNCHANGED req
     \/ /\ call[c].pc \in {"acquiring", "admitted", "submitted", "polling"} /\ Streams(c)
        /\ Cut(c, "failed")
     \/ /\ At(c, "closing") /\ ~Shut(Cur(c))
        /\ Over(c, "indeterminate") /\ UNCHANGED req
  /\ UNCHANGED used

\* The future is done.
Collect(c) ==
  LET q == req[Cur(c)] IN
  /\ At(c, "polling") /\ Streams(c) /\ q.task = "done"
  /\ CASE q.result = "answer"  -> Answered(c)
       [] q.result = "late"    -> Over(c, "failed")
       [] q.result = "timeout" -> TimedOut(c)
       [] q.result = "error"   -> Broke(c)
       [] OTHER -> FALSE
  /\ UNCHANGED <<req, used>>

\* The future holds the mark of a failed teardown.
CollectUnconfirmed(c) ==
  /\ At(c, "polling") /\ req[Cur(c)].task = "done" /\ req[Cur(c)].result = "unconfirmed"
  /\ Cut(c, "failed")
  /\ UNCHANGED used

\* admission.closed is set within the grace, or it is not.
Closed(c) ==
  /\ At(c, "closing") /\ Shut(Cur(c))
  /\ IF call[c].cause = "deadline" THEN TimedOut(c) ELSE Over(c, call[c].cause)
  /\ UNCHANGED <<req, used>>

\* A slip: the caller waits for the task as well.
NotClosedOnceDone(c) ==
  /\ At(c, "closing") /\ ~Shut(Cur(c)) /\ call[c].patience = 0
  /\ req[Cur(c)].task = "done"
  /\ Over(c, "indeterminate")
  /\ UNCHANGED <<req, used>>

NotClosed(c) ==
  /\ At(c, "closing") /\ ~Shut(Cur(c)) /\ call[c].patience = 0
  /\ Over(c, "indeterminate")
  /\ UNCHANGED <<req, used>>

\* The watchdog's caller: the worker's answer or error, or the deadline.
AwaitDaemon(c) ==
  LET q == req[Cur(c)] IN
  /\ At(c, "polling") /\ ~Streams(c)
  /\ \/ /\ q.task = "done"
        /\ CASE q.result = "answer" -> Answered(c)
             [] q.result = "late"   -> Over(c, "failed")
             [] OTHER               -> \E k \in {"plain", "fatal"} : RetryOn(c, k)
     \/ q.task # "done" /\ Due(Cur(c)) /\ Over(c, "indeterminate")
  /\ UNCHANGED <<req, used>>

-----------------------------------------------------------------------------
(* The transport loop's coroutine (drive) and the daemon worker (_call).   *)

Wake(a, t, o) == [req EXCEPT ![a].task = t, ![a].result = o]

\* The owner gave up before it confirmed, or the task was cancelled in its wait.
Retires(a) ==
  /\ req[a].task = "queued" /\ (req[a].handoff = "refused" \/ req[a].kill)
  /\ req' = [Wake(a, "done", "cancelled") EXCEPT ![a].adm = Withdraw(@),
               ![a].lease = IF req[a].handoff = "refused" THEN Released(@) ELSE @]
  /\ UNCHANGED <<call, used>>

\* Its owner has confirmed and nobody has cancelled it.
Goes(a) == req[a].task = "queued" /\ req[a].handoff = "owned" /\ ~req[a].kill

\* It wakes behind the deadline: no request.
WakesLate(a) ==
  /\ Goes(a) /\ Due(a)
  /\ req' = [Wake(a, "done", "late") EXCEPT ![a] = Abandoned(@)]
  /\ UNCHANGED <<call, used>>

\* try_admit is won and the request is opened.
Opens(a) ==
  /\ Goes(a) /\ ~Due(a) /\ req[a].adm = "pending"
  /\ req' = [Wake(a, "open", "none") EXCEPT ![a].adm = "admitted", ![a].socket = TRUE]
  /\ UNCHANGED <<call, used>>

\* A chunk of c's stream arrives: a first byte, or reasoning, text or a tool
\* call. Chunks that come when nobody can read them any more are left out.
Says(c) ==
  /\ call[c].pc \in {"polling", "closing"} /\ Streams(c) /\ req[Cur(c)].task = "open"
  /\ call[c].cause # "failed" /\ call[c].said # "semantic"
  /\ \E s \in {"byte", "semantic"} : call' = [call EXCEPT ![c].said = s]
  /\ UNCHANGED <<req, used>>

\* The body of a stream ends: by itself, at the request deadline or by the task's
\* cancellation. The transport may be deaf to the last two.
BodyEnds(a) ==
  /\ req[a].task = "open" /\ req[a].kind = "stream"
  /\ req' = [req EXCEPT ![a].task = "unwinding"]
  /\ UNCHANGED <<call, used>>

\* A slip: closure is acknowledged whatever the teardown did.
TeardownTrusted(a) ==
  /\ req[a].task = "unwinding"
  /\ req' = [req EXCEPT ![a].task = "retiring", ![a].adm = "closed"]
  /\ UNCHANGED <<call, used>>

\* The stream's context is left: closed, or nobody knows.
Teardown(a) ==
  /\ req[a].task = "unwinding"
  /\ \/ req' = [req EXCEPT ![a].task = "retiring", ![a].adm = "closed", ![a].socket = FALSE]
     \/ req' = Wake(a, "done", "unconfirmed")
  /\ UNCHANGED <<call, used>>

\* The SDK call of the worker returns.
DaemonReturns(a) ==
  /\ req[a].task = "open" /\ req[a].kind = "daemon"
  /\ req' = [req EXCEPT ![a].task = "retiring", ![a].socket = FALSE]
  /\ UNCHANGED <<call, used>>

\* asyncio.timeout turns the end of a stream's body into "timeout".
Results(a) ==
  IF req[a].kill THEN {"cancelled"}
  ELSE {"answer", "error"} \cup (IF req[a].kind = "stream" /\ Due(a) THEN {"timeout"} ELSE {})

\* The slot first, the future's result last.
GivesBack(a) ==
  /\ req[a].task = "retiring"
  /\ \E o \in Results(a) :
       req' = [Wake(a, "done", o) EXCEPT ![a].lease = Released(@)]
  /\ UNCHANGED <<call, used>>

\* A request nobody could close ends at the provider.
SocketDies(a) ==
  /\ req[a].task = "done" /\ req[a].socket
  /\ req' = [req EXCEPT ![a].socket = FALSE]
  /\ UNCHANGED <<call, used>>

Down(n) == IF n > 0 THEN n - 1 ELSE n

Tick ==
  /\ req' = [a \in Call |-> [req[a] EXCEPT !.left = Down(@), !.lease = Down(@)]]
  /\ call' = [c \in Caller |-> [call[c] EXCEPT !.patience = Down(@)]]
  /\ UNCHANGED used

Advances(c) ==
  \/ Attempt(c) \/ NoAttempt(c) \/ Admit(c) \/ NotAdmitted(c) \/ AdmittedLate(c)
  \/ Submit(c) \/ Confirm(c) \/ StartedLate(c)
  \/ CutOff(c) \/ Collect(c) \/ CollectUnconfirmed(c) \/ Closed(c) \/ NotClosed(c) \/ AwaitDaemon(c)

Worker(a) ==
  \/ Retires(a) \/ WakesLate(a) \/ Opens(a) \/ BodyEnds(a)
  \/ Teardown(a) \/ DaemonReturns(a) \/ GivesBack(a) \/ SocketDies(a)

Next ==
  \/ \E c \in Caller : Begin(c) \/ GivenUp(c) \/ Says(c) \/ Advances(c)
  \/ \E a \in Call : Worker(a)
  \/ Tick

\* Threads run and time passes; the provider and its transport owe nothing, and
\* nobody has to cancel.
Fairness ==
  /\ \A c \in Caller : WF_vars(Advances(c))
  /\ WF_vars(Tick)

Spec == Init /\ [][Next]_vars /\ Fairness

-----------------------------------------------------------------------------

CallerType ==
  [pc : {"idle", "ready", "acquiring", "admitted", "submitted", "polling", "closing", "over"},
   kind : {"stream", "daemon"}, cur : 0..MaxCalls, tries : 0..MaxTries, silent : 0..MaxSilent,
   said : {"nothing", "byte", "semantic"},
   cause : {"none", "deadline", "failed"}, patience : 0..Grace,
   outcome : {"none", "answer", "failed", "indeterminate"}]

RequestType ==
  [owner : Caller \cup {Nobody}, kind : {"stream", "daemon"},
   lease : Reaped..(Budget + Grace + Margin + 1), left : 0..(Budget + Grace),
   handoff : {"undecided", "owned", "refused"},
   adm : {"pending", "admitted", "cancelled", "closed"},
   task : {"none", "queued", "open", "unwinding", "retiring", "done"},
   result : {"none", "answer", "error", "timeout", "cancelled", "late", "unconfirmed"},
   kill : BOOLEAN, socket : BOOLEAN]

\* Every record stays in its type, and so do the countdowns and counters.
TypeOK ==
  /\ call \in [Caller -> CallerType] /\ req \in [Call -> RequestType]
  /\ used \in 0..MaxCalls

\* A logical call has one live request at most, and when it returns anything but
\* "indeterminate", none: no retry overlaps an abandoned socket (errors.py:56-61,
\* llm.py:864-889).
ReturnMeansClosed ==
  \A a \in Call, c \in Caller :
    req[a].socket /\ req[a].owner = c =>
      /\ Cur(c) = a
      /\ \/ call[c].pc \in {"polling", "closing"}
         \/ At(c, "over") /\ call[c].outcome = "indeterminate"

\* The state is well typed; at most Capacity slots are held; a live request holds one until its horizon,
\* and no horizon comes before the call's own deadline (llm.py:389-446).
Ceiling ==
  /\ TypeOK
  /\ Cardinality(Held(req)) <= Capacity
  /\ \A a \in Call : req[a].socket => req[a].lease >= 0 \/ (req[a].lease = Reaped /\ req[a].left = 0)

\* A slot outlives its owner only with a worker that will give it back or with a
\* request whose end nobody has seen (llm.py:448-462, 862-889, 938-989).
NoSlotLost ==
  \A a \in Held(req) :
    \/ \E c \in Caller : Cur(c) = a /\ call[c].pc \in {"admitted", "submitted", "polling", "closing"}
    \/ req[a].task = "queued" /\ req[a].kind = "daemon"
    \/ req[a].task \in {"open", "unwinding", "retiring"} \/ req[a].result = "unconfirmed"

\* Every logical call returns, whatever provider and transport do (llm.py:785-1096).
CallsReturn == \A c \in Caller : At(c, "ready") ~> At(c, "over")
=============================================================================
