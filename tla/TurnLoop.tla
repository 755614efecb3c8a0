------------------------------ MODULE TurnLoop ------------------------------
(***************************************************************************)
(* run_turn (loop.py): the steps of one turn between its seed and its only  *)
(* result.  The trajectory of messages behind the seed grows with every     *)
(* step and is sent with every model call; when the context overflows it is *)
(* compacted; the ladders behind a response and behind a tool batch decide  *)
(* whether the turn goes on, ends or parks; _park closes it in every other  *)
(* case, an exception or a Ctrl-C anywhere included.                        *)
(*                                                                         *)
(* ToolBatch says what a batch of calls does, SteerDelivery who fills and   *)
(* empties the two queues; here a batch is its results, a queue is a set.   *)
(***************************************************************************)
EXTENDS Naturals, SequencesExt

CONSTANTS
  Steer,       \* items for the steer queue
  FollowUp,    \* items for the follow-up queue
  Batches,     \* the batches of results the tools may return
  MaxSteps,    \* max_steps
  MaxResumes,  \* _LENGTH_CONTINUATION_LIMIT
  KeepRecent,  \* MICRO_KEEP_RECENT
  MaxTight,    \* tighter projections of the seed plan; 0 for a static seed
  HasFallback  \* AGENT_MODEL_FALLBACK names another model

\* What a call of a batch came to: an ordinary result, a child's report, an
\* outcome nobody knows, a wait for a peer, a refused catastrophic command.
Results == {"plain", "report", "unsure", "park", "refused"}

ASSUME LoopAssumption ==
  /\ {MaxSteps, KeepRecent} \subseteq Nat \ {0}
  /\ {MaxResumes, MaxTight} \subseteq Nat
  /\ HasFallback \in BOOLEAN
  /\ Batches \subseteq Seq(Results) /\ <<>> \notin Batches
  /\ Steer \cap FollowUp = {}

VARIABLES
  pc,        \* where run_turn is
  guard,     \* 0 inside the step's try, 1 inside the outer one, 2 in its handler
  messages,  \* the trajectory behind the seed
  steps,     \* model steps begun
  stop,      \* _normalize_stop of the response, then the reason the turn ends with
  resumes,   \* length_continuations
  hinted,    \* the hints already given that are given once a turn
  tight,     \* tighter projections left
  fellback,  \* the model was swapped
  spent,     \* the budget hook is at its ceiling
  reports,   \* protected_child_reports
  signal,    \* the turn is cancelled
  waiting,   \* items in the two queues
  \* history
  receipts,  \* items announced as delivered
  seen,      \* items and reports in a request the model answered
  shed,      \* something was compacted out of the trajectory
  unsure,    \* a result of the turn is indeterminate
  final      \* the final answer was published

step == <<steps, resumes, hinted>>
fit  == <<tight, fellback>>
past == <<receipts, seen, shed, unsure, final>>
vars == <<pc, guard, stop, messages, step, fit, spent, reports, signal, waiting, past>>

\* The loop's own variables that only the step that sets them mentions.
Rest == <<step, fit, spent, reports, signal>>

-----------------------------------------------------------------------------
(* The trajectory *)

Crumb     == [kind |-> "crumb", of |-> {}, body |-> TRUE]
Host      == [kind |-> "host", of |-> {}, body |-> TRUE]
Prose     == [kind |-> "text", of |-> {}, body |-> TRUE]
Item(i)   == [kind |-> "item", of |-> {i}, body |-> TRUE]
Asks(ids) == [kind |-> "calls", of |-> ids, body |-> TRUE]
Tool(id)  == [kind |-> "tool", of |-> {id}, body |-> TRUE]

IsTool(m) == m.kind = "tool"
HasCrumb == messages # <<>> /\ Head(messages).kind = "crumb"
\* Nothing up to here is compacted.
Floor == IF HasCrumb THEN 1 ELSE 0
WithCrumb(s) == IF HasCrumb THEN s ELSE <<Crumb>> \o s
Say(t) == IF t THEN <<Prose>> ELSE <<>>
Items(q) == LET s == SetToSeq(q) IN [n \in 1..Len(s) |-> Item(s[n])]

\* Slip: reports are bulk like any other result.
ClearableReports ==
  {n \in Floor + 1 .. Len(messages) :
     n <= Len(messages) - KeepRecent /\ IsTool(messages[n]) /\ messages[n].body}
\* The bodies of _micro_compact: old tool results, but no child's report.
Clearable ==
  {n \in Floor + 1 .. Len(messages) :
     /\ n <= Len(messages) - KeepRecent
     /\ IsTool(messages[n]) /\ messages[n].body
     /\ messages[n].of \cap reports = {}}
Cleared == [n \in 1..Len(messages) |->
              IF n \in Clearable THEN [messages[n] EXCEPT !.body = FALSE] ELSE messages[n]]

\* Slip: a window of two messages.
OldestPair == IF Len(messages) > Floor + 1 THEN Floor + 2 ELSE Floor + 1
\* The oldest whole exchange: the first message and the tool replies behind it.
OldestEnd ==
  CHOOSE n \in Floor + 1 .. Len(messages) :
    /\ \A k \in Floor + 2 .. n : IsTool(messages[k])
    /\ n = Len(messages) \/ ~IsTool(messages[n + 1])

Oldest == Floor + 1 .. OldestEnd
Dropped == SubSeq(messages, 1, Floor) \o SubSeq(messages, OldestEnd + 1, Len(messages))

\* The items and the results the trajectory has in full.
Carried == UNION {m.of : m \in {k \in Range(messages) : k.kind \in {"item", "tool"} /\ k.body}}

-----------------------------------------------------------------------------
Init ==
  /\ pc = "setup" /\ guard = 1 /\ stop = "none" /\ messages = <<>>
  /\ steps = 0 /\ resumes = 0 /\ hinted = {}
  /\ tight = MaxTight /\ fellback = FALSE
  /\ spent = FALSE /\ reports = {} /\ signal = FALSE /\ waiting = {}
  /\ receipts = {} /\ seen = {} /\ shed = FALSE /\ unsure = FALSE /\ final = FALSE

\* A step is inside its own try, everything else inside the outer one.
Go(l) ==
  /\ pc' = l
  /\ guard' = IF l \in {"gate", "done"} THEN 1 ELSE guard
  /\ stop' = IF l = "gate" THEN "none" ELSE stop
\* _park: a closeout call where one is due and anything was said yet (the seed
\* always was, once it is built), then the one interruption.
ParkAt(l, reason) == pc' = l /\ stop' = reason /\ UNCHANGED guard
Park(reason) == ParkAt("announce", reason)
ParkCloseout(reason) == ParkAt("closeout", reason)

\* The seed is built once.
Setup ==
  /\ pc = "setup" /\ Go("gate")
  /\ UNCHANGED <<messages, Rest, waiting, past>>

\* The gates at the top of a step: cancelled, out of steps, out of budget.
Gate ==
  /\ pc = "gate"
  /\ \/ signal /\ Park("aborted") /\ UNCHANGED steps
     \/ ~signal /\ steps = MaxSteps /\ ParkCloseout("max_steps") /\ UNCHANGED steps
     \/ /\ ~signal /\ steps < MaxSteps /\ steps' = steps + 1
        /\ IF spent THEN Park("token_budget") ELSE Go("drain")
  /\ UNCHANGED <<messages, resumes, hinted, fit, spent, reports, signal, waiting, past>>

\* A drain of one of the queues into the trajectory, with receipts.
Take(q) ==
  /\ messages' = messages \o Items(waiting \cap q)
  /\ receipts' = receipts \cup (waiting \cap q) /\ waiting' = waiting \ q
  /\ UNCHANGED <<seen, shed, unsure, final>>

\* _drain_steers behind the gates, and the start of the step.
Drain ==
  /\ pc = "drain" /\ Take(Steer)
  /\ pc' = "call" /\ guard' = 0 /\ UNCHANGED <<stop, Rest>>

-----------------------------------------------------------------------------
(* The model call *)

\* A request is answered: what it carried of items and reports is known.
Heard == seen' = seen \cup (Carried \cap (receipts \cup reports))
\* record_step_usage: the ceiling, once reached, stays so for the turn.
Spend == spent' \in {spent, TRUE}

\* A response is cancelled, over the budget, a batch of calls, or a stop; s is
\* its _normalize_stop, t says whether it has any content.
Respond(s, t) ==
  /\ Heard /\ Spend
  /\ IF signal THEN Park("aborted") /\ UNCHANGED messages
     ELSE IF spent' THEN Park("token_budget") /\ messages' = messages \o Say(t)
     ELSE IF s = "tool_use" THEN Go("tools") /\ UNCHANGED messages
     ELSE ParkAt("final", s) /\ messages' = messages \o Say(t)
Cuts == {"max_tokens", "filtered", "transport_error"}

Call ==
  /\ pc = "call"
  /\ \E s \in Cuts \cup {"end_turn", "tool_use"}, t \in BOOLEAN : Respond(s, t)
  /\ UNCHANGED <<step, fit, reports, signal, waiting, receipts, shed, unsure, final>>

\* The provider rejects the request, and the plan has a tighter seed.
Tighten ==
  /\ pc = "call" /\ tight > 0 /\ tight' = tight - 1
  /\ UNCHANGED <<pc, guard, stop, messages, step, fellback, spent, reports, signal, waiting, past>>

Shrink(s) ==
  /\ messages' = WithCrumb(s) /\ shed' = TRUE
  /\ UNCHANGED <<pc, guard, stop, fit, receipts, seen, unsure, final>>
SwapModel ==
  /\ fellback' = TRUE /\ tight' = MaxTight
  /\ UNCHANGED <<pc, guard, stop, messages, past>>
\* Slip: the model is swapped again and again.
CanSwapAgain == HasFallback
CanSwap == HasFallback /\ ~fellback
ParkOverflow == Park("overflow") /\ UNCHANGED <<fit, messages, past>>

\* ContextOverflow: clear old bodies, or swap the model when nothing is left,
\* or drop the oldest exchange, and try again; else park.
Overflow ==
  /\ pc = "call"
  /\ IF Clearable # {} THEN Shrink(Cleared)
     ELSE IF Len(messages) = Floor
     THEN IF CanSwap THEN SwapModel ELSE ParkOverflow
     ELSE IF \E n \in Oldest : messages[n].of \cap reports # {} THEN ParkOverflow
     ELSE Shrink(Dropped)
  /\ UNCHANGED <<step, spent, reports, signal, waiting>>

\* The retry loop gave up because of the cancellation.
CallCancelled ==
  /\ pc = "call" /\ signal
  /\ pc' = "announce" /\ stop' = "aborted" /\ guard' = 2
  /\ UNCHANGED <<messages, Rest, waiting, past>>

-----------------------------------------------------------------------------
(* The tools *)

Ids(b) == {<<steps, n>> : n \in 1..Len(b)}
Of(b, r) == {<<steps, n>> : n \in {k \in 1..Len(b) : b[k] = r}}
Hint(h) == h \notin hinted /\ hinted' = hinted \cup {h}

\* Slip: the safety stop comes first.
AfterBatchBlocked(b) ==
  IF Of(b, "refused") # {} THEN Park("blocked")
  ELSE IF Of(b, "unsure") # {} THEN Park("indeterminate")
  ELSE IF Of(b, "park") # {} THEN ParkAt("turnend", "waiting_peer")
  ELSE Go("gate")
\* The ladder behind a batch.
AfterBatch(b) ==
  IF Of(b, "unsure") # {}
  THEN IF Of(b, "report") # {} THEN ParkCloseout("indeterminate") ELSE Park("indeterminate")
  ELSE IF Cardinality(Of(b, "park")) > 1 THEN Park("error")
  ELSE IF Of(b, "park") # {} THEN ParkAt("turnend", "waiting_peer")
  ELSE IF Of(b, "refused") # {} THEN Park("blocked")
  ELSE IF spent' THEN Park("token_budget")
  ELSE Go("gate")
\* The assistant message, the batch with its children's usage, its results; the
\* host may add that the model keeps making the same observation.
Tools(b) ==
  /\ pc = "tools" /\ Spend
  /\ \E advice \in {<<>>, <<Host>>} :
       /\ messages' = messages \o <<Asks(Ids(b))>>
                         \o [n \in 1..Len(b) |-> Tool(<<steps, n>>)] \o advice
       /\ IF advice # <<>> THEN Of(b, "plain") # {} /\ Hint("repeat") ELSE UNCHANGED hinted
  /\ reports' = reports \cup Of(b, "report")
  /\ unsure' = (unsure \/ Of(b, "unsure") # {})
  /\ AfterBatch(b)
  /\ UNCHANGED <<steps, resumes, fit, signal, waiting, receipts, seen, shed, final>>

-----------------------------------------------------------------------------
(* The ladder behind a response that is not tool_use *)

\* The drain before the answer counts: a steer keeps the turn alive.
FinalDrain ==
  /\ pc = "final" /\ Take(Steer)
  /\ Go(IF waiting \cap Steer # {} THEN "gate" ELSE "checks")
  /\ UNCHANGED Rest
GoOn == messages' = Append(messages, Host) /\ Go("gate")

\* The completion hooks park a response, whole or cut short, or ask for another
\* step.
Hook ==
  /\ pc = "checks"
  /\ \/ Park("indeterminate") /\ UNCHANGED messages
     \/ GoOn
  /\ UNCHANGED <<Rest, waiting, past>>

\* The deliverable hook asks for a rewrite, once a turn and never past the
\* last step.
Nudge ==
  /\ pc = "checks" /\ stop = "end_turn" /\ steps < MaxSteps
  /\ Hint("deliverable") /\ GoOn
  /\ UNCHANGED <<steps, resumes, fit, spent, reports, signal, waiting, past>>

Resumable == stop \in {"max_tokens", "transport_error"} /\ resumes < MaxResumes
\* A response cut short is resumed a few times, then parked.
CutShort ==
  /\ pc = "checks" /\ stop \in Cuts
  /\ IF Resumable THEN GoOn /\ resumes' = resumes + 1
     ELSE Park(stop) /\ UNCHANGED <<messages, resumes>>
  /\ UNCHANGED <<steps, hinted, fit, spent, reports, signal, waiting, past>>

\* Nothing stands in the way of the answer.
Accepted ==
  /\ pc = "checks" /\ stop = "end_turn" /\ Go("followups")
  /\ UNCHANGED <<messages, Rest, waiting, past>>
\* _drain_followups: a follow-up continues the same turn.
FollowUps ==
  /\ pc = "followups" /\ Take(FollowUp)
  /\ Go(IF waiting \cap FollowUp # {} THEN "gate" ELSE "publish")
  /\ UNCHANGED Rest

\* The final answer and the sweep of the queues; then TurnEnd.
Publish ==
  /\ pc = "publish" /\ Go("turnend")
  /\ final' = TRUE /\ waiting' = {}
  /\ UNCHANGED <<messages, Rest, receipts, seen, shed, unsure>>

-----------------------------------------------------------------------------
(* The end of the turn *)

\* _final_answer: a call with the trajectory and one instruction; whatever it
\* raises is swallowed.
Closeout ==
  /\ pc = "closeout" /\ pc' = "announce"
  /\ \/ Heard /\ Spend
     \/ UNCHANGED <<seen, spent>>
  /\ UNCHANGED <<guard, stop, messages, step, fit, reports, signal, waiting, receipts, shed, unsure, final>>

\* TurnEnd, or TurnInterrupted; the queues are swept, unless Publish did, and
\* the result returned.
Return ==
  /\ pc \in {"turnend", "announce"} /\ Go("done")
  /\ waiting' = IF pc = "turnend" /\ final THEN waiting ELSE {}
  /\ UNCHANGED <<messages, Rest, past>>

Ended == pc \in {"done", "raised"}

\* A batch that is interrupted leaves its assistant message without replies.
Unanswered == messages' = IF pc = "tools" THEN Append(messages, Asks({<<steps, 1>>})) ELSE messages

\* Ctrl-C: the handler of the step's try parks, then the outer one.
Interrupt ==
  /\ ~Ended /\ Unanswered
  /\ IF guard = 2 THEN pc' = "raised" /\ UNCHANGED <<guard, stop>>
     ELSE /\ guard' = guard + 1 /\ pc' = "announce"
          /\ stop' = IF pc = "tools" THEN "indeterminate" ELSE "aborted"
  /\ UNCHANGED <<Rest, waiting, past>>

\* An unexpected error, or a required sink that fails: the outer handler parks.
Raise ==
  /\ ~Ended /\ pc # "closeout" /\ Unanswered
  /\ IF guard = 2 THEN pc' = "raised" /\ UNCHANGED <<guard, stop>>
     ELSE guard' = 2 /\ pc' = "announce" /\ stop' = "error"
  /\ UNCHANGED <<Rest, waiting, past>>

-----------------------------------------------------------------------------
(* Around the turn *)

Send(i) ==
  /\ ~Ended /\ i \notin waiting \cup receipts /\ waiting' = waiting \cup {i}
  /\ UNCHANGED <<pc, guard, stop, messages, Rest, past>>
Cancel ==
  /\ ~Ended /\ ~signal /\ signal' = TRUE
  /\ UNCHANGED <<pc, guard, stop, messages, step, fit, spent, reports, waiting, past>>

Loop ==
  \/ Setup \/ Gate \/ Drain
  \/ Call \/ Tighten \/ Overflow \/ CallCancelled
  \/ \E b \in Batches : Tools(b)
  \/ FinalDrain \/ Hook \/ Nudge \/ CutShort \/ Accepted \/ FollowUps
  \/ Publish \/ Closeout \/ Return

Next ==
  \/ Loop \/ Interrupt \/ Raise \/ Cancel
  \/ \E i \in Steer \cup FollowUp : Send(i)

Spec == Init /\ [][Next]_vars
\* The loop runs on one thread, and nothing in it waits for ever: a model call
\* returns (ProviderCall), and so does a tool batch (ReadWave).
FairSpec == Spec /\ WF_vars(Loop)

-----------------------------------------------------------------------------
(* Properties *)

TypeOK ==
  /\ pc \in {"setup", "gate", "drain", "call", "tools", "final", "checks", "followups", "publish",
             "turnend", "closeout", "announce", "done", "raised"}
  /\ guard \in 0..2
  /\ stop \in Cuts \cup {"none", "end_turn", "waiting_peer", "aborted", "max_steps", "token_budget",
                         "overflow", "indeterminate", "error", "blocked"}
  /\ \A m \in Range(messages) :
       m.kind \in {"crumb", "host", "text", "item", "calls", "tool"} /\ m.body \in BOOLEAN
  /\ steps \in 0..MaxSteps /\ resumes \in 0..MaxResumes /\ hinted \subseteq {"repeat", "deliverable"}
  /\ tight \in 0..MaxTight
  /\ {fellback, spent, signal, shed, unsure, final} \subseteq BOOLEAN
  /\ waiting \cup receipts \subseteq Steer \cup FollowUp

\* The replies right behind message n.
Replies(n) ==
  {k \in n + 1 .. Len(messages) : \A j \in n + 1 .. k : IsTool(messages[j])}
\* The state is well typed, and every request is one a provider accepts: each
\* call of an assistant message is answered by the tool messages right behind
\* it, each tool message answers a call in front of it, whatever was drained,
\* cleared and dropped in between (the comments at loop.py:2052 and 1818).
PromptsWellFormed ==
  /\ TypeOK
  /\ pc \in {"call", "closeout"} =>
       /\ \A n \in 1..Len(messages) : messages[n].kind = "calls" =>
            UNION {messages[k].of : k \in Replies(n)} = messages[n].of
       /\ \A k \in 1..Len(messages) : IsTool(messages[k]) =>
            \E n \in 1 .. k - 1 : messages[n].kind = "calls" /\ k \in Replies(n)

\* Compaction is never silent and never costs a child's report: once anything
\* was shed, one note at the head of the trajectory says so, and every report
\* of the turn is there in full, also when the turn parks.
CompactionHonest ==
  /\ shed => HasCrumb
  /\ Cardinality({n \in 1..Len(messages) : messages[n].kind = "crumb"}) <= 1
  /\ \A r \in reports : \E n \in 1..Len(messages) :
       IsTool(messages[n]) /\ messages[n].of = {r} /\ messages[n].body

\* A turn that ends with "end_turn" gave a whole answer within the budget, by a
\* model that knew all there was: no outcome of the turn is unknown, every
\* child report and, as far as nothing was compacted, every steer and follow-up
\* acknowledged was in a request it answered.  A turn with an unknown outcome
\* says so, unless it was interrupted or failed on the way.
EndIsHonest ==
  /\ final => stop \in {"end_turn", "aborted", "error"}
  /\ final => ~spent /\ ~unsure /\ reports \subseteq seen /\ (shed \/ receipts \subseteq seen)
  /\ pc = "done" /\ stop = "end_turn" => final
  /\ pc = "done" /\ unsure => stop \in {"indeterminate", "aborted", "error"}

\* The turn comes to an end however often the context overflows, the response
\* is cut short or a hook wants more.
TurnEnds == <>Ended
=============================================================================
