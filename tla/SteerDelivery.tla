---------------------------- MODULE SteerDelivery ----------------------------
(***************************************************************************)
(* How input that arrives while a turn is running reaches the model: user   *)
(* steers and follow-ups through the queues of the running turn (loop.py),  *)
(* completions of detached children through BackgroundChildManager          *)
(* (background.py), and the hand-over of what nobody drained, at the end of *)
(* a turn, by the live composer (tui.py, cli.py) or the inline host         *)
(* (cli.py).                                                                *)
(*                                                                         *)
(* The user interface, the turn thread and the children run concurrently.   *)
(* A loop that gets from a queue until it is empty is one step, taken when  *)
(* the last get finds it empty: nothing but the turn thread takes from it.  *)
(***************************************************************************)
EXTENDS Naturals, Sequences, FiniteSets, Functions

CONSTANTS
  Line,         \* steers: text entered while a turn runs
  FollowUp,     \* follow-ups: text for when the turn would stop
  Peer,         \* completions of detached children
  MaxSteps,     \* cfg.max_steps
  MaxSegments,  \* workspace segments of one turn
  MaxChildren,  \* _MAX_BACKGROUND_CHILDREN
  MaxTurns      \* bound on the turns of a run

ASSUME Limits == /\ MaxSteps \in Nat \ {0} /\ MaxSegments \in Nat \ {0}
                 /\ MaxChildren \in Nat \ {0} /\ MaxTurns \in Nat
ASSUME Kinds == Line \cap FollowUp = {} /\ (Line \cup FollowUp) \cap Peer = {}

VARIABLES
  \* BackgroundChildManager
  children,   \* detached children that are running
  bound,      \* a turn's queue is attached
  stash,      \* completions delivered while none is
  flushing,   \* what attach has taken from the stash and not yet put
  \* the turn thread
  pc,         \* where it is
  steps,      \* model steps of this segment
  segment,    \* segments of this turn
  clean,      \* the segment ended with end_turn
  steerq,     \* the turn's steer queue
  followq,    \* the turn's follow-up queue
  swept,      \* leftover_steers, on its way back to the host
  fresh,      \* acknowledged in this segment, not yet in a model request
  \* the user interface
  inline,     \* the host is the inline REPL, not the live composer
  signal,     \* the user cancelled the turn
  carried,    \* pending_typed_steers
  handback,   \* drafts the UI thread has still to restore
  turns,      \* turns so far
  \* history
  sent,       \* items in the order they were sent
  acked,      \* items in the order of their delivery receipts
  returned,   \* lines restored to the input box
  dropped     \* lines of drafts that found the input box in use

manager == <<children, bound, stash, flushing>>
queues  == <<steerq, followq>>
loop    == <<steps, segment, clean, swept, fresh>>
ui      == <<inline, signal, carried, handback, turns>>
history == <<sent, acked, returned, dropped>>
vars == <<manager, queues, pc, loop, ui, history>>

Item == Line \cup FollowUp \cup Peer
Prose == Line \cup FollowUp

\* Where the turn thread goes after each phase; the inline host prepares before
\* it attaches, and reclaims before it seals.
Route ==
  IF inline
  THEN [started |-> "prepare", prepared |-> "attach", unprepared |-> "idle",
        flushed |-> "gate", swept |-> "reclaim", detached |-> "seal", sealed |-> "idle"]
  ELSE [started |-> "attach", prepared |-> "gate", unprepared |-> "detach",
        flushed |-> "prepare", swept |-> "restore", detached |-> "retire", sealed |-> "detach"]

Init ==
  /\ children = {} /\ bound = FALSE /\ stash = <<>> /\ flushing = <<>>
  /\ pc = "idle" /\ steps = 0 /\ segment = 0 /\ clean = FALSE
  /\ steerq = <<>> /\ followq = <<>> /\ swept = <<>> /\ fresh = <<>>
  /\ inline \in BOOLEAN /\ signal = FALSE /\ carried = <<>> /\ handback = <<>> /\ turns = 0
  /\ sent = <<>> /\ acked = <<>> /\ returned = <<>> /\ dropped = <<>>

Running == pc # "idle"
Unsent(i) == i \notin Range(sent)
\* Lines are named in the order they are typed.
Upcoming(i, kind) == Unsent(i) /\ i = CHOOSE j \in kind : Unsent(j)
Send(i) == sent' = Append(sent, i)

----------------------------------------------------------------------------
(* The user *)

\* Slip: the put follows the look at the queue, without the lock.
SteerUnlocked(l) ==
  /\ ~inline /\ turns > 0 /\ Upcoming(l, Line)
  /\ steerq' = Append(steerq, l) /\ Send(l)
  /\ UNCHANGED <<manager, followq, pc, loop, inline, signal, carried, handback, turns,
                 acked, returned, dropped>>
\* Enter while a turn runs: the put and the look at the queue are under one lock.
Steer(l) ==
  /\ ~inline /\ Running /\ Upcoming(l, Line)
  /\ steerq' = Append(steerq, l) /\ Send(l)
  /\ UNCHANGED <<manager, followq, pc, loop, inline, signal, carried, handback, turns,
                 acked, returned, dropped>>

\* Alt+Enter while a turn runs.
QueueFollowUp(f) ==
  /\ ~inline /\ Running /\ Upcoming(f, FollowUp)
  /\ followq' = Append(followq, f) /\ Send(f)
  /\ UNCHANGED <<manager, steerq, pc, loop, inline, signal, carried, handback, turns,
                 acked, returned, dropped>>

\* Enter with no turn running: fresh queues, with the typed leftovers in front.
StartTurn ==
  /\ ~Running /\ turns < MaxTurns
  /\ turns' = turns + 1 /\ signal' = FALSE
  /\ steerq' = carried /\ carried' = <<>> /\ followq' = <<>>
  /\ segment' = 1 /\ pc' = Route.started
  /\ UNCHANGED <<manager, steps, clean, swept, fresh, inline, handback, history>>

Cancel ==
  /\ Running /\ ~signal /\ signal' = TRUE
  /\ UNCHANGED <<manager, queues, pc, loop, inline, carried, handback, turns, history>>

\* restore_steer, on the UI thread: the box takes the draft unless there is text
\* in it already.
RestoreDraft ==
  /\ handback # <<>> /\ handback' = Tail(handback)
  /\ \/ returned' = returned \o Head(handback) /\ UNCHANGED dropped
     \/ dropped' = dropped \o Head(handback) /\ UNCHANGED returned
  /\ UNCHANGED <<manager, queues, pc, loop, inline, signal, carried, turns, sent, acked>>

----------------------------------------------------------------------------
(* Detached children: BackgroundChildManager *)

\* start, from a tool of the running turn: refused at the ceiling.
StartChild(p) ==
  /\ pc = "tools" /\ Cardinality(children) < MaxChildren
  /\ p \notin children /\ Unsent(p)
  /\ children' = children \cup {p}
  /\ UNCHANGED <<bound, stash, flushing, queues, pc, loop, ui, history>>

\* Slip: the queue is read under the lock and put to outside it.
DeliverUnlocked(p) ==
  /\ p \in children /\ children' = children \ {p} /\ Send(p)
  /\ \/ turns > 0 /\ steerq' = Append(steerq, p) /\ UNCHANGED stash
     \/ ~bound /\ stash' = Append(stash, p) /\ UNCHANGED steerq
  /\ UNCHANGED <<bound, flushing, followq, pc, loop, ui, acked, returned, dropped>>
\* deliver, under the manager's lock; with it the child's thread is done.
Deliver(p) ==
  /\ p \in children /\ children' = children \ {p} /\ Send(p)
  /\ IF bound THEN steerq' = Append(steerq, p) /\ UNCHANGED stash
     ELSE stash' = Append(stash, p) /\ UNCHANGED steerq
  /\ UNCHANGED <<bound, flushing, followq, pc, loop, ui, acked, returned, dropped>>

\* attach: the queue is published and the stash taken under the lock ...
Attach ==
  /\ pc = "attach"
  /\ bound' = TRUE /\ flushing' = stash /\ stash' = <<>> /\ pc' = "flush"
  /\ UNCHANGED <<children, queues, loop, ui, history>>

\* ... and the stash is put to the queue after the lock is released.
Flush ==
  /\ pc = "flush" /\ flushing # <<>>
  /\ steerq' = Append(steerq, Head(flushing)) /\ flushing' = Tail(flushing)
  /\ UNCHANGED <<children, bound, stash, followq, pc, loop, ui, history>>
FlushDone ==
  /\ pc = "flush" /\ flushing = <<>>
  /\ pc' = Route.flushed
  /\ UNCHANGED <<manager, queues, loop, ui, history>>

----------------------------------------------------------------------------
(* run_turn *)

Go(l) == pc' = l /\ UNCHANGED <<manager, ui, sent, returned, dropped>>
Stay == UNCHANGED <<queues, segment, swept, acked>>
Fail == Go("sweep") /\ Stay /\ clean' = FALSE /\ UNCHANGED <<steps, fresh>>

\* The slice is built; a failure or a cancellation skips run_turn, as does
\* small talk.
Prepare ==
  /\ pc = "prepare"
  /\ \/ Go(Route.prepared)
     \/ Go(Route.unprepared)
  /\ Stay /\ UNCHANGED <<steps, clean, fresh>>

\* The gates at the top of a step: cancelled, out of steps, out of budget.
Gate ==
  /\ pc = "gate"
  /\ \/ Fail
     \/ /\ ~signal /\ steps < MaxSteps /\ steps' = steps + 1
        /\ Go("drain") /\ Stay /\ UNCHANGED <<clean, fresh>>

\* _drain_steers: each item joins the trajectory and is acknowledged.
TakeSteers ==
  /\ acked' = acked \o steerq /\ fresh' = fresh \o steerq /\ steerq' = <<>>
  /\ UNCHANGED <<followq, steps, segment, clean, swept>>

\* The drain behind the gates.
Drain == pc = "drain" /\ TakeSteers /\ Go("call")

\* The context overflows, the request is refused, and the oldest message is cut
\* from the trajectory; when nothing older is left, it is one just acknowledged.
Compact ==
  /\ pc = "call" /\ fresh # <<>> /\ fresh' = Tail(fresh)
  /\ Go("call") /\ Stay /\ UNCHANGED <<steps, clean>>

\* The model call: its answer asks for tools or is final; the call may fail, or
\* be cancelled or out of budget when it returns.
Call ==
  /\ pc = "call"
  /\ \/ \E l \in {"tools", "final"} : Go(l) /\ fresh' = <<>> /\ Stay /\ UNCHANGED <<steps, clean>>
     \/ Fail

\* The tool wave: the next step, or a parked turn.
Tools ==
  /\ pc = "tools"
  /\ \/ Go("gate") /\ Stay /\ UNCHANGED <<steps, clean, fresh>>
     \/ Fail

\* The drain before the answer counts as final: a steer keeps the turn alive,
\* and its next step meets the gates again.
FinalDrain ==
  /\ pc = "final" /\ TakeSteers
  /\ Go(IF steerq # <<>> THEN "gate" ELSE "checks")

\* The completion checks let the turn finish, ask for another step (as a
\* response cut short does), or park it.
Checks ==
  /\ pc = "checks"
  /\ \/ \E l \in {"followups", "gate"} : Go(l) /\ Stay /\ UNCHANGED <<steps, clean, fresh>>
     \/ Fail

\* _drain_followups: a follow-up continues the same turn, otherwise it is over.
DrainFollowUps ==
  /\ pc = "followups"
  /\ acked' = acked \o followq /\ fresh' = fresh \o followq /\ followq' = <<>>
  /\ clean' = (followq = <<>>)
  /\ Go(IF followq # <<>> THEN "gate" ELSE "sweep")
  /\ UNCHANGED <<steerq, steps, segment, swept>>

\* _sweep_leftovers: follow-ups, then steers, unacknowledged.
SweepFollowUps ==
  /\ pc = "sweep"
  /\ swept' = followq /\ followq' = <<>>
  /\ Go("sweepsteers") /\ UNCHANGED <<steerq, steps, segment, clean, fresh, acked>>
SweepSteers ==
  /\ pc = "sweepsteers"
  /\ swept' = swept \o steerq /\ steerq' = <<>>
  /\ steps' = 0 /\ fresh' = <<>>
  /\ Go(Route.swept) /\ UNCHANGED <<followq, segment, clean, acked>>

----------------------------------------------------------------------------
(* The host takes the turn back *)

\* Slip: the swept items are put back behind what has been queued since.
RestoreBehind ==
  /\ pc = "restore"
  /\ steerq' = steerq \o swept /\ swept' = <<>>
  /\ Go("seal") /\ UNCHANGED <<followq, steps, segment, clean, fresh, acked>>
\* _prepend_leftover_steers, atomic under the queue's mutex.
Restore ==
  /\ pc = "restore"
  /\ steerq' = swept \o steerq /\ swept' = <<>>
  /\ Go("seal") /\ UNCHANGED <<followq, steps, segment, clean, fresh, acked>>

\* The segment is sealed; a requested handoff continues the turn, with the same
\* queues under the live composer.
Seal ==
  /\ pc = "seal" /\ clean' = FALSE
  /\ \/ clean /\ segment < MaxSegments /\ segment' = segment + 1 /\ Go("prepare")
     \/ segment' = 0 /\ Go(Route.sealed)
  /\ UNCHANGED <<queues, steps, swept, fresh, acked>>

\* The inline host gets what is left in the queue ...
Reclaim ==
  /\ pc = "reclaim"
  /\ swept' = swept \o steerq /\ steerq' = <<>>
  /\ Go("detach") /\ UNCHANGED <<followq, steps, segment, clean, fresh, acked>>

\* ... and detaches it; detach stashes what it reclaimed.
Detach ==
  /\ pc = "detach"
  /\ bound' = FALSE /\ stash' = stash \o swept /\ swept' = <<>>
  /\ steerq' = IF inline THEN <<>> ELSE steerq
  /\ pc' = Route.detached
  /\ UNCHANGED <<children, flushing, followq, steps, segment, clean, fresh, ui, history>>

\* What a sequence has of one kind, in its order (_split_steer_handback).
Only(s, kind) ==
  LET kept[n \in 0..Len(s)] ==
        IF n = 0 THEN <<>>
        ELSE IF s[n] \in kind THEN Append(kept[n - 1], s[n]) ELSE kept[n - 1]
  IN  kept[Len(s)]

\* The end of the live turn, under the state lock: prose becomes a draft,
\* completions wait for the next turn.
Retire ==
  /\ pc = "retire"
  /\ LET left == steerq \o followq
         draft == Only(left, Prose)
     IN  /\ handback' = IF draft = <<>> THEN handback ELSE Append(handback, draft)
         /\ carried' = carried \o Only(left, Peer)
  /\ steerq' = <<>> /\ followq' = <<>> /\ pc' = "idle"
  /\ signal' = FALSE /\ segment' = 0
  /\ UNCHANGED <<manager, steps, clean, swept, fresh, inline, turns, history>>

----------------------------------------------------------------------------
TurnThread ==
  \/ Attach \/ Flush \/ FlushDone \/ Prepare \/ Gate \/ Drain \/ Call \/ Tools \/ FinalDrain
  \/ Checks \/ DrainFollowUps \/ SweepFollowUps \/ SweepSteers \/ Restore \/ Seal
  \/ Reclaim \/ Detach \/ Retire
User ==
  \/ StartTurn \/ Cancel
  \/ \E l \in Line : Steer(l)
  \/ \E f \in FollowUp : QueueFollowUp(f)

Next ==
  \/ TurnThread \/ Compact \/ User \/ RestoreDraft
  \/ \E p \in Peer : StartChild(p) \/ Deliver(p)

\* The turn thread and the UI's callback queue keep going: a model call and a
\* tool wave end (deadlines), and nothing else in a turn waits. The user, the
\* children and the provider's overflows promise nothing.
Fairness == WF_vars(TurnThread) /\ WF_vars(RestoreDraft)

Spec == Init /\ [][Next]_vars
FairSpec == Spec /\ Fairness

----------------------------------------------------------------------------
(* Properties *)

\* Every variable has its type.
Label == {"idle", "attach", "flush", "prepare", "gate", "drain", "call", "tools", "final",
          "checks", "followups", "sweep", "sweepsteers", "restore", "reclaim", "seal",
          "detach", "retire"}
TypeOK ==
  /\ children \subseteq Peer /\ bound \in BOOLEAN
  /\ stash \in Seq(Peer) /\ flushing \in Seq(Peer)
  /\ pc \in Label /\ steps \in 0..MaxSteps /\ segment \in 0..MaxSegments /\ clean \in BOOLEAN
  /\ steerq \in Seq(Item) /\ followq \in Seq(FollowUp)
  /\ swept \in Seq(Item) /\ fresh \in Seq(Item)
  /\ inline \in BOOLEAN /\ signal \in BOOLEAN
  /\ carried \in Seq(Peer) /\ handback \in Seq(Seq(Prose)) /\ turns \in 0..MaxTurns
  /\ sent \in Seq(Item) /\ acked \in Seq(Item)
  /\ returned \in Seq(Prose) /\ dropped \in Seq(Prose)

\* What lies where.
Written(drafts) == UNION {Range(drafts[d]) : d \in DOMAIN drafts}
Holding ==
  [stash |-> Range(stash), flushing |-> Range(flushing), carried |-> Range(carried),
   steerq |-> Range(steerq), followq |-> Range(followq), swept |-> Range(swept),
   drafts |-> Written(handback), acked |-> Range(acked), returned |-> Range(returned),
   dropped |-> Range(dropped)]
Content(holding) == UNION {holding[p] : p \in DOMAIN holding}

\* Nothing is in a place twice, and nothing in two places.
Once(s) == \A m, n \in DOMAIN s : s[m] = s[n] => m = n
WrittenOnce(drafts) ==
  \A d, e \in DOMAIN drafts : \A m \in DOMAIN drafts[d], n \in DOMAIN drafts[e] :
    drafts[d][m] = drafts[e][n] => d = e /\ m = n
Apart(holding) ==
  \A p, q \in DOMAIN holding : p # q => holding[p] \cap holding[q] = {}

\* The state is well typed, and everything the user or a child sent is in exactly
\* one place: waiting in one queue, acknowledged once or handed back.  Nothing
\* handed back had a receipt; under the live composer nothing is stranded in the
\* queue of a retired turn (deliver's docstring, the barrier comments of tui.py);
\* and a completion never becomes text with the user's authority, nor text a
\* completion.
AccountedFor == /\ TypeOK
                /\ Once(stash) /\ Once(flushing) /\ Once(carried) /\ Once(steerq)
                /\ Once(followq) /\ Once(swept) /\ Once(acked) /\ Once(returned)
                /\ Once(dropped) /\ WrittenOnce(handback) /\ Apart(Holding)
                /\ Content(Holding) \subseteq Range(sent)
                /\ ~inline => Range(sent) \subseteq Content(Holding)
                /\ Written(handback) \cup Range(returned) \cup Range(dropped) \subseteq Prose
                /\ Range(carried) \cup Range(stash) \subseteq Peer

\* Lines are acknowledged in the order they were typed in, and those that wait are
\* in that order behind them, through sweeps, restores and workspace segments; each
\* draft has its lines in order.
Before(log, i, j) == \E m, n \in DOMAIN log : m < n /\ log[m] = i /\ log[n] = j
InOrder(s, kind, log) ==
  \A m, n \in DOMAIN s : m < n /\ {s[m], s[n]} \subseteq kind => Before(log, s[m], s[n])
LinesInOrder ==
  /\ InOrder(acked \o swept \o steerq, Line, sent)
  /\ \A d \in DOMAIN handback : InOrder(handback[d], Line, sent)

\* Text sent into a running turn is acknowledged or handed back to the user,
\* however late it arrives.
TextSettles ==
  \A i \in Prose :
    i \in Range(sent) ~> i \in Range(acked) \cup Range(returned) \cup Range(dropped)
=============================================================================
