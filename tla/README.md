# sliceagent in TLA+

Specifications of [sliceagent](../src/), a coding agent in Python whose turns
are durable: every turn is journalled, sealed into an immutable artifact and
committed to a checkpoint before the next one starts. The modules here are
translated from the code under `src/`, checked with TLC on small instances and,
but for liveness, proved with TLAPS for all instances. `core` below stands for
`src/packages/sliceagent-core/src/sliceagent_core`, `cli` for
`src/packages/sliceagent-cli/src/sliceagent_cli`. `PROJECT.json` maps each
definition to the lines it stands for and lists runs, mutants, hazards,
findings and theorems.

## 1. The system

A user talks to one process, which owns one workspace under a file lease. A
**turn** is one request: the composer opens it in the durable store, the loop
calls the model and lets the scheduler run tool calls, and the composer seals
it. Around the turn live background children (sub-agents that outlive the turn
that launched them), steers (text typed while a turn is running), and the
handoff of a turn to another workspace.

```
  TUI / REPL --line--> composer (cli.py) --begin/seal/recover--> LocalTurnStore
      |  steer queue        |                                        |
      v                     v                                        v
  BackgroundChild     loop.run_turn --calls--> scheduler      journal, artifacts,
  Manager (stash)           |                     |           checkpoints, .turn-order
      ^                     v                     v
      |               provider calls       tools, spawned children
      +---- detached completions -------------- |
```

### Components

**Turn durability: journal, seal and recovery** (`core/persistence.py`,
`core/runtime_persistence.py`).
State: the files `.turn-order`, `pending/*.jsonl`, `artifacts/*`,
`checkpoints/*`, and in memory `LocalTurnStore.active` with a state lock.
Operations: `begin` (reserve an order, write the header, write the segment
row), `record_execution_started`, `record_settlement`, `record_artifact_ref`,
`bind_artifact_ref_sink`/`commit_artifact`, `seal`, `recover_active_seal`,
`recover_pending`, `salvage_torn_tail`, `cleanup`.
Interaction: called by the composer's thread, by the scheduler's worker
threads through the event sink, and by child threads through their artifact
sinks.
Hard: crashes between and inside writes; children that publish while the parent
seals; publications of a retired turn; recovery that itself crashes.
Correct when: a turn is committed at most once, on top of the generation it was
opened on; nothing is unlinked before it is published; what is archived as
clean was clean; checkpoints cite only stored artifacts.

**Turn composer and workspace lifecycle** (`cli/cli.py`).
State: the session, the active store, the carried steers. Operations:
`_begin_local_turn`, `_run_one_turn`, `_seal_local_turn`, `build_workspace`
(which recovers), the slash commands. Hard: every step can fail and the process
must either continue in a state the store agrees with, or stop. Correct when no
turn runs against a store that is not ready for it and no turn is dropped
between its end and its seal.

**Workspace handoff** (`cli/workspace_handoff.py`, `WorkspaceTransitionStore` in
`core/runtime_persistence.py`, `core/session.py`).
State: transition tickets (prepared, activated, continuing), the list of
segments of a logical turn, the session rebased to the target. Operations:
`prepare`, `mark_activated`, `mark_continuing`, `clear`, `pending`,
`_switch_workspace`, `_begin_workspace_continuation`. Hard: a logical turn
is split over two stores and a crash may fall between them; the turn may travel
back. Correct when a request is in exactly one place and each segment is sealed
under an id of its own.

**Turn loop** (`core/loop.py`, `core/model_runner.py`).
State: step count, trajectory of messages, stop reason, channel of steers and
follow-ups, compaction and fallback state. Operations: a step (drain steers, model call, tool wave), `_park` and
the closing summary, sweeps of what nobody drained. Hard: messages arrive at
any time, and each exit path has to hand back what it did not use. Correct when
each steer is either shown to the model or handed back, in order, once, every request is
well formed, no report of a child is lost to compaction, and the reason a turn gives for
its end is the true one.

**Background children and fan-out** (`cli/background.py`,
`cli/scoped_spawn.py`, `cli/fanout.py`).
State: running children, the stash of completions, the queue of the attached
turn. Operations: `spawn`, `deliver`, `attach`, `detach(reclaim)`. Hard: a
completion races attach and detach. Correct when each completion is delivered
once, older ones first.

**Tool scheduler** (`core/scheduler.py`, `core/execution.py`).
State: jobs of a wave, daemon slots shared by all waves. Operations: announce,
launch, settle, per-job deadline, wave cutoff, cancel, slot release, publication
in provider order. Hard: abandoned threads outlive the wave, deadlines race
results. Correct when each call has exactly one outcome, no handler runs
unannounced, later waves are closed behind a failed barrier, and a wave always
ends.

**Event ledger** (`core/event_ledger.py`).
State: an append-only file and its decoded list. Operations: load, tail repair,
append, record, backfill of the delivered response. Hard: torn appends in a
process that goes on; a crash between seal and response. Correct when a reload
returns what was acknowledged, each event once.

**Provider calls** (`core/llm.py`, `core/errors.py`).
State: leases of the physical call gate, watchdog of a call, retry count.
Operations: acquire, release, reap, watchdog trip, retry. Hard: a lease reaped
while its call lives on; a request that ignores its cancellation. Correct when the
ceiling holds, no slot leaks, a logical call that returns has closed its request
or says that it has not, and every logical call returns.

**Active work graph** (`core/active_work.py`, `update_work` in
`cli/coding_tool_host.py`).
State: request roots and work items with a status, a replacement, verify
commands and the peer they wait for; a revision. Operations: open a request,
apply a delta (compare and swap on the revision), seal the current request,
expire and resume peer waits; around them the host's acceptance gate, the
reducer with its rollback, the replay. Hard: the graph lives in the session, in
a checkpoint per workspace and in the open journal, and each is moved by other
code. Correct when no request that is owed is dropped, no wait is forgotten, an
item counts as verified only on checks that ran, and a replay gives what was
confirmed.

**Slice state and reducers** (`core/pfc.py`, `core/slice_reducer.py`,
`core/tape.py`, ...): folds of events into pages and intent records. Pure.

**Crash WAL** (`core/recovery.py`): a best-effort message snapshot, read only to
show a notice.

**Terminal UI** (`cli/tui.py`): composer line, turn thread, retirement of a
turn. State: `pending_typed_steers`, the steer queue, the draft. Hard: the
hand-over of lines nobody drained. Correct when no typed line vanishes.

**Knowledge and memory** (`cli/knowledge.py`, `cli/memory.py`, ...): records
with a life cycle and supersession edges, indexes, retrieval. Correct when no
superseded record is active and supersession has no cycle.

**Processes and terminals** (`cli/procman.py`, `cli/terminal.py`), **tool host
and registry**, **MCP client and plugins**, **context and perception**, **hooks,
safeguards and plan mode**, **configuration, onboarding and updates**: registries,
wrappers over the operating system and pure functions. Their boundary to the
rest is a call with an outcome.

## 2. Plan

| # | Modules | What | State |
|---|---------|------|-------|
| 1 | `TurnSeal`, `TurnCommit` | the durable life of a turn, refining the commit of a generation | checked and proved |
| 2 | `SteerDelivery` | loop queues, `BackgroundChildManager`, TUI and REPL hosts | checked, with liveness; safety proved |
| 3 | `ReadWave`, `WaveContract` | one parallel wave of the scheduler, refining what a wave promises its caller | checked, with liveness; safety and refinement proved |
| 4 | `ToolBatch` | the waves of one model response on top of `WaveContract` | checked and proved |
| 5 | `WorkspaceHandoff` | one request over several workspaces, each store being what `TurnSeal` shows it to be | checked; safety of crossings and answers proved |
| 6 | `ProviderCall` | retry loop, physical call gate, the two transports | checked, with liveness; safety proved |
| 7 | `ActiveWork` | the graph of requests and work items and who moves it | checked; safety proved |
| 8 | `TurnLoop` | stop ladder, compaction and continuation limits of one turn | checked, with liveness; safety proved |
| 9 | a knowledge module | record life cycle and supersession | open, sequential |

How they compose: `ReadWave` implements `WaveContract`; `ToolBatch` uses that
contract for each of its waves and in turn gives `TurnSeal` the order of start row,
handler and settlement, and `ActiveWork` the fact that an update is published
before the next call runs. `WorkspaceHandoff` takes from `TurnSeal` that a seal or
a recovery leaves one artifact per journal or a conflict; `ActiveWork` takes the
crash while crossing from `WorkspaceHandoff`. `SteerDelivery` runs next to all of
them and shares only the turn thread; `TurnLoop` looks inside that thread, with a batch
reduced to the results `ToolBatch` allows and the two queues to sets.

Every module takes its sets as CONSTANTS with named assumptions, has one action
per operation, invariants as conjunctions of named parts, and no RECURSIVE
operator, so that each can be proved about. Runs are few: one passing run per
question, and a violation run only for the disagreements that lose work or lock a
workspace; section 5 lists the others.

## 3. What is modelled

### TurnSeal

One process at a time on one store (the lease is taken as granted), any number
of turns, tasks, calls and children.

| Variable | Code |
|----------|------|
| `order` | `.turn-order`, `reserve_durable_order` |
| `journal[t]` | the file `PendingTurnJournal` writes: header (`base`, `order`), `rows` with their newline, `loose` a complete last row without it, `frag` undecodable bytes |
| `frozen[t]` | the payload of the seal-intent row: the prepared artifact and checkpoint |
| `artifact`, `child` | `ArtifactStore`: turn artifacts by outcome, child artifacts by `parent_id` |
| `checkpoint[k]` | `CheckpointStore`: generation, durable order, committing turn, refs, uncertainty mark |
| `pc`, `job` | where `begin`, `seal` or `recover_pending` stands, and for which turn |
| `active` | `LocalTurnStore.active` |
| `stage[c]` | how far a tool call has come between scheduler and journal |
| `holder`, `bound` | who holds the state lock inside `commit_artifact`; the turn a sink is pinned to |
| `todo`, `refused` | the work of one `recover_pending` and whether it met a conflict |

Actions follow the code one to one: `Reserve`, `OpenJournal`, `Activate`
(`_begin_locked`); `RecordStart`, `Enter`, `RecordOutcome`, `AbandonStart`,
`LateCheck`, `LateStart` (event sink and scheduler); `Cite`, `BindSink`,
`StoreChild`, `RecordChild` (artifact references); `BeginSeal` and the pipeline
`Prepare`, `PutArtifact`, `NoteArtifact`, `Swap`, `NoteCheckpoint`,
`NoteSealed`, `Cleanup` (`coordinator.seal`); `Restart`, `Load`, `StartupDone`
(`recover_pending`, `build_workspace`). The pipeline is the same for a seal, for
its retry in the live process (`recover_active_seal`) and for recovery; `job.mode`
tells them apart. What fails is explicit: `BeginFails`, `AppendFails`,
`RecordChildFails`, `Refuse`, `PipelineFails`, `SealImpossible`, and `Crash`
anywhere. `Cut(j, row)` is the set of files an interrupted append can leave:
nothing new, the row, the row without its newline, a torn fragment. Atomic
replaces (header, artifact, checkpoint, unlink) either happened or not.

Abstractions: payloads are left out; a checkpoint is its generation, order,
references and whether it carries a reconciliation mark; the reducer fold of
`_replay_unprepared_checkpoint` is its references and its mark. A settlement is
`settle` (conclusive) or `vague` (indeterminate). `begun`, `ran`, `known`,
`acked` and `published` are history variables that only properties read; they
are the facts the files are supposed to tell the truth about.

### TurnCommit

The promise of all this to the task heads: a turn opens against a generation
and commits at most once, in one step, from exactly that generation to the
next. `TurnSeal!CommitsOnce` is the refinement, with a turn's outcome read off
`published` and `artifact`.

### SteerDelivery

Input that arrives while a turn runs, under both hosts (`inline` is chosen
once). Items are steers (`Line`), follow-ups and completions of detached
children (`Peer`).

| Variable | Code |
|----------|------|
| `children`, `bound`, `stash`, `flushing` | `BackgroundChildManager`: running count, `_queue` set, `_stash`, the local list of `attach` |
| `pc`, `steps`, `segment`, `clean` | the turn thread: `_live_turn`/`_run_one_turn`/`run_turn` or the inline loop; `end_turn` or another stop |
| `steerq`, `followq`, `swept` | the turn's two queues, `leftover_steers` |
| `fresh` | messages acknowledged since the last model request |
| `signal`, `carried`, `handback` | the live composer: cancel signal, `pending_typed_steers`, drafts waiting for the UI thread |
| `sent`, `acked`, `returned`, `dropped` | history: order of sending, receipts, drafts restored or not |

`Steer`, `QueueFollowUp`, `StartTurn`, `Cancel`, `RestoreDraft` are the key
bindings and callbacks of `tui.py`; `StartChild`, `Deliver`, `Attach`, `Flush`,
`Detach` the manager; `Gate`, `Drain`, `Compact`, `Call`, `Tools`, `FinalDrain`,
`Checks`, `DrainFollowUps`, `SweepFollowUps`, `SweepSteers` the loop; `Restore`,
`Seal`, `Reclaim`, `Retire` the host taking the turn back. `Route` says in which
order each host goes through its phases: the live composer attaches before it
prepares and detaches before its last drain, the inline host the other way
round. A handoff is another segment with the same queues (live) or fresh ones
(inline).

Abstractions: a loop of `get_nowait` until `Empty` is one step at its last get,
since only the turn thread takes from a queue; `attach`'s flush, which competes
with `deliver`, is one put per step. What stops a turn is nondeterministic at the
points where the code may stop (a park after a call, a wave, a check). The input
box is reduced to whether it can take a draft. Malformed items and a queue that
raises are left out: the two hosts put only text and `PeerMessage` into
`queue.Queue`. The ceiling of the manager counts a child until it has
delivered; its thread ends right after. Lines and follow-ups are named in the
order they are typed. `Only` is `_split_steer_handback` for one kind: the leftovers of
that kind, in the order of the queue.

`AccountedFor` reads the state as ten places (`Holding`) that share nothing, hold
nothing twice and, under the live composer, hold all that was sent. `LinesInOrder` is
about one row, what was acknowledged, then what was swept, then what is queued: its lines
stand in the order of `sent`.

### ReadWave and WaveContract

`_run_read_wave`: the scheduler thread, one daemon worker per job, the global
permits, and everything that can cut a wave short. The scheduler owns the
condition except while it waits, so its loop is a few atomic passes (`PollCut`,
`PollPass`, `Admit...`, `Return...`, `Close`) and a worker moves only in between.

| Variable | Code |
|----------|------|
| `wave` | the call's arguments: reads, read-only children or one writable child; with or without a timeout; with or without a start journal |
| `job[j]` | one `_DaemonReadJob` and its thread: `pc` in `worker`, the flags `abandoned`, `entered`, `done`, `error`, the outcome, the released slot |
| `next`, `cutoff`, `sched` | `next_index`, `cutoff_kind`, where the loop is |
| `free`, `foreign` | the module-wide semaphore and what other turns' waves hold of it |
| `cancelled`, `expired`, `guard`, `graceOver`, `slotWait`, `ramped` | signals and timers, one bit each: a timer that has run out |

A worker is `BeginRefused`, `BeginAnnounce`, `BeginHandler`, `Announce`,
`Publish`, `AnnounceFailed`, `CrossRefused`, `Cross`, `HandlerEnds`, `Settle`,
`Finish`. `Cut` is `establish_cutoff`, `Reap` the timeout of one job, `Assembled`
the final answers, `Interrupt` a KeyboardInterrupt in a wait. `WaveContract` says
the same from outside: each call gets one answer at one moment, "Not run" only if
its handler never ran and never will, and no handler starts once the wave is over.
`KeepsContract` is the refinement.

Abstractions: durations are bits, so any order of expiry the code allows is
there; a handler may run for ever and a journal may block for ever. A handler's
result is a status; `committed` is a success that carries a published child report.

### ToolBatch

`run_tool_batch` over `run_ordered`: calls are cut into waves, each wave is
prepared, run and published, edge by edge, to the journals that must know.

| Variable | Code |
|----------|------|
| `pc`, `first`, `ready`, `handoff` | where the batch is, the wave at hand, what prepare admitted, `handoff_index` |
| `known`, `attempted` | `outcomes`, `start_publication_attempt_ids` |
| `queue`, `after`, `acked` | calls still to be published (in provider order: `Front`), what follows, edges acknowledged |
| `truth`, `ran`, `seen`, `deaf` | history: what the wave answered, what ran, what the journals were told, journals that failed again |

A wave answers in one step, anything `WaveContract` allows. KeyboardInterrupt is
an action at every label (`WaveInterrupted`, `PublishInterrupted`, `Interrupted`)
and may come again while `Recover` runs. Twins are answered at the end from the
call they repeat. Two things the code does that the model keeps: after an
interrupt inside a wave the calls prepare refused are never published, and an
interrupt while twins are published recovers nothing, because that lies outside
the `try`. `EveryCallAnswered` therefore speaks of attempted starts. Which outcomes
an interrupted wave hands over is chosen more freely than `_run_read_wave` does.

### WorkspaceHandoff

| Variable | Code |
|----------|------|
| `here`, `home`, `up`, `pc` | the published workspace, where the process was started, whether it runs, where the composer is |
| `logical` | `session.logical_turn`: id, segment index, traversed edges |
| `sched`, `stop`, `requested`, `active` | the requested target, the segment's stop reason, `local_store.active` |
| `ticket`, `boot`, `tickets` | the ticket at hand, the one found at start, the files of `WorkspaceTransitionStore` |
| `journals`, `artifacts` | the stores of all workspaces |
| `delivered`, `crossed` | the two ledger events that close a turn or a crossing |

`Schedule`, `Stop`, `Seal`, `PrepareTicket`, `Switch`, `MarkActivated`,
`Continue`, `MarkContinuing`, `RecordCrossing`, `Deliver`, `Finish` are the steps
of a segment; `SealFails`, `PrepareFails`, `SwitchFails`, `Raises` their failures;
`Crash`, `Start`, `StartRefused`, `Repair` the restart with its recovery, ticket
adoption and ledger backfill; `Retire` and `RetireSettled` the two ways a ticket
goes. An artifact's id does not contain the segment index, as in the code, so a
second seal of one request in one workspace meets the first one's bytes.
A `prepare` that fails may leave its ticket on disk, since `_write` can raise behind its
`os.replace`. The refusals early in an admission are one failure.
The gaps the docstring of the ticket store mentions are covered from ticket to
continuation only: a crash between the source seal and `prepare`, or between
`RetireSettled` and the next `prepare`, leaves no ticket, and `CrossingNeverLost`
starts where the ticket is.

### ProviderCall

One logical call per caller, over the gate every caller shares.

| Variable | Code |
|----------|------|
| `call[c]` | `with_retry` and the owner's side of `run`/`_create_watchdog`: attempts, silent attempts, what the stream has said, cause and patience of a close |
| `req[a]` | one physical request: its lease in the gate, the caller's deadline, `_SubmissionHandoff`, `_TransportAdmission`, the coroutine or daemon worker and what its future holds, and whether the socket lives |

Owner's steps (`Advances`): admission, submission, polling, cut, close, collect,
retry. Worker's steps (`Worker`): it may wake late, open a socket late, end its
body, be torn down, answer, fail, ignore its cancellation or never confirm that it
closed; the provider owes nothing. `Tick` counts leases and deadlines down; any
thread may be late by any number of ticks. A reap is part of every admission, as
in `acquire_lease`.

Abstractions: a request's outcome is answer, failed or indeterminate; giving up
by cancellation and by interrupt are one action, and an interrupt in the wait for
closure counts as indeterminate: it promises nothing of the socket. A call may fail to start
(`NoAttempt`), which is how the start of the shared loop is seen. A timeout the
provider raises itself counts as silence, and a broken stream with text may always be
salvaged (the code refuses whitespace): both only add behaviours. The main
thread's alarm path (`_create`) is left out.

### ActiveWork

| Variable | Code |
|----------|------|
| `work` | the `WorkGraph` in the session: items with root, status, replacement, verify commands and wait; the revision |
| `saved[p]`, `rebuilt` | the graph in a workspace's checkpoint, and what a replay of the open journal gives |
| `opened`, `turn`, `crossing`, `here` | requests so far, the open turn, its target once its source segment is sealed, the workspace |
| `pending`, `ran` | the update on its way from handler to journal; history: which checks the host ran green for which item of which request |
| `own` | whether this workspace's checkpoint, or the journal of the turn, has the live graph; false behind `/cwd` until the next seal writes it down |

`Apply` with `Valid` and `Allowed` is `WorkGraph.apply`; `OpenRequest` compacts
settled requests and admits the next one; `SealCurrent` settles the segment;
`MayChange`, `Proposed`, `Delta` are `build_work_delta`; `MustProve` and
`Promoted` the acceptance gate. `Update`, `Reduce`, `Confirm`, `Fail` follow one
call from the tool body through the bound reducer to the journal's transition.
`Disrupt` cuts the recording of a reduction short (`record_effect_applied`): its
`semantic-transition` row may be in the journal or not, since the append of
`tool-effect-applied` may fail behind it, or its own behind its bytes; an exception
rolls the live graph back, an interrupt does not. The update is "undecided" from
then on, and the turn only seals (with the live graph) or is restarted (with the
journal's). A torn row or a failing seal is `TurnSeal`'s.
`Begin`, `Seal`, `SealToCross`, `Continue`, `Switch`, `Restart` are what the
composer does to the graph; `HostCall` the public calls of an embedding host
(`resume_waiting_peer`, `expire_peer_waits`, `seal_current` with a resolution),
which nothing under `src/` calls: that such a host publishes what it got is an
assumption.

Abstractions: dependency edges and references decide no transition and are left
out (they can only refuse an update); a refused update leaves the graph as it
was. A call changes one item, or two of which the first needs the second or
retires a request: unrelated changes are two calls. The retry of an admitted
event is left out since the composer mints fresh ids.

### TurnLoop

`run_turn`: the steps of one turn and the trajectory of messages behind its seed.

| Variable | Code |
|----------|------|
| `pc`, `guard` | where the turn is; inside the step's `try`, the outer one, or its handler |
| `messages` | `messages[seed_len:]`: notes, prose, drained items, calls and tool results with or without their body |
| `steps`, `resumes`, `hinted` | `steps`, `length_continuations`, the advisory and the nudge that are given once a turn |
| `stop` | `_normalize_stop` of the response, later the reason the turn ends with |
| `tight`, `fellback` | projections of the seed plan still tighter than the current one; `_fellback` |
| `spent`, `reports`, `signal`, `waiting` | the budget hook at its ceiling, `protected_child_reports`, the cancel signal, both queues |
| `receipts`, `seen`, `shed`, `unsure`, `final` | history: what was acknowledged, what an answered request carried, whether anything was compacted, an unknown outcome, a published answer |

`Gate`, `Drain`, `Call`, `Tools` are a step; `Tighten` and `Overflow` the loop
around the model call when the context overflows (tighter seed, old result bodies,
fallback model, oldest exchange, park); `FinalDrain`, `Hook`, `Nudge`, `CutShort`,
`Accepted`, `FollowUps`, `Publish` the ladder behind a response without calls, and
`AfterBatch` the one behind a batch. `Park`, `Closeout` and `Return` are `_park`;
`Interrupt` and `Raise` may come at every label and take the handlers in order.

Abstractions: the provider may reject any request, and a hook may park any
response, whole or cut short, or ask for another step. A tighter seed is a countdown; the experiment flag
`overflow_simple` is off. A batch is its results ("plain" stands for any number
of ordinary ones). Streams that break inside `complete_model_call` belong to
`ProviderCall`, the result aliases of T4 are wording.

## 4. Runs

| Run | Bounds | Shows |
|-----|--------|-------|
| `seal_calls` | 2 turns of one task, an effectful and a pure call, 1 child, 1 mishap | `NoFalseEnd`, `UncertaintyMarked`, `PublishedAsPrepared`: what a crash, torn write or retry leaves is never archived as cleaner than it was |
| `seal_children` | 2 turns of one task, 2 children, 2 mishaps, fairness | `RefsDurable`, `AckedChildPublished`, `ChildRefsStayWithParent`, `NothingLost`, `OrderFollowsGeneration`, refinement `CommitsOnce`, liveness `EveryTurnEnds` |
| `seal_replayed` | 2 turns, 2 mishaps | violation, finding 1 |
| `steer_delivery` | 2 steers, 1 follow-up, 1 detached child, 2 turns, 2 steps, 2 segments, fairness, both hosts | `AccountedFor`, `LinesInOrder`, liveness `TextSettles` |
| `read_wave` | waves of 2 reads, 2 children or 1 writable child, side by side or one behind the other, with and without timeout and journal; 2 permits, 1 of them contested; fairness | `SlotBooks`, `UncertaintyKept`, `NoWedgedPermit`, `CommitWins`, `NoLaunchOverUncertainty`, refinement `KeepsContract`, liveness `WaveEnds` |
| `tool_batch` | 5 batches of up to 5 calls of every kind | `OneTrueStory`, `NothingRunsPastABar`, `PublishedBeforeNext`, `EveryCallAnswered` |
| `handoff` | 3 workspaces, 2 requests, 2 switches each, 1 I/O error, any number of crashes | `OneAnswer`, `OneLiveHead`, `CrossingNeverLost` |
| `handoff_return` | 2 workspaces, 1 request | violation, finding 2 |
| `provider_call` | 2 callers, 1 slot, 2 physical requests, 2 attempts of which 1 silent, deadline, grace 1 tick each; fairness | `ReturnMeansClosed`, `Ceiling`, `NoSlotLost`, liveness `CallsReturn` |
| `active_work` | 2 requests, 2 items, 1 check, 1 wait, 2 workspaces, 2 updates, 2 upsets | `HostNeverRefused`, `Certified`, `ReplayRebuilds`, `RequestsKept`, `ParkSurvives` |
| `work_carried` | 2 requests, 1 item, 1 update | violation, finding 3 |
| `turn_loop` | 2 steps, 1 resumed response, 1 steer, 1 follow-up, 7 batches, 1 tighter seed, a fallback model; fairness | `PromptsWellFormed`, `CompactionHonest`, `EndIsHonest`, liveness `TurnEnds` |

The type invariant of each module is the first conjunct of one of its properties
(`PublishedAsPrepared`, `AccountedFor`, `SlotBooks`, `OneTrueStory`, `OneLiveHead`,
`Ceiling`, `HostNeverRefused`, `PromptsWellFormed`).

Why these bounds are enough.

`TurnSeal`: `MaxMishaps` counts crashes and I/O errors together and is the only
bound on the depth: each turn runs once and there are finitely many calls and
children. Two turns of one task are the least at which generations can collide, a
sink can outlive its turn, and a left-over journal can meet a newer one. Two
children are the least at which one can be between its two writes while another
has finished. Two mishaps are the least at which recovery itself fails; with calls
one mishap suffices for each torn row, and the proofs cover the rest. The child in
`seal_calls` is there because a call's append can tear the journal between the
child's two writes. Turns are interchangeable and `seal_calls` uses that symmetry;
`seal_children` checks liveness and does not.

`SteerDelivery`: two lines are the least that can change places; two turns the
least over which something is carried; two steps and two segments the least at
which a drained item meets another gate and a swept item another drain. Only
`MaxTurns` is a bound of the model, the others are limits of the program.

`ReadWave`: two jobs are the least at which one can hold what the other needs, be
reaped alone, or be launched over the other's uncertainty; one worker for two
jobs (`limit` 1) is the case where the launch pointer never reaches the end. A
writable child is always alone in its wave. `ForeignMax` is the only bound that is
not the program's: another wave can starve this one with a single permit as soon
as the first job holds the other.

`ToolBatch`: the five batches have every kind next to every kind it can share or
bar a wave with, a twin before and behind a barrier, and a batch of four waves.

`WorkspaceHandoff`: three workspaces are the least for a request that goes on to a
third one, two for one that comes back; two requests the least at which a stale
ticket meets a newer turn. Crashes are unbounded; `MaxFaults` counts I/O errors
only. Workspaces are interchangeable (symmetry; no liveness is checked).

`ProviderCall`: one slot and two callers is the least contention; two physical
requests let either caller retry, or both call once; a horizon is three ticks, so
that admission, deadline, grace and reap are distinct moments.

`ActiveWork`: two requests are the least at which one is old, parked or retired
while another is current; two items the least for a replacement and for a ready
item beside an unfinished one; two upsets the least for a switch followed by a
restart, a park followed by another seal, or a recording that is cut short and then
replayed. (The inductive invariant of section 6 was
also checked with three upsets over two requests and two updates of one item, and with
four upsets on one request.) `Asks` leaves out statuses that every
gate treats like `keep` on an open item, and "cancelled", which retires as "superseded" does
but names no replacement (what an older request still has open is cancelled with it). Items, checks, waits and workspaces are
interchangeable (symmetry; no liveness).

`TurnLoop`: two steps are the least at which an exchange lies behind a request, so
that the context can overflow over results, reports and an item at once; within one
call every rung of the overflow ladder can follow every other. One resumed response is
the least that can be followed by a second cut. `KeepRecent` 1 (10 in the code)
lets the recent window end inside an exchange. The seven batches are those on which the
rungs of the ladder differ, alone and in the pairs whose order counts. (Three steps
without a follow-up, 2.4 million states, hold as well.)

Deadlock checking is off everywhere: the process stops when all turns have run,
a wave that is closed takes no step, and handlers or providers may hang.

Each property has a mutant in `PROJECT.json`: a plausible slip in one mapped
definition (an operator of the same module whose comment says "slip") under which
TLC finds the property violated in the same run.

### Fairness

`TurnSeal`: weak fairness of opening, of the end of a turn, of the pipeline and
of recovery. The code runs these to completion on one thread, without waiting for
anyone: `begin` and `seal` are straight-line code, a turn is bounded by its step
budget and its tools by deadlines, a child's `commit_artifact` holds the lock only
over two file operations. Restart is fair because a turn nobody ever comes back
to has no liveness. Tool calls, children, crashes and late publications are not
fair. The number of mishaps is finite, as for any liveness of recovery.

`SteerDelivery`: the turn thread and the UI's callback queue are fair: model calls
and tool waves have deadlines (`read_wave`, `provider_call`) and nothing else in a
turn waits. The user, the children and the provider's overflows are not.

`ReadWave`: the scheduler's passes and the timers are weakly fair. A worker's steps
that need the condition are strongly fair: the scheduler leaves the lock at every
wait and polls for ever, so the lock is free again and again but not
continuously. Handlers, the journal, cancellation and other waves owe nothing.

`TurnLoop`: weak fairness of the loop as a whole, on the same grounds as in
`SteerDelivery`; interrupts, errors, cancellation and the user are not fair.

`ProviderCall`: an owner's own steps and the clock are weakly fair; giving up is
left out of it, and so is every step of the transport and the provider: the
owner returns by its deadlines alone.

## 5. Findings

1. **`seal_replayed`**: recovery of an unprepared journal is not idempotent. It
   rebuilds the checkpoint before the coordinator looks at the store, and
   `_replay_unprepared_checkpoint` (`core/runtime_persistence.py:937`) insists
   that the head is at the journal's base. If a start dies between its own
   compare-and-swap and the unlink, the head is one further and the next start
   refuses the workspace, although `SealCoordinator.recover`
   (`core/persistence.py:1295`) promises "verify exact bytes and only clean up".
2. **`handoff_return`**: `deterministic_artifact_id` (`core/persistence.py:165`)
   leaves the segment out, so a request that returns to a workspace it left
   prepares its second seal under the id of the first. The seal conflicts, and so
   does every later recovery: the workspace never opens again, though the design
   allows several distinct edges.
3. **`work_carried`**: `/cwd` carries the open requests into the target only in
   the session. The next turn's journal holds deltas against that graph, and a
   replay applies them to the target's own older checkpoint
   (`core/runtime_persistence.py:939`): without an update the carried requests are
   gone, with one the revision conflict makes the recovery a conflict and the
   workspace cannot be opened. Both outcomes were reproduced on the code.

Other disagreements met while modelling; the models behave as the code does, no
run is kept for them:

- `record_effect_applied` (`core/runtime_persistence.py:634-645`) appends the
  `semantic-transition` row, the only one a replay consults (1011-1014, 1073), and then
  `tool-effect-applied`. If the second append raises, or the first one behind its
  bytes (`core/persistence.py:1078-1089`), `_bind_reduce_event` rolls the live graph
  back (`cli/cli.py:1975-1978`) and the row stays. A process that dies before its
  seal is then recovered with the update it had rejected, while one that seals
  writes the graph without it, against the docstring of `_reduce_event`
  ("Transactionally publish in-memory reduction with its durable applied-effect IDs",
  `cli/cli.py:1917`). Reproduced on the code: the live graph has the request alone, the
  recovered one also a ready item. `Disrupt` models it, TLC finds the state, and
  `ReplayRebuilds`, `RequestsKept` and `ParkSurvives` say what holds nevertheless.
- The inline host empties its queue and then detaches it (`cli/cli.py:2982`); a
  completion delivered in between is lost, against "whatever the turn never drained
  is reclaimed". `AccountedFor` therefore claims completeness for the live composer
  only; claimed for both hosts, TLC refutes it.
- `snapshot()` decodes with `splitlines`, so a complete last record without its
  newline passes as a record (`core/persistence.py:987`), though
  `salvage_torn_tail` (1025-1026) says it "remains a hard conflict"; the next
  append shares its line.
- The event sink compares the active turn and the store reads it again
  (`cli/cli.py:1946`): a start publication the scheduler stopped waiting for can
  land in the next turn's journal, against the comment two lines up. That turn is
  archived as indeterminate at worst, never as too clean: `NoFalseEnd` holds.
- The drain behind a final answer (`core/loop.py:2201`) acknowledges a steer and
  returns to the gates; at the last step the turn is parked and the model never
  sees it, what 2022-2025 calls "a false delivery receipt".
- Compaction drops a steer like any other message. One that is too large itself is
  drained, acknowledged, dropped when the provider rejects the request, and the turn
  ends with "end_turn" on an answer that never saw it, against "a drained steer is
  guaranteed a full model step" (`core/loop.py:2024-2025`). Reproduced on the code;
  `EndIsHonest` excludes items once something was compacted.
- A required sink that fails on `TurnEnd` sends the turn to the outer handler, which
  adds a `TurnInterrupted` to the `TurnEnd` other sinks have seen, and what the sweep
  had taken off the queues is not in the result (`core/loop.py:2288-2294`).
  Reproduced on the code.
- `attach` publishes the queue under the lock and flushes the stash after it
  (`cli/background.py:86`), so a later completion overtakes the stashed ones.
- `_sweep_leftovers` puts the follow-up queue in front of the steer queue because its
  items "are the oldest leftovers by construction" (`core/loop.py:1767-1768`). They
  are not when an earlier segment was swept: its follow-ups went back to the steer queue,
  and a follow-up typed since is put in front of them, so that a draft can hand
  follow-ups back in another order than they were typed in. Those a turn takes
  do stay in order: `_drain_followups` is reached only when the steer queue has been drained
  (`FollowUpsInOrder`, section 6). `LinesInOrder` is about steers, which this cannot
  reorder.
- A handed-back draft is dropped when the input box is in use
  (`cli/tui.py:2496`); `AccountedFor` and `TextSettles` count it as `dropped`.
- A child reaped in mid-announcement whose wave is then cut is answered "Not run"
  although its start record was published (`core/scheduler.py:538`, against 393).
  A reaped child that settles before a steer cuts its wave is reported with its raw
  success (914-919). The interrupt path (812-827) does not free wedged slots.
- After the switch was published, `mark_activated` and the continuation raise
  ordinary exceptions that the live composer survives (`cli/cli.py:2570`), against
  "a failure is a durability stop". A second pending ticket of one root is neither
  adopted nor retired.
- The gate reclaims a slot at its horizon whether or not its request ended
  (`core/llm.py:347`), so an abandoned request can run next to a new one; the
  comment at 336 says reclamation "cannot overlap a live request". `Ceiling` is
  about slots.
- `build_work_delta` replaces an item's `verify` at any time, also together with
  `ready`, though `cli/plan_mode.py:4-5` says the contract is fixed at plan time;
  checks added to an item that is already ready are never run. `Certified` is
  about the checks the item carries when it is promoted. The bound reducer records
  the ledger's delta before the transition is confirmed (`cli/cli.py:1973`), while
  the unbound one does it after, "so it can never claim an effect that rollback
  rejected".

## 6. Proofs

Every component module has proofs: `TurnSeal`, `SteerDelivery`, `ProviderCall`, `ReadWave`,
`ToolBatch`, `WorkspaceHandoff`, `TurnLoop` and `ActiveWork`, each in a module of its own
named `...Proofs`, and every safety property, action property and refinement that a passing
run checks is a theorem. The theorems are listed in `PROJECT.json`; each states a property
that a run checks on a small instance, for every value of the constants, or an
inductive invariant such a theorem rests on. Each inductive invariant was checked by TLC on the
instance of the component's run before it was proved.

### TurnSeal

`TypeOK` and all its safety properties are proved: `NothingLost`,
`RefsDurable`, `CommitsOnce`, `NoFalseEnd`, `UncertaintyMarked`, `ChildRefsStayWithParent`,
`AckedChildPublished`, `OrderFollowsGeneration` and `PublishedAsPrepared`. The assumptions
are those `TurnSeal` names: `TaskOfType`, `EffectfulCalls`, `MishapBound`,
`NoneIsNothing` (the null value is none of the other values) and `KindsApart` (no
turn is a child: `deterministic_artifact_id` digests the kind of an artifact with its
identity, so the two can never share an id). Nothing assumes
the sets finite or the number of mishaps small.

`TurnSealProofs` is one inductive invariant in four layers.

1. Types: `TypeOK /\ Control`. `Control` says at which labels a turn is
   active and a job is set. Without it the actions that read
   `journal[active]` or `job.draft` have no type.
2. Books: `Books`, what the files say of each other. A turn that was
   never begun has left no trace (`FreshTurns`); a frozen, prepared or published
   checkpoint follows its journal's header (generation base + 1, the reserved
   order, a reference to its own turn); past `PutArtifact` the artifact is the
   draft's; past `Swap` the published checkpoint is the draft's; every head was
   published by some turn. `NothingLost` is not inductive: `Cleanup` unlinks
   after reading a row, and only the last two facts tie that row to the stores.
   From them follow `NothingLost`, `RefsDurable` and that every step is a step of `TurnCommit` or a stutter: all steps but `OpenJournal`
   and `Swap` (also inside `PipelineFails` and `Crash`) leave the mapped state
   alone; `Swap` replaces a head only from the base generation, or writes the same bytes
   again.
3. Truth: `Truth`, what the files say of the handlers. A handler ran
   only behind a start row that is terminated or whose journal is corrupt
   for good (`RowsTrue`), settle rows follow conclusive returns, stages agree
   with rows, and so every draft drawn up from a readable journal is honest
   (`HonestDrafts`). `NoFalseEnd` needs this because the archive is written
   from a draft, the draft from the rows, and only the rows from the handlers; a
   torn tail may lose a settle row but never a start row a handler waited for.

4. The record: `Kinship`, `Receipts`, `Admission` and `Intents`. Every
   draft, row and checkpoint that cites a child belongs to the child's own parent, since
   the sink is pinned to its turn and the id names it (`Kinship`). An acknowledged child
   has its row in the parent's journal and is in everything that was drawn up, frozen or
   published from that journal since (`Receipts`): `AckedChildPublished` is about a seal that
   starts between the two writes of `commit_artifact`, and the lock that orders them appears
   in the proof as `holder`. Each journal has a place of its own, not above the watermark, and
   within a task the places go up with the generations the journals are based on
   (`Admission`). An intent row stands in a journal only with the draft it froze, and a
   process that carries a turn on carries that draft, unless it replays a journal
   without the row (`Intents`).

Each layer is proved as Init, one lemma per action (with one step per conjunct the
action can disturb), and a last step that combines them with PTL.

### SteerDelivery

`SteerDeliveryProofs` proves `AccountedFor`, `LinesInOrder` and `FollowUpsInOrder` under both
hosts, for any lines, follow-ups and children, finite or not, and any number of turns, segments and steps.
The assumptions are `Limits` (the bounds are numbers) and `Kinds` (a steer is no
follow-up, and neither is a completion).

The invariant `IInv` has `TypeOK`, the two parts of `AccountedFor` (`Single`: no place holds a
thing twice; `Placed`: no two places share anything and together they hold what was sent),
`LinesInOrder` itself, and three parts that these need:

- `Control` says which queues can hold something at which label, and where no child can
  find a queue (`Detached`). Without it `Retire` and `StartTurn` could overwrite what a
  child has just delivered, and `Attach` what an earlier attach still had to flush. It is
  weaker for the inline host, which leaves the queue attached while it empties it.
- `Senders`: nothing is sent twice, a running child has not delivered, and the inline host
  sends no text, so that order has nothing to say of it (`InlineOrders`).
- `FollowUpsWait`: up to the sweep of a segment, and behind it when the segment ended cleanly,
  the row of `LinesInOrder` with the follow-up queue behind it has the
  follow-ups in order too. It holds because a follow-up that an earlier segment
  left in the steer queue is gone from there when `DrainFollowUps` runs. After any other end
  it fails, and so does the order of follow-ups in drafts (section 5).

Every step takes one set of items from one place to another (`Moved`), or sends one item
(`Arrived`), or, for `Retire`, does the former three times (`SharedOut`); the inline `Detach`
also forgets (`Left`). Order is about rows of queues: `InOrderJoined` splits a row into
what each queue has in order and which lies ahead of which (`Ahead`), and from it come the lemmas
that a row keeps its order when something of another kind joins it, goes or moves
(`InOrderPut`, `InOrderJoins`), and when it takes what has just been sent
(`OrderTaken`).

`Only` is the one operator that computes by recursion over data. The library's induction
theorems cannot be instantiated here, but a set of numbers that contains 0 and each
successor contains all (`AllNumbers`, from the existence of least elements), and with the set
of lengths up to which something is true in place of a predicate that is induction:
`OnlyFolds` shows that the recursive function exists, `OnlyThins` that its value is a thinning of the
sequence by increasing positions (`Thinned`), and `OnlyGives` that it therefore has just what the
sequence has of the kind, once if the sequence has it once, and in every order the
sequence keeps.

### ProviderCall

`ProviderCallProofs` proves `ReturnMeansClosed`, `Ceiling` and `NoSlotLost` for any
set of callers, any number of slots, attempts and calls, and any delays
(`ProviderAssumption`: the counts and delays are positive, the margin may be zero).
None of the three is inductive. `ReturnMeansClosed` speaks of a request that is open
while its caller is elsewhere, and what rules that out was settled steps earlier: a
caller leaves a request only when it is closed, or refuses it so that the worker never
opens it. The invariant `Books` therefore says what a request may look like at each
stage (`Requests`), what its caller knows of it (`Callers`, `Pairs`), that a request
nobody is calling is not live (`Orphans`), and that each slot held belongs to a
request whose worker or caller will release it, or which is recorded as unclosed
(`Slots`, `SlotsBounded`). An action changes one caller, one request, or one of each;
the lemmas `CallerStep`, `OwnStep` and `WorkerStep` carry `Books` over each shape, so that
an action's own lemma only argues about the records it touches. `Tick` is the
exception: it lowers every countdown at once, and keeps the order between a
request's deadline and its lease that `Ceiling` rests on.

### ReadWave

`ReadWaveProofs` proves `SlotBooks`, `UncertaintyKept`, `NoWedgedPermit`, `CommitWins` and
`NoLaunchOverUncertainty` for waves of any kind and size, any pool of permits, and
whatever the other turns hold of it (`WavesAssumption`, `BoundsAssumption`); and
`KeepsContract`, the refinement of `WaveContract`.

The invariant is about one job at a time. `JobBooks` says how the flags of one job record agree
(a job that entered its handler was not abandoned, a job that is done without an outcome
was), `WaveBooks` how a job agrees with the scheduler (after a cut-off no worker is between
its reservation and its end without being marked late; a job beyond `next` was never touched;
when the wave returned every unfinished job is answered "indeterminate"), `Permits` that free
permits, those of the jobs and the foreign ones add up to the capacity. The scheduler's passes
change many jobs at once, but each job by the same rule, so that a pass is proved for
one arbitrary job; a worker's step changes one. Only `Permits` counts, and only it needs
the finite-set theorems. The refinement follows from the invariant: the answers of `Close`
are given to all jobs in one step, and a job whose answer is "Not run" is refused at
its next look at the flags.

### ToolBatch

`ToolBatchProofs` proves `OneTrueStory`, `NothingRunsPastABar`, `PublishedBeforeNext` and
`EveryCallAnswered` for every batch. The one assumption is `BatchesAssumption`: a batch is
not empty, and a twin has a read before it with no barrier in between, which is how
`run_tool_batch` finds twins. The answers of a wave are those `WaveContract` allows, and
`ReadWave` is proved to keep to it.

None of the four is inductive: "uncertain outcomes bar what follows" is a statement about a
wave that was published some waves ago. The invariant has one part for each tense.
`Earlier`: what lies before the wave at hand is certain, and the journals have heard of it.
`Fresh`: what lies beyond it has no outcome. `Published`: in between, what has left the queue
has been heard. `Tried`: starts were attempted only before the wave at hand and among its
admitted calls, and never past a scheduled switch. `Story`: the journals were told nothing but
what the batch knows, and it knows what the wave said. One lemma, `EveryStepIsTruthful`, says
of all steps that none takes an outcome, an edge or a report back (`Truthful`); most parts
follow from it and from where the step leads. The geometry of waves (`WaveShape`,
`NextIsAdjacent`, `BehindIsEarlier`) is proved apart: a wave is a stretch of the scheduled calls,
and the next wave starts right behind it.

### WorkspaceHandoff

`WorkspaceHandoffProofs` proves `OneLiveHead`, `CrossingNeverLost` and `OneAnswer` for any set
of workspaces and any number of turns, switches and faults (`HandoffAssumption`: the bounds
are numbers, and one switch is allowed). The set of workspaces need not be finite; the
files of tickets and the traversed edges are, which the invariant says of itself.

`OneLiveHead` must survive a crash between any two durable steps, so the invariant relates the
files to where the composer was: `Ticketed` says which ticket can exist at each label, and at
which stage (behind a failed prepare one may be left over); `Adopted` what the ticket found at start may be, next to a turn begun since;
`NoneAhead` that a ticket which was only prepared has no later segment behind it, which is why
`Repair` may drop it. `OneAnswer` rests on `OneJournal` (the turn in hand has one open
journal, here), `OneEnd` (at most one segment of a request ends, or is to end, it) and
`Told` (at home all that is sealed is delivered, but for the answer in hand, and nothing but
what is sealed). `CrossingNeverLost` is part of the invariant itself.

### TurnLoop

`TurnLoopProofs` proves `PromptsWellFormed`, `CompactionHonest` and `EndIsHonest` for every set of
batches and of items, finite or not, and every limit (`LoopAssumption`: the limits are
numbers, a batch is not empty, the two queues take different items).

The invariant has two parts. `Trajectory` is about the messages: outside `Over`, the labels
behind which no request follows, each call is paired with its replies (a batch that is interrupted
breaks the pairing, and the turn then only ends); the note is at the head; each report and, while
nothing was shed, each acknowledged item is there in full. `Ladder` is about the control: behind a
response that is being accepted the model knew all there was (`Knowing`), and each label
of the end admits only some reasons. `Ladder` needs `Trajectory` in one place, the
model call (`AnsweredKnowing`): what an answered request carried is what the trajectory has.

Trajectories are proved about as sequences in general. `PairedGrown`, `PairedBatch` and `PairedCut`
say that the pairing survives a message that neither calls nor answers, a batch with its
replies, and the loss of a front that ends before a message that is no reply.
`OldestIsWhole` shows that the oldest exchange ends there, by a least element instead of an
induction; `ClearedKeeps` and `DroppedKeeps` put the rungs of the overflow ladder together
from these.

### ActiveWork

`ActiveWorkProofs` proves `HostNeverRefused`, `Certified`, `ReplayRebuilds` and the action
properties `RequestsKept` and `ParkSurvives` for any items, checks, waits and workspaces,
finite or not, and any number of messages, updates and upsets (`ActiveWorkAssumption`: the
bounds are numbers, the ids of items and waits are no requests, the null value is no workspace).

A graph that a handler moves may come from anywhere: from the session, a checkpoint written
three requests ago, a journal. So the invariant says the same of all of them (`Graphs`). Each is
`Sound` (typed, and valid by the rules of `_validate_graph`, with no request that was not
admitted) and `Proved` (what is verified was run). The rest is about who holds which graph:
`TurnTaking` (one turn at a time, of the newest request; it updates or crosses, not both),
`Updating` (an update between its acceptance and its record applies to the graph before
it; the live graph is one of the two, also behind a recording that was cut short), `OnDisk`
(the checkpoint or the journal has the live graph whenever `own` says so; while an update is
undecided, the graph before it or the graph behind it).

`ApplySound`, `OpenRequestWorks`, `CompactedSound` and `SealWorks` are lemmas about the graph's
operations on any sound graph: they return a sound graph, and the two that the host calls
unasked do not raise on the request of the turn. `HostNeverRefused` is these lemmas applied to the
live graph. `Proved` survives because `Delta` never offers a verified item that the gate has not
run (`DeltaOffers`, `OfferGives`); and since the rows of `ran` name item, request and checks
and are never taken back, it also survives rollback, compaction and replay. The
action properties say what each step does with an owed request (`OwedFate`); what is left
in each case is to show that the exit the step takes is one the property names. A restart
has two: the graph was never written down (`Forgotten`), or the journal has an undecided
retirement that the process had rolled back (`RetiredAfterAll`, section 5).

### What is only model-checked

Liveness under fairness, which is beyond the prover: `EveryTurnEnds`, `CallsReturn`,
`TextSettles`, `TurnEnds` and `WaveEnds` are TLC's. So are the three violations of section 5.

## 7. Not modelled

The map covers a small part of the repository's lines. What it covers is the
protocol code: stores, recovery, scheduler, hand-overs, gate and graph. Most of
the rest has no protocol of its own: intent parsing, prompts and guidance, wire
formats, rendering, code indexes, retrieval, configuration. A module about such
code would restate one function after the other.

Left out of the modelled components: the lease protocol between processes (one
process is assumed), disk corruption other than torn appends, the read-only
projections of the stores; a child's own run; the
ledger's file format; the alarm path of the main thread and the start of the
shared transport loop; dependency edges of work items. Components marked
`not_modelled` in `PROJECT.json` carry the reason in their note.
