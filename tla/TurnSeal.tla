------------------------------ MODULE TurnSeal ------------------------------
(***************************************************************************)
(* The durable life of a turn in one workspace store: LocalTurnStore,       *)
(* PendingTurnJournal and SealCoordinator (runtime_persistence.py and       *)
(* persistence.py of sliceagent_core), one process at a time under the      *)
(* workspace lease, with crashes and I/O errors between and inside the      *)
(* durable writes.                                                          *)
(*                                                                         *)
(* A turn opens an append-only journal, journals each tool call before its  *)
(* handler runs, and is sealed in a pipeline of durable writes:             *)
(*   seal-intent row -> immutable artifact -> artifact-written row ->       *)
(*   checkpoint compare-and-swap -> checkpoint-committed row ->             *)
(*   journal-sealed row -> unlink of the journal.                           *)
(* A start of the process finds the journals left behind and finishes the   *)
(* pipeline, from the frozen intent or from a checkpoint it rebuilds.       *)
(***************************************************************************)
EXTENDS Naturals, FiniteSets

CONSTANTS
  Turn,        \* turns, each with the artifact id minted from its logical id
  Task,        \* tasks; a checkpoint is the head of one task
  TaskOf,      \* the task of each turn
  Call,        \* tool invocations
  Effectful,   \* the invocations with reconciliation targets
  Child,       \* child artifacts
  None,        \* no turn, no child, no row
  MaxMishaps   \* bound on crashes and I/O errors together

ASSUME TaskOfType == TaskOf \in [Turn -> Task]
ASSUME EffectfulCalls == Effectful \subseteq Call
\* deterministic_artifact_id digests the kind of an artifact with its identity.
ASSUME KindsApart == Turn \cap Child = {}
ASSUME MishapBound == MaxMishaps \in Nat

VARIABLES
  order,       \* .turn-order, the durable high-watermark
  journal,     \* the journal file of each turn
  frozen,      \* what the seal-intent row of each turn carries
  artifact,    \* the immutable turn artifact
  child,       \* the parent a stored child artifact names
  checkpoint,  \* the authoritative checkpoint of each task
  pc,          \* where the process is
  job,         \* the turn being opened, sealed or recovered
  active,      \* LocalTurnStore.active
  stage,       \* how far each call of the active turn has come
  holder,      \* the child publication that holds the state lock
  bound,       \* the turn a child's sink, or a call's start sink, is pinned to
  todo,        \* journals this start has still to recover
  refused,     \* this start met an ambiguous journal
  begun,       \* history: turns whose journal was opened
  ran,         \* history: handlers entered, per turn
  known,       \* history: handlers that returned conclusively, per turn
  acked,       \* history: children whose publication returned success
  published,   \* history: the checkpoint each turn published
  mishaps      \* crashes and I/O errors so far

durable  == <<order, journal, frozen, artifact, child, checkpoint>>
volatile == <<pc, job, active, stage, holder, bound, todo>>
history  == <<begun, ran, known, acked, published>>
vars == <<durable, volatile, refused, history, mishaps>>

----------------------------------------------------------------------------
(* Records *)

Ref == Turn \cup Child
Row == [kind : {"start", "settle", "vague"}, of : Call] \cup [kind : {"ref"}, of : Ref]
         \cup [kind : {"segment", "intent", "written", "committed", "sealed"}, of : {None}]
R(kind, of) == [kind |-> kind, of |-> of]
Mark(kind) == R(kind, None)

\* rows: terminated rows; loose: a complete last row without its newline;
\* frag: undecodable bytes at the end ("torn") or a corrupt line ("merged").
Journal == [here : BOOLEAN, base : Nat, order : Nat, rows : SUBSET Row,
            loose : Row \cup {None}, frag : {"no", "torn", "merged"}]
NoJournal == [here |-> FALSE, base |-> 0, order |-> 0, rows |-> {},
              loose |-> None, frag |-> "no"]

Status == {"ended", "indeterminate", "interrupted"}
ASSUME NoneIsNothing == None \notin Turn \cup Child \cup Call \cup Status \cup Row
Checkpoint == [gen : Nat, order : Nat, by : Turn \cup {None},
               refs : SUBSET Ref, marked : BOOLEAN]
NoCheckpoint == [gen |-> 0, order |-> 0, by |-> None, refs |-> {}, marked |-> FALSE]
Draft == [art : Status, ck : Checkpoint]
NoDraft == [art |-> "interrupted", ck |-> NoCheckpoint]
Mode == {"none", "begin", "seal", "replay", "unprepared"}
Job == [turn : Turn \cup {None}, mode : Mode, draft : Draft]
NoJob == [turn |-> None, mode |-> "none", draft |-> NoDraft]

----------------------------------------------------------------------------
(* PendingTurnJournal *)

\* What snapshot() returns: the unterminated last row counts as a row.
Seen(j) == j.rows \cup ({j.loose} \ {None})
Readable(j) == j.here /\ j.frag = "no"
\* Slip: an intent is believed only behind its artifact-written row.
HasConfirmed(j, kind) ==
  Mark(kind) \in Seen(j) /\ (kind = "intent" => Mark("written") \in Seen(j))
Has(j, kind) == Mark(kind) \in Seen(j)
Of(j, kind) == {r.of : r \in {s \in Seen(j) : s.kind = kind}}
\* Slip: an indeterminate outcome counts as settled.
UnresolvedSettledAnyhow(j) == Of(j, "start") \ (Of(j, "settle") \cup Of(j, "vague"))
\* JournalSnapshot.unresolved_invocations.
Unresolved(j) == Of(j, "start") \ Of(j, "settle")

\* append: the same row again is a no-op; a row written behind an unterminated
\* one shares its line, and the line no longer decodes.
Appended(j, row) ==
  IF row \in Seen(j) THEN j
  ELSE IF j.loose = None THEN [j EXCEPT !.rows = @ \cup {row}]
  ELSE [j EXCEPT !.loose = None, !.frag = "merged"]

\* The files an interrupted append may leave.
Cut(j, row) ==
  {j, Appended(j, row)} \cup
    (IF row \in Seen(j) THEN {}
     ELSE {[j EXCEPT !.loose = None, !.frag = "torn"]} \cup
          (IF j.loose = None THEN {[j EXCEPT !.loose = row]} ELSE {}))

\* Slip: a journal with a torn tail is discarded.
SalvagedAway(j) == IF j.frag = "torn" THEN NoJournal ELSE j
\* salvage_torn_tail.
Salvaged(j) == IF j.frag = "torn" THEN [j EXCEPT !.frag = "no"] ELSE j

\* cleanup.
Unlinked(j) == [j EXCEPT !.here = FALSE]

----------------------------------------------------------------------------
(* SealCoordinator *)

\* _validate: a clean seal over an unresolved call is forbidden.
Valid(j, t, draft) ==
  /\ draft.ck.gen = j.base + 1
  /\ draft.ck.order = j.order
  /\ t \in draft.ck.refs
  /\ Unresolved(j) # {} => draft.art # "ended"
  /\ Unresolved(j) \cap Effectful # {} => draft.ck.marked

\* ArtifactStore.exists, for turn and child artifacts.
Stored(r) == IF r \in Turn THEN artifact[r] # None ELSE child[r] # None
\* _ensure_checkpoint_refs.
RefsStored(ck) == \A r \in ck.refs : Stored(r)

Head(t) == checkpoint[TaskOf[t]]

\* Slip: the references recorded during the turn are left out.
SealDraftBare(j, t) ==
  [art |-> IF Unresolved(j) = {} THEN "ended" ELSE "indeterminate",
   ck  |-> [gen |-> j.base + 1, order |-> j.order, by |-> t, refs |-> {t},
            marked |-> Unresolved(j) \cap Effectful # {}]]
\* The checkpoint and status _seal_locked draws up from the journal.
SealDraft(j, t) ==
  [art |-> IF Unresolved(j) = {} THEN "ended" ELSE "indeterminate",
   ck  |-> [gen |-> j.base + 1, order |-> j.order, by |-> t,
            refs |-> {t} \cup Of(j, "ref"),
            marked |-> Unresolved(j) \cap Effectful # {}]]

\* The children recovery discovers by their parent_id.
Discovered(t) == {c \in Child : child[c] = t}

\* _replay_unprepared_checkpoint, and the artifact recover() keeps or makes up.
ReplayDraft(j, t) ==
  [art |-> IF artifact[t] = None THEN "interrupted" ELSE artifact[t],
   ck  |-> [gen |-> j.base + 1, order |-> j.order, by |-> t,
            refs |-> {t} \cup Of(j, "ref") \cup Discovered(t),
            marked |-> Unresolved(j) \cap Effectful # {}]]
\* Its first check; a turn without a base checkpoint replays from nothing.
Replayable(j, t) == j.base = 0 \/ Head(t).gen = j.base

----------------------------------------------------------------------------
Init ==
  /\ order = 0
  /\ journal = [t \in Turn |-> NoJournal]
  /\ frozen = [t \in Turn |-> NoDraft]
  /\ artifact = [t \in Turn |-> None]
  /\ child = [c \in Child |-> None]
  /\ checkpoint = [k \in Task |-> NoCheckpoint]
  /\ pc = "down" /\ job = NoJob /\ active = None
  /\ stage = [c \in Call |-> "queued"] /\ holder = None
  /\ bound = [x \in Child \cup Call |-> None]
  /\ todo = {} /\ refused = FALSE
  /\ begun = {}
  /\ ran = [t \in Turn |-> {}] /\ known = [t \in Turn |-> {}]
  /\ acked = {}
  /\ published = [t \in Turn |-> NoCheckpoint]
  /\ mishaps = 0

\* Whatever ends the process takes the volatile state with it.
PowerOff ==
  /\ pc' = "down" /\ job' = NoJob /\ active' = None
  /\ stage' = [c \in Call |-> "queued"] /\ holder' = None
  /\ bound' = [x \in Child \cup Call |-> None]
  /\ todo' = {}

Mishap == mishaps < MaxMishaps /\ mishaps' = mishaps + 1

GoTo(l) == pc' = l /\ UNCHANGED <<active, stage, holder, bound, todo>>

SetJournal(t, j) == journal' = [journal EXCEPT ![t] = j]

----------------------------------------------------------------------------
(* Opening a turn: LocalTurnStore._begin_locked *)

\* Slip: the high-watermark is read and not advanced.
ReserveSameOrder(t) ==
  /\ pc = "idle" /\ active = None /\ t \notin begun
  /\ job' = [NoJob EXCEPT !.turn = t, !.mode = "begin"]
  /\ GoTo("reserved")
  /\ UNCHANGED <<durable, refused, history, mishaps>>

\* reserve_durable_order: a new high-watermark before the journal exists.
Reserve(t) ==
  /\ pc = "idle" /\ active = None /\ t \notin begun
  /\ order' = order + 1
  /\ job' = [NoJob EXCEPT !.turn = t, !.mode = "begin"]
  /\ GoTo("reserved")
  /\ UNCHANGED <<journal, frozen, artifact, child, checkpoint, refused, history, mishaps>>

\* SealCoordinator.begin_turn: the header is one atomic replace and pins the
\* generation this turn will follow.
OpenJournal ==
  /\ pc = "reserved"
  /\ SetJournal(job.turn, [NoJournal EXCEPT !.here = TRUE, !.order = order,
                                            !.base = Head(job.turn).gen])
  /\ begun' = begun \cup {job.turn}
  /\ GoTo("opened")
  /\ UNCHANGED <<order, frozen, artifact, child, checkpoint, job, refused,
                 ran, known, acked, published, mishaps>>

\* The logical-segment row; only then is the turn active.
Activate ==
  /\ pc = "opened"
  /\ SetJournal(job.turn, Appended(journal[job.turn], Mark("segment")))
  /\ active' = job.turn /\ job' = NoJob /\ pc' = "run"
  /\ UNCHANGED <<order, frozen, artifact, child, checkpoint, stage, holder,
                 bound, todo, refused, history, mishaps>>

\* An I/O error while opening reaches the composer, which goes on without an
\* active turn: the header, once written, stays behind.
BeginFails ==
  /\ pc \in {"reserved", "opened"} /\ Mishap
  /\ \E j \in IF pc = "opened" THEN Cut(journal[job.turn], Mark("segment"))
              ELSE {journal[job.turn]} : SetJournal(job.turn, j)
  /\ job' = NoJob /\ GoTo("idle")
  /\ UNCHANGED <<order, frozen, artifact, child, checkpoint, refused, history>>

----------------------------------------------------------------------------
(* The running turn *)

Alive == pc = "run" /\ Readable(journal[active])
Advance(c, from, to) == stage[c] = from /\ stage' = [stage EXCEPT ![c] = to]
Write(row) == SetJournal(active, Appended(journal[active], row))

\* record_execution_started: the invocation row precedes the handler.
RecordStart(c) ==
  /\ Alive /\ Advance(c, "queued", "announced") /\ Write(R("start", c))
  /\ UNCHANGED <<order, frozen, artifact, child, checkpoint, pc, job, active, holder,
                 bound, todo, refused, history, mishaps>>

\* Slip: the handler does not wait for its start row.
EnterUnannounced(c) ==
  /\ pc = "run" /\ stage[c] \in {"queued", "announced"}
  /\ stage' = [stage EXCEPT ![c] = "running"]
  /\ ran' = [ran EXCEPT ![active] = @ \cup {c}]
  /\ UNCHANGED <<durable, pc, job, active, holder, bound, todo, refused,
                 begun, known, acked, published, mishaps>>

\* The append returned: the handler is entered.
Enter(c) ==
  /\ pc = "run" /\ Advance(c, "announced", "running")
  /\ ran' = [ran EXCEPT ![active] = @ \cup {c}]
  /\ UNCHANGED <<durable, pc, job, active, holder, bound, todo, refused,
                 begun, known, acked, published, mishaps>>

\* The handler returned and its outcome reaches record_settlement.
Concluded(row) ==
  known' = IF row.kind = "settle" THEN [known EXCEPT ![active] = @ \cup {row.of}] ELSE known

\* record_settlement; an indeterminate outcome leaves the call unresolved.
RecordOutcome(c, kind) ==
  /\ Alive /\ Advance(c, "running", "done") /\ Write(R(kind, c)) /\ Concluded(R(kind, c))
  /\ UNCHANGED <<order, frozen, artifact, child, checkpoint, pc, job, active, holder,
                 bound, todo, refused, begun, ran, acked, published, mishaps>>

\* The scheduler gives up on a pure read whose start publication is still in
\* progress: it settles the call as indeterminate and the wave goes on. The
\* publication stays pinned to the turn it was bound to.
AbandonStart(c) ==
  /\ Alive /\ c \notin Effectful /\ Advance(c, "queued", "late") /\ Write(R("vague", c))
  /\ bound' = [bound EXCEPT ![c] = active]
  /\ UNCHANGED <<order, frozen, artifact, child, checkpoint, pc, job, active, holder,
                 todo, refused, history, mishaps>>

\* _bind_journal_event: the abandoned publication compares the active turn with
\* the one it was bound to, whatever the main thread is doing.
LateCheck(c) ==
  /\ IF active = bound[c] THEN Advance(c, "late", "checked") /\ UNCHANGED bound
     ELSE Advance(c, "late", "queued") /\ bound' = [bound EXCEPT ![c] = None]
  /\ UNCHANGED <<durable, pc, job, active, holder, todo, refused, history, mishaps>>

\* observe_event reads the active turn again and writes to its journal.
LateStart(c) ==
  /\ Advance(c, "checked", IF active = None THEN "queued" ELSE "done")
  /\ IF active # None /\ Readable(journal[active])
     THEN Write(R("start", c)) /\ UNCHANGED bound
     ELSE UNCHANGED journal /\ bound' = [bound EXCEPT ![c] = None]
  /\ UNCHANGED <<order, frozen, artifact, child, checkpoint, pc, job, active, holder,
                 todo, refused, history, mishaps>>

\* LocalTurnStore.record_artifact_ref: cite an artifact that exists.
Cite(u) ==
  /\ Alive /\ holder = None /\ u # active /\ artifact[u] # None
  /\ R("ref", u) \notin Seen(journal[active]) /\ Write(R("ref", u))
  /\ UNCHANGED <<order, frozen, artifact, child, checkpoint, volatile, refused,
                 history, mishaps>>

\* bind_artifact_ref_sink: a child is pinned to the turn that launches it.
BindSink(c) ==
  /\ Alive /\ holder = None /\ bound[c] = None /\ child[c] = None
  /\ bound' = [bound EXCEPT ![c] = active]
  /\ UNCHANGED <<durable, pc, job, active, stage, holder, todo, refused,
                 history, mishaps>>

\* Slip: a sink follows whatever turn is active.
SinkOpenAnyTurn(c) == Alive /\ bound[c] # None /\ ~Has(journal[active], "intent")
\* _BoundArtifactRefSink._validate_locked.
SinkOpen(c) == Alive /\ bound[c] = active /\ ~Has(journal[active], "intent")

\* commit_artifact, under the state lock: store the child, then record it.
StoreChild(c) ==
  /\ holder = None /\ child[c] = None /\ SinkOpen(c)
  /\ child' = [child EXCEPT ![c] = bound[c]] /\ holder' = c
  /\ UNCHANGED <<order, journal, frozen, artifact, checkpoint, pc, job, active, stage,
                 bound, todo, refused, history, mishaps>>

RecordChild ==
  /\ Alive /\ holder # None /\ Write(R("ref", holder))
  /\ acked' = acked \cup {holder} /\ holder' = None
  /\ UNCHANGED <<order, frozen, artifact, child, checkpoint, pc, job, active, stage,
                 bound, todo, refused, begun, ran, known, published, mishaps>>

\* The record step raises on a journal that no longer decodes.
RecordChildFails ==
  /\ pc = "run" /\ holder # None /\ ~Readable(journal[active])
  /\ holder' = None
  /\ UNCHANGED <<durable, pc, job, active, stage, bound, todo, refused, history, mishaps>>

\* The rows whose append may be in progress.
InFlight ==
  {R("start", c) : c \in {d \in Call : stage[d] = "checked"}} \cup
  (IF pc # "run" THEN {}
   ELSE {R("start", c) : c \in {d \in Call : stage[d] = "queued"}} \cup
        {R("vague", c) : c \in {d \in Call \ Effectful : stage[d] = "queued"}} \cup
        {R(kind, c) : kind \in {"settle", "vague"}, c \in {d \in Call : stage[d] = "running"}} \cup
        {R("ref", c) : c \in {holder} \ {None}})

\* An append that stops half way.
CutRow(row) ==
  /\ active # None /\ Readable(journal[active])
  /\ \E j \in Cut(journal[active], row) : SetJournal(active, j)
  /\ Concluded(row)

\* An append raises in the live process: the call is not entered, the outcome
\* not confirmed, the child not acknowledged; the turn goes on.
AppendFails ==
  /\ Mishap
  /\ \E row \in InFlight :
       /\ CutRow(row)
       /\ IF row.kind = "ref" THEN holder' = None /\ UNCHANGED stage
          ELSE stage' = [stage EXCEPT ![row.of] = "done"] /\ UNCHANGED holder
  /\ UNCHANGED <<order, frozen, artifact, child, checkpoint, pc, job, active, bound, todo,
                 refused, begun, ran, acked, published>>

----------------------------------------------------------------------------
(* The pipeline, shared by seal, recover_active_seal and recover *)

\* A recovered journal is reported as a conflict and left where it is.
Conflict(t) ==
  /\ pc' = "startup" /\ job' = NoJob /\ todo' = todo \ {t} /\ refused' = TRUE
  /\ UNCHANGED <<active, stage, holder, bound>>

\* recover_active_seal applies only to a readable journal with a valid intent.
Retriable(j) ==
  job.mode = "seal" /\ Readable(j) /\ Has(j, "intent") /\ Valid(j, job.turn, job.draft)

\* An exception in the pipeline, with the journal left as j: a conflict while
\* starting, one retry in the live process, else the process stops.
Raise(j) ==
  \/ active = None /\ Conflict(job.turn)
  \/ /\ active # None /\ Retriable(j)
     /\ job' = [job EXCEPT !.mode = "replay"]
     /\ GoTo("artifact") /\ UNCHANGED refused
  \/ active # None /\ ~Retriable(j) /\ PowerOff /\ UNCHANGED refused

Target == journal[job.turn]

\* _seal_locked up to the coordinator, under the state lock.
BeginSeal ==
  /\ Alive /\ holder = None
  /\ job' = [turn |-> active, mode |-> "seal",
             draft |-> SealDraft(journal[active], active)]
  /\ GoTo("prepare")
  /\ UNCHANGED <<durable, refused, history, mishaps>>

\* A turn whose journal no longer decodes cannot be sealed.
SealImpossible ==
  /\ pc = "run" /\ holder = None /\ ~Readable(journal[active])
  /\ PowerOff
  /\ UNCHANGED <<durable, refused, history, mishaps>>

\* One pipeline append: at label from, the row of this kind, then label to.
Step(from, kind, to) ==
  /\ pc = from /\ Readable(Target)
  /\ SetJournal(job.turn, Appended(Target, Mark(kind)))
  /\ frozen' = IF kind = "intent" THEN [frozen EXCEPT ![job.turn] = job.draft] ELSE frozen
  /\ job' = job /\ GoTo(to)
  /\ UNCHANGED <<order, artifact, child, checkpoint, refused, history, mishaps>>

\* coordinator.seal validates against a fresh snapshot before the intent row.
Prepare == Step("prepare", "intent", "artifact") /\ Valid(Target, job.turn, job.draft)
NoteArtifact == Step("written", "written", "swap")
NoteCheckpoint == Step("committed", "committed", "sealed")
NoteSealed == Step("sealed", "sealed", "cleanup")

\* ArtifactStore.put: the same bytes again succeed, other bytes conflict.
PutArtifact ==
  /\ pc = "artifact" /\ artifact[job.turn] \in {None, job.draft.art}
  /\ artifact' = [artifact EXCEPT ![job.turn] = job.draft.art]
  /\ job' = job /\ GoTo("written")
  /\ UNCHANGED <<order, journal, frozen, child, checkpoint, refused, history, mishaps>>

\* Slip: the swap does not compare generations.
SwapAnyGeneration ==
  /\ RefsStored(job.draft.ck)
  /\ job.mode = "unprepared" => Valid(Target, job.turn, job.draft)
\* _ensure_checkpoint_refs, then CheckpointStore.compare_and_swap: the exact
\* bytes again succeed, otherwise the generation must be the expected one.
SwapAllowed ==
  /\ RefsStored(job.draft.ck)
  /\ job.mode = "unprepared" => Valid(Target, job.turn, job.draft)
  /\ Head(job.turn) = job.draft.ck \/ Head(job.turn).gen = Target.base
\* Slip: the checkpoint goes before the artifact and checks no reference.
SwapFirst ==
  /\ pc = "artifact" /\ Head(job.turn).gen = Target.base
  /\ checkpoint' = [checkpoint EXCEPT ![TaskOf[job.turn]] = job.draft.ck]
  /\ published' = [published EXCEPT ![job.turn] = job.draft.ck]
  /\ job' = job /\ GoTo("committed")
  /\ UNCHANGED <<order, journal, frozen, artifact, child, refused, begun, ran, known,
                 acked, mishaps>>

Swap ==
  /\ pc = "swap" /\ SwapAllowed
  /\ checkpoint' = [checkpoint EXCEPT ![TaskOf[job.turn]] = job.draft.ck]
  /\ published' = [published EXCEPT ![job.turn] = job.draft.ck]
  /\ job' = job /\ GoTo("committed")
  /\ UNCHANGED <<order, journal, frozen, artifact, child, refused, begun, ran, known,
                 acked, mishaps>>

\* A start publication nobody waits for any more.
Pending(c) == stage[c] \in {"late", "checked"}

\* cleanup re-reads the journal and unlinks it; the turn is over.
Cleanup ==
  /\ pc = "cleanup" /\ Readable(Target) /\ Has(Target, "sealed")
  /\ SetJournal(job.turn, Unlinked(Target))
  /\ pc' = IF active = None THEN "startup" ELSE "idle"
  /\ todo' = todo \ {job.turn} /\ active' = None /\ job' = NoJob
  /\ stage' = [c \in Call |-> IF Pending(c) THEN stage[c] ELSE "queued"]
  /\ bound' = [x \in DOMAIN bound |-> IF x \in Call /\ ~Pending(x) THEN None ELSE bound[x]]
  /\ UNCHANGED <<order, frozen, artifact, child, checkpoint, holder, refused,
                 history, mishaps>>

\* A check of the pipeline raises.
Refuse ==
  /\ \/ pc \in {"prepare", "written", "committed", "sealed", "cleanup"} /\ ~Readable(Target)
     \/ pc = "prepare" /\ Readable(Target) /\ ~Valid(Target, job.turn, job.draft)
     \/ pc = "artifact" /\ artifact[job.turn] \notin {None, job.draft.art}
     \/ pc = "swap" /\ ~SwapAllowed
  /\ Raise(Target)
  /\ UNCHANGED <<durable, history, mishaps>>

PipelineRow == [prepare |-> "intent", written |-> "written",
                committed |-> "committed", sealed |-> "sealed"]

\* What an interrupted pipeline write may leave on disk.
TornWrite ==
  \/ /\ pc \in DOMAIN PipelineRow /\ Readable(Target)
     /\ \E j \in Cut(Target, Mark(PipelineRow[pc])) : SetJournal(job.turn, j)
     /\ frozen' = IF pc = "prepare" THEN [frozen EXCEPT ![job.turn] = job.draft] ELSE frozen
     /\ UNCHANGED <<artifact, checkpoint, published>>
  \/ /\ pc = "artifact" /\ artifact[job.turn] \in {None, job.draft.art}
     /\ \E a \in {artifact[job.turn], job.draft.art} :
          artifact' = [artifact EXCEPT ![job.turn] = a]
     /\ UNCHANGED <<journal, frozen, checkpoint, published>>
  \/ /\ pc = "swap" /\ SwapAllowed
     /\ \/ UNCHANGED <<checkpoint, published>>
        \/ /\ checkpoint' = [checkpoint EXCEPT ![TaskOf[job.turn]] = job.draft.ck]
           /\ published' = [published EXCEPT ![job.turn] = job.draft.ck]
     /\ UNCHANGED <<journal, frozen, artifact>>
  \/ /\ pc = "cleanup" /\ Readable(Target) /\ Has(Target, "sealed")
     /\ \E j \in {Target, Unlinked(Target)} : SetJournal(job.turn, j)
     /\ UNCHANGED <<frozen, artifact, checkpoint, published>>

\* An I/O error in a pipeline write, in a process that lives on.
PipelineFails ==
  /\ Mishap /\ TornWrite /\ Raise(journal'[job.turn])
  /\ UNCHANGED <<order, child, begun, ran, known, acked>>

----------------------------------------------------------------------------
(* Crash, start and recovery: LocalTurnStore.recover_pending *)

\* The process dies between two writes, or inside an append or a publish.
Crash ==
  /\ pc # "down" /\ Mishap /\ PowerOff
  /\ \/ UNCHANGED <<journal, frozen, artifact, checkpoint, known, published>>
     \/ TornWrite /\ UNCHANGED known
     \/ /\ \E row \in InFlight : CutRow(row)
        /\ UNCHANGED <<frozen, artifact, checkpoint, published>>
     \/ /\ pc = "opened"
        /\ \E j \in Cut(Target, Mark("segment")) : SetJournal(job.turn, j)
        /\ UNCHANGED <<frozen, artifact, checkpoint, known, published>>
  /\ UNCHANGED <<order, child, refused, begun, ran, acked>>

\* Slip: only prepared journals are recovered.
RestartPrepared ==
  /\ pc = "down"
  /\ pc' = "startup" /\ refused' = FALSE
  /\ todo' = {t \in Turn : journal[t].here /\ Has(journal[t], "intent")}
  /\ UNCHANGED <<durable, job, active, stage, holder, bound, history, mishaps>>

Restart ==
  /\ pc = "down"
  /\ pc' = "startup" /\ todo' = {t \in Turn : journal[t].here} /\ refused' = FALSE
  /\ UNCHANGED <<durable, job, active, stage, holder, bound, history, mishaps>>

\* snapshot() or salvage_torn_tail, then one of the two ways to recover.
Load(t) ==
  /\ pc = "startup" /\ job = NoJob /\ t \in todo
  /\ SetJournal(t, Salvaged(journal[t]))
  /\ LET j == Salvaged(journal[t]) IN
     \/ /\ Readable(j) /\ Has(j, "intent") /\ Valid(j, t, frozen[t])
        /\ job' = [turn |-> t, mode |-> "replay", draft |-> frozen[t]]
        /\ GoTo("artifact") /\ UNCHANGED refused
     \/ /\ Readable(j) /\ ~Has(j, "intent") /\ Replayable(j, t)
        /\ job' = [turn |-> t, mode |-> "unprepared", draft |-> ReplayDraft(j, t)]
        /\ GoTo("artifact") /\ UNCHANGED refused
     \/ /\ \/ ~Readable(j)
           \/ Has(j, "intent") /\ ~Valid(j, t, frozen[t])
           \/ ~Has(j, "intent") /\ ~Replayable(j, t)
        /\ Conflict(t)
  /\ UNCHANGED <<order, frozen, artifact, child, checkpoint, history, mishaps>>

\* build_workspace: an ambiguous journal stops the start.
StartupDone ==
  /\ pc = "startup" /\ todo = {}
  /\ pc' = IF refused THEN "down" ELSE "idle"
  /\ UNCHANGED <<durable, job, active, stage, holder, bound, todo, refused, history, mishaps>>

----------------------------------------------------------------------------
Pipeline == Prepare \/ PutArtifact \/ NoteArtifact \/ Swap \/ NoteCheckpoint
              \/ NoteSealed \/ Cleanup \/ Refuse
Recovery == Restart \/ (\E t \in Turn : Load(t)) \/ StartupDone
EndTurn == RecordChild \/ RecordChildFails \/ BeginSeal \/ SealImpossible
Opening == OpenJournal \/ Activate

Next ==
  \/ \E t \in Turn : Reserve(t)
  \/ Opening \/ BeginFails
  \/ \E c \in Call : RecordStart(c) \/ Enter(c) \/ AbandonStart(c)
                      \/ LateCheck(c) \/ LateStart(c)
  \/ \E c \in Call, kind \in {"settle", "vague"} : RecordOutcome(c, kind)
  \/ \E u \in Turn : Cite(u)
  \/ \E c \in Child : BindSink(c) \/ StoreChild(c)
  \/ EndTurn \/ AppendFails
  \/ Pipeline \/ PipelineFails
  \/ Crash \/ Recovery

\* The program leaves nothing it has begun: a started process recovers, a turn
\* ends (its step budget and tool deadlines bound it) and its seal is carried
\* through.
Fairness == WF_vars(Opening) /\ WF_vars(EndTurn) /\ WF_vars(Pipeline) /\ WF_vars(Recovery)

Spec == Init /\ [][Next]_vars
FairSpec == Spec /\ Fairness

----------------------------------------------------------------------------
(* Properties *)

\* Every variable has its type, and the process its program counter.
Label == {"down", "startup", "idle", "reserved", "opened", "run", "prepare", "artifact",
          "written", "swap", "committed", "sealed", "cleanup"}
Stage == {"queued", "announced", "running", "late", "checked", "done"}
TypeOK ==
  /\ order \in Nat
  /\ journal \in [Turn -> Journal]
  /\ frozen \in [Turn -> Draft]
  /\ artifact \in [Turn -> Status \cup {None}]
  /\ child \in [Child -> Turn \cup {None}]
  /\ checkpoint \in [Task -> Checkpoint]
  /\ pc \in Label /\ job \in Job /\ active \in Turn \cup {None}
  /\ stage \in [Call -> Stage] /\ holder \in Child \cup {None}
  /\ bound \in [Child \cup Call -> Turn \cup {None}]
  /\ todo \subseteq Turn /\ refused \in BOOLEAN
  /\ begun \subseteq Turn
  /\ ran \in [Turn -> SUBSET Call] /\ known \in [Turn -> SUBSET Call]
  /\ acked \subseteq Child
  /\ published \in [Turn -> Checkpoint]
  /\ mishaps \in Nat

\* A turn is published when its checkpoint went through the compare-and-swap.
IsPublished(t) == published[t].by = t

\* Artifact first: whatever a checkpoint cites is in the artifact store, at
\* every crash point (checkpoints() revalidates this at each start).
RefsDurable == \A k \in Task : RefsStored(checkpoint[k])

\* A turn is archived as cleanly ended only if every handler it entered came
\* back with a conclusive outcome, through crashes, torn journals and replays.
NoFalseEnd == \A t \in Turn : artifact[t] = "ended" => ran[t] \subseteq known[t]

\* A call that touched the workspace and never concluded leaves its mark on
\* the published task state, whichever path publishes it.
UncertaintyMarked ==
  \A t \in Turn : IsPublished(t) /\ (ran[t] \ known[t]) \cap Effectful # {}
                    => published[t].marked

\* A child whose commit_artifact returned is cited by its parent's checkpoint:
\* the seal cannot slip between the child's two writes.
AckedChildPublished ==
  \A c \in acked : IsPublished(child[c]) => c \in published[child[c]].refs

\* No checkpoint cites the child of another turn, however late it finishes.
ChildRefsStayWithParent ==
  \A t \in Turn : \A c \in published[t].refs \cap Child : child[c] = t

\* The journal of a turn disappears only when the turn is in the checkpoint
\* store and its artifact is readable.
NothingLost ==
  \A t \in begun : ~journal[t].here =>
    /\ IsPublished(t) /\ artifact[t] # None
    /\ published[t].gen <= Head(t).gen

\* Two turns of one task are published in the order they were admitted in:
\* hydration sorts checkpoints by durable order, the swap by generation.
OrderFollowsGeneration ==
  \A t, u \in Turn : IsPublished(t) /\ IsPublished(u) /\ TaskOf[t] = TaskOf[u] =>
    (published[t].gen < published[u].gen <=> published[t].order < published[u].order)

\* The state is well typed, and once a seal-intent row is durable, what is published is what it froze, also
\* when another process carries it through.
PublishedAsPrepared ==
  /\ TypeOK
  /\ \A t \in Turn : IsPublished(t) /\ Mark("intent") \in journal[t].rows =>
       published[t] = frozen[t].ck /\ artifact[t] = frozen[t].art

\* The promise of the pipeline to the task head: each turn is committed at most
\* once, in one step, on top of the generation it was opened against.
Outcome(t) ==
  IF IsPublished(t) THEN artifact[t] ELSE IF t \in begun THEN "open" ELSE "new"
Commit == INSTANCE TurnCommit WITH
  Outcomes <- Status,
  turn <- [t \in Turn |-> [state |-> Outcome(t), base |-> journal[t].base]],
  head <- [k \in Task |-> [gen |-> checkpoint[k].gen, by |-> checkpoint[k].by]]
CommitsOnce == Commit!Spec

\* A turn that was begun is sealed, or refused as ambiguous, or (after a failed
\* begin) waits for the next start; the journal is never just forgotten.
EveryTurnEnds ==
  \A t \in Turn : journal[t].here ~>
    \/ ~journal[t].here \/ refused
    \/ pc = "idle" /\ Seen(journal[t]) \subseteq {Mark("segment")}

----------------------------------------------------------------------------
(* What comments of the code say of these steps *)

StillReplaying(t) == pc = "startup" /\ pc' = "startup" /\ t \in todo \ todo'

\* SealCoordinator.recover, "checkpoint but uncleared journal: verify exact
\* bytes and only clean up": a start does not refuse a turn whose checkpoint is
\* the head of its task.
CommittedOnlyCleansUp ==
  [][\A t \in Turn : StillReplaying(t) /\ Readable(Salvaged(journal[t])) =>
       ~(IsPublished(t) /\ Head(t) = published[t])]_vars
=============================================================================
