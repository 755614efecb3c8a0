--------------------------- MODULE TurnSealProofs ---------------------------
(* What TurnSeal promises, for every number of turns, tasks, calls and children
   and every number of crashes and I/O errors.  First the types, with the lemmas
   about journal operators and drafts that all the proofs use, and the books: what
   the durable files owe each other in each reachable state.  Then the promises.
   Of the turns it has begun: no begun turn is lost, no checkpoint cites an
   artifact that is not stored, and every turn is committed at most once, on the
   generation it was opened on.  Of the handlers that ran: no turn is archived as
   cleanly ended over an unconfirmed call, and no unconfirmed effect is published
   unmarked.  Of the published record: each checkpoint cites the children of its
   own turn, and all that were acknowledged; generations follow the order turns
   were admitted in; and what is published is what the seal-intent row froze. *)
EXTENDS TurnSeal, TLAPS

----------------------------------------------------------------------------
(* The journal operators *)

\* An append leaves a journal, whatever was at the end of the file.
LEMMA AppendedType ==
  ASSUME NEW j \in Journal, NEW row \in Row
  PROVE  Appended(j, row) \in Journal
<1> DEFINE k == [j EXCEPT !.rows = @ \cup {row}]
           m == [j EXCEPT !.loose = None, !.frag = "merged"]
<1>1. k \in Journal BY DEF Journal
<1>2. m \in Journal BY DEF Journal
<1> QED BY <1>1, <1>2 DEF Appended

\* So does an append that stops half way.
LEMMA CutType ==
  ASSUME NEW j \in Journal, NEW row \in Row, NEW x \in Cut(j, row)
  PROVE  x \in Journal
<1> DEFINE torn == [j EXCEPT !.loose = None, !.frag = "torn"]
           loose == [j EXCEPT !.loose = row]
<1>1. torn \in Journal BY DEF Journal
<1>2. loose \in Journal BY DEF Journal
<1>3. x \in {j, Appended(j, row), torn, loose} BY DEF Cut
<1> QED BY <1>1, <1>2, <1>3, AppendedType

\* A salvaged journal is a journal.
LEMMA SalvagedType ==
  ASSUME NEW j \in Journal
  PROVE  Salvaged(j) \in Journal /\ Unlinked(j) \in Journal
BY DEF Salvaged, Unlinked, Journal

\* The rows the code writes are rows.
LEMMA RowTypes ==
  /\ \A c \in Call, kind \in {"start", "settle", "vague"} : R(kind, c) \in Row
  /\ \A r \in Ref : R("ref", r) \in Row
  /\ \A kind \in {"segment", "intent", "written", "committed", "sealed"} : Mark(kind) \in Row
BY DEF R, Mark, Row

\* Rows of one kind name what rows of that kind may name.
LEMMA OfType ==
  ASSUME NEW j \in Journal
  PROVE  /\ Seen(j) \subseteq Row
         /\ Of(j, "ref") \subseteq Ref
         /\ Of(j, "start") \subseteq Call
<1>1. Seen(j) \subseteq Row BY DEF Seen, Journal
<1>2. \A r \in Row : /\ r.kind = "ref" => r.of \in Ref
                     /\ r.kind = "start" => r.of \in Call
  BY DEF Row
<1> QED BY <1>1, <1>2 DEF Of

\* What a seal and a replay draw up from a journal are drafts.
LEMMA DraftTypes ==
  ASSUME TypeOK, NEW t \in Turn, NEW j \in Journal
  PROVE  SealDraft(j, t) \in Draft /\ ReplayDraft(j, t) \in Draft
<1>1. Of(j, "ref") \subseteq Ref BY OfType
<1>2. j.base + 1 \in Nat /\ j.order \in Nat BY DEF Journal
<1>3. Discovered(t) \subseteq Ref BY DEF Discovered, Ref
<1>4. t \in Ref BY DEF Ref
<1>5. SealDraft(j, t) \in Draft
  BY <1>1, <1>2, <1>4 DEF SealDraft, Draft, Checkpoint, Status
<1>6. artifact[t] = None \/ artifact[t] \in Status BY DEF TypeOK
<1>7. ReplayDraft(j, t) \in Draft
  BY <1>1, <1>2, <1>3, <1>4, <1>6 DEF ReplayDraft, Draft, Checkpoint, Status
<1> QED BY <1>5, <1>7

----------------------------------------------------------------------------
(* Types and control *)

Pipe == {"prepare", "artifact", "written", "swap", "committed", "sealed", "cleanup"}

\* Which turn the process is working on at each label.
Control ==
  /\ pc \in {"down", "startup", "idle", "reserved", "opened"} => active = None
  /\ pc \in {"down", "startup", "idle", "run"} => job = NoJob
  /\ pc \in {"reserved", "opened"} \cup Pipe => job.turn \in Turn
  /\ pc = "run" => active \in Turn
  /\ pc \in Pipe => active \in {None, job.turn}

\* The empty job, draft and checkpoint have their types.
LEMMA BlankTypes ==
  /\ NoJournal \in Journal /\ NoCheckpoint \in Checkpoint
  /\ NoDraft \in Draft /\ NoJob \in Job
<1>1. NoJournal \in Journal BY DEF NoJournal, Journal
<1>2. NoCheckpoint \in Checkpoint BY DEF NoCheckpoint, Checkpoint
<1>3. NoDraft \in Draft BY <1>2 DEF NoDraft, Draft, Status
<1>4. NoJob \in Job BY <1>3 DEF NoJob, Job, Mode
<1> QED BY <1>1, <1>2, <1>3, <1>4

\* The store starts typed and down.
LEMMA InitTypes == Init => TypeOK /\ Control
<1> SUFFICES ASSUME Init PROVE TypeOK /\ Control OBVIOUS
<1>1. Control BY DEF Init, Control, Pipe
<1>2. /\ journal \in [Turn -> Journal] /\ frozen \in [Turn -> Draft]
      /\ checkpoint \in [Task -> Checkpoint] /\ published \in [Turn -> Checkpoint]
      /\ job \in Job
  BY BlankTypes DEF Init
<1>3. /\ artifact \in [Turn -> Status \cup {None}] /\ child \in [Child -> Turn \cup {None}]
      /\ stage \in [Call -> Stage] /\ bound \in [Child \cup Call -> Turn \cup {None}]
      /\ ran \in [Turn -> SUBSET Call] /\ known \in [Turn -> SUBSET Call]
  BY DEF Init, Stage
<1> QED BY <1>1, <1>2, <1>3 DEF Init, TypeOK, Label

\* The process going down, and a change of label.
LEMMA PowerOffTypes ==
  ASSUME PowerOff
  PROVE  /\ pc' \in Label /\ job' \in Job /\ active' \in Turn \cup {None}
         /\ stage' \in [Call -> Stage] /\ holder' \in Child \cup {None}
         /\ bound' \in [Child \cup Call -> Turn \cup {None}]
         /\ todo' \subseteq Turn
         /\ Control'
BY BlankTypes DEF PowerOff, Control, Label, Stage, Pipe, NoJob

\* Writing one journal.
LEMMA SetJournalType ==
  ASSUME TypeOK, NEW t, NEW j, t \in Turn => j \in Journal, SetJournal(t, j)
  PROVE  journal' \in [Turn -> Journal]
BY DEF TypeOK, SetJournal

\* The active journal stays a journal after an append.
LEMMA WriteType ==
  ASSUME TypeOK, NEW row \in Row, Write(row)
  PROVE  journal' \in [Turn -> Journal]
<1>1. active \in Turn => Appended(journal[active], row) \in Journal
  BY AppendedType DEF TypeOK
<1> QED BY <1>1, SetJournalType DEF Write

----------------------------------------------------------------------------
(* Type correctness of the actions of a turn *)

\* Opening a turn keeps types and control.
LEMMA OpeningTypes ==
  ASSUME TypeOK, Control,
         (\E t \in Turn : Reserve(t)) \/ OpenJournal \/ Activate \/ BeginFails
  PROVE  TypeOK' /\ Control'
<1>1. ASSUME NEW t \in Turn, Reserve(t) PROVE TypeOK' /\ Control'
  <2>1. job' \in Job BY <1>1, BlankTypes DEF Reserve, Job, Mode, NoJob
  <2>2. job'.turn = t BY <1>1 DEF Reserve, NoJob
  <2>3. Control' BY <1>1, <2>2 DEF Reserve, Control, GoTo, Pipe
  <2>4. order' \in Nat
    <3>1. order' = order + 1 BY <1>1 DEF Reserve
    <3>2. order \in Nat BY DEF TypeOK
    <3> QED BY <3>1, <3>2
  <2>5. UNCHANGED <<journal, frozen, artifact, child, checkpoint, active, stage, holder, bound,
                    todo, refused, begun, ran, known, acked, published, mishaps>>
    BY <1>1 DEF Reserve, GoTo, history
  <2>6. TypeOK' BY <1>1, <2>1, <2>4, <2>5 DEF Reserve, TypeOK, GoTo, Label
  <2> QED BY <2>3, <2>6
<1>2. ASSUME OpenJournal PROVE TypeOK' /\ Control'
  <2> DEFINE j == [NoJournal EXCEPT !.here = TRUE, !.order = order, !.base = Head(job.turn).gen]
  <2>1. job.turn \in Turn BY <1>2 DEF OpenJournal, Control
  <2>2. Head(job.turn) \in Checkpoint BY <2>1, TaskOfType DEF Head, TypeOK
  <2>3. j \in Journal BY <2>2, BlankTypes DEF TypeOK, Journal, Checkpoint, NoJournal
  <2>4. journal' \in [Turn -> Journal] BY <1>2, <2>3, SetJournalType DEF OpenJournal
  <2>5. begun' \subseteq Turn BY <1>2, <2>1 DEF OpenJournal, TypeOK
  <2> QED BY <1>2, <2>1, <2>4, <2>5 DEF OpenJournal, TypeOK, Control, GoTo, Label, Pipe
<1>3. ASSUME Activate PROVE TypeOK' /\ Control'
  <2>1. job.turn \in Turn BY <1>3 DEF Activate, Control
  <2>2. Mark("segment") \in Row BY RowTypes
  <2>3. journal' \in [Turn -> Journal]
    BY <1>3, <2>1, <2>2, AppendedType, SetJournalType DEF Activate, TypeOK
  <2> QED BY <1>3, <2>1, <2>3, BlankTypes DEF Activate, TypeOK, Control, Label, Pipe, NoJob, history
<1>4. ASSUME BeginFails PROVE TypeOK' /\ Control'
  <2>1. Mark("segment") \in Row BY RowTypes
  <2>2. PICK j \in IF pc = "opened" THEN Cut(journal[job.turn], Mark("segment"))
                   ELSE {journal[job.turn]} : SetJournal(job.turn, j)
    BY <1>4 DEF BeginFails
  <2>3. job.turn \in Turn BY <1>4 DEF BeginFails, Control
  <2>4. j \in Journal BY <2>1, <2>2, <2>3, CutType DEF TypeOK
  <2>5. journal' \in [Turn -> Journal] BY <2>2, <2>4, SetJournalType
  <2> QED BY <1>4, <2>5, MishapBound, BlankTypes
       DEF BeginFails, TypeOK, Control, GoTo, Mishap, Label, Pipe, NoJob, history
<1> QED BY <1>1, <1>2, <1>3, <1>4

\* A step that moves no control variable keeps Control.
LEMMA ControlFrame ==
  ASSUME Control, UNCHANGED <<pc, job, active>>
  PROVE  Control'
BY DEF Control

\* The steps of a call keep types and control.
LEMMA CallTypes ==
  ASSUME TypeOK, Control, NEW c \in Call,
         \/ RecordStart(c) \/ Enter(c) \/ AbandonStart(c) \/ LateCheck(c) \/ LateStart(c)
         \/ \E kind \in {"settle", "vague"} : RecordOutcome(c, kind)
  PROVE  TypeOK' /\ Control'
<1>1. ASSUME RecordStart(c) PROVE TypeOK' /\ Control'
  <2>1. journal' \in [Turn -> Journal] BY <1>1, RowTypes, WriteType DEF RecordStart
  <2>2. stage' \in [Call -> Stage] BY <1>1 DEF RecordStart, Advance, TypeOK, Stage
  <2>3. Control' BY <1>1, ControlFrame DEF RecordStart
  <2> QED BY <1>1, <2>1, <2>2, <2>3 DEF RecordStart, TypeOK, history
<1>2. ASSUME Enter(c) PROVE TypeOK' /\ Control'
  <2>1. ran' \in [Turn -> SUBSET Call] BY <1>2 DEF Enter, TypeOK
  <2>2. stage' \in [Call -> Stage] BY <1>2 DEF Enter, Advance, TypeOK, Stage
  <2>3. Control' BY <1>2, ControlFrame DEF Enter
  <2> QED BY <1>2, <2>1, <2>2, <2>3 DEF Enter, TypeOK, durable
<1>3. ASSUME AbandonStart(c) PROVE TypeOK' /\ Control'
  <2>1. journal' \in [Turn -> Journal] BY <1>3, RowTypes, WriteType DEF AbandonStart
  <2>2. stage' \in [Call -> Stage] BY <1>3 DEF AbandonStart, Advance, TypeOK, Stage
  <2>3. bound' \in [Child \cup Call -> Turn \cup {None}] BY <1>3 DEF AbandonStart, TypeOK
  <2>4. Control' BY <1>3, ControlFrame DEF AbandonStart
  <2> QED BY <1>3, <2>1, <2>2, <2>3, <2>4 DEF AbandonStart, TypeOK, history
<1>4. ASSUME LateCheck(c) PROVE TypeOK' /\ Control'
  <2>1. stage' \in [Call -> Stage] BY <1>4 DEF LateCheck, Advance, TypeOK, Stage
  <2>2. bound' \in [Child \cup Call -> Turn \cup {None}] BY <1>4 DEF LateCheck, TypeOK
  <2>3. Control' BY <1>4, ControlFrame DEF LateCheck
  <2> QED BY <1>4, <2>1, <2>2, <2>3 DEF LateCheck, TypeOK, history, durable
<1>5. ASSUME LateStart(c) PROVE TypeOK' /\ Control'
  <2>1. journal' \in [Turn -> Journal] BY <1>5, RowTypes, WriteType DEF LateStart, TypeOK
  <2>2. stage' \in [Call -> Stage] BY <1>5 DEF LateStart, Advance, TypeOK, Stage
  <2>3. bound' \in [Child \cup Call -> Turn \cup {None}] BY <1>5 DEF LateStart, TypeOK
  <2>4. Control' BY <1>5, ControlFrame DEF LateStart
  <2> QED BY <1>5, <2>1, <2>2, <2>3, <2>4 DEF LateStart, TypeOK, history
<1>6. ASSUME NEW kind \in {"settle", "vague"}, RecordOutcome(c, kind) PROVE TypeOK' /\ Control'
  <2>1. R(kind, c) \in Row BY RowTypes
  <2>2. journal' \in [Turn -> Journal] BY <1>6, <2>1, WriteType DEF RecordOutcome
  <2>3. stage' \in [Call -> Stage] BY <1>6 DEF RecordOutcome, Advance, TypeOK, Stage
  <2>4. known' \in [Turn -> SUBSET Call] BY <1>6 DEF RecordOutcome, Concluded, R, TypeOK
  <2>5. Control' BY <1>6, ControlFrame DEF RecordOutcome
  <2> QED BY <1>6, <2>2, <2>3, <2>4, <2>5 DEF RecordOutcome, TypeOK
<1> QED BY <1>1, <1>2, <1>3, <1>4, <1>5, <1>6

\* The steps of a child, and a citation, keep types and control.
LEMMA ReferenceTypes ==
  ASSUME TypeOK, Control,
         \/ \E u \in Turn : Cite(u)
         \/ \E c \in Child : BindSink(c) \/ StoreChild(c)
         \/ RecordChild \/ RecordChildFails
  PROVE  TypeOK' /\ Control'
<1>1. ASSUME NEW u \in Turn, Cite(u) PROVE TypeOK' /\ Control'
  <2>1. R("ref", u) \in Row BY RowTypes DEF Ref
  <2>2. journal' \in [Turn -> Journal] BY <1>1, <2>1, WriteType DEF Cite
  <2>3. Control' BY <1>1, ControlFrame DEF Cite, volatile
  <2> QED BY <1>1, <2>2, <2>3 DEF Cite, TypeOK, volatile, history
<1>2. ASSUME NEW c \in Child, BindSink(c) PROVE TypeOK' /\ Control'
  <2>1. bound' \in [Child \cup Call -> Turn \cup {None}] BY <1>2 DEF BindSink, TypeOK
  <2>2. Control' BY <1>2, ControlFrame DEF BindSink
  <2> QED BY <1>2, <2>1, <2>2 DEF BindSink, TypeOK, durable, history
<1>3. ASSUME NEW c \in Child, StoreChild(c) PROVE TypeOK' /\ Control'
  <2>1. child' \in [Child -> Turn \cup {None}] BY <1>3 DEF StoreChild, TypeOK
  <2>2. Control' BY <1>3, ControlFrame DEF StoreChild
  <2> QED BY <1>3, <2>1, <2>2 DEF StoreChild, TypeOK, history
<1>4. ASSUME RecordChild PROVE TypeOK' /\ Control'
  <2>1. holder \in Child BY <1>4 DEF RecordChild, TypeOK
  <2>2. R("ref", holder) \in Row BY <2>1, RowTypes DEF Ref
  <2>3. journal' \in [Turn -> Journal] BY <1>4, <2>2, WriteType DEF RecordChild
  <2>4. Control' BY <1>4, ControlFrame DEF RecordChild
  <2> QED BY <1>4, <2>1, <2>3, <2>4 DEF RecordChild, TypeOK
<1>5. ASSUME RecordChildFails PROVE TypeOK' /\ Control'
  <2>1. Control' BY <1>5, ControlFrame DEF RecordChildFails
  <2> QED BY <1>5, <2>1 DEF RecordChildFails, TypeOK, durable, history
<1> QED BY <1>1, <1>2, <1>3, <1>4, <1>5

\* What may be in flight is a row.
LEMMA InFlightRows ==
  ASSUME TypeOK
  PROVE  /\ InFlight \subseteq Row
         /\ \A row \in InFlight : row.kind = "ref" \/ row.of \in Call
<1>1. \A c \in Call, kind \in {"start", "settle", "vague"} :
        R(kind, c) \in Row /\ R(kind, c).of = c
  BY RowTypes DEF R
<1>2. \A c \in {holder} \ {None} : R("ref", c) \in Row /\ R("ref", c).kind = "ref"
  BY RowTypes DEF R, Ref, TypeOK
<1> QED BY <1>1, <1>2 DEF InFlight

\* A row cut short leaves a journal.
LEMMA CutRowTypes ==
  ASSUME TypeOK, NEW row \in Row, row.kind = "ref" \/ row.of \in Call, CutRow(row)
  PROVE  journal' \in [Turn -> Journal] /\ known' \in [Turn -> SUBSET Call]
<1>1. PICK j \in Cut(journal[active], row) : SetJournal(active, j) BY DEF CutRow
<1>2. active \in Turn BY DEF CutRow, TypeOK
<1>3. j \in Journal BY <1>1, <1>2, CutType DEF TypeOK
<1>4. journal' \in [Turn -> Journal] BY <1>1, <1>3, SetJournalType
<1>5. known' \in [Turn -> SUBSET Call] BY DEF CutRow, Concluded, TypeOK
<1> QED BY <1>4, <1>5

\* A failed append keeps types and control.
LEMMA AppendFailsTypes ==
  ASSUME TypeOK, Control, AppendFails
  PROVE  TypeOK' /\ Control'
<1>1. PICK row \in InFlight :
        /\ CutRow(row)
        /\ IF row.kind = "ref" THEN holder' = None /\ UNCHANGED stage
           ELSE stage' = [stage EXCEPT ![row.of] = "done"] /\ UNCHANGED holder
  BY DEF AppendFails
<1>2. journal' \in [Turn -> Journal] /\ known' \in [Turn -> SUBSET Call]
  BY <1>1, InFlightRows, CutRowTypes
<1>3. stage' \in [Call -> Stage] /\ holder' \in Child \cup {None} BY <1>1 DEF TypeOK, Stage
<1>4. Control' BY ControlFrame DEF AppendFails
<1>5. mishaps' \in Nat BY MishapBound DEF AppendFails, Mishap, TypeOK
<1> QED BY <1>2, <1>3, <1>4, <1>5 DEF AppendFails, TypeOK

----------------------------------------------------------------------------
(* Type correctness of the pipeline *)

\* The variables of the process.
VolatileTypes ==
  /\ pc \in Label /\ job \in Job /\ active \in Turn \cup {None}
  /\ stage \in [Call -> Stage] /\ holder \in Child \cup {None}
  /\ bound \in [Child \cup Call -> Turn \cup {None}]
  /\ todo \subseteq Turn /\ refused \in BOOLEAN

\* A process that goes down is in the state down.
LEMMA PowerOffVolatile ==
  ASSUME TypeOK, PowerOff, UNCHANGED refused
  PROVE  VolatileTypes' /\ Control'
BY PowerOffTypes DEF VolatileTypes, TypeOK

\* An exception in the pipeline leads to a typed state.
LEMMA RaiseTypes ==
  ASSUME TypeOK, Control, pc \in Pipe, NEW j, Raise(j)
  PROVE  VolatileTypes' /\ Control'
<1>1. CASE active = None /\ Conflict(job.turn)
  BY <1>1, BlankTypes DEF Conflict, TypeOK, VolatileTypes, Control, Label, Pipe
<1>2. CASE /\ active # None /\ Retriable(j) /\ job' = [job EXCEPT !.mode = "replay"]
           /\ GoTo("artifact") /\ UNCHANGED refused
  <2>1. job' \in Job /\ job'.turn = job.turn BY <1>2 DEF TypeOK, Job, Mode
  <2>2. job.turn \in Turn /\ active = job.turn BY <1>2 DEF Control
  <2>3. Control' BY <1>2, <2>1, <2>2 DEF Control, GoTo, Pipe
  <2> QED BY <1>2, <2>1, <2>3 DEF GoTo, TypeOK, VolatileTypes, Label
<1>3. CASE active # None /\ ~Retriable(j) /\ PowerOff /\ UNCHANGED refused
  BY <1>3, PowerOffVolatile
<1> QED BY <1>1, <1>2, <1>3 DEF Raise

\* The files of the pipeline.
FileTypes ==
  /\ journal \in [Turn -> Journal] /\ frozen \in [Turn -> Draft]
  /\ artifact \in [Turn -> Status \cup {None}] /\ checkpoint \in [Task -> Checkpoint]
  /\ published \in [Turn -> Checkpoint]

\* The draft of a job is a draft.
LEMMA DraftOfJob ==
  ASSUME TypeOK
  PROVE  job.draft \in Draft /\ job.draft.art \in Status /\ job.draft.ck \in Checkpoint
BY DEF TypeOK, Job, Draft

\* A pipeline label writes a row of its own.
LEMMA PipelineRowTypes ==
  \A l \in DOMAIN PipelineRow : Mark(PipelineRow[l]) \in Row /\ l \in Pipe
BY RowTypes DEF PipelineRow, Pipe

\* A pipeline write cut short leaves typed files.
LEMMA TornWriteTypes ==
  ASSUME TypeOK, Control, TornWrite
  PROVE  FileTypes' /\ pc \in Pipe
<1> USE DraftOfJob
<1>1. CASE /\ pc \in DOMAIN PipelineRow /\ Readable(Target)
           /\ \E j \in Cut(Target, Mark(PipelineRow[pc])) : SetJournal(job.turn, j)
           /\ frozen' = IF pc = "prepare" THEN [frozen EXCEPT ![job.turn] = job.draft] ELSE frozen
           /\ UNCHANGED <<artifact, checkpoint, published>>
  <2>1. Mark(PipelineRow[pc]) \in Row /\ pc \in Pipe BY <1>1, PipelineRowTypes
  <2>2. PICK j \in Cut(Target, Mark(PipelineRow[pc])) : SetJournal(job.turn, j) BY <1>1
  <2>3. job.turn \in Turn BY <2>1 DEF Control
  <2>4. j \in Journal BY <2>1, <2>2, <2>3, CutType DEF Target, TypeOK
  <2>5. journal' \in [Turn -> Journal] BY <2>2, <2>4, SetJournalType
  <2>6. frozen' \in [Turn -> Draft] BY <1>1 DEF TypeOK
  <2> QED BY <1>1, <2>1, <2>5, <2>6 DEF TypeOK, FileTypes
<1>2. CASE /\ pc = "artifact" /\ artifact[job.turn] \in {None, job.draft.art}
           /\ \E a \in {artifact[job.turn], job.draft.art} :
                artifact' = [artifact EXCEPT ![job.turn] = a]
           /\ UNCHANGED <<journal, frozen, checkpoint, published>>
  <2>1. artifact' \in [Turn -> Status \cup {None}] BY <1>2 DEF TypeOK
  <2> QED BY <1>2, <2>1 DEF TypeOK, FileTypes, Pipe
<1>3. CASE /\ pc = "swap" /\ SwapAllowed
           /\ \/ UNCHANGED <<checkpoint, published>>
              \/ /\ checkpoint' = [checkpoint EXCEPT ![TaskOf[job.turn]] = job.draft.ck]
                 /\ published' = [published EXCEPT ![job.turn] = job.draft.ck]
           /\ UNCHANGED <<journal, frozen, artifact>>
  <2>1. checkpoint' \in [Task -> Checkpoint] BY <1>3 DEF TypeOK
  <2>2. published' \in [Turn -> Checkpoint] BY <1>3 DEF TypeOK
  <2> QED BY <1>3, <2>1, <2>2 DEF TypeOK, FileTypes, Pipe
<1>4. CASE /\ pc = "cleanup" /\ Readable(Target) /\ Has(Target, "sealed")
           /\ \E j \in {Target, Unlinked(Target)} : SetJournal(job.turn, j)
           /\ UNCHANGED <<frozen, artifact, checkpoint, published>>
  <2>1. PICK j \in {Target, Unlinked(Target)} : SetJournal(job.turn, j) BY <1>4
  <2>2. job.turn \in Turn BY <1>4 DEF Control, Pipe
  <2>3. Target \in Journal /\ Unlinked(Target) \in Journal BY <2>2, SalvagedType DEF Target, TypeOK
  <2>4. journal' \in [Turn -> Journal] BY <2>1, <2>3, SetJournalType
  <2> QED BY <1>4, <2>4 DEF TypeOK, FileTypes, Pipe
<1> QED BY <1>1, <1>2, <1>3, <1>4 DEF TornWrite

\* Moving to the next label of the pipeline keeps control.
LEMMA GoToPipe ==
  ASSUME TypeOK, Control, pc \in Pipe, NEW l \in Pipe, GoTo(l), UNCHANGED <<job, refused>>
  PROVE  VolatileTypes' /\ Control'
BY DEF GoTo, TypeOK, VolatileTypes, Control, Pipe, Label

\* A pipeline append keeps types and control.
LEMMA StepTypes ==
  ASSUME TypeOK, Control, NEW l \in DOMAIN PipelineRow, NEW to \in Pipe,
         Step(l, PipelineRow[l], to)
  PROVE  TypeOK' /\ Control'
<1>1. Mark(PipelineRow[l]) \in Row /\ pc \in Pipe BY PipelineRowTypes DEF Step
<1>2. job.turn \in Turn BY <1>1 DEF Control
<1>3. Appended(Target, Mark(PipelineRow[l])) \in Journal
  BY <1>1, <1>2, AppendedType DEF Target, TypeOK
<1>4. journal' \in [Turn -> Journal] BY <1>3, SetJournalType DEF Step
<1>5. frozen' \in [Turn -> Draft] BY DraftOfJob DEF Step, TypeOK
<1>6. GoTo(to) /\ UNCHANGED <<job, refused>> BY DEF Step
<1>7. VolatileTypes' /\ Control' BY <1>1, <1>6, GoToPipe
<1> QED BY <1>4, <1>5, <1>7 DEF Step, TypeOK, VolatileTypes, history

\* Sealing a turn keeps types and control.
LEMMA SealTypes ==
  ASSUME TypeOK, Control, BeginSeal \/ SealImpossible \/ Pipeline \/ PipelineFails
  PROVE  TypeOK' /\ Control'
<1>1. ASSUME BeginSeal PROVE TypeOK' /\ Control'
  <2>1. active \in Turn BY <1>1 DEF BeginSeal, Alive, Control
  <2>2. SealDraft(journal[active], active) \in Draft BY <2>1, DraftTypes DEF TypeOK
  <2>3. job' \in Job /\ job'.turn = active BY <1>1, <2>1, <2>2 DEF BeginSeal, Job, Mode
  <2>4. Control' BY <1>1, <2>1, <2>3 DEF BeginSeal, Control, GoTo, Pipe
  <2> QED BY <1>1, <2>3, <2>4 DEF BeginSeal, TypeOK, GoTo, Label, durable, history
<1>2. ASSUME SealImpossible PROVE TypeOK' /\ Control'
  <2>1. VolatileTypes' /\ Control' BY <1>2, PowerOffVolatile DEF SealImpossible
  <2> QED BY <1>2, <2>1 DEF SealImpossible, TypeOK, VolatileTypes, durable, history
<1>3. ASSUME Prepare \/ NoteArtifact \/ NoteCheckpoint \/ NoteSealed PROVE TypeOK' /\ Control'
  <2>1. \/ Step("prepare", PipelineRow["prepare"], "artifact")
        \/ Step("written", PipelineRow["written"], "swap")
        \/ Step("committed", PipelineRow["committed"], "sealed")
        \/ Step("sealed", PipelineRow["sealed"], "cleanup")
    BY <1>3 DEF Prepare, NoteArtifact, NoteCheckpoint, NoteSealed, PipelineRow
  <2>2. {"prepare", "written", "committed", "sealed"} = DOMAIN PipelineRow BY DEF PipelineRow
  <2> QED BY <2>1, <2>2, StepTypes DEF Pipe
<1>4. ASSUME PutArtifact PROVE TypeOK' /\ Control'
  <2>1. artifact' \in [Turn -> Status \cup {None}] BY <1>4, DraftOfJob DEF PutArtifact, TypeOK
  <2>2. VolatileTypes' /\ Control' BY <1>4, GoToPipe DEF PutArtifact, Pipe
  <2> QED BY <1>4, <2>1, <2>2 DEF PutArtifact, TypeOK, VolatileTypes, history
<1>5. ASSUME Swap PROVE TypeOK' /\ Control'
  <2>1. checkpoint' \in [Task -> Checkpoint] BY <1>5, DraftOfJob DEF Swap, TypeOK
  <2>2. published' \in [Turn -> Checkpoint] BY <1>5, DraftOfJob DEF Swap, TypeOK
  <2>3. VolatileTypes' /\ Control' BY <1>5, GoToPipe DEF Swap, Pipe
  <2> QED BY <1>5, <2>1, <2>2, <2>3 DEF Swap, TypeOK, VolatileTypes
<1>6. ASSUME Cleanup PROVE TypeOK' /\ Control'
  <2>1. job.turn \in Turn BY <1>6 DEF Cleanup, Control, Pipe
  <2>2. Unlinked(Target) \in Journal BY <2>1, SalvagedType DEF Target, TypeOK
  <2>3. journal' \in [Turn -> Journal] BY <1>6, <2>2, SetJournalType DEF Cleanup
  <2>4. stage' \in [Call -> Stage] BY <1>6 DEF Cleanup, TypeOK, Stage
  <2>5. bound' \in [Child \cup Call -> Turn \cup {None}] BY <1>6 DEF Cleanup, TypeOK
  <2>6. Control' BY <1>6 DEF Cleanup, Control, Pipe, NoJob
  <2> QED BY <1>6, <2>3, <2>4, <2>5, <2>6, BlankTypes DEF Cleanup, TypeOK, Label, history
<1>7. ASSUME Refuse PROVE TypeOK' /\ Control'
  <2>1. pc \in Pipe BY <1>7 DEF Refuse, Pipe
  <2>2. VolatileTypes' /\ Control' BY <1>7, <2>1, RaiseTypes DEF Refuse
  <2> QED BY <1>7, <2>2 DEF Refuse, TypeOK, VolatileTypes, durable, history
<1>8. ASSUME PipelineFails PROVE TypeOK' /\ Control'
  <2>1. FileTypes' /\ pc \in Pipe BY <1>8, TornWriteTypes DEF PipelineFails
  <2>2. VolatileTypes' /\ Control' BY <1>8, <2>1, RaiseTypes DEF PipelineFails
  <2>3. mishaps' \in Nat BY <1>8, MishapBound DEF PipelineFails, Mishap, TypeOK
  <2> QED BY <1>8, <2>1, <2>2, <2>3 DEF PipelineFails, TypeOK, VolatileTypes, FileTypes
<1> QED BY <1>1, <1>2, <1>3, <1>4, <1>5, <1>6, <1>7, <1>8 DEF Pipeline

----------------------------------------------------------------------------
(* Type correctness of crash and recovery, and of the specification *)

\* Crash, start and recovery keep types and control.
LEMMA RecoveryTypes ==
  ASSUME TypeOK, Control, Crash \/ Recovery
  PROVE  TypeOK' /\ Control'
<1>1. ASSUME Crash PROVE TypeOK' /\ Control'
  <2> DEFINE Files == FileTypes' /\ known' \in [Turn -> SUBSET Call]
  <2>1. ASSUME UNCHANGED <<journal, frozen, artifact, checkpoint, known, published>> PROVE Files
    BY <2>1 DEF TypeOK, FileTypes
  <2>2. ASSUME TornWrite, UNCHANGED known PROVE Files
    BY <2>2, TornWriteTypes DEF TypeOK
  <2>3. ASSUME NEW row \in InFlight, CutRow(row), UNCHANGED <<frozen, artifact, checkpoint, published>>
        PROVE Files
    BY <2>3, InFlightRows, CutRowTypes DEF TypeOK, FileTypes
  <2>4. ASSUME pc = "opened", NEW j \in Cut(Target, Mark("segment")), SetJournal(job.turn, j),
               UNCHANGED <<frozen, artifact, checkpoint, known, published>>
        PROVE Files
    <3>1. job.turn \in Turn BY <2>4 DEF Control
    <3>2. j \in Journal BY <2>4, <3>1, RowTypes, CutType DEF Target, TypeOK
    <3> QED BY <2>4, <3>2, SetJournalType DEF TypeOK, FileTypes
  <2>5. Files BY <1>1, <2>1, <2>2, <2>3, <2>4 DEF Crash
  <2>6. VolatileTypes' /\ Control' BY <1>1, PowerOffVolatile DEF Crash
  <2>7. mishaps' \in Nat BY <1>1, MishapBound DEF Crash, Mishap, TypeOK
  <2> QED BY <1>1, <2>5, <2>6, <2>7 DEF Crash, TypeOK, VolatileTypes, FileTypes
<1>2. ASSUME Restart PROVE TypeOK' /\ Control'
  <2>1. Control' BY <1>2 DEF Restart, Control, Pipe
  <2> QED BY <1>2, <2>1 DEF Restart, TypeOK, Label, durable, history
<1>3. ASSUME NEW t \in Turn, Load(t) PROVE TypeOK' /\ Control'
  <2> DEFINE j == Salvaged(journal[t])
  <2>1. j \in Journal BY SalvagedType DEF TypeOK
  <2>2. journal' \in [Turn -> Journal] BY <1>3, <2>1, SetJournalType DEF Load
  <2>3. ASSUME NEW mode \in {"replay", "unprepared"}, NEW d \in Draft,
               job' = [turn |-> t, mode |-> mode, draft |-> d], GoTo("artifact"), UNCHANGED refused
        PROVE VolatileTypes' /\ Control'
    <3>1. job' \in Job /\ job'.turn = t BY <2>3 DEF Job, Mode
    <3>2. active = None BY <1>3 DEF Load, Control
    <3>3. Control' BY <2>3, <3>1, <3>2 DEF GoTo, Control, Pipe
    <3> QED BY <2>3, <3>1, <3>3 DEF GoTo, VolatileTypes, TypeOK, Label
  <2>4. ASSUME Conflict(t) PROVE VolatileTypes' /\ Control'
    <3>1. active = None BY <1>3 DEF Load, Control
    <3> QED BY <2>4, <3>1, BlankTypes DEF Conflict, TypeOK, VolatileTypes, Control, Label, Pipe
  <2>5. frozen[t] \in Draft /\ ReplayDraft(j, t) \in Draft BY <2>1, DraftTypes DEF TypeOK
  <2>6. VolatileTypes' /\ Control' BY <1>3, <2>3, <2>4, <2>5 DEF Load
  <2> QED BY <1>3, <2>2, <2>6 DEF Load, TypeOK, VolatileTypes, history
<1>4. ASSUME StartupDone PROVE TypeOK' /\ Control'
  <2>1. active = None /\ pc' \in {"down", "idle"} BY <1>4 DEF StartupDone, Control
  <2>2. job = NoJob BY <1>4 DEF StartupDone, Control
  <2>3. Control' BY <1>4, <2>1, <2>2 DEF StartupDone, Control, Pipe
  <2> QED BY <1>4, <2>1, <2>3 DEF StartupDone, TypeOK, Label, durable, history
<1> QED BY <1>1, <1>2, <1>3, <1>4 DEF Recovery

\* Every step keeps types and control.
LEMMA NextTypes ==
  ASSUME TypeOK, Control, [Next]_vars
  PROVE  TypeOK' /\ Control'
<1>1. CASE Next
  BY <1>1, OpeningTypes, CallTypes, ReferenceTypes, AppendFailsTypes, SealTypes, RecoveryTypes
  DEF Next, Opening, EndTurn, Recovery
<1>2. CASE UNCHANGED vars
  BY <1>2 DEF vars, durable, volatile, history, TypeOK, Control
<1> QED BY <1>1, <1>2

\* Every reachable state is well typed, for any turns, tasks, calls, children
\* and any number of mishaps.
THEOREM TypeCorrect == Spec => [](TypeOK /\ Control)
BY InitTypes, NextTypes, PTL DEF Spec

----------------------------------------------------------------------------
(* The books: how journals, drafts, artifacts, checkpoints and the label of *)
(* the process fit together                                                 *)

Unsealed(t) == frozen[t] = NoDraft /\ artifact[t] = None
\* A checkpoint of turn t: it follows the generation t was opened against, in
\* the place t was admitted in.
Follows(t, ck) == ck.by = t /\ ck.gen = journal[t].base + 1 /\ ck.order = journal[t].order

FreshTurns ==
  \A t \in Turn \ begun : /\ journal[t] = NoJournal /\ published[t] = NoCheckpoint
                          /\ Unsealed(t) /\ ran[t] = {}
JobsBegun ==
  /\ begun \subseteq Turn
  /\ pc = "reserved" => job.turn \notin begun
  /\ pc \in {"opened"} \cup Pipe => job.turn \in begun /\ journal[job.turn].here
  /\ pc = "opened" => Unsealed(job.turn)
  /\ pc = "run" => active \in begun /\ journal[active].here /\ Unsealed(active)
  /\ todo \subseteq {t \in begun : journal[t].here}
  /\ pc \in {"down", "idle", "reserved", "opened", "run"} \/ active # None => todo = {}
FrozenFollow == \A t \in Turn : frozen[t] = NoDraft \/ Follows(t, frozen[t].ck)
JobFollows ==
  /\ pc \in Pipe => Follows(job.turn, job.draft.ck)
  /\ pc \in Pipe \ {"prepare", "artifact"} => artifact[job.turn] = job.draft.art
  /\ pc \in {"committed", "sealed", "cleanup"} => published[job.turn] = job.draft.ck
PublishedTurns ==
  \A t \in Turn : \/ published[t] = NoCheckpoint
                  \/ /\ Follows(t, published[t]) /\ published[t].gen <= Head(t).gen
                     /\ artifact[t] # None
TaskHeads ==
  \A k \in Task : \/ checkpoint[k] = NoCheckpoint
                  \/ \E t \in Turn : /\ TaskOf[t] = k /\ checkpoint[k].by = t
                                     /\ published[t] = checkpoint[k]
\* The files by themselves, and what the process is doing to them.
FileBooks == FreshTurns /\ FrozenFollow /\ PublishedTurns /\ TaskHeads
JobBooks == JobsBegun /\ JobFollows
Books == FileBooks /\ JobBooks


\* Nothing that happens to a journal short of its unlink changes what its header
\* says.
Kept(j, x) == x.here = j.here /\ x.base = j.base /\ x.order = j.order

\* append leaves the header of the journal alone.
LEMMA AppendKeeps ==
  ASSUME NEW j \in Journal, NEW row
  PROVE  Kept(j, Appended(j, row))
BY DEF Kept, Appended, Journal

\* So does an append that was cut short.
LEMMA CutKeeps ==
  ASSUME NEW j \in Journal, NEW row, NEW x \in Cut(j, row)
  PROVE  Kept(j, x)
<1> DEFINE torn == [j EXCEPT !.loose = None, !.frag = "torn"]
           loose == [j EXCEPT !.loose = row]
<1>1. x \in {j, Appended(j, row), torn, loose} BY DEF Cut
<1>2. Kept(j, torn) /\ Kept(j, loose) /\ Kept(j, j) BY DEF Kept, Journal
<1> QED BY <1>1, <1>2, AppendKeeps

\* So does a salvage.
LEMMA SalvageKeeps ==
  ASSUME NEW j \in Journal
  PROVE  /\ Kept(j, Salvaged(j))
         /\ Unlinked(j).base = j.base /\ Unlinked(j).order = j.order
BY DEF Kept, Salvaged, Unlinked, Journal

\* Only the journal of t may change, and its header stays.
JournalKept(t) ==
  \E j : Kept(journal[t], j) /\ journal' = [journal EXCEPT ![t] = j]

\* A step that only writes into the journal of a turn that has begun.
Quiet ==
  /\ UNCHANGED <<frozen, artifact, checkpoint, pc, job, active, todo, begun, published>>
  /\ \/ journal' = journal
     \/ active \in Turn /\ JournalKept(active)
  /\ \A t \in Turn \ {active} : ran'[t] = ran[t]

\* An active turn has begun.
LEMMA ActiveBegun ==
  ASSUME TypeOK, Control, JobsBegun, active # None
  PROVE  active \in begun /\ active \in Turn
BY DEF TypeOK, Control, JobsBegun, Label, Pipe

\* A step that touches no header, draft, artifact or checkpoint keeps the books.
LEMMA QuietKeepsBooks ==
  ASSUME TypeOK, Control, Books, Quiet
  PROVE  Books'
<1> USE DEF Books, FileBooks, JobBooks
<1>1. \A t \in Turn : /\ journal'[t].base = journal[t].base
                      /\ journal'[t].order = journal[t].order
                      /\ journal'[t].here = journal[t].here
                      /\ t # active => journal'[t] = journal[t]
  BY DEF Quiet, JournalKept, Kept, TypeOK
<1>2. active # None => active \in begun BY ActiveBegun
<1>3. FreshTurns'
  <2> SUFFICES ASSUME NEW t \in Turn, t \notin begun'
               PROVE  /\ journal'[t] = NoJournal /\ published'[t] = NoCheckpoint
                      /\ Unsealed(t)' /\ ran'[t] = {}
    BY DEF FreshTurns
  <2>1. t \notin begun /\ t # active
    BY <1>2, NoneIsNothing DEF Quiet
  <2> QED BY <1>1, <2>1 DEF FreshTurns, Quiet, Unsealed
<1>4. JobsBegun'
  <2>1. /\ pc \in {"opened"} \cup Pipe => journal'[job.turn].here
        /\ pc = "run" => journal'[active].here
        /\ todo \subseteq {t \in begun : journal'[t].here}
    BY <1>1 DEF JobsBegun, Control
  <2> QED BY <2>1 DEF JobsBegun, Quiet, Unsealed
<1>5. FrozenFollow' BY <1>1 DEF FrozenFollow, Quiet, Follows
<1>6. JobFollows' BY <1>1 DEF JobFollows, Quiet, Follows, Control
<1>7. PublishedTurns' BY <1>1 DEF PublishedTurns, Quiet, Follows, Head
<1>8. TaskHeads' BY DEF TaskHeads, Quiet
<1> QED BY <1>3, <1>4, <1>5, <1>6, <1>7, <1>8

----------------------------------------------------------------------------
(* The quiet actions *)

\* A row written to the active journal keeps every header.
LEMMA WriteKeeps ==
  ASSUME TypeOK, active \in Turn, NEW row, Write(row)
  PROVE  JournalKept(active)
<1>1. journal[active] \in Journal BY DEF TypeOK
<1> QED BY <1>1, AppendKeeps DEF Write, SetJournal, JournalKept

\* The steps of a running turn, and a failed append in one, keep the books.
LEMMA QuietActions ==
  ASSUME TypeOK, Control, JobsBegun,
         \/ \E c \in Call : \/ RecordStart(c) \/ Enter(c) \/ AbandonStart(c) \/ LateCheck(c)
                            \/ LateStart(c) \/ \E kind \in {"settle", "vague"} : RecordOutcome(c, kind)
         \/ \E u \in Turn : Cite(u)
         \/ \E c \in Child : BindSink(c) \/ StoreChild(c)
         \/ RecordChild \/ RecordChildFails \/ AppendFails
  PROVE  Quiet
<1>1. pc = "run" => active \in Turn BY DEF Control
<1>2. active # None => active \in Turn BY ActiveBegun
<1>3. ASSUME NEW c \in Call, RecordStart(c) PROVE Quiet
  BY <1>1, <1>3, WriteKeeps DEF RecordStart, Alive, Quiet, history
<1>4. ASSUME NEW c \in Call, Enter(c) PROVE Quiet
  BY <1>1, <1>4 DEF Enter, Quiet, durable, TypeOK
<1>5. ASSUME NEW c \in Call, AbandonStart(c) PROVE Quiet
  BY <1>1, <1>5, WriteKeeps DEF AbandonStart, Alive, Quiet, history
<1>6. ASSUME NEW c \in Call, LateCheck(c) PROVE Quiet
  BY <1>6 DEF LateCheck, Quiet, durable, history
<1>7. ASSUME NEW c \in Call, LateStart(c) PROVE Quiet
  BY <1>2, <1>7, WriteKeeps DEF LateStart, Quiet, history
<1>8. ASSUME NEW c \in Call, NEW kind \in {"settle", "vague"}, RecordOutcome(c, kind) PROVE Quiet
  BY <1>1, <1>8, WriteKeeps DEF RecordOutcome, Alive, Quiet
<1>9. ASSUME NEW u \in Turn, Cite(u) PROVE Quiet
  BY <1>1, <1>9, WriteKeeps DEF Cite, Alive, Quiet, volatile, history
<1>10. ASSUME NEW c \in Child, BindSink(c) \/ StoreChild(c) PROVE Quiet
  BY <1>10 DEF BindSink, StoreChild, Quiet, durable, history
<1>11. ASSUME RecordChild \/ RecordChildFails PROVE Quiet
  BY <1>1, <1>11, WriteKeeps DEF RecordChild, RecordChildFails, Alive, Quiet, durable, history
<1>12. ASSUME AppendFails PROVE Quiet
  <2>1. PICK row \in InFlight : CutRow(row) BY <1>12 DEF AppendFails
  <2>2. active \in Turn BY <1>2, <2>1 DEF CutRow
  <2>3. JournalKept(active) BY <2>1, <2>2, CutKeeps DEF CutRow, SetJournal, JournalKept, TypeOK
  <2> QED BY <1>12, <2>2, <2>3 DEF AppendFails, Quiet
<1> QED BY <1>3, <1>4, <1>5, <1>6, <1>7, <1>8, <1>9, <1>10, <1>11, <1>12

----------------------------------------------------------------------------
(* The pipeline writes *)

\* Every write of the pipeline is one of those it may be cut short at.
LEMMA PipelineWrites ==
  ASSUME Prepare \/ PutArtifact \/ NoteArtifact \/ Swap \/ NoteCheckpoint \/ NoteSealed \/ Cleanup
  PROVE  TornWrite
<1>1. ASSUME NEW l \in DOMAIN PipelineRow, NEW to, Step(l, PipelineRow[l], to) PROVE TornWrite
  <2>1. Appended(Target, Mark(PipelineRow[l])) \in Cut(Target, Mark(PipelineRow[l])) BY DEF Cut
  <2>2. (l = "prepare") <=> (PipelineRow[l] = "intent") BY DEF PipelineRow
  <2> QED BY <1>1, <2>1, <2>2 DEF Step, TornWrite, history
<1>2. \/ Step("prepare", PipelineRow["prepare"], "artifact")
      \/ Step("written", PipelineRow["written"], "swap")
      \/ Step("committed", PipelineRow["committed"], "sealed")
      \/ Step("sealed", PipelineRow["sealed"], "cleanup")
      \/ PutArtifact \/ Swap \/ Cleanup
  BY DEF Prepare, NoteArtifact, NoteCheckpoint, NoteSealed, PipelineRow
<1>3. {"prepare", "written", "committed", "sealed"} = DOMAIN PipelineRow BY DEF PipelineRow
<1>4. ASSUME PutArtifact \/ Swap \/ Cleanup PROVE TornWrite
  BY <1>4 DEF PutArtifact, Swap, Cleanup, TornWrite, history
<1> QED BY <1>1, <1>2, <1>3, <1>4

\* A pipeline write touches only the turn in hand, keeps what its journal's
\* header says, and takes the journal away only at the end.
TouchesOnly(t) ==
  /\ \A u \in Turn \ {t} : /\ journal'[u] = journal[u] /\ frozen'[u] = frozen[u]
                           /\ artifact'[u] = artifact[u] /\ published'[u] = published[u]
  /\ \A u \in Turn : /\ journal'[u].base = journal[u].base
                     /\ journal'[u].order = journal[u].order
  /\ journal'[t].here = journal[t].here \/ pc = "cleanup"

\* A cut-short pipeline write touches only the files of the turn in hand.
LEMMA TornWriteTouches ==
  ASSUME TypeOK, Control, TornWrite
  PROVE  /\ job.turn \in Turn /\ pc \in Pipe
         /\ TouchesOnly(job.turn)
<1> DEFINE t == job.turn
<1>1. pc \in Pipe BY TornWriteTypes
<1>2. t \in Turn /\ Target \in Journal BY <1>1 DEF Control, Target, TypeOK
<1>3. ASSUME NEW j, SetJournal(t, j), j.base = journal[t].base, j.order = journal[t].order,
             j.here = journal[t].here \/ pc = "cleanup",
             frozen' = frozen \/ frozen' = [frozen EXCEPT ![t] = job.draft],
             UNCHANGED <<artifact, published>>
      PROVE TouchesOnly(t)
  BY <1>2, <1>3 DEF SetJournal, TouchesOnly, TypeOK
<1>4. CASE /\ \E j \in Cut(Target, Mark(PipelineRow[pc])) : SetJournal(job.turn, j)
           /\ frozen' = IF pc = "prepare" THEN [frozen EXCEPT ![job.turn] = job.draft] ELSE frozen
           /\ UNCHANGED <<artifact, published>>
  <2>1. PICK j \in Cut(Target, Mark(PipelineRow[pc])) : SetJournal(t, j) BY <1>4
  <2>2. Kept(Target, j) BY <1>2, <2>1, CutKeeps
  <2>3. j.base = journal[t].base /\ j.order = journal[t].order /\ j.here = journal[t].here
    BY <2>2 DEF Kept, Target
  <2>4. frozen' = frozen \/ frozen' = [frozen EXCEPT ![t] = job.draft] BY <1>4
  <2> QED BY <1>1, <1>2, <1>3, <1>4, <2>1, <2>3, <2>4
<1>5. CASE /\ \E a \in {artifact[job.turn], job.draft.art} :
                artifact' = [artifact EXCEPT ![job.turn] = a]
           /\ UNCHANGED <<journal, frozen, published>>
  BY <1>1, <1>2, <1>5 DEF TouchesOnly, TypeOK
<1>6. CASE /\ \/ UNCHANGED published
              \/ published' = [published EXCEPT ![job.turn] = job.draft.ck]
           /\ UNCHANGED <<journal, frozen, artifact>>
  BY <1>1, <1>2, <1>6 DEF TouchesOnly, TypeOK
<1>7. CASE /\ pc = "cleanup"
           /\ \E j \in {Target, Unlinked(Target)} : SetJournal(job.turn, j)
           /\ UNCHANGED <<frozen, artifact, published>>
  <2>1. PICK j \in {Target, Unlinked(Target)} : SetJournal(t, j) BY <1>7
  <2>2. j.base = journal[t].base /\ j.order = journal[t].order BY <1>2, <2>1, SalvageKeeps DEF Target
  <2> QED BY <1>1, <1>2, <1>3, <1>7, <2>1, <2>2
<1> QED BY <1>4, <1>5, <1>6, <1>7 DEF TornWrite

\* No pipeline write, whole or torn, unbalances the files.
LEMMA TornWriteBooks ==
  ASSUME TypeOK, Control, Books, TornWrite, UNCHANGED <<begun, ran>>
  PROVE  FileBooks'
<1> DEFINE t == job.turn
<1> USE DEF Books, FileBooks, JobBooks
<1>1. t \in Turn /\ pc \in Pipe /\ TouchesOnly(t) BY TornWriteTouches
<1>2. t \in begun BY <1>1 DEF JobsBegun
<1>3. Follows(t, job.draft.ck) BY <1>1 DEF JobFollows
<1>5. FreshTurns'
  BY <1>1, <1>2 DEF FreshTurns, TouchesOnly, Unsealed
<1>6. FrozenFollow'
  <2>1. frozen'[t] \in {frozen[t], job.draft} BY <1>1 DEF TornWrite, TypeOK
  <2> QED BY <1>1, <1>3, <2>1 DEF FrozenFollow, TouchesOnly, Follows
<1>7. job.draft.art # None /\ job.draft.art \in Status BY DraftOfJob, NoneIsNothing
<1>8. \A u \in Turn : artifact[u] # None => artifact'[u] # None
  BY <1>1, <1>7 DEF TornWrite, TypeOK
<1>9. CASE pc = "swap" /\ SwapAllowed
           /\ checkpoint' = [checkpoint EXCEPT ![TaskOf[t]] = job.draft.ck]
           /\ published' = [published EXCEPT ![t] = job.draft.ck]
  <2>1. TaskOf[t] \in Task BY <1>1, TaskOfType
  <2>2. checkpoint'[TaskOf[t]] = job.draft.ck /\ published'[t] = job.draft.ck
    BY <1>1, <1>9, <2>1 DEF TypeOK
  <2>3. artifact[t] # None BY <1>7, <1>9 DEF JobFollows, Pipe
  <2>4. Head(t).gen <= job.draft.ck.gen
    <3>1. Head(t) \in Checkpoint /\ journal[t] \in Journal BY <1>1, <2>1 DEF Head, TypeOK
    <3>2. Head(t).gen \in Nat /\ journal[t].base \in Nat BY <3>1 DEF Checkpoint, Journal
    <3>3. Head(t) = job.draft.ck \/ Head(t).gen = journal[t].base
      BY <1>9 DEF SwapAllowed, Target
    <3> QED BY <1>3, <3>2, <3>3 DEF Follows
  <2>5. PublishedTurns'
    <3> SUFFICES ASSUME NEW u \in Turn, published'[u] # NoCheckpoint
                 PROVE  /\ Follows(u, published[u])' /\ published'[u].gen <= Head(u)'.gen
                        /\ artifact'[u] # None
      BY DEF PublishedTurns
    <3>1. CASE u = t
      <4>1. job.draft.ck.gen \in Nat BY DraftOfJob DEF Checkpoint
      <4>2. Follows(u, published[u])' BY <1>1, <1>3, <2>2, <3>1 DEF Follows, TouchesOnly
      <4>3. published'[u].gen <= Head(u)'.gen BY <2>2, <3>1, <4>1 DEF Head
      <4> QED BY <1>8, <2>3, <3>1, <4>2, <4>3
    <3>2. CASE u # t
      <4>1. published'[u] = published[u] BY <1>1, <3>2 DEF TouchesOnly
      <4>2. Follows(u, published[u]) /\ published[u].gen <= Head(u).gen /\ artifact[u] # None
        BY <4>1 DEF PublishedTurns
      <4>3. Follows(u, published[u])' BY <1>1, <3>2, <4>1, <4>2 DEF Follows, TouchesOnly
      <4>4. published[u].gen \in Nat /\ Head(u).gen \in Nat /\ job.draft.ck.gen \in Nat
        BY TaskOfType, DraftOfJob DEF TypeOK, Checkpoint, Head
      <4>5. Head(u).gen <= Head(u)'.gen
        <5>1. CASE TaskOf[u] = TaskOf[t] BY <2>2, <2>4, <5>1 DEF Head
        <5>2. CASE TaskOf[u] # TaskOf[t]
          BY <1>9, <4>4, <5>2, TaskOfType DEF Head, TypeOK
        <5> QED BY <5>1, <5>2
      <4>6. Head(u)'.gen \in Nat BY <4>4, <1>9, <2>2, TaskOfType DEF Head, TypeOK
      <4> QED BY <1>8, <4>1, <4>2, <4>3, <4>4, <4>5, <4>6
    <3> QED BY <3>1, <3>2
  <2>6. TaskHeads'
    <3> SUFFICES ASSUME NEW k \in Task, checkpoint'[k] # NoCheckpoint
                 PROVE  \E u \in Turn : /\ TaskOf[u] = k /\ checkpoint'[k].by = u
                                        /\ published'[u] = checkpoint'[k]
      BY DEF TaskHeads
    <3>1. CASE k = TaskOf[t] BY <1>1, <1>3, <2>2, <3>1 DEF Follows
    <3>2. CASE k # TaskOf[t]
      <4>1. checkpoint'[k] = checkpoint[k] BY <1>9, <2>1, <3>2 DEF TypeOK
      <4>2. PICK u \in Turn : /\ TaskOf[u] = k /\ checkpoint[k].by = u
                              /\ published[u] = checkpoint[k]
        BY <4>1 DEF TaskHeads
      <4>3. published'[u] = published[u] BY <1>1, <3>2, <4>2 DEF TouchesOnly
      <4> QED BY <4>1, <4>2, <4>3
    <3> QED BY <3>1, <3>2
  <2> QED BY <1>5, <1>6, <2>5, <2>6
<1>10. CASE UNCHANGED <<checkpoint, published>>
  <2>1. PublishedTurns' BY <1>1, <1>8, <1>10 DEF PublishedTurns, TouchesOnly, Follows, Head
  <2>2. TaskHeads' BY <1>10 DEF TaskHeads
  <2> QED BY <1>5, <1>6, <2>1, <2>2
<1> QED BY <1>9, <1>10 DEF TornWrite

\* The pipeline going forward, one write after the other.
LEMMA ForwardBooks ==
  ASSUME TypeOK, Control, Books,
         Prepare \/ PutArtifact \/ NoteArtifact \/ Swap \/ NoteCheckpoint \/ NoteSealed \/ Cleanup
  PROVE  Books'
<1> DEFINE t == job.turn
           Forward == /\ pc # "cleanup" /\ pc' \in Pipe \ {"prepare"}
                      /\ UNCHANGED <<job, active, todo>>
                      /\ pc' # "artifact" => artifact'[t] = job.draft.art
                      /\ pc' \in {"committed", "sealed", "cleanup"} => published'[t] = job.draft.ck
<1> USE DEF Books, JobBooks
<1>1. TornWrite BY PipelineWrites
<1>2. UNCHANGED <<begun, ran>>
  BY DEF Prepare, PutArtifact, NoteArtifact, Swap, NoteCheckpoint, NoteSealed, Cleanup, Step, history
<1>3. FileBooks' BY <1>1, <1>2, TornWriteBooks
<1>4. t \in Turn /\ pc \in Pipe /\ TouchesOnly(t) BY <1>1, TornWriteTouches
<1>5. ASSUME Forward PROVE JobBooks'
  <2>1. JobsBegun' BY <1>2, <1>4, <1>5 DEF JobsBegun, TouchesOnly, Pipe
  <2>2. JobFollows' BY <1>4, <1>5 DEF JobFollows, Follows, TouchesOnly
  <2> QED BY <2>1, <2>2
<1>6. CASE Prepare
  BY <1>3, <1>5, <1>6 DEF Prepare, Step, GoTo, Pipe
<1>7. CASE NoteArtifact \/ NoteCheckpoint \/ NoteSealed
  BY <1>3, <1>4, <1>5, <1>7 DEF NoteArtifact, NoteCheckpoint, NoteSealed, Step, GoTo, Pipe, JobFollows,
                                history
<1>8. CASE PutArtifact
  <2>1. artifact'[t] = job.draft.art BY <1>4, <1>8 DEF PutArtifact, TypeOK
  <2> QED BY <1>3, <1>5, <1>8, <2>1 DEF PutArtifact, GoTo, Pipe
<1>9. CASE Swap
  <2>1. published'[t] = job.draft.ck BY <1>4, <1>9 DEF Swap, TypeOK
  <2>2. artifact'[t] = job.draft.art BY <1>4, <1>9 DEF Swap, JobFollows, Pipe
  <2> QED BY <1>3, <1>5, <1>9, <2>1, <2>2 DEF Swap, GoTo, Pipe
<1>10. CASE Cleanup
  <2>1. /\ pc' = IF active = None THEN "startup" ELSE "idle"
        /\ active' = None /\ todo' = todo \ {t}
    BY <1>10 DEF Cleanup
  <2>2. pc' = "idle" => todo' = {} BY <2>1 DEF JobsBegun
  <2>4. pc' \in {"startup", "idle"} BY <2>1
  <2>5. \A u \in todo' : u \in begun' /\ journal'[u].here
    BY <1>2, <1>4, <2>1 DEF JobsBegun, TouchesOnly
  <2>6. begun' \subseteq Turn BY <1>2 DEF JobsBegun
  <2>7. todo' \subseteq {u \in begun' : journal'[u].here} BY <2>5
  <2>8. JobsBegun' BY <2>1, <2>2, <2>4, <2>6, <2>7 DEF JobsBegun, Pipe
  <2>3. JobFollows' BY <2>4 DEF JobFollows, Pipe
  <2> QED BY <1>3, <2>8, <2>3
<1> QED BY <1>6, <1>7, <1>8, <1>9, <1>10

\* An exception, whatever it left in the files of the turn in hand.
LEMMA RaiseBooks ==
  ASSUME TypeOK, Control, JobBooks, pc \in Pipe, UNCHANGED begun, FileBooks',
         TouchesOnly(job.turn), Raise(journal'[job.turn])
  PROVE  Books'
<1> DEFINE t == job.turn
<1>1. t \in Turn BY DEF Control
<1>2. CASE Conflict(t)
  <2>1. pc' = "startup" /\ active' = active /\ todo' = todo \ {t} BY <1>2 DEF Conflict
  <2>2. JobsBegun' BY <1>1, <2>1 DEF JobBooks, JobsBegun, TouchesOnly, Pipe
  <2>3. JobFollows' BY <2>1 DEF JobFollows, Pipe
  <2> QED BY <2>2, <2>3 DEF Books, JobBooks
<1>3. CASE PowerOff
  <2>1. pc' = "down" /\ active' = None /\ todo' = {} BY <1>3 DEF PowerOff
  <2>2. JobsBegun' BY <2>1 DEF JobBooks, JobsBegun, Pipe
  <2>3. JobFollows' BY <2>1 DEF JobFollows, Pipe
  <2> QED BY <2>2, <2>3 DEF Books, JobBooks
<1>4. CASE /\ Retriable(journal'[t]) /\ job' = [job EXCEPT !.mode = "replay"] /\ GoTo("artifact")
  <2>1. journal'[t].here BY <1>4 DEF Retriable, Readable
  <2>2. job'.turn = t /\ job'.draft = job.draft /\ pc' = "artifact" BY <1>4 DEF GoTo, TypeOK, Job
  <2>3. UNCHANGED <<active, todo>> BY <1>4 DEF GoTo
  <2>4. \A u \in todo : journal'[u].here BY <1>1, <2>1 DEF JobBooks, JobsBegun, TouchesOnly
  <2>5. JobsBegun' BY <1>1, <2>1, <2>2, <2>3, <2>4 DEF JobBooks, JobsBegun, Pipe
  <2>6. JobFollows' BY <1>1, <2>2 DEF JobBooks, JobFollows, Follows, TouchesOnly, Pipe
  <2> QED BY <2>5, <2>6 DEF Books, JobBooks
<1> QED BY <1>2, <1>3, <1>4 DEF Raise

\* A pipeline that raises, by a check or by an I/O error, keeps the books.
LEMMA FailureBooks ==
  ASSUME TypeOK, Control, Books, Refuse \/ PipelineFails
  PROVE  Books'
<1> USE DEF Books
<1>1. CASE Refuse
  <2>1. pc \in Pipe BY <1>1 DEF Refuse, Pipe
  <2>2. UNCHANGED <<durable, history>> BY <1>1 DEF Refuse
  <2>3. FileBooks'
    BY <2>2 DEF durable, history, FileBooks, FreshTurns, Unsealed, FrozenFollow, Follows,
                PublishedTurns, Head, TaskHeads
  <2>4. TouchesOnly(job.turn) /\ journal'[job.turn] = Target
    BY <2>2 DEF durable, history, TouchesOnly, Target
  <2> QED BY <1>1, <2>1, <2>2, <2>3, <2>4, RaiseBooks DEF Refuse, durable, history
<1>2. CASE PipelineFails
  <2>1. TornWrite /\ UNCHANGED <<begun, ran>> BY <1>2 DEF PipelineFails
  <2>2. FileBooks' BY <2>1, TornWriteBooks
  <2>3. TouchesOnly(job.turn) /\ pc \in Pipe BY <2>1, TornWriteTouches
  <2> QED BY <1>2, <2>1, <2>2, <2>3, RaiseBooks DEF PipelineFails
<1> QED BY <1>1, <1>2

----------------------------------------------------------------------------
(* Opening a turn, crash and recovery *)

\* Only the journal of one begun turn changes, and its header stays.
LEMMA FilesKept ==
  ASSUME TypeOK, FileBooks, NEW t \in begun, t \in Turn,
         journal' = journal \/ JournalKept(t),
         UNCHANGED <<frozen, artifact, checkpoint, published, begun, ran>>
  PROVE  /\ FileBooks'
         /\ \A u \in Turn : /\ journal'[u].base = journal[u].base
                            /\ journal'[u].order = journal[u].order
                            /\ journal'[u].here = journal[u].here
<1> USE DEF FileBooks
<1>1. \A u \in Turn : /\ journal'[u].base = journal[u].base
                      /\ journal'[u].order = journal[u].order
                      /\ journal'[u].here = journal[u].here
                      /\ u # t => journal'[u] = journal[u]
  BY DEF JournalKept, Kept, TypeOK
<1>2. FreshTurns' BY <1>1 DEF FreshTurns, Unsealed
<1>3. FrozenFollow' BY <1>1 DEF FrozenFollow, Follows
<1>4. PublishedTurns' BY <1>1 DEF PublishedTurns, Follows, Head
<1>5. TaskHeads' BY DEF TaskHeads
<1> QED BY <1>1, <1>2, <1>3, <1>4, <1>5

\* Nothing in the files changes.
LEMMA FilesFrame ==
  ASSUME FileBooks, UNCHANGED <<journal, frozen, artifact, checkpoint, published, begun, ran>>
  PROVE  FileBooks'
BY DEF FileBooks, FreshTurns, Unsealed, FrozenFollow, Follows, PublishedTurns, Head, TaskHeads

\* A process that went down owes nothing.
LEMMA DownBooks ==
  ASSUME JobBooks, begun' = begun, PowerOff
  PROVE  JobBooks'
BY DEF PowerOff, JobBooks, JobsBegun, JobFollows, Pipe

\* Opening a turn, and failing to, keeps the books.
LEMMA OpeningBooks ==
  ASSUME TypeOK, Control, Books,
         (\E t \in Turn : Reserve(t)) \/ OpenJournal \/ Activate \/ BeginFails
  PROVE  Books'
<1> USE DEF Books, JobBooks
<1>1. ASSUME NEW t \in Turn, Reserve(t) PROVE Books'
  <2>1. FileBooks' BY <1>1, FilesFrame DEF Reserve, history
  <2>2. pc' = "reserved" /\ job'.turn = t /\ t \notin begun BY <1>1 DEF Reserve, GoTo, NoJob
  <2>3. UNCHANGED <<begun, todo, journal, active>> BY <1>1 DEF Reserve, GoTo, history
  <2>6. pc = "idle" /\ todo = {} BY <1>1 DEF Reserve, JobsBegun
  <2>4. JobsBegun' BY <2>2, <2>3, <2>6 DEF JobsBegun, Pipe
  <2>5. JobFollows' BY <2>2 DEF JobFollows, Pipe
  <2> QED BY <2>1, <2>4, <2>5
<1>2. ASSUME OpenJournal PROVE Books'
  <2> DEFINE t == job.turn
             j == [NoJournal EXCEPT !.here = TRUE, !.order = order, !.base = Head(t).gen]
  <2>1. t \in Turn /\ t \notin begun BY <1>2 DEF OpenJournal, Control, JobsBegun
  <2>2. journal' = [journal EXCEPT ![t] = j] /\ begun' = begun \cup {t} /\ pc' = "opened"
    BY <1>2 DEF OpenJournal, SetJournal, GoTo
  <2>3. UNCHANGED <<frozen, artifact, checkpoint, published, ran, job, active, todo>>
    BY <1>2 DEF OpenJournal, GoTo
  <2>4. \A u \in Turn \ {t} : journal'[u] = journal[u] BY <2>1, <2>2 DEF TypeOK
  <2>5. journal'[t].here BY <2>1, <2>2 DEF TypeOK, NoJournal
  <2>6. FreshTurns' BY <2>2, <2>3, <2>4 DEF FileBooks, FreshTurns, Unsealed
  <2>7. Unsealed(t) /\ published[t] = NoCheckpoint BY <2>1 DEF FileBooks, FreshTurns
  <2>8. FrozenFollow' BY <2>3, <2>4, <2>7 DEF FileBooks, FrozenFollow, Follows, Unsealed
  <2>9. PublishedTurns' BY <2>3, <2>4, <2>7 DEF FileBooks, PublishedTurns, Follows, Head
  <2>10. TaskHeads' BY <2>3 DEF FileBooks, TaskHeads
  <2>11. todo = {} BY <1>2 DEF OpenJournal, JobsBegun
  <2>12. JobsBegun' BY <2>1, <2>2, <2>3, <2>4, <2>5, <2>7, <2>11 DEF JobsBegun, Unsealed, Pipe
  <2>13. JobFollows' BY <2>2 DEF JobFollows, Pipe
  <2> QED BY <2>6, <2>8, <2>9, <2>10, <2>12, <2>13 DEF FileBooks
<1>3. ASSUME Activate PROVE Books'
  <2> DEFINE t == job.turn
  <2>1. t \in Turn /\ t \in begun /\ journal[t].here /\ Unsealed(t)
    BY <1>3 DEF Activate, Control, JobsBegun
  <2>2. JournalKept(t)
    BY <1>3, <2>1, AppendKeeps DEF Activate, SetJournal, JournalKept, TypeOK
  <2>3. UNCHANGED <<frozen, artifact, checkpoint, published, begun, ran, todo>>
    BY <1>3 DEF Activate, history
  <2>4. FileBooks' /\ \A u \in Turn : journal'[u].here = journal[u].here
    BY <2>1, <2>2, <2>3, FilesKept
  <2>5. pc' = "run" /\ active' = t BY <1>3 DEF Activate
  <2>6. todo = {} BY <1>3 DEF Activate, JobsBegun
  <2>7. JobsBegun' BY <2>1, <2>3, <2>4, <2>5, <2>6 DEF JobsBegun, Unsealed, Pipe
  <2>8. JobFollows' BY <2>5 DEF JobFollows, Pipe
  <2> QED BY <2>4, <2>7, <2>8
<1>4. ASSUME BeginFails PROVE Books'
  <2> DEFINE t == job.turn
  <2>1. t \in Turn BY <1>4 DEF BeginFails, Control
  <2>2. UNCHANGED <<frozen, artifact, checkpoint, published, begun, ran, todo>>
    BY <1>4 DEF BeginFails, GoTo, history
  <2>3. FileBooks'
    <3>1. CASE pc = "opened"
      <4>1. PICK j \in Cut(journal[t], Mark("segment")) : SetJournal(t, j)
        BY <1>4, <3>1 DEF BeginFails
      <4>2. JournalKept(t) BY <2>1, <4>1, CutKeeps DEF SetJournal, JournalKept, TypeOK
      <4>3. t \in begun BY <3>1 DEF JobsBegun
      <4> QED BY <2>1, <2>2, <4>2, <4>3, FilesKept
    <3>2. CASE pc # "opened"
      <4>1. journal' = [journal EXCEPT ![t] = journal[t]] BY <1>4, <3>2 DEF BeginFails, SetJournal
      <4>2. journal' = journal BY <4>1, <2>1 DEF TypeOK
      <4> QED BY <2>2, <4>2, FilesFrame
    <3> QED BY <3>1, <3>2
  <2>4. pc' = "idle" /\ active' = active /\ active = None /\ todo = {}
    BY <1>4 DEF BeginFails, GoTo, Control, JobsBegun
  <2>5. JobsBegun' BY <2>2, <2>4 DEF JobsBegun, Pipe
  <2>6. JobFollows' BY <2>4 DEF JobFollows, Pipe
  <2> QED BY <2>3, <2>5, <2>6
<1> QED BY <1>1, <1>2, <1>3, <1>4

\* Taking the snapshot a seal starts from keeps the books.
LEMMA SealBooks ==
  ASSUME TypeOK, Control, Books, BeginSeal \/ SealImpossible
  PROVE  Books'
<1> USE DEF Books, JobBooks
<1>1. FileBooks'
  BY FilesFrame DEF BeginSeal, SealImpossible, durable, history
<1>2. ASSUME BeginSeal PROVE JobBooks'
  <2>1. active \in Turn /\ active \in begun /\ journal[active].here
    BY <1>2 DEF BeginSeal, Alive, Control, JobsBegun
  <2>2. job' = [turn |-> active, mode |-> "seal", draft |-> SealDraft(journal[active], active)]
    BY <1>2 DEF BeginSeal
  <2>3. job'.turn = active /\ Follows(active, job'.draft.ck) BY <2>2 DEF SealDraft, Follows
  <2>4. pc = "run" /\ pc' = "prepare" /\ UNCHANGED <<active, todo, journal, begun>>
    BY <1>2 DEF BeginSeal, Alive, GoTo, durable, history
  <2>5. JobsBegun' BY <2>1, <2>3, <2>4 DEF JobsBegun, Pipe
  <2>6. JobFollows' BY <2>3, <2>4 DEF JobFollows, Follows
  <2> QED BY <2>5, <2>6
<1>3. ASSUME SealImpossible PROVE JobBooks'
  BY <1>3, DownBooks DEF SealImpossible, history
<1> QED BY <1>1, <1>2, <1>3

\* A crash, whatever it interrupts, keeps the books.
LEMMA CrashBooks ==
  ASSUME TypeOK, Control, Books, Crash
  PROVE  Books'
<1> USE DEF Books
<1>1. UNCHANGED <<begun, ran>> BY DEF Crash
<1>2. JobBooks' BY <1>1, DownBooks DEF Crash
<1>3. ASSUME UNCHANGED <<journal, frozen, artifact, checkpoint, published>> PROVE FileBooks'
  BY <1>1, <1>3, FilesFrame
<1>4. ASSUME NEW t \in begun, t \in Turn, JournalKept(t),
             UNCHANGED <<frozen, artifact, checkpoint, published>>
      PROVE  FileBooks'
  BY <1>1, <1>4, FilesKept
<1>5. ASSUME NEW row \in InFlight, CutRow(row), UNCHANGED <<frozen, artifact, checkpoint, published>>
      PROVE  FileBooks'
  <2>1. active \in begun /\ active \in Turn BY <1>5, ActiveBegun DEF CutRow, JobBooks
  <2>2. JournalKept(active) BY <1>5, <2>1, CutKeeps DEF CutRow, SetJournal, JournalKept, TypeOK
  <2> QED BY <1>4, <1>5, <2>1, <2>2
<1>6. ASSUME pc = "opened", NEW j \in Cut(Target, Mark("segment")), SetJournal(job.turn, j),
             UNCHANGED <<frozen, artifact, checkpoint, published>>
      PROVE  FileBooks'
  <2>1. job.turn \in Turn /\ job.turn \in begun BY <1>6 DEF Control, JobBooks, JobsBegun
  <2>2. JournalKept(job.turn)
    BY <1>6, <2>1, CutKeeps DEF SetJournal, JournalKept, Target, TypeOK
  <2> QED BY <1>4, <1>6, <2>1, <2>2
<1>7. TornWrite => FileBooks' BY <1>1, TornWriteBooks
<1> QED BY <1>2, <1>3, <1>5, <1>6, <1>7 DEF Crash

\* A frozen intent that validates names its turn.
LEMMA ValidFollows ==
  ASSUME FileBooks, NEW t \in Turn, NEW j, Valid(j, t, frozen[t])
  PROVE  Follows(t, frozen[t].ck)
<1>1. t \in frozen[t].ck.refs BY DEF Valid
<1>2. frozen[t] # NoDraft BY <1>1 DEF NoDraft, NoCheckpoint
<1> QED BY <1>2 DEF FileBooks, FrozenFollow

\* A start that loads, recovers or refuses journals keeps the books.
LEMMA RecoveryBooks ==
  ASSUME TypeOK, Control, Books, Recovery
  PROVE  Books'
<1> USE DEF Books, JobBooks
<1>1. ASSUME Restart PROVE Books'
  <2>1. FileBooks' BY <1>1, FilesFrame DEF Restart, durable, history
  <2>2. \A t \in Turn : journal[t].here => t \in begun
    BY DEF FileBooks, FreshTurns, NoJournal
  <2>3. /\ pc' = "startup" /\ todo' = {t \in Turn : journal[t].here}
        /\ UNCHANGED <<journal, active, begun>> /\ active = None
    BY <1>1 DEF Restart, durable, history, Control
  <2>4. JobsBegun' BY <2>2, <2>3 DEF JobsBegun, Pipe
  <2>5. JobFollows' BY <2>3 DEF JobFollows, Pipe
  <2> QED BY <2>1, <2>4, <2>5
<1>2. ASSUME NEW t \in Turn, Load(t) PROVE Books'
  <2> DEFINE j == Salvaged(journal[t])
  <2>1. t \in todo /\ t \in begun /\ journal[t].here /\ pc = "startup" /\ active = None
    BY <1>2 DEF Load, JobsBegun, Control
  <2>2. UNCHANGED <<frozen, artifact, checkpoint, published, begun, ran>>
    BY <1>2 DEF Load, history
  <2>3. JournalKept(t) BY <1>2, SalvageKeeps DEF Load, SetJournal, JournalKept, TypeOK
  <2>4. FileBooks' /\ \A u \in Turn : /\ journal'[u].base = journal[u].base
                                      /\ journal'[u].order = journal[u].order
                                      /\ journal'[u].here = journal[u].here
    BY <2>1, <2>2, <2>3, FilesKept
  <2>5. ASSUME NEW mode, NEW d, Follows(t, d.ck), GoTo("artifact"),
               job' = [turn |-> t, mode |-> mode, draft |-> d]
        PROVE  JobBooks'
    <3>1. /\ pc' = "artifact" /\ UNCHANGED <<active, todo>>
          /\ job'.turn = t /\ job'.draft = d
      BY <2>5 DEF GoTo
    <3>2. JobsBegun' BY <2>1, <2>2, <2>4, <3>1 DEF JobsBegun, Pipe
    <3>3. JobFollows' BY <2>4, <2>5, <3>1 DEF JobFollows, Follows, Pipe
    <3> QED BY <3>2, <3>3
  <2>6. ASSUME Conflict(t) PROVE JobBooks'
    <3>1. pc' = "startup" /\ todo' = todo \ {t} /\ active' = active BY <2>6 DEF Conflict
    <3>2. JobsBegun' BY <2>1, <2>2, <2>4, <3>1 DEF JobsBegun, Pipe
    <3>3. JobFollows' BY <3>1 DEF JobFollows, Pipe
    <3> QED BY <3>2, <3>3
  <2>7. Kept(journal[t], j) BY SalvageKeeps DEF TypeOK
  <2>8. Follows(t, ReplayDraft(j, t).ck) BY <2>7 DEF Follows, ReplayDraft, Kept
  <2>9. JobBooks' BY <1>2, <2>5, <2>6, <2>8, ValidFollows DEF Load
  <2> QED BY <2>4, <2>9
<1>3. ASSUME StartupDone PROVE Books'
  <2>1. FileBooks' BY <1>3, FilesFrame DEF StartupDone, durable, history
  <2>2. pc' \in {"down", "idle"} /\ todo' = {} /\ UNCHANGED <<active, begun>> /\ active = None
    BY <1>3 DEF StartupDone, history, Control
  <2>3. JobsBegun' BY <2>2 DEF JobsBegun, Pipe
  <2>4. JobFollows' BY <2>2 DEF JobFollows, Pipe
  <2> QED BY <2>1, <2>3, <2>4
<1> QED BY <1>1, <1>2, <1>3 DEF Recovery

----------------------------------------------------------------------------
(* The invariant and what follows from it *)

\* An empty store is balanced.
LEMMA InitBooks == Init => Books
<1> SUFFICES ASSUME Init PROVE Books OBVIOUS
<1>1. FreshTurns BY DEF Init, FreshTurns, Unsealed
<1>2. JobsBegun BY DEF Init, JobsBegun, Pipe
<1>3. FrozenFollow BY DEF Init, FrozenFollow
<1>4. JobFollows BY DEF Init, JobFollows, Pipe
<1>5. PublishedTurns /\ TaskHeads BY DEF Init, PublishedTurns, TaskHeads
<1> QED BY <1>1, <1>2, <1>3, <1>4, <1>5 DEF Books, FileBooks, JobBooks

\* Every step of the store keeps the books.
LEMMA NextBooks ==
  ASSUME TypeOK, Control, Books, [Next]_vars
  PROVE  Books'
<1>1. CASE Next
  <2>1. Quiet => Books' BY QuietKeepsBooks
  <2> QED BY <1>1, <2>1, QuietActions, OpeningBooks, SealBooks, ForwardBooks, FailureBooks, CrashBooks,
             RecoveryBooks
          DEF Next, Opening, EndTurn, Pipeline, Books, JobBooks
<1>2. CASE UNCHANGED vars
  <2>1. Quiet BY <1>2 DEF vars, durable, volatile, history, Quiet
  <2> QED BY <2>1, QuietKeepsBooks
<1> QED BY <1>1, <1>2

\* The journals, drafts, artifacts and checkpoints of the store agree with each
\* other at every point of the pipeline, for any number of turns and crashes.
THEOREM BooksBalance == Spec => []Books
<1>1. Init => TypeOK /\ Control /\ Books BY InitTypes, InitBooks
<1>2. TypeOK /\ Control /\ Books /\ [Next]_vars => (TypeOK /\ Control /\ Books)'
  BY NextTypes, NextBooks
<1> QED BY <1>1, <1>2, PTL DEF Spec

----------------------------------------------------------------------------
(* Three kinds of step *)

\* A step that publishes nothing, begins nothing and unlinks nothing.
Still ==
  /\ UNCHANGED <<begun, checkpoint, published, artifact>>
  /\ \A t \in Turn : Kept(journal[t], journal'[t])
  /\ \A c \in Child : child[c] # None => child'[c] = child[c]

\* A write of the pipeline, whole or torn.
Writes == TornWrite /\ UNCHANGED <<begun, ran, child>>

\* A change to one journal short of its unlink keeps every header.
LEMMA KeptAll ==
  ASSUME TypeOK, journal' = journal \/ \E t \in Turn : JournalKept(t)
  PROVE  \A t \in Turn : Kept(journal[t], journal'[t])
BY DEF TypeOK, JournalKept, Kept

\* Every step of the running turn is still.
LEMMA RunningStill ==
  ASSUME TypeOK, Control, Books,
         \/ \E c \in Call : \/ RecordStart(c) \/ Enter(c) \/ AbandonStart(c) \/ LateCheck(c)
                            \/ LateStart(c) \/ \E kind \in {"settle", "vague"} : RecordOutcome(c, kind)
         \/ \E u \in Turn : Cite(u)
         \/ \E c \in Child : BindSink(c) \/ StoreChild(c)
         \/ RecordChild \/ RecordChildFails \/ AppendFails
  PROVE  Still
<1>1. Quiet BY QuietActions DEF Books, JobBooks
<1>2. \A t \in Turn : Kept(journal[t], journal'[t]) BY <1>1, KeptAll DEF Quiet
<1>3. \A c \in Child : child[c] # None => child'[c] = child[c]
  BY DEF RecordStart, Enter, AbandonStart, LateCheck, LateStart, RecordOutcome, Cite, BindSink,
         StoreChild, RecordChild, RecordChildFails, AppendFails, TypeOK, durable
<1> QED BY <1>1, <1>2, <1>3 DEF Still, Quiet

\* So is the step that opens a turn, but for the header; and every recovery step.
LEMMA OtherStill ==
  ASSUME TypeOK, Control, Books,
         \/ (\E t \in Turn : Reserve(t)) \/ Activate \/ BeginFails
         \/ BeginSeal \/ SealImpossible \/ Refuse \/ Recovery
         \/ UNCHANGED vars
  PROVE  Still
<1>1. UNCHANGED <<begun, checkpoint, published, artifact, child>>
  BY DEF Reserve, Activate, BeginFails, BeginSeal, SealImpossible, Refuse, Recovery, Restart, Load,
         StartupDone, vars, durable, history
<1>2. ASSUME journal' = journal PROVE Still
  BY <1>1, <1>2, KeptAll DEF Still
<1>3. ASSUME NEW t \in Turn, NEW j, Kept(journal[t], j), SetJournal(t, j) PROVE Still
  <2>1. JournalKept(t) BY <1>3 DEF JournalKept, SetJournal
  <2> QED BY <1>1, <2>1, KeptAll DEF Still
<1>4. CASE (\E t \in Turn : Reserve(t)) \/ BeginSeal \/ SealImpossible \/ Refuse \/ UNCHANGED vars
  BY <1>2, <1>4 DEF Reserve, BeginSeal, SealImpossible, Refuse, vars, durable
<1>5. CASE Activate
  <2>1. job.turn \in Turn BY <1>5 DEF Activate, Control
  <2> QED BY <1>3, <1>5, <2>1, AppendKeeps DEF Activate, TypeOK
<1>6. CASE BeginFails
  <2>1. job.turn \in Turn /\ journal[job.turn] \in Journal
    BY <1>6 DEF BeginFails, Control, TypeOK
  <2>2. Kept(journal[job.turn], journal[job.turn]) BY DEF Kept
  <2>3. PICK j : Kept(journal[job.turn], j) /\ SetJournal(job.turn, j)
    BY <1>6, <2>1, <2>2, CutKeeps DEF BeginFails
  <2> QED BY <1>3, <2>1, <2>3
<1>7. CASE Recovery
  <2>1. CASE Restart \/ StartupDone BY <1>2, <2>1 DEF Restart, StartupDone, durable
  <2>2. ASSUME NEW t \in Turn, Load(t) PROVE Still
    BY <1>3, <2>2, SalvageKeeps DEF Load, TypeOK
  <2> QED BY <1>7, <2>1, <2>2 DEF Recovery
<1> QED BY <1>4, <1>5, <1>6, <1>7

\* A crash is still, or cuts a pipeline write short.
LEMMA CrashShape ==
  ASSUME TypeOK, Control, Books, Crash
  PROVE  Still \/ Writes
<1>1. UNCHANGED <<begun, ran, child>> BY DEF Crash
<1>2. ASSUME UNCHANGED <<checkpoint, published, artifact>>,
             journal' = journal \/ \E t \in Turn : JournalKept(t)
      PROVE  Still
  BY <1>1, <1>2, KeptAll DEF Still
<1>3. ASSUME NEW row \in InFlight, CutRow(row), UNCHANGED <<checkpoint, published, artifact>>
      PROVE  Still
  <2>1. active \in Turn BY <1>3, ActiveBegun DEF CutRow, Books, JobBooks
  <2>2. JournalKept(active) BY <1>3, <2>1, CutKeeps DEF CutRow, SetJournal, JournalKept, TypeOK
  <2> QED BY <1>2, <1>3, <2>1, <2>2
<1>4. ASSUME pc = "opened", NEW j \in Cut(Target, Mark("segment")), SetJournal(job.turn, j),
             UNCHANGED <<checkpoint, published, artifact>>
      PROVE  Still
  <2>1. job.turn \in Turn BY <1>4 DEF Control
  <2>2. JournalKept(job.turn)
    BY <1>4, <2>1, CutKeeps DEF SetJournal, JournalKept, Target, TypeOK
  <2> QED BY <1>2, <1>4, <2>1, <2>2
<1> QED BY <1>1, <1>2, <1>3, <1>4 DEF Crash, Writes

\* Every step is still, or writes the header of a turn, or is a pipeline write.
LEMMA StepShape ==
  ASSUME TypeOK, Control, Books, [Next]_vars
  PROVE  Still \/ OpenJournal \/ Writes
<1>1. ASSUME Prepare \/ PutArtifact \/ NoteArtifact \/ Swap \/ NoteCheckpoint \/ NoteSealed \/ Cleanup
      PROVE  Writes
  <2>1. UNCHANGED <<begun, ran, child>>
    BY <1>1 DEF Prepare, PutArtifact, NoteArtifact, Swap, NoteCheckpoint, NoteSealed, Cleanup,
                Step, history
  <2> QED BY <1>1, <2>1, PipelineWrites DEF Writes
<1>2. PipelineFails => Writes BY DEF PipelineFails, Writes
<1> QED BY <1>1, <1>2, RunningStill, OtherStill, CrashShape DEF Next, Opening, EndTurn, Pipeline

\* What a pipeline write may do to the books of the turn in hand.
LEMMA WriteShape ==
  ASSUME TypeOK, Control, Books, Writes
  PROVE  /\ job.turn \in Turn /\ job.turn \in begun /\ TouchesOnly(job.turn)
         /\ \A t \in Turn : artifact[t] # None => artifact'[t] # None
         /\ \/ /\ UNCHANGED <<checkpoint, published>>
               /\ artifact[job.turn] # None => artifact'[job.turn] = artifact[job.turn]
            \/ /\ SwapAllowed /\ artifact' = artifact /\ artifact[job.turn] = job.draft.art
               /\ journal' = journal
               /\ checkpoint' = [checkpoint EXCEPT ![TaskOf[job.turn]] = job.draft.ck]
               /\ published' = [published EXCEPT ![job.turn] = job.draft.ck]
         /\ pc = "cleanup" => published'[job.turn] = job.draft.ck
         /\ Follows(job.turn, job.draft.ck) /\ job.draft.art \in Status
<1> USE DEF Books, JobBooks
<1>1. job.turn \in Turn /\ pc \in Pipe /\ TouchesOnly(job.turn) BY TornWriteTouches DEF Writes
<1>2. job.turn \in begun /\ Follows(job.turn, job.draft.ck)
  BY <1>1 DEF JobsBegun, JobFollows
<1>3. job.draft.art \in Status /\ job.draft.art # None BY DraftOfJob, NoneIsNothing
<1>4. \A t \in Turn : artifact[t] # None => artifact'[t] # None
  BY <1>1, <1>3 DEF Writes, TornWrite, TypeOK
<1>5. artifact[job.turn] # None \/ artifact' = artifact \/ pc = "artifact"
  BY DEF Writes, TornWrite
<1>6. \/ /\ UNCHANGED <<checkpoint, published>>
         /\ artifact[job.turn] # None => artifact'[job.turn] = artifact[job.turn]
      \/ /\ pc = "swap" /\ SwapAllowed /\ artifact' = artifact /\ journal' = journal
         /\ checkpoint' = [checkpoint EXCEPT ![TaskOf[job.turn]] = job.draft.ck]
         /\ published' = [published EXCEPT ![job.turn] = job.draft.ck]
  BY <1>1 DEF Writes, TornWrite, TypeOK
<1>7. pc = "swap" => artifact[job.turn] = job.draft.art BY DEF JobFollows, Pipe
<1>8. pc = "cleanup" => published'[job.turn] = job.draft.ck
  BY <1>6 DEF JobFollows
<1> QED BY <1>1, <1>2, <1>3, <1>4, <1>6, <1>7, <1>8

----------------------------------------------------------------------------
(* Nothing begun is lost *)

Gone == \A t \in begun : ~journal[t].here => published[t] # NoCheckpoint

\* An unlinked journal of a begun turn stays accounted for.
LEMMA NextGone ==
  ASSUME TypeOK, Control, Books, Gone, [Next]_vars
  PROVE  Gone'
<1> USE DEF Books, FileBooks, JobBooks
<1>1. begun \subseteq Turn BY DEF JobsBegun
<1>2. CASE Still BY <1>1, <1>2 DEF Still, Gone, Kept
<1>3. CASE OpenJournal
  <2>1. job.turn \in Turn /\ begun' = begun \cup {job.turn} /\ published' = published
    BY <1>3 DEF OpenJournal, Control
  <2>2. journal'[job.turn].here BY <1>3, <2>1 DEF OpenJournal, SetJournal, NoJournal, TypeOK
  <2>3. \A t \in Turn \ {job.turn} : journal'[t] = journal[t]
    BY <1>3, <2>1 DEF OpenJournal, SetJournal, TypeOK
  <2> QED BY <1>1, <2>1, <2>2, <2>3 DEF Gone
<1>4. CASE Writes
  <2> DEFINE t == job.turn
  <2>1. /\ t \in Turn /\ begun' = begun /\ TouchesOnly(t)
        /\ published'[t] \in {published[t], job.draft.ck}
        /\ pc = "cleanup" => published'[t] = job.draft.ck
        /\ Follows(t, job.draft.ck)
    BY <1>4, WriteShape DEF Writes, TypeOK
  <2>2. job.draft.ck # NoCheckpoint BY <2>1, NoneIsNothing DEF Follows, NoCheckpoint
  <2>3. t \in begun /\ ~journal'[t].here => published'[t] # NoCheckpoint
    BY <2>1, <2>2 DEF TouchesOnly, Gone
  <2>4. \A u \in begun \ {t} : journal'[u] = journal[u] /\ published'[u] = published[u]
    BY <1>1, <2>1 DEF TouchesOnly
  <2> QED BY <2>1, <2>3, <2>4 DEF Gone
<1> QED BY <1>2, <1>3, <1>4, StepShape

\* The journal of a begun turn disappears only once its checkpoint is in the
\* store, not behind its task's head, and its artifact is readable.
THEOREM NothingIsLost == Spec => []NothingLost
<1>1. Init => Gone BY DEF Init, Gone
<1>2. TypeOK /\ Control /\ Books /\ Gone => NothingLost
  <2> SUFFICES ASSUME TypeOK, Books, Gone, NEW t \in begun, ~journal[t].here
               PROVE  IsPublished(t) /\ artifact[t] # None /\ published[t].gen <= Head(t).gen
    BY DEF NothingLost
  <2>1. t \in Turn /\ published[t] # NoCheckpoint
    BY DEF Gone, Books, JobBooks, JobsBegun
  <2> QED BY <2>1 DEF Books, FileBooks, PublishedTurns, Follows, IsPublished
<1>3. TypeOK /\ Control /\ Books /\ Gone /\ [Next]_vars => Gone' BY NextGone
<1> QED BY <1>1, <1>2, <1>3, TypeCorrect, BooksBalance, PTL DEF Spec

----------------------------------------------------------------------------
(* References are durable *)

\* No step makes a checkpoint cite what is not stored.
LEMMA NextRefs ==
  ASSUME TypeOK, Control, Books, RefsDurable, [Next]_vars
  PROVE  RefsDurable'
<1>1. ASSUME \A t \in Turn : artifact[t] # None => artifact'[t] # None,
             \A c \in Child : child[c] # None => child'[c] # None,
             NEW ck \in Checkpoint, RefsStored(ck)
      PROVE  (RefsStored(ck))'
  <2>1. \A r \in ck.refs : r \in Turn \cup Child BY <1>1 DEF Checkpoint, Ref
  <2> QED BY <1>1, <2>1 DEF RefsStored, Stored
<1>2. ASSUME \A t \in Turn : artifact[t] # None => artifact'[t] # None,
             \A c \in Child : child[c] # None => child'[c] # None,
             checkpoint' = checkpoint
      PROVE  RefsDurable'
  BY <1>1, <1>2 DEF RefsDurable, RefsStored, Stored, TypeOK
<1>3. CASE Still BY <1>2, <1>3 DEF Still
<1>4. CASE OpenJournal BY <1>2, <1>4 DEF OpenJournal
<1>5. CASE Writes
  <2>1. /\ child' = child
        /\ \A t \in Turn : artifact[t] # None => artifact'[t] # None
    BY <1>5, WriteShape DEF Writes
  <2>2. CASE checkpoint' = checkpoint BY <1>2, <2>1, <2>2
  <2>3. CASE /\ SwapAllowed
             /\ checkpoint' = [checkpoint EXCEPT ![TaskOf[job.turn]] = job.draft.ck]
    <3>1. \A k \in Task : RefsStored(checkpoint'[k])
      BY <2>3 DEF SwapAllowed, RefsDurable, TypeOK
    <3>2. \A k \in Task : checkpoint'[k] \in Checkpoint
      BY <2>3, DraftOfJob DEF TypeOK
    <3>3. \A k \in Task : RefsStored(checkpoint'[k]) => RefsStored(checkpoint[k])'
      BY <1>1, <2>1, <3>2 DEF RefsStored, Stored
    <3> QED BY <3>1, <3>3 DEF RefsDurable
  <2> QED BY <1>5, <2>2, <2>3, WriteShape
<1> QED BY <1>3, <1>4, <1>5, StepShape

\* Whatever a checkpoint cites is in the artifact store, at every crash point.
THEOREM RefsAreDurable == Spec => []RefsDurable
<1>1. Init => RefsDurable BY DEF Init, RefsDurable, RefsStored, NoCheckpoint
<1>2. TypeOK /\ Control /\ Books /\ RefsDurable /\ [Next]_vars => RefsDurable' BY NextRefs
<1> QED BY <1>1, <1>2, TypeCorrect, BooksBalance, PTL DEF Spec

----------------------------------------------------------------------------
(* Each turn is committed once *)

\* What the steps of TurnSeal look like through the refinement mapping.
TurnOf(t) == [state |-> Outcome(t), base |-> journal[t].base]
HeadOf(k) == [gen |-> checkpoint[k].gen, by |-> checkpoint[k].by]

\* A published turn, and only such a turn, has a generation.
LEMMA PublishedShape ==
  ASSUME TypeOK, Books, NEW t \in Turn
  PROVE  /\ IsPublished(t) <=> published[t] # NoCheckpoint
         /\ IsPublished(t) => /\ published[t].gen = journal[t].base + 1
                              /\ published[t].gen <= Head(t).gen /\ artifact[t] # None
<1>1. IsPublished(t) => published[t] # NoCheckpoint
  BY NoneIsNothing DEF IsPublished, NoCheckpoint
<1>2. published[t] # NoCheckpoint => /\ Follows(t, published[t])
                                     /\ published[t].gen <= Head(t).gen /\ artifact[t] # None
  BY DEF Books, FileBooks, PublishedTurns
<1> QED BY <1>1, <1>2 DEF Follows, IsPublished

\* A step that moves neither the outcomes nor the heads is a stutter.
LEMMA CommitStutters ==
  ASSUME \A t \in Turn : (TurnOf(t))' = TurnOf(t), checkpoint' = checkpoint
  PROVE  UNCHANGED Commit!vars
<1>1. \A t \in Turn : /\ (Outcome(t))' = Outcome(t)
                      /\ journal'[t].base = journal[t].base
  BY DEF TurnOf
<1> QED BY <1>1 DEF Commit!vars

\* A still step is a stutter.
LEMMA StillCommits ==
  ASSUME TypeOK, Books, Still
  PROVE  UNCHANGED Commit!vars
<1>1. \A t \in Turn : /\ journal'[t].base = journal[t].base
                      /\ (Outcome(t))' = Outcome(t)
  BY DEF Still, Kept, Outcome, IsPublished
<1> QED BY <1>1, CommitStutters DEF TurnOf, Still

\* Writing the header opens the turn on the current head.
LEMMA OpenCommits ==
  ASSUME TypeOK, Control, Books, OpenJournal, NEW t, t = job.turn
  PROVE  Commit!Next
<1> USE DEF Books, FileBooks, JobBooks
<1>1. t \in Turn /\ t \notin begun BY DEF OpenJournal, Control, JobsBegun
<1>2. UNCHANGED <<published, artifact, checkpoint>> /\ begun' = begun \cup {t}
  BY DEF OpenJournal
<1>3. journal'[t].base = Head(t).gen /\ \A u \in Turn \ {t} : journal'[u] = journal[u]
  BY <1>1 DEF OpenJournal, SetJournal, NoJournal, TypeOK
<1>4. Outcome(t) = "new" /\ (Outcome(t))' = "open"
  BY <1>1, <1>2, PublishedShape DEF FreshTurns, Outcome, IsPublished
<1>5. \A u \in Turn \ {t} : (Outcome(u))' = Outcome(u)
  BY <1>2 DEF Outcome, IsPublished
<1>6. \A u \in Turn : (TurnOf(u))' = IF u = t THEN [state |-> "open", base |-> Head(t).gen]
                                    ELSE TurnOf(u)
  BY <1>3, <1>4, <1>5 DEF TurnOf
<1>7. TaskOf[t] \in Task BY <1>1, TaskOfType
<1>8. Commit!Open(t)
  BY <1>1, <1>2, <1>4, <1>6, <1>7 DEF Commit!Open, TurnOf, Head
<1> QED BY <1>1, <1>8 DEF Commit!Next

\* A pipeline write is a stutter, unless it is the first time the turn's
\* checkpoint becomes the head of its task.
LEMMA WriteCommits ==
  ASSUME TypeOK, Control, Books, Writes, NEW t, t = job.turn
  PROVE  [Commit!Next]_(Commit!vars)
<1> USE DEF Books, FileBooks, JobBooks
<1>1. /\ t \in Turn /\ t \in begun /\ TouchesOnly(t)
      /\ Follows(t, job.draft.ck) /\ job.draft.art \in Status
  BY WriteShape
<1>2. begun' = begun /\ \A u \in Turn : journal'[u].base = journal[u].base
  BY <1>1 DEF Writes, TouchesOnly
<1>3. \A u \in Turn \ {t} : (TurnOf(u))' = TurnOf(u)
  BY <1>1, <1>2 DEF TouchesOnly, TurnOf, Outcome, IsPublished
<1>4. CASE /\ UNCHANGED <<checkpoint, published>>
           /\ artifact[t] # None => artifact'[t] = artifact[t]
  <2>1. (Outcome(t))' = Outcome(t)
    BY <1>1, <1>2, <1>4, PublishedShape DEF Outcome, IsPublished
  <2> QED BY <1>2, <1>3, <1>4, <2>1, CommitStutters DEF TurnOf
<1>5. CASE /\ SwapAllowed /\ artifact' = artifact /\ artifact[t] = job.draft.art
           /\ checkpoint' = [checkpoint EXCEPT ![TaskOf[t]] = job.draft.ck]
           /\ published' = [published EXCEPT ![t] = job.draft.ck]
  <2>1. TaskOf[t] \in Task BY <1>1, TaskOfType
  <2>2. CASE Head(t) = job.draft.ck
    <3>1. checkpoint' = checkpoint BY <1>5, <2>1, <2>2 DEF Head, TypeOK
    <3>2. checkpoint[TaskOf[t]] # NoCheckpoint
      BY <1>1, <2>2, NoneIsNothing DEF Head, Follows, NoCheckpoint
    <3>3. published[t] = job.draft.ck
      BY <1>1, <2>1, <2>2, <3>2 DEF TaskHeads, Follows, Head
    <3>4. published' = published BY <1>1, <1>5, <3>3 DEF TypeOK
    <3>5. (Outcome(t))' = Outcome(t)
      BY <1>1, <1>2, <1>5, <3>4 DEF Outcome, IsPublished
    <3> QED BY <1>2, <1>3, <3>1, <3>5, CommitStutters DEF TurnOf
  <2>3. CASE Head(t) # job.draft.ck
    <3>1. Head(t).gen = journal[t].base BY <1>5, <2>3 DEF SwapAllowed, Target
    <3>2. journal[t].base \in Nat BY <1>1 DEF TypeOK, Journal
    <3>3. ~IsPublished(t) BY <1>1, <3>1, <3>2, PublishedShape
    <3>4. Outcome(t) = "open" BY <1>1, <3>3 DEF Outcome
    <3>5. published'[t] = job.draft.ck BY <1>1, <1>5 DEF TypeOK
    <3>6. (Outcome(t))' = job.draft.art
      BY <1>1, <1>5, <3>5 DEF Outcome, IsPublished, Follows
    <3>7. (TurnOf(t))' = [state |-> job.draft.art, base |-> journal[t].base]
      BY <1>1, <1>2, <3>6 DEF TurnOf
    <3>8. \A k \in Task : (HeadOf(k))' = IF k = TaskOf[t]
                                         THEN [gen |-> journal[t].base + 1, by |-> t]
                                         ELSE HeadOf(k)
      BY <1>1, <1>5, <2>1 DEF HeadOf, Follows, TypeOK
    <3>9. Commit!CommitTurn(t)
      <4>1. TurnOf(t).state = "open" /\ TurnOf(t).base = journal[t].base
            /\ HeadOf(TaskOf[t]).gen = TurnOf(t).base
        BY <3>1, <3>4 DEF TurnOf, HeadOf, Head
      <4> DEFINE T == [u \in Turn |-> TurnOf(u)]
                 H == [k \in Task |-> HeadOf(k)]
      <4>2. T' = [T EXCEPT ![t].state = job.draft.art]
        <5>1. T[t] = [state |-> "open", base |-> journal[t].base]
          BY <1>1, <3>4 DEF TurnOf
        <5>2. [T[t] EXCEPT !.state = job.draft.art]
                = [state |-> job.draft.art, base |-> journal[t].base]
          BY <5>1
        <5>3. T' = [u \in Turn |-> IF u = t THEN [T[t] EXCEPT !.state = job.draft.art] ELSE T[u]]
          BY <1>3, <3>7, <5>2
        <5> QED BY <1>1, <5>3
      <4>3. H' = [H EXCEPT ![TaskOf[t]] = [gen |-> T[t].base + 1, by |-> t]]
        BY <1>1, <2>1, <3>8 DEF TurnOf
      <4>4. T[t].state = "open" /\ H[TaskOf[t]].gen = T[t].base BY <1>1, <2>1, <4>1
      <4> QED BY <1>1, <4>2, <4>3, <4>4 DEF Commit!CommitTurn, TurnOf, HeadOf
    <3> QED BY <1>1, <3>9 DEF Commit!Next
  <2> QED BY <2>2, <2>3
<1> QED BY <1>4, <1>5, WriteShape

\* TurnSeal implements TurnCommit: however its steps are cut short, repeated or
\* carried through by a later start, a turn becomes the head of its task in one
\* step, once, from exactly the generation it was opened on.
THEOREM CommitsAreOnce == Spec => CommitsOnce
<1>1. Init => Commit!Init
  <2> SUFFICES ASSUME Init PROVE Commit!Init OBVIOUS
  <2>1. \A t \in Turn : Outcome(t) = "new" /\ journal[t].base = 0
    BY NoneIsNothing DEF Init, Outcome, IsPublished, NoCheckpoint, NoJournal
  <2>2. \A k \in Task : checkpoint[k].gen = 0 /\ checkpoint[k].by = None
    BY DEF Init, NoCheckpoint
  <2> QED BY <2>1, <2>2 DEF Commit!Init
<1>2. TypeOK /\ Control /\ Books /\ [Next]_vars => [Commit!Next]_(Commit!vars)
  BY StepShape, StillCommits, OpenCommits, WriteCommits
<1> QED BY <1>1, <1>2, TypeCorrect, BooksBalance, PTL DEF Spec, CommitsOnce, Commit!Spec

----------------------------------------------------------------------------
(* The invariant *)

Started(t, c) == R("start", c) \in journal[t].rows \/ journal[t].frag = "merged"
\* A draft that claims no more than what happened.
Honest(t, art, marked) ==
  /\ art = "ended" => ran[t] \subseteq known[t]
  /\ ~marked => (ran[t] \ known[t]) \cap Effectful = {}

\* Handlers run only behind their start rows, and settle rows only follow
\* conclusive returns.
RowsTrue ==
  \A t \in Turn : /\ \A c \in ran[t] : Started(t, c)
                  /\ \A c \in Call : R("settle", c) \in Seen(journal[t]) => c \in known[t]
HeaderBlank ==
  pc = "opened" => Seen(journal[job.turn]) = {} /\ journal[job.turn].frag = "no"
\* How far a call has come agrees with the journal it writes to.
Before == {"queued", "late", "checked"}
StagesTrue ==
  \A c \in Call :
    /\ active = None => stage[c] \in Before
    /\ active # None /\ stage[c] \in Before => R("start", c) \notin Seen(journal[active])
    /\ active # None /\ stage[c] = "announced" => Started(active, c)
FilesHonest ==
  \A t \in Turn : /\ frozen[t] = NoDraft \/ Honest(t, frozen[t].art, frozen[t].ck.marked)
                  /\ artifact[t] = "ended" => ran[t] \subseteq known[t]
                  /\ IsPublished(t) => Honest(t, "indeterminate", published[t].marked)
JobHonest == pc \in Pipe => Honest(job.turn, job.draft.art, job.draft.ck.marked)
HonestDrafts == FilesHonest /\ JobHonest
Truth == RowsTrue /\ HeaderBlank /\ StagesTrue /\ HonestDrafts

----------------------------------------------------------------------------
(* What a write does to the rows of a journal *)

\* x is j with at most this row more; nothing confirmed is taken back.
Grows(j, x, row) ==
  /\ Seen(x) \subseteq Seen(j) \cup {row} /\ j.rows \subseteq x.rows
  /\ j.frag = "merged" => x.frag = "merged"

\* An append, whole or cut short, adds at most its row.
LEMMA AppendGrows ==
  ASSUME NEW j \in Journal, NEW row
  PROVE  /\ Grows(j, Appended(j, row), row)
         /\ row \notin Seen(j) => \/ row \in Appended(j, row).rows
                                  \/ Appended(j, row).frag = "merged"
BY DEF Grows, Appended, Seen, Journal

\* An append cut short adds at most its row.
LEMMA CutGrows ==
  ASSUME NEW j \in Journal, NEW row, j.frag # "merged", NEW x \in Cut(j, row)
  PROVE  Grows(j, x, row)
<1> DEFINE torn == [j EXCEPT !.loose = None, !.frag = "torn"]
           loose == [j EXCEPT !.loose = row]
<1>1. x \in {torn, Appended(j, row), j} \/ (x = loose /\ j.loose = None) BY DEF Cut
<1>2. Grows(j, torn, row) /\ Grows(j, j, row) BY DEF Grows, Seen, Journal
<1>3. j.loose = None => Grows(j, loose, row) BY DEF Grows, Seen, Journal
<1> QED BY <1>1, <1>2, <1>3, AppendGrows

\* A salvage and an unlink add nothing.
LEMMA SalvageGrows ==
  ASSUME NEW j \in Journal, NEW row
  PROVE  Grows(j, Salvaged(j), row) /\ Grows(j, Unlinked(j), row) /\ Grows(j, j, row)
BY DEF Grows, Salvaged, Unlinked, Seen, Journal

\* Rows of different kinds, or of different calls, differ.
LEMMA RowsDiffer ==
  ASSUME NEW k1, NEW k2, NEW a, NEW b, R(k1, a) = R(k2, b)
  PROVE  k1 = k2 /\ a = b
<1>1. R(k1, a).kind = k1 /\ R(k2, b).kind = k2 BY DEF R
<1>2. R(k1, a).of = a /\ R(k2, b).of = b BY DEF R
<1> QED BY <1>1, <1>2

\* Writing a row to one journal keeps the rows true, if the row is.
LEMMA WriteRowsTrue ==
  ASSUME TypeOK, RowsTrue, NEW t \in Turn, NEW j, NEW row, Grows(journal[t], j, row),
         journal' = [journal EXCEPT ![t] = j], ran' = ran,
         \A u \in Turn : known[u] \subseteq known'[u],
         \A c \in Call : row = R("settle", c) => c \in known'[t]
  PROVE  RowsTrue'
<1>1. journal'[t] = j /\ \A u \in Turn \ {t} : journal'[u] = journal[u] BY DEF TypeOK
<1>2. SUFFICES ASSUME NEW u \in Turn
               PROVE  /\ \A c \in ran[u] : (Started(u, c))'
                      /\ \A c \in Call : R("settle", c) \in Seen(journal'[u]) => c \in known'[u]
  BY DEF RowsTrue, Seen
<1>3. CASE u = t BY <1>1, <1>3 DEF RowsTrue, Started, Grows
<1>4. CASE u # t BY <1>1, <1>4 DEF RowsTrue, Started
<1> QED BY <1>3, <1>4

\* Rows stay true while no journal and no handler changes.
LEMMA RowsFrame ==
  ASSUME RowsTrue, UNCHANGED <<journal, ran>>, \A u \in Turn : known[u] \subseteq known'[u]
  PROVE  RowsTrue'
BY DEF RowsTrue, Started, Seen

\* Without an active turn no call is past its announcement.
LEMMA StagesDown ==
  ASSUME active' = None, \A c \in Call : stage'[c] \in Before
  PROVE  StagesTrue'
BY DEF StagesTrue, Before

\* A row that is no start row leaves the stages true.
LEMMA StagesKept ==
  ASSUME TypeOK, StagesTrue, UNCHANGED <<stage, active>>,
         active # None => \E row : /\ Grows(journal[active], journal'[active], row)
                                   /\ \A c \in Call : row # R("start", c)
  PROVE  StagesTrue'
<1> SUFFICES ASSUME NEW c \in Call
             PROVE  /\ active = None => stage[c] \in Before
                    /\ active # None /\ stage[c] \in Before => R("start", c) \notin Seen(journal'[active])
                    /\ active # None /\ stage[c] = "announced" => (Started(active, c))'
  BY DEF StagesTrue, Seen, Started
<1> QED BY DEF StagesTrue, Grows, Started

\* Claims about handlers stay honest while nothing is written and no handler is
\* entered.
LEMMA HonestFrame ==
  ASSUME HonestDrafts, UNCHANGED <<frozen, artifact, published, ran>>,
         \A t \in Turn : known[t] \subseteq known'[t], Control,
         pc' \in Pipe => pc \in Pipe /\ job'.turn = job.turn /\ job'.draft = job.draft
  PROVE  HonestDrafts'
BY DEF HonestDrafts, FilesHonest, JobHonest, Honest, IsPublished, Control

\* A draft drawn up from a journal that still decodes is honest.
LEMMA DraftHonest ==
  ASSUME TypeOK, RowsTrue, NEW t \in Turn, NEW j \in Journal, j.frag # "merged",
         j.rows = journal[t].rows, Seen(j) = Seen(journal[t]), journal[t].frag # "merged"
  PROVE  /\ Unresolved(j) = {} => ran[t] \subseteq known[t]
         /\ (ran[t] \ known[t]) \cap Effectful \subseteq Unresolved(j) \cap Effectful
<1> SUFFICES ASSUME NEW c \in ran[t], c \notin known[t] PROVE c \in Unresolved(j)
  OBVIOUS
<1>1. c \in Call BY DEF TypeOK
<1>2. R("start", c) \in Seen(j) BY DEF RowsTrue, Started, Seen
<1>3. R("settle", c) \notin Seen(j) BY <1>1 DEF RowsTrue
<1>4. c \in Of(j, "start")
  <2>1. R("start", c).kind = "start" /\ R("start", c).of = c BY DEF R
  <2> QED BY <1>2, <2>1 DEF Of
<1>5. c \notin Of(j, "settle")
  <2>1. Seen(j) \subseteq Row BY OfType
  <2>2. \A r \in Row : r.kind = "settle" => r = R("settle", r.of) BY DEF Row, R
  <2> QED BY <1>3, <2>1, <2>2 DEF Of
<1> QED BY <1>4, <1>5 DEF Unresolved

----------------------------------------------------------------------------
(* The running turn *)

\* The steps of the running turn.
Running ==
  \/ \E c \in Call : \/ RecordStart(c) \/ Enter(c) \/ AbandonStart(c) \/ LateCheck(c)
                     \/ LateStart(c) \/ \E kind \in {"settle", "vague"} : RecordOutcome(c, kind)
  \/ \E u \in Turn : Cite(u)
  \/ \E c \in Child : BindSink(c) \/ StoreChild(c)
  \/ RecordChild \/ RecordChildFails \/ AppendFails

\* They draw up no draft, open no journal, and only add to what is known.
LEMMA RunningHonest ==
  ASSUME TypeOK, Control, Books, Truth, Running
  PROVE  /\ HonestDrafts' /\ HeaderBlank'
         /\ \A t \in Turn : known[t] \subseteq known'[t]
<1>1. Quiet BY QuietActions DEF Running, Books, JobBooks
<1>2. \A t \in Turn : known[t] \subseteq known'[t]
  BY DEF Running, RecordStart, Enter, AbandonStart, LateCheck, LateStart, RecordOutcome, Cite,
         BindSink, StoreChild, RecordChild, RecordChildFails, AppendFails, CutRow, Concluded,
         history, TypeOK
<1>3. HeaderBlank'
  <2>1. pc = "opened" => active = None BY DEF Control
  <2> QED BY <1>1, <2>1, NoneIsNothing DEF Quiet, HeaderBlank, Truth, Seen
<1>4. HonestDrafts'
  <2>1. CASE ran' = ran BY <1>1, <1>2, <2>1, HonestFrame DEF Quiet, Truth
  <2>2. CASE \E c \in Call : Enter(c)
    <3>1. pc = "run" BY <2>2 DEF Enter
    <3>2. active \in Turn /\ Unsealed(active) /\ published[active] = NoCheckpoint
      <4>1. active \in Turn /\ Unsealed(active) BY <3>1 DEF Control, Books, JobBooks, JobsBegun
      <4> QED BY <4>1 DEF Books, FileBooks, PublishedTurns, Unsealed
    <3>3. ~IsPublished(active) BY <3>2, NoneIsNothing DEF IsPublished, NoCheckpoint
    <3>4. artifact[active] # "ended" BY <3>2, NoneIsNothing DEF Unsealed, Status
    <3>5. \A t \in Turn \ {active} : ran'[t] = ran[t] BY <1>1 DEF Quiet
    <3>6. pc' \notin Pipe BY <1>1, <3>1 DEF Quiet, Pipe
    <3> QED BY <1>1, <1>2, <3>2, <3>3, <3>4, <3>5, <3>6
            DEF HonestDrafts, FilesHonest, JobHonest, Truth, Honest, IsPublished, Quiet, Unsealed
  <2>3. ran' = ran \/ \E c \in Call : Enter(c)
    BY DEF Running, RecordStart, AbandonStart, LateCheck, LateStart, RecordOutcome, Cite,
           BindSink, StoreChild, RecordChild, RecordChildFails, AppendFails, history
  <2> QED BY <2>1, <2>2, <2>3
<1> QED BY <1>2, <1>3, <1>4

\* A row written by the running turn, whole or cut short, with the stage of its
\* call moved along.
LEMMA RunningWrites ==
  ASSUME TypeOK, RowsTrue, StagesTrue, active \in Turn, NEW j, NEW row,
         Grows(journal[active], j, row), SetJournal(active, j), ran' = ran, active' = active,
         \A t \in Turn : known[t] \subseteq known'[t],
         \A c \in Call : row = R("settle", c) => c \in known'[active],
         \A c \in Call : \/ stage'[c] \in {"running", "done"}
                         \/ /\ stage'[c] = stage[c] \/ {stage[c], stage'[c]} \subseteq Before
                            /\ row # R("start", c)
                         \/ /\ stage'[c] = "announced"
                            /\ R("start", c) \in j.rows \/ j.frag = "merged"
  PROVE  RowsTrue' /\ StagesTrue'
<1>1. RowsTrue' BY WriteRowsTrue DEF SetJournal
<1>2. journal'[active] = j BY DEF SetJournal, TypeOK
<1>3. StagesTrue'
  <2> SUFFICES ASSUME NEW c \in Call
               PROVE  /\ stage'[c] \in Before => R("start", c) \notin Seen(j)
                      /\ stage'[c] = "announced" => R("start", c) \in j.rows \/ j.frag = "merged"
    BY <1>2, NoneIsNothing DEF StagesTrue, Seen, Started
  <2>1. active # None BY NoneIsNothing
  <2> QED BY <2>1 DEF StagesTrue, Started, Grows, Before
<1> QED BY <1>1, <1>3

\* The steps of a running turn keep the truth.
LEMMA RunningTruth ==
  ASSUME TypeOK, Control, Books, Truth, Running
  PROVE  RowsTrue' /\ StagesTrue'
<1> USE DEF Truth
<1>1. \A t \in Turn : known[t] \subseteq known'[t] BY RunningHonest
<1>2. active # None => active \in Turn BY ActiveBegun DEF Books, JobBooks
<1>3. active \in Turn => journal[active] \in Journal BY DEF TypeOK
<1>4. pc = "run" => active \in Turn /\ active # None BY NoneIsNothing DEF Control
<1>5. ASSUME NEW c \in Call, RecordStart(c) PROVE RowsTrue' /\ StagesTrue'
  <2> DEFINE j == Appended(journal[active], R("start", c))
  <2>1. /\ SetJournal(active, j) /\ ran' = ran /\ active' = active /\ active \in Turn
        /\ stage[c] = "queued" /\ stage' = [stage EXCEPT ![c] = "announced"]
        /\ active # None
    BY <1>4, <1>5 DEF RecordStart, Alive, Write, Advance, history
  <2>2. R("start", c) \notin Seen(journal[active]) BY <2>1 DEF StagesTrue, Before
  <2>3. Grows(journal[active], j, R("start", c)) /\ (R("start", c) \in j.rows \/ j.frag = "merged")
    BY <1>3, <2>1, <2>2, AppendGrows
  <2>4. \A d \in Call : /\ R("start", c) # R("settle", d)
                        /\ d # c => R("start", c) # R("start", d)
    BY RowsDiffer
  <2>5. stage'[c] = "announced" /\ \A d \in Call \ {c} : stage'[d] = stage[d]
    BY <2>1 DEF TypeOK
  <2> QED BY <1>1, <2>1, <2>3, <2>4, <2>5, RunningWrites
<1>6. ASSUME NEW c \in Call, Enter(c) PROVE RowsTrue' /\ StagesTrue'
  <2>1. /\ UNCHANGED <<journal, active, known>> /\ active \in Turn /\ active # None
        /\ stage[c] = "announced" /\ stage' = [stage EXCEPT ![c] = "running"]
        /\ ran' = [ran EXCEPT ![active] = @ \cup {c}]
    BY <1>4, <1>6 DEF Enter, Advance, durable
  <2>2. Started(active, c) BY <2>1 DEF StagesTrue
  <2>3. \A t \in Turn : ran'[t] \subseteq ran[t] \cup (IF t = active THEN {c} ELSE {})
    BY <2>1 DEF TypeOK
  <2>4. RowsTrue' BY <2>1, <2>2, <2>3 DEF RowsTrue, Started, Seen
  <2>5. stage'[c] = "running" /\ \A d \in Call \ {c} : stage'[d] = stage[d]
    BY <2>1 DEF TypeOK
  <2>6. StagesTrue' BY <2>1, <2>5 DEF StagesTrue, Started, Seen, Before
  <2> QED BY <2>4, <2>6
<1>7. ASSUME NEW c \in Call, AbandonStart(c) PROVE RowsTrue' /\ StagesTrue'
  <2> DEFINE j == Appended(journal[active], R("vague", c))
  <2>1. /\ SetJournal(active, j) /\ ran' = ran /\ active' = active /\ active \in Turn
        /\ stage[c] = "queued" /\ stage' = [stage EXCEPT ![c] = "late"]
    BY <1>4, <1>7 DEF AbandonStart, Alive, Write, Advance, history
  <2>2. Grows(journal[active], j, R("vague", c)) BY <1>3, <2>1, AppendGrows
  <2>3. \A d \in Call : R("vague", c) # R("settle", d) /\ R("vague", c) # R("start", d)
    BY RowsDiffer
  <2>4. stage'[c] = "late" /\ \A d \in Call \ {c} : stage'[d] = stage[d] BY <2>1 DEF TypeOK
  <2> QED BY <1>1, <2>1, <2>2, <2>3, <2>4, RunningWrites DEF Before
<1>8. ASSUME NEW c \in Call, LateCheck(c) PROVE RowsTrue' /\ StagesTrue'
  <2>1. /\ UNCHANGED <<journal, ran, active>>
        /\ stage[c] = "late"
        /\ \E s \in {"checked", "queued"} : stage' = [stage EXCEPT ![c] = s]
    BY <1>8 DEF LateCheck, Advance, durable, history
  <2>2. RowsTrue' BY <1>1, <2>1, RowsFrame
  <2>3. stage'[c] \in {"checked", "queued"} /\ \A d \in Call \ {c} : stage'[d] = stage[d]
    BY <2>1 DEF TypeOK
  <2>4. StagesTrue' BY <2>1, <2>3 DEF StagesTrue, Started, Seen, Before
  <2> QED BY <2>2, <2>4
<1>9. ASSUME NEW c \in Call, LateStart(c) PROVE RowsTrue' /\ StagesTrue'
  <2>1. /\ ran' = ran /\ active' = active /\ stage[c] = "checked"
        /\ stage' = [stage EXCEPT ![c] = IF active = None THEN "queued" ELSE "done"]
        /\ \/ active # None /\ SetJournal(active, Appended(journal[active], R("start", c)))
           \/ journal' = journal
    BY <1>9 DEF LateStart, Advance, Write, history
  <2>2. /\ stage'[c] = IF active = None THEN "queued" ELSE "done"
        /\ \A d \in Call \ {c} : stage'[d] = stage[d]
    BY <2>1 DEF TypeOK
  <2>3. CASE journal' = journal
    <3>1. RowsTrue' BY <1>1, <2>1, <2>3, RowsFrame
    <3>2. StagesTrue' BY <2>1, <2>2, <2>3 DEF StagesTrue, Started, Seen, Before
    <3> QED BY <3>1, <3>2
  <2>4. CASE active # None /\ SetJournal(active, Appended(journal[active], R("start", c)))
    <3>1. active \in Turn BY <1>2, <2>4
    <3>2. Grows(journal[active], Appended(journal[active], R("start", c)), R("start", c))
      BY <1>3, <3>1, AppendGrows
    <3>3. \A d \in Call : /\ R("start", c) # R("settle", d)
                          /\ d # c => R("start", c) # R("start", d)
      BY RowsDiffer
    <3> QED BY <1>1, <2>1, <2>2, <2>4, <3>1, <3>2, <3>3, RunningWrites
  <2> QED BY <2>1, <2>3, <2>4
<1>10. ASSUME NEW c \in Call, NEW kind \in {"settle", "vague"}, RecordOutcome(c, kind)
       PROVE  RowsTrue' /\ StagesTrue'
  <2> DEFINE j == Appended(journal[active], R(kind, c))
  <2>1. /\ SetJournal(active, j) /\ ran' = ran /\ active' = active /\ active \in Turn
        /\ stage[c] = "running" /\ stage' = [stage EXCEPT ![c] = "done"]
        /\ Concluded(R(kind, c))
    BY <1>4, <1>10 DEF RecordOutcome, Alive, Write, Advance
  <2>2. Grows(journal[active], j, R(kind, c)) BY <1>3, <2>1, AppendGrows
  <2>3. \A d \in Call : /\ R(kind, c) # R("start", d)
                        /\ R(kind, c) = R("settle", d) => kind = "settle" /\ d = c
    BY RowsDiffer
  <2>4. R(kind, c).kind = kind /\ R(kind, c).of = c BY DEF R
  <2>5. kind = "settle" => c \in known'[active] BY <2>1, <2>4 DEF Concluded, TypeOK
  <2>6. stage'[c] = "done" /\ \A d \in Call \ {c} : stage'[d] = stage[d] BY <2>1 DEF TypeOK
  <2> QED BY <1>1, <2>1, <2>2, <2>3, <2>5, <2>6, RunningWrites
<1>11. ASSUME (\E u \in Turn : Cite(u)) \/ RecordChild PROVE RowsTrue' /\ StagesTrue'
  <2>1. PICK r : /\ SetJournal(active, Appended(journal[active], R("ref", r)))
                 /\ ran' = ran /\ active' = active /\ active \in Turn /\ stage' = stage
    BY <1>4, <1>11 DEF Cite, RecordChild, Alive, Write, volatile, history
  <2>2. Grows(journal[active], Appended(journal[active], R("ref", r)), R("ref", r))
    BY <1>3, <2>1, AppendGrows
  <2>3. \A d \in Call : R("ref", r) # R("settle", d) /\ R("ref", r) # R("start", d)
    BY RowsDiffer
  <2> QED BY <1>1, <2>1, <2>2, <2>3, RunningWrites
<1>12. ASSUME (\E c \in Child : BindSink(c) \/ StoreChild(c)) \/ RecordChildFails
       PROVE  RowsTrue' /\ StagesTrue'
  <2>1. UNCHANGED <<journal, ran, active, stage>>
    BY <1>12 DEF BindSink, StoreChild, RecordChildFails, durable, history
  <2> QED BY <1>1, <2>1, RowsFrame DEF StagesTrue, Started, Seen
<1>13. ASSUME AppendFails PROVE RowsTrue' /\ StagesTrue'
  <2>1. PICK row \in InFlight :
          /\ CutRow(row)
          /\ IF row.kind = "ref" THEN stage' = stage
             ELSE stage' = [stage EXCEPT ![row.of] = "done"]
    BY <1>13 DEF AppendFails
  <2>2. ran' = ran /\ active' = active BY <1>13 DEF AppendFails
  <2>3. active \in Turn /\ journal[active].frag # "merged"
    BY <1>2, <2>1 DEF CutRow, Readable
  <2>4. PICK j \in Cut(journal[active], row) : SetJournal(active, j) BY <2>1 DEF CutRow
  <2>5. Grows(journal[active], j, row) BY <1>3, <2>3, <2>4, CutGrows
  <2>6. \A c \in Call : row = R("settle", c) => c \in known'[active]
    BY <2>1, <2>3 DEF CutRow, Concluded, R, TypeOK
  <2>7. ASSUME NEW c \in Call PROVE \/ stage'[c] = "done"
                                    \/ stage'[c] = stage[c] /\ row # R("start", c)
    BY <2>1 DEF TypeOK, R
  <2> QED BY <1>1, <2>2, <2>3, <2>4, <2>5, <2>6, <2>7, RunningWrites
<1> QED BY <1>5, <1>6, <1>7, <1>8, <1>9, <1>10, <1>11, <1>12, <1>13 DEF Running

----------------------------------------------------------------------------
(* The pipeline *)

\* The pipeline writes rows of its own into the journal in hand, and only what
\* its draft says.
LEMMA TornWriteTruth ==
  ASSUME TypeOK, Control, Books, Truth, TornWrite, UNCHANGED <<ran, known>>
  PROVE  /\ RowsTrue' /\ FilesHonest' /\ job.turn \in Turn
         /\ \E row : /\ Grows(journal[job.turn], journal'[job.turn], row)
                     /\ \A c \in Call : row # R("start", c)
<1> DEFINE t == job.turn
<1> USE DEF Truth
<1>1. t \in Turn /\ pc \in Pipe /\ TouchesOnly(t) BY TornWriteTouches
<1>2. Target \in Journal /\ Target = journal[t] BY <1>1 DEF Target, TypeOK
<1>3. Honest(t, job.draft.art, job.draft.ck.marked) BY <1>1 DEF HonestDrafts, JobHonest
<1>4. PICK row, j : /\ Grows(Target, j, row) /\ journal' = [journal EXCEPT ![t] = j]
                    /\ \A c \in Call : row # R("start", c) /\ row # R("settle", c)
  <2>1. CASE journal' = journal
    <3>1. journal' = [journal EXCEPT ![t] = Target] BY <1>1, <1>2, <2>1 DEF TypeOK
    <3>2. Grows(Target, Target, Mark("intent")) BY <1>2, SalvageGrows
    <3>3. \A c \in Call : Mark("intent") # R("start", c) /\ Mark("intent") # R("settle", c)
      BY RowsDiffer DEF Mark
    <3> QED BY <3>1, <3>2, <3>3
  <2>2. CASE \E j \in {Target, Unlinked(Target)} : SetJournal(t, j)
    <3>1. PICK j \in {Target, Unlinked(Target)} : SetJournal(t, j) BY <2>2
    <3>2. Grows(Target, j, Mark("intent")) BY <1>2, <3>1, SalvageGrows
    <3>3. \A c \in Call : Mark("intent") # R("start", c) /\ Mark("intent") # R("settle", c)
      BY RowsDiffer DEF Mark
    <3> QED BY <3>1, <3>2, <3>3 DEF SetJournal
  <2>3. CASE /\ pc \in DOMAIN PipelineRow /\ Readable(Target)
             /\ \E j \in Cut(Target, Mark(PipelineRow[pc])) : SetJournal(t, j)
    <3>1. PICK j \in Cut(Target, Mark(PipelineRow[pc])) : SetJournal(t, j) BY <2>3
    <3>2. Grows(Target, j, Mark(PipelineRow[pc])) BY <1>2, <2>3, <3>1, CutGrows DEF Readable
    <3>3. PipelineRow[pc] # "start" /\ PipelineRow[pc] # "settle" BY <2>3 DEF PipelineRow
    <3>4. \A c \in Call : /\ Mark(PipelineRow[pc]) # R("start", c)
                          /\ Mark(PipelineRow[pc]) # R("settle", c)
      BY <3>3, RowsDiffer DEF Mark
    <3> QED BY <3>1, <3>2, <3>4 DEF SetJournal
  <2> QED BY <2>1, <2>2, <2>3 DEF TornWrite
<1>5. RowsTrue' BY <1>1, <1>2, <1>4, WriteRowsTrue
<1>6. journal'[t] = j BY <1>1, <1>4 DEF TypeOK
<1>7. FilesHonest'
  <2>1. /\ frozen'[t] \in {frozen[t], job.draft} /\ artifact'[t] \in {artifact[t], job.draft.art}
        /\ published'[t] \in {published[t], job.draft.ck}
    BY <1>1 DEF TornWrite, TypeOK
  <2>2. ASSUME NEW u \in Turn
        PROVE  /\ frozen'[u] = NoDraft \/ Honest(u, frozen'[u].art, frozen'[u].ck.marked)
               /\ artifact'[u] = "ended" => ran[u] \subseteq known[u]
               /\ published'[u].by = u => Honest(u, "indeterminate", published'[u].marked)
    BY <1>1, <1>3, <2>1 DEF HonestDrafts, FilesHonest, Honest, TouchesOnly, IsPublished
  <2> QED BY <2>2 DEF FilesHonest, Honest, IsPublished
<1> QED BY <1>1, <1>2, <1>4, <1>5, <1>6, <1>7

\* The pipeline goes on with the same draft, or the process lets go of it.
Carries ==
  \/ /\ pc' \in Pipe /\ UNCHANGED <<stage, active>>
     /\ job'.turn = job.turn /\ job'.draft = job.draft
  \/ /\ pc' \notin Pipe \cup {"opened"} /\ active' = None
     /\ \A c \in Call : stage'[c] \in Before

\* The truth survives a step that only drops or keeps the volatile state.
LEMMA CarriedTruth ==
  ASSUME TypeOK, Control, Books, Truth, pc \in Pipe, Carries, RowsTrue', FilesHonest',
         UNCHANGED <<ran, known>>,
         \E row : /\ Grows(journal[job.turn], journal'[job.turn], row)
                  /\ \A c \in Call : row # R("start", c)
  PROVE  Truth'
<1> USE DEF Truth
<1>1. HeaderBlank' BY DEF Carries, HeaderBlank, Pipe
<1>2. JobHonest' BY DEF Carries, JobHonest, HonestDrafts, Honest
<1>3. active # None => active = job.turn BY DEF Control
<1>4. StagesTrue' BY <1>3, StagesDown, StagesKept DEF Carries
<1> QED BY <1>1, <1>2, <1>4 DEF HonestDrafts

\* Whatever ends the process lets go of its draft.
LEMMA PowerOffCarries ==
  ASSUME PowerOff
  PROVE  Carries
BY DEF PowerOff, Carries, Before, Pipe

\* An exception in the pipeline is such a step.
LEMMA RaiseCarries ==
  ASSUME TypeOK, Control, Truth, pc \in Pipe, NEW j, Raise(j)
  PROVE  Carries
<1>1. CASE active = None /\ Conflict(job.turn)
  BY <1>1 DEF Conflict, Carries, Truth, StagesTrue, Pipe
<1>2. CASE job' = [job EXCEPT !.mode = "replay"] /\ GoTo("artifact")
  BY <1>2 DEF GoTo, Carries, Pipe, TypeOK, Job
<1> QED BY <1>1, <1>2, PowerOffCarries DEF Raise

\* The pipeline writes keep the truth.
LEMMA PipelineTruth ==
  ASSUME TypeOK, Control, Books, Truth, Pipeline \/ PipelineFails
  PROVE  Truth'
<1>1. UNCHANGED <<ran, known>>
  BY DEF Pipeline, Prepare, PutArtifact, NoteArtifact, Swap, NoteCheckpoint, NoteSealed, Cleanup,
         Refuse, PipelineFails, Step, history
<1>2. ASSUME TornWrite, Carries PROVE Truth'
  <2>1. pc \in Pipe BY <1>2, TornWriteTypes
  <2> QED BY <1>1, <1>2, <2>1, TornWriteTruth, CarriedTruth
<1>3. ASSUME Prepare \/ PutArtifact \/ NoteArtifact \/ Swap \/ NoteCheckpoint \/ NoteSealed
      PROVE  Truth'
  <2>1. Carries
    BY <1>3 DEF Prepare, PutArtifact, NoteArtifact, Swap, NoteCheckpoint, NoteSealed, Step, GoTo,
                Carries, Pipe
  <2> QED BY <1>2, <1>3, <2>1, PipelineWrites
<1>4. CASE Cleanup
  <2>1. \A c \in Call : stage'[c] \in Before BY <1>4 DEF Cleanup, Pending, Before
  <2>2. Carries BY <1>4, <2>1 DEF Cleanup, Carries, Pipe
  <2> QED BY <1>2, <1>4, <2>2, PipelineWrites
<1>5. CASE Refuse
  <2>1. pc \in Pipe BY <1>5 DEF Refuse, Pipe
  <2>2. Carries BY <1>5, <2>1, RaiseCarries DEF Refuse
  <2>3. UNCHANGED <<journal, frozen, artifact, published>> BY <1>5 DEF Refuse, durable, history
  <2>4. RowsTrue' BY <1>1, <2>3, RowsFrame DEF Truth
  <2>5. FilesHonest' BY <1>1, <2>3 DEF Truth, HonestDrafts, FilesHonest, Honest, IsPublished
  <2>6. job.turn \in Turn BY <2>1 DEF Control
  <2>7. Grows(journal[job.turn], journal'[job.turn], Mark("intent"))
    BY <2>3, <2>6, SalvageGrows DEF TypeOK
  <2>8. \A c \in Call : Mark("intent") # R("start", c) BY RowsDiffer DEF Mark
  <2> QED BY <1>1, <2>1, <2>2, <2>4, <2>5, <2>7, <2>8, CarriedTruth
<1>6. CASE PipelineFails
  <2>1. pc \in Pipe BY <1>6, TornWriteTypes DEF PipelineFails
  <2> QED BY <1>2, <1>6, <2>1, RaiseCarries DEF PipelineFails
<1> QED BY <1>3, <1>4, <1>5, <1>6 DEF Pipeline

----------------------------------------------------------------------------
(* Opening, sealing, crashing and recovering *)

\* A step that changes one journal while no turn is active, with a row that is
\* no settle row.
LEMMA IdleTruth ==
  ASSUME TypeOK, Control, Truth, active = None, active' = None, stage' = stage,
         UNCHANGED <<frozen, artifact, published, ran, known>>, pc' # "opened",
         \/ journal' = journal
         \/ \E t \in Turn : \E j, row : /\ Grows(journal[t], j, row)
                                        /\ journal' = [journal EXCEPT ![t] = j]
                                        /\ \A c \in Call : row # R("settle", c)
  PROVE  RowsTrue' /\ StagesTrue' /\ HeaderBlank' /\ FilesHonest'
<1> USE DEF Truth
<1>1. RowsTrue' BY WriteRowsTrue, RowsFrame
<1>2. StagesTrue' BY StagesDown DEF StagesTrue
<1>3. HeaderBlank' BY DEF HeaderBlank
<1>4. FilesHonest' BY DEF HonestDrafts, FilesHonest, Honest, IsPublished
<1> QED BY <1>1, <1>2, <1>3, <1>4

\* Opening a turn keeps the truth.
LEMMA OpeningTruth ==
  ASSUME TypeOK, Control, Books, Truth,
         (\E t \in Turn : Reserve(t)) \/ OpenJournal \/ Activate \/ BeginFails
  PROVE  Truth'
<1> DEFINE t == job.turn
<1> USE DEF Truth
<1>1. /\ active = None /\ stage' = stage
      /\ UNCHANGED <<frozen, artifact, published, ran, known>> /\ pc' \notin Pipe
  BY DEF Reserve, OpenJournal, Activate, BeginFails, GoTo, Control, history, Pipe
<1>2. HonestDrafts'
  BY <1>1 DEF HonestDrafts, FilesHonest, JobHonest, Honest, IsPublished
<1>3. \A c \in Call : stage'[c] \in Before BY <1>1 DEF StagesTrue
<1>4. CASE \E u \in Turn : Reserve(u)
  <2>1. journal' = journal /\ pc' = "reserved" /\ active' = None
    BY <1>1, <1>4 DEF Reserve, GoTo
  <2> QED BY <1>1, <1>2, <2>1, IdleTruth
<1>5. CASE OpenJournal
  <2> DEFINE j == [NoJournal EXCEPT !.here = TRUE, !.order = order, !.base = Head(t).gen]
  <2>1. /\ t \in Turn /\ t \notin begun /\ journal' = [journal EXCEPT ![t] = j]
        /\ job' = job /\ active' = None
    BY <1>1, <1>5 DEF OpenJournal, SetJournal, GoTo, Control, Books, JobBooks, JobsBegun
  <2>2. Seen(j) = {} /\ j.frag = "no" BY DEF Seen, NoJournal
  <2>3. ran[t] = {} BY <2>1 DEF Books, FileBooks, FreshTurns
  <2>4. journal'[t] = j /\ \A u \in Turn \ {t} : journal'[u] = journal[u] BY <2>1 DEF TypeOK
  <2>5. RowsTrue'
    <3> SUFFICES ASSUME NEW u \in Turn
                 PROVE  /\ \A c \in ran[u] : (Started(u, c))'
                        /\ \A c \in Call : R("settle", c) \in Seen(journal'[u]) => c \in known[u]
      BY <1>1 DEF RowsTrue, Seen
    <3> QED BY <2>2, <2>3, <2>4 DEF RowsTrue, Started
  <2>6. HeaderBlank' BY <2>1, <2>2, <2>4 DEF HeaderBlank, Seen
  <2> QED BY <1>2, <1>3, <2>1, <2>5, <2>6, StagesDown
<1>6. CASE Activate
  <2> DEFINE j == Appended(journal[t], Mark("segment"))
  <2>1. /\ t \in Turn /\ journal' = [journal EXCEPT ![t] = j] /\ active' = t /\ pc' = "run"
        /\ Seen(journal[t]) = {}
    BY <1>6 DEF Activate, SetJournal, Control, HeaderBlank
  <2>2. Grows(journal[t], j, Mark("segment")) BY <2>1, AppendGrows DEF TypeOK
  <2>3. \A c \in Call : Mark("segment") # R("start", c) /\ Mark("segment") # R("settle", c)
    BY RowsDiffer DEF Mark
  <2>4. RowsTrue' BY <1>1, <2>1, <2>2, <2>3, WriteRowsTrue
  <2>5. journal'[active'] = j BY <2>1 DEF TypeOK
  <2>6. \A c \in Call : R("start", c) \notin Seen(j) BY <2>1, <2>2, <2>3 DEF Grows
  <2>7. StagesTrue' BY <1>3, <2>1, <2>5, <2>6, NoneIsNothing DEF StagesTrue, Started, Seen, Before
  <2>8. HeaderBlank' BY <2>1 DEF HeaderBlank
  <2> QED BY <1>2, <2>4, <2>7, <2>8
<1>7. CASE BeginFails
  <2>1. t \in Turn /\ active' = None /\ pc' = "idle" BY <1>1, <1>7 DEF BeginFails, GoTo, Control
  <2>2. PICK j : /\ journal' = [journal EXCEPT ![t] = j]
                 /\ j \in Cut(journal[t], Mark("segment"))
    <3>1. journal[t] \in Cut(journal[t], Mark("segment")) BY DEF Cut
    <3> QED BY <1>7, <3>1 DEF BeginFails, SetJournal
  <2>3. \A c \in Call : Mark("segment") # R("settle", c) BY RowsDiffer DEF Mark
  <2>4. t \in Turn /\ (pc = "opened" => journal[t].frag # "merged") BY <2>1 DEF HeaderBlank
  <2>5. CASE pc = "opened"
    <3>1. Grows(journal[t], j, Mark("segment")) BY <2>2, <2>4, <2>5, CutGrows DEF TypeOK
    <3> QED BY <1>1, <1>2, <2>1, <2>2, <2>3, <3>1, IdleTruth
  <2>6. CASE pc # "opened"
    <3>1. journal' = journal BY <1>7, <2>1, <2>6 DEF BeginFails, SetJournal, TypeOK
    <3> QED BY <1>1, <1>2, <2>1, <3>1, IdleTruth
  <2> QED BY <2>5, <2>6
<1> QED BY <1>4, <1>5, <1>6, <1>7

\* The snapshot of a seal is a true draft.
LEMMA SealTruth ==
  ASSUME TypeOK, Control, Books, Truth, BeginSeal \/ SealImpossible
  PROVE  Truth'
<1> USE DEF Truth
<1>1. UNCHANGED <<journal, frozen, artifact, published, ran, known>>
  BY DEF BeginSeal, SealImpossible, durable, history
<1>2. RowsTrue' BY <1>1, RowsFrame
<1>3. FilesHonest' BY <1>1 DEF HonestDrafts, FilesHonest, Honest, IsPublished
<1>4. CASE BeginSeal
  <2>1. /\ active \in Turn /\ journal[active] \in Journal /\ journal[active].frag # "merged"
        /\ UNCHANGED <<stage, active>> /\ pc' = "prepare"
        /\ job' = [turn |-> active, mode |-> "seal", draft |-> SealDraft(journal[active], active)]
    BY <1>4 DEF BeginSeal, Alive, Readable, GoTo, Control, TypeOK
  <2>2. JobHonest'
    <3>1. /\ job'.turn = active
          /\ job'.draft.art = "ended" => Unresolved(journal[active]) = {}
          /\ job'.draft.ck.marked <=> Unresolved(journal[active]) \cap Effectful # {}
      BY <2>1 DEF SealDraft
    <3>2. /\ Unresolved(journal[active]) = {} => ran[active] \subseteq known[active]
          /\ (ran[active] \ known[active]) \cap Effectful
               \subseteq Unresolved(journal[active]) \cap Effectful
      BY <2>1, DraftHonest
    <3>3. /\ job'.draft.art = "ended" => ran[active] \subseteq known[active]
          /\ ~job'.draft.ck.marked => (ran[active] \ known[active]) \cap Effectful = {}
      BY <3>1, <3>2
    <3> QED BY <1>1, <3>1, <3>3 DEF JobHonest, Honest
  <2>3. StagesTrue' BY <1>1, <2>1 DEF StagesTrue, Started, Seen
  <2>4. HeaderBlank' BY <2>1 DEF HeaderBlank
  <2> QED BY <1>2, <1>3, <2>2, <2>3, <2>4 DEF HonestDrafts
<1>5. CASE SealImpossible
  <2>1. pc' = "down" /\ active' = None /\ \A c \in Call : stage'[c] = "queued"
    BY <1>5 DEF SealImpossible, PowerOff
  <2>2. StagesTrue' BY <2>1, StagesDown DEF Before
  <2> QED BY <1>2, <1>3, <2>1, <2>2 DEF HeaderBlank, HonestDrafts, JobHonest, Pipe
<1> QED BY <1>4, <1>5

\* A crash keeps the truth.
LEMMA CrashTruth ==
  ASSUME TypeOK, Control, Books, Truth, Crash
  PROVE  Truth'
<1> USE DEF Truth
<1>1. ran' = ran /\ pc' = "down" /\ active' = None /\ \A c \in Call : stage'[c] = "queued"
  BY DEF Crash, PowerOff
<1>2. StagesTrue' BY <1>1, StagesDown DEF Before
<1>3. HeaderBlank' /\ JobHonest' BY <1>1 DEF HeaderBlank, JobHonest, Pipe
<1>4. SUFFICES RowsTrue' /\ FilesHonest' BY <1>2, <1>3 DEF HonestDrafts
<1>5. ASSUME UNCHANGED <<frozen, artifact, published>>, \A t \in Turn : known[t] \subseteq known'[t]
      PROVE  FilesHonest'
  BY <1>1, <1>5 DEF HonestDrafts, FilesHonest, Honest, IsPublished
<1>6. CASE UNCHANGED <<journal, frozen, artifact, checkpoint, known, published>>
  BY <1>1, <1>5, <1>6, RowsFrame
<1>7. CASE TornWrite /\ UNCHANGED known BY <1>1, <1>7, TornWriteTruth
<1>8. CASE /\ \E row \in InFlight : CutRow(row)
           /\ UNCHANGED <<frozen, artifact, checkpoint, published>>
  <2>1. PICK row \in InFlight : CutRow(row) BY <1>8
  <2>2. active \in Turn /\ journal[active] \in Journal /\ journal[active].frag # "merged"
    BY <2>1, ActiveBegun DEF CutRow, Readable, Books, JobBooks, TypeOK
  <2>3. PICK j \in Cut(journal[active], row) : SetJournal(active, j) BY <2>1 DEF CutRow
  <2>4. Grows(journal[active], j, row) BY <2>2, <2>3, CutGrows
  <2>5. \A t \in Turn : known[t] \subseteq known'[t] BY <2>1, <2>2 DEF CutRow, Concluded, TypeOK
  <2>6. \A c \in Call : row = R("settle", c) => c \in known'[active]
    BY <2>1, <2>2 DEF CutRow, Concluded, R, TypeOK
  <2>7. RowsTrue' BY <1>1, <2>2, <2>3, <2>4, <2>5, <2>6, WriteRowsTrue DEF SetJournal
  <2> QED BY <1>5, <1>8, <2>5, <2>7
<1>9. CASE /\ pc = "opened"
           /\ \E j \in Cut(Target, Mark("segment")) : SetJournal(job.turn, j)
           /\ UNCHANGED <<frozen, artifact, checkpoint, known, published>>
  <2>1. job.turn \in Turn /\ Target \in Journal /\ Target.frag # "merged"
    BY <1>9 DEF Control, Target, HeaderBlank, TypeOK
  <2>2. PICK j \in Cut(Target, Mark("segment")) : SetJournal(job.turn, j) BY <1>9
  <2>3. Grows(journal[job.turn], j, Mark("segment")) BY <2>1, <2>2, CutGrows DEF Target
  <2>4. \A c \in Call : Mark("segment") # R("settle", c) BY RowsDiffer DEF Mark
  <2>6. /\ journal' = [journal EXCEPT ![job.turn] = j]
        /\ \A u \in Turn : known[u] \subseteq known'[u]
    BY <1>9, <2>2 DEF SetJournal
  <2>7. \A c \in Call : Mark("segment") = R("settle", c) => c \in known'[job.turn] BY <2>4
  <2>5. RowsTrue'
    <3> HIDE DEF Truth
    <3>1. RowsTrue BY DEF Truth
    <3> QED BY <1>1, <2>1, <2>3, <2>6, <2>7, <3>1, WriteRowsTrue
  <2> QED BY <1>5, <1>9, <2>5
<1> QED BY <1>6, <1>7, <1>8, <1>9 DEF Crash

\* The draft a start rebuilds from a journal is a true one.
LEMMA RecoveryTruth ==
  ASSUME TypeOK, Control, Books, Truth, Recovery
  PROVE  Truth'
<1> USE DEF Truth
<1>1. /\ active = None /\ active' = None /\ stage' = stage /\ pc' # "opened"
      /\ UNCHANGED <<frozen, artifact, published, ran, known>>
  BY DEF Recovery, Restart, Load, StartupDone, GoTo, Conflict, Control, durable, history
<1>2. CASE Restart \/ StartupDone
  <2>1. journal' = journal /\ pc' \notin Pipe
    BY <1>2 DEF Restart, StartupDone, durable, Pipe
  <2>2. JobHonest' BY <2>1 DEF JobHonest
  <2> QED BY <1>1, <2>1, <2>2, IdleTruth DEF HonestDrafts
<1>3. ASSUME NEW t \in Turn, Load(t) PROVE Truth'
  <2> DEFINE j == Salvaged(journal[t])
  <2>1. journal' = [journal EXCEPT ![t] = j] /\ journal[t] \in Journal
    BY <1>3 DEF Load, SetJournal, TypeOK
  <2>2. Grows(journal[t], j, Mark("intent")) BY <2>1, SalvageGrows
  <2>3. \A c \in Call : Mark("intent") # R("settle", c) BY RowsDiffer DEF Mark
  <2>4. RowsTrue' /\ StagesTrue' /\ HeaderBlank' /\ FilesHonest'
    BY <1>1, <2>1, <2>2, <2>3, IdleTruth
  <2>5. CASE Valid(j, t, frozen[t]) /\ job' = [turn |-> t, mode |-> "replay", draft |-> frozen[t]]
    <3>1. frozen[t] # NoDraft
      <4>1. t \in frozen[t].ck.refs BY <2>5 DEF Valid
      <4> QED BY <4>1 DEF NoDraft, NoCheckpoint
    <3>2. Honest(t, frozen[t].art, frozen[t].ck.marked) BY <3>1 DEF HonestDrafts, FilesHonest
    <3>3. job'.turn = t /\ job'.draft = frozen[t] BY <2>5
    <3>4. JobHonest' BY <1>1, <3>2, <3>3 DEF JobHonest, Honest
    <3> QED BY <2>4, <3>4 DEF HonestDrafts
  <2>6. CASE /\ Readable(j)
             /\ job' = [turn |-> t, mode |-> "unprepared", draft |-> ReplayDraft(j, t)]
    <3>1. /\ j \in Journal /\ j.frag # "merged" /\ journal[t].frag # "merged"
          /\ j.rows = journal[t].rows /\ Seen(j) = Seen(journal[t])
      BY <2>1, <2>6 DEF Readable, Salvaged, Seen, Journal
    <3>2. (ran[t] \ known[t]) \cap Effectful \subseteq Unresolved(j) \cap Effectful
      BY <3>1, DraftHonest
    <3>3. /\ job'.turn = t
          /\ job'.draft.art = "ended" => artifact[t] = "ended"
          /\ job'.draft.ck.marked <=> Unresolved(j) \cap Effectful # {}
      BY <2>6 DEF ReplayDraft
    <3>4. /\ job'.draft.art = "ended" => ran[t] \subseteq known[t]
          /\ ~job'.draft.ck.marked => (ran[t] \ known[t]) \cap Effectful = {}
      BY <3>2, <3>3 DEF HonestDrafts, FilesHonest
    <3>5. JobHonest' BY <1>1, <3>3, <3>4 DEF JobHonest, Honest
    <3> QED BY <2>4, <3>5 DEF HonestDrafts
  <2>7. CASE Conflict(t)
    <3>1. JobHonest' BY <2>7 DEF Conflict, JobHonest, Pipe
    <3> QED BY <2>4, <3>1 DEF HonestDrafts
  <2> QED BY <1>3, <2>5, <2>6, <2>7 DEF Load
<1> QED BY <1>2, <1>3 DEF Recovery

----------------------------------------------------------------------------
(* The invariant and what follows from it *)

\* An empty store claims nothing.
LEMMA InitTruth == Init => Truth
<1> SUFFICES ASSUME Init PROVE Truth OBVIOUS
<1>1. RowsTrue BY NoneIsNothing DEF Init, RowsTrue, NoJournal, Seen
<1>2. HeaderBlank /\ StagesTrue BY DEF Init, HeaderBlank, StagesTrue, Before
<1>3. FilesHonest
  BY NoneIsNothing DEF Init, FilesHonest, IsPublished, NoCheckpoint, Status
<1>4. JobHonest BY DEF Init, JobHonest, Pipe
<1> QED BY <1>1, <1>2, <1>3, <1>4 DEF Truth, HonestDrafts

\* Every step keeps the truth.
LEMMA NextTruth ==
  ASSUME TypeOK, Control, Books, Truth, [Next]_vars
  PROVE  Truth'
<1>1. Running => Truth' BY RunningHonest, RunningTruth DEF Truth
<1>2. CASE UNCHANGED vars
  BY <1>2 DEF vars, durable, volatile, history, Truth, RowsTrue, HeaderBlank, StagesTrue,
              HonestDrafts, FilesHonest, JobHonest, Honest, Started, Seen, IsPublished
<1> QED BY <1>1, <1>2, OpeningTruth, SealTruth, PipelineTruth, CrashTruth, RecoveryTruth
        DEF Next, Opening, EndTurn, Running

\* Journals, drafts and checkpoints never claim more than what happened.
THEOREM TruthIsTold == Spec => []Truth
<1>1. TypeOK /\ Control /\ Books /\ Truth /\ [Next]_vars => Truth' BY NextTruth
<1> QED BY <1>1, InitTruth, TypeCorrect, BooksBalance, PTL DEF Spec

\* No turn is archived as cleanly ended over a handler that ran and was never
\* confirmed, through crashes, torn appends, retries and replays.
THEOREM NoEndIsFalse == Spec => []NoFalseEnd
<1>1. Truth => NoFalseEnd BY DEF Truth, HonestDrafts, FilesHonest, NoFalseEnd
<1> QED BY <1>1, TruthIsTold, PTL

\* An effect that was never confirmed leaves its mark on the published state.
THEOREM UncertaintyIsMarked == Spec => []UncertaintyMarked
<1>1. Truth => UncertaintyMarked
  BY DEF Truth, HonestDrafts, FilesHonest, Honest, UncertaintyMarked
<1> QED BY <1>1, TruthIsTold, PTL

----------------------------------------------------------------------------
(* Which row a step may add to which journal *)

\* Only the running turn records its child, and then it lets go of it; only
\* prepare writes the intent row, and then it freezes its draft.
Adds(t, row) ==
  \/ row.kind \notin {"ref", "intent"}
  \/ \E u \in Turn : row = R("ref", u)
  \/ /\ row = R("ref", holder) /\ holder # None /\ holder' = None
     /\ pc = "run" /\ t = active
  \/ /\ row = Mark("intent") /\ pc = "prepare" /\ t = job.turn
     /\ frozen'[t] = job.draft

\* Every journal grows by at most one such row.
RowByRow == \A t \in Turn : \E row : Grows(journal[t], journal'[t], row) /\ Adds(t, row)

\* A step that writes no journal adds no row.
LEMMA NoRow ==
  ASSUME TypeOK, journal' = journal
  PROVE  RowByRow
<1>1. Mark("segment").kind = "segment" BY DEF Mark, R
<1> QED BY <1>1, SalvageGrows DEF RowByRow, Adds, TypeOK

\* A step that adds one row to one journal.
LEMMA OneRow ==
  ASSUME TypeOK, NEW t \in Turn, NEW j, NEW row, Grows(journal[t], j, row), Adds(t, row),
         SetJournal(t, j)
  PROVE  RowByRow
<1>1. Mark("segment").kind = "segment" BY DEF Mark, R
<1>2. journal'[t] = j /\ \A u \in Turn \ {t} : journal'[u] = journal[u]
  BY DEF SetJournal, TypeOK
<1>3. \A u \in Turn \ {t} : Grows(journal[u], journal'[u], Mark("segment"))
  BY <1>2, SalvageGrows DEF TypeOK
<1> QED BY <1>1, <1>2, <1>3 DEF RowByRow, Adds

\* A row appended by the running turn, whole or cut short.
LEMMA ActiveRow ==
  ASSUME TypeOK, active \in Turn, NEW row, Adds(active, row),
         \/ Write(row)
         \/ journal[active].frag # "merged"
              /\ \E j \in Cut(journal[active], row) : SetJournal(active, j)
  PROVE  RowByRow
<1>1. journal[active] \in Journal BY DEF TypeOK
<1>2. CASE Write(row) BY <1>1, <1>2, AppendGrows, OneRow DEF Write
<1>3. CASE journal[active].frag # "merged" /\ \E j \in Cut(journal[active], row) : SetJournal(active, j)
  BY <1>1, <1>3, CutGrows, OneRow
<1> QED BY <1>2, <1>3

\* What may be in flight when an append is cut short.
LEMMA InFlightAdds ==
  ASSUME NEW row \in InFlight, active # None, holder' = None \/ row.kind # "ref"
  PROVE  Adds(active, row)
<1>1. \/ \E c \in Call, kind \in {"start", "settle", "vague"} : row = R(kind, c)
      \/ pc = "run" /\ holder # None /\ row = R("ref", holder)
  BY DEF InFlight
<1>2. ASSUME NEW c, NEW kind \in {"start", "settle", "vague"}, row = R(kind, c)
      PROVE  Adds(active, row)
  BY <1>2 DEF Adds, R
<1>3. R("ref", holder).kind = "ref" BY DEF R
<1> QED BY <1>1, <1>2, <1>3 DEF Adds

\* The steps of the running turn.
LEMMA RunningRows ==
  ASSUME TypeOK, Control, Books, Running
  PROVE  RowByRow
<1>1. pc = "run" => active \in Turn BY DEF Control
<1>2. active # None => active \in Turn BY ActiveBegun DEF Books, JobBooks
<1>3. ASSUME active \in Turn, NEW c, NEW kind \in {"start", "settle", "vague"}, Write(R(kind, c))
      PROVE  RowByRow
  <2>1. Adds(active, R(kind, c)) BY <1>3 DEF Adds, R
  <2> QED BY <1>3, <2>1, ActiveRow
<1>4. ASSUME NEW c \in Call, RecordStart(c) PROVE RowByRow
  BY <1>1, <1>3, <1>4 DEF RecordStart, Alive
<1>5. ASSUME NEW c \in Call, AbandonStart(c) PROVE RowByRow
  BY <1>1, <1>3, <1>5 DEF AbandonStart, Alive
<1>6. ASSUME NEW c \in Call, Enter(c) \/ LateCheck(c) PROVE RowByRow
  BY <1>6, NoRow DEF Enter, LateCheck, durable
<1>7. ASSUME NEW c \in Call, LateStart(c) PROVE RowByRow
  BY <1>2, <1>3, <1>7, NoRow DEF LateStart
<1>8. ASSUME NEW c \in Call, NEW kind \in {"settle", "vague"}, RecordOutcome(c, kind)
      PROVE  RowByRow
  BY <1>1, <1>3, <1>8 DEF RecordOutcome, Alive
<1>9. ASSUME NEW u \in Turn, Cite(u) PROVE RowByRow
  <2>1. Adds(active, R("ref", u)) BY DEF Adds
  <2> QED BY <1>1, <1>9, <2>1, ActiveRow DEF Cite, Alive
<1>10. ASSUME (\E c \in Child : BindSink(c) \/ StoreChild(c)) \/ RecordChildFails PROVE RowByRow
  BY <1>10, NoRow DEF BindSink, StoreChild, RecordChildFails, durable
<1>11. ASSUME RecordChild PROVE RowByRow
  <2>1. Adds(active, R("ref", holder)) BY <1>11 DEF RecordChild, Alive, Adds
  <2> QED BY <1>1, <1>11, <2>1, ActiveRow DEF RecordChild, Alive
<1>12. ASSUME AppendFails PROVE RowByRow
  <2>1. PICK row \in InFlight : CutRow(row) /\ (row.kind = "ref" => holder' = None)
    BY <1>12 DEF AppendFails
  <2>2. active \in Turn /\ active # None /\ journal[active].frag # "merged"
    BY <1>2, <2>1 DEF CutRow, Readable
  <2>3. Adds(active, row) BY <2>1, <2>2, InFlightAdds
  <2> QED BY <2>1, <2>2, <2>3, ActiveRow DEF CutRow
<1> QED BY <1>4, <1>5, <1>6, <1>7, <1>8, <1>9, <1>10, <1>11, <1>12 DEF Running

\* The pipeline writes, whole or torn.
LEMMA TornRows ==
  ASSUME TypeOK, Control, TornWrite
  PROVE  RowByRow
<1> DEFINE t == job.turn
<1>1. t \in Turn /\ pc \in Pipe BY TornWriteTouches
<1>2. Target \in Journal /\ Target = journal[t] BY <1>1 DEF Target, TypeOK
<1>3. CASE journal' = journal BY <1>3, NoRow
<1>4. CASE \E j \in {Target, Unlinked(Target)} : SetJournal(t, j)
  <2>1. PICK j \in {Target, Unlinked(Target)} : SetJournal(t, j) BY <1>4
  <2>2. Grows(Target, j, Mark("segment")) BY <1>2, <2>1, SalvageGrows
  <2>3. Adds(t, Mark("segment")) BY DEF Adds, Mark, R
  <2> QED BY <1>1, <1>2, <2>1, <2>2, <2>3, OneRow
<1>5. CASE /\ pc \in DOMAIN PipelineRow /\ Readable(Target)
           /\ \E j \in Cut(Target, Mark(PipelineRow[pc])) : SetJournal(t, j)
           /\ frozen' = IF pc = "prepare" THEN [frozen EXCEPT ![t] = job.draft] ELSE frozen
  <2> DEFINE row == Mark(PipelineRow[pc])
  <2>1. PICK j \in Cut(Target, row) : SetJournal(t, j) BY <1>5
  <2>2. Grows(Target, j, row) BY <1>2, <1>5, <2>1, CutGrows DEF Readable
  <2>3. Adds(t, row)
    <3>1. CASE pc = "prepare"
      <4>1. row = Mark("intent") BY <3>1 DEF PipelineRow
      <4>2. frozen'[t] = job.draft BY <1>1, <1>5, <3>1 DEF TypeOK
      <4> QED BY <3>1, <4>1, <4>2 DEF Adds
    <3>2. CASE pc # "prepare"
      <4>1. PipelineRow[pc] \in {"written", "committed", "sealed"} BY <1>5, <3>2 DEF PipelineRow
      <4>2. row.kind = PipelineRow[pc] BY DEF Mark, R
      <4> QED BY <4>1, <4>2 DEF Adds
    <3> QED BY <3>1, <3>2
  <2> QED BY <1>1, <1>2, <2>1, <2>2, <2>3, OneRow
<1> QED BY <1>3, <1>4, <1>5 DEF TornWrite

\* Opening a turn, a crash, and a start.
LEMMA OtherRows ==
  ASSUME TypeOK, Control, Books, Truth,
         \/ (\E t \in Turn : Reserve(t)) \/ OpenJournal \/ Activate \/ BeginFails
         \/ BeginSeal \/ SealImpossible \/ Refuse \/ Crash \/ Recovery \/ UNCHANGED vars
  PROVE  RowByRow
<1> DEFINE t == job.turn
<1>1. \A u : Adds(u, Mark("segment")) BY DEF Adds, Mark, R
<1>2. CASE \/ (\E u \in Turn : Reserve(u)) \/ BeginSeal \/ SealImpossible \/ Refuse
           \/ Restart \/ StartupDone \/ UNCHANGED vars
  BY <1>2, NoRow DEF Reserve, BeginSeal, SealImpossible, Refuse, Restart, StartupDone, vars, durable
<1>3. CASE OpenJournal
  <2> DEFINE j == [NoJournal EXCEPT !.here = TRUE, !.order = order, !.base = Head(t).gen]
  <2>1. t \in Turn /\ t \notin begun /\ SetJournal(t, j)
    BY <1>3 DEF OpenJournal, Control, Books, JobBooks, JobsBegun
  <2>2. journal[t] = NoJournal BY <2>1 DEF Books, FileBooks, FreshTurns
  <2>3. Grows(journal[t], j, Mark("segment")) BY <2>2 DEF Grows, Seen, NoJournal
  <2> QED BY <1>1, <2>1, <2>3, OneRow
<1>4. ASSUME NEW u \in Turn, NEW j, SetJournal(u, j), Grows(journal[u], j, Mark("segment"))
      PROVE  RowByRow
  BY <1>1, <1>4, OneRow
<1>5. pc = "opened" => t \in Turn /\ journal[t] \in Journal /\ journal[t].frag # "merged"
  BY DEF Control, TypeOK, Truth, HeaderBlank
<1>6. CASE Activate BY <1>4, <1>5, <1>6, AppendGrows DEF Activate
<1>7. CASE BeginFails
  <2>1. CASE pc = "opened" BY <1>4, <1>5, <1>7, <2>1, CutGrows DEF BeginFails
  <2>2. CASE pc # "opened"
    <3>1. t \in Turn BY <1>7 DEF BeginFails, Control
    <3>2. journal' = journal BY <1>7, <2>2, <3>1 DEF BeginFails, SetJournal, TypeOK
    <3> QED BY <3>2, NoRow
  <2> QED BY <2>1, <2>2
<1>8. CASE Crash
  <2>1. CASE journal' = journal BY <2>1, NoRow
  <2>2. CASE TornWrite BY <2>2, TornRows
  <2>3. CASE \E row \in InFlight : CutRow(row)
    <3>1. PICK row \in InFlight : CutRow(row) BY <2>3
    <3>2. active \in Turn /\ active # None /\ journal[active].frag # "merged"
      BY <3>1, ActiveBegun DEF CutRow, Readable, Books, JobBooks
    <3>3. holder' = None BY <1>8 DEF Crash, PowerOff
    <3>4. Adds(active, row) BY <3>1, <3>2, <3>3, InFlightAdds
    <3> QED BY <3>1, <3>2, <3>4, ActiveRow DEF CutRow
  <2>4. CASE pc = "opened" /\ \E j \in Cut(Target, Mark("segment")) : SetJournal(t, j)
    BY <1>4, <1>5, <2>4, CutGrows DEF Target
  <2> QED BY <1>8, <2>1, <2>2, <2>3, <2>4 DEF Crash
<1>9. ASSUME NEW u \in Turn, Load(u) PROVE RowByRow
  BY <1>4, <1>9, SalvageGrows DEF Load, TypeOK
<1> QED BY <1>2, <1>3, <1>6, <1>7, <1>8, <1>9 DEF Recovery

\* No step writes a row it has no right to.
LEMMA RowsShape ==
  ASSUME TypeOK, Control, Books, Truth, [Next]_vars
  PROVE  RowByRow
<1>1. ASSUME Prepare \/ PutArtifact \/ NoteArtifact \/ Swap \/ NoteCheckpoint \/ NoteSealed \/ Cleanup
             \/ PipelineFails
      PROVE  RowByRow
  BY <1>1, PipelineWrites, TornRows DEF PipelineFails
<1> QED BY <1>1, RunningRows, OtherRows DEF Next, Opening, EndTurn, Pipeline, Running

----------------------------------------------------------------------------
(* What a step may do to the draft in hand and to the files *)

\* The draft of the next state is the one in hand, or one drawn up or read back
\* just now.
Holds ==
  /\ pc \in Pipe /\ job'.turn = job.turn /\ job'.draft = job.draft /\ active' = active
  /\ \/ job'.mode = job.mode
     \/ job.mode = "seal" /\ job'.mode = "replay"
  /\ pc' = "prepare" => pc = "prepare" /\ UNCHANGED <<job, frozen, artifact>>
  /\ pc = "prepare" /\ pc' # "prepare" =>
       frozen'[job.turn] = job.draft \/ Has(journal[job.turn], "intent")
DrawsUp ==
  /\ pc = "run" /\ active \in Turn /\ pc' = "prepare" /\ journal[active].frag = "no"
  /\ job' = [turn |-> active, mode |-> "seal", draft |-> SealDraft(journal[active], active)]
  /\ UNCHANGED <<journal, frozen, artifact, published, child, acked>>
ReadsBack(t) ==
  /\ pc' = "artifact" /\ active = None
  /\ LET j == Salvaged(journal[t]) IN
     \/ /\ Has(j, "intent") /\ frozen[t] # NoDraft
        /\ job' = [turn |-> t, mode |-> "replay", draft |-> frozen[t]]
     \/ /\ Readable(j) /\ ~Has(j, "intent")
        /\ job' = [turn |-> t, mode |-> "unprepared", draft |-> ReplayDraft(j, t)]
  /\ journal' = [journal EXCEPT ![t] = Salvaged(journal[t])]
  /\ UNCHANGED <<frozen, artifact, published, child, acked>>

\* The process in the pipeline goes on, raises and retries, or has just entered.
LEMMA DraftShape ==
  ASSUME TypeOK, Control, Books, [Next]_vars, pc' \in Pipe
  PROVE  Holds \/ DrawsUp \/ \E t \in Turn : ReadsBack(t)
<1> USE DEF Books, JobBooks
<1>1. ASSUME UNCHANGED <<pc, job, active, frozen, artifact>> PROVE Holds
  BY <1>1 DEF Holds
<1>2. CASE UNCHANGED vars BY <1>1, <1>2 DEF vars, durable, volatile
<1>3. CASE Running BY <1>1, <1>3, QuietActions DEF Running, Quiet
<1>4. CASE BeginSeal
  <2>1. active \in Turn BY <1>4 DEF BeginSeal, Alive, Control
  <2> QED BY <1>4, <2>1 DEF BeginSeal, Alive, Readable, DrawsUp, GoTo, durable, history
<1>5. CASE Prepare
  <2>1. pc = "prepare" /\ pc' = "artifact" /\ job' = job /\ active' = active
    BY <1>5 DEF Prepare, Step, GoTo
  <2>2. frozen'[job.turn] = job.draft
    BY <1>5, <2>1 DEF Prepare, Step, Control, Pipe, TypeOK
  <2> QED BY <2>1, <2>2 DEF Holds, Pipe
<1>6. CASE PutArtifact \/ NoteArtifact \/ Swap \/ NoteCheckpoint \/ NoteSealed
  BY <1>6 DEF PutArtifact, NoteArtifact, Swap, NoteCheckpoint, NoteSealed, Step, GoTo, Holds, Pipe
<1>7. ASSUME pc \in Pipe, Raise(journal'[job.turn]),
             pc = "prepare" => \/ journal' = journal
                               \/ frozen'[job.turn] = job.draft
      PROVE  Holds
  <2>1. /\ active # None /\ Retriable(journal'[job.turn])
        /\ job' = [job EXCEPT !.mode = "replay"] /\ GoTo("artifact")
    BY <1>7 DEF Raise, Conflict, PowerOff, Pipe
  <2>2. job'.turn = job.turn /\ job'.draft = job.draft /\ job'.mode = "replay" /\ job.mode = "seal"
    BY <2>1 DEF Retriable, TypeOK, Job
  <2>3. pc = "prepare" => frozen'[job.turn] = job.draft \/ Has(journal[job.turn], "intent")
    BY <1>7, <2>1 DEF Retriable
  <2> QED BY <1>7, <2>1, <2>2, <2>3 DEF Holds, GoTo
<1>8. CASE Refuse
  <2>1. pc \in Pipe /\ Raise(journal'[job.turn]) /\ journal' = journal
    BY <1>8 DEF Refuse, Pipe, Target, durable
  <2> QED BY <1>7, <2>1
<1>9. CASE PipelineFails
  <2>1. pc \in Pipe /\ job.turn \in Turn BY <1>9, TornWriteTouches DEF PipelineFails
  <2>2. pc = "prepare" => frozen'[job.turn] = job.draft
    BY <1>9, <2>1 DEF PipelineFails, TornWrite, TypeOK
  <2> QED BY <1>7, <1>9, <2>1, <2>2 DEF PipelineFails
<1>10. ASSUME NEW t \in Turn, Load(t) PROVE ReadsBack(t)
  <2>1. ASSUME NEW j, Valid(j, t, frozen[t]) PROVE frozen[t] # NoDraft
    <3>1. t \in frozen[t].ck.refs BY <2>1 DEF Valid
    <3> QED BY <3>1 DEF NoDraft, NoCheckpoint
  <2>2. active = None BY <1>10 DEF Load, Control
  <2> QED BY <1>10, <2>1, <2>2 DEF Load, ReadsBack, SetJournal, GoTo, Conflict, Pipe, history
<1>11. CASE \/ (\E t \in Turn : Reserve(t)) \/ OpenJournal \/ Activate \/ BeginFails
            \/ SealImpossible \/ Cleanup \/ Crash \/ Restart \/ StartupDone
  BY <1>11 DEF Reserve, OpenJournal, Activate, BeginFails, SealImpossible, Cleanup, Crash, PowerOff,
               Restart, StartupDone, GoTo, Pipe
<1> QED BY <1>2, <1>3, <1>4, <1>5, <1>6, <1>8, <1>9, <1>10, <1>11
        DEF Next, Opening, EndTurn, Pipeline, Recovery, Running

\* A turn is published by the swap alone, from the draft in hand; and a frozen
\* intent comes only from prepare.
Publishes ==
  /\ pc = "swap" /\ job.turn \in begun /\ SwapAllowed /\ artifact[job.turn] = job.draft.art
  /\ checkpoint' = [checkpoint EXCEPT ![TaskOf[job.turn]] = job.draft.ck]
  /\ published' = [published EXCEPT ![job.turn] = job.draft.ck]
  /\ UNCHANGED <<journal, frozen, artifact, begun, child, acked>>
LEMMA PublishShape ==
  ASSUME TypeOK, Control, Books, [Next]_vars
  PROVE  /\ \/ Publishes
            \/ /\ UNCHANGED <<checkpoint, published>>
               /\ \A t \in Turn : artifact[t] # None => artifact'[t] = artifact[t]
         /\ \A t \in Turn : \/ frozen'[t] = frozen[t]
                            \/ pc = "prepare" /\ t = job.turn /\ frozen'[t] = job.draft
<1> USE DEF Books, JobBooks
<1>1. ASSUME TornWrite, UNCHANGED <<begun, child, acked>> PROVE
        /\ \/ Publishes
           \/ /\ UNCHANGED <<checkpoint, published>>
              /\ \A t \in Turn : artifact[t] # None => artifact'[t] = artifact[t]
        /\ \A t \in Turn : \/ frozen'[t] = frozen[t]
                           \/ pc = "prepare" /\ t = job.turn /\ frozen'[t] = job.draft
  <2>1. job.turn \in Turn /\ pc \in Pipe BY <1>1, TornWriteTouches
  <2>2. job.turn \in begun BY <2>1 DEF JobsBegun
  <2>3. pc = "swap" => artifact[job.turn] = job.draft.art BY DEF JobFollows, Pipe
  <2>4. CASE pc = "swap" /\ checkpoint' = [checkpoint EXCEPT ![TaskOf[job.turn]] = job.draft.ck]
    BY <1>1, <2>1, <2>2, <2>3, <2>4 DEF TornWrite, Publishes, TypeOK, PipelineRow
  <2>5. CASE UNCHANGED <<checkpoint, published>>
    BY <1>1, <2>1, <2>5 DEF TornWrite, TypeOK
  <2> QED BY <1>1, <2>4, <2>5 DEF TornWrite
<1>2. ASSUME Still \/ OpenJournal, frozen' = frozen PROVE
        /\ UNCHANGED <<checkpoint, published>>
        /\ \A t \in Turn : artifact[t] # None => artifact'[t] = artifact[t]
        /\ \A t \in Turn : frozen'[t] = frozen[t]
  BY <1>2 DEF Still, OpenJournal
<1>3. CASE Prepare \/ PutArtifact \/ NoteArtifact \/ Swap \/ NoteCheckpoint \/ NoteSealed \/ Cleanup
           \/ PipelineFails
  <2>1. UNCHANGED <<begun, child, acked>>
    BY <1>3 DEF Prepare, PutArtifact, NoteArtifact, Swap, NoteCheckpoint, NoteSealed, Cleanup,
                PipelineFails, Step, history
  <2>2. TornWrite BY <1>3, PipelineWrites DEF PipelineFails
  <2> QED BY <1>1, <2>1, <2>2
<1>4. CASE Crash
  <2>1. UNCHANGED <<begun, child, acked>> BY <1>4 DEF Crash
  <2>2. CASE TornWrite BY <1>1, <2>1, <2>2
  <2>3. CASE frozen' = frozen /\ UNCHANGED <<artifact, checkpoint, published>> BY <2>3
  <2> QED BY <1>4, <2>2, <2>3 DEF Crash
<1>5. CASE Running
  <2>1. Still /\ Quiet BY <1>5, RunningStill, QuietActions DEF Running
  <2> QED BY <1>2, <2>1 DEF Quiet
<1>6. CASE \/ (\E t \in Turn : Reserve(t)) \/ Activate \/ BeginFails
           \/ BeginSeal \/ SealImpossible \/ Refuse \/ Recovery \/ UNCHANGED vars
  <2>1. frozen' = frozen
    BY <1>6 DEF Reserve, Activate, BeginFails, BeginSeal, SealImpossible, Refuse, Recovery, Restart,
                Load, StartupDone, vars, durable
  <2> QED BY <1>2, <1>6, <2>1, OtherStill
<1>7. CASE OpenJournal BY <1>2, <1>7 DEF OpenJournal
<1> QED BY <1>3, <1>4, <1>5, <1>6, <1>7 DEF Next, Opening, EndTurn, Pipeline, Running

\* The header of a journal is written once, and begun turns stay begun.
LEMMA HeaderShape ==
  ASSUME TypeOK, Control, Books, [Next]_vars
  PROVE  \/ OpenJournal
         \/ /\ begun' = begun
            /\ \A t \in Turn : /\ journal'[t].base = journal[t].base
                               /\ journal'[t].order = journal[t].order
<1>1. Still => begun' = begun /\ \A t \in Turn : Kept(journal[t], journal'[t]) BY DEF Still
<1>2. Writes => begun' = begun /\ TouchesOnly(job.turn) BY WriteShape DEF Writes
<1> QED BY <1>1, <1>2, StepShape DEF Kept, TouchesOnly

\* A child is stored once, by the turn it is bound to, and acknowledged by the
\* step that records it.
ChildrenStay ==
  /\ child' = child /\ acked' = acked
  /\ \/ holder' = None
     \/ holder' = holder /\ (holder # None /\ pc = "run" => pc' = "run" /\ active' = active)
LEMMA ChildShape ==
  ASSUME TypeOK, Control, Books, [Next]_vars
  PROVE  ChildrenStay \/ RecordChild \/ \E c \in Child : StoreChild(c)
<1>1. CASE Running /\ ~RecordChild /\ ~\E c \in Child : StoreChild(c)
  <2>1. child' = child /\ acked' = acked /\ holder' \in {None, holder}
    BY <1>1 DEF Running, RecordStart, Enter, AbandonStart, LateCheck, LateStart, RecordOutcome, Cite,
                BindSink, RecordChildFails, AppendFails, durable, volatile, history
  <2>2. UNCHANGED <<pc, active>> BY <1>1, QuietActions DEF Running, Quiet, Books, JobBooks
  <2> QED BY <2>1, <2>2 DEF ChildrenStay
<1>2. ASSUME ~Running, ~UNCHANGED vars PROVE ChildrenStay
  <2>1. CASE Crash BY <2>1 DEF Crash, PowerOff, ChildrenStay
  <2>2. CASE Opening \/ BeginFails \/ \E t \in Turn : Reserve(t)
    BY <2>2 DEF Opening, OpenJournal, Activate, BeginFails, Reserve, GoTo, ChildrenStay, history
  <2>3. CASE BeginSeal \/ SealImpossible
    BY <2>3 DEF BeginSeal, SealImpossible, PowerOff, GoTo, ChildrenStay, durable, history
  <2>4. CASE Recovery
    BY <2>4 DEF Recovery, Restart, Load, StartupDone, Conflict, GoTo, ChildrenStay, durable, history
  <2>5. ASSUME NEW j, Raise(j), pc \in Pipe, UNCHANGED <<child, acked>> PROVE ChildrenStay
    BY <2>5 DEF Raise, Conflict, PowerOff, GoTo, ChildrenStay, Pipe
  <2>6. CASE Refuse \/ PipelineFails
    <3>1. pc \in Pipe BY <2>6, TornWriteTypes DEF Refuse, PipelineFails, Pipe
    <3> QED BY <2>5, <2>6, <3>1 DEF Refuse, PipelineFails, durable, history
  <2>7. CASE Prepare \/ PutArtifact \/ NoteArtifact \/ Swap \/ NoteCheckpoint \/ NoteSealed \/ Cleanup
    BY <2>7 DEF Prepare, PutArtifact, NoteArtifact, Swap, NoteCheckpoint, NoteSealed, Cleanup, Step,
                GoTo, ChildrenStay, history
  <2> QED BY <1>2, <2>1, <2>2, <2>3, <2>4, <2>6, <2>7 DEF Next, EndTurn, Pipeline, Running
<1>3. CASE UNCHANGED vars BY <1>3 DEF vars, durable, volatile, history, ChildrenStay
<1> QED BY <1>1, <1>2, <1>3 DEF Running

----------------------------------------------------------------------------
(* The children of a turn *)

\* Whatever a turn's files and draft cite of children names the turn as their
\* parent; the child being published is not yet in its journal.
FilesKin ==
  \A t \in Turn : /\ Of(journal[t], "ref") \cap Child \subseteq Discovered(t)
                  /\ frozen[t].ck.refs \cap Child \subseteq Discovered(t)
                  /\ published[t].refs \cap Child \subseteq Discovered(t)
JobKin == pc \in Pipe => job.draft.ck.refs \cap Child \subseteq Discovered(job.turn)
HolderKin ==
  holder # None => /\ pc = "run" /\ child[holder] = active
                   /\ R("ref", holder) \notin Seen(journal[active])
Kinship == FilesKin /\ JobKin /\ HolderKin

\* What a child's parent is does not change.
LEMMA ParentsStay ==
  ASSUME TypeOK, Control, Books, [Next]_vars
  PROVE  /\ \A c \in Child : child[c] # None => child'[c] = child[c]
         /\ \A t \in Turn : Discovered(t) \subseteq Discovered(t)'
<1>1. ASSUME NEW c \in Child, child[c] # None PROVE child'[c] = child[c]
  <2>1. ASSUME NEW d \in Child, StoreChild(d) PROVE child'[c] = child[c]
    BY <1>1, <2>1 DEF StoreChild, TypeOK
  <2> QED BY <2>1, ChildShape DEF ChildrenStay, RecordChild
<1> QED BY <1>1, NoneIsNothing DEF Discovered

\* A reference row is a citation of its kind and name.
LEMMA RefRows ==
  ASSUME NEW j, NEW c
  PROVE  R("ref", c) \in Seen(j) => c \in Of(j, "ref")
<1>1. R("ref", c).kind = "ref" /\ R("ref", c).of = c BY DEF R
<1> QED BY <1>1 DEF Of

\* No step cites the child of another turn.
LEMMA NextFilesKin ==
  ASSUME TypeOK, Control, Books, Truth, Kinship, [Next]_vars
  PROVE  FilesKin'
<1> USE DEF Kinship, FilesKin
<1> SUFFICES ASSUME NEW t \in Turn
             PROVE  /\ Of(journal'[t], "ref") \cap Child \subseteq Discovered(t)'
                    /\ frozen'[t].ck.refs \cap Child \subseteq Discovered(t)'
                    /\ published'[t].refs \cap Child \subseteq Discovered(t)'
  BY DEF Of, Seen
<1>1. Discovered(t) \subseteq Discovered(t)' BY ParentsStay
<1>2. ASSUME NEW c \in Child, c \in Of(journal'[t], "ref") PROVE c \in Discovered(t)'
  <2>1. PICK s \in Seen(journal'[t]) : s.kind = "ref" /\ s.of = c BY <1>2 DEF Of
  <2>2. PICK row : Grows(journal[t], journal'[t], row) /\ Adds(t, row)
    BY RowsShape DEF RowByRow
  <2>3. CASE s \in Seen(journal[t])
    <3>1. c \in Of(journal[t], "ref") BY <2>1, <2>3 DEF Of
    <3> QED BY <1>1, <3>1
  <2>4. CASE s = row
    <3>1. row # Mark("intent") BY <2>1, <2>4 DEF Mark, R
    <3>2. ASSUME NEW u \in Turn, row = R("ref", u) PROVE FALSE
      <4>1. u = c BY <2>1, <2>4, <3>2 DEF R
      <4> QED BY <4>1, KindsApart
    <3>3. row = R("ref", holder) /\ holder # None /\ t = active
      BY <2>1, <2>2, <2>4, <3>1, <3>2 DEF Adds
    <3>4. c = holder BY <2>1, <2>4, <3>3 DEF R
    <3>5. c \in Discovered(t) BY <3>3, <3>4 DEF HolderKin, Discovered
    <3> QED BY <1>1, <3>5
  <2> QED BY <2>1, <2>2, <2>3, <2>4 DEF Grows
<1>3. pc \in Pipe => job.draft.ck.refs \cap Child \subseteq Discovered(job.turn)
  BY DEF JobKin
<1>4. frozen'[t].ck.refs \cap Child \subseteq Discovered(t)'
  BY <1>1, <1>3, PublishShape DEF Pipe
<1>5. published'[t].refs \cap Child \subseteq Discovered(t)'
  <2>1. CASE Publishes
    <3>1. published'[t] = IF t = job.turn THEN job.draft.ck ELSE published[t]
      BY <2>1 DEF Publishes, TypeOK
    <3> QED BY <1>1, <1>3, <2>1, <3>1 DEF Publishes, Pipe
  <2>2. CASE published' = published BY <1>1, <2>2
  <2> QED BY <2>1, <2>2, PublishShape
<1> QED BY <1>2, <1>4, <1>5

\* No draft does, whether drawn up, carried or read back.
LEMMA NextJobKin ==
  ASSUME TypeOK, Control, Books, Kinship, [Next]_vars
  PROVE  JobKin'
<1> USE DEF Kinship, FilesKin, JobKin
<1> SUFFICES ASSUME pc' \in Pipe, NEW c \in Child, c \in job'.draft.ck.refs
             PROVE  child'[c] = job'.turn
  BY DEF Discovered
<1>1. \A t \in Turn : c \in Discovered(t) => child'[c] = t
  BY ParentsStay, NoneIsNothing DEF Discovered
<1>2. CASE Holds
  <2>1. job.turn \in Turn BY <1>2 DEF Holds, Control
  <2> QED BY <1>1, <1>2, <2>1 DEF Holds
<1>3. CASE DrawsUp
  <2>1. job'.turn = active /\ job'.draft.ck.refs = {active} \cup Of(journal[active], "ref")
    BY <1>3 DEF DrawsUp, SealDraft
  <2>2. active \in Turn BY <1>3 DEF DrawsUp
  <2>3. c # active BY <2>2, KindsApart
  <2> QED BY <1>1, <2>1, <2>2, <2>3
<1>4. ASSUME NEW t \in Turn, ReadsBack(t) PROVE child'[c] = job'.turn
  <2> DEFINE j == Salvaged(journal[t])
  <2>1. CASE job' = [turn |-> t, mode |-> "replay", draft |-> frozen[t]]
    <3>1. job'.turn = t /\ job'.draft = frozen[t] BY <2>1
    <3> QED BY <1>1, <3>1
  <2>2. CASE job' = [turn |-> t, mode |-> "unprepared", draft |-> ReplayDraft(j, t)]
    <3>1. job'.turn = t /\ job'.draft.ck.refs = {t} \cup Of(j, "ref") \cup Discovered(t)
      BY <2>2 DEF ReplayDraft
    <3>2. Of(j, "ref") = Of(journal[t], "ref") BY DEF Of, Seen, Salvaged, TypeOK, Journal
    <3>3. c # t BY KindsApart
    <3> QED BY <1>1, <3>1, <3>2, <3>3
  <2> QED BY <1>4, <2>1, <2>2 DEF ReadsBack
<1> QED BY <1>2, <1>3, <1>4, DraftShape

\* The child being published stays the active turn's, and unrecorded.
LEMMA NextHolderKin ==
  ASSUME TypeOK, Control, Books, Truth, Kinship, [Next]_vars
  PROVE  HolderKin'
<1> USE DEF Kinship
<1>1. CASE RecordChild BY <1>1 DEF RecordChild, HolderKin
<1>2. ASSUME NEW c \in Child, StoreChild(c) PROVE HolderKin'
  <2>1. /\ holder' = c /\ child[c] = None /\ bound[c] = active /\ pc = "run" /\ pc' = "run"
        /\ child' = [child EXCEPT ![c] = bound[c]] /\ active \in Turn
        /\ UNCHANGED <<journal, active, acked>>
    BY <1>2 DEF StoreChild, SinkOpen, Alive, Control, history
  <2>2. child'[c] = active BY <2>1 DEF TypeOK
  <2>3. R("ref", c) \notin Seen(journal[active])
    <3>1. c \notin Discovered(active) BY <2>1, NoneIsNothing DEF Discovered
    <3> QED BY <2>1, <3>1, RefRows DEF FilesKin
  <2> QED BY <2>1, <2>2, <2>3 DEF HolderKin, Seen
<1>3. CASE ChildrenStay /\ holder # None /\ holder' # None
  <2>1. /\ holder' = holder /\ child' = child /\ acked' = acked /\ pc = "run" /\ pc' = "run"
        /\ active' = active /\ active \in Turn
    BY <1>3 DEF ChildrenStay, HolderKin, Control
  <2>2. PICK row : Grows(journal[active], journal'[active], row) /\ Adds(active, row)
    BY <2>1, RowsShape DEF RowByRow
  <2>3. holder \in Child BY <1>3 DEF TypeOK
  <2>4. row # R("ref", holder)
    <3>1. R("ref", holder).kind = "ref" BY DEF R
    <3>2. \A u \in Turn : R("ref", u) # R("ref", holder) BY <2>3, KindsApart, RowsDiffer
    <3> QED BY <1>3, <2>1, <2>2, <3>1, <3>2 DEF Adds, Mark
  <2> QED BY <1>3, <2>1, <2>2, <2>4 DEF HolderKin, Grows, Seen
<1> QED BY <1>1, <1>2, <1>3, ChildShape DEF ChildrenStay, HolderKin

\* No checkpoint cites the child of another turn: not even when the child
\* finishes after its parent was sealed, or a start replays the parent.
THEOREM ChildrenStayWithParents == Spec => []Kinship
<1>1. Init => Kinship
  <2> SUFFICES ASSUME Init PROVE Kinship OBVIOUS
  <2>1. FilesKin
    BY NoneIsNothing DEF Init, FilesKin, NoJournal, Seen, Of, NoDraft, NoCheckpoint
  <2>2. JobKin /\ HolderKin BY DEF Init, JobKin, HolderKin, Pipe
  <2> QED BY <2>1, <2>2 DEF Kinship
<1>2. TypeOK /\ Control /\ Books /\ Truth /\ Kinship /\ [Next]_vars => Kinship'
  BY NextFilesKin, NextJobKin, NextHolderKin DEF Kinship
<1> QED BY <1>1, <1>2, TypeCorrect, BooksBalance, TruthIsTold, PTL DEF Spec

\* What a checkpoint cites of children is its own turn's.
THEOREM ChildRefsStay == Spec => []ChildRefsStayWithParent
<1>1. Kinship => ChildRefsStayWithParent
  BY DEF Kinship, FilesKin, ChildRefsStayWithParent, Discovered
<1> QED BY <1>1, ChildrenStayWithParents, PTL

----------------------------------------------------------------------------
(* Acknowledged children *)

\* An acknowledged child is recorded in its parent's journal for good, and in
\* everything drawn up from that journal since.
Recorded(c) ==
  /\ child[c] \in begun
  /\ R("ref", c) \in journal[child[c]].rows \/ journal[child[c]].frag = "merged"
FilesCite(c) ==
  /\ frozen[child[c]] = NoDraft \/ c \in frozen[child[c]].ck.refs
  /\ published[child[c]] = NoCheckpoint \/ c \in published[child[c]].refs
JobCites(c) == pc \in Pipe /\ job.turn = child[c] => c \in job.draft.ck.refs
Receipt(c) == Recorded(c) /\ FilesCite(c) /\ JobCites(c)
Receipts == \A c \in acked : Receipt(c)

\* A receipt given is kept.
LEMMA ReceiptKept ==
  ASSUME TypeOK, Control, Books, Truth, [Next]_vars, NEW c \in Child, Receipt(c)
  PROVE  Receipt(c)'
<1> DEFINE t == child[c]
<1> USE DEF Receipt
<1>1. t \in begun /\ t \in Turn BY DEF Recorded, Books, JobBooks, JobsBegun
<1>2. child'[c] = t BY <1>1, ParentsStay, NoneIsNothing
<1>3. Recorded(c)'
  <2>1. t \in begun' BY <1>1, HeaderShape DEF OpenJournal
  <2>2. PICK row : Grows(journal[t], journal'[t], row) BY <1>1, RowsShape DEF RowByRow
  <2> QED BY <1>2, <2>1, <2>2 DEF Recorded, Grows
<1>4. FilesCite(c)'
  <2>1. frozen'[t] = NoDraft \/ c \in frozen'[t].ck.refs
    BY <1>1, PublishShape DEF FilesCite, JobCites, Pipe
  <2>2. published'[t] = NoCheckpoint \/ c \in published'[t].refs
    <3>1. CASE Publishes
      <4>1. published'[t] = IF t = job.turn THEN job.draft.ck ELSE published[t]
        BY <1>1, <3>1 DEF Publishes, TypeOK
      <4> QED BY <3>1, <4>1 DEF Publishes, FilesCite, JobCites, Pipe
    <3>2. CASE published' = published BY <3>2 DEF FilesCite
    <3> QED BY <3>1, <3>2, PublishShape
  <2> QED BY <1>2, <2>1, <2>2 DEF FilesCite
<1>5. ASSUME journal[t].frag # "merged" PROVE c \in Of(journal[t], "ref")
  BY <1>5, RefRows DEF Recorded, Seen
<1>6. JobCites(c)'
  <2> SUFFICES ASSUME pc' \in Pipe, job'.turn = t PROVE c \in job'.draft.ck.refs
    BY <1>2 DEF JobCites
  <2>1. CASE Holds BY <2>1 DEF Holds, JobCites
  <2>2. CASE DrawsUp
    <3>1. job'.turn = active /\ job'.draft.ck.refs = {active} \cup Of(journal[active], "ref")
      BY <2>2 DEF DrawsUp, SealDraft
    <3> QED BY <1>5, <2>2, <3>1 DEF DrawsUp
  <2>3. ASSUME NEW u \in Turn, ReadsBack(u) PROVE c \in job'.draft.ck.refs
    <3> DEFINE j == Salvaged(journal[u])
    <3>1. CASE job' = [turn |-> u, mode |-> "replay", draft |-> frozen[u]] /\ frozen[u] # NoDraft
      <4>1. job'.turn = u /\ job'.draft = frozen[u] BY <3>1
      <4> QED BY <3>1, <4>1 DEF FilesCite
    <3>2. CASE job' = [turn |-> u, mode |-> "unprepared", draft |-> ReplayDraft(j, u)]
      <4>1. job'.turn = u /\ job'.draft.ck.refs = {u} \cup Of(j, "ref") \cup Discovered(u)
        BY <3>2 DEF ReplayDraft
      <4> QED BY <4>1 DEF Discovered
    <3> QED BY <2>3, <3>1, <3>2 DEF ReadsBack
  <2> QED BY <2>1, <2>2, <2>3, DraftShape
<1> QED BY <1>3, <1>4, <1>6

\* The step that acknowledges a child has recorded it.
LEMMA ReceiptGiven ==
  ASSUME TypeOK, Control, Books, Kinship, RecordChild, NEW c, c = holder
  PROVE  Receipt(c)'
<1> USE DEF Books, FileBooks, JobBooks
<1>1. /\ pc = "run" /\ pc' = "run" /\ active \in Turn /\ active \in begun /\ Unsealed(active)
      /\ UNCHANGED <<child, frozen, published, begun>>
  BY DEF RecordChild, Alive, Control, JobsBegun
<1>2. /\ c \in Child /\ child[c] = active
      /\ R("ref", c) \notin Seen(journal[active])
  BY DEF RecordChild, Kinship, HolderKin, TypeOK
<1>3. journal'[active] = Appended(journal[active], R("ref", c))
  BY <1>1 DEF RecordChild, Write, SetJournal, TypeOK
<1>4. R("ref", c) \in journal'[active].rows \/ journal'[active].frag = "merged"
  BY <1>1, <1>2, <1>3, AppendGrows DEF TypeOK
<1>5. published[active] = NoCheckpoint BY <1>1 DEF PublishedTurns, Unsealed
<1> QED BY <1>1, <1>2, <1>4, <1>5 DEF Receipt, Recorded, FilesCite, JobCites, Unsealed, Pipe

\* The seal cannot slip between a child's two writes: once its publication has
\* returned, whatever publishes its parent publishes the child.
THEOREM AckedChildIsPublished == Spec => []AckedChildPublished
<1>1. Init => Receipts BY DEF Init, Receipts
<1>2. TypeOK /\ Control /\ Books /\ Truth /\ Kinship /\ Receipts /\ [Next]_vars => Receipts'
  <2> SUFFICES ASSUME TypeOK, Control, Books, Truth, Kinship, Receipts, [Next]_vars,
                      NEW c \in acked'
               PROVE  Receipt(c)'
    BY DEF Receipts, Receipt, Recorded, FilesCite, JobCites
  <2>1. CASE c \in acked BY <2>1, ReceiptKept DEF Receipts, TypeOK
  <2>2. CASE c \notin acked
    <3>1. RecordChild /\ c = holder
      BY <2>2, ChildShape DEF ChildrenStay, RecordChild, StoreChild, history
    <3> QED BY <3>1, ReceiptGiven
  <2> QED BY <2>1, <2>2
<1>3. TypeOK /\ Books /\ Receipts => AckedChildPublished
  <2> SUFFICES ASSUME Books, Receipts, NEW c \in acked, IsPublished(child[c])
               PROVE  c \in published[child[c]].refs
    BY DEF AckedChildPublished
  <2>1. child[c] \in Turn BY DEF Receipts, Receipt, Recorded, Books, JobBooks, JobsBegun
  <2>2. published[child[c]] # NoCheckpoint
    BY <2>1, NoneIsNothing DEF IsPublished, NoCheckpoint
  <2> QED BY <2>2 DEF Receipts, Receipt, FilesCite
<1> QED BY <1>1, <1>2, <1>3, TypeCorrect, BooksBalance, TruthIsTold, ChildrenStayWithParents, PTL
        DEF Spec

----------------------------------------------------------------------------
(* Generations follow admission *)

\* Each journal has a place of its own, below the durable high-watermark, and is
\* based on a generation its task has reached; the places in one task go up with
\* the generations.
PlacesTaken ==
  \A t \in begun : /\ journal[t].order <= order
                   /\ pc = "reserved" => journal[t].order < order
                   /\ journal[t].base <= Head(t).gen
PlacesDiffer == \A t, u \in begun : t # u => journal[t].order # journal[u].order
BasesFollow ==
  \A t, u \in begun : TaskOf[t] = TaskOf[u] /\ journal[t].order < journal[u].order =>
    journal[t].base <= journal[u].base
Admission == PlacesTaken /\ PlacesDiffer /\ BasesFollow

\* The numbers the comparisons are about.
LEMMA Numbers ==
  ASSUME TypeOK
  PROVE  /\ order \in Nat
         /\ \A t \in Turn : /\ journal[t].order \in Nat /\ journal[t].base \in Nat
                            /\ Head(t) \in Checkpoint /\ Head(t).gen \in Nat
                            /\ published[t].gen \in Nat /\ published[t].order \in Nat
BY TaskOfType DEF TypeOK, Journal, Checkpoint, Head

\* The head of a task never goes back.
LEMMA HeadGrows ==
  ASSUME TypeOK, Control, Books, [Next]_vars, NEW t \in Turn
  PROVE  Head(t).gen <= checkpoint'[TaskOf[t]].gen
<1> USE DEF Books, FileBooks, JobBooks
<1>1. CASE checkpoint' = checkpoint BY <1>1, Numbers DEF Head
<1>2. CASE Publishes
  <2> DEFINE u == job.turn
  <2>1. u \in Turn /\ Follows(u, job.draft.ck)
    BY <1>2 DEF Publishes, JobsBegun, JobFollows, Pipe
  <2>2. Head(u).gen <= job.draft.ck.gen
    <3>1. Head(u) = job.draft.ck \/ Head(u).gen = journal[u].base
      BY <1>2 DEF Publishes, SwapAllowed, Target
    <3> QED BY <2>1, <3>1, Numbers DEF Follows
  <2>3. CASE TaskOf[t] = TaskOf[u]
    <3>1. checkpoint'[TaskOf[t]] = job.draft.ck
      BY <1>2, <2>3, TaskOfType DEF Publishes, TypeOK
    <3> QED BY <2>2, <2>3, <3>1 DEF Head
  <2>4. CASE TaskOf[t] # TaskOf[u]
    <3>1. checkpoint'[TaskOf[t]] = Head(t)
      BY <1>2, <2>4, TaskOfType DEF Publishes, Head, TypeOK
    <3> QED BY <3>1, Numbers
  <2> QED BY <2>3, <2>4
<1> QED BY <1>1, <1>2, PublishShape

\* A step that writes no header keeps the places.
LEMMA AdmissionKept ==
  ASSUME TypeOK, TypeOK', Control, Books, Admission, [Next]_vars, begun' = begun,
         \A t \in Turn : /\ journal'[t].base = journal[t].base
                         /\ journal'[t].order = journal[t].order,
         order' \in Nat, order <= order', pc' = "reserved" => order < order' \/ pc = "reserved"
  PROVE  Admission'
<1> USE DEF Admission
<1>1. begun \subseteq Turn BY DEF TypeOK
<1>2. PlacesTaken'
  <2> SUFFICES ASSUME NEW t \in begun
               PROVE  /\ journal[t].order <= order'
                      /\ pc' = "reserved" => journal[t].order < order'
                      /\ journal[t].base <= checkpoint'[TaskOf[t]].gen
    BY <1>1 DEF PlacesTaken, Head
  <2>1. /\ journal[t].order \in Nat /\ journal[t].base \in Nat /\ order \in Nat
        /\ Head(t).gen \in Nat /\ checkpoint'[TaskOf[t]].gen \in Nat
    BY <1>1, Numbers, TaskOfType DEF TypeOK, Checkpoint
  <2>2. Head(t).gen <= checkpoint'[TaskOf[t]].gen BY <1>1, HeadGrows
  <2> QED BY <2>1, <2>2 DEF PlacesTaken
<1>3. PlacesDiffer' BY <1>1 DEF PlacesDiffer
<1>4. BasesFollow' BY <1>1 DEF BasesFollow
<1> QED BY <1>2, <1>3, <1>4

\* Opening a journal takes the next place, on the head of the task.
LEMMA AdmissionOpened ==
  ASSUME TypeOK, Control, Books, Admission, OpenJournal
  PROVE  Admission'
<1> DEFINE t == job.turn
<1> USE DEF Admission
<1>1. t \in Turn /\ t \notin begun /\ pc = "reserved" /\ pc' = "opened" /\ begun \subseteq Turn
  BY DEF OpenJournal, GoTo, Control, Books, JobBooks, JobsBegun
<1>2. begun' = begun \cup {t} /\ order' = order /\ checkpoint' = checkpoint BY DEF OpenJournal
<1>3. journal'[t].order = order /\ journal'[t].base = Head(t).gen
  BY <1>1 DEF OpenJournal, SetJournal, NoJournal, TypeOK
<1>4. \A u \in begun : journal'[u] = journal[u]
  BY <1>1 DEF OpenJournal, SetJournal, TypeOK
<1>5. \A u \in begun : journal[u].order < order /\ journal[u].base <= Head(u).gen
  BY <1>1 DEF PlacesTaken
<1>6. /\ order \in Nat /\ Head(t).gen \in Nat
      /\ \A u \in begun : journal[u].order \in Nat /\ journal[u].base \in Nat
  BY <1>1, Numbers
<1>7. PlacesTaken' BY <1>1, <1>2, <1>3, <1>4, <1>5, <1>6 DEF PlacesTaken, Head
<1>8. PlacesDiffer' BY <1>2, <1>3, <1>4, <1>5, <1>6 DEF PlacesDiffer
<1>9. BasesFollow'
  <2> SUFFICES ASSUME NEW u \in begun', NEW v \in begun', TaskOf[u] = TaskOf[v],
                      journal'[u].order < journal'[v].order
               PROVE  journal'[u].base <= journal'[v].base
    BY DEF BasesFollow
  <2>1. CASE u \in begun /\ v \in begun BY <1>4, <2>1 DEF BasesFollow
  <2>2. CASE u = t BY <1>2, <1>3, <1>4, <1>5, <1>6, <2>2
  <2>3. CASE u \in begun /\ v = t
    <3>1. Head(u) = Head(t) BY <2>3 DEF Head
    <3> QED BY <1>3, <1>4, <1>5, <2>3, <3>1
  <2> QED BY <1>2, <2>1, <2>2, <2>3
<1> QED BY <1>7, <1>8, <1>9

\* Every step keeps the places.
LEMMA NextAdmission ==
  ASSUME TypeOK, TypeOK', Control, Books, Admission, [Next]_vars
  PROVE  Admission'
<1>1. CASE \E t \in Turn : Reserve(t)
  <2>1. order' = order + 1 /\ begun' = begun /\ journal' = journal BY <1>1 DEF Reserve, history
  <2> QED BY <2>1, AdmissionKept, Numbers
<1>2. CASE order' = order /\ pc' # "reserved" /\ ~OpenJournal
  BY <1>2, AdmissionKept, HeaderShape, Numbers
<1>3. CASE UNCHANGED <<order, pc>> /\ ~OpenJournal
  BY <1>3, AdmissionKept, HeaderShape, Numbers
<1>4. CASE Running
  <2>1. UNCHANGED <<order, pc>>
    BY <1>4 DEF Running, RecordStart, Enter, AbandonStart, LateCheck, LateStart, RecordOutcome, Cite,
                BindSink, StoreChild, RecordChild, RecordChildFails, AppendFails, durable, volatile
  <2>2. CASE pc # "reserved" BY <1>2, <2>1, <2>2 DEF OpenJournal
  <2>3. CASE pc = "reserved"
    <3>1. ~OpenJournal BY <2>1, <2>3 DEF OpenJournal, GoTo
    <3> QED BY <1>3, <2>1, <3>1
  <2> QED BY <2>2, <2>3
<1>5. CASE Pipeline \/ PipelineFails \/ BeginSeal \/ SealImpossible \/ Activate \/ BeginFails
           \/ Crash \/ Recovery
  <2>1. order' = order /\ pc' # "reserved"
    BY <1>5 DEF Pipeline, Prepare, PutArtifact, NoteArtifact, Swap, NoteCheckpoint, NoteSealed,
                Cleanup, Refuse, PipelineFails, Raise, Conflict, PowerOff, BeginSeal, SealImpossible,
                Activate, BeginFails, Crash, Recovery, Restart, Load, StartupDone, Step, GoTo, durable
  <2>2. CASE OpenJournal BY <2>2, AdmissionOpened
  <2> QED BY <1>2, <2>1, <2>2
<1>6. CASE UNCHANGED vars
  <2>1. UNCHANGED <<order, pc>> BY <1>6 DEF vars, durable, volatile
  <2>2. CASE OpenJournal BY <2>2, AdmissionOpened
  <2> QED BY <1>3, <2>1, <2>2
<1> QED BY <1>1, <1>4, <1>5, <1>6, AdmissionOpened DEF Next, Opening, EndTurn, Running

\* Two turns of one task never publish the same generation.
OneEach ==
  \A t, u \in Turn : t # u /\ TaskOf[t] = TaskOf[u] /\ published[t] # NoCheckpoint
      /\ published[u] # NoCheckpoint => published[t].gen # published[u].gen

\* A turn that becomes the head is ahead of all that were.
LEMMA NextOneEach ==
  ASSUME TypeOK, Control, Books, OneEach, [Next]_vars
  PROVE  OneEach'
<1> USE DEF Books, FileBooks, JobBooks
<1>1. CASE published' = published BY <1>1 DEF OneEach
<1>2. CASE Publishes
  <2> DEFINE t == job.turn
             ck == job.draft.ck
  <2>1. t \in Turn /\ Follows(t, ck) BY <1>2 DEF Publishes, JobsBegun, JobFollows, Pipe
  <2>2. published'[t] = ck /\ \A u \in Turn \ {t} : published'[u] = published[u]
    BY <1>2, <2>1 DEF Publishes, TypeOK
  <2>3. CASE Head(t) = ck
    <3>1. ck # NoCheckpoint BY <2>1, NoneIsNothing DEF Follows, NoCheckpoint
    <3>2. published[t] = ck
      <4>1. TaskOf[t] \in Task BY <2>1, TaskOfType
      <4> QED BY <2>1, <2>3, <3>1, <4>1 DEF TaskHeads, Head, Follows
    <3> QED BY <2>1, <2>2, <3>2 DEF OneEach
  <2>4. CASE Head(t).gen = journal[t].base
    <3>1. ASSUME NEW u \in Turn, u # t, TaskOf[u] = TaskOf[t], published[u] # NoCheckpoint
          PROVE  published[u].gen < ck.gen
      <4>1. published[u].gen <= Head(t).gen BY <3>1 DEF PublishedTurns, Head
      <4> QED BY <2>1, <2>4, <4>1, Numbers DEF Follows
    <3>2. ASSUME NEW u \in Turn, u # t, TaskOf[u] = TaskOf[t], published[u] # NoCheckpoint
          PROVE  published[u].gen # ck.gen
      <4>1. ck.gen \in Nat BY DraftOfJob DEF Checkpoint
      <4> QED BY <3>1, <3>2, <4>1, Numbers
    <3> QED BY <2>1, <2>2, <3>2 DEF OneEach
  <2>5. Head(t) = ck \/ Head(t).gen = journal[t].base
    BY <1>2 DEF Publishes, SwapAllowed, Target
  <2> QED BY <2>3, <2>4, <2>5
<1> QED BY <1>1, <1>2, PublishShape

\* Two turns of one task are published in the order they were admitted in,
\* whatever crashed, retried or was recovered in between.
THEOREM GenerationsFollowOrder == Spec => []OrderFollowsGeneration
<1>1. Init => Admission /\ OneEach
  BY DEF Init, Admission, PlacesTaken, PlacesDiffer, BasesFollow, OneEach
<1>2. /\ TypeOK /\ TypeOK' /\ Control /\ Books /\ Admission /\ OneEach /\ [Next]_vars
      => (Admission /\ OneEach)'
  BY NextAdmission, NextOneEach
<1>3. TypeOK /\ Books /\ Admission /\ OneEach => OrderFollowsGeneration
  <2> SUFFICES ASSUME TypeOK, Books, Admission, OneEach, NEW t \in Turn, NEW u \in Turn,
                      IsPublished(t), IsPublished(u), TaskOf[t] = TaskOf[u]
               PROVE  published[t].gen < published[u].gen <=> published[t].order < published[u].order
    BY DEF OrderFollowsGeneration
  <2> USE DEF Books, FileBooks
  <2>1. published[t] # NoCheckpoint /\ published[u] # NoCheckpoint
    BY NoneIsNothing DEF IsPublished, NoCheckpoint
  <2>2. Follows(t, published[t]) /\ Follows(u, published[u]) BY <2>1 DEF PublishedTurns
  <2>3. t \in begun /\ u \in begun BY <2>1 DEF FreshTurns
  <2>4. t # u => published[t].gen # published[u].gen /\ journal[t].order # journal[u].order
    BY <2>1, <2>3 DEF OneEach, Admission, PlacesDiffer
  <2>5. /\ journal[t].order < journal[u].order => journal[t].base <= journal[u].base
        /\ journal[u].order < journal[t].order => journal[u].base <= journal[t].base
    BY <2>3 DEF Admission, BasesFollow
  <2> QED BY <2>2, <2>4, <2>5, Numbers DEF Follows
<1> QED BY <1>1, <1>2, <1>3, TypeCorrect, BooksBalance, PTL DEF Spec

----------------------------------------------------------------------------
(* The frozen intent *)

\* An intent row stands in a journal only with the draft it froze behind it, and
\* what is published behind an intent row is that draft.
IntentsFrozen ==
  \A t \in Turn : /\ frozen[t] = NoDraft => Mark("intent") \notin Seen(journal[t])
                  /\ published[t] # NoCheckpoint /\ Mark("intent") \in Seen(journal[t]) =>
                       published[t] = frozen[t].ck /\ artifact[t] = frozen[t].art
\* The process carries the frozen draft, unless it replays a turn that had none.
DraftFrozen ==
  /\ pc \in Pipe => job.mode \in {"seal", "replay", "unprepared"}
  /\ pc = "prepare" => job.mode = "seal" /\ Unsealed(job.turn)
  /\ pc \in Pipe \ {"prepare"} =>
       IF job.mode = "unprepared" THEN Mark("intent") \notin Seen(journal[job.turn])
       ELSE frozen[job.turn] = job.draft
Intents == IntentsFrozen /\ DraftFrozen

\* No intent row appears but behind prepare.
LEMMA IntentRows ==
  ASSUME TypeOK, Control, Books, Truth, [Next]_vars, NEW t \in Turn,
         Mark("intent") \in Seen(journal'[t])
  PROVE  \/ Mark("intent") \in Seen(journal[t])
         \/ pc = "prepare" /\ t = job.turn /\ frozen'[t] = job.draft
<1>1. PICK row : Grows(journal[t], journal'[t], row) /\ Adds(t, row)
  BY RowsShape DEF RowByRow
<1>2. CASE row = Mark("intent")
  <2>1. row.kind = "intent" /\ \A u : R("ref", u) # row BY <1>2, RowsDiffer DEF Mark, R
  <2> QED BY <1>1, <2>1 DEF Adds
<1> QED BY <1>1, <1>2 DEF Grows

\* What is published behind an intent stays what was frozen.
LEMMA NextIntentsFrozen ==
  ASSUME TypeOK, Control, Books, Truth, Intents, [Next]_vars
  PROVE  IntentsFrozen'
<1> USE DEF Books, FileBooks, JobBooks, Intents
<1> SUFFICES ASSUME NEW t \in Turn, Mark("intent") \in Seen(journal'[t])
             PROVE  /\ frozen'[t] # NoDraft
                    /\ published'[t] # NoCheckpoint =>
                         published'[t] = frozen'[t].ck /\ artifact'[t] = frozen'[t].art
  BY DEF IntentsFrozen, Seen
<1>1. CASE pc = "prepare" /\ t = job.turn /\ frozen'[t] = job.draft
  <2>1. Follows(t, job.draft.ck) BY <1>1 DEF JobFollows, Pipe
  <2>2. job.draft # NoDraft BY <2>1, NoneIsNothing DEF Follows, NoDraft, NoCheckpoint
  <2>3. published[t] = NoCheckpoint
    BY <1>1 DEF DraftFrozen, Unsealed, PublishedTurns
  <2>4. published' = published BY <1>1, PublishShape DEF Publishes
  <2> QED BY <1>1, <2>2, <2>3, <2>4
<1>2. CASE ~(pc = "prepare" /\ t = job.turn /\ frozen'[t] = job.draft)
  <2>1. Mark("intent") \in Seen(journal[t]) BY <1>2, IntentRows
  <2>2. frozen'[t] = frozen[t] BY <1>2, PublishShape
  <2>3. frozen[t] # NoDraft BY <2>1 DEF IntentsFrozen
  <2>4. CASE Publishes
    <3>1. published'[t] = IF t = job.turn THEN job.draft.ck ELSE published[t]
      BY <2>4 DEF Publishes, TypeOK
    <3>2. t = job.turn => frozen[t] = job.draft /\ artifact[t] = job.draft.art
      BY <2>1, <2>4 DEF Publishes, DraftFrozen, Pipe
    <3>3. artifact'[t] = artifact[t] BY <2>4 DEF Publishes
    <3> QED BY <2>1, <2>2, <2>3, <3>1, <3>2, <3>3 DEF IntentsFrozen
  <2>5. CASE published' = published /\ \A u \in Turn : artifact[u] # None => artifact'[u] = artifact[u]
    <3>1. published[t] # NoCheckpoint => artifact'[t] = artifact[t]
      BY <2>5 DEF PublishedTurns
    <3> QED BY <2>1, <2>2, <2>3, <2>5, <3>1 DEF IntentsFrozen
  <2> QED BY <2>4, <2>5, PublishShape
<1> QED BY <1>1, <1>2

\* The process keeps to the frozen draft.
LEMMA NextDraftFrozen ==
  ASSUME TypeOK, Control, Books, Truth, Intents, [Next]_vars
  PROVE  DraftFrozen'
<1> USE DEF Books, FileBooks, JobBooks, Intents
<1>1. CASE pc' \notin Pipe BY <1>1 DEF DraftFrozen, Pipe
<1>2. CASE Holds
  <2> DEFINE t == job.turn
  <2>1. t \in Turn /\ pc \in Pipe /\ job'.turn = t /\ job'.draft = job.draft
    BY <1>2 DEF Holds, Control
  <2>2. job'.mode \in {"seal", "replay", "unprepared"} BY <1>2 DEF Holds, DraftFrozen
  <2>3. CASE pc' = "prepare"
    <3>1. pc = "prepare" /\ UNCHANGED <<job, frozen, artifact>> BY <1>2, <2>3 DEF Holds
    <3> QED BY <2>2, <2>3, <3>1 DEF DraftFrozen, Unsealed, Pipe
  <2>4. CASE pc' # "prepare" /\ pc = "prepare"
    <3>1. ~Has(journal[t], "intent")
      BY <2>1, <2>4 DEF DraftFrozen, IntentsFrozen, Unsealed, Has
    <3>2. frozen'[t] = job.draft BY <1>2, <2>4, <3>1 DEF Holds
    <3>3. job'.mode # "unprepared" BY <1>2, <2>4 DEF Holds, DraftFrozen
    <3> QED BY <2>1, <2>2, <2>4, <3>2, <3>3 DEF DraftFrozen, Seen
  <2>5. CASE pc' # "prepare" /\ pc # "prepare"
    <3>1. frozen'[t] = frozen[t] BY <2>1, <2>5, PublishShape
    <3>2. Mark("intent") \in Seen(journal'[t]) => Mark("intent") \in Seen(journal[t])
      BY <2>1, <2>5, IntentRows
    <3>3. (job'.mode = "unprepared") <=> (job.mode = "unprepared") BY <1>2 DEF Holds
    <3> QED BY <2>1, <2>2, <2>5, <3>1, <3>2, <3>3 DEF DraftFrozen, Seen
  <2> QED BY <2>3, <2>4, <2>5
<1>3. CASE DrawsUp
  <2>1. active \in Turn /\ Unsealed(active) BY <1>3 DEF DrawsUp, JobsBegun
  <2>2. job'.turn = active /\ job'.mode = "seal" /\ pc' = "prepare" BY <1>3 DEF DrawsUp
  <2> QED BY <1>3, <2>1, <2>2 DEF DraftFrozen, DrawsUp, Unsealed, Pipe
<1>4. ASSUME NEW t \in Turn, ReadsBack(t) PROVE DraftFrozen'
  <2> DEFINE j == Salvaged(journal[t])
  <2>1. pc' = "artifact" /\ frozen' = frozen /\ journal'[t] = j
    BY <1>4 DEF ReadsBack, TypeOK
  <2>2. CASE job' = [turn |-> t, mode |-> "replay", draft |-> frozen[t]]
    <3>1. job'.turn = t /\ job'.mode = "replay" /\ job'.draft = frozen[t] BY <2>2
    <3> QED BY <2>1, <3>1 DEF DraftFrozen
  <2>3. CASE /\ ~Has(j, "intent")
             /\ job' = [turn |-> t, mode |-> "unprepared", draft |-> ReplayDraft(j, t)]
    <3>1. job'.turn = t /\ job'.mode = "unprepared" BY <2>3
    <3> QED BY <2>1, <2>3, <3>1 DEF DraftFrozen, Has, Seen
  <2> QED BY <1>4, <2>2, <2>3 DEF ReadsBack
<1> QED BY <1>1, <1>2, <1>3, <1>4, DraftShape

\* Once a seal-intent row is durable, what is published is what it froze, also
\* when another process, after any number of crashes, carries it through.
THEOREM PublishedWasPrepared == Spec => []PublishedAsPrepared
<1>1. Init => Intents
  <2> SUFFICES ASSUME Init PROVE Intents OBVIOUS
  <2>1. Mark("intent") # None BY NoneIsNothing, RowTypes
  <2>2. IntentsFrozen BY <2>1 DEF Init, IntentsFrozen, NoJournal, Seen
  <2>3. DraftFrozen BY DEF Init, DraftFrozen, Pipe
  <2> QED BY <2>2, <2>3 DEF Intents
<1>2. TypeOK /\ Control /\ Books /\ Truth /\ Intents /\ [Next]_vars => Intents'
  BY NextIntentsFrozen, NextDraftFrozen DEF Intents
<1>3. TypeOK /\ Books /\ Intents => PublishedAsPrepared
  <2> SUFFICES ASSUME TypeOK, Intents, NEW t \in Turn, IsPublished(t),
                      Mark("intent") \in journal[t].rows
               PROVE  published[t] = frozen[t].ck /\ artifact[t] = frozen[t].art
    BY DEF PublishedAsPrepared
  <2>1. published[t] # NoCheckpoint BY NoneIsNothing DEF IsPublished, NoCheckpoint
  <2>2. Mark("intent") \in Seen(journal[t]) BY DEF Seen
  <2> QED BY <2>1, <2>2 DEF Intents, IntentsFrozen
<1> QED BY <1>1, <1>2, <1>3, TypeCorrect, BooksBalance, TruthIsTold, PTL DEF Spec
=============================================================================
