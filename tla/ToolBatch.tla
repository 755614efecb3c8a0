----------------------------- MODULE ToolBatch -----------------------------
(***************************************************************************)
(* One batch of tool calls of one model response: run_tool_batch           *)
(* (sliceagent_core/loop.py) over run_ordered (scheduler.py).  Calls are   *)
(* cut into waves: neighbouring reads, neighbouring children, or one       *)
(* barrier.  Each wave is prepared, run, and published edge by edge to the *)
(* required journals before the next one is prepared.  A wave answers      *)
(* within WaveContract, which ReadWave implements.                         *)
(*                                                                         *)
(* KeyboardInterrupt may land wherever the code runs; a journal may raise. *)
(***************************************************************************)
EXTENDS Naturals, Sequences, FiniteSets

CONSTANT Batches   \* the batches of interest: sequences of Kinds

\* "twin" repeats the read before it (dup_of); "handoff" is a barrier that
\* schedules a workspace switch; "effect" any other barrier.
Kinds == {"read", "child", "effect", "handoff", "twin"}

ASSUME BatchesAssumption ==
  \A b \in Batches :
    /\ b \in Seq(Kinds) /\ b # <<>>
    /\ \A i \in DOMAIN b :
         b[i] = "twin" =>
           \E k \in 1..(i - 1) : /\ b[k] = "read"
                                 /\ \A n \in k..i : b[n] \notin {"effect", "handoff"}

VARIABLES
  batch,      \* the calls, in provider order
  exclusive,  \* a turn-exclusive call has company: nothing may run
  cancelled,  \* the turn's signal
  pc,         \* where the batch is
  first,      \* the first call of the wave at hand
  ready,      \* its calls that prepare admitted
  handoff,    \* handoff_index, 0 for none
  known,      \* outcomes: what the batch knows of each call
  truth,      \* what the wave answered, the moment it did
  ran,        \* calls whose handler was entered
  attempted,  \* start_publication_attempt_ids
  queue,      \* calls still to be published
  after,      \* what follows the publication
  acked,      \* the edges each call's publishers have acknowledged
  seen,       \* the statuses the journals were told of each call
  deaf        \* calls whose journal failed again while an interrupt recovered

run == <<first, ready, handoff, truth, ran, attempted>>
books == <<queue, after, acked, seen, deaf>>
vars == <<batch, exclusive, cancelled, pc, known, run, books>>

Calls == DOMAIN batch

\* Outcomes the scheduler tells apart.  "succeeded" stands for every settled
\* status of a handler that ran.
Status == {"succeeded", "indeterminate", "notrun", "refused"}
Edges == <<"rejected", "settled", "result">>
EdgeSet == {"rejected", "settled", "result"}
Final == {"returned", "raised", "interrupted"}

Wave == INSTANCE WaveContract WITH phase <- pc, started <- ran, res <- known

\* What a wave may answer for a call, given whether its handler ran.
AnswersOf(started) ==
  (IF started THEN Wave!Ran ELSE Wave!NotRan) \cap Status

Init ==
  /\ batch \in Batches
  /\ exclusive \in IF Len(batch) > 1 THEN BOOLEAN ELSE {FALSE}
  /\ cancelled = FALSE
  /\ pc = "wave"
  /\ first = 1
  /\ ready = {}
  /\ handoff = 0
  /\ known = [i \in Calls |-> "none"]
  /\ truth = [i \in Calls |-> "none"]
  /\ ran = {} /\ attempted = {}
  /\ queue = {} /\ after = "none"
  /\ acked = [i \in Calls |-> {}]
  /\ seen = [i \in Calls |-> {}]
  /\ deaf = {}

-----------------------------------------------------------------------------
(* Waves.                                                                  *)

Twins == {i \in Calls : batch[i] = "twin"}
Scheduled == Calls \ Twins

\* The read a twin repeats (wave_seen).
Source(i) ==
  CHOOSE k \in 1..(i - 1) :
    batch[k] = "read" /\ \A n \in (k + 1)..(i - 1) : batch[n] # "read"

\* The wave that begins at call i: neighbours of one kind, or one barrier.
WaveAt(i) ==
  IF batch[i] \in {"read", "child"}
  THEN {k \in Scheduled : k >= i /\ \A n \in i..k : batch[n] \in {batch[i], "twin"}}
  ELSE {i}

ThisWave == WaveAt(first)
Barrier == batch[first] \notin {"read", "child"}
Past(S) == {i \in Scheduled : \A k \in S : i > k}
Remaining == {i \in Scheduled : i >= first}

\* Calls are published, and waves follow, in provider order.
Front(S) == CHOOSE i \in S : \A k \in S : i <= k

\* f where it is defined, g elsewhere.
Over(f, g) ==
  [i \in DOMAIN f \cup DOMAIN g |-> IF i \in DOMAIN f THEN f[i] ELSE g[i]]

Publishing(S, then) ==
  /\ queue' = S /\ after' = then /\ pc' = "publish"
  /\ UNCHANGED <<acked, seen, deaf>>

\* The outcomes f of the calls in its domain become known (outcomes[index]).
Learn(f) == known' = Over(f, known)

NotRun(S) == [i \in S |-> "notrun"]
Refused == [i \in ThisWave \ ready |-> "refused"]

Same == UNCHANGED <<batch, exclusive, cancelled>>

\* The top of run_ordered's loop: a cancelled turn starts no further wave.
CancelRest ==
  /\ pc = "wave" /\ cancelled
  /\ Learn(NotRun(Remaining))
  /\ Publishing(Remaining, "end")
  /\ Same /\ UNCHANGED run

\* Every call is admitted or refused at the barrier, when all that came
\* before it has been published.
Prepare ==
  /\ pc = "wave" /\ ~cancelled
  /\ \E S \in SUBSET ThisWave :
       LET barred == exclusive \/ (handoff # 0 /\ first > handoff)
       IN /\ barred => S = {}
          /\ ready' = S
          /\ handoff' = IF S # {} /\ batch[first] = "handoff" THEN first
                        ELSE handoff
  /\ pc' = "prepared"
  /\ Same /\ UNCHANGED <<known, first, truth, ran, attempted, books>>

\* The signal is read once more after prepare.
CancelPrepared ==
  /\ pc = "prepared" /\ cancelled
  /\ Learn(Over(Refused, NotRun(ready)))
  /\ Publishing(ThisWave, "cut")
  /\ Same /\ UNCHANGED run

\* What a wave does to its ready calls: the starts it attempts, the handlers
\* it enters, the answers.  A barrier runs inline: it has no answer "Not run".
Ways ==
  {w \in [tried : SUBSET ready, begun : SUBSET ready] :
     /\ w.begun \subseteq w.tried
     /\ Barrier => w.begun = ready}

\* The attempt is recorded before the start is published.
Started(w) == ran' = ran \cup w.begun /\ attempted' = attempted \cup w.tried

\* The wave answers, all calls at once; the answers become known before the
\* first of them is published.
RunWave ==
  /\ pc = "prepared" /\ ~cancelled
  /\ \E w \in Ways, f \in [ready -> Status] :
       /\ \A i \in ready : f[i] \in AnswersOf(i \in w.begun)
       /\ truth' = Over(f, truth)
       /\ Started(w)
       /\ Learn(Over(Refused, f))
  /\ Publishing(ThisWave, "wave")
  /\ Same /\ UNCHANGED <<first, ready, handoff>>

\* A start journal raised: the exception leaves the batch at once.
WaveRaises ==
  /\ pc = "prepared" /\ ~cancelled /\ ready # {}
  /\ \E w \in [tried : SUBSET ready, begun : SUBSET ready] :
       /\ w.begun \subseteq w.tried /\ w.tried # {}
       /\ Barrier => w.begun = {}
       /\ Started(w)
  /\ pc' = "raised"
  /\ Same /\ UNCHANGED <<known, first, ready, handoff, truth, books>>

\* A slip: an interrupted wave hands nothing over.
HandOverNothing(f) == UNCHANGED known /\ Publishing({}, "recover")

\* on_partial: what has settled is published before the interrupt goes on.
HandOver(f) == Learn(f) /\ Publishing({i \in ready : f[i] # "none"}, "recover")

\* KeyboardInterrupt inside the wave: what has settled is handed over first; a
\* barrier that was interrupted has nothing to hand over.
WaveInterrupted ==
  /\ pc = "prepared" /\ ~cancelled /\ ready # {}
  /\ \E w \in [tried : SUBSET ready, begun : SUBSET ready],
        f \in [ready -> {"succeeded", "indeterminate", "none"}] :
       /\ w.begun \subseteq w.tried
       /\ \A i \in ready : f[i] # "none" => i \in w.tried
       /\ \A i \in ready : f[i] = "succeeded" => i \in w.begun
       /\ Barrier => \A i \in ready : f[i] = "none"
       /\ truth' = Over(f, truth)
       /\ Started(w)
       /\ HandOver(f)
  /\ Same /\ UNCHANGED <<first, ready, handoff>>

-----------------------------------------------------------------------------
(* Publication.                                                            *)

\* A refused call has one more edge, in front.
EdgesOf(status) ==
  IF status = "refused" \/ exclusive THEN EdgeSet ELSE {"settled", "result"}

DueEdges(i) == EdgesOf(known[i]) \ acked[i]

NextEdge(i) ==
  Edges[CHOOSE n \in 1..3 : /\ Edges[n] \in DueEdges(i)
                            /\ \A k \in 1..(n - 1) : Edges[k] \notin DueEdges(i)]

\* The journals are told one edge; only "settled" carries the outcome.
Told(i, e) ==
  seen' = IF e = "settled" THEN [seen EXCEPT ![i] = @ \cup {known[i]}] ELSE seen

Ack(i, e) == acked' = [acked EXCEPT ![i] = @ \cup {e}]

\* publish_edges: the next edge of the call in front, once.
PublishEdge ==
  /\ pc = "publish" /\ queue # {} /\ DueEdges(Front(queue)) # {}
  /\ LET i == Front(queue) IN Told(i, NextEdge(i)) /\ Ack(i, NextEdge(i))
  /\ Same /\ UNCHANGED <<pc, known, run, queue, after, deaf>>

PublishNext ==
  /\ pc = "publish" /\ queue # {} /\ DueEdges(Front(queue)) = {}
  /\ queue' = queue \ {Front(queue)}
  /\ Same /\ UNCHANGED <<pc, known, run, after, acked, seen, deaf>>

\* A slip: a journal that raises is passed over.
PublishRaisesOn ==
  /\ pc = "publish" /\ queue # {} /\ DueEdges(Front(queue)) # {}
  /\ queue' = queue \ {Front(queue)}
  /\ Same /\ UNCHANGED <<pc, known, run, after, acked, seen, deaf>>

\* A required journal raised on an edge it may have written.
PublishRaises ==
  /\ pc = "publish" /\ queue # {} /\ DueEdges(Front(queue)) # {}
  /\ LET i == Front(queue) IN Told(i, NextEdge(i)) \/ UNCHANGED seen
  /\ pc' = IF after = "recover" THEN "recover" ELSE "raised"
  /\ Same /\ UNCHANGED <<known, run, queue, after, acked, deaf>>

\* KeyboardInterrupt while the wave is published: the journals may have the
\* edge already.  run_ordered hands the wave over once more.
PublishInterrupted ==
  /\ pc = "publish" /\ queue # {}
  /\ LET i == Front(queue)
     IN \/ UNCHANGED seen
        \/ DueEdges(i) # {} /\ Told(i, NextEdge(i))
  /\ IF after = "wave"
     THEN queue' = ThisWave /\ after' = "recover" /\ UNCHANGED pc
     ELSE pc' = "recover" /\ UNCHANGED <<queue, after>>
  /\ Same /\ UNCHANGED <<known, run, acked, deaf>>

\* A slip: an uncertain call closes nothing.
UnresolvedNever == FALSE

Unresolved == \E i \in ThisWave : known[i] = "indeterminate"

\* The wave is published: a cancel, or an indeterminate answer, closes
\* everything behind it ...
CloseTail ==
  /\ pc = "publish" /\ queue = {}
  /\ after = "cut" \/ (after = "wave" /\ Unresolved)
  /\ Learn(NotRun(Past(ThisWave)))
  /\ Publishing(Past(ThisWave), "end")
  /\ Same /\ UNCHANGED run

\* ... or else the next wave is next.
NextWave ==
  /\ pc = "publish" /\ queue = {} /\ after = "wave" /\ ~Unresolved
  /\ Past(ThisWave) # {}
  /\ pc' = "wave"
  /\ first' = Front(Past(ThisWave))
  /\ ready' = {}
  /\ Same /\ UNCHANGED <<known, handoff, truth, ran, attempted, books>>

\* run_ordered returns.
AllPublished ==
  /\ pc = "publish" /\ queue = {}
  /\ \/ after = "end"
     \/ after = "wave" /\ ~Unresolved /\ Past(ThisWave) = {}
  /\ pc' = "twins"
  /\ Same /\ UNCHANGED <<known, run, books>>

\* What an interrupt left has been handed over; the interrupt goes on.
HandedOver ==
  /\ pc = "publish" /\ queue = {} /\ after = "recover"
  /\ pc' = "recover"
  /\ Same /\ UNCHANGED <<known, run, books>>

\* KeyboardInterrupt between two waves, or while one is prepared.
Interrupted ==
  /\ pc \in {"wave", "prepared"}
  /\ pc' = "recover"
  /\ Same /\ UNCHANGED <<known, run, books>>

\* A twin gets its source's status and its own edges, and no effects.
AnswerTwin ==
  /\ pc = "twins"
  /\ \E i \in Twins :
       /\ known[i] = "none" /\ \A k \in Twins : k < i => known[k] # "none"
       /\ known' = [known EXCEPT ![i] = known[Source(i)]]
       /\ \/ /\ seen' = [seen EXCEPT ![i] = @ \cup {known'[i]}]
             /\ acked' = [acked EXCEPT ![i] = EdgesOf(known'[i])]
             /\ UNCHANGED pc
          \* a journal raised, or an interrupt; nothing recovers this one
          \/ /\ seen' = [seen EXCEPT ![i] = @ \cup {known'[i]}] \/ UNCHANGED seen
             /\ pc' = "raised"
             /\ UNCHANGED acked
  /\ Same /\ UNCHANGED <<run, queue, after, deaf>>

Return ==
  /\ pc = "twins" /\ \A i \in Twins : known[i] # "none"
  /\ pc' = "returned"
  /\ Same /\ UNCHANGED <<known, run, books>>

-----------------------------------------------------------------------------
(* The recovery of an interrupt.                                           *)

\* A slip: only what is known is closed.
RecoverKnown ==
  /\ pc = "recover"
  /\ deaf' \in SUBSET {i \in Calls : known[i] # "none" /\ "settled" \notin acked[i]}
  /\ seen' = [i \in Calls |->
                IF known[i] # "none" /\ "settled" \notin acked[i] /\ i \notin deaf'
                THEN seen[i] \cup {known[i]} ELSE seen[i]]
  /\ pc' = "interrupted"
  /\ Same /\ UNCHANGED <<known, run, queue, after, acked>>

\* Everything known is published again as far as it is not acknowledged;
\* every start that was attempted and is not known is closed as uncertain.
Recover ==
  /\ pc = "recover"
  /\ known' = [i \in Calls |->
                 IF known[i] = "none" /\ i \in attempted THEN "indeterminate"
                 ELSE known[i]]
  \* recover_edges: a journal that fails again is passed over
  /\ deaf' \in SUBSET {i \in Calls : known'[i] # "none" /\ "settled" \notin acked[i]}
  /\ seen' = [i \in Calls |->
                IF known'[i] # "none" /\ "settled" \notin acked[i] /\ i \notin deaf'
                THEN seen[i] \cup {known'[i]} ELSE seen[i]]
  /\ pc' = "interrupted"
  /\ Same /\ UNCHANGED <<run, queue, after, acked>>

CancelTurn ==
  /\ pc \in {"wave", "prepared", "publish"} /\ ~cancelled
  /\ cancelled' = TRUE
  /\ UNCHANGED <<batch, exclusive, pc, known, run, books>>

Next ==
  \/ CancelRest \/ Prepare \/ CancelPrepared
  \/ RunWave \/ WaveRaises \/ WaveInterrupted
  \/ PublishEdge \/ PublishNext \/ PublishRaises \/ PublishInterrupted
  \/ CloseTail \/ NextWave \/ AllPublished \/ HandedOver
  \/ AnswerTwin \/ Return
  \/ Interrupted \/ Recover \/ CancelTurn

Spec == Init /\ [][Next]_vars

-----------------------------------------------------------------------------

TypeOK ==
  /\ batch \in Batches
  /\ exclusive \in BOOLEAN /\ cancelled \in BOOLEAN
  /\ pc \in {"wave", "prepared", "publish", "recover", "twins"} \cup Final
  /\ first \in Scheduled /\ ready \subseteq ThisWave /\ handoff \in 0..Len(batch)
  /\ known \in [Calls -> Status \cup {"none"}]
  /\ truth \in [Calls -> Status \cup {"none"}]
  /\ ran \subseteq attempted /\ attempted \subseteq Scheduled
  /\ queue \subseteq Scheduled /\ \A i \in queue : known[i] # "none"
  /\ after \in {"none", "wave", "cut", "end", "recover"}
  /\ acked \in [Calls -> SUBSET EdgeSet]
  /\ seen \in [Calls -> SUBSET Status]
  /\ deaf \subseteq Calls

SameWave(i, j) == \E k \in Scheduled : {i, j} \subseteq WaveAt(k)
Behind(j, i) == j > i /\ ~SameWave(i, j)

\* The state is well typed, and the journals are never told two outcomes of one call, nor one that differs
\* from what its wave answered, nor "Not run" of a call that ran: whatever is
\* interrupted, repeated or recovered (loop.py:1418-1437; the at-least-once
\* hand-over of scheduler.py:1101-1118).
OneTrueStory ==
  /\ TypeOK
  /\ \A i \in Calls :
       /\ Cardinality(seen[i]) <= 1
       /\ truth[i] # "none" => seen[i] \subseteq {truth[i]}
       /\ i \in ran => seen[i] \cap {"notrun", "refused"} = {}

\* Nothing runs behind a call whose outcome is uncertain, behind a scheduled
\* workspace switch, or in a batch a turn-ending call does not have to itself
\* (scheduler.py:1120-1131, loop.py:1219-1232).
NothingRunsPastABar ==
  \A i \in ran :
    /\ ~exclusive
    /\ handoff # 0 => i <= handoff
    /\ \A k \in Scheduled : Behind(i, k) => known[k] # "indeterminate"

\* No start is even attempted before all that earlier waves answered has been
\* acknowledged by the required journals (scheduler.py:1098-1100).
PublishedBeforeNext ==
  \A i \in attempted, k \in Scheduled :
    Behind(i, k) => {"settled", "result"} \subseteq acked[k]

\* When the batch returns, every call has exactly one outcome, and its journals
\* and publishers were told; when it is interrupted, no attempted start is left
\* open, save where the journal itself failed again (loop.py:1467-1493).
EveryCallAnswered ==
  /\ pc = "returned" =>
       \A i \in Calls :
         /\ known[i] # "none" /\ seen[i] = {known[i]}
         /\ {"settled", "result"} \subseteq acked[i]
  /\ pc = "interrupted" =>
       \A i \in attempted \ deaf : known[i] # "none" /\ seen[i] = {known[i]}
=============================================================================
