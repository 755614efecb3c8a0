----------------------------- MODULE ActiveWork -----------------------------
(***************************************************************************)
(* The Active Work graph of one task (sliceagent_core/active_work.py) and  *)
(* the life the composer gives it: a user message opens a request root,    *)
(* the model's update_work calls propose deltas, the seal settles the      *)
(* root, a workspace switch carries the graph, a restart rebuilds it from  *)
(* the checkpoint and the open turn's journal.                             *)
(*                                                                         *)
(* An item is its root, its status, what replaced it, the verify commands  *)
(* it carries and the peer it waits for.  Source, evidence, output and     *)
(* resource references, dependencies and texts decide no transition.       *)
(***************************************************************************)
EXTENDS Integers, FiniteSets, Sequences

CONSTANTS
  Task,         \* ids the model may give its work items
  Check,        \* verify commands
  Wait,         \* peer correlations
  Place,        \* workspaces
  Asks,         \* the statuses the model tries; "keep" omits the field
  MaxRequests,  \* user messages
  MaxUpdates,   \* accepted update_work calls
  MaxUpsets     \* switches, restarts, failed updates and host calls

ModelStatus == {"open", "in_progress", "waiting_user", "ready", "cancelled", "superseded"}
Unresolved == {"open", "in_progress", "waiting_user", "waiting_peer", "ready"}
Status == Unresolved \cup {"delivered", "verified", "cancelled", "superseded"}
Stops == {"end_turn", "waiting_user", "waiting_peer", "stopped"}
Request == 1..MaxRequests
None == 0

ASSUME ActiveWorkAssumption ==
  /\ {MaxRequests, MaxUpdates, MaxUpsets} \subseteq Nat
  /\ Asks \subseteq ModelStatus \cup {"keep"}
  /\ (Task \cup Wait) \cap (Request \cup {None}) = {}
  /\ None \notin Place

VARIABLES
  opened,    \* user messages admitted so far
  turn,      \* the request the open turn serves, None between turns
  crossing,  \* its source segment is sealed: the workspace it continues in
  here,      \* the current workspace
  work,      \* the live graph
  saved,     \* the graph in each workspace's checkpoint
  rebuilt,   \* what a replay of the open turn's journal would give
  own,       \* this workspace's checkpoint, or the turn's journal, has the live graph
  pending,   \* the update being published
  ran,       \* the checks the host ran green for an item of a request
  spent      \* how much of each bound is used

vars == <<opened, turn, crossing, here, work, saved, rebuilt, own, pending, ran, spent>>

-----------------------------------------------------------------------------
\* The graph.

Item(root, status, by, checks, wait) ==
  [root |-> root, status |-> status, by |-> by, checks |-> checks, wait |-> wait]

NoItems == [i \in {} |-> None]
Empty == [items |-> NoItems, revision |-> 0]
Refused == [items |-> NoItems, revision |-> -1]   \* the call raised

\* f, and g where f says nothing
Over(f, g) ==
  [i \in DOMAIN f \cup DOMAIN g |-> IF i \in DOMAIN f THEN f[i] ELSE g[i]]

Roots(items) == DOMAIN items \cap Request
Children(items, r) == {i \in DOMAIN items \cap Task : items[i].root = r}
Live(items, r) == {i \in Children(items, r) : items[i].status \in Unresolved}
Owed(g) == {r \in Roots(g.items) : g.items[r].status \in Unresolved}
Parked(g) == {r \in Owed(g) : g.items[r].status = "waiting_peer"}

\* _ALLOWED_TRANSITIONS
Allowed(status) ==
  CASE status = "open" -> Status
    [] status = "in_progress" -> Status \ {"open"}
    [] status = "waiting_user" -> Status \ {"open", "waiting_peer"}
    [] status = "waiting_peer" -> Status \ {"open"}
    [] status = "ready" -> {"ready", "in_progress", "delivered", "verified", "cancelled", "superseded"}
    [] status = "delivered" -> {"delivered", "verified", "in_progress", "cancelled", "superseded"}
    [] OTHER -> {status}

\* What every graph is held to when it is built.
Valid(items) ==
  LET replaced == {i \in DOMAIN items : items[i].status = "superseded"} IN
  /\ \A i \in DOMAIN items :
       /\ items[i].root \in Roots(items)
       /\ (items[i].status = "waiting_peer") <=> (items[i].wait # None)
  /\ \A r \in Roots(items) : items[r].status \notin Unresolved => Live(items, r) = {}
  /\ \A i \in replaced :
       /\ items[i].by \in DOMAIN items \ {i}
       /\ items[items[i].by].root = items[i].root \/ {i, items[i].by} \subseteq Request
  /\ \A S \in (SUBSET replaced) \ {{}} : \E i \in S : items[i].by \notin S

\* WorkGraph.apply: compare and swap on the revision, all or nothing.
Apply(g, delta, expected) ==
  LET items == Over(delta.updates, Over(delta.creates, g.items)) IN
  IF /\ g # Refused
     /\ expected = g.revision
     /\ DOMAIN delta.creates \cap DOMAIN g.items = {}
     /\ DOMAIN delta.updates \subseteq DOMAIN g.items
     /\ \A i \in DOMAIN delta.updates :
          /\ delta.updates[i].root = g.items[i].root
          /\ delta.updates[i].status \in Allowed(g.items[i].status)
     /\ Valid(items)
  THEN [items |-> items, revision |-> IF items = g.items THEN g.revision ELSE g.revision + 1]
  ELSE Refused

\* A slip: a parked request counts as settled.
CompactedParks(items) ==
  {i \in DOMAIN items : items[items[i].root].status \in Unresolved \ {"waiting_peer"}}

\* Settled roots leave the graph with all their items when a message arrives.
Compacted(items) == {i \in DOMAIN items : items[items[i].root].status \in Unresolved}

OpenRequest(g, r) ==
  Apply([g EXCEPT !.items = [i \in Compacted(g.items) |-> g.items[i]]],
        [creates |-> [i \in {r} |-> Item(r, "open", None, {}, None)], updates |-> NoItems],
        g.revision)

-----------------------------------------------------------------------------
\* build_work_delta and the host's acceptance gate.

\* A slip: any request may be retired, the current one too, in favour of any other.
MayChangeAnyRoot(g, r, c) ==
  IF c.id \in Request
  THEN c.status \in {"cancelled", "superseded"}
  ELSE c.id \in DOMAIN g.items => g.items[c.id].root = r

\* The current root is the host's; an older one may only be retired; items
\* of an older request are out of reach.
MayChange(g, r, c) ==
  IF c.id \in Request
  THEN /\ c.id # r
       /\ c.status \in {"cancelled", "superseded"}
       /\ c.status = "superseded" => c.by = r
  ELSE c.id \in DOMAIN g.items => g.items[c.id].root = r

Asked(g, c) ==
  IF c.status # "keep" THEN c.status
  ELSE IF c.id \in DOMAIN g.items THEN g.items[c.id].status ELSE "open"

\* verify is <<>> when the call leaves the item's checks alone.
Change == [id : Task \cup Request, status : Asks, by : {None} \cup Task \cup Request,
           verify : {<<>>} \cup {<<c>> : c \in SUBSET Check}]

\* Changes the validators let through and that may move something: a retired
\* item's checks are of no more use.
Changes(g, r) ==
  {c \in Change :
     /\ c.status = "superseded" <=> c.by # None
     /\ c.by # None => c.by \in DOMAIN g.items \cup Task /\ c.by # c.id
     /\ c.id \in Request => c.id \in DOMAIN g.items /\ c.status \in {"cancelled", "superseded"}
     /\ c.status \in {"cancelled", "superseded"} => c.verify = <<>>
     /\ MayChange(g, r, c) /\ Asked(g, c) \in ModelStatus}

\* One change, or two of which the first needs the second or retires a root;
\* two that have nothing to do with each other are two calls.
Batches(g, r) ==
  LET changes == Changes(g, r) IN
  {<<c>> : c \in changes} \cup
  {b \in {c \in changes : c.by \in Task \/ c.id \in Request} \X changes :
     /\ b[1].id # b[2].id
     /\ b[1].by = b[2].id \/ b[1].id \in Request}

\* A slip: ready is promoted whether or not anything ran.
PromotedOnTrust(status, id, green) == IF status = "ready" THEN "verified" ELSE status

Promoted(status, id, green) ==
  IF status = "ready" /\ id \in green THEN "verified" ELSE status

Proposed(g, r, c, green) ==
  LET old == IF c.id \in DOMAIN g.items THEN g.items[c.id] ELSE Item(r, "open", None, {}, None)
  IN Item(r, Promoted(Asked(g, c), c.id, green),
          IF c.status = "keep" THEN old.by ELSE c.by,
          IF c.verify = <<>> THEN old.checks ELSE c.verify[1],
          old.wait)

\* Retiring an older root cancels what it still had open.
Delta(g, r, batch, green) ==
  LET changes == {batch[n] : n \in DOMAIN batch}
      Of(i) == CHOOSE c \in changes : c.id = i
      ids == {c.id : c \in changes}
      roots == ids \cap Request
      orphans == UNION {Live(g.items, q) : q \in roots}
  IN [creates |-> [i \in ids \ DOMAIN g.items |-> Proposed(g, r, Of(i), green)],
      updates |->
        [i \in (ids \cap DOMAIN g.items) \cup orphans |->
           IF i \in roots
           THEN [g.items[i] EXCEPT !.status = Of(i).status, !.by = Of(i).by, !.wait = None]
           ELSE IF i \in ids
           THEN Proposed(g, r, Of(i), green)
           ELSE [g.items[i] EXCEPT !.status = "cancelled", !.by = None]]]

\* The items whose checks the host runs: those that enter ready.
MustProve(g, delta) ==
  LET all == Over(delta.creates, delta.updates) IN
  {i \in DOMAIN all :
     /\ all[i].status = "ready" /\ all[i].checks # {}
     /\ i \in DOMAIN g.items => g.items[i].status # "ready"}

-----------------------------------------------------------------------------
\* seal_current

\* A slip: a park lives no longer than its segment.
SealStatusForgets(g, r, stop, answered, transitioned, resolve) ==
  LET was == g.items[r].status
      busy == \E i \in Live(g.items, r) : g.items[i].status # "ready"
  IN IF transitioned THEN "in_progress"
     ELSE IF stop \in {"waiting_user", "waiting_peer"} THEN stop
     ELSE IF answered /\ ~busy THEN "delivered"
     ELSE IF was \in {"open", "waiting_peer"} THEN "in_progress"
     ELSE was

\* A park is kept unless the caller resolves it, before anything else.
SealStatus(g, r, stop, answered, transitioned, resolve) ==
  LET was == g.items[r].status
      busy == \E i \in Live(g.items, r) : g.items[i].status # "ready"
  IN IF was = "waiting_peer" /\ ~resolve /\ stop # "waiting_peer" THEN "waiting_peer"
     ELSE IF transitioned THEN "in_progress"
     ELSE IF stop \in {"waiting_user", "waiting_peer"} THEN stop
     ELSE IF answered /\ ~busy THEN "delivered"
     ELSE IF was \in {"open", "waiting_peer"} THEN "in_progress"
     ELSE was

\* An answer also delivers the request's ready items.
SealCurrent(g, r, stop, answered, transitioned, wait, resolve) ==
  LET status == SealStatus(g, r, stop, answered, transitioned, resolve)
      kept == IF wait # None THEN wait ELSE g.items[r].wait
      done == IF answered /\ ~transitioned /\ stop \notin {"waiting_user", "waiting_peer"}
              THEN {i \in Live(g.items, r) : g.items[i].status = "ready"} ELSE {}
  IN IF r \in Owed(g)
     THEN Apply(g, [creates |-> NoItems,
                    updates |-> [i \in {r} \cup done |->
                      IF i = r
                      THEN [g.items[r] EXCEPT !.status = status,
                              !.wait = IF status = "waiting_peer" THEN kept ELSE None]
                      ELSE [g.items[i] EXCEPT !.status = "delivered"]]],
                g.revision)
     ELSE Refused

-----------------------------------------------------------------------------
Idle == [stage |-> "idle", delta |-> [creates |-> NoItems, updates |-> NoItems], before |-> Empty]

Spend(what, most) == /\ spent[what] < most
                     /\ spent' = [spent EXCEPT ![what] = @ + 1]

Between == turn = None /\ work # Refused
Running == turn # None /\ crossing = None

Init ==
  /\ opened = 0 /\ turn = None /\ crossing = None
  /\ here \in Place
  /\ work = Empty
  /\ saved = [p \in Place |-> Empty]
  /\ rebuilt = Empty
  /\ own = TRUE
  /\ pending = Idle
  /\ ran = {}
  /\ spent = [updates |-> 0, upsets |-> 0]

\* _begin_local_turn: the journal starts from this workspace's checkpoint, the
\* live graph from whatever the session carries.
Begin ==
  /\ Between /\ opened < MaxRequests
  /\ opened' = opened + 1 /\ turn' = opened'
  /\ work' = OpenRequest(work, opened')
  /\ rebuilt' = OpenRequest(saved[here], opened')
  /\ own' = (work = saved[here])
  /\ UNCHANGED <<crossing, here, saved, pending, ran, spent>>

\* _t_update_work and _work_delta_effects: an accepted call.  A refused one
\* leaves no trace.  update_work runs alone, so both read the same graph.
Update ==
  /\ Running /\ pending.stage = "idle"
  /\ Spend("updates", MaxUpdates)
  /\ \E batch \in Batches(work, turn) :
       /\ LET green == MustProve(work, Delta(work, turn, batch, {}))
              delta == Delta(work, turn, batch, green)
              all == Over(delta.creates, delta.updates)
          IN /\ Apply(work, delta, work.revision) # Refused
             /\ pending' = [stage |-> "accepted", delta |-> delta, before |-> work]
             /\ ran' = ran \cup {<<turn, t, all[t].checks>> : t \in green}
  /\ UNCHANGED <<opened, turn, crossing, here, work, saved, rebuilt, own>>

\* The bound reducer applies the delta the outcome carries.
Reduce ==
  /\ pending.stage = "accepted"
  /\ work' = Apply(work, pending.delta, pending.before.revision)
  /\ pending' = [pending EXCEPT !.stage = "reduced"]
  /\ UNCHANGED <<opened, turn, crossing, here, saved, rebuilt, own, ran, spent>>

\* What a replay gives once the journal has the delta's semantic-transition row.
Recorded == Apply(rebuilt, pending.delta, pending.before.revision)

\* observe_reduction: only now would a replay apply the delta.
Confirm ==
  /\ pending.stage = "reduced"
  /\ rebuilt' = Recorded
  /\ pending' = Idle
  /\ UNCHANGED <<opened, turn, crossing, here, work, saved, own, ran, spent>>

\* The outcome is never published, or the reducer raises and is rolled back:
\* the turn is over but for its seal.
Fail ==
  /\ pending.stage = "accepted"
  /\ Spend("upsets", MaxUpsets)
  /\ pending' = [Idle EXCEPT !.stage = "failed"]
  /\ UNCHANGED <<opened, turn, crossing, here, work, saved, rebuilt, own, ran>>

\* Recording the reduction is cut short.  record_effect_applied appends the row a
\* replay reads, then one more, and an append may raise behind its bytes: the
\* row may be there.  An exception rolls the reduction back, an interrupt does
\* not (its repeat finds the delta's revision, or its effect id, used up).
Disrupt ==
  /\ pending.stage = "reduced"
  /\ Spend("upsets", MaxUpsets)
  /\ work' \in {work, pending.before}
  /\ rebuilt' \in {rebuilt, Recorded}
  /\ pending' = [pending EXCEPT !.stage = "undecided"]
  /\ UNCHANGED <<opened, turn, crossing, here, saved, own, ran>>

\* _seal_local_turn at the end of a turn.
Seal ==
  /\ Running /\ pending.stage \notin {"accepted", "reduced"}
  /\ \E stop \in IF pending.stage = "idle" THEN Stops ELSE {"stopped"},
        wait \in {None} \cup Wait :
       /\ (stop = "waiting_peer") <=> (wait # None)
       /\ LET g == SealCurrent(work, turn, stop, stop = "end_turn", FALSE, wait, FALSE)
          IN work' = g /\ saved' = [saved EXCEPT ![here] = g]
  /\ turn' = None /\ pending' = Idle /\ rebuilt' = Empty /\ own' = TRUE
  /\ UNCHANGED <<opened, crossing, here, ran, spent>>

\* The same seal when the turn asked for another workspace.
SealToCross ==
  /\ Running /\ pending.stage = "idle"
  /\ Spend("upsets", MaxUpsets)
  /\ crossing' \in Place \ {here}
  /\ LET g == SealCurrent(work, turn, "end_turn", FALSE, TRUE, None, FALSE)
     IN work' = g /\ saved' = [saved EXCEPT ![here] = g]
  /\ own' = TRUE
  /\ UNCHANGED <<opened, turn, here, rebuilt, pending, ran>>

\* A slip: the continuation's admission leaves the graph out.
CarriedNot(g, base, r) == OpenRequest(base, r)

\* A continuation journals the very graph it continues with.
Carried(g, base, r) == g

\* _activate_workspace_handoff: the turn goes on in the target, or the switch
\* fails and the request stays open where it was.
Continue ==
  /\ crossing # None
  /\ \/ /\ here' = crossing
        /\ rebuilt' = Carried(work, saved[crossing], turn)
        /\ UNCHANGED turn
     \/ /\ turn' = None /\ rebuilt' = Empty
        /\ UNCHANGED here
  /\ crossing' = None
  /\ UNCHANGED <<opened, work, saved, own, pending, ran, spent>>

\* /cwd between turns: the session carries the graph, the target's checkpoint
\* does not hear of it.
Switch ==
  /\ Between
  /\ Spend("upsets", MaxUpsets)
  /\ here' \in Place \ {here}
  /\ own' = (work = saved[here'])
  /\ UNCHANGED <<opened, turn, crossing, work, saved, rebuilt, pending, ran>>

\* The process dies and starts again in the same workspace.  An open journal
\* is replayed and published as the new checkpoint; if the replay raises, the
\* workspace cannot be prepared.  Crashes while crossing are WorkspaceHandoff's.
Restart ==
  /\ crossing = None /\ work # Refused
  /\ Spend("upsets", MaxUpsets)
  /\ LET g == IF turn = None THEN saved[here] ELSE rebuilt
     IN /\ work' = g
        /\ saved' = [saved EXCEPT ![here] = IF g = Refused THEN @ ELSE g]
  /\ turn' = None /\ pending' = Idle /\ rebuilt' = Empty /\ own' = TRUE
  /\ UNCHANGED <<opened, crossing, here, ran>>

-----------------------------------------------------------------------------
\* Calls an embedding host makes between turns, and publishes.

Publish(g) ==
  /\ Between
  /\ Spend("upsets", MaxUpsets)
  /\ g # Refused
  /\ work' = g /\ saved' = [saved EXCEPT ![here] = g] /\ own' = TRUE
  /\ UNCHANGED <<opened, turn, crossing, here, rebuilt, pending, ran>>

Unpark(g, rs) ==
  Apply(g, [creates |-> NoItems,
            updates |-> [r \in rs |-> [g.items[r] EXCEPT !.status = "in_progress", !.wait = None]]],
        g.revision)

\* resume_waiting_peer: only the answer a park waits for ends it.
Resume(r, wait) ==
  /\ r \in Parked(work) /\ work.items[r].wait = wait
  /\ Publish(Unpark(work, {r}))

\* expire_peer_waits
Expire(late) ==
  LET rs == {r \in Parked(work) : work.items[r].wait \in late} IN
  rs # {} /\ Publish(Unpark(work, rs))

\* Another segment of a request that is still open ends.
Reseal(r, stop, answered, transitioned, wait, resolve) ==
  /\ r \in Owed(work)
  /\ stop # "waiting_peer" => wait = None
  /\ Publish(SealCurrent(work, r, stop, answered, transitioned, wait, resolve))

\* For the graph, a segment that ends with "end_turn" is one that stopped.
HostCall ==
  /\ Between /\ spent.upsets < MaxUpsets
  /\ \/ \E r \in Parked(work), wait \in Wait : Resume(r, wait)
     \/ \E late \in SUBSET Wait : Expire(late)
     \/ \E r \in Owed(work), stop \in Stops \ {"end_turn"}, answered, transitioned, resolve \in BOOLEAN,
           wait \in {None} \cup Wait :
          Reseal(r, stop, answered, transitioned, wait, resolve)

Next ==
  \/ Begin \/ Update \/ Reduce \/ Confirm \/ Fail \/ Disrupt
  \/ Seal \/ SealToCross \/ Continue \/ Switch \/ Restart
  \/ HostCall

Spec == Init /\ [][Next]_vars

-----------------------------------------------------------------------------
GraphOK(g) ==
  /\ DOMAIN g.items \subseteq Task \cup Request
  /\ \A i \in DOMAIN g.items :
       g.items[i] \in [root : Request, status : Status, by : {None} \cup Task \cup Request,
                       checks : SUBSET Check, wait : {None} \cup Wait]

TypeOK ==
  /\ opened \in 0..MaxRequests
  /\ turn \in 0..opened
  /\ here \in Place /\ crossing \in {None} \cup Place
  /\ GraphOK(work) /\ GraphOK(rebuilt)
  /\ \A p \in Place : GraphOK(saved[p]) /\ saved[p] # Refused
  /\ pending.stage \in {"idle", "accepted", "reduced", "failed", "undecided"}
  /\ own \in BOOLEAN
  /\ ran \subseteq Request \X Task \X SUBSET Check

\* The state is well typed and the host's own calls on the graph never raise:
\* whatever the model's accepted updates made of it, the next message opens a
\* request, and the turn that is running can be sealed whichever way it stops
\* (open_request and seal_current; a raise there loses the turn's seal).
HostNeverRefused ==
  /\ TypeOK
  /\ Between /\ opened < MaxRequests => OpenRequest(work, opened + 1) # Refused
  /\ Running /\ pending.stage \notin {"accepted", "reduced"} =>
       /\ \A stop \in Stops, wait \in {None} \cup Wait :
            ((stop = "waiting_peer") <=> (wait # None)) =>
              SealCurrent(work, turn, stop, stop = "end_turn", FALSE, wait, FALSE) # Refused
       /\ SealCurrent(work, turn, "end_turn", FALSE, TRUE, None, FALSE) # Refused

\* An item the host certified as verified carries checks, and the host ran
\* exactly these green when it accepted the item in that request: no later
\* update, seal, switch or replay changes what it was certified on.
Certified ==
  \A t \in Task \cap DOMAIN work.items :
    work.items[t].status = "verified" =>
      work.items[t].checks # {} /\ <<work.items[t].root, t, work.items[t].checks>> \in ran

\* The restart found less than the process had: the graph came from another
\* workspace and this one had neither a checkpoint nor a journal of it.
Forgotten == Restart /\ ~own

\* The model retires an older request in an update the host accepted.
Retired(r) == pending.stage = "accepted" /\ r \in DOMAIN pending.delta.updates /\ r # turn

\* The restart replays such an update though the process had rolled it back,
\* for its transition row was in the journal.
RetiredAfterAll(r) ==
  /\ pending.stage = "undecided" /\ r \in DOMAIN pending.delta.updates /\ r # turn
  /\ work = pending.before
  /\ rebuilt # pending.before /\ Restart

\* A request that is still owed stays on the graph through new messages, seals,
\* switches, failed updates and restarts.  It leaves only by its own delivered
\* answer, because a later request retires it, be it in an update that was rolled
\* back behind its transition row and is replayed by the restart that follows,
\* or in a restart over a graph that was never written down (compaction in
\* open_request, rollback in _reduce_event, replay of the journal).
RequestsKept ==
  [][\A r \in Owed(work) \ Owed(work') :
       \/ Retired(r) \/ RetiredAfterAll(r) \/ Forgotten
       \/ turn \in {None, r} /\ turn' = None
            /\ r \in DOMAIN work'.items /\ work'.items[r].status = "delivered"]_work

\* The caller ends another segment of the request and says nothing of its wait.
SealedUnresolved(r) ==
  \E stop \in Stops \ {"waiting_peer"}, answered, transitioned \in BOOLEAN :
    Reseal(r, stop, answered, transitioned, None, FALSE)

\* The caller speaks of the wait: its answer, its deadline, its resolution, or
\* a new wait in its place.
Released(r) ==
  \/ Resume(r, work.items[r].wait)
  \/ \E late \in SUBSET Wait : work.items[r].wait \in late /\ Expire(late)
  \/ \E stop \in Stops, answered, transitioned, resolve \in BOOLEAN, wait \in {None} \cup Wait :
       /\ resolve \/ stop = "waiting_peer"
       /\ Reseal(r, stop, answered, transitioned, wait, resolve)

\* A peer wait is durable request state: whatever segment ends, message comes,
\* workspace changes, update fails or process restarts, the request waits for the
\* same correlation until the caller releases it or a later request retires it
\* (a retirement that was rolled back behind its transition row comes back with
\* the restart).
ParkSurvives ==
  [][\A r \in Parked(work) :
       \/ r \in Parked(work') /\ work'.items[r].wait = work.items[r].wait
       \/ Released(r) /\ ~SealedUnresolved(r)
       \/ Retired(r) \/ RetiredAfterAll(r) \/ Forgotten]_work

\* The graphs the turn's updates may have reached.  An update counts once its
\* recording returns; of one whose recording was cut short nobody knows.
Reached ==
  CASE pending.stage = "reduced" -> {pending.before}
    [] pending.stage = "undecided" ->
         {pending.before, Apply(pending.before, pending.delta, pending.before.revision)}
    [] OTHER -> {work}

\* While a turn runs on its workspace's own graph, or on the graph its journal
\* carried over, a replay of the journal gives the graph the turn's confirmed
\* updates have reached, exactly; behind a recording that was cut short, it gives
\* that graph with or without this one update, and so is the live graph, which the
\* seal will write down (_replay_unprepared_checkpoint, _bind_reduce_event).
ReplayRebuilds ==
  turn # None /\ crossing = None =>
    /\ own => rebuilt \in Reached
    /\ pending.stage = "undecided" => work \in Reached

\* The same for every turn, as the replay's docstring has it: "Rebuild state
\* from confirmed reducer events".  After /cwd the next turn journals deltas
\* against a graph that only the session has.
EveryReplayRebuilds == turn # None /\ crossing = None => rebuilt \in Reached
=============================================================================
