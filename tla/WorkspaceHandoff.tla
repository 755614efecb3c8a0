--------------------------- MODULE WorkspaceHandoff ---------------------------
(***************************************************************************)
(* One user request carried through several workspaces: segments sealed in *)
(* each workspace's own store, the application's transition tickets        *)
(* (WorkspaceTransitionStore) and its event ledger.  The composer          *)
(* (sliceagent_cli/cli.py) drives them; the process may die between any    *)
(* two durable steps and be started again in any workspace.                *)
(*                                                                         *)
(* A store is what TurnSeal shows it to be: a seal or a recovery leaves    *)
(* one artifact per journal, or a conflict when another artifact already   *)
(* has its id.                                                             *)
(***************************************************************************)
EXTENDS Naturals, FiniteSets

CONSTANTS
  Root,         \* the workspaces
  MaxTurns,     \* bound on the user's requests
  MaxSwitches,  \* MAX_WORKSPACE_TRANSITIONS
  MaxFaults     \* bound on the I/O errors of a history

ASSUME HandoffAssumption ==
  /\ MaxTurns \in Nat /\ MaxSwitches \in Nat \ {0} /\ MaxFaults \in Nat

VARIABLES
  \* memory
  up,         \* the process runs
  here,       \* root: the published workspace
  home,       \* where the process was started
  pc,         \* where the composer is
  logical,    \* session.logical_turn
  active,     \* local_store.active is set
  sched,      \* _workspace_handoff["target"], a set of at most one root
  stop,       \* the segment's stop_reason
  requested,  \* handoff_requested
  ticket,     \* the ticket at hand (transition, settled_transition)
  boot,       \* _boot_transition
  \* disk
  journals, artifacts, tickets,
  delivered,  \* response_delivered events: <<turn, root>>
  crossed,    \* context_transition events: <<turn, source segment>>
  \* bounds
  next, faults

memory == <<up, here, home, pc, logical, active, sched, stop, requested,
            ticket, boot>>
ledger == <<delivered, crossed>>
stores == <<journals, artifacts>>
bounds == <<next, faults>>
vars == <<memory, stores, tickets, ledger, bounds>>

Turns == 1..MaxTurns
Segments == 0..MaxSwitches
Outcomes == {"terminal", "transition", "stopped", "interrupted"}
Statuses == {"prepared", "activated", "continuing"}

NoTurn == [id |-> 0, seg |-> 0, edges |-> {}]

Journal(w, t, n, s) == [root |-> w, turn |-> t, seg |-> n, seal |-> s]
Artifact(j, o) == [root |-> j.root, turn |-> j.turn, seg |-> j.seg, outcome |-> o]

Nothing ==
  /\ logical = NoTurn /\ active = FALSE /\ sched = {} /\ stop = "none"
  /\ requested = FALSE /\ ticket = {} /\ boot = {}

Init ==
  /\ up = FALSE /\ pc = "down"
  /\ here \in Root /\ home = here
  /\ Nothing
  /\ journals = {} /\ artifacts = {} /\ tickets = {}
  /\ delivered = {} /\ crossed = {}
  /\ next = 1 /\ faults = 0

-----------------------------------------------------------------------------
(* Stores and tickets.                                                     *)

\* The artifact id is made of the workspace and the logical turn: the segment
\* is not part of it (deterministic_artifact_id).
Minted(j) == \E a \in artifacts : a.root = j.root /\ a.turn = j.turn

\* A prepared seal finds another artifact under its id.
Conflict(j) == j.seal # "open" /\ Minted(j)

JournalsOf(w) == {j \in journals : j.root = w}

\* recover: an unprepared journal becomes an interrupted artifact, unless an
\* artifact of that id exists: then that one is kept.
Recovered(j) == Artifact(j, IF j.seal = "open" THEN "interrupted" ELSE j.seal)

\* A workspace with a conflict does not open, its other journals are recovered.
Opens(w) == \A j \in JournalsOf(w) : ~Conflict(j)

Recover(w) ==
  LET recoverable == {j \in JournalsOf(w) : ~Conflict(j)}
  IN /\ artifacts' = artifacts \cup {Recovered(j) : j \in {i \in recoverable : ~Minted(i)}}
     /\ journals' = journals \ recoverable

\* pending(workspace_root): the tickets that start or end at w.
Pending(w) == {k \in tickets : w \in {k.src, k.dst}}

\* clear: the ticket file is unlinked, if there is one.
Clear(S) == tickets' = tickets \ S

\* _advance, under the same file name.
Advance(status) ==
  \E k \in ticket :
    /\ tickets' = (tickets \ {k}) \cup {[k EXCEPT !.status = status]}
    /\ ticket' = {[k EXCEPT !.status = status]}

Fault == faults < MaxFaults /\ faults' = faults + 1

Goto(l) == pc' = l

-----------------------------------------------------------------------------
(* Start, crash, and the calls between turns.                              *)

\* "Workspace could not start safely".
StartRefused ==
  /\ ~up
  /\ \E w \in Root : ~Opens(w) /\ Recover(w) /\ here' = w /\ home' = w
  /\ UNCHANGED <<up, pc, logical, active, sched, stop, requested, ticket, boot,
                 tickets, ledger, bounds>>

\* The store is recovered; one pending ticket is adopted, several are not.
Start ==
  /\ ~up /\ up' = TRUE
  /\ \E w \in Root :
       /\ Opens(w) /\ Recover(w)
       /\ here' = w /\ home' = w
       /\ boot' = IF Cardinality(Pending(w)) = 1 THEN Pending(w) ELSE {}
  /\ Goto("booting")
  /\ UNCHANGED <<logical, active, sched, stop, requested, ticket,
                 tickets, ledger, bounds>>

Answered(w) == {a \in artifacts : a.root = w /\ a.outcome = "terminal"}

\* A slip: the crossing is trusted only once the target artifact is named.
ContinuingTickets == {k \in boot : k.status = "continuing"}

\* The adopted ticket, if its switch was published.
CrossedTickets == {k \in boot : k.status # "prepared"}

\* The ledger is completed from what the ticket and the artifacts say
\* (backfill_delivered_responses), in this store and the ticket's target.
Repair ==
  /\ pc = "booting"
  /\ crossed' = crossed \cup {<<k.turn, k.seg>> : k \in CrossedTickets}
  /\ delivered' = delivered \cup
       {<<a.turn, a.root>> :
          a \in UNION {Answered(w) : w \in {here} \cup {k.dst : k \in boot}}}
  /\ Goto("idle")
  /\ UNCHANGED <<up, here, home, logical, active, sched, stop, requested,
                 ticket, boot, stores, tickets, bounds>>

Dies ==
  /\ up' = FALSE /\ Goto("down")
  /\ logical' = NoTurn /\ active' = FALSE /\ sched' = {} /\ stop' = "none"
  /\ requested' = FALSE /\ ticket' = {} /\ boot' = {}
  /\ UNCHANGED <<here, home>>

\* A crash, or the user quits.
Crash == up /\ Dies /\ UNCHANGED <<stores, tickets, ledger, bounds>>

\* _classify_workspace_schedule: a new edge within the budget.
MaySchedule(w) ==
  /\ w # here /\ logical.seg < MaxSwitches
  /\ <<here, w>> \notin logical.edges

\* /cwd between turns: no ticket, and the target's store has no active turn.
Cwd ==
  /\ pc \in {"idle", "stranded"}
  /\ \E w \in Root : MaySchedule(w) /\ Opens(w) /\ Recover(w) /\ here' = w
  /\ active' = FALSE
  /\ UNCHANGED <<up, home, pc, logical, sched, stop, requested, ticket,
                 boot, tickets, ledger, bounds>>

-----------------------------------------------------------------------------
(* A turn and its segments.                                                *)

\* _begin_local_turn: the journal first, then the session's logical turn.
Admit ==
  /\ pc = "idle" /\ next \in Turns
  /\ journals' = journals \cup {Journal(here, next, 0, "open")}
  /\ logical' = [id |-> next, seg |-> 0, edges |-> {}]
  /\ active' = TRUE /\ next' = next + 1
  /\ Goto("admitted")
  /\ UNCHANGED <<up, here, home, sched, stop, requested, ticket, boot,
                 artifacts, tickets, ledger, faults>>

\* _retire_recovered_transition: the fresh turn takes over the old request; a
\* ticket that cannot be removed is kept for the next turn.
Retire ==
  /\ pc = "admitted"
  /\ \/ Clear(boot) /\ boot' = {} /\ UNCHANGED faults
     \/ boot # {} /\ Fault /\ UNCHANGED <<tickets, boot>>
  /\ Goto("running")
  /\ UNCHANGED <<up, here, home, logical, active, sched, stop, requested, ticket,
                 stores, ledger, next>>

\* _schedule_workspace; a second target is refused while one is pending.
Schedule ==
  /\ pc = "running" /\ sched = {}
  /\ \E w \in Root : MaySchedule(w) /\ sched' = {w}
  /\ UNCHANGED <<up, here, home, pc, logical, active, stop, requested, ticket,
                 boot, stores, tickets, ledger, bounds>>

\* The segment stops and its seal is prepared in the journal.
Stop ==
  /\ pc = "running"
  /\ \E s \in {"end_turn", "other"} :
       LET outcome == IF s # "end_turn" THEN "stopped"
                      ELSE IF sched # {} THEN "transition" ELSE "terminal"
       IN /\ stop' = s
          /\ journals' = {IF j.root = here /\ j.turn = logical.id
                          THEN [j EXCEPT !.seal = outcome] ELSE j : j \in journals}
  /\ Goto("sealing")
  /\ UNCHANGED <<up, here, home, logical, active, sched, requested, ticket, boot,
                 artifacts, tickets, ledger, bounds>>

Sealed == {j \in JournalsOf(here) : j.turn = logical.id}

Seal ==
  /\ pc = "sealing" /\ \A j \in Sealed : ~Conflict(j)
  /\ artifacts' = artifacts \cup {Artifact(j, j.seal) : j \in Sealed}
  /\ journals' = journals \ Sealed
  /\ active' = FALSE
  /\ Goto("sealed")
  /\ UNCHANGED <<up, here, home, logical, sched, stop, requested, ticket, boot,
                 tickets, ledger, bounds>>

\* _DurabilityStop: the journal is kept, the session ends.
SealFails ==
  /\ pc = "sealing"
  /\ \/ (\E j \in Sealed : Conflict(j)) /\ UNCHANGED faults
     \/ Fault
  /\ Dies
  /\ UNCHANGED <<stores, tickets, ledger, next>>

\* A slip: the settled ticket is kept until the turn ends.
KeepSettled ==
  /\ pc = "sealed"
  /\ requested' = (sched # {})
  /\ Goto("activate")
  /\ UNCHANGED <<up, here, home, logical, active, sched, stop, ticket, boot,
                 stores, tickets, ledger, bounds>>

\* A settled ticket is retired before a further boundary is prepared.
RetireSettled ==
  /\ pc = "sealed"
  /\ requested' = (sched # {})
  /\ IF sched # {} THEN Clear(ticket) /\ ticket' = {}
     ELSE UNCHANGED <<tickets, ticket>>
  /\ Goto("activate")
  /\ UNCHANGED <<up, here, home, logical, active, sched, stop, boot, stores,
                 ledger, bounds>>

\* _activate_workspace_handoff has nothing to activate. (Its own budget check
\* cannot fail: the schedule made it already.)
NoHandoff ==
  /\ pc = "activate"
  /\ sched = {} \/ stop # "end_turn"
  /\ sched' = {}
  /\ Goto("closing")
  /\ UNCHANGED <<up, here, home, logical, active, stop, requested, ticket, boot,
                 stores, tickets, ledger, bounds>>

Fresh(w) == [turn |-> logical.id, seg |-> logical.seg, src |-> here, dst |-> w,
             status |-> "prepared"]

\* prepare: the ticket, before the boundary is crossed.
PrepareTicket ==
  /\ pc = "activate" /\ stop = "end_turn"
  /\ \E w \in sched : tickets' = tickets \cup {Fresh(w)} /\ ticket' = {Fresh(w)}
  /\ Goto("ticketed")
  /\ UNCHANGED <<up, here, home, logical, active, sched, stop, requested, boot,
                 stores, ledger, bounds>>

\* _write raises before its replace or, in the directory's fsync, behind it.
PrepareFails ==
  /\ pc = "activate" /\ stop = "end_turn" /\ Fault
  /\ \E w \in sched : tickets' \in {tickets, tickets \cup {Fresh(w)}}
  /\ sched' = {}
  /\ Goto("closing")
  /\ UNCHANGED <<up, here, home, logical, active, stop, requested, ticket, boot,
                 stores, ledger, next>>

\* WorkspaceManager.switch: the target is recovered, then published.
Switch ==
  /\ pc = "ticketed"
  /\ \E w \in sched : Opens(w) /\ Recover(w) /\ here' = w
  /\ sched' = {}
  /\ Goto("published")
  /\ UNCHANGED <<up, home, logical, active, stop, requested, ticket, boot, tickets,
                 ledger, bounds>>

\* The target could not be staged; the ticket is removed next.
SwitchFails ==
  /\ pc = "ticketed"
  /\ \E w \in sched :
       \/ ~Opens(w) /\ UNCHANGED <<stores, faults>>
       \/ Opens(w) /\ Fault /\ (Recover(w) \/ UNCHANGED stores)
  /\ sched' = {}
  /\ Goto("unticket")
  /\ UNCHANGED <<up, here, home, logical, active, stop, requested, ticket, boot,
                 tickets, ledger, next>>

Unticket ==
  /\ pc = "unticket"
  /\ Clear(ticket) /\ ticket' = {}
  /\ Goto("closing")
  /\ UNCHANGED <<up, here, home, logical, active, sched, stop, requested, boot,
                 stores, ledger, bounds>>

MarkActivated ==
  /\ pc = "published" /\ Advance("activated")
  /\ Goto("activated")
  /\ UNCHANGED <<up, here, home, logical, active, sched, stop, requested, boot,
                 stores, ledger, bounds>>

\* begin_workspace_segment.
Continued(k) ==
  [logical EXCEPT !.seg = @ + 1, !.edges = @ \cup {<<k.src, k.dst>>}]

\* _begin_workspace_continuation: the target's journal, then the session.
Continue ==
  /\ pc = "activated"
  /\ \E k \in ticket :
       /\ journals' = journals \cup
            {Journal(here, logical.id, logical.seg + 1, "open")}
       /\ logical' = Continued(k)
  /\ active' = TRUE
  /\ Goto("begun")
  /\ UNCHANGED <<up, here, home, sched, stop, requested, ticket, boot, artifacts,
                 tickets, ledger, bounds>>

MarkContinuing ==
  /\ pc = "begun" /\ Advance("continuing")
  /\ Goto("continuing")
  /\ UNCHANGED <<up, here, home, logical, active, sched, stop, requested, boot,
                 stores, ledger, bounds>>

RecordCrossing ==
  /\ pc = "continuing"
  /\ crossed' = crossed \cup {<<logical.id, logical.seg - 1>>}
  /\ Goto("running")
  /\ UNCHANGED <<up, here, home, logical, active, sched, stop, requested, ticket,
                 boot, stores, tickets, delivered, bounds>>

\* A slip: the answer of a segment whose switch failed is delivered too.
AnyAnswer == stop = "end_turn"

FinalAnswer == ~requested /\ stop = "end_turn"

\* The answer is recorded for a turn that ended without a further switch.
Deliver ==
  /\ pc = "closing"
  /\ delivered' = IF FinalAnswer THEN delivered \cup {<<logical.id, here>>} ELSE delivered
  /\ Goto("finishing")
  /\ UNCHANGED <<up, here, home, logical, active, sched, stop, requested, ticket,
                 boot, stores, tickets, crossed, bounds>>

Finish ==
  /\ pc = "finishing"
  /\ Clear(ticket)
  /\ logical' = NoTurn /\ ticket' = {} /\ stop' = "none" /\ requested' = FALSE
  /\ Goto("idle")
  /\ UNCHANGED <<up, here, home, active, sched, boot, stores, ledger, bounds>>

-----------------------------------------------------------------------------
(* A durable step between two segments raises: the live composer reports a *)
(* turn error and goes on, with the logical turn still in the session.     *)

CanRaise ==
  \/ pc = "sealed" /\ sched # {} /\ ticket # {}
  \/ pc \in {"unticket", "published", "activated", "begun", "continuing"}
  \/ pc = "closing" /\ FinalAnswer
  \/ pc = "finishing" /\ ticket # {}

Raises ==
  /\ CanRaise /\ Fault
  /\ Goto("stranded")
  /\ UNCHANGED <<up, here, home, logical, active, sched, stop, requested, ticket,
                 boot, stores, tickets, ledger, next>>

\* The next request is journaled before start_logical_turn refuses it.
AdmitStranded ==
  /\ pc = "stranded" /\ ~active /\ next \in Turns
  /\ journals' = journals \cup {Journal(here, next, 0, "open")}
  /\ active' = TRUE /\ next' = next + 1
  /\ UNCHANGED <<up, here, home, pc, logical, sched, stop, requested, ticket, boot,
                 artifacts, tickets, ledger, faults>>

Next ==
  \/ Start \/ StartRefused \/ Repair \/ Crash \/ Cwd
  \/ Admit \/ Retire \/ Schedule \/ Stop \/ Seal \/ SealFails
  \/ RetireSettled \/ NoHandoff \/ PrepareTicket \/ PrepareFails
  \/ Switch \/ SwitchFails \/ Unticket
  \/ MarkActivated \/ Continue \/ MarkContinuing \/ RecordCrossing
  \/ Deliver \/ Finish
  \/ Raises \/ AdmitStranded

Spec == Init /\ [][Next]_vars

-----------------------------------------------------------------------------

Tickets == [turn : Turns, seg : Segments, src : Root, dst : Root, status : Statuses]

TypeOK ==
  /\ up \in BOOLEAN /\ here \in Root /\ home \in Root
  /\ pc = "down" <=> ~up
  /\ logical.id \in 0..MaxTurns /\ logical.seg \in Segments
  /\ Cardinality(logical.edges) = logical.seg
  /\ active \in BOOLEAN /\ requested \in BOOLEAN
  /\ sched \subseteq Root /\ Cardinality(sched) <= 1
  /\ stop \in {"none", "end_turn", "other"}
  /\ ticket \subseteq Tickets /\ Cardinality(ticket) <= 1
  /\ boot \subseteq Tickets /\ Cardinality(boot) <= 1
  /\ journals \subseteq [root : Root, turn : Turns, seg : Segments,
                         seal : Outcomes \cup {"open"}]
  /\ artifacts \subseteq [root : Root, turn : Turns, seg : Segments,
                          outcome : Outcomes]
  /\ tickets \subseteq Tickets
  /\ delivered \subseteq Turns \X Root /\ crossed \subseteq Turns \X Segments

\* A request has at most one final answer, in one workspace; the ledger says
\* delivered only of that one, and between turns of every one that the
\* workspace the process was started in has sealed, whatever crashed between
\* the seal and the record (cli.py:1594-1606, event_ledger.py:397-436).
OneAnswer ==
  LET final == {a \in artifacts : a.outcome = "terminal"}
      owed == IF pc = "idle" THEN Answered(home) ELSE {}
  IN /\ \A a, b \in final : a.turn = b.turn => a = b
     /\ delivered \subseteq {<<a.turn, a.root>> : a \in final}
     /\ {<<a.turn, a.root>> : a \in owed} \subseteq delivered

\* The state is well typed, and a crash never leaves two live transition heads for one request
\* (cli.py:2737-2741).
OneLiveHead ==
  /\ TypeOK
  /\ \A k, m \in tickets : k.turn = m.turn => k = m

\* Wherever a later segment has left a trace, its crossing is in the ledger or
\* the ticket that will put it there is still live (cli.py:1577-1591, 1330-1352).
CrossingNeverLost ==
  \A j \in journals \cup artifacts :
    j.seg > 0 =>
      \/ <<j.turn, j.seg - 1>> \in crossed
      \/ \E k \in tickets : k.turn = j.turn /\ k.seg = j.seg - 1

\* After a crash or a durability stop every workspace starts again: "Restart
\* SliceAgent after fixing storage so recovery can finish" (cli.py:2728-2730).
WorkspaceReopens == ~up => \A w \in Root : Opens(w)
=============================================================================
