------------------------ MODULE WorkspaceHandoffProofs ------------------------
(***************************************************************************)
(* What holds of WorkspaceHandoff for any workspaces, any budget of        *)
(* switches and any number of requests, crashes and I/O errors.            *)
(***************************************************************************)
EXTENDS WorkspaceHandoff, FiniteSetTheorems, TLAPS

----------------------------------------------------------------------------
(* The inductive invariant *)

\* The turn has a journal.
Journaled == {"admitted", "running", "sealing", "begun", "continuing"}
\* The ticket at hand, if any, is that of a crossing already made.
Settled == {"admitted", "running", "sealing", "sealed", "activate", "closing", "finishing"}
\* The switch is under way: its ticket is not continuing yet.
Crossing == {"ticketed", "unticket", "published", "activated", "begun", "continuing"}
\* A turn is in hand, and its composer has not given it up.
InHand == Journaled \cup Settled \cup Crossing

Traces == journals \cup artifacts

\* A set with at most one element.
Lone(S, T) == S = {} \/ \E x \in T : S = {x}

Shapes ==
  /\ up \in BOOLEAN /\ here \in Root /\ home \in Root
  /\ pc \in InHand \cup {"down", "booting", "idle", "stranded"}
  /\ pc = "down" <=> ~up
  /\ logical \in [id : 0..MaxTurns, seg : Segments, edges : SUBSET (Root \X Root)]
  /\ IsFiniteSet(logical.edges) /\ Cardinality(logical.edges) = logical.seg
  /\ active \in BOOLEAN /\ requested \in BOOLEAN
  /\ Lone(sched, Root)
  /\ stop \in {"none", "end_turn", "other"}
  /\ Lone(ticket, Tickets) /\ Lone(boot, Tickets)
  /\ journals \subseteq [root : Root, turn : Turns, seg : Segments,
                         seal : Outcomes \cup {"open"}]
  /\ artifacts \subseteq [root : Root, turn : Turns, seg : Segments,
                          outcome : Outcomes]
  /\ tickets \subseteq Tickets /\ IsFiniteSet(tickets)
  /\ delivered \subseteq Turns \X Root /\ crossed \subseteq Turns \X Segments
  /\ next \in 1..MaxTurns + 1 /\ faults \in 0..MaxFaults

\* Where the process has no turn, it remembers none; requests are numbered as
\* they come.
Numbered ==
  /\ pc \in {"down", "booting", "idle"} => logical = NoTurn /\ sched = {} /\ ticket = {}
  /\ pc \in InHand => logical.id \in Turns
  /\ pc = "down" => boot = {}
  /\ pc = "booting" => home = here
  /\ logical.id < next
  /\ \A x \in Traces \cup tickets : x.turn < next

\* A scheduled switch is a new edge within the budget, and it is scheduled only
\* between the schedule and the switch.
Planned ==
  /\ pc \in InHand \ {"running", "sealing", "sealed", "activate", "ticketed"} => sched = {}
  /\ pc \in {"ticketed", "unticket", "published", "activated", "begun", "continuing"} => requested
  /\ pc = "activate" => (requested <=> sched # {})
  /\ pc \in InHand => \A w \in sched : MaySchedule(w)

\* The tickets of the turn in hand: at most the one at hand, at the stage the
\* composer is in; behind a prepare that failed, one may be left over.
Ticketed ==
  pc \in InHand =>
    /\ pc \notin {"closing", "finishing"} =>
         \A k \in tickets : k.turn = logical.id => k \in ticket
    /\ \A k \in ticket : k \in tickets /\ k.turn = logical.id
    /\ pc = "admitted" \/ (pc = "activate" /\ sched # {}) => ticket = {}
    /\ pc \in Settled => \A k \in ticket : <<k.turn, k.seg>> \in crossed
    /\ pc \in Crossing => ticket # {}
    /\ pc \in {"ticketed", "unticket", "published"} =>
         \A k \in ticket : k.status = "prepared" /\ k.seg = logical.seg
    /\ pc = "activated" =>
         \A k \in ticket : k.status = "activated" /\ k.seg = logical.seg
    /\ pc \in {"begun", "continuing"} =>
         \A k \in ticket : k.status # "prepared" /\ k.seg + 1 = logical.seg
    /\ pc \in {"ticketed", "published", "activated"} =>
         logical.seg < MaxSwitches /\ \A k \in ticket : <<k.src, k.dst>> \notin logical.edges

\* The adopted ticket is on disk and of an older request, and once the process
\* has started its crossing is in the ledger.
Adopted ==
  /\ boot \subseteq tickets
  /\ pc \in InHand => \A k \in boot : k.turn # logical.id
  /\ pc # "booting" => \A k \in boot : k.status # "prepared" => <<k.turn, k.seg>> \in crossed

\* One live transition head for each request.
OneHead == \A k, m \in tickets : k.turn = m.turn => k = m

\* A ticket that was only prepared has no later segment behind it, nor has the
\* turn in hand a segment after its own.
NoneAhead ==
  /\ \A k \in tickets : k.status = "prepared" =>
       \A x \in Traces : x.turn = k.turn => x.seg <= k.seg
  /\ pc \in InHand => \A x \in Traces : x.turn = logical.id => x.seg <= logical.seg

\* What Stop prepares the journal with.
Outcome == IF stop # "end_turn" THEN "stopped"
           ELSE IF sched # {} THEN "transition" ELSE "terminal"

\* The turn in hand has at most one journal, here, that of its segment.
OneJournal ==
  pc \in InHand =>
    /\ \A j \in journals : j.turn = logical.id =>
         /\ pc \in Journaled /\ j.root = here /\ j.seg = logical.seg
         /\ j.seal = IF pc = "sealing" THEN Outcome ELSE "open"
    /\ pc \in Journaled => \E j \in journals : j.turn = logical.id

\* The segments that ended, or are to end, their request with an answer.
Last(x) == [root |-> x.root, turn |-> x.turn, seg |-> x.seg]
Ends == {Last(j) : j \in {i \in journals : i.seal = "terminal"}}
          \cup {Last(a) : a \in {b \in artifacts : b.outcome = "terminal"}}

\* One for each request; the turn in hand has one only on its way out.
OneEnd ==
  /\ \A x, y \in Ends : x.turn = y.turn => x = y
  /\ pc \in InHand => \A x \in Ends : x.turn = logical.id =>
       /\ pc \in {"sealing", "sealed", "activate", "closing", "finishing"}
       /\ stop = "end_turn" /\ x.root = here
       /\ sched = {}
       /\ pc \in {"activate", "closing", "finishing"} => ~requested

\* The answer of the turn in hand is sealed before it is delivered.
SealedHere == \E a \in artifacts :
  a.root = here /\ a.turn = logical.id /\ a.outcome = "terminal"
SealedFirst ==
  /\ pc = "sealed" /\ sched = {} /\ stop = "end_turn" => SealedHere
  /\ pc \in {"activate", "closing"} /\ FinalAnswer => SealedHere

\* Only what is sealed is delivered, and in the workspace the process was
\* started in all that is sealed, but for the answer of the turn in hand.
Told ==
  /\ \A d \in delivered : \E a \in artifacts :
       a.outcome = "terminal" /\ d = <<a.turn, a.root>>
  /\ up => \A j \in journals : j.root = home /\ j.seal = "terminal" =>
       pc = "sealing" /\ j.turn = logical.id
  /\ pc \notin {"down", "booting", "stranded"} =>
       \A a \in Answered(home) :
         \/ <<a.turn, a.root>> \in delivered
         \/ a.turn = logical.id /\ pc \in {"sealed", "activate", "closing"}

Inv ==
  /\ Shapes /\ Numbered /\ Planned /\ Ticketed /\ Adopted /\ OneHead /\ NoneAhead
  /\ OneJournal /\ OneEnd /\ SealedFirst /\ Told /\ CrossingNeverLost

----------------------------------------------------------------------------
(* Facts about stores and tickets *)

JournalType == [root : Root, turn : Turns, seg : Segments, seal : Outcomes \cup {"open"}]
ArtifactType == [root : Root, turn : Turns, seg : Segments, outcome : Outcomes]

\* Recovery of w moves journals of w into artifacts, and adds nothing.
LEMMA RecoverMoves ==
  ASSUME Shapes, NEW w \in Root, Recover(w)
  PROVE  /\ artifacts' \subseteq ArtifactType /\ journals' \subseteq journals
         /\ artifacts \subseteq artifacts'
         /\ \A a \in artifacts' \ artifacts : \E j \in journals :
              /\ j.root = w /\ Last(a) = Last(j)
              /\ a.outcome = IF j.seal = "open" THEN "interrupted" ELSE j.seal
         /\ \A j \in journals \ journals' : j.root = w
         /\ Opens(w) => \A j \in journals' : j.root # w
<1>1. \A j \in journals : /\ Recovered(j) \in ArtifactType /\ Last(Recovered(j)) = Last(j)
                          /\ Recovered(j).outcome = IF j.seal = "open" THEN "interrupted" ELSE j.seal
  <2> SUFFICES ASSUME NEW j \in journals
               PROVE /\ Recovered(j) \in ArtifactType /\ Last(Recovered(j)) = Last(j)
                     /\ Recovered(j).outcome = IF j.seal = "open" THEN "interrupted" ELSE j.seal
    OBVIOUS
  <2> DEFINE o == IF j.seal = "open" THEN "interrupted" ELSE j.seal
  <2>1. j \in JournalType BY DEF Shapes, JournalType
  <2>2. o \in Outcomes BY <2>1 DEF JournalType, Outcomes
  <2>3. Recovered(j) = [root |-> j.root, turn |-> j.turn, seg |-> j.seg, outcome |-> o]
    BY DEF Recovered, Artifact
  <2> HIDE DEF o
  <2>4. /\ Recovered(j) \in ArtifactType /\ Recovered(j).outcome = o /\ Recovered(j).root = j.root
        /\ Recovered(j).turn = j.turn /\ Recovered(j).seg = j.seg
    BY <2>1, <2>2, <2>3 DEF JournalType, ArtifactType
  <2> QED BY <2>4 DEF Last, o
<1>2. PICK S \in SUBSET JournalsOf(w), T \in SUBSET JournalsOf(w) :
        /\ artifacts' = artifacts \cup {Recovered(j) : j \in S}
        /\ journals' = journals \ T
        /\ Opens(w) => T = JournalsOf(w)
  <2> DEFINE recoverable == {j \in JournalsOf(w) : ~Conflict(j)}
  <2>1. Opens(w) => recoverable = JournalsOf(w) BY DEF Opens
  <2> QED BY <2>1 DEF Recover
<1>3. artifacts' \subseteq ArtifactType
  BY <1>1, <1>2 DEF Shapes, ArtifactType, JournalsOf
<1> QED BY <1>1, <1>2, <1>3 DEF JournalsOf

\* The tickets that start or end at a workspace are finitely many.
LEMMA PendingIsFinite ==
  ASSUME Shapes, NEW w \in Root, Cardinality(Pending(w)) = 1
  PROVE  Lone(Pending(w), Tickets)
<1>1. IsFiniteSet(Pending(w))
  BY FS_Subset DEF Shapes, Pending
<1>2. \E k : Pending(w) = {k}
  BY <1>1, FS_Singleton
<1> QED BY <1>2 DEF Lone, Pending, Shapes

\* A ticket that advances takes the place of the one at hand.
LEMMA AdvanceOne ==
  ASSUME Shapes, NEW s \in Statuses, Advance(s)
  PROVE  \E k \in ticket, m \in Tickets :
           /\ ticket = {k} /\ ticket' = {m}
           /\ tickets' = (tickets \ {k}) \cup {m}
           /\ m.turn = k.turn /\ m.seg = k.seg /\ m.src = k.src /\ m.dst = k.dst /\ m.status = s
<1>1. PICK k \in ticket : /\ tickets' = (tickets \ {k}) \cup {[k EXCEPT !.status = s]}
                          /\ ticket' = {[k EXCEPT !.status = s]}
  BY DEF Advance
<1>2. k \in Tickets /\ ticket = {k}
  BY DEF Shapes, Lone
<1> DEFINE m == [k EXCEPT !.status = s]
<1>3. m \in Tickets /\ m.turn = k.turn /\ m.seg = k.seg /\ m.src = k.src /\ m.dst = k.dst /\ m.status = s
  BY <1>2 DEF Tickets
<1> HIDE DEF m
<1> QED BY <1>1, <1>2, <1>3 DEF m

\* Preparing adds the ticket of the switch and takes it in hand.
LEMMA PrepareOne ==
  ASSUME PrepareTicket
  PROVE  \E w \in sched : \E k :
           /\ k = Fresh(w) /\ tickets' = tickets \cup {k} /\ ticket' = {k}
           /\ k.turn = logical.id /\ k.seg = logical.seg /\ k.src = here /\ k.dst = w
           /\ k.status = "prepared"
<1>1. PICK w \in sched : tickets' = tickets \cup {Fresh(w)} /\ ticket' = {Fresh(w)}
  BY DEF PrepareTicket, Fresh
<1>2. /\ Fresh(w).turn = logical.id /\ Fresh(w).seg = logical.seg /\ Fresh(w).src = here
      /\ Fresh(w).dst = w /\ Fresh(w).status = "prepared"
  BY DEF Fresh
<1> QED BY <1>1, <1>2

\* A prepare that fails may have added it.
LEMMA PrepareHalf ==
  ASSUME PrepareFails
  PROVE  \/ tickets' = tickets
         \/ \E w \in sched : \E k :
              /\ k = Fresh(w) /\ tickets' = tickets \cup {k}
              /\ k.turn = logical.id /\ k.seg = logical.seg /\ k.status = "prepared"
<1>1. PICK w \in sched : tickets' \in {tickets, tickets \cup {Fresh(w)}}
  BY DEF PrepareFails
<1>2. Fresh(w).turn = logical.id /\ Fresh(w).seg = logical.seg /\ Fresh(w).status = "prepared"
  BY DEF Fresh
<1> QED BY <1>1, <1>2

----------------------------------------------------------------------------
(* Every variable keeps its shape *)

\* The shapes at the start.
LEMMA InitShapes == Init => Shapes
<1> SUFFICES ASSUME Init PROVE Shapes OBVIOUS
<1>1. IsFiniteSet({}) /\ Cardinality({}) = 0 BY FS_EmptySet
<1>2. logical = NoTurn /\ NoTurn \in [id : 0..MaxTurns, seg : Segments, edges : SUBSET (Root \X Root)]
      /\ NoTurn.edges = {} /\ NoTurn.seg = 0
  BY HandoffAssumption DEF Init, Nothing, NoTurn, Segments
<1>3. IsFiniteSet(logical.edges) /\ Cardinality(logical.edges) = logical.seg BY <1>1, <1>2
<1>4. next \in 1..MaxTurns + 1 /\ faults \in 0..MaxFaults BY HandoffAssumption DEF Init
<1> QED BY <1>1, <1>2, <1>3, <1>4 DEF Init, Nothing, Shapes, Lone

\* Every step keeps the shapes; the plan bounds the segments and the edges.
LEMMA NextShapes ==
  ASSUME Shapes, Numbered, Ticketed, OneJournal, [Next]_vars
  PROVE  Shapes'
<1> USE HandoffAssumption
<1> USE DEF InHand, Journaled, Settled, Crossing
<1>a. NoTurn \in [id : 0..MaxTurns, seg : Segments, edges : SUBSET (Root \X Root)]
      /\ NoTurn.edges = {} /\ NoTurn.seg = 0
  BY DEF NoTurn, Segments
<1>b. IsFiniteSet({}) /\ Cardinality({}) = 0 BY FS_EmptySet
<1>c. \A S \in SUBSET tickets : IsFiniteSet(S) BY FS_Subset DEF Shapes
<1>1. CASE Start
  <2>1. PICK w \in Root :
          /\ Recover(w) /\ here' = w /\ home' = w
          /\ boot' = IF Cardinality(Pending(w)) = 1 THEN Pending(w) ELSE {}
    BY <1>1 DEF Start
  <2>2. Lone(boot', Tickets) BY <2>1, PendingIsFinite DEF Lone
  <2> QED BY <1>1, <2>1, <2>2, RecoverMoves DEF Start, Goto, Shapes, JournalType, ArtifactType, ledger, bounds
<1>2. CASE StartRefused
  BY <1>2, RecoverMoves DEF StartRefused, Shapes, JournalType, ArtifactType, ledger, bounds
<1>3. CASE Repair
  <2>1. crossed' \subseteq Turns \X Segments
    BY <1>3 DEF Repair, CrossedTickets, Shapes, Lone, Tickets
  <2>2. delivered' \subseteq Turns \X Root
    BY <1>3 DEF Repair, Answered, Shapes
  <2> QED BY <1>3, <2>1, <2>2 DEF Repair, Goto, Shapes, stores, bounds
<1>4. CASE Crash \/ SealFails
  <2>1. Dies /\ UNCHANGED <<stores, tickets, ledger, next>> /\ faults' \in 0..MaxFaults
    BY <1>4 DEF Crash, SealFails, Fault, Shapes, bounds
  <2>2. logical' = NoTurn BY <2>1 DEF Dies
  <2>3. /\ logical' \in [id : 0..MaxTurns, seg : Segments, edges : SUBSET (Root \X Root)]
        /\ IsFiniteSet(logical'.edges) /\ Cardinality(logical'.edges) = logical'.seg
    BY <2>2, <1>a, <1>b
  <2> QED BY <2>1, <2>3 DEF Dies, Goto, Shapes, Lone, stores, ledger
<1>5. CASE Cwd
  BY <1>5, RecoverMoves DEF Cwd, Shapes, JournalType, ArtifactType, ledger, bounds
<1>6. CASE Admit
  <2> DEFINE new == [id |-> next, seg |-> 0, edges |-> {}]
  <2>1. Journal(here, next, 0, "open") \in JournalType
    BY <1>6 DEF Admit, Journal, JournalType, Shapes, Segments
  <2>2. next \in Turns /\ next \in 0..MaxTurns /\ next' \in 1..MaxTurns + 1
    BY <1>6 DEF Admit, Turns, Shapes
  <2>3. new \in [id : 0..MaxTurns, seg : Segments, edges : SUBSET (Root \X Root)]
        /\ new.edges = {} /\ new.seg = 0
    BY <2>2 DEF Segments
  <2>4. logical' = new BY <1>6 DEF Admit
  <2> HIDE DEF new
  <2> QED BY <1>6, <1>b, <2>1, <2>2, <2>3, <2>4 DEF Admit, Goto, Shapes, JournalType, ledger
<1>7. CASE Retire
  BY <1>7, <1>c DEF Retire, Clear, Fault, Goto, Shapes, Lone, stores, ledger
<1>8. CASE Schedule
  BY <1>8 DEF Schedule, Goto, Shapes, Lone, stores, ledger, bounds
<1>9. CASE Stop
  <2>1. PICK s \in {"end_turn", "other"}, o \in Outcomes :
          /\ stop' = s
          /\ journals' = {IF j.root = here /\ j.turn = logical.id
                          THEN [j EXCEPT !.seal = o] ELSE j : j \in journals}
    BY <1>9 DEF Stop, Outcomes
  <2>2. \A j \in journals : [j EXCEPT !.seal = o] \in JournalType
    BY DEF Shapes, JournalType
  <2>3. journals' \subseteq JournalType
    BY <2>1, <2>2 DEF Shapes, JournalType
  <2> QED BY <1>9, <2>1, <2>3 DEF Stop, Goto, Shapes, JournalType, ledger, bounds
<1>10. CASE Seal
  <2>1. \A j \in Sealed : j.seal # "open" => Artifact(j, j.seal) \in ArtifactType
    BY DEF Sealed, JournalsOf, Shapes, Artifact, ArtifactType
  <2>2. \A j \in Sealed : j.seal # "open"
    BY <1>10 DEF Seal, Sealed, JournalsOf, OneJournal, Outcome
  <2> QED BY <1>10, <2>1, <2>2 DEF Seal, Goto, Shapes, ArtifactType, ledger, bounds
<1>11. CASE RetireSettled
  BY <1>11, <1>c DEF RetireSettled, Clear, Goto, Shapes, Lone, stores, ledger, bounds
<1>12. CASE NoHandoff \/ PrepareFails
  <2>1. CASE tickets' = tickets
    BY <1>12, <2>1 DEF NoHandoff, PrepareFails, Fault, Goto, Shapes, Lone, stores, ledger, bounds
  <2>2. CASE PrepareFails /\ tickets' # tickets
    <3>1. PICK w \in sched : \E k : k = Fresh(w) /\ tickets' = tickets \cup {k}
      BY <2>2, PrepareHalf
    <3>2. PICK k : k = Fresh(w) /\ tickets' = tickets \cup {k}
      BY <3>1
    <3>3. k \in Tickets
      BY <2>2, <3>2 DEF Fresh, PrepareFails, Tickets, Shapes, Numbered, Turns, Statuses, Lone, Segments
    <3>4. IsFiniteSet(tickets') BY <3>2, FS_AddElement DEF Shapes
    <3> QED BY <2>2, <3>2, <3>3, <3>4 DEF PrepareFails, Fault, Goto, Shapes, Lone, stores, ledger
  <2> QED BY <1>12, <2>1, <2>2 DEF NoHandoff
<1>13. CASE PrepareTicket
  <2>1. PICK w \in sched : \E k :
          /\ k = Fresh(w) /\ tickets' = tickets \cup {k} /\ ticket' = {k}
          /\ k.turn = logical.id /\ k.seg = logical.seg /\ k.src = here /\ k.dst = w
          /\ k.status = "prepared"
    BY <1>13, PrepareOne
  <2>2. PICK k : k = Fresh(w) /\ tickets' = tickets \cup {k} /\ ticket' = {k}
    BY <2>1
  <2>3. k \in Tickets
    BY <1>13, <2>2 DEF Fresh, PrepareTicket, Tickets, Shapes, Numbered, Turns, Statuses, Lone, Segments
  <2>4. IsFiniteSet(tickets') BY <2>2, FS_AddElement DEF Shapes
  <2> QED BY <1>13, <2>2, <2>3, <2>4 DEF PrepareTicket, Goto, Shapes, Lone, stores, ledger, bounds
<1>14. CASE Switch
  BY <1>14, RecoverMoves DEF Switch, Goto, Shapes, Lone, JournalType, ArtifactType, ledger, bounds
<1>15. CASE SwitchFails
  BY <1>15, RecoverMoves DEF SwitchFails, Fault, Goto, Shapes, Lone, JournalType, ArtifactType,
                             stores, ledger, bounds
<1>16. CASE Unticket
  BY <1>16, <1>c DEF Unticket, Clear, Goto, Shapes, Lone, stores, ledger, bounds
<1>17. ASSUME NEW s \in Statuses, Advance(s),
              \/ pc = "published" /\ Goto("activated")
              \/ pc = "begun" /\ Goto("continuing"),
              UNCHANGED <<up, here, home, logical, active, sched, stop, requested, boot,
                          stores, ledger, bounds>>
       PROVE  Shapes'
  <2>1. PICK k \in ticket, m \in Tickets :
           ticket' = {m} /\ tickets' = (tickets \ {k}) \cup {m}
    BY <1>17, AdvanceOne
  <2>2. IsFiniteSet(tickets')
    BY <2>1, <1>c, FS_AddElement
  <2> QED BY <1>17, <2>1, <2>2 DEF Goto, Shapes, Lone, stores, ledger, bounds
<1>18. CASE MarkActivated \/ MarkContinuing
  BY <1>17, <1>18 DEF MarkActivated, MarkContinuing, Statuses
<1>19. CASE Continue
  <2>1. PICK k \in ticket :
          /\ journals' = journals \cup {Journal(here, logical.id, logical.seg + 1, "open")}
          /\ logical' = Continued(k)
    BY <1>19 DEF Continue
  <2>2. /\ k \in Tickets /\ <<k.src, k.dst>> \notin logical.edges /\ logical.seg < MaxSwitches
    BY <1>19, <2>1 DEF Continue, Ticketed, Shapes, Lone
  <2>3. logical.id \in Turns BY <1>19 DEF Continue, Numbered
  <2> DEFINE e == logical.edges \cup {<<k.src, k.dst>>}
  <2>4. e \in SUBSET (Root \X Root) /\ IsFiniteSet(e) /\ Cardinality(e) = logical.seg + 1
    <3>1. /\ e \in SUBSET (Root \X Root) /\ logical.seg \in Nat
          /\ IsFiniteSet(logical.edges) /\ Cardinality(logical.edges) = logical.seg
      BY <2>2 DEF Shapes, Tickets, Segments
    <3> QED BY <2>2, <3>1, FS_AddElement
  <2>5. logical.seg + 1 \in Segments BY <2>2 DEF Shapes, Segments
  <2>6. logical' = [logical EXCEPT !.seg = logical.seg + 1, !.edges = e]
    BY <2>1 DEF Continued
  <2> HIDE DEF e
  <2>7. /\ logical' \in [id : 0..MaxTurns, seg : Segments, edges : SUBSET (Root \X Root)]
        /\ logical'.edges = e /\ logical'.seg = logical.seg + 1
    BY <2>4, <2>5, <2>6 DEF Shapes
  <2>8. Journal(here, logical.id, logical.seg + 1, "open") \in JournalType
    BY <2>3, <2>5 DEF Journal, JournalType, Shapes
  <2> QED BY <1>19, <2>1, <2>4, <2>7, <2>8 DEF Continue, Goto, Shapes, JournalType, ledger, bounds
<1>20. CASE RecordCrossing
  <2>1. PICK k \in ticket : k.seg + 1 = logical.seg
    BY <1>20 DEF RecordCrossing, Ticketed
  <2>2. logical.id \in Turns /\ logical.seg - 1 \in Segments
    BY <1>20, <2>1 DEF RecordCrossing, Numbered, Shapes, Lone, Tickets, Segments
  <2> QED BY <1>20, <2>2 DEF RecordCrossing, Goto, Shapes, stores, bounds
<1>21. CASE Deliver
  <2>1. logical.id \in Turns BY <1>21 DEF Deliver, Numbered
  <2> QED BY <1>21, <2>1 DEF Deliver, Goto, Shapes, stores, bounds
<1>22. CASE Finish
  BY <1>22, <1>a, <1>b, <1>c DEF Finish, Clear, Goto, Shapes, Lone, stores, ledger, bounds
<1>23. CASE Raises
  BY <1>23 DEF Raises, CanRaise, Fault, Goto, Shapes, stores, ledger
<1>24. CASE AdmitStranded
  <2>1. Journal(here, next, 0, "open") \in JournalType
    BY <1>24 DEF AdmitStranded, Journal, JournalType, Shapes, Segments
  <2>2. next' \in 1..MaxTurns + 1
    BY <1>24 DEF AdmitStranded, Turns, Shapes
  <2> QED BY <1>24, <2>1, <2>2 DEF AdmitStranded, Shapes, JournalType, ledger
<1>25. CASE UNCHANGED vars
  BY <1>25 DEF vars, memory, stores, ledger, bounds, Shapes
<1> QED
  BY <1>1, <1>2, <1>3, <1>4, <1>5, <1>6, <1>7, <1>8, <1>9, <1>10, <1>11, <1>12, <1>13, <1>14,
     <1>15, <1>16, <1>18, <1>19, <1>20, <1>21, <1>22, <1>23, <1>24, <1>25 DEF Next

----------------------------------------------------------------------------
(* What a step does to the stores *)

\* Two records of the same segment.
Alike(x, y) == x.root = y.root /\ x.turn = y.turn /\ x.seg = y.seg

\* Two records have the same end when they are of the same segment.
LEMMA LastAlike == ASSUME NEW x, NEW y PROVE Last(x) = Last(y) <=> Alike(x, y)
  BY DEF Last, Alike

\* Every trace was there before, so was every end; journals only go, artifacts
\* only come.
Kept ==
  /\ \A x \in Traces' : \E y \in Traces : Alike(x, y)
  /\ Ends' \subseteq Ends
  /\ artifacts \subseteq artifacts' /\ journals' \subseteq journals

\* A segment is opened: its journal is added.
Opened(j) ==
  /\ journals' = journals \cup {j} /\ artifacts' = artifacts
  /\ j \in JournalType /\ j.seal = "open"

\* A recovery adds no trace and no end.
LEMMA RecoverKeeps ==
  ASSUME Shapes, NEW w \in Root, Recover(w)
  PROVE  Kept
<1>1. \A x \in Traces' : \E y \in Traces : Alike(x, y)
  BY RecoverMoves, LastAlike DEF Traces, Alike
<1>2. Ends' \subseteq Ends
  <2> SUFFICES ASSUME NEW x \in Ends' PROVE x \in Ends OBVIOUS
  <2>1. CASE \E j \in journals' : j.seal = "terminal" /\ x = Last(j)
    BY <2>1, RecoverMoves DEF Ends
  <2>2. CASE \E a \in artifacts' : a.outcome = "terminal" /\ x = Last(a)
    BY <2>2, RecoverMoves DEF Ends
  <2> QED BY <2>1, <2>2 DEF Ends
<1> QED BY <1>1, <1>2, RecoverMoves DEF Kept

\* A seal turns the journal into its artifact and adds no trace and no end.
LEMMA SealKeeps ==
  ASSUME Seal
  PROVE  /\ Kept /\ journals' = journals \ Sealed
         /\ artifacts' = artifacts \cup {Artifact(j, j.seal) : j \in Sealed}
<1>1. /\ journals' = journals \ Sealed
      /\ artifacts' = artifacts \cup {Artifact(j, j.seal) : j \in Sealed}
  BY DEF Seal
<1>2. \A j \in Sealed : /\ Last(Artifact(j, j.seal)) = Last(j) /\ j \in journals
                        /\ Artifact(j, j.seal).outcome = j.seal
  BY DEF Sealed, JournalsOf, Last, Artifact
<1>3. \A x \in Traces' : \E y \in Traces : Alike(x, y)
  BY <1>1, <1>2, LastAlike DEF Traces, Alike
<1>4. Ends' \subseteq Ends
  BY <1>1, <1>2 DEF Ends
<1> QED BY <1>1, <1>3, <1>4 DEF Kept

\* The stores change in four ways.
LEMMA StoreShape ==
  ASSUME Shapes, Numbered, Ticketed, [Next]_vars
  PROVE  \/ Kept
         \/ (Admit \/ AdmitStranded) /\ Opened(Journal(here, next, 0, "open"))
         \/ Continue /\ Opened(Journal(here, logical.id, logical.seg + 1, "open"))
         \/ Stop
<1>1. CASE UNCHANGED stores
  BY <1>1 DEF Kept, stores, Traces, Ends, Alike
<1>2. ASSUME NEW w \in Root, Recover(w) PROVE Kept
  BY <1>2, RecoverKeeps
<1>3. CASE Start \/ StartRefused \/ Cwd
  BY <1>2, <1>3 DEF Start, StartRefused, Cwd
<1>4. CASE Switch
  BY <1>2, <1>4 DEF Switch, Shapes, Lone
<1>5. CASE SwitchFails
  BY <1>1, <1>2, <1>5 DEF SwitchFails, Shapes, Lone
<1>6. CASE Seal
  BY <1>6, SealKeeps
<1>7. CASE Admit \/ AdmitStranded
  <2>1. Journal(here, next, 0, "open") \in JournalType /\ Journal(here, next, 0, "open").seal = "open"
    BY <1>7, HandoffAssumption DEF Admit, AdmitStranded, Journal, JournalType, Shapes, Segments
  <2> QED BY <1>7, <2>1 DEF Admit, AdmitStranded, Opened
<1>8. CASE Continue
  <2> DEFINE j == Journal(here, logical.id, logical.seg + 1, "open")
  <2>1. logical.id \in Turns /\ logical.seg + 1 \in Segments
    <3>1. logical.id \in Turns /\ logical.seg < MaxSwitches /\ logical.seg \in Nat
      BY <1>8 DEF Continue, Numbered, Ticketed, InHand, Crossing, Shapes, Segments
    <3> QED BY <3>1, HandoffAssumption DEF Segments
  <2>2. j \in JournalType /\ j.seal = "open"
    BY <2>1 DEF Journal, JournalType, Shapes
  <2> QED BY <1>8, <2>2 DEF Continue, Opened
<1>9. CASE Stop
  BY <1>9
<1>10. CASE \/ Repair \/ Crash \/ Retire \/ Schedule \/ SealFails \/ RetireSettled \/ NoHandoff
            \/ PrepareTicket \/ PrepareFails \/ Unticket \/ MarkActivated \/ MarkContinuing
            \/ RecordCrossing \/ Deliver \/ Finish \/ Raises
  BY <1>1, <1>10 DEF Repair, Crash, Retire, Schedule, SealFails, RetireSettled, NoHandoff,
    PrepareTicket, PrepareFails, Unticket, MarkActivated, MarkContinuing, RecordCrossing,
    Deliver, Finish, Raises
<1>11. CASE UNCHANGED vars
  BY <1>1, <1>11 DEF vars
<1> QED BY <1>3, <1>4, <1>5, <1>6, <1>7, <1>8, <1>9, <1>10, <1>11 DEF Next

\* Stop prepares the journal of the turn in hand and leaves the others alone.
LEMMA StopSeals ==
  ASSUME Shapes, Stop
  PROVE  /\ artifacts' = artifacts /\ tickets' = tickets /\ UNCHANGED <<here, home, logical, sched>>
         /\ pc = "running" /\ pc' = "sealing" /\ Outcome' \in Outcomes
         /\ \A x \in journals' : \E y \in journals :
              /\ Alike(x, y)
              /\ x.seal = IF y.root = here /\ y.turn = logical.id THEN Outcome' ELSE y.seal
         /\ \A y \in journals : \E x \in journals' : Alike(x, y)
<1> DEFINE Mine(j) == j.root = here /\ j.turn = logical.id
<1>1. PICK o \in Outcomes :
        /\ journals' = {IF Mine(j) THEN [j EXCEPT !.seal = o] ELSE j : j \in journals}
        /\ o = Outcome'
  BY DEF Stop, Outcomes, Outcome
<1>2. \A j \in journals : /\ Alike([j EXCEPT !.seal = o], j) /\ [j EXCEPT !.seal = o].seal = o
                          /\ Alike(j, j)
  BY DEF Shapes, Alike
<1>3. \A j \in journals :
        /\ (IF Mine(j) THEN [j EXCEPT !.seal = o] ELSE j) \in journals'
        /\ Alike((IF Mine(j) THEN [j EXCEPT !.seal = o] ELSE j), j)
        /\ (IF Mine(j) THEN [j EXCEPT !.seal = o] ELSE j).seal = IF Mine(j) THEN o ELSE j.seal
  BY <1>1, <1>2
<1>4. /\ artifacts' = artifacts /\ tickets' = tickets /\ UNCHANGED <<here, home, logical, sched>>
      /\ pc = "running" /\ pc' = "sealing"
  BY DEF Stop, Goto, ledger, bounds
<1> QED BY <1>1, <1>3, <1>4

----------------------------------------------------------------------------
(* Requests, plans and tickets *)

\* These steps end, or do not begin, a turn in hand.
Outside == \/ Start \/ StartRefused \/ Repair \/ Crash \/ SealFails \/ Cwd
           \/ Finish \/ Raises \/ AdmitStranded

\* After them there is no turn in hand.
LEMMA NotInHand ==
  ASSUME Shapes, Outside
  PROVE  pc' \notin InHand
  BY DEF Outside, Start, StartRefused, Repair, Crash, SealFails, Dies, Cwd, Finish, Raises, AdmitStranded,
         Goto, Shapes, InHand, Journaled, Settled, Crossing

\* The number of the next request only grows.
LEMMA NumbersGrow == ASSUME Shapes, [Next]_vars PROVE next' \in Nat /\ next' >= next
  BY HandoffAssumption
     DEF Next, Start, StartRefused, Repair, Crash, SealFails, Dies, Cwd, Finish, Raises, AdmitStranded,
         Admit, Retire, Schedule, Stop, Seal, RetireSettled, NoHandoff, PrepareTicket, PrepareFails,
         Switch, SwitchFails, Unticket, MarkActivated, Continue, MarkContinuing, RecordCrossing,
         Deliver, vars, bounds, Shapes

\* Every trace is of a request that has been numbered.
LEMMA TracesNumbered ==
  ASSUME Shapes, Numbered, Ticketed, [Next]_vars
  PROVE  \A x \in Traces' : x.turn < next'
<1>0. /\ next \in Nat /\ next' \in Nat /\ next' >= next /\ logical.id \in Nat /\ logical.id < next
      /\ \A x \in Traces : x.turn \in Nat /\ x.turn < next
  BY NumbersGrow, HandoffAssumption DEF Shapes, Traces, Numbered, Turns
<1>1. CASE Kept
  BY <1>0, <1>1 DEF Kept, Alike
<1>2. CASE (Admit \/ AdmitStranded) /\ Opened(Journal(here, next, 0, "open"))
  <2>1. next' = next + 1 BY <1>2 DEF Admit, AdmitStranded
  <2> QED BY <1>0, <1>2, <2>1 DEF Opened, Journal, Traces
<1>3. CASE Continue /\ Opened(Journal(here, logical.id, logical.seg + 1, "open"))
  BY <1>0, <1>3 DEF Opened, Journal, Traces
<1>4. CASE Stop
  BY <1>0, <1>4, StopSeals DEF Traces, Alike
<1> QED BY <1>1, <1>2, <1>3, <1>4, StoreShape

\* Requests stay numbered as they come.
LEMMA NextNumbered ==
  ASSUME Shapes, Numbered, Planned, Ticketed, [Next]_vars
  PROVE  Numbered'
<1> USE DEF InHand, Journaled, Settled, Crossing
<1>0. /\ next \in Nat /\ next' \in Nat /\ next' >= next /\ logical.id \in Nat /\ logical.id < next
      /\ \A k \in tickets : k.turn \in Nat /\ k.turn < next
  BY NumbersGrow, HandoffAssumption DEF Shapes, Numbered, Turns, Tickets
<1>1. \A k \in tickets' : k.turn < next'
  <2>1. CASE tickets' \subseteq tickets
    BY <1>0, <2>1
  <2>2. CASE PrepareTicket \/ PrepareFails
    BY <1>0, <2>2, PrepareOne, PrepareHalf
  <2>3. CASE MarkActivated \/ MarkContinuing
    BY <1>0, <2>3, AdvanceOne DEF MarkActivated, MarkContinuing, Statuses, Ticketed
  <2>4. [Next]_vars /\ ~PrepareTicket /\ ~PrepareFails /\ ~MarkActivated /\ ~MarkContinuing
          => tickets' \subseteq tickets
    BY DEF Next, Start, StartRefused, Repair, Crash, SealFails, Dies, Cwd, Finish, Raises, AdmitStranded,
           Admit, Retire, Schedule, Stop, Seal, RetireSettled, NoHandoff, Clear,
           Switch, SwitchFails, Unticket, Continue, RecordCrossing, Deliver, vars
  <2> QED BY <2>1, <2>2, <2>3, <2>4
<1>2. logical'.id < next'
  <2>1. CASE logical' = logical BY <1>0, <2>1
  <2>2. CASE logical' = NoTurn BY <1>0, <2>2, NumbersGrow, HandoffAssumption DEF NoTurn, Shapes
  <2>3. CASE Admit BY <1>0, <2>3 DEF Admit
  <2>4. CASE Continue BY <1>0, <2>4 DEF Continue, Continued, Shapes
  <2>5. [Next]_vars /\ ~Admit /\ ~Continue => logical' = logical \/ logical' = NoTurn
    BY DEF Next, Start, StartRefused, Repair, Crash, SealFails, Dies, Cwd, Finish, Raises, AdmitStranded,
           Retire, Schedule, Stop, Seal, RetireSettled, NoHandoff, PrepareTicket, PrepareFails,
           Switch, SwitchFails, Unticket, MarkActivated, MarkContinuing, RecordCrossing, Deliver,
           vars, memory
  <2> QED BY <2>1, <2>2, <2>3, <2>4, <2>5
<1>3. /\ pc' \in {"down", "booting", "idle"} => logical' = NoTurn /\ sched' = {} /\ ticket' = {}
      /\ pc' = "down" => boot' = {}
      /\ pc' = "booting" => home' = here'
  BY DEF Next, Start, StartRefused, Repair, Crash, SealFails, Dies, Cwd, Finish, Raises, AdmitStranded,
         Admit, Retire, Schedule, Stop, Seal, RetireSettled, NoHandoff, PrepareTicket, PrepareFails,
         Switch, SwitchFails, Unticket, MarkActivated, Continue, MarkContinuing, RecordCrossing,
         Deliver, vars, memory, Goto, Shapes, Numbered, Planned
<1>4. pc' \in InHand => logical'.id \in Turns
  <2>1. CASE Outside BY <2>1, NotInHand
  <2>2. CASE Admit BY <2>2 DEF Admit
  <2>3. CASE Continue BY <2>3 DEF Continue, Continued, Shapes, Numbered
  <2>4. CASE UNCHANGED vars BY <2>4 DEF vars, memory, Numbered
  <2>5. [Next]_vars /\ ~Outside /\ ~Admit /\ ~Continue => logical' = logical /\ (pc \in InHand \/ UNCHANGED vars)
    BY DEF Next, Outside,
           Retire, Schedule, Stop, Seal, RetireSettled, NoHandoff, PrepareTicket, PrepareFails,
           Switch, SwitchFails, Unticket, MarkActivated, MarkContinuing, RecordCrossing, Deliver,
           vars, memory
  <2> QED BY <2>1, <2>2, <2>3, <2>4, <2>5 DEF Numbered
<1> QED BY <1>1, <1>2, <1>3, <1>4, TracesNumbered DEF Numbered

\* A switch is only planned where it may be made, until it is made.
LEMMA NextPlanned ==
  ASSUME Shapes, Numbered, Planned, [Next]_vars
  PROVE  Planned'
<1> USE DEF InHand, Journaled, Settled, Crossing
<1>1. CASE Outside
  BY <1>1, NotInHand DEF Planned
<1>2. CASE sched' = {} /\ pc' # "activate" /\ (requested' \/ pc' \notin Crossing)
  BY <1>2 DEF Planned, MaySchedule
<1>3. CASE Admit \/ NoHandoff \/ PrepareFails \/ Switch \/ SwitchFails
  BY <1>2, <1>3 DEF Admit, NoHandoff, PrepareFails, Switch, SwitchFails, Goto, Numbered, Planned
<1>4. CASE Retire \/ Unticket \/ MarkActivated \/ MarkContinuing \/ RecordCrossing \/ Deliver
  BY <1>2, <1>4 DEF Retire, Unticket, MarkActivated, MarkContinuing, RecordCrossing, Deliver, Goto, Planned
<1>5. CASE Continue
  BY <1>2, <1>5 DEF Continue, Goto, Planned
<1>6. CASE Schedule
  <2>1. pc' = "running" /\ \A w \in sched' : MaySchedule(w) BY <1>6 DEF Schedule
  <2>2. here' = here /\ logical' = logical BY <1>6 DEF Schedule
  <2> QED BY <2>1, <2>2 DEF Planned, MaySchedule
<1>7. CASE Stop \/ Seal \/ RetireSettled \/ PrepareTicket
  <2>1. /\ here' = here /\ logical' = logical /\ sched' = sched
        /\ pc \in {"running", "sealing", "sealed", "activate"}
        /\ pc' \in {"sealing", "sealed", "activate", "ticketed"}
    BY <1>7 DEF Stop, Seal, RetireSettled, PrepareTicket, Goto
  <2>2. pc' = "ticketed" => requested'
    BY <1>7 DEF Stop, Seal, RetireSettled, PrepareTicket, Goto, Planned
  <2>3. pc' = "activate" => (requested' <=> sched' # {})
    BY <1>7 DEF Stop, Seal, RetireSettled, PrepareTicket, Goto
  <2> QED BY <2>1, <2>2, <2>3 DEF Planned, MaySchedule
<1>8. CASE UNCHANGED vars
  BY <1>8 DEF vars, memory, Planned, MaySchedule
<1> QED BY <1>1, <1>3, <1>4, <1>5, <1>6, <1>7, <1>8 DEF Next, Outside

\* The ticket at hand follows the composer through the switch.
LEMMA NextTicketed ==
  ASSUME Shapes, Numbered, Planned, Ticketed, Adopted, [Next]_vars
  PROVE  Ticketed'
<1> USE DEF InHand, Journaled, Settled, Crossing
<1>1. CASE Outside
  BY <1>1, NotInHand DEF Ticketed
<1>2. CASE Admit
  <2>1. \A k \in tickets : k.turn # next
    BY DEF Numbered, Shapes
  <2>2. pc' = "admitted" /\ ticket' = {} /\ tickets' = tickets /\ logical'.id = next
    BY <1>2 DEF Admit, Goto, Numbered
  <2> QED BY <2>1, <2>2 DEF Ticketed
<1>3. CASE Retire
  <2>1. tickets' \subseteq tickets /\ tickets \ tickets' \subseteq boot
        /\ ticket' = ticket /\ logical' = logical /\ crossed' = crossed /\ pc = "admitted" /\ pc' = "running"
    BY <1>3 DEF Retire, Clear, Goto, ledger
  <2> QED BY <2>1 DEF Ticketed, Adopted
<1>4. CASE Schedule \/ Stop \/ Seal \/ NoHandoff \/ Deliver
  <2>1. /\ tickets' = tickets /\ ticket' = ticket /\ logical' = logical /\ crossed' = crossed
        /\ pc \in Settled /\ pc' \in Settled \ {"admitted", "activate"} /\ pc # "admitted"
        /\ pc \in {"closing", "finishing"} => pc' \in {"closing", "finishing"}
    BY <1>4 DEF Schedule, Stop, Seal, NoHandoff, Deliver, Goto, ledger
  <2> QED BY <2>1 DEF Ticketed
<1>5. CASE RetireSettled
  <2>1. /\ logical' = logical /\ crossed' = crossed /\ pc = "sealed" /\ pc' = "activate" /\ sched' = sched
        /\ IF sched # {} THEN tickets' = tickets \ ticket /\ ticket' = {}
           ELSE tickets' = tickets /\ ticket' = ticket
    BY <1>5 DEF RetireSettled, Clear, Goto, ledger
  <2> QED BY <2>1 DEF Ticketed
<1>6. CASE PrepareFails
  <2>1. /\ logical' = logical /\ ticket' = ticket /\ crossed' = crossed /\ tickets \subseteq tickets'
        /\ pc = "activate" /\ pc' = "closing"
    BY <1>6, PrepareHalf DEF PrepareFails, Goto, ledger
  <2> QED BY <2>1 DEF Ticketed
<1>7. CASE PrepareTicket
  <2>1. PICK w \in sched : \E k :
          /\ k = Fresh(w) /\ tickets' = tickets \cup {k} /\ ticket' = {k}
          /\ k.turn = logical.id /\ k.seg = logical.seg /\ k.src = here /\ k.dst = w
          /\ k.status = "prepared"
    BY <1>7, PrepareOne
  <2>2. PICK k :
          /\ tickets' = tickets \cup {k} /\ ticket' = {k}
          /\ k.turn = logical.id /\ k.seg = logical.seg /\ k.src = here /\ k.dst = w
          /\ k.status = "prepared"
    BY <2>1
  <2>3. logical' = logical /\ pc = "activate" /\ pc' = "ticketed" /\ sched # {}
    BY <1>7 DEF PrepareTicket, Goto
  <2>4. \A m \in tickets : m.turn # logical.id
    BY <2>3 DEF Ticketed
  <2>5. logical.seg < MaxSwitches /\ <<here, w>> \notin logical.edges
    BY <2>3 DEF Planned, MaySchedule
  <2> QED BY <2>2, <2>3, <2>4, <2>5 DEF Ticketed
<1>8. CASE Switch \/ SwitchFails
  <2>1. /\ tickets' = tickets /\ ticket' = ticket /\ logical' = logical /\ crossed' = crossed
        /\ pc = "ticketed" /\ pc' \in {"published", "unticket"}
    BY <1>8 DEF Switch, SwitchFails, Goto, ledger
  <2> QED BY <2>1 DEF Ticketed
<1>9. CASE Unticket
  BY <1>9 DEF Unticket, Clear, Goto, Ticketed, ledger
<1>10. CASE MarkActivated
  <2>1. PICK k \in ticket, m \in Tickets :
           /\ ticket = {k} /\ ticket' = {m} /\ tickets' = (tickets \ {k}) \cup {m}
           /\ m.turn = k.turn /\ m.seg = k.seg /\ m.src = k.src /\ m.dst = k.dst /\ m.status = "activated"
    BY <1>10, AdvanceOne DEF MarkActivated, Statuses
  <2>2. logical' = logical /\ pc = "published" /\ pc' = "activated"
    BY <1>10 DEF MarkActivated, Goto
  <2> QED BY <2>1, <2>2 DEF Ticketed
<1>11. CASE Continue
  <2>1. PICK k \in ticket : logical' = Continued(k) BY <1>11 DEF Continue
  <2>2. logical'.id = logical.id /\ logical'.seg = logical.seg + 1
    BY <2>1 DEF Continued, Shapes
  <2>3. tickets' = tickets /\ ticket' = ticket /\ pc = "activated" /\ pc' = "begun"
    BY <1>11 DEF Continue, Goto
  <2> QED BY <2>2, <2>3 DEF Ticketed
<1>12. CASE MarkContinuing
  <2>1. PICK k \in ticket, m \in Tickets :
           /\ ticket = {k} /\ ticket' = {m} /\ tickets' = (tickets \ {k}) \cup {m}
           /\ m.turn = k.turn /\ m.seg = k.seg /\ m.status = "continuing"
    BY <1>12, AdvanceOne DEF MarkContinuing, Statuses
  <2>2. logical' = logical /\ pc = "begun" /\ pc' = "continuing"
    BY <1>12 DEF MarkContinuing, Goto
  <2> QED BY <2>1, <2>2 DEF Ticketed
<1>13. CASE RecordCrossing
  <2>1. /\ crossed' = crossed \cup {<<logical.id, logical.seg - 1>>}
        /\ tickets' = tickets /\ ticket' = ticket /\ logical' = logical
        /\ pc = "continuing" /\ pc' = "running"
    BY <1>13 DEF RecordCrossing, Goto
  <2>2. \A k \in ticket : k.turn = logical.id /\ k.seg = logical.seg - 1
    BY <2>1 DEF Ticketed, Shapes, Lone, Tickets, Segments
  <2> QED BY <2>1, <2>2 DEF Ticketed
<1>14. CASE UNCHANGED vars
  BY <1>14 DEF vars, memory, ledger, Ticketed
<1> QED BY <1>1, <1>2, <1>3, <1>4, <1>5, <1>6, <1>7, <1>8, <1>9, <1>10, <1>11, <1>12, <1>13, <1>14
        DEF Next, Outside

\* The tickets change in five ways.
LEMMA TicketShape ==
  ASSUME Shapes, Ticketed, Adopted, [Next]_vars
  PROVE  \/ tickets' = tickets
         \/ Retire /\ tickets' = tickets \ boot /\ boot' = {}
         \/ (RetireSettled \/ Unticket \/ Finish) /\ tickets' = tickets \ ticket
         \/ PrepareTicket \/ PrepareFails
         \/ MarkActivated \/ MarkContinuing
  BY DEF Next, Start, StartRefused, Repair, Crash, SealFails, Dies, Cwd, Finish, Raises, AdmitStranded,
         Admit, Retire, Schedule, Stop, Seal, RetireSettled, NoHandoff, Clear,
         Switch, SwitchFails, Unticket, Continue, RecordCrossing, Deliver, vars

\* The adopted ticket stays on disk until a fresh turn retires it.
LEMMA NextAdopted ==
  ASSUME Shapes, Numbered, Ticketed, Adopted, [Next]_vars
  PROVE  Adopted'
<1> USE DEF InHand, Journaled, Settled, Crossing
<1>1. CASE Start
  <2>1. boot' \subseteq tickets /\ tickets' = tickets /\ pc' = "booting"
    BY <1>1 DEF Start, Pending, Goto
  <2> QED BY <2>1 DEF Adopted
<1>2. CASE Crash \/ SealFails
  BY <1>2 DEF Crash, SealFails, Dies, Goto, Adopted
<1>3. CASE Repair
  <2>1. /\ boot' = boot /\ tickets' = tickets /\ pc' = "idle"
        /\ crossed' = crossed \cup {<<k.turn, k.seg>> : k \in {m \in boot : m.status # "prepared"}}
    BY <1>3 DEF Repair, CrossedTickets, Goto
  <2> QED BY <2>1 DEF Adopted
<1>4. CASE Retire
  <2>1. /\ (boot' = boot /\ tickets' = tickets) \/ boot' = {}
        /\ logical' = logical /\ crossed' = crossed /\ pc = "admitted"
    BY <1>4 DEF Retire, ledger
  <2> QED BY <2>1 DEF Adopted
<1>5. CASE Admit
  <2>1. \A k \in boot : k.turn # next
    BY DEF Adopted, Numbered, Shapes
  <2> QED BY <1>5, <2>1 DEF Admit, Goto, Adopted, ledger
<1>6. CASE Continue
  <2>1. logical'.id = logical.id
    BY <1>6 DEF Continue, Continued, Shapes
  <2> QED BY <1>6, <2>1 DEF Continue, Goto, Adopted, ledger, bounds
<1>7. CASE MarkActivated \/ MarkContinuing
  <2>1. PICK k \in ticket, m \in Tickets : tickets' = (tickets \ {k}) \cup {m}
    BY <1>7, AdvanceOne DEF MarkActivated, MarkContinuing, Statuses
  <2>2. pc \in InHand /\ boot' = boot /\ logical' = logical /\ crossed' = crossed
    BY <1>7 DEF MarkActivated, MarkContinuing, ledger
  <2>3. boot \subseteq tickets'
    BY <2>1, <2>2 DEF Adopted, Ticketed
  <2> QED BY <2>2, <2>3 DEF Adopted
<1>8. CASE RetireSettled \/ Unticket \/ Finish
  <2>1. /\ tickets' = tickets \/ tickets' = tickets \ ticket
        /\ pc \in InHand /\ pc' # "booting" /\ boot' = boot /\ crossed' = crossed
        /\ pc' \in InHand => logical' = logical
    BY <1>8 DEF RetireSettled, Unticket, Finish, Clear, Goto, ledger
  <2> QED BY <2>1 DEF Adopted, Ticketed
<1>9. CASE \/ StartRefused \/ Cwd \/ Schedule \/ Stop \/ Seal \/ NoHandoff \/ PrepareTicket
           \/ PrepareFails \/ Switch \/ SwitchFails \/ RecordCrossing \/ Deliver \/ Raises
           \/ AdmitStranded \/ UNCHANGED vars
  <2>1. /\ boot' = boot /\ tickets \subseteq tickets' /\ crossed \subseteq crossed'
        /\ pc' \in InHand => logical' = logical /\ pc \in InHand
        /\ pc = "booting" => pc' = "booting"
    BY <1>9 DEF StartRefused, Cwd, Schedule, Stop, Seal, NoHandoff, PrepareTicket, PrepareFails,
       Switch, SwitchFails, RecordCrossing, Deliver, Raises, CanRaise, AdmitStranded, vars, memory, ledger, bounds, Goto,
       Shapes
  <2> QED BY <2>1 DEF Adopted
<1> QED BY <1>1, <1>2, <1>3, <1>4, <1>5, <1>6, <1>7, <1>8, <1>9 DEF Next

\* A new head is prepared only when the turn's last one is retired.
LEMMA NextOneHead ==
  ASSUME Shapes, Ticketed, Adopted, OneHead, [Next]_vars
  PROVE  OneHead'
<1> USE DEF InHand, Journaled, Settled, Crossing
<1>1. CASE tickets' \subseteq tickets
  BY <1>1 DEF OneHead
<1>2. CASE PrepareTicket
  <2>1. PICK w \in sched : \E k :
          /\ k = Fresh(w) /\ tickets' = tickets \cup {k} /\ ticket' = {k}
          /\ k.turn = logical.id /\ k.seg = logical.seg /\ k.src = here /\ k.dst = w
          /\ k.status = "prepared"
    BY <1>2, PrepareOne
  <2>2. \A m \in tickets : m.turn # logical.id
    BY <1>2 DEF PrepareTicket, Ticketed
  <2> QED BY <2>1, <2>2 DEF OneHead
<1>3. CASE MarkActivated \/ MarkContinuing
  <2>1. PICK k \in ticket, m \in Tickets :
          /\ ticket = {k} /\ tickets' = (tickets \ {k}) \cup {m} /\ m.turn = k.turn
    BY <1>3, AdvanceOne DEF MarkActivated, MarkContinuing, Statuses
  <2>2. k \in tickets
    BY <1>3 DEF MarkActivated, MarkContinuing, Ticketed
  <2> QED BY <2>1, <2>2 DEF OneHead
<1>4. CASE PrepareFails
  <2>1. \A m \in tickets : m.turn # logical.id
    BY <1>4 DEF PrepareFails, Ticketed
  <2> QED BY <1>4, <2>1, PrepareHalf DEF OneHead
<1> QED BY <1>1, <1>2, <1>3, <1>4, TicketShape

----------------------------------------------------------------------------
(* Segments *)

\* No segment runs ahead of its prepared ticket.
LEMMA NextNoneAhead ==
  ASSUME Shapes, Numbered, Ticketed, Adopted, OneHead, NoneAhead, [Next]_vars
  PROVE  NoneAhead'
<1> USE DEF InHand, Journaled, Settled, Crossing
<1> DEFINE Ahead(t, n) == \E x \in Traces : x.turn = t /\ x.seg > n
<1>0. /\ \A x \in Traces : x.turn \in Nat /\ x.seg \in Nat /\ x.turn < next
      /\ \A k \in tickets : k.seg \in Nat /\ k.turn \in Nat /\ k.turn < next
      /\ next \in Nat /\ logical.seg \in Nat
  BY HandoffAssumption DEF Shapes, Traces, Turns, Segments, Tickets, Numbered
\* the traces of a turn reach no further, unless its next segment is opened
<1>1. \A x \in Traces' : \/ \E y \in Traces : x.turn = y.turn /\ x.seg = y.seg
                         \/ (Admit \/ AdmitStranded) /\ x.turn = next /\ x.seg = 0
                         \/ Continue /\ x.turn = logical.id /\ x.seg = logical.seg + 1
  <2>1. CASE Kept BY <2>1 DEF Kept, Alike
  <2>2. CASE (Admit \/ AdmitStranded) /\ Opened(Journal(here, next, 0, "open"))
    BY <2>2 DEF Opened, Journal, Traces
  <2>3. CASE Continue /\ Opened(Journal(here, logical.id, logical.seg + 1, "open"))
    BY <2>3 DEF Opened, Journal, Traces
  <2>4. CASE Stop
    BY <2>4, StopSeals DEF Traces, Alike
  <2> QED BY <2>1, <2>2, <2>3, <2>4, StoreShape
\* the turn in hand
<1>2. ASSUME pc' \in InHand, NEW x \in Traces', x.turn = logical'.id PROVE x.seg <= logical'.seg
  <2>1. CASE Outside BY <1>2, <2>1, NotInHand
  <2>2. CASE Admit
    <3>1. logical'.id = next /\ logical'.seg = 0 /\ x.turn = next BY <1>2, <2>2 DEF Admit
    <3>2. ~Continue BY <2>2 DEF Admit, Continue
    <3> QED BY <1>0, <1>1, <3>1, <3>2
  <2>3. CASE Continue
    <3>1. logical'.id = logical.id /\ logical'.seg = logical.seg + 1 /\ pc = "activated"
      BY <2>3 DEF Continue, Continued, Shapes
    <3>2. ~Admit /\ ~AdmitStranded BY <2>3 DEF Admit, AdmitStranded, Continue
    <3> QED BY <1>0, <1>1, <1>2, <3>1, <3>2 DEF NoneAhead
  <2>4. CASE ~Outside /\ ~Admit /\ ~Continue
    <3>1. logical' = logical /\ pc \in InHand
      BY <1>2, <2>4 DEF Next, Outside, Retire, Schedule, Stop, Seal, RetireSettled, NoHandoff, PrepareTicket,
         PrepareFails, Switch, SwitchFails, Unticket, MarkActivated, MarkContinuing, RecordCrossing,
         Deliver, vars, memory
    <3> QED BY <1>1, <1>2, <2>4, <3>1 DEF NoneAhead, Outside
  <2> QED BY <2>1, <2>2, <2>3, <2>4
\* a ticket that is still only prepared
<1>3. ASSUME NEW k \in tickets', k.status = "prepared", NEW x \in Traces', x.turn = k.turn
      PROVE  x.seg <= k.seg
  <2>1. CASE k \in tickets
    <3>1. k.turn # next BY <1>0, <2>1
    <3>2. ~(Continue /\ k.turn = logical.id)
      BY <1>3, <2>1 DEF Continue, Ticketed
    <3> QED BY <1>1, <1>3, <2>1, <3>1, <3>2 DEF NoneAhead
  <2>2. CASE PrepareTicket /\ k \notin tickets
    <3>1. k.turn = logical.id /\ k.seg = logical.seg BY <2>2, PrepareOne
    <3>2. pc' = "ticketed" /\ logical' = logical BY <2>2 DEF PrepareTicket, Goto
    <3> QED BY <1>2, <1>3, <3>1, <3>2
  <2>3. CASE PrepareFails /\ k \notin tickets
    <3>1. k.turn = logical.id /\ k.seg = logical.seg BY <2>3, PrepareHalf
    <3>2. pc' = "closing" /\ logical' = logical BY <2>3 DEF PrepareFails, Goto
    <3> QED BY <1>2, <1>3, <3>1, <3>2
  <2>4. CASE MarkActivated \/ MarkContinuing
    <3>1. PICK k2 \in ticket, m \in Tickets :
            tickets' = (tickets \ {k2}) \cup {m} /\ m.status \in {"activated", "continuing"}
      BY <2>4, AdvanceOne DEF MarkActivated, MarkContinuing, Statuses
    <3> QED BY <1>3, <2>1, <3>1
  <2> QED BY <1>3, <2>1, <2>2, <2>3, <2>4, TicketShape
<1> QED BY <1>2, <1>3 DEF NoneAhead

\* The turn in hand keeps one journal, opened and sealed with its segments.
LEMMA NextOneJournal ==
  ASSUME Shapes, Numbered, Planned, Ticketed, OneJournal, [Next]_vars
  PROVE  OneJournal'
<1> USE DEF InHand, Journaled, Settled, Crossing
<1>1. CASE Outside
  BY <1>1, NotInHand DEF OneJournal
<1>2. CASE Admit
  <2> DEFINE j == Journal(here, next, 0, "open")
  <2>1. /\ journals' = journals \cup {j} /\ pc' = "admitted"
        /\ logical'.id = next /\ logical'.seg = 0 /\ here' = here
    BY <1>2 DEF Admit, Goto
  <2>2. j.turn = next /\ j.seg = 0 /\ j.root = here /\ j.seal = "open" BY DEF Journal
  <2>3. \A i \in journals : i.turn # next BY DEF Numbered, Traces, Shapes
  <2> HIDE DEF j
  <2> QED BY <2>1, <2>2, <2>3 DEF OneJournal
<1>3. CASE Retire \/ Schedule
  BY <1>3 DEF Retire, Schedule, Goto, stores, OneJournal, ledger, bounds
<1>4. CASE Stop
  <2>1. /\ here' = here /\ logical' = logical /\ pc = "running" /\ pc' = "sealing"
        /\ \A x \in journals' : \E y \in journals :
              /\ Alike(x, y)
              /\ x.seal = IF y.root = here /\ y.turn = logical.id THEN Outcome' ELSE y.seal
        /\ \A y \in journals : \E x \in journals' : Alike(x, y)
    BY <1>4, StopSeals
  <2> QED BY <2>1 DEF OneJournal, Alike
<1>5. CASE Seal
  <2>1. journals' = journals \ Sealed /\ here' = here /\ logical' = logical /\ pc' = "sealed"
        /\ pc = "sealing"
    BY <1>5, SealKeeps DEF Seal, Goto
  <2>2. \A j \in journals : j.turn = logical.id => j \in Sealed
    BY <2>1 DEF OneJournal, Sealed, JournalsOf
  <2> QED BY <2>1, <2>2 DEF OneJournal
<1>6. CASE RetireSettled \/ NoHandoff \/ PrepareTicket \/ PrepareFails \/ Unticket \/ MarkActivated \/ Deliver
  <2>1. /\ journals' = journals /\ logical' = logical
        /\ pc \in InHand \ Journaled /\ pc' \in InHand \ Journaled
    BY <1>6 DEF RetireSettled, NoHandoff, PrepareTicket, PrepareFails, Unticket, MarkActivated,
                Deliver, Goto, stores
  <2> QED BY <2>1 DEF OneJournal
<1>7. CASE Switch \/ SwitchFails
  <2>1. journals' \subseteq journals
    BY <1>7, RecoverMoves DEF Switch, SwitchFails, stores, Shapes, Lone
  <2>2. /\ logical' = logical
        /\ pc \in InHand \ Journaled /\ pc' \in InHand \ Journaled
    BY <1>7 DEF Switch, SwitchFails, Goto
  <2> QED BY <2>1, <2>2 DEF OneJournal
<1>8. CASE Continue
  <2> DEFINE j == Journal(here, logical.id, logical.seg + 1, "open")
  <2>1. /\ journals' = journals \cup {j} /\ pc = "activated" /\ pc' = "begun" /\ here' = here
        /\ logical'.id = logical.id /\ logical'.seg = logical.seg + 1
    BY <1>8 DEF Continue, Goto, Continued, Shapes
  <2>2. /\ j.turn = logical.id /\ j.seg = logical.seg + 1 /\ j.root = here /\ j.seal = "open"
    BY DEF Journal
  <2> HIDE DEF j
  <2> QED BY <2>1, <2>2 DEF OneJournal
<1>9. CASE MarkContinuing \/ RecordCrossing
  <2>1. /\ journals' = journals /\ logical' = logical /\ here' = here
        /\ pc \in {"begun", "continuing"} /\ pc' \in {"continuing", "running"}
    BY <1>9 DEF MarkContinuing, RecordCrossing, Goto, stores
  <2> QED BY <2>1 DEF OneJournal
<1>10. CASE UNCHANGED vars
  BY <1>10 DEF vars, memory, stores, OneJournal, Outcome
<1> QED BY <1>1, <1>2, <1>3, <1>4, <1>5, <1>6, <1>7, <1>8, <1>9, <1>10 DEF Next, Outside

\* A ticket is removed only after its crossing is recorded, or when it had none.
LEMMA NextCrossing ==
  ASSUME Shapes, Numbered, Ticketed, Adopted, OneHead, NoneAhead, CrossingNeverLost, [Next]_vars
  PROVE  CrossingNeverLost'
<1> USE DEF InHand, Journaled, Settled, Crossing
<1> DEFINE Found(t, n) == \/ <<t, n>> \in crossed
                          \/ \E k \in tickets : k.turn = t /\ k.seg = n
<1>0. \A x \in Traces : x.turn \in Turns /\ x.seg \in Nat
  BY HandoffAssumption DEF Shapes, Traces, Segments
<1>1. \A x \in Traces' : \/ \E y \in Traces : x.turn = y.turn /\ x.seg = y.seg
                         \/ x.seg = 0
                         \/ Continue /\ x.turn = logical.id /\ x.seg = logical.seg + 1
  <2>1. CASE Kept BY <2>1 DEF Kept, Alike
  <2>2. CASE (Admit \/ AdmitStranded) /\ Opened(Journal(here, next, 0, "open"))
    BY <2>2 DEF Opened, Journal, Traces
  <2>3. CASE Continue /\ Opened(Journal(here, logical.id, logical.seg + 1, "open"))
    BY <2>3 DEF Opened, Journal, Traces
  <2>4. CASE Stop
    BY <2>4, StopSeals DEF Traces, Alike
  <2> QED BY <2>1, <2>2, <2>3, <2>4, StoreShape
\* what is found is found again, unless its ticket was only prepared
<1>2. ASSUME NEW y \in Traces, y.seg > 0, Found(y.turn, y.seg - 1)
      PROVE  \/ <<y.turn, y.seg - 1>> \in crossed'
             \/ \E k \in tickets' : k.turn = y.turn /\ k.seg = y.seg - 1
  <2>1. crossed \subseteq crossed'
    BY DEF Next, Start, StartRefused, Repair, Crash, SealFails, Dies, Cwd, Finish, Raises, AdmitStranded,
         Admit, Retire, Schedule, Stop, Seal, RetireSettled, NoHandoff, PrepareTicket, PrepareFails,
         Switch, SwitchFails, Unticket, MarkActivated, Continue, MarkContinuing, RecordCrossing,
         Deliver, vars, ledger
  <2>2. SUFFICES ASSUME <<y.turn, y.seg - 1>> \notin crossed,
                        NEW k \in tickets, k.turn = y.turn, k.seg = y.seg - 1
                 PROVE  \E m \in tickets' : m.turn = y.turn /\ m.seg = y.seg - 1
    BY <1>2, <2>1
  <2>3. k.status # "prepared"
    BY <1>0, <1>2, <2>2 DEF NoneAhead
  <2>4. CASE tickets' = tickets \/ PrepareTicket \/ PrepareFails
    <3>1. tickets \subseteq tickets' BY <2>4, PrepareOne, PrepareHalf
    <3> QED BY <2>2, <3>1
  <2>5. CASE Retire /\ tickets' = tickets \ boot
    BY <2>2, <2>3, <2>5 DEF Retire, Adopted
  <2>6. CASE (RetireSettled \/ Unticket \/ Finish) /\ tickets' = tickets \ ticket
    BY <2>2, <2>3, <2>6 DEF RetireSettled, Unticket, Finish, Ticketed
  <2>7. CASE MarkActivated \/ MarkContinuing
    <3>1. PICK k2 \in ticket, m \in Tickets :
            tickets' = (tickets \ {k2}) \cup {m} /\ m.turn = k2.turn /\ m.seg = k2.seg
      BY <2>7, AdvanceOne DEF MarkActivated, MarkContinuing, Statuses
    <3> QED BY <2>2, <3>1
  <2> QED BY <2>4, <2>5, <2>6, <2>7, TicketShape
<1>3. ASSUME Continue
      PROVE  \E k \in tickets' : k.turn = logical.id /\ k.seg = logical.seg
  BY <1>3 DEF Continue, Ticketed
<1> SUFFICES ASSUME NEW x \in Traces', x.seg > 0
             PROVE  \/ <<x.turn, x.seg - 1>> \in crossed'
                    \/ \E k \in tickets' : k.turn = x.turn /\ k.seg = x.seg - 1
  BY DEF CrossingNeverLost, Traces
<1>4. CASE \E y \in Traces : x.turn = y.turn /\ x.seg = y.seg
  BY <1>2, <1>4 DEF CrossingNeverLost, Traces
<1>5. CASE Continue /\ x.turn = logical.id /\ x.seg = logical.seg + 1
  <2>1. logical.seg \in Nat BY HandoffAssumption DEF Shapes, Segments
  <2> QED BY <1>3, <1>5, <2>1
<1> QED BY <1>1, <1>4, <1>5

----------------------------------------------------------------------------
(* Answers *)

\* Only Stop makes an end, of the turn in hand, here.
LEMMA EndShape ==
  ASSUME Shapes, Numbered, Ticketed, [Next]_vars
  PROVE  \/ Ends' \subseteq Ends
         \/ /\ Stop /\ Outcome' = "terminal"
            /\ \A x \in Ends' : x \in Ends \/
                 \E j \in journals : j.root = here /\ j.turn = logical.id /\ x = Last(j)
<1>1. CASE Kept
  BY <1>1 DEF Kept
<1>2. ASSUME NEW j, Opened(j) PROVE Ends' \subseteq Ends
  BY <1>2 DEF Opened, Ends
<1>3. CASE Stop
  <2> SUFFICES ASSUME NEW x \in Ends', x \notin Ends
               PROVE  /\ Outcome' = "terminal"
                      /\ \E j \in journals : j.root = here /\ j.turn = logical.id /\ x = Last(j)
    BY <1>3
  <2>1. CASE \E a \in artifacts' : a.outcome = "terminal" /\ x = Last(a)
    BY <1>3, <2>1, StopSeals DEF Ends
  <2>2. CASE \E j \in journals' : j.seal = "terminal" /\ x = Last(j)
    <3>1. PICK j \in journals' : j.seal = "terminal" /\ x = Last(j) BY <2>2
    <3>2. PICK y \in journals :
            /\ Alike(j, y)
            /\ j.seal = IF y.root = here /\ y.turn = logical.id THEN Outcome' ELSE y.seal
      BY <1>3, StopSeals
    <3>3. x = Last(y) BY <3>1, <3>2, LastAlike
    <3> QED BY <3>1, <3>2, <3>3 DEF Ends
  <2> QED BY <2>1, <2>2 DEF Ends
<1> QED BY <1>1, <1>2, <1>3, StoreShape

\* An end is an end of a segment that left a trace.
LEMMA EndsAreTraces ==
  \A x \in Ends : \E y \in Traces : Alike(x, y)
BY DEF Ends, Last, Traces, Alike

\* A handoff is requested where a switch is scheduled.
LEMMA Requests ==
  ASSUME Shapes
  PROVE  /\ RetireSettled => (requested' <=> sched # {})
         /\ NoHandoff \/ Deliver => (requested' <=> requested)
<1>1. RetireSettled => (requested' <=> sched # {}) BY Zenon DEF RetireSettled
<1>2. ASSUME NEW b \in BOOLEAN, requested' = b PROVE requested' <=> b BY <1>2
<1>3. NoHandoff \/ Deliver => requested' = requested BY DEF NoHandoff, Deliver
<1>4. requested \in BOOLEAN BY DEF Shapes
<1> QED BY <1>1, <1>2, <1>3, <1>4

\* A turn that was sealed as answered makes no further switch.
LEMMA NextOneEnd ==
  ASSUME Shapes, Numbered, Planned, Ticketed, OneJournal, OneEnd, [Next]_vars
  PROVE  OneEnd'
<1> USE DEF InHand, Journaled, Settled, Crossing
<1>1. CASE Stop
  <2>0. /\ pc = "running" /\ pc' = "sealing" /\ logical' = logical /\ here' = here /\ sched' = sched
    BY <1>1, StopSeals
  <2>1. \A x \in Ends : x.turn # logical.id BY <2>0 DEF OneEnd
  <2>2. CASE Ends' \subseteq Ends BY <2>0, <2>1, <2>2 DEF OneEnd
  <2>3. CASE /\ Outcome' = "terminal"
             /\ \A x \in Ends' : x \in Ends \/
                  \E j \in journals : j.root = here /\ j.turn = logical.id /\ x = Last(j)
    <3>1. \A x \in Ends' : x \in Ends \/
            x = [root |-> here, turn |-> logical.id, seg |-> logical.seg]
      BY <2>0, <2>3 DEF OneJournal, Last
    <3>2. stop' = "end_turn" /\ sched' = {} BY <2>3 DEF Outcome
    <3> QED BY <2>0, <2>1, <3>1, <3>2 DEF OneEnd
  <2> QED BY <1>1, <2>2, <2>3, EndShape
<1>2. CASE ~Stop
  <2>1. Ends' \subseteq Ends BY <1>2, EndShape
  <2>2. ASSUME pc' \in InHand, NEW x \in Ends, x.turn = logical'.id
        PROVE  /\ pc' \in {"sealing", "sealed", "activate", "closing", "finishing"}
               /\ stop' = "end_turn" /\ x.root = here' /\ sched' = {}
               /\ pc' \in {"activate", "closing", "finishing"} => ~requested'
    <3>1. CASE Outside BY <2>2, <3>1, NotInHand
    <3>2. CASE Admit
      <4>1. \A y \in Traces : y.turn # next BY DEF Numbered, Traces, Shapes
      <4>2. logical'.id = next BY <3>2 DEF Admit
      <4> QED BY <2>2, <4>1, <4>2, EndsAreTraces DEF Alike
    <3>3. CASE Continue
      <4>1. logical'.id = logical.id /\ pc = "activated"
        BY <3>3 DEF Continue, Continued, Shapes
      <4> QED BY <2>2, <4>1 DEF OneEnd
    <3>4. CASE \/ Retire \/ Schedule \/ PrepareTicket \/ PrepareFails \/ Switch \/ SwitchFails
               \/ Unticket \/ MarkActivated \/ MarkContinuing \/ RecordCrossing
      <4>1. /\ logical' = logical /\ pc \in InHand
            /\ pc \in {"activate"} => sched # {}
            /\ pc \notin {"sealing", "sealed", "closing", "finishing"}
        BY <3>4 DEF Retire, Schedule, PrepareTicket, PrepareFails, Switch, SwitchFails, Unticket,
                    MarkActivated, MarkContinuing, RecordCrossing
      <4> QED BY <2>2, <4>1 DEF OneEnd
    <3>5. CASE Seal \/ RetireSettled \/ NoHandoff \/ Deliver
      <4>1. /\ logical' = logical /\ here' = here /\ stop' = stop
            /\ pc \in {"sealing", "sealed", "activate", "closing"}
            /\ pc' \in {"sealed", "activate", "closing", "finishing"}
            /\ sched' = {} \/ sched' = sched
            /\ \/ (requested' <=> requested) /\ pc \notin {"sealing", "sealed"}
               \/ (requested' <=> sched # {})
               \/ pc' = "sealed"
        BY <3>5, Requests DEF Seal, RetireSettled, NoHandoff, Deliver, Goto
      <4> QED BY <2>2, <4>1 DEF OneEnd
    <3>6. CASE UNCHANGED vars BY <2>2, <3>6 DEF vars, memory, OneEnd
    <3> QED BY <1>2, <3>1, <3>2, <3>3, <3>4, <3>5, <3>6 DEF Next, Outside
  <2> QED BY <2>1, <2>2 DEF OneEnd
<1> QED BY <1>1, <1>2

\* No artifact is ever lost.
LEMMA ArtifactsStay ==
  ASSUME Shapes, Numbered, Ticketed, [Next]_vars
  PROVE  artifacts \subseteq artifacts'
BY StoreShape, StopSeals DEF Kept, Opened

\* A final answer that is about to be delivered is already sealed.
LEMMA NextSealedFirst ==
  ASSUME Shapes, Numbered, Planned, Ticketed, OneJournal, SealedFirst, [Next]_vars
  PROVE  SealedFirst'
<1> USE DEF InHand, Journaled, Settled, Crossing
<1>1. CASE Seal
  <2>1. /\ journals' = journals \ Sealed /\ here' = here /\ logical' = logical /\ pc' = "sealed"
        /\ artifacts' = artifacts \cup {Artifact(j, j.seal) : j \in Sealed}
        /\ pc = "sealing" /\ stop' = stop /\ sched' = sched
    BY <1>1, SealKeeps DEF Seal, Goto
  <2>2. PICK j \in journals : j.turn = logical.id /\ j.root = here /\ j.seal = Outcome
    BY <2>1 DEF OneJournal
  <2>3. j \in Sealed BY <2>2 DEF Sealed, JournalsOf
  <2> DEFINE a == Artifact(j, j.seal)
  <2>4. a \in artifacts' /\ a.root = here /\ a.turn = logical.id /\ a.outcome = Outcome
    BY <2>1, <2>2, <2>3 DEF Artifact
  <2> QED BY <2>1, <2>4 DEF SealedFirst, SealedHere, Outcome
<1>2. CASE RetireSettled \/ NoHandoff
  <2>1. /\ artifacts' = artifacts /\ here' = here /\ logical' = logical /\ stop' = stop
        /\ pc \in {"sealed", "activate"} /\ pc' \in {"activate", "closing"}
        /\ pc = "activate" => sched = {} \/ stop # "end_turn"
        /\ pc = "sealed" => (requested' <=> sched # {})
        /\ pc = "activate" => (requested' <=> requested)
    BY <1>2, Requests DEF RetireSettled, NoHandoff, Goto, stores
  <2> QED BY <2>1 DEF SealedFirst, SealedHere, FinalAnswer
<1>3. CASE PrepareFails \/ Unticket
  <2>1. pc' = "closing" /\ requested'
    BY <1>3 DEF PrepareFails, Unticket, Goto, Planned
  <2> QED BY <2>1 DEF SealedFirst, FinalAnswer
<1>4. CASE UNCHANGED vars
  BY <1>4 DEF vars, memory, stores, SealedFirst, SealedHere, FinalAnswer
<1>5. CASE pc' \notin {"sealed", "activate", "closing"}
  BY <1>5 DEF SealedFirst
<1>6. [Next]_vars /\ ~Seal /\ ~RetireSettled /\ ~NoHandoff /\ ~PrepareFails /\ ~Unticket
        => UNCHANGED vars \/ pc' \notin {"sealed", "activate", "closing"}
  BY DEF Next, Start, StartRefused, Repair, Crash, SealFails, Dies, Cwd, Finish, Raises, AdmitStranded,
         Admit, Retire, Schedule, Stop, PrepareTicket,
         Switch, SwitchFails, MarkActivated, Continue, MarkContinuing, RecordCrossing,
         Deliver, Goto, Shapes
<1> QED BY <1>1, <1>2, <1>3, <1>4, <1>5, <1>6

\* An answered artifact at home that is new was sealed just now.
LEMMA AnswersShape ==
  ASSUME Shapes, Numbered, Ticketed, OneJournal, Told, [Next]_vars, up,
         NEW a, a \in artifacts', a.root = home, a.outcome = "terminal"
  PROVE  a \in artifacts \/ (Seal /\ a.turn = logical.id)
<1>1. CASE artifacts' = artifacts
  BY <1>1
<1>2. ASSUME NEW w \in Root, Recover(w), pc # "sealing" PROVE a \in artifacts
  <2> SUFFICES ASSUME a \notin artifacts PROVE FALSE OBVIOUS
  <2>1. PICK j \in journals : j.root = w /\ Last(a) = Last(j) /\ j.seal = "terminal"
    BY <1>2, RecoverMoves
  <2>2. j.root = home BY <2>1, LastAlike DEF Alike
  <2> QED BY <1>2, <2>1, <2>2 DEF Told
<1>3. CASE Cwd \/ Switch \/ SwitchFails
  BY <1>1, <1>2, <1>3 DEF Cwd, Switch, SwitchFails, stores, Shapes, Lone
<1>4. CASE Seal
  <2>1. artifacts' = artifacts \cup {Artifact(j, j.seal) : j \in Sealed}
    BY <1>4, SealKeeps
  <2>2. \A j \in Sealed : Artifact(j, j.seal).turn = logical.id
    BY DEF Sealed, JournalsOf, Artifact
  <2> QED BY <1>4, <2>1, <2>2
<1>5. CASE ~Cwd /\ ~Switch /\ ~SwitchFails /\ ~Seal
  <2>1. artifacts' = artifacts
    BY <1>5 DEF Next, Start, StartRefused, Repair, Crash, SealFails, Finish, Raises, AdmitStranded, Shapes,
       Admit, Retire, Schedule, Stop, RetireSettled, NoHandoff, PrepareTicket, PrepareFails,
       Unticket, MarkActivated, Continue, MarkContinuing, RecordCrossing, Deliver, vars, stores
  <2> QED BY <1>1, <2>1
<1> QED BY <1>3, <1>4, <1>5

\* What is delivered stays true, and what is sealed at home gets delivered.
LEMMA NextTold ==
  ASSUME Shapes, Numbered, Planned, Ticketed, OneJournal, OneEnd, SealedFirst, Told, [Next]_vars
  PROVE  Told'
<1> USE DEF InHand, Journaled, Settled, Crossing
\* what is delivered was sealed
<1>1. \A d \in delivered' : \E a \in artifacts' : a.outcome = "terminal" /\ d = <<a.turn, a.root>>
  <2>1. CASE delivered' = delivered
    BY <2>1, ArtifactsStay DEF Told
  <2>2. CASE Repair
    <3>1. artifacts' = artifacts BY <2>2 DEF Repair, stores
    <3>2. \A d \in delivered' : d \in delivered \/
            \E a \in artifacts : a.outcome = "terminal" /\ d = <<a.turn, a.root>>
      BY <2>2 DEF Repair, Answered
    <3> QED BY <3>1, <3>2 DEF Told
  <2>3. CASE Deliver
    <3>1. artifacts' = artifacts /\ pc = "closing" BY <2>3 DEF Deliver, stores
    <3>2. delivered' = delivered \/ (FinalAnswer /\ delivered' = delivered \cup {<<logical.id, here>>})
      <4>1. CASE FinalAnswer BY <2>3, <4>1 DEF Deliver
      <4>2. CASE ~FinalAnswer BY <2>3, <4>2 DEF Deliver, FinalAnswer
      <4> QED BY <4>1, <4>2
    <3> QED BY <3>1, <3>2 DEF Told, SealedFirst, SealedHere
  <2>4. [Next]_vars /\ ~Repair /\ ~Deliver => delivered' = delivered
    BY DEF Next, Start, StartRefused, Crash, SealFails, Dies, Cwd, Finish, Raises, AdmitStranded,
       Admit, Retire, Schedule, Stop, Seal, RetireSettled, NoHandoff, PrepareTicket, PrepareFails,
       Switch, SwitchFails, Unticket, MarkActivated, Continue, MarkContinuing, RecordCrossing,
       vars, ledger
  <2> QED BY <2>1, <2>2, <2>3, <2>4
\* the process moves house only when it starts
<1>2. CASE Start
  <2>1. PICK w \in Root : Opens(w) /\ Recover(w) /\ home' = w /\ pc' = "booting"
    BY <1>2 DEF Start, Goto
  <2>2. \A j \in journals' : j.root # home'
    BY <2>1, RecoverMoves
  <2> QED BY <1>1, <2>1, <2>2 DEF Told
<1>3. CASE ~up' /\ pc' = "down"
  BY <1>1, <1>3 DEF Told
<1>4. CASE UNCHANGED vars
  BY <1>4 DEF vars, memory, stores, ledger, Told, Answered
<1>5. Start \/ (~up' /\ pc' = "down") \/ UNCHANGED vars \/
        (up /\ home' = home /\ ~StartRefused /\ ~Crash /\ ~SealFails /\ ~Start)
  BY DEF Next, Start, StartRefused, Repair, Crash, SealFails, Dies, Cwd, Finish, Raises, CanRaise, AdmitStranded,
       Admit, Retire, Schedule, Stop, Seal, RetireSettled, NoHandoff, PrepareTicket, PrepareFails,
       Switch, SwitchFails, Unticket, MarkActivated, Continue, MarkContinuing, RecordCrossing,
       Deliver, Goto, Shapes
<1>6. CASE up /\ home' = home /\ ~StartRefused /\ ~Crash /\ ~SealFails /\ ~Start /\ ~UNCHANGED vars
  <2>1. \A j \in journals' : j.root = home /\ j.seal = "terminal" => pc' = "sealing" /\ j.turn = logical'.id
    <3>1. CASE Stop
      BY <1>6, <3>1, StopSeals DEF Told, Alike
    <3>2. ASSUME NEW j, Opened(j)
          PROVE  \A i \in journals' : i.seal = "terminal" => i \in journals
      BY <3>2 DEF Opened
    <3>3. CASE ~Stop
      <4>1. \A j \in journals' : j.seal = "terminal" => j \in journals
        BY <3>2, <3>3, StoreShape DEF Kept
      <4>2. CASE pc # "sealing"
        BY <1>6, <4>1, <4>2 DEF Told
      <4>3. CASE Seal
        <5>1. journals' = journals \ Sealed /\ pc = "sealing" BY <4>3, SealKeeps DEF Seal
        <5>2. \A j \in journals : j.turn = logical.id => j \in Sealed
          BY <5>1 DEF OneJournal, Sealed, JournalsOf
        <5> QED BY <1>6, <4>1, <5>1, <5>2 DEF Told
      <4>4. pc = "sealing" => Seal
        BY <1>6, <3>3 DEF Next, Start, Repair, Cwd, Finish, Raises, CanRaise, AdmitStranded,
           Admit, Retire, Schedule, RetireSettled, NoHandoff, PrepareTicket, PrepareFails,
           Switch, SwitchFails, Unticket, MarkActivated, Continue, MarkContinuing, RecordCrossing,
           Deliver
      <4> QED BY <4>2, <4>3, <4>4
    <3> QED BY <3>1, <3>3
  <2>2. ASSUME pc' \notin {"down", "booting", "stranded"}, NEW a \in Answered(home)'
        PROVE  \/ <<a.turn, a.root>> \in delivered'
               \/ a.turn = logical'.id /\ pc' \in {"sealed", "activate", "closing"}
    <3>0. a \in Answered(home) \/ (Seal /\ a.turn = logical.id)
      <4>1. a \in artifacts' /\ a.root = home /\ a.outcome = "terminal"
        BY <1>6, <2>2 DEF Answered
      <4> QED BY <1>6, <4>1, AnswersShape DEF Answered
    <3>1. CASE Seal
      <4>1. logical' = logical /\ pc = "sealing" /\ pc' = "sealed" /\ delivered' = delivered
        BY <3>1 DEF Seal, Goto, ledger
      <4> QED BY <3>0, <4>1 DEF Told
    <3>2. CASE ~Seal
      <4>0. a \in artifacts /\ a.root = home /\ a.outcome = "terminal" /\ Last(a) \in Ends
            /\ a \in Answered(home)
        BY <3>0, <3>2 DEF Answered, Ends
      <4>1. CASE Repair
        <5>1. home = here BY <4>1 DEF Repair, Numbered
        <5> QED BY <4>0, <4>1, <5>1 DEF Repair, Answered
      <4>2. CASE Deliver
        <5>1. CASE a.turn = logical.id
          <6>1. Last(a).turn = logical.id /\ Last(a).root = a.root BY <5>1 DEF Last
          <6>2. stop = "end_turn" /\ ~requested /\ a.root = here
            BY <4>0, <4>2, <6>1 DEF OneEnd, Deliver
          <6> QED BY <4>2, <5>1, <6>2 DEF Deliver, FinalAnswer
        <5>2. CASE a.turn # logical.id
          BY <4>0, <4>2, <5>2 DEF Deliver, Told
        <5> QED BY <5>1, <5>2
      <4>3. CASE PrepareTicket
        <5>1. a.turn # logical.id
          <6>1. Last(a).turn = a.turn BY DEF Last
          <6> QED BY <4>0, <4>3, <6>1 DEF OneEnd, PrepareTicket
        <5> QED BY <4>0, <4>3, <5>1 DEF PrepareTicket, Told, ledger
      <4>4. CASE RetireSettled \/ NoHandoff \/ PrepareFails
        <5>1. /\ logical' = logical /\ delivered' = delivered /\ pc \in {"sealed", "activate"}
              /\ pc' \in {"activate", "closing"}
          BY <4>4 DEF RetireSettled, NoHandoff, PrepareFails, Goto, ledger
        <5> QED BY <4>0, <5>1 DEF Told
      <4>5. CASE \/ Cwd \/ Admit \/ Retire \/ Schedule \/ Stop \/ Switch \/ SwitchFails \/ Unticket
                 \/ MarkActivated \/ Continue \/ MarkContinuing \/ RecordCrossing \/ Finish
                 \/ Raises \/ AdmitStranded
        <5>1. delivered' = delivered /\ (pc \in {"sealed", "activate", "closing"} => pc' = "stranded")
          BY <4>5 DEF Cwd, Admit, Retire, Schedule, Stop, Switch, SwitchFails, Unticket, MarkActivated,
             Continue, MarkContinuing, RecordCrossing, Finish, Raises, AdmitStranded, Goto, ledger
        <5>2. pc \notin {"down", "booting", "stranded"}
          BY <2>2, <4>5 DEF Cwd, Admit, Retire, Schedule, Stop, Switch, SwitchFails, Unticket, MarkActivated,
             Continue, MarkContinuing, RecordCrossing, Finish, Raises, AdmitStranded, Goto
        <5> QED BY <2>2, <4>0, <5>1, <5>2 DEF Told
      <4> QED BY <1>6, <3>2, <4>1, <4>2, <4>3, <4>4, <4>5 DEF Next
    <3> QED BY <3>1, <3>2
  <2>3. \A a \in Answered(home)' : pc' \notin {"down", "booting", "stranded"} =>
           \/ <<a.turn, a.root>> \in delivered'
           \/ a.turn = logical'.id /\ pc' \in {"sealed", "activate", "closing"}
    BY <2>2
  <2> QED BY <1>1, <1>6, <2>1, <2>3 DEF Told
<1> QED BY <1>2, <1>3, <1>4, <1>5, <1>6

----------------------------------------------------------------------------
(* The theorems *)

\* A first start, in an empty world.
LEMMA InitInv == Init => Inv
<1> SUFFICES ASSUME Init PROVE Inv OBVIOUS
<1>1. Shapes BY InitShapes
<1>2. /\ pc = "down" /\ ~up /\ logical = NoTurn /\ sched = {} /\ ticket = {} /\ boot = {}
      /\ Traces = {} /\ tickets = {} /\ journals = {} /\ artifacts = {} /\ delivered = {}
      /\ Ends = {} /\ NoTurn.id = 0 /\ next = 1 /\ pc \notin InHand
  BY DEF Init, Nothing, NoTurn, Traces, Ends, InHand, Journaled, Settled, Crossing
<1>3. Numbered /\ Planned /\ Ticketed /\ Adopted
  BY <1>2 DEF Numbered, Planned, Ticketed, Adopted
<1>4. OneHead /\ NoneAhead /\ OneJournal /\ OneEnd /\ CrossingNeverLost
  BY <1>2 DEF OneHead, NoneAhead, OneJournal, OneEnd, CrossingNeverLost, Traces
<1>5. SealedFirst /\ Told
  BY <1>2 DEF SealedFirst, Told
<1> QED BY <1>1, <1>3, <1>4, <1>5 DEF Inv

\* The invariant is inductive: each part from itself and the parts before it.
LEMMA Invariance == Spec => []Inv
<1>1. Inv /\ [Next]_vars => Inv'
  BY NextShapes, NextNumbered, NextPlanned, NextTicketed, NextAdopted, NextOneHead, NextNoneAhead,
     NextOneJournal, NextCrossing, NextOneEnd, NextSealedFirst, NextTold DEF Inv
<1> QED BY InitInv, <1>1, PTL DEF Spec

\* At most one element, counted.
LEMMA LoneCounts ==
  ASSUME NEW S, NEW T, Lone(S, T)
  PROVE  S \subseteq T /\ Cardinality(S) <= 1
<1>1. CASE S = {} BY <1>1, FS_EmptySet
<1>2. CASE \E x \in T : S = {x}
  <2>1. PICK x \in T : S = {x} BY <1>2
  <2>2. Cardinality({x}) = 1 BY FS_Singleton
  <2> QED BY <2>1, <2>2
<1> QED BY <1>1, <1>2 DEF Lone

\* The shapes are the type invariant, said so that it can be carried on.
LEMMA ShapesAreTypes == Shapes => TypeOK
<1> SUFFICES ASSUME Shapes PROVE TypeOK OBVIOUS
<1>1. /\ sched \subseteq Root /\ Cardinality(sched) <= 1
      /\ ticket \subseteq Tickets /\ Cardinality(ticket) <= 1
      /\ boot \subseteq Tickets /\ Cardinality(boot) <= 1
  BY LoneCounts DEF Shapes
<1> QED BY <1>1 DEF Shapes, TypeOK

\* However often the process dies between two durable steps, it never has two
\* tickets of one request to choose between when it starts again.
THEOREM HeadsAreUnique == Spec => []OneLiveHead
<1>1. Inv => OneLiveHead
  BY ShapesAreTypes DEF Inv, OneHead, OneLiveHead
<1> QED BY <1>1, Invariance, PTL

\* A later segment of a request is always accounted for, in the ledger or by
\* the ticket that will complete it, also where the switch was cut off, a ticket
\* retired late or the ledger repaired by another start.
THEOREM CrossingsAreKept == Spec => []CrossingNeverLost
<1>1. Inv => CrossingNeverLost
  BY DEF Inv
<1> QED BY <1>1, Invariance, PTL

\* One final answer for each request, recorded only when it is sealed, and
\* between turns recorded whenever it is sealed at home.
THEOREM AnswersAreOne == Spec => []OneAnswer
<1>1. Inv => OneAnswer
  <2> SUFFICES ASSUME Inv PROVE OneAnswer OBVIOUS
  <2> DEFINE final == {a \in artifacts : a.outcome = "terminal"}
  <2>1. ASSUME NEW a \in final, NEW b \in final, a.turn = b.turn PROVE a = b
    <3>1. a \in ArtifactType /\ b \in ArtifactType /\ a.outcome = b.outcome
      BY DEF Inv, Shapes, ArtifactType
    <3>2. Last(a) \in Ends /\ Last(b) \in Ends BY DEF Ends
    <3>3. Last(a).turn = a.turn /\ Last(b).turn = b.turn BY DEF Last
    <3>4. Alike(a, b) BY <2>1, <3>2, <3>3, LastAlike DEF Inv, OneEnd
    <3> QED BY <3>1, <3>4 DEF ArtifactType, Alike
  <2>2. delivered \subseteq {<<a.turn, a.root>> : a \in final}
    BY DEF Inv, Told
  <2>3. pc = "idle" => \A a \in Answered(home) : <<a.turn, a.root>> \in delivered
    BY DEF Inv, Told
  <2> QED BY <2>1, <2>2, <2>3 DEF OneAnswer
<1> QED BY <1>1, Invariance, PTL
=============================================================================
