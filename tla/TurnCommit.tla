----------------------------- MODULE TurnCommit -----------------------------
(***************************************************************************)
(* What the durable pipeline of a turn promises to the heads of the tasks:  *)
(* a turn is opened against the generation it saw, and is committed at most *)
(* once, in one step that moves its task's head from exactly that           *)
(* generation to the next. A turn opened against a head that has moved      *)
(* since is never committed.                                                *)
(***************************************************************************)
EXTENDS Naturals

CONSTANTS
  Turn, Task, TaskOf,
  Outcomes,    \* how a committed turn may have ended
  None         \* nobody

VARIABLES
  turn,        \* [state: new, open or an outcome; base: the generation it follows]
  head         \* the checkpoint of each task: [gen, by]

vars == <<turn, head>>

Init ==
  /\ turn = [t \in Turn |-> [state |-> "new", base |-> 0]]
  /\ head = [k \in Task |-> [gen |-> 0, by |-> None]]

\* A turn is admitted on top of the current head.
Open(t) ==
  /\ turn[t].state = "new"
  /\ turn' = [turn EXCEPT ![t] = [state |-> "open", base |-> head[TaskOf[t]].gen]]
  /\ UNCHANGED head

\* The turn becomes the head of its task, for good.
CommitTurn(t) ==
  /\ turn[t].state = "open" /\ head[TaskOf[t]].gen = turn[t].base
  /\ \E how \in Outcomes : turn' = [turn EXCEPT ![t].state = how]
  /\ head' = [head EXCEPT ![TaskOf[t]] = [gen |-> turn[t].base + 1, by |-> t]]

Next == \E t \in Turn : Open(t) \/ CommitTurn(t)

Spec == Init /\ [][Next]_vars
=============================================================================
