---------------------------- MODULE WaveContract ----------------------------
(***************************************************************************)
(* What a wave of the tool scheduler promises its caller, whatever cuts it *)
(* short: every call gets one answer, all at the same moment; "Not run" is *)
(* said only of a call whose handler never ran and never will; and no      *)
(* handler starts once the wave is over.                                   *)
(***************************************************************************)
VARIABLES
  phase,    \* "open", "closed", or "raised" (an exception left the wave)
  started,  \* the calls whose handler was entered
  res       \* the answers, one per call

\* A success that published a child report is "committed".
Ran == {"succeeded", "failed", "indeterminate", "committed", "withdrawn"}
NotRan == {"notrun", "indeterminate"}

\* The answers that are true of call j.
True(j, x) == x \in IF j \in started THEN Ran ELSE NotRan

Init ==
  /\ phase = "open"
  /\ started = {}
  /\ res = [j \in DOMAIN res |-> "none"]

Start ==
  /\ phase = "open"
  /\ \E j \in DOMAIN res \ started : started' = started \cup {j}
  /\ UNCHANGED <<phase, res>>

Answer ==
  /\ phase = "open" /\ phase' = "closed"
  /\ DOMAIN res' = DOMAIN res
  /\ \A j \in DOMAIN res : True(j, res'[j])
  /\ UNCHANGED started

\* An interrupt, or a journal that failed: what has settled is handed over.
Break ==
  /\ phase = "open" /\ phase' = "raised"
  /\ DOMAIN res' = DOMAIN res
  /\ \A j \in DOMAIN res : res'[j] = "none" \/ True(j, res'[j])
  /\ UNCHANGED started

Next == Start \/ Answer \/ Break

Spec == Init /\ [][Next]_<<phase, started, res>>
=============================================================================
