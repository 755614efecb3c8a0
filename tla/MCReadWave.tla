----------------------------- MODULE MCReadWave -----------------------------
(* Small waves for TLC.                                                    *)
EXTENDS ReadWave

W(kind, timeout, journal, size, limit) ==
  [kind |-> kind, timeout |-> timeout, journal |-> journal, size |-> size,
   limit |-> limit]

\* Two jobs, side by side (limit 2) or one behind the other (limit 1).
MCWaves ==
  {W("reads", TRUE, TRUE, 2, 2), W("reads", TRUE, FALSE, 2, 1),
   W("reads", FALSE, TRUE, 2, 1), W("children", TRUE, FALSE, 2, 2),
   W("children", TRUE, TRUE, 2, 1), W("children", FALSE, TRUE, 2, 1),
   W("writer", TRUE, TRUE, 1, 1)}
=============================================================================
