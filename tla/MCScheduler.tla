---------------------------- MODULE MCScheduler ----------------------------
(* Small instances of Scheduler for TLC: a cron that matches every minute, one that matches *)
(* every other minute, one that passes validation but never matches, and one whose second   *)
(* match lies beyond the horizon of its first.                                              *)
EXTENDS Scheduler, TLC

CONSTANTS s1, s2, h1, h2, r1, r2, each, odd, never, leap

MCMatches ==
  [c \in Crons |-> CASE c = each  -> 1..(MaxTime + 2)
                     [] c = odd   -> {m \in 1..(MaxTime + 2) : m % 2 = 1}
                     [] c = never -> {}
                     [] c = leap  -> {2, 3 + Horizon}]
=============================================================================
