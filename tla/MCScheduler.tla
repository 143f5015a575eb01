---------------------------- MODULE MCScheduler ----------------------------
(* Small instances of Scheduler for TLC. *)
EXTENDS Scheduler

Rule(starts, duration) == [starts |-> starts, duration |-> duration]

\* One with an end and, as a schedule may be changed while it runs, one without.
Rules1 == {Rule({1, 2, 3}, 2), Rule({2}, 0)}

\* By when a row is pruned, its occurrence is over.
ASSUME WindowsAssumption == WindowsClose
============================================================================
