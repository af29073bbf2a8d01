---------------------------- MODULE MCScheduler ----------------------------
(* An instance of Scheduler for TLC: 0 is MM and stands for the tasks that *)
(* interrupts release as well, 1 is TestA, 2 and 3 are programs that MM    *)
(* forks.                                                                  *)
EXTENDS Scheduler

MCIntTask   == {0}
MCTestA1    == {1}
MCTwoPris   == {0, 1}
MCRRorPri   == {1, 2}

=============================================================================
