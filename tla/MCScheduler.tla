---------------------------- MODULE MCScheduler ----------------------------
(* Scheduler for TLC: a finite instance whose keys are interchangeable.     *)
EXTENDS Scheduler, TLC

KeySymmetry == Permutations(Keys)

\* Intervals: unset (the default applies), shorter and longer than the
\* discovery period.
SafetyIntervals == {0, 3}
LiveIntervals == {1}
=============================================================================
