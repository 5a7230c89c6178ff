----------------------------- MODULE MCUpdater -----------------------------
(* Updater for TLC.                                                         *)
EXTENDS Updater

\* Steps of a check in which nothing has been registered that the cache does
\* not hold, and all steps.
SafeCrashSteps == {"idle", "reading", "resolving", "deployment", "register"}
AllSteps == Steps
=============================================================================
