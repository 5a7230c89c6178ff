----------------------------- MODULE CheckCycle -----------------------------
(***************************************************************************)
(* What the scheduler of src/scheduler.go promises: the life of a job's    *)
(* checks, without queue, timers, channels or goroutines.  A managed job   *)
(* is either queued or has one check under way; a check waits for one of   *)
(* the slots, runs and ends, and when the scheduler has learned of its end *)
(* the job is queued again, unless it is not managed any more.             *)
(***************************************************************************)
EXTENDS Integers, FiniteSets

CONSTANTS
    Keys,  \* the jobs
    Slots  \* checks that may run at once

VARIABLES
    managed,  \* the managed jobs
    stage,    \* where each job is in its cycle
    halted    \* the process is gone

vars == <<managed, stage, halted>>

\* "none": neither queued nor under way; "ended": its check has returned or
\* was cut off, and the scheduler has not learned of it.
Stages == {"none", "queued", "waiting", "checking", "ended"}

At(s) == {k \in Keys : stage[k] = s}

Init ==
    /\ managed = {}
    /\ stage = [k \in Keys |-> "none"]
    /\ halted = FALSE

\* Where the jobs are once exactly those in m are managed.
Relisted(m) ==
    [k \in Keys |->
        IF stage[k] \notin {"none", "queued"} THEN stage[k]
        ELSE IF k \in m THEN "queued" ELSE "none"]

\* A discovery: jobs come and go; checks under way are left alone.
Discover ==
    \E m \in SUBSET Keys :
        /\ managed' = m
        /\ stage' = Relisted(m)

\* Some of the queued checks are due and start.
Dispatch ==
    \E due \in SUBSET At("queued") :
        /\ stage' = [k \in Keys |-> IF k \in due THEN "waiting" ELSE stage[k]]
        /\ UNCHANGED managed

\* A discovery after which every queued check starts.
Trigger ==
    \E m \in SUBSET Keys :
        /\ managed' = m
        /\ stage' = [k \in Keys |-> IF Relisted(m)[k] = "queued" THEN "waiting"
                                    ELSE Relisted(m)[k]]

\* A check gets a slot.
Begin(k) ==
    /\ stage[k] = "waiting"
    /\ Cardinality(At("checking")) < Slots
    /\ stage' = [stage EXCEPT ![k] = "checking"]
    /\ UNCHANGED managed

End(k) ==
    /\ stage[k] = "checking"
    /\ stage' = [stage EXCEPT ![k] = "ended"]
    /\ UNCHANGED managed

\* The scheduler learns that the check has ended.
Requeue(k) ==
    /\ stage[k] = "ended"
    /\ stage' = [stage EXCEPT ![k] = IF k \in managed THEN "queued" ELSE "none"]
    /\ UNCHANGED managed

\* The process exits; what is under way is cut off.
Halt ==
    /\ halted' = TRUE
    /\ stage' = [k \in Keys |-> IF stage[k] \in {"waiting", "checking"} THEN "ended"
                                ELSE stage[k]]
    /\ UNCHANGED managed

Alive ==
    /\ UNCHANGED halted
    /\ \/ Discover
       \/ Dispatch
       \/ Trigger
       \/ \E k \in Keys : Begin(k) \/ End(k) \/ Requeue(k)

Next == ~halted /\ (Alive \/ Halt)

Spec == Init /\ [][Next]_vars
=============================================================================
