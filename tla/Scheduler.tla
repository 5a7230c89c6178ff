----------------------------- MODULE Scheduler -----------------------------
(***************************************************************************)
(* The central check queue of src/scheduler.go: one run loop that owns the *)
(* managed set and the queue, worker goroutines that share a semaphore and *)
(* a bounded results channel, and the process around them (signals and     *)
(* exit, src/main.go).                                                     *)
(*                                                                         *)
(* Time is relative.  Every deadline is kept as the time still to wait for *)
(* it, 0 once it has passed; Tick is one unit of time passing.  This keeps *)
(* the order of the deadlines that are still ahead, and runDue dispatches  *)
(* all the others together, so their order does not matter.                *)
(***************************************************************************)
EXTENDS Integers, FiniteSets, Sequences, FiniteSetsExt

CONSTANTS
    Keys,             \* namespace/id of every job that Nomad may ever list
    Intervals,        \* the autoupdate.interval values of jobs (<= 0: unset)
    None,             \* "not managed", in place of an interval
    DefaultInterval,  \* -default-check-interval
    DiscoverEvery,    \* -interval
    Concurrency       \* -concurrency, as given on the command line

ASSUME SchedulerAssumption ==
    /\ IsFiniteSet(Keys)
    /\ Intervals \subseteq Int
    /\ None \notin Int
    /\ DefaultInterval \in Int
    /\ DiscoverEvery \in Int
    /\ Concurrency \in Int

VARIABLES
    pc,          \* where the run loop is
    managed,     \* scheduler.managed: the interval of a managed job, or None
    inflight,    \* scheduler.inflight
    queue,       \* scheduler.queue: items [key, wait]
    timer,       \* the run loop's timer: time until it fires
    discoverIn,  \* the run loop's discoverCh: time until it fires
    hup,         \* a SIGHUP is in the signal channel (its buffer is 1)
    cancelled,   \* the run context is cancelled (SIGINT or SIGTERM)
    waiting,     \* per key, worker goroutines waiting for the semaphore
    checking,    \* per key, worker goroutines inside updater.check
    reporting,   \* per key, worker goroutines in the select that reports
    releasing,   \* worker goroutines that have still to leave the semaphore
    sem,         \* tokens in scheduler.sem
    results      \* scheduler.results

loopVars   == <<pc, managed, inflight, queue, timer, discoverIn>>
signalVars == <<hup, cancelled>>
workerVars == <<waiting, checking, reporting, releasing, sem, results>>
vars       == <<loopVars, signalVars, workerVars>>

----------------------------------------------------------------------------
(* Durations                                                               *)

\* A duration that is already over fires at once (time.After, Time.After).
After(d) == IF d < 0 THEN 0 ELSE d

\* A flawed variant: the flag is taken as given.
CapacityAsGiven == Concurrency

\* newScheduler runs at least one check at a time.
Capacity == IF Concurrency < 1 THEN 1 ELSE Concurrency

IntervalFor(i) == IF i > 0 THEN i ELSE DefaultInterval

Splay(i) == IF i <= 0 THEN {0} ELSE 0 .. (i - 1)

----------------------------------------------------------------------------
(* The queue                                                               *)

Items == [key : Keys, wait : Nat]

Queued(q) == {it.key : it \in q}

\* The earliest deadline of a queue that is not empty.
Earliest(q) == Min({it.wait : it \in q})

\* A flawed variant: the cap ignores the queue.
TimeUntilNextCapOnly(q) == DiscoverEvery

TimeUntilNext(q) ==
    IF q = {} \/ DiscoverEvery < Earliest(q) THEN DiscoverEvery ELSE Earliest(q)

\* Every iteration of the loop arms a new timer for the queue it then has.
Rearm == timer' = After(TimeUntilNext(queue'))

Due(q) == {it \in q : it.wait = 0}

\* The jobs runDue hands to a worker, with managed set m and queue q.
Dispatched(m, q) ==
    {k \in Queued(Due(q)) : m[k] # None /\ k \notin inflight}

\* runDue: all due items leave the queue, each one starts a worker.
RunDue(m, q) ==
    /\ queue' = q \ Due(q)
    /\ inflight' = inflight \cup Dispatched(m, q)
    /\ waiting' = [k \in Keys |->
                     IF k \in Dispatched(m, q) THEN waiting[k] + 1 ELSE waiting[k]]

----------------------------------------------------------------------------
(* Discovery                                                               *)

\* What listAutoUpdateJobs may answer: each job is managed or it is not.
Responses == [Keys -> Intervals \cup {None}]

\* A flawed variant: a job that comes back while its check is in flight is
\* queued although its worker will queue it again.
FreshEvenInflight(resp) == {k \in Keys : resp[k] # None /\ managed[k] = None}

\* Newly seen jobs that get a first check.
Fresh(resp) ==
    {k \in Keys : resp[k] # None /\ managed[k] = None /\ k \notin inflight}

\* Where in its interval the first check of each fresh job may be placed.
Splays(resp) ==
    {s \in [Fresh(resp) -> UNION {Splay(IntervalFor(resp[k])) : k \in Fresh(resp)}] :
        \A k \in Fresh(resp) : s[k] \in Splay(IntervalFor(resp[k]))}

\* A flawed variant: jobs that have gone away stay queued.
RefreshedKeepingGone(resp, s) ==
    queue \cup {[key |-> k, wait |-> s[k]] : k \in Fresh(resp)}

Refreshed(resp, s) ==
    {it \in queue : resp[it.key] # None}
        \cup {[key |-> k, wait |-> s[k]] : k \in Fresh(resp)}

\* A listing brought the managed set and the queue up to date.
Listed == UNION {{[managed |-> resp, queue |-> Refreshed(resp, s)] : s \in Splays(resp)}
                   : resp \in Responses}

\* What discover may leave behind; on an error it keeps the schedule.
Discoveries == {[managed |-> managed, queue |-> queue]} \cup Listed

----------------------------------------------------------------------------
(* The run loop                                                            *)

Init ==
    /\ pc = "starting"
    /\ managed = [k \in Keys |-> None]
    /\ inflight = {}
    /\ queue = {}
    /\ timer = 0
    /\ discoverIn = 0
    /\ hup = FALSE
    /\ cancelled = FALSE
    /\ waiting = [k \in Keys |-> 0]
    /\ checking = [k \in Keys |-> 0]
    /\ reporting = [k \in Keys |-> 0]
    /\ releasing = 0
    /\ sem = 0
    /\ results = <<>>

\* discover returns, at start-up or in the discoverCh case of the select.
DiscoverReturns ==
    /\ pc \in {"starting", "discovering"}
    /\ \E d \in Discoveries : managed' = d.managed /\ queue' = d.queue
    /\ pc' = "select"
    /\ discoverIn' = After(DiscoverEvery)
    /\ Rearm
    /\ UNCHANGED <<inflight, signalVars, workerVars>>

\* case <-discoverCh: the loop is inside discover until DiscoverReturns.
DiscoverTick ==
    /\ pc = "select"
    /\ discoverIn = 0
    /\ pc' = "discovering"
    /\ UNCHANGED <<managed, inflight, queue, timer, discoverIn, signalVars, workerVars>>

\* case sig := <-trigger: the loop is inside triggerAll until TriggerReturns.
TriggerReceived ==
    /\ pc = "select"
    /\ hup
    /\ hup' = FALSE
    /\ pc' = "triggering"
    /\ UNCHANGED <<managed, inflight, queue, timer, discoverIn, cancelled, workerVars>>

\* A flawed variant: the deadlines are left as they were.
DueNowUnchanged(q) == q

\* triggerAll makes every queued check due.
DueNow(q) == {[key |-> it.key, wait |-> 0] : it \in q}

\* The rest of triggerAll once its discovery has returned.
TriggerReturns ==
    /\ pc = "triggering"
    /\ \E d \in Discoveries :
         /\ managed' = d.managed
         /\ RunDue(d.managed, DueNow(d.queue))
    /\ pc' = "select"
    /\ discoverIn' = After(DiscoverEvery)
    /\ Rearm
    /\ UNCHANGED <<signalVars, checking, reporting, releasing, sem, results>>

\* case key := <-s.results, and reschedule.
ReceiveResult ==
    /\ pc = "select"
    /\ results # <<>>
    /\ results' = Tail(results)
    /\ LET k == Head(results) IN
         /\ inflight' = inflight \ {k}
         /\ queue' = IF managed[k] = None
                     THEN queue
                     ELSE queue \cup {[key |-> k, wait |-> After(IntervalFor(managed[k]))]}
    /\ Rearm
    /\ UNCHANGED <<pc, managed, discoverIn, signalVars,
                   waiting, checking, reporting, releasing, sem>>

\* case <-timer.
TimerFires ==
    /\ pc = "select"
    /\ timer = 0
    /\ RunDue(managed, queue)
    /\ Rearm
    /\ UNCHANGED <<pc, managed, discoverIn, signalVars,
                   checking, reporting, releasing, sem, results>>

\* A flawed variant: run waits for the checks in flight to be reported.
StopWhenIdle ==
    /\ pc = "select"
    /\ cancelled
    /\ inflight = {}
    /\ pc' = "stopped"
    /\ UNCHANGED <<managed, inflight, queue, timer, discoverIn, signalVars, workerVars>>

\* case <-ctx.Done(): run returns; no worker is waited for.
Stop ==
    /\ pc = "select"
    /\ cancelled
    /\ pc' = "stopped"
    /\ UNCHANGED <<managed, inflight, queue, timer, discoverIn, signalVars, workerVars>>

\* main has shut the telemetry down and returns: every goroutine is gone.
Exit ==
    /\ pc = "stopped"
    /\ pc' = "exited"
    /\ waiting' = [k \in Keys |-> 0]
    /\ checking' = [k \in Keys |-> 0]
    /\ reporting' = [k \in Keys |-> 0]
    /\ releasing' = 0
    /\ sem' = 0
    /\ results' = <<>>
    /\ UNCHANGED <<managed, inflight, queue, timer, discoverIn, signalVars>>

----------------------------------------------------------------------------
(* The worker goroutines.  They run until the process exits.               *)

Running == pc # "exited"

\* A flawed variant: the semaphore does not block.
AcquireUnbounded(k) ==
    /\ Running
    /\ waiting[k] > 0
    /\ sem' = sem + 1
    /\ waiting' = [waiting EXCEPT ![k] = @ - 1]
    /\ checking' = [checking EXCEPT ![k] = @ + 1]
    /\ UNCHANGED <<loopVars, signalVars, reporting, releasing, results>>

\* s.sem <- struct{}{}: it blocks while the semaphore is full, even when the
\* context is cancelled.
Acquire(k) ==
    /\ Running
    /\ waiting[k] > 0
    /\ sem < Capacity
    /\ sem' = sem + 1
    /\ waiting' = [waiting EXCEPT ![k] = @ - 1]
    /\ checking' = [checking EXCEPT ![k] = @ + 1]
    /\ UNCHANGED <<loopVars, signalVars, reporting, releasing, results>>

\* updater.check returns: it is done, has failed or has timed out.
FinishCheck(k) ==
    /\ Running
    /\ checking[k] > 0
    /\ checking' = [checking EXCEPT ![k] = @ - 1]
    /\ reporting' = [reporting EXCEPT ![k] = @ + 1]
    /\ UNCHANGED <<loopVars, signalVars, waiting, releasing, sem, results>>

\* A flawed variant: a result that finds the channel full is dropped.
ReportOrDrop(k) ==
    /\ Running
    /\ reporting[k] > 0
    /\ results' = IF Len(results) < Capacity THEN Append(results, k) ELSE results
    /\ reporting' = [reporting EXCEPT ![k] = @ - 1]
    /\ releasing' = releasing + 1
    /\ UNCHANGED <<loopVars, signalVars, waiting, checking, sem>>

\* case s.results <- job.key(): it blocks while the channel is full.
Report(k) ==
    /\ Running
    /\ reporting[k] > 0
    /\ Len(results) < Capacity
    /\ results' = Append(results, k)
    /\ reporting' = [reporting EXCEPT ![k] = @ - 1]
    /\ releasing' = releasing + 1
    /\ UNCHANGED <<loopVars, signalVars, waiting, checking, sem>>

\* A flawed variant: a cancelled worker returns without its deferred release.
AbandonLeaking(k) ==
    /\ Running
    /\ reporting[k] > 0
    /\ cancelled
    /\ reporting' = [reporting EXCEPT ![k] = @ - 1]
    /\ UNCHANGED <<loopVars, signalVars, waiting, checking, releasing, sem, results>>

\* case <-ctx.Done() of the worker: the result is dropped.
Abandon(k) ==
    /\ Running
    /\ reporting[k] > 0
    /\ cancelled
    /\ reporting' = [reporting EXCEPT ![k] = @ - 1]
    /\ releasing' = releasing + 1
    /\ UNCHANGED <<loopVars, signalVars, waiting, checking, sem, results>>

\* The deferred <-s.sem of a worker that has reported or given up.
Release ==
    /\ Running
    /\ releasing > 0
    /\ releasing' = releasing - 1
    /\ sem' = sem - 1
    /\ UNCHANGED <<loopVars, signalVars, waiting, checking, reporting, results>>

----------------------------------------------------------------------------
(* The environment                                                         *)

\* SIGHUP; a second one before the first is received is dropped.
Sighup ==
    /\ Running
    /\ ~hup
    /\ hup' = TRUE
    /\ UNCHANGED <<loopVars, cancelled, workerVars>>

\* SIGINT or SIGTERM.
Cancel ==
    /\ Running
    /\ ~cancelled
    /\ cancelled' = TRUE
    /\ UNCHANGED <<loopVars, hup, workerVars>>

\* One unit of time passes.
Tick ==
    /\ Running
    /\ queue' = {[key |-> it.key, wait |-> After(it.wait - 1)] : it \in queue}
    /\ timer' = After(timer - 1)
    /\ discoverIn' = After(discoverIn - 1)
    /\ UNCHANGED <<pc, managed, inflight, signalVars, workerVars>>

\* The process is gone; nothing more happens.
Gone == pc = "exited" /\ UNCHANGED vars

Loop ==
    \/ DiscoverReturns
    \/ DiscoverTick
    \/ TriggerReceived
    \/ TriggerReturns
    \/ ReceiveResult
    \/ TimerFires
    \/ Stop
    \/ Exit

Worker(k) ==
    \/ Acquire(k)
    \/ FinishCheck(k)
    \/ Report(k)
    \/ Abandon(k)

Next ==
    \/ Loop
    \/ \E k \in Keys : Worker(k)
    \/ Release
    \/ Sighup
    \/ Cancel
    \/ Tick
    \/ Gone

Spec == Init /\ [][Next]_vars

(***************************************************************************)
(* Fairness.  Calls to Nomad carry a 30 s client timeout and checks a      *)
(* two-minute one, so they return.  The select of the loop picks a ready   *)
(* case uniformly at random, so a case that is ready again and again is    *)
(* taken: strong fairness.  Senders blocked on a Go channel queue up in    *)
(* order, so a worker that can again and again get in does get in.         *)
(***************************************************************************)
LoopFairness ==
    /\ WF_vars(DiscoverReturns)
    /\ WF_vars(TriggerReturns)
    /\ SF_vars(DiscoverTick)
    /\ SF_vars(TriggerReceived)
    /\ SF_vars(ReceiveResult)
    /\ SF_vars(TimerFires)
    /\ SF_vars(Stop)
    /\ WF_vars(Exit)

WorkerFairness ==
    /\ \A k \in Keys : /\ SF_vars(Acquire(k))
                       /\ WF_vars(FinishCheck(k))
                       /\ SF_vars(Report(k))
    /\ WF_vars(Release)

FairSpec == Spec /\ LoopFairness /\ WorkerFairness /\ WF_vars(Tick)

----------------------------------------------------------------------------
(* Properties                                                              *)

\* The types of the variables; both channels stay within their capacity.
TypeOK ==
    /\ pc \in {"starting", "select", "discovering", "triggering", "stopped", "exited"}
    /\ managed \in [Keys -> Intervals \cup {None}]
    /\ inflight \subseteq Keys
    /\ queue \subseteq Items
    /\ timer \in Nat
    /\ discoverIn \in Nat
    /\ hup \in BOOLEAN
    /\ cancelled \in BOOLEAN
    /\ waiting \in [Keys -> Nat]
    /\ checking \in [Keys -> Nat]
    /\ reporting \in [Keys -> Nat]
    /\ releasing \in Nat
    /\ sem \in 0 .. Capacity
    /\ results \in Seq(Keys)
    /\ Len(results) <= Capacity

\* Every managed job has its next check accounted for exactly once: one queue
\* item when no check is in flight and none when one is; jobs that are not
\* managed have none.  It is discover, runDue and reschedule together that
\* keep this (scheduler.go:192-257), whatever goes away and comes back while
\* its check runs.
QueueMatchesManaged ==
    /\ \A k \in Keys : k \in Queued(queue) <=> (managed[k] # None /\ k \notin inflight)
    /\ \A it1, it2 \in queue : it1.key = it2.key => it1 = it2

\* The workers of key k before they have reported.
UnderWay(k) == waiting[k] + checking[k] + reporting[k]

\* A result of key k is in the channel.
Pending(k) == \E i \in 1 .. Len(results) : results[i] = k

\* A job never has two checks at a time, and the in-flight mark of a job is
\* exactly one goroutine or one result under way: it is neither lost, which
\* would stop the job's checks for good, nor shared by two (scheduler.go:
\* 197-201, 217-226).  Only a cancelled worker leaves its mark behind.
OneCheckPerJob ==
    /\ \A i, j \in 1 .. Len(results) : results[i] = results[j] => i = j
    /\ \A k \in Keys :
         /\ UnderWay(k) \in {0, 1}
         /\ UnderWay(k) = 1 => k \in inflight /\ ~Pending(k)
         /\ Pending(k) => k \in inflight
         /\ k \in inflight => UnderWay(k) = 1 \/ Pending(k) \/ cancelled

\* The keys of which a worker is at the given stage.
Busy(f) == {k \in Keys : f[k] > 0}

\* The tokens in the semaphore are exactly the workers between acquiring and
\* releasing it, on every way out of worker (scheduler.go:207-221), so at most
\* -concurrency checks run at once and no slot is ever leaked.
SlotsAccounted ==
    /\ sem = Cardinality(Busy(checking)) + Cardinality(Busy(reporting)) + releasing
    /\ Cardinality(Busy(checking)) <= Capacity

\* A loop that sits in its select never sleeps past a deadline of its queue,
\* nor past its discovery period: whatever was queued, dropped or made due
\* since, the armed timer is early enough (scheduler.go:119, 177-189).
TimerNotLate ==
    pc = "select" => /\ \A it \in queue : timer <= it.wait
                     /\ timer <= After(DiscoverEvery)

\* When triggerAll is done every job it then manages has a check in flight
\* (scheduler.go:162-173), also when its discovery failed.
TriggerCoversManaged ==
    [][pc = "triggering" /\ pc' = "select"
         => \A k \in Keys : managed'[k] # None => k \in inflight']_vars

\* A job that stays managed is checked again and again until the process is
\* told to stop, however discovery fails, jobs come and go and signals arrive
\* (scheduler.go:56-60).
ManagedJobsKeepBeingChecked ==
    \A k \in Keys :
        <>[](managed[k] # None /\ ~cancelled) => []<>(checking[k] > 0)

\* SIGINT or SIGTERM ends the process, whatever the workers are blocked on
\* (scheduler.go:121-122, main.go:110-112).
ShutdownCompletes == cancelled ~> (pc = "exited")

(***************************************************************************)
(* The scheduler implements CheckCycle.                                    *)
(***************************************************************************)

\* Where job k is in the cycle of its checks.
Stage(k) ==
    CASE waiting[k] > 0                                  -> "waiting"
      [] checking[k] > 0                                 -> "checking"
      [] k \in inflight /\ waiting[k] + checking[k] = 0 -> "ended"
      [] k \notin inflight /\ k \in Queued(queue)        -> "queued"
      [] OTHER                                           -> "none"

Cycle == INSTANCE CheckCycle
            WITH Slots   <- Capacity,
                 managed <- {k \in Keys : managed[k] # None},
                 stage   <- [k \in Keys |-> Stage(k)],
                 halted  <- pc = "exited"

\* Every step of the queue, the channels and the goroutines is a step of the
\* cycle or invisible in it: a check only ever starts from the queue, of a job
\* that is managed then, and ends before its job is queued again
\* (scheduler.go:191-257).
ImplementsCycle == Cycle!Spec
=============================================================================
