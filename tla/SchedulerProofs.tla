-------------------------- MODULE SchedulerProofs --------------------------
(***************************************************************************)
(* Proofs about Scheduler, for every set of keys, every interval, discovery*)
(* period and concurrency: its type invariant, the safety invariants,      *)
(* TriggerCoversManaged and that it implements CheckCycle.  One inductive  *)
(* invariant carries them all.                                             *)
(***************************************************************************)
EXTENDS Scheduler, Least, FiniteSetTheorems, WellFoundedInduction, TLAPS

\* run only returns once its context is cancelled.
StoppedCancelled == pc \in {"stopped", "exited"} => cancelled

\* The inductive invariant.  TypeOK needs SlotsAccounted (a release finds a
\* token), which needs OneCheckPerJob (each key counts once), and
\* QueueMatchesManaged needs OneCheckPerJob (a received result was in flight).
IInv ==
    /\ TypeOK
    /\ StoppedCancelled
    /\ OneCheckPerJob
    /\ QueueMatchesManaged
    /\ SlotsAccounted
    /\ TimerNotLate

----------------------------------------------------------------------------
(* Facts about the operators of the model.                                 *)

\* Durations that have been cut off at zero are natural numbers.
LEMMA AfterType == \A d \in Int : After(d) \in Nat /\ (d >= 0 => After(d) = d)
  BY DEF After

LEMMA CapacityType == Capacity \in Nat \ {0}
  BY SchedulerAssumption DEF SchedulerAssumption, Capacity

LEMMA IntervalForType == \A i \in Intervals : IntervalFor(i) \in Int
  BY SchedulerAssumption DEF SchedulerAssumption, IntervalFor

\* The armed timer is a duration and no later than any deadline.
LEMMA RearmEarly ==
  ASSUME NEW q \in SUBSET Items
  PROVE  /\ After(TimeUntilNext(q)) \in Nat
         /\ After(TimeUntilNext(q)) <= After(DiscoverEvery)
         /\ \A it \in q : After(TimeUntilNext(q)) <= it.wait
  <1>1. DiscoverEvery \in Int
    BY SchedulerAssumption DEF SchedulerAssumption
  <1>2. CASE q = {}
    BY <1>1, <1>2 DEF TimeUntilNext, After
  <1>3. CASE q # {}
    <2>1. {it.wait : it \in q} \in SUBSET Nat /\ {it.wait : it \in q} # {}
      BY <1>3 DEF Items
    <2>2. Earliest(q) \in Nat /\ \A it \in q : Earliest(q) <= it.wait
      BY <2>1, MinOfNats DEF Earliest
    <2>3. \A it \in q : it.wait \in Nat
      BY DEF Items
    <2>4. QED
      BY <1>1, <1>3, <2>2, <2>3 DEF TimeUntilNext, After
  <1>4. QED
    BY <1>2, <1>3


\* Queue q holds exactly the jobs that managed set m and in-flight set f
\* call for.  QueueMatchesManaged is Matches(managed, inflight, queue).
Matches(m, f, q) ==
    /\ \A k \in Keys : k \in Queued(q) <=> (m[k] # None /\ k \notin f)
    /\ \A it1, it2 \in q : it1.key = it2.key => it1 = it2

\* A discovery leaves a managed set and a queue of the right types.
LEMMA DiscoveryType ==
  ASSUME TypeOK, NEW d \in Discoveries
  PROVE  d.managed \in [Keys -> Intervals \cup {None}] /\ d.queue \in SUBSET Items
  <1>1. CASE d = [managed |-> managed, queue |-> queue]
    BY <1>1 DEF TypeOK
  <1>2. CASE d \in Listed
    <2>0. PICK resp \in Responses :
            \E s \in Splays(resp) : d = [managed |-> resp, queue |-> Refreshed(resp, s)]
      BY <1>2 DEF Listed
    <2>1. PICK s \in Splays(resp) : d = [managed |-> resp, queue |-> Refreshed(resp, s)]
      BY <2>0
    <2>2. ASSUME NEW k \in Fresh(resp)
          PROVE  k \in Keys /\ s[k] \in Nat
      <3>1. k \in Keys /\ resp[k] \in Intervals
        BY DEF Fresh, Responses
      <3>2. IntervalFor(resp[k]) \in Int
        BY <3>1, IntervalForType
      <3>3. s[k] \in Splay(IntervalFor(resp[k]))
        BY DEF Splays
      <3>4. QED
        BY <3>1, <3>2, <3>3 DEF Splay
    <2>3. Refreshed(resp, s) \in SUBSET Items
      BY <2>2 DEF Refreshed, Items, TypeOK
    <2>4. QED
      BY <2>1, <2>3 DEF Responses
  <1>3. QED
    BY <1>1, <1>2 DEF Discoveries

\* discover keeps the queue in step with the managed set (scheduler.go:
\* 243-259): jobs that are gone leave it, and a job that is new enters it
\* unless its check is in flight.
LEMMA DiscoveryMatches ==
  ASSUME TypeOK, QueueMatchesManaged, NEW d \in Discoveries
  PROVE  Matches(d.managed, inflight, d.queue)
  <1>1. CASE d = [managed |-> managed, queue |-> queue]
    BY <1>1 DEF QueueMatchesManaged, Matches
  <1>2. CASE d \in Listed
    <2>0. PICK resp \in Responses :
            \E s \in Splays(resp) : d = [managed |-> resp, queue |-> Refreshed(resp, s)]
      BY <1>2 DEF Listed
    <2>1. PICK s \in Splays(resp) : d = [managed |-> resp, queue |-> Refreshed(resp, s)]
      BY <2>0
    <2> DEFINE kept == {it \in queue : resp[it.key] # None}
               fresh == {[key |-> k, wait |-> s[k]] : k \in Fresh(resp)}
    <2>2. d.managed = resp /\ d.queue = kept \cup fresh
      BY <2>1 DEF Refreshed
    <2>3. \A it \in queue : it.key \in Keys
      BY DEF TypeOK, Items
    <2>4. Queued(fresh) = Fresh(resp)
      <3>1. \A it \in fresh : it.key \in Fresh(resp)
        OBVIOUS
      <3>2. \A k \in Fresh(resp) : [key |-> k, wait |-> s[k]] \in fresh
        OBVIOUS
      <3>3. \A k : [key |-> k, wait |-> s[k]].key = k
        OBVIOUS
      <3>4. \A k \in Fresh(resp) : \E it \in fresh : it.key = k
        BY <3>2, <3>3
      <3>5. QED
        BY <3>1, <3>4 DEF Queued
    <2>5. Queued(kept) = {k \in Queued(queue) : resp[k] # None}
      BY DEF Queued
    <2>6. Queued(kept) \cap Fresh(resp) = {}
      BY <2>5 DEF Fresh, QueueMatchesManaged
    <2>7. Queued(d.queue) = Queued(kept) \cup Fresh(resp)
      BY <2>2, <2>4 DEF Queued
    <2>8. \A k \in Keys : k \in Queued(d.queue) <=> (resp[k] # None /\ k \notin inflight)
      BY <2>5, <2>7 DEF Fresh, QueueMatchesManaged
    <2>9. ASSUME NEW it1 \in d.queue, NEW it2 \in d.queue, it1.key = it2.key
          PROVE  it1 = it2
      <3>1. it1 \in kept => it1.key \in Queued(kept)
        BY DEF Queued
      <3>2. it2 \in kept => it2.key \in Queued(kept)
        BY DEF Queued
      <3>3. it1 \in fresh => it1.key \in Fresh(resp) /\ it1 = [key |-> it1.key, wait |-> s[it1.key]]
        OBVIOUS
      <3>4. it2 \in fresh => it2.key \in Fresh(resp) /\ it2 = [key |-> it2.key, wait |-> s[it2.key]]
        OBVIOUS
      <3>5. CASE it1 \in kept /\ it2 \in kept
        BY <3>5, <2>9 DEF QueueMatchesManaged
      <3>6. CASE it1 \in fresh /\ it2 \in fresh
        BY <3>3, <3>4, <3>6, <2>9
      <3>7. QED
        BY <2>2, <2>6, <2>9, <3>1, <3>2, <3>3, <3>4, <3>5, <3>6
    <2>10. QED
      BY <2>2, <2>8, <2>9 DEF Matches
  <1>3. QED
    BY <1>1, <1>2 DEF Discoveries

\* runDue keeps the queue in step with the in-flight set (scheduler.go:
\* 192-203): what leaves the queue is dispatched.
LEMMA RunDueMatches ==
  ASSUME NEW m, NEW q \in SUBSET Items, Matches(m, inflight, q),
         inflight \subseteq Keys, RunDue(m, q)
  PROVE  /\ Matches(m, inflight', queue')
         /\ queue' \in SUBSET Items
         /\ Dispatched(m, q) = Queued(Due(q))
         /\ Dispatched(m, q) \subseteq Keys \ inflight
  <1>1. Queued(q) \subseteq Keys /\ Queued(Due(q)) \subseteq Queued(q)
    BY DEF Queued, Due, Items
  <1>2. Dispatched(m, q) = Queued(Due(q)) /\ Dispatched(m, q) \subseteq Keys \ inflight
    BY <1>1 DEF Dispatched, Matches
  <1>3. Queued(queue') = Queued(q) \ Queued(Due(q))
    BY DEF Matches, RunDue, Queued, Due
  <1>4. \A k \in Keys : k \in Queued(queue') <=> (m[k] # None /\ k \notin inflight')
    BY <1>1, <1>2, <1>3 DEF Matches, RunDue
  <1>5. \A it1, it2 \in queue' : it1.key = it2.key => it1 = it2
    BY DEF Matches, RunDue
  <1>6. QED
    BY <1>2, <1>4, <1>5 DEF Matches, RunDue

\* Making every item due moves none and keeps them apart.
LEMMA DueNowMatches ==
  ASSUME NEW m, NEW f, NEW q \in SUBSET Items, Matches(m, f, q)
  PROVE  /\ DueNow(q) \in SUBSET Items
         /\ Due(DueNow(q)) = DueNow(q)
         /\ Matches(m, f, DueNow(q))
  <1>1. DueNow(q) \in SUBSET Items
    BY DEF DueNow, Items
  <1>2. \A it \in DueNow(q) : it.wait = 0
    BY DEF DueNow, Items
  <1>3. Queued(DueNow(q)) = Queued(q)
    <2>1. \A it \in q : [key |-> it.key, wait |-> 0] \in DueNow(q)
      BY DEF DueNow
    <2>2. \A it \in DueNow(q) : \E old \in q : it = [key |-> old.key, wait |-> 0]
      BY DEF DueNow
    <2>3. \A k : [key |-> k, wait |-> 0].key = k
      OBVIOUS
    <2>4. \A it \in q : \E new \in DueNow(q) : new.key = it.key
      BY <2>1, <2>3
    <2>5. \A it \in DueNow(q) : \E old \in q : it.key = old.key
      BY <2>2, <2>3
    <2>6. QED
      BY <2>4, <2>5 DEF Queued
  <1>4. \A it1, it2 \in DueNow(q) : it1.key = it2.key => it1 = it2
    BY DEF DueNow, Items, Matches
  <1>5. QED
    BY <1>1, <1>2, <1>3, <1>4 DEF Matches, Due


----------------------------------------------------------------------------
(* The inductive invariant holds initially.                                *)

\* The model starts in a state of the inductive invariant.
LEMMA InitIInv == Init => IInv
  <1> SUFFICES ASSUME Init
               PROVE  IInv
    OBVIOUS
  <1>0. Capacity \in Nat \ {0}
    BY CapacityType
  <1>1. TypeOK
    <2>1. results \in Seq(Keys) /\ Len(results) = 0
      BY DEF Init
    <2>2. sem \in 0 .. Capacity /\ Len(results) <= Capacity
      BY <1>0, <2>1 DEF Init
    <2>3. QED
      BY <2>1, <2>2 DEF Init, TypeOK
  <1>2. StoppedCancelled /\ TimerNotLate
    BY DEF Init, StoppedCancelled, TimerNotLate
  <1>3. OneCheckPerJob
    BY DEF Init, OneCheckPerJob, UnderWay, Pending
  <1>4. QueueMatchesManaged
    BY DEF Init, QueueMatchesManaged, Queued
  <1>5. Busy(checking) = {} /\ Busy(reporting) = {}
    BY DEF Init, Busy
  <1>6. SlotsAccounted
    <2>1. Cardinality(Busy(checking)) = 0 /\ Cardinality(Busy(reporting)) = 0
      BY <1>5, FS_EmptySet
    <2>2. sem = 0 /\ releasing = 0
      BY DEF Init
    <2>3. QED
      BY <1>0, <2>1, <2>2 DEF SlotsAccounted
  <1>7. QED
    BY <1>1, <1>2, <1>3, <1>4, <1>6 DEF IInv

----------------------------------------------------------------------------
(* Every step preserves it, one conjunct at a time.                        *)

\* The types of what runDue assigns.
LEMMA RunDueType ==
  ASSUME TypeOK, NEW m, NEW q \in SUBSET Items, RunDue(m, q)
  PROVE  inflight' \subseteq Keys /\ queue' \in SUBSET Items /\ waiting' \in [Keys -> Nat]
  <1>1. Dispatched(m, q) \subseteq Keys
    BY DEF Dispatched, Queued, Due, Items
  <1>2. QED
    BY <1>1 DEF RunDue, TypeOK

\* A step keeps the types.
LEMMA TypeStep == IInv /\ [Next]_vars => TypeOK'
  <1> SUFFICES ASSUME IInv, [Next]_vars
               PROVE  TypeOK'
    OBVIOUS
  <1>0. TypeOK /\ DiscoverEvery \in Int /\ Capacity \in Nat \ {0}
    BY CapacityType, SchedulerAssumption DEF IInv, SchedulerAssumption
  <1>1. CASE DiscoverReturns
    <2>1. PICK d \in Discoveries : managed' = d.managed /\ queue' = d.queue
      BY <1>1 DEF DiscoverReturns
    <2>2. managed' \in [Keys -> Intervals \cup {None}] /\ queue' \in SUBSET Items
      BY <1>0, <2>1, DiscoveryType
    <2>3. timer' \in Nat
      BY <1>1, <2>2, RearmEarly DEF DiscoverReturns, Rearm
    <2>4. discoverIn' \in Nat
      BY <1>0, <1>1, AfterType DEF DiscoverReturns
    <2>5. QED
      BY <1>0, <1>1, <2>2, <2>3, <2>4 DEF DiscoverReturns, TypeOK, signalVars, workerVars
  <1>2. CASE DiscoverTick
    BY <1>0, <1>2 DEF DiscoverTick, TypeOK, signalVars, workerVars
  <1>3. CASE TriggerReceived
    BY <1>0, <1>3 DEF TriggerReceived, TypeOK, workerVars
  <1>4. CASE TriggerReturns
    <2>1. PICK d \in Discoveries : managed' = d.managed /\ RunDue(d.managed, DueNow(d.queue))
      BY <1>4 DEF TriggerReturns
    <2>2. managed' \in [Keys -> Intervals \cup {None}] /\ d.queue \in SUBSET Items
      BY <1>0, <2>1, DiscoveryType
    <2>3. DueNow(d.queue) \in SUBSET Items
      BY <2>2 DEF DueNow, Items
    <2>4. inflight' \subseteq Keys /\ queue' \in SUBSET Items /\ waiting' \in [Keys -> Nat]
      BY <1>0, <2>1, <2>3, RunDueType
    <2>5. timer' \in Nat
      BY <1>4, <2>4, RearmEarly DEF TriggerReturns, Rearm
    <2>6. discoverIn' \in Nat
      BY <1>0, <1>4, AfterType DEF TriggerReturns
    <2>7. QED
      BY <1>0, <1>4, <2>2, <2>4, <2>5, <2>6 DEF TriggerReturns, TypeOK, signalVars
  <1>5. CASE ReceiveResult
    <2> DEFINE k == Head(results)
    <2>1. k \in Keys /\ results' \in Seq(Keys) /\ Len(results') <= Capacity
      BY <1>0, <1>5 DEF ReceiveResult, TypeOK
    <2>2. managed[k] # None => After(IntervalFor(managed[k])) \in Nat
      BY <1>0, <2>1, IntervalForType, AfterType DEF TypeOK
    <2>3. queue' \in SUBSET Items
      BY <1>0, <1>5, <2>1, <2>2 DEF ReceiveResult, TypeOK, Items
    <2>4. timer' \in Nat
      BY <1>5, <2>3, RearmEarly DEF ReceiveResult, Rearm
    <2>5. QED
      BY <1>0, <1>5, <2>1, <2>3, <2>4 DEF ReceiveResult, TypeOK, signalVars
  <1>6. CASE TimerFires
    <2>1. inflight' \subseteq Keys /\ queue' \in SUBSET Items /\ waiting' \in [Keys -> Nat]
      BY <1>0, <1>6, RunDueType DEF TimerFires, TypeOK
    <2>2. timer' \in Nat
      BY <1>6, <2>1, RearmEarly DEF TimerFires, Rearm
    <2>3. QED
      BY <1>0, <1>6, <2>1, <2>2 DEF TimerFires, TypeOK, signalVars
  <1>7. CASE Stop
    BY <1>0, <1>7 DEF Stop, TypeOK, signalVars, workerVars
  <1>8. CASE Exit
    BY <1>0, <1>8 DEF Exit, TypeOK, signalVars
  <1>9. ASSUME NEW k \in Keys, Acquire(k)
        PROVE  TypeOK'
    BY <1>0, <1>9 DEF Acquire, TypeOK, loopVars, signalVars
  <1>10. ASSUME NEW k \in Keys, FinishCheck(k)
         PROVE  TypeOK'
    BY <1>0, <1>10 DEF FinishCheck, TypeOK, loopVars, signalVars
  <1>11. ASSUME NEW k \in Keys, Report(k)
         PROVE  TypeOK'
    BY <1>0, <1>11 DEF Report, TypeOK, loopVars, signalVars
  <1>12. ASSUME NEW k \in Keys, Abandon(k)
         PROVE  TypeOK'
    BY <1>0, <1>12 DEF Abandon, TypeOK, loopVars, signalVars
  <1>13. CASE Release
    <2>1. IsFiniteSet(Busy(checking)) /\ IsFiniteSet(Busy(reporting))
      BY SchedulerAssumption, FS_Subset DEF Busy, SchedulerAssumption
    <2>2. Cardinality(Busy(checking)) \in Nat /\ Cardinality(Busy(reporting)) \in Nat
      BY <2>1, FS_CardinalityType
    <2>3. sem > 0
      BY <1>0, <1>13, <2>2 DEF Release, IInv, SlotsAccounted, TypeOK
    <2>4. QED
      BY <1>0, <1>13, <2>3 DEF Release, TypeOK, loopVars, signalVars
  <1>14. CASE Sighup
    BY <1>0, <1>14 DEF Sighup, TypeOK, loopVars, workerVars
  <1>15. CASE Cancel
    BY <1>0, <1>15 DEF Cancel, TypeOK, loopVars, workerVars
  <1>16. CASE Tick
    <2>1. \A it \in queue : it.key \in Keys /\ After(it.wait - 1) \in Nat
      BY <1>0 DEF TypeOK, Items, After
    <2>2. queue' \in SUBSET Items
      BY <1>16, <2>1 DEF Tick, Items
    <2>3. timer' \in Nat /\ discoverIn' \in Nat
      BY <1>0, <1>16 DEF Tick, TypeOK, After
    <2>4. QED
      BY <1>0, <1>16, <2>2, <2>3 DEF Tick, TypeOK, signalVars, workerVars
  <1>17. CASE UNCHANGED vars
    BY <1>0, <1>17 DEF TypeOK, vars, loopVars, signalVars, workerVars
  <1>18. QED
    BY <1>1, <1>2, <1>3, <1>4, <1>5, <1>6, <1>7, <1>8, <1>9, <1>10, <1>11,
       <1>12, <1>13, <1>14, <1>15, <1>16, <1>17
       DEF Next, Loop, Worker, Gone


\* A step keeps the queue in step with the managed and in-flight sets.
LEMMA QueueStep == IInv /\ [Next]_vars => QueueMatchesManaged'
  <1> SUFFICES ASSUME IInv, [Next]_vars
               PROVE  QueueMatchesManaged'
    OBVIOUS
  <1>0. TypeOK /\ QueueMatchesManaged /\ OneCheckPerJob
    BY DEF IInv
  <1>1. CASE DiscoverReturns
    <2>1. PICK d \in Discoveries : managed' = d.managed /\ queue' = d.queue
      BY <1>1 DEF DiscoverReturns
    <2>2. Matches(managed', inflight, queue')
      BY <1>0, <2>1, DiscoveryMatches
    <2>3. QED
      BY <1>1, <2>2 DEF DiscoverReturns, Matches, QueueMatchesManaged
  <1>2. CASE TriggerReturns
    <2>1. PICK d \in Discoveries : managed' = d.managed /\ RunDue(d.managed, DueNow(d.queue))
      BY <1>2 DEF TriggerReturns
    <2>2. d.queue \in SUBSET Items /\ Matches(d.managed, inflight, d.queue)
      BY <1>0, <2>1, DiscoveryType, DiscoveryMatches
    <2>3. DueNow(d.queue) \in SUBSET Items /\ Matches(d.managed, inflight, DueNow(d.queue))
      BY <2>2, DueNowMatches
    <2>4. Matches(managed', inflight', queue')
      BY <1>0, <2>1, <2>3, RunDueMatches DEF TypeOK
    <2>5. QED
      BY <2>4 DEF Matches, QueueMatchesManaged
  <1>3. CASE TimerFires
    <2>1. Matches(managed, inflight, queue) /\ queue \in SUBSET Items /\ inflight \subseteq Keys
      BY <1>0 DEF Matches, QueueMatchesManaged, TypeOK
    <2>2. Matches(managed, inflight', queue')
      BY <1>3, <2>1, RunDueMatches DEF TimerFires
    <2>3. QED
      BY <1>3, <2>2 DEF TimerFires, Matches, QueueMatchesManaged
  <1>4. CASE ReceiveResult
    <2> DEFINE k == Head(results)
               new == [key |-> k, wait |-> After(IntervalFor(managed[k]))]
    <2>1. k \in Keys /\ Pending(k)
      BY <1>0, <1>4 DEF ReceiveResult, TypeOK, Pending
    <2>2. k \in inflight
      BY <1>0, <2>1 DEF OneCheckPerJob
    <2>3. k \notin Queued(queue)
      BY <1>0, <2>1, <2>2 DEF QueueMatchesManaged
    <2>4. inflight' = inflight \ {k} /\ managed' = managed
      BY <1>4 DEF ReceiveResult
    <2>5. CASE managed[k] = None
      <3>1. queue' = queue
        BY <1>4, <2>5 DEF ReceiveResult
      <3>2. QED
        BY <1>0, <2>3, <2>4, <2>5, <3>1 DEF QueueMatchesManaged, Queued
    <2>6. CASE managed[k] # None
      <3>1. queue' = queue \cup {new}
        BY <1>4, <2>6 DEF ReceiveResult
      <3>2. new.key = k
        OBVIOUS
      <3>3. Queued(queue') = Queued(queue) \cup {k}
        BY <3>1, <3>2 DEF Queued
      <3>4. \A it \in queue : it.key # k
        BY <2>3 DEF Queued
      <3>5. \A it1, it2 \in queue' : it1.key = it2.key => it1 = it2
        <4> HIDE DEF new
        <4> QED
          BY <1>0, <3>1, <3>2, <3>4 DEF QueueMatchesManaged
      <3>6. \A j \in Keys : j \in Queued(queue') <=> (managed[j] # None /\ j \notin inflight')
        BY <1>0, <2>3, <2>4, <2>6, <3>3 DEF QueueMatchesManaged
      <3>7. QED
        BY <2>4, <3>5, <3>6 DEF QueueMatchesManaged
    <2>7. QED
      BY <2>5, <2>6
  <1>5. CASE Tick
    <2> DEFINE later(it) == [key |-> it.key, wait |-> After(it.wait - 1)]
    <2>1. queue' = {later(it) : it \in queue} /\ managed' = managed /\ inflight' = inflight
      BY <1>5 DEF Tick
    <2>2. \A it \in queue : later(it) \in queue' /\ later(it).key = it.key
      BY <2>1
    <2>3. \A new \in queue' : \E it \in queue : new = later(it) /\ new.key = it.key
      BY <2>1
    <2>4. Queued(queue') = Queued(queue)
      <3>1. \A it \in queue : \E new \in queue' : new.key = it.key
        BY <2>2
      <3>2. \A new \in queue' : \E it \in queue : new.key = it.key
        BY <2>3
      <3>3. QED
        BY <3>1, <3>2 DEF Queued
    <2>5. ASSUME NEW it1 \in queue', NEW it2 \in queue', it1.key = it2.key
          PROVE  it1 = it2
      <3>1. PICK old1 \in queue : it1 = later(old1) /\ it1.key = old1.key
        BY <2>3
      <3>2. PICK old2 \in queue : it2 = later(old2) /\ it2.key = old2.key
        BY <2>3
      <3>3. old1 = old2
        BY <1>0, <2>5, <3>1, <3>2 DEF QueueMatchesManaged
      <3>4. QED
        BY <3>1, <3>2, <3>3
    <2>6. QED
      BY <1>0, <2>1, <2>4, <2>5 DEF QueueMatchesManaged
  <1>6. CASE UNCHANGED <<managed, inflight, queue>>
    BY <1>0, <1>6 DEF QueueMatchesManaged, Queued
  <1>7. QED
    BY <1>1, <1>2, <1>3, <1>4, <1>5, <1>6
       DEF Next, Loop, Worker, DiscoverTick, TriggerReceived, Stop, Exit, Acquire,
           FinishCheck, Report, Abandon, Release, Sighup, Cancel, Gone,
           vars, loopVars

\* A dispatch keeps one check per job: only jobs with none get one.
LEMMA RunDueOneCheck ==
  ASSUME TypeOK, OneCheckPerJob, NEW m, NEW q \in SUBSET Items,
         RunDue(m, q), UNCHANGED <<cancelled, checking, reporting, results>>
  PROVE  OneCheckPerJob'
  <1>1. \A k \in Dispatched(m, q) : k \in Keys /\ k \notin inflight /\ k \in inflight'
    BY DEF Dispatched, Queued, Due, Items, RunDue
  <1>2. \A k \in Keys : k \notin Dispatched(m, q) => (k \in inflight' <=> k \in inflight)
    BY DEF RunDue
  <1>3. \A k \in Dispatched(m, q) : UnderWay(k)' = UnderWay(k) + 1
    BY <1>1 DEF RunDue, UnderWay, TypeOK
  <1>4. \A k \in Keys : k \notin Dispatched(m, q) => UnderWay(k)' = UnderWay(k)
    BY DEF RunDue, UnderWay
  <1>5. \A k \in Keys : Pending(k)' <=> Pending(k)
    BY DEF Pending
  <1>6. QED
    BY <1>1, <1>2, <1>3, <1>4, <1>5 DEF OneCheckPerJob

\* A step keeps one check per job.
LEMMA OneCheckStep == IInv /\ [Next]_vars => OneCheckPerJob'
  <1> SUFFICES ASSUME IInv, [Next]_vars
               PROVE  OneCheckPerJob'
    OBVIOUS
  <1>0. TypeOK /\ OneCheckPerJob
    BY DEF IInv
  <1>1. CASE TriggerReturns
    <2>1. PICK d \in Discoveries : RunDue(d.managed, DueNow(d.queue))
      BY <1>1 DEF TriggerReturns
    <2>2. d.queue \in SUBSET Items
      BY <1>0, <2>1, DiscoveryType
    <2>3. DueNow(d.queue) \in SUBSET Items
      BY <2>2 DEF DueNow, Items
    <2>4. QED
      BY <1>0, <1>1, <2>1, <2>3, RunDueOneCheck DEF TriggerReturns, signalVars
  <1>2. CASE TimerFires
    BY <1>0, <1>2, RunDueOneCheck DEF TimerFires, TypeOK, signalVars
  <1>3. CASE ReceiveResult
    <2>0. PICK k \in Keys : k = Head(results)
      BY <1>0, <1>3 DEF ReceiveResult, TypeOK
    <2>1. /\ k = results[1] /\ k \in Keys /\ Len(results) \in Nat /\ Len(results) > 0
          /\ Len(results') = Len(results) - 1
          /\ \A i \in 1 .. Len(results') : results'[i] = results[i + 1]
      BY <1>0, <1>3, <2>0 DEF ReceiveResult, TypeOK
    <2>2. \A i, j \in 1 .. Len(results') : results'[i] = results'[j] => i = j
      BY <1>0, <2>1 DEF OneCheckPerJob
    <2>3. ~Pending(k)'
      <3>1. \A i \in 1 .. Len(results') : results[i + 1] # results[1]
        BY <1>0, <2>1 DEF OneCheckPerJob
      <3>2. QED
        BY <2>1, <3>1 DEF Pending
    <2>4. \A j \in Keys : j # k => (Pending(j)' <=> Pending(j))
      <3> SUFFICES ASSUME NEW j \in Keys, j # k
                   PROVE  Pending(j)' <=> Pending(j)
        OBVIOUS
      <3>1. ASSUME NEW i \in 1 .. Len(results), results[i] = j
            PROVE  i - 1 \in 1 .. Len(results') /\ results'[i - 1] = j
        <4>1. i # 1
          BY <2>1, <3>1
        <4>2. i - 1 \in 1 .. Len(results') /\ (i - 1) + 1 = i
          BY <2>1, <4>1
        <4>3. QED
          BY <2>1, <3>1, <4>2
      <3>2. ASSUME NEW i \in 1 .. Len(results'), results'[i] = j
            PROVE  i + 1 \in 1 .. Len(results) /\ results[i + 1] = j
        BY <2>1, <3>2
      <3>3. QED
        BY <3>1, <3>2 DEF Pending
    <2>5. \A j \in Keys : UnderWay(j)' = UnderWay(j)
      BY <1>3 DEF ReceiveResult, UnderWay
    <2>6. Pending(k)
      BY <2>1 DEF Pending
    <2>7. inflight' = inflight \ {k} /\ cancelled' = cancelled
      BY <1>3, <2>0 DEF ReceiveResult, signalVars
    <2>8. UnderWay(k) = 0
      BY <1>0, <2>1, <2>6 DEF OneCheckPerJob
    <2>9. QED
      BY <1>0, <2>1, <2>2, <2>3, <2>4, <2>5, <2>7, <2>8 DEF OneCheckPerJob
  <1>4. CASE Exit
    <2>1. cancelled /\ cancelled'
      BY <1>4 DEF Exit, IInv, StoppedCancelled, signalVars
    <2>2. \A k \in Keys : UnderWay(k)' = 0
      BY <1>4 DEF Exit, UnderWay
    <2>3. \A k \in Keys : ~Pending(k)'
      BY <1>4 DEF Exit, Pending
    <2>4. \A i, j \in 1 .. Len(results') : results'[i] = results'[j] => i = j
      BY <1>4 DEF Exit
    <2>5. QED
      BY <2>1, <2>2, <2>3, <2>4 DEF OneCheckPerJob
  <1>5. ASSUME NEW k \in Keys, Acquire(k)
        PROVE  OneCheckPerJob'
    <2>1. \A j \in Keys : UnderWay(j)' = UnderWay(j)
      BY <1>0, <1>5 DEF Acquire, UnderWay, TypeOK
    <2>2. UNCHANGED <<inflight, cancelled, results>>
      BY <1>5 DEF Acquire, loopVars, signalVars
    <2>3. QED
      BY <1>0, <2>1, <2>2 DEF OneCheckPerJob, Pending
  <1>6. ASSUME NEW k \in Keys, FinishCheck(k)
        PROVE  OneCheckPerJob'
    <2>1. \A j \in Keys : UnderWay(j)' = UnderWay(j)
      BY <1>0, <1>6 DEF FinishCheck, UnderWay, TypeOK
    <2>2. UNCHANGED <<inflight, cancelled, results>>
      BY <1>6 DEF FinishCheck, loopVars, signalVars
    <2>3. QED
      BY <1>0, <2>1, <2>2 DEF OneCheckPerJob, Pending
  <1>7. ASSUME NEW k \in Keys, Report(k)
        PROVE  OneCheckPerJob'
    <2>1. /\ Len(results) \in Nat
          /\ Len(results') = Len(results) + 1
          /\ results'[Len(results) + 1] = k
          /\ \A i \in 1 .. Len(results) : results'[i] = results[i]
      BY <1>0, <1>7 DEF Report, TypeOK
    <2>2. UnderWay(k)' = UnderWay(k) - 1 /\ UnderWay(k) >= 1
      BY <1>0, <1>7 DEF Report, UnderWay, TypeOK
    <2>3. \A j \in Keys : j # k => UnderWay(j)' = UnderWay(j)
      BY <1>0, <1>7 DEF Report, UnderWay, TypeOK
    <2>4. UnderWay(k) = 1 /\ UnderWay(k)' = 0 /\ k \in inflight /\ ~Pending(k)
      BY <1>0, <2>2 DEF OneCheckPerJob
    <2>5. \A i \in 1 .. Len(results) : results[i] # k
      BY <2>4 DEF Pending
    <2>6. Pending(k)'
      BY <2>1 DEF Pending
    <2>7. \A j \in Keys : j # k => (Pending(j)' <=> Pending(j))
      BY <2>1 DEF Pending
    <2>8. \A i, j \in 1 .. Len(results') : results'[i] = results'[j] => i = j
      BY <1>0, <2>1, <2>5 DEF OneCheckPerJob
    <2>9. inflight' = inflight /\ cancelled' = cancelled
      BY <1>7 DEF Report, loopVars, signalVars
    <2>10. QED
      BY <1>0, <2>3, <2>4, <2>6, <2>7, <2>8, <2>9 DEF OneCheckPerJob
  <1>8. ASSUME NEW k \in Keys, Abandon(k)
        PROVE  OneCheckPerJob'
    <2>1. UnderWay(k)' = UnderWay(k) - 1 /\ UnderWay(k) >= 1
      BY <1>0, <1>8 DEF Abandon, UnderWay, TypeOK
    <2>2. \A j \in Keys : j # k => UnderWay(j)' = UnderWay(j)
      BY <1>0, <1>8 DEF Abandon, UnderWay, TypeOK
    <2>3. UNCHANGED <<inflight, cancelled, results>> /\ cancelled
      BY <1>8 DEF Abandon, loopVars, signalVars
    <2>4. \A j \in Keys : Pending(j)' <=> Pending(j)
      BY <2>3 DEF Pending
    <2>5. UnderWay(k) = 1 /\ UnderWay(k)' = 0
      BY <1>0, <2>1 DEF OneCheckPerJob
    <2>6. QED
      BY <1>0, <2>2, <2>3, <2>4, <2>5 DEF OneCheckPerJob
  <1>9. CASE Cancel
    <2>1. UNCHANGED <<inflight, waiting, checking, reporting, results>> /\ cancelled'
      BY <1>9 DEF Cancel, loopVars, workerVars
    <2>2. QED
      BY <1>0, <2>1 DEF OneCheckPerJob, UnderWay, Pending
  <1>10. CASE UNCHANGED <<inflight, cancelled, waiting, checking, reporting, results>>
    BY <1>0, <1>10 DEF OneCheckPerJob, UnderWay, Pending
  <1>11. QED
    BY <1>1, <1>2, <1>3, <1>4, <1>5, <1>6, <1>7, <1>8, <1>9, <1>10
       DEF Next, Loop, Worker, DiscoverReturns, DiscoverTick, TriggerReceived, Stop,
           Release, Sighup, Tick, Gone, vars, loopVars, signalVars, workerVars


\* The keys at a stage are finitely many, so they can be counted.
LEMMA BusyFinite ==
  ASSUME NEW f
  PROVE  IsFiniteSet(Busy(f)) /\ Cardinality(Busy(f)) \in Nat
  <1>1. IsFiniteSet(Keys) /\ Busy(f) \in SUBSET Keys
    BY SchedulerAssumption DEF SchedulerAssumption, Busy
  <1>2. IsFiniteSet(Busy(f))
    BY <1>1, FS_Subset
  <1>3. QED
    BY <1>2, FS_CardinalityType

\* One worker of key k leaves a stage at which it was the only one of k.
LEMMA LeaveStage ==
  ASSUME NEW f \in [Keys -> Nat], NEW k \in Keys, f[k] = 1
  PROVE  Cardinality(Busy([f EXCEPT ![k] = @ - 1])) = Cardinality(Busy(f)) - 1
  <1>1. k \in Busy(f) /\ Busy([f EXCEPT ![k] = @ - 1]) = Busy(f) \ {k}
    BY DEF Busy
  <1>2. QED
    BY <1>1, BusyFinite, FS_RemoveElement

\* One worker of key k enters a stage at which there was none of k.
LEMMA EnterStage ==
  ASSUME NEW f \in [Keys -> Nat], NEW k \in Keys, f[k] = 0
  PROVE  Cardinality(Busy([f EXCEPT ![k] = @ + 1])) = Cardinality(Busy(f)) + 1
  <1>1. k \notin Busy(f) /\ Busy([f EXCEPT ![k] = @ + 1]) = Busy(f) \cup {k}
    BY DEF Busy
  <1>2. QED
    BY <1>1, BusyFinite, FS_AddElement

\* A step keeps the account of the semaphore's tokens.
LEMMA SlotsStep == IInv /\ [Next]_vars => SlotsAccounted'
  <1> SUFFICES ASSUME IInv, [Next]_vars
               PROVE  SlotsAccounted'
    OBVIOUS
  <1> DEFINE nc == Cardinality(Busy(checking))
             nr == Cardinality(Busy(reporting))
  <1>0. TypeOK /\ OneCheckPerJob /\ SlotsAccounted
    BY DEF IInv
  <1>a. nc \in Nat /\ nr \in Nat /\ nc' \in Nat /\ nr' \in Nat
    BY BusyFinite
  <1>b. \A k \in Keys : /\ waiting[k] > 0 => checking[k] = 0
                        /\ checking[k] > 0 => checking[k] = 1 /\ reporting[k] = 0
                        /\ reporting[k] > 0 => reporting[k] = 1
    <2> SUFFICES ASSUME NEW k \in Keys
                 PROVE  /\ waiting[k] > 0 => checking[k] = 0
                        /\ checking[k] > 0 => checking[k] = 1 /\ reporting[k] = 0
                        /\ reporting[k] > 0 => reporting[k] = 1
      OBVIOUS
    <2>1. waiting[k] \in Nat /\ checking[k] \in Nat /\ reporting[k] \in Nat
      BY <1>0 DEF TypeOK
    <2>2. waiting[k] + checking[k] + reporting[k] \in {0, 1}
      BY <1>0 DEF OneCheckPerJob, UnderWay
    <2>3. QED
      BY <2>1, <2>2
  <1>c. Capacity \in Nat \ {0} /\ releasing \in Nat /\ sem \in 0 .. Capacity
    BY <1>0, CapacityType DEF TypeOK
  <1>d. sem = nc + nr + releasing
    BY <1>0 DEF SlotsAccounted
  <1>1. CASE Exit
    <2>1. Busy(checking)' = {} /\ Busy(reporting)' = {}
      BY <1>1 DEF Exit, Busy
    <2>2. nc' = 0 /\ nr' = 0
      BY <2>1, FS_EmptySet
    <2>3. sem' = 0 /\ releasing' = 0
      BY <1>1 DEF Exit
    <2>4. QED
      BY <1>c, <2>2, <2>3 DEF SlotsAccounted
  <1>2. ASSUME NEW k \in Keys, Acquire(k)
        PROVE  SlotsAccounted'
    <2>1. checking[k] = 0 /\ checking' = [checking EXCEPT ![k] = @ + 1]
      BY <1>b, <1>2 DEF Acquire
    <2>2. nc' = nc + 1
      BY <1>0, <2>1, EnterStage DEF TypeOK
    <2>3. sem' = sem + 1 /\ sem < Capacity /\ reporting' = reporting /\ releasing' = releasing
      BY <1>2 DEF Acquire
    <2>4. nr' = nr
      BY <2>3
    <2>5. QED
      BY <1>a, <1>c, <1>d, <2>2, <2>3, <2>4 DEF SlotsAccounted
  <1>3. ASSUME NEW k \in Keys, FinishCheck(k)
        PROVE  SlotsAccounted'
    <2>1. checking[k] = 1 /\ reporting[k] = 0
      BY <1>b, <1>3 DEF FinishCheck
    <2>2. nc' = nc - 1
      BY <1>0, <1>3, <2>1, LeaveStage DEF FinishCheck, TypeOK
    <2>3. nr' = nr + 1
      BY <1>0, <1>3, <2>1, EnterStage DEF FinishCheck, TypeOK
    <2>4. sem' = sem /\ releasing' = releasing
      BY <1>3 DEF FinishCheck
    <2>5. QED
      BY <1>a, <1>c, <1>d, <2>2, <2>3, <2>4 DEF SlotsAccounted
  <1>4. ASSUME NEW k \in Keys, Report(k) \/ Abandon(k)
        PROVE  SlotsAccounted'
    <2>1. reporting[k] = 1
      BY <1>b, <1>4 DEF Report, Abandon
    <2>2. nr' = nr - 1
      BY <1>0, <1>4, <2>1, LeaveStage DEF Report, Abandon, TypeOK
    <2>3. sem' = sem /\ releasing' = releasing + 1 /\ checking' = checking
      BY <1>4 DEF Report, Abandon
    <2>4. nc' = nc
      BY <2>3
    <2>5. QED
      BY <1>a, <1>c, <1>d, <2>2, <2>3, <2>4 DEF SlotsAccounted
  <1>5. CASE Release
    <2>1. /\ releasing > 0 /\ releasing' = releasing - 1 /\ sem' = sem - 1
          /\ checking' = checking /\ reporting' = reporting
      BY <1>5 DEF Release
    <2>2. nc' = nc /\ nr' = nr
      BY <2>1
    <2>3. QED
      BY <1>a, <1>c, <1>d, <2>1, <2>2 DEF SlotsAccounted
  <1>6. CASE UNCHANGED <<checking, reporting, releasing, sem>>
    BY <1>0, <1>6 DEF SlotsAccounted, Busy
  <1>7. QED
    BY <1>1, <1>2, <1>3, <1>4, <1>5, <1>6
       DEF Next, Loop, Worker, DiscoverReturns, DiscoverTick, TriggerReceived,
           TriggerReturns, ReceiveResult, TimerFires, Stop, Sighup, Cancel, Tick, Gone,
           vars, signalVars, workerVars

\* A step keeps the loop's timer early enough.
LEMMA TimerStep == IInv /\ [Next]_vars => TimerNotLate'
  <1> SUFFICES ASSUME IInv, [Next]_vars
               PROVE  TimerNotLate'
    OBVIOUS
  <1>0. TypeOK /\ TimerNotLate /\ TypeOK'
    BY TypeStep DEF IInv
  <1>1. CASE Rearm
    <2>1. queue' \in SUBSET Items
      BY <1>0 DEF TypeOK
    <2>2. /\ timer' <= After(DiscoverEvery)
          /\ \A it \in queue' : timer' <= it.wait
      BY <1>1, <2>1, RearmEarly DEF Rearm
    <2>3. QED
      BY <2>2 DEF TimerNotLate
  <1>2. CASE Tick
    <2>1. SUFFICES ASSUME pc = "select"
                   PROVE  /\ \A it \in queue' : timer' <= it.wait
                          /\ timer' <= After(DiscoverEvery)
      BY <1>2 DEF Tick, TimerNotLate
    <2>2. timer \in Nat /\ timer' = After(timer - 1)
      BY <1>0, <1>2 DEF Tick, TypeOK
    <2>3. ASSUME NEW it \in queue'
          PROVE  timer' <= it.wait
      <3>1. PICK old \in queue : it = [key |-> old.key, wait |-> After(old.wait - 1)]
        BY <1>2 DEF Tick
      <3>2. old.wait \in Nat /\ timer <= old.wait
        BY <1>0, <2>1 DEF TypeOK, Items, TimerNotLate
      <3>3. it.wait = After(old.wait - 1)
        BY <3>1
      <3>4. QED
        BY <2>2, <3>2, <3>3 DEF After
    <2>4. After(DiscoverEvery) \in Nat /\ timer <= After(DiscoverEvery)
      BY <1>0, <2>1, AfterType, SchedulerAssumption DEF SchedulerAssumption, TimerNotLate
    <2>5. timer' <= After(DiscoverEvery)
      <3> DEFINE limit == After(DiscoverEvery)
      <3> HIDE DEF limit
      <3>1. limit \in Nat /\ timer <= limit
        BY <2>4 DEF limit
      <3>2. timer' <= limit
        BY <2>2, <3>1 DEF After
      <3>3. QED
        BY <3>2 DEF limit
    <2>6. QED
      BY <2>3, <2>5
  <1>3. CASE pc' # "select"
    BY <1>3 DEF TimerNotLate
  <1>4. CASE UNCHANGED <<pc, queue, timer>>
    BY <1>0, <1>4 DEF TimerNotLate
  <1>5. QED
    BY <1>1, <1>2, <1>3, <1>4
       DEF Next, Loop, Worker, DiscoverReturns, DiscoverTick, TriggerReceived,
           TriggerReturns, ReceiveResult, TimerFires, Stop, Exit, Acquire, FinishCheck,
           Report, Abandon, Release, Sighup, Cancel, Gone, vars, loopVars

\* A step keeps the fact that a stopped loop was cancelled.
LEMMA StoppedStep == IInv /\ [Next]_vars => StoppedCancelled'
  BY DEF IInv, StoppedCancelled, Next, Loop, Worker, DiscoverReturns, DiscoverTick,
         TriggerReceived, TriggerReturns, ReceiveResult, TimerFires, Stop, Exit,
         Acquire, FinishCheck, Report, Abandon, Release, Sighup, Cancel, Tick, Gone,
         vars, loopVars, signalVars

----------------------------------------------------------------------------
(* The theorems.                                                           *)

\* Every reachable state satisfies the inductive invariant.
THEOREM Invariance == Spec => []IInv
  <1>1. IInv /\ [Next]_vars => IInv'
    BY TypeStep, StoppedStep, OneCheckStep, QueueStep, SlotsStep, TimerStep DEF IInv
  <1>2. QED
    BY InitIInv, <1>1, PTL DEF Spec

\* The types hold; no channel ever holds more than its capacity and the
\* semaphore is never released without a token (scheduler.go:99-100, 207-221).
THEOREM TypeCorrect == Spec => []TypeOK
  <1>1. IInv => TypeOK
    BY DEF IInv
  <1>2. QED
    BY <1>1, Invariance, PTL

\* Every managed job has exactly one next check, queued or in flight, and no
\* other job has one queued (scheduler.go:192-257).
THEOREM QueueCorrect == Spec => []QueueMatchesManaged
  <1>1. IInv => QueueMatchesManaged
    BY DEF IInv
  <1>2. QED
    BY <1>1, Invariance, PTL

\* No job ever has two checks at a time and no in-flight mark is lost while
\* the process runs (scheduler.go:192-232).
THEOREM OneCheckCorrect == Spec => []OneCheckPerJob
  <1>1. IInv => OneCheckPerJob
    BY DEF IInv
  <1>2. QED
    BY <1>1, Invariance, PTL

\* At most -concurrency checks run at once and no slot leaks, whatever the
\* number of jobs (scheduler.go:81-84, 207-221).
THEOREM ConcurrencyCorrect == Spec => []SlotsAccounted
  <1>1. IInv => SlotsAccounted
    BY DEF IInv
  <1>2. QED
    BY <1>1, Invariance, PTL

\* The loop never sleeps past a deadline (scheduler.go:119, 177-189).
THEOREM TimerCorrect == Spec => []TimerNotLate
  <1>1. IInv => TimerNotLate
    BY DEF IInv
  <1>2. QED
    BY <1>1, Invariance, PTL

\* A SIGHUP leaves every managed job with a check in flight, also when the
\* rediscovery fails (scheduler.go:162-173).
THEOREM TriggerCorrect == Spec => TriggerCoversManaged
  <1> DEFINE covers == pc = "triggering" /\ pc' = "select"
                         => \A k \in Keys : managed'[k] # None => k \in inflight'
  <1>1. IInv /\ [Next]_vars => [covers]_vars
    <2> SUFFICES ASSUME IInv, Next, pc = "triggering", pc' = "select",
                        NEW k \in Keys, managed'[k] # None
                 PROVE  k \in inflight'
      OBVIOUS
    <2>0. TypeOK /\ QueueMatchesManaged /\ inflight \subseteq Keys
      BY DEF IInv, TypeOK
    <2>1. TriggerReturns
      BY DEF Next, Loop, Worker, DiscoverReturns, DiscoverTick, TriggerReceived,
             ReceiveResult, TimerFires, Stop, Exit, Acquire, FinishCheck, Report, Abandon,
             Release, Sighup, Cancel, Tick, Gone, vars, loopVars
    <2>2. PICK d \in Discoveries : managed' = d.managed /\ RunDue(d.managed, DueNow(d.queue))
      BY <2>1 DEF TriggerReturns
    <2>3. d.queue \in SUBSET Items /\ Matches(d.managed, inflight, d.queue)
      BY <2>0, <2>2, DiscoveryType, DiscoveryMatches
    <2>4. /\ DueNow(d.queue) \in SUBSET Items
          /\ Due(DueNow(d.queue)) = DueNow(d.queue)
          /\ Matches(d.managed, inflight, DueNow(d.queue))
      BY <2>3, DueNowMatches
    <2>5. Matches(managed', inflight', queue')
      BY <2>0, <2>2, <2>4, RunDueMatches
    <2>6. queue' = {}
      BY <2>2, <2>4 DEF RunDue
    <2>7. k \notin Queued(queue')
      BY <2>6 DEF Queued
    <2>8. QED
      BY <2>5, <2>7 DEF Matches
  <1>2. QED
    BY <1>1, Invariance, PTL DEF Spec, TriggerCoversManaged

----------------------------------------------------------------------------
(* Scheduler implements CheckCycle.                                        *)

\* The stage of a job, without the queue.
Phase(k) ==
    IF waiting[k] > 0 THEN "waiting"
    ELSE IF checking[k] > 0 THEN "checking"
    ELSE IF k \in inflight THEN "ended"
    ELSE IF managed[k] # None THEN "queued" ELSE "none"

\* In the states of the inductive invariant a managed job that has no check in
\* flight is queued.
StagesKnown == \A k \in Keys : Stage(k) = Phase(k)

LEMMA StagePhase == IInv => StagesKnown
  <1> SUFFICES ASSUME IInv, NEW k \in Keys
               PROVE  Stage(k) = Phase(k)
    BY DEF StagesKnown
  <1>1. waiting[k] \in Nat /\ checking[k] \in Nat /\ reporting[k] \in Nat
    BY DEF IInv, TypeOK
  <1>2. waiting[k] > 0 => checking[k] = 0 /\ k \in inflight
    BY <1>1 DEF IInv, OneCheckPerJob, UnderWay
  <1>3. checking[k] > 0 => waiting[k] = 0 /\ k \in inflight
    BY <1>1 DEF IInv, OneCheckPerJob, UnderWay
  <1>4. k \in Queued(queue) <=> (managed[k] # None /\ k \notin inflight)
    BY DEF IInv, QueueMatchesManaged
  <1>5. QED
    BY <1>1, <1>2, <1>3, <1>4 DEF Stage, Phase

\* The initial states map to the initial state of the cycle.
LEMMA CycleInit == Init => Cycle!Init
  <1> SUFFICES ASSUME Init
               PROVE  Cycle!Init
    OBVIOUS
  <1>1. \A k \in Keys : Stage(k) = "none"
    BY DEF Init, Stage, Queued
  <1>2. {k \in Keys : managed[k] # None} = {}
    BY DEF Init
  <1>3. QED
    BY <1>1, <1>2 DEF Init, Cycle!Init

\* A dispatch with managed set m moves exactly the jobs it dispatches.
LEMMA DispatchPhase ==
  ASSUME IInv, StagesKnown, StagesKnown', UNCHANGED checking,
         NEW m, NEW q \in SUBSET Items, Matches(m, inflight, q), RunDue(m, q),
         managed' = m
  PROVE  \A k \in Keys :
            /\ k \in Dispatched(m, q) => Stage(k)' = "waiting"
            /\ k \notin Dispatched(m, q) => (k \in inflight' <=> k \in inflight)
            /\ k \notin Dispatched(m, q) => waiting'[k] = waiting[k]
  <1>1. \A k \in Dispatched(m, q) : k \in Keys /\ waiting'[k] = waiting[k] + 1
    BY DEF Dispatched, Queued, Due, Items, RunDue
  <1>2. \A k \in Keys : waiting[k] \in Nat
    BY DEF IInv, TypeOK
  <1>3. \A k \in Dispatched(m, q) : waiting'[k] > 0
    BY <1>1, <1>2
  <1>4. \A k \in Dispatched(m, q) : Stage(k)' = "waiting"
    BY <1>1, <1>3 DEF StagesKnown, Phase
  <1>5. QED
    BY <1>4 DEF RunDue

\* Every step of the scheduler is a step of the cycle or leaves it as it is.
LEMMA CycleStep ==
  IInv /\ StagesKnown /\ StagesKnown' /\ [Next]_vars => [Cycle!Next]_(Cycle!vars)
  <1> SUFFICES ASSUME IInv, StagesKnown, StagesKnown', [Next]_vars
               PROVE  [Cycle!Next]_(Cycle!vars)
    OBVIOUS
  <1> DEFINE jobs  == {k \in Keys : managed[k] # None}
             st    == [k \in Keys |-> Stage(k)]
             gone  == pc = "exited"
  <1>0. TypeOK /\ OneCheckPerJob /\ inflight \subseteq Keys
    BY DEF IInv, TypeOK
  <1>1. ASSUME UNCHANGED <<managed, inflight, waiting, checking>>, gone' = gone
        PROVE  UNCHANGED Cycle!vars
    <2>1. \A k \in Keys : Stage(k)' = Stage(k)
      BY <1>1 DEF StagesKnown, Phase
    <2>2. st' = st
      BY <2>1
    <2>3. jobs' = jobs
      BY <1>1
    <2>4. QED
      BY <1>1, <2>2, <2>3 DEF Cycle!vars
  <1>2. CASE DiscoverReturns
    <2>1. UNCHANGED <<inflight, waiting, checking>> /\ ~gone /\ ~gone'
      BY <1>2 DEF DiscoverReturns, workerVars
    <2>2. \A k \in Keys : Stage(k)' = IF Stage(k) \notin {"none", "queued"} THEN Stage(k)
                                      ELSE IF k \in jobs' THEN "queued" ELSE "none"
      BY <2>1 DEF StagesKnown, Phase
    <2>3. st' = Cycle!Relisted(jobs')
      BY <2>2 DEF Cycle!Relisted
    <2>4. jobs' \in SUBSET Keys
      OBVIOUS
    <2>5. Cycle!Discover
      BY <2>3, <2>4 DEF Cycle!Discover
    <2>6. QED
      BY <2>1, <2>5 DEF Cycle!Next, Cycle!Alive
  <1>3. CASE TriggerReturns
    <2>1. PICK d \in Discoveries : managed' = d.managed /\ RunDue(d.managed, DueNow(d.queue))
      BY <1>3 DEF TriggerReturns
    <2>2. UNCHANGED checking /\ ~gone /\ ~gone'
      BY <1>3 DEF TriggerReturns
    <2>3. d.queue \in SUBSET Items /\ Matches(d.managed, inflight, d.queue)
      BY <2>1, DiscoveryType, DiscoveryMatches DEF IInv
    <2>4. /\ DueNow(d.queue) \in SUBSET Items
          /\ Due(DueNow(d.queue)) = DueNow(d.queue)
          /\ Matches(d.managed, inflight, DueNow(d.queue))
      BY <2>3, DueNowMatches
    <2> DEFINE started == Dispatched(d.managed, DueNow(d.queue))
    <2>5. started = Queued(DueNow(d.queue))
      BY <1>0, <2>1, <2>4, RunDueMatches
    <2>6. \A k \in Keys : k \in started <=> (k \in jobs' /\ k \notin inflight)
      BY <2>1, <2>4, <2>5 DEF Matches
    <2>7. \A k \in Keys : /\ k \in started => Stage(k)' = "waiting"
                          /\ k \notin started => (k \in inflight' <=> k \in inflight)
                          /\ k \notin started => waiting'[k] = waiting[k]
      BY <2>1, <2>2, <2>4, DispatchPhase
    <2> HIDE DEF started
    <2>8. \A k \in Keys : k \notin inflight => waiting[k] = 0 /\ checking[k] = 0
      BY <1>0 DEF OneCheckPerJob, UnderWay, TypeOK
    <2> DEFINE relisted(k) == IF Stage(k) \notin {"none", "queued"} THEN Stage(k)
                              ELSE IF k \in jobs' THEN "queued" ELSE "none"
    <2>9. \A k \in Keys : Stage(k)' = IF relisted(k) = "queued" THEN "waiting"
                                      ELSE relisted(k)
      BY <2>2, <2>6, <2>7, <2>8 DEF StagesKnown, Phase
    <2>10. \A k \in Keys : Cycle!Relisted(jobs')[k] = relisted(k)
      BY DEF Cycle!Relisted
    <2> HIDE DEF relisted
    <2>11. st' = [k \in Keys |-> IF Cycle!Relisted(jobs')[k] = "queued" THEN "waiting"
                                 ELSE Cycle!Relisted(jobs')[k]]
      BY <2>9, <2>10
    <2>12. jobs' \in SUBSET Keys
      OBVIOUS
    <2>13. Cycle!Trigger
      BY <2>11, <2>12 DEF Cycle!Trigger
    <2>14. QED
      BY <2>2, <2>13 DEF Cycle!Next, Cycle!Alive
  <1>4. CASE TimerFires
    <2>1. RunDue(managed, queue) /\ UNCHANGED <<managed, checking>> /\ ~gone /\ ~gone'
      BY <1>4 DEF TimerFires
    <2>2. Matches(managed, inflight, queue) /\ queue \in SUBSET Items
      BY DEF IInv, TypeOK, Matches, QueueMatchesManaged
    <2> DEFINE due == Dispatched(managed, queue)
    <2>3. \A k \in Keys : /\ k \in due => Stage(k)' = "waiting"
                          /\ k \notin due => (k \in inflight' <=> k \in inflight)
                          /\ k \notin due => waiting'[k] = waiting[k]
      BY <2>1, <2>2, DispatchPhase
    <2>4. \A k \in due : k \in Keys /\ managed[k] # None /\ k \notin inflight
      BY <2>2 DEF Dispatched, Queued, Due, Items
    <2> HIDE DEF due
    <2>5. \A k \in due : waiting[k] = 0 /\ checking[k] = 0
      BY <1>0, <2>4 DEF OneCheckPerJob, UnderWay, TypeOK
    <2>6. due \in SUBSET Cycle!At("queued")
      BY <2>4, <2>5 DEF Cycle!At, StagesKnown, Phase
    <2>7. \A k \in Keys : Stage(k)' = IF k \in due THEN "waiting" ELSE Stage(k)
      BY <2>1, <2>3 DEF StagesKnown, Phase
    <2>8. Cycle!Dispatch
      BY <2>1, <2>6, <2>7 DEF Cycle!Dispatch
    <2>9. QED
      BY <2>1, <2>8 DEF Cycle!Next, Cycle!Alive
  <1>5. CASE ReceiveResult
    <2> DEFINE r == Head(results)
    <2>1. r \in Keys /\ Pending(r)
      BY <1>0, <1>5 DEF ReceiveResult, TypeOK, Pending
    <2>2. r \in inflight /\ waiting[r] = 0 /\ checking[r] = 0
      BY <1>0, <2>1 DEF OneCheckPerJob, UnderWay, TypeOK
    <2>3. /\ inflight' = inflight \ {r}
          /\ UNCHANGED <<managed, waiting, checking>>
          /\ ~gone /\ ~gone'
      BY <1>5 DEF ReceiveResult
    <2> HIDE DEF r
    <2>4. Stage(r) = "ended"
      BY <2>1, <2>2 DEF StagesKnown, Phase
    <2>5. \A k \in Keys : Stage(k)' = IF k = r THEN IF r \in jobs THEN "queued" ELSE "none"
                                      ELSE Stage(k)
      BY <2>1, <2>2, <2>3 DEF StagesKnown, Phase
    <2>6. Cycle!Requeue(r)
      BY <2>1, <2>3, <2>4, <2>5 DEF Cycle!Requeue
    <2>7. QED
      BY <2>1, <2>3, <2>6 DEF Cycle!Next, Cycle!Alive
  <1>6. CASE Exit
    <2>1. /\ \A k \in Keys : waiting'[k] = 0 /\ checking'[k] = 0
          /\ UNCHANGED <<managed, inflight>>
          /\ ~gone /\ gone'
      BY <1>6 DEF Exit
    <2>2. \A k \in Keys : waiting[k] > 0 \/ checking[k] > 0 => k \in inflight
      BY <1>0 DEF OneCheckPerJob, UnderWay, TypeOK
    <2>3. \A k \in Keys : Stage(k)' = IF Stage(k) \in {"waiting", "checking"} THEN "ended"
                                      ELSE Stage(k)
      BY <2>1, <2>2 DEF StagesKnown, Phase
    <2>4. Cycle!Halt
      BY <2>1, <2>3 DEF Cycle!Halt
    <2>5. QED
      BY <2>1, <2>4 DEF Cycle!Next
  <1>7. ASSUME NEW k \in Keys, Acquire(k)
        PROVE  Cycle!Next
    <2>1. /\ waiting[k] = 1 /\ checking[k] = 0 /\ k \in inflight
          /\ waiting'[k] = 0 /\ checking'[k] = 1
      BY <1>0, <1>7 DEF Acquire, OneCheckPerJob, UnderWay, TypeOK
    <2>2. /\ \A j \in Keys \ {k} : waiting'[j] = waiting[j] /\ checking'[j] = checking[j]
          /\ UNCHANGED <<managed, inflight>>
          /\ ~gone /\ ~gone'
      BY <1>7 DEF Acquire, loopVars, Running
    <2>3. Stage(k) = "waiting"
      BY <2>1 DEF StagesKnown, Phase
    <2>4. \A j \in Keys : Stage(j)' = IF j = k THEN "checking" ELSE Stage(j)
      BY <2>1, <2>2 DEF StagesKnown, Phase
    <2>5. Cycle!At("checking") = Busy(checking)
      <3>1. ASSUME NEW j \in Keys, checking[j] > 0
            PROVE  ~(waiting[j] > 0)
        <4>1. waiting[j] \in Nat /\ checking[j] \in Nat /\ reporting[j] \in Nat
          BY <1>0 DEF TypeOK
        <4>2. waiting[j] + checking[j] + reporting[j] \in {0, 1}
          BY <1>0 DEF OneCheckPerJob, UnderWay
        <4>3. QED
          BY <3>1, <4>1, <4>2
      <3>2. \A j \in Keys : Stage(j) = "checking" <=> checking[j] > 0
        BY <3>1 DEF StagesKnown, Phase
      <3>3. QED
        BY <3>2 DEF Cycle!At, Busy
    <2>6. Cardinality(Busy(checking)) < Capacity
      <3>1. Cardinality(Busy(checking)) \in Nat /\ Cardinality(Busy(reporting)) \in Nat
        BY BusyFinite
      <3>2. sem < Capacity /\ sem \in Nat /\ releasing \in Nat
        BY <1>0, <1>7 DEF Acquire, TypeOK
      <3>3. sem = Cardinality(Busy(checking)) + Cardinality(Busy(reporting)) + releasing
        BY DEF IInv, SlotsAccounted
      <3>4. QED
        BY <3>1, <3>2, <3>3, CapacityType
    <2>7. Cycle!Cardinality(Cycle!At("checking")) < Capacity
      <3>1. Cycle!Cardinality(Busy(checking)) = Cardinality(Busy(checking))
        BY DEF Cycle!Cardinality, Cardinality
      <3>2. QED
        BY <2>5, <2>6, <3>1
    <2>8. st[k] = "waiting" /\ st' = [st EXCEPT ![k] = "checking"]
      BY <2>3, <2>4
    <2>9. Cycle!Begin(k)
      BY <2>2, <2>7, <2>8 DEF Cycle!Begin
    <2>10. QED
      BY <2>2, <2>9 DEF Cycle!Next, Cycle!Alive
  <1>8. ASSUME NEW k \in Keys, FinishCheck(k)
        PROVE  Cycle!Next
    <2>1. /\ waiting[k] = 0 /\ checking[k] = 1 /\ k \in inflight
          /\ waiting'[k] = 0 /\ checking'[k] = 0
      BY <1>0, <1>8 DEF FinishCheck, OneCheckPerJob, UnderWay, TypeOK
    <2>2. /\ \A j \in Keys \ {k} : waiting'[j] = waiting[j] /\ checking'[j] = checking[j]
          /\ UNCHANGED <<managed, inflight>>
          /\ ~gone /\ ~gone'
      BY <1>8 DEF FinishCheck, loopVars, Running
    <2>3. Stage(k) = "checking"
      BY <2>1 DEF StagesKnown, Phase
    <2>4. \A j \in Keys : Stage(j)' = IF j = k THEN "ended" ELSE Stage(j)
      BY <2>1, <2>2 DEF StagesKnown, Phase
    <2>5. Cycle!End(k)
      BY <2>2, <2>3, <2>4 DEF Cycle!End
    <2>6. QED
      BY <2>2, <2>5 DEF Cycle!Next, Cycle!Alive
  <1>9. ASSUME \/ DiscoverTick \/ TriggerReceived \/ Stop \/ Release \/ Sighup
               \/ Cancel \/ Tick \/ Gone \/ UNCHANGED vars
               \/ \E k \in Keys : Report(k) \/ Abandon(k)
        PROVE  UNCHANGED Cycle!vars
    <2>1. UNCHANGED <<managed, inflight, waiting, checking>>
      BY <1>9 DEF DiscoverTick, TriggerReceived, Stop, Release, Sighup, Cancel, Tick, Gone,
                  Report, Abandon, vars, loopVars, workerVars
    <2>2. gone' = gone
      BY <1>9 DEF DiscoverTick, TriggerReceived, Stop, Release, Sighup, Cancel, Tick, Gone,
                  Report, Abandon, vars, loopVars
    <2>3. QED
      BY <1>1, <2>1, <2>2
  <1>10. QED
    BY <1>2, <1>3, <1>4, <1>5, <1>6, <1>7, <1>8, <1>9 DEF Next, Loop, Worker

\* The scheduler implements the cycle: checks only start from the queue, of
\* jobs managed at that time, within the slots, and a job is queued again only
\* when its check has ended (scheduler.go:191-257).
THEOREM Refinement == Spec => ImplementsCycle
  <1>1. Init => Cycle!Init
    BY CycleInit
  <1>2. IInv => StagesKnown
    BY StagePhase
  <1>3. IInv /\ StagesKnown /\ StagesKnown' /\ [Next]_vars => [Cycle!Next]_(Cycle!vars)
    BY CycleStep
  <1>4. QED
    BY <1>1, <1>2, <1>3, Invariance, PTL DEF Spec, ImplementsCycle, Cycle!Spec
=============================================================================
