# nomad-auto-update: TLA+ verification project

`nomad-auto-update` watches a Nomad cluster for jobs whose meta names release
sources (`autoupdate.<variable> = "github:owner/repo"`), resolves each
source's latest release, and re-registers the job with the new variable values.
This directory holds a model of that program, the TLC configurations that check
it on small instances, and proofs, checked by TLAPS, that hold for every instance.

    tlc -workers 2 -config sched_safety.cfg MCScheduler.tla     # one run
    for m in Least SchedulerProofs HeapProofs CacheProofs CoordinatorProofs \
             UpdaterProofs AppliedProofs SourcesProofs; do tlapm $m.tla; done

`PROJECT.json` lists the components, the runs, the source lines each definition
stands for, one deliberate flaw per property that makes it fail, the findings,
the hazards and the theorems.

## 1. Inventory

All code is one Go package. `main` wires the parts; the **run loop** owns the
schedule; **workers** (one goroutine per check) share an **updater**, a **Nomad
client**, the **sources** and a **version cache**.

| Component | State | Operations | Module |
|---|---|---|---|
| scheduler, `scheduler.go` | `managed`, `inflight`, `queue` (a heap), `sem`, `results`; the loop's timer and `discoverCh` | `run`, `discover`, `runDue`, `triggerAll`, `reschedule`, `worker`, `runOnce` | `CheckCycle`, `Scheduler`; `CheckHeap` (the heap); `Coordinator` (`runOnce`) |
| process, `main.go` | run context, SIGHUP channel (buffer of 1) | start, SIGHUP, cancel, exit | `Scheduler`, `Coordinator` |
| updater, `update.go` | locals of one check: submission, `changes`, copy of the job | `check`, `resolve`, `carryMeta` | `Updater`; `Coordinator` (several jobs) |
| Nomad client, `nomad.go` | none | list, submission, deployments, parse, register | `Updater` |
| version cache, `cache.go` | `applied` under a mutex, a JSON file | `Load`, `get`, `set`/`saveLocked` | `DurableMap`, `VersionCache` |
| job meta, `meta.go` | none | `parseManagedJob`, `buildVarFile` | inputs of `Scheduler` and `Updater` |
| GitHub source, `source_github.go` | none | `Latest`, `compareVersions` | `VersionOrder`, `Sources` |
| Docker source, `source_docker.go` | none | `resolveDigest`, token flow | `Sources` |
| telemetry, logging | exporters | set-up, shutdown | not modelled |

**Interactions.** The loop starts a worker with a *copy* of the managed job and
marks the key in flight; the worker takes a slot of `sem`, runs `updater.check`,
sends its key on `results` (capacity `-concurrency`) or gives up when the context
is cancelled, and leaves the slot. Only the loop touches `managed`, `inflight`
and `queue`, but it blocks inside `discover` (an HTTP call) while workers go on.
A check makes four kinds of calls to Nomad and one per variable to a source; the
cluster, its operator and the sources move in between. The cache is shared by all
checks and outlives the process only through its file.

**What is hard, and what makes each part correct.**

- *Scheduler.* Jobs vanish from a listing and come back while their check runs;
  discovery fails; a signal arrives in the middle. Every managed job must have
  exactly one next check, never two at once; a slot or an in-flight mark that is
  lost throttles or stops checks silently; the loop must not oversleep; shutdown
  must not wait for blocked workers.
- *Updater.* A check is a read-modify-write over five round trips without a lock:
  operator registrations, rollouts, auto-reverts, opt-outs and restarts fall in
  between. A release that was applied and reverted must be held back and
  nothing else; an update must not mix the meta of two versions; a job must still converge.
- *Cache.* One map and one file for the checks of all jobs: a save that writes less than
  what was saved before, or that is overtaken by an older one, loses another job's
  record; so may a kill between two system calls, or a failed one that keeps the mutex. The
  file must always be a whole, earlier map; what was saved must still be there after any
  number of restarts.
- *Sources.* Version order at its numeric edges (numbers beyond int, tags of different
  lengths), which must be an order at all or the result depends on the listing's; a
  challenge that repeats, an image tag that moves between two requests.
- *Heap.* Items removed from the middle and deadlines overwritten in place: whatever `peek`
  does not see is not checked.
- *The single pass* (`-once`). Each job once, and not over before its last check has saved.

## 2. Modules

### CheckCycle

What the scheduler promises, without queue, timers, channels or goroutines. A job is
`none`, `queued`, `waiting` for a slot, `checking` or `ended` (returned, and the
scheduler has not learned of it); discoveries move jobs between the first two, a
dispatch or a trigger starts queued ones, and a job is queued again only by
`Requeue`. `Scheduler` implements it: `Stage(k)` maps workers, the in-flight set
and the queue to a stage, and `ImplementsCycle` is a property of `sched_safety`.

### Scheduler

One action per case of the `select` in `run` and per blocking step of a
goroutine. `discover` is an HTTP call, so the two cases that call it are split:
`DiscoverTick`/`TriggerReceived` enter it and `DiscoverReturns`/`TriggerReturns`
finish it with everything the case then does (the merge into the schedule,
`runDue`, re-arming the timer). A discovery answers any function from keys to
an interval or "not managed", or fails. Workers are counted per key and stage
(`waiting`, `checking`, `reporting`) and anonymous once only their deferred release is
left (`releasing`).

Time is relative: a queue item holds the time left to wait (`wait`), cut off
at 0, and `Tick` lowers every deadline. That makes the state space finite without
a horizon: runs go on for ever and the liveness properties mean what they say. `runDue`
dispatches all overdue items at once, so the order of overdue items is not needed; the
array heap is a set whose earliest element is what `peek` returns.

Not in this module: the heap's array (`CheckHeap`), `runOnce` (`Coordinator`), and what a
check does (`Updater`).

### CheckQueue and CheckHeap

`CheckQueue` is the queue as `Scheduler` uses it: a set with one item per key. `CheckHeap` is the
code: the array of `checkHeap` with its items' `due` and `index` fields, `Less`, `Swap`, `Push`, `Pop`
and `remove`, under Go's `container/heap` (external).

Each round of a loop is a step. `op` is what the run loop is doing (`push`, `remove`, `init`, `runDue` or `none`)
and `pc` where that is: at a position (`pos`) of `up` or `down`, before `checkHeap.Pop`, or in the loop of
`runDue` (`sweep`). `Push` (`reschedule`, `discover`) appends and goes `up`; `Drop` (`discover`) moves the
item behind the heap, and the one that took its place goes `down` or, if that moved nothing, `up`, before
`PopLast`; `RunDue` pops while the first item is due; `TriggerAll` overwrites every deadline, and
`heap.Init` sifts down one position after the other. Ties may come out in any order that the array yields.

The steps implement `CheckQueue`. An item leaves the queue when it is moved behind the heap, so
`remove` is one step of the queue where it begins and stutters after that; and while `init` or `runDue` is under way
the queue has only what is not due, so the trigger and `RunDue` take all their items at once.

### Updater

One job, one check at a time (the scheduler guarantees it: `OneCheckPerJob`), call by
call. `ReadSubmission`, `Resolve(v)` or `ResolveFails(v)` for each variable in order,
`ReadDeployment`, `Register` (Nomad's side) and `Respond`/`LoseResponse` (the
client's side), then `Record` once per variable. Early returns are the
`EndCheck` branches; `Fail` is a call that returns an error. `Discover` refreshes the copy of
the job's meta that the next check will be given. `Crash` loses everything but
the file; `Restart` loads it.

Around it, external: Nomad's version history with the `deploying` flag and the
`stable` version that auto-revert returns to (as a new version with a deployment of its
own, unless it is the very job that failed); an operator who registers any
source with any value; sources that publish releases and, where `SourcesGoBack`, withdraw them.

Data is abstracted to what the properties tell apart: a release is a number, the
meta of a job is a set of two kinds of keys (`auto`, the declarations, and
`stamp`, which a tool that registers the job may add to what its source says), an HCL source is a model value
whose meta opts in or not and which Nomad retains or not. `parseJob` reads nothing that changes and is part of
`Register`. A registration that the client has given up on was either accepted
(`LoseResponse`) or never is: one that Nomad accepts later still is not modelled. `set` is one
step here; `VersionCache` takes it apart.

### DurableMap, VersionCache and Coordinator

`VersionCache` is `cache.go` system call by system call: `Get` and `Set` take the mutex; `Set`
changes the map and marshals it; `CreateTemp`, `Write` and `Rename` follow, each of which may fail
(`SaveFails`); `Return` gives the mutex back. `Load` reads the file, or cannot and leaves an
empty map (`LoadFails`). `Halt` ends the process at any point. The map of maps is one function of *entries*,
(job, variable) pairs. `acked` is auxiliary: the last value of an entry whose `set` returned nil.

`DurableMap` is what that amounts to: a map and a file, where a save makes the file equal to the
map, at once.

`Coordinator` is the process over several jobs: it starts (`Load`), serves (a check of any idle
job starts at any time, as `CheckCycle` allows) or makes one pass (`ListOnce`, `CheckNext` in
the order of the keys, `ExitOnce`), is cancelled, exits without waiting for its workers, or is killed. The
checks are those of `Updater` for a job with one variable (all failures are one `Fail`), side by side,
with every `get` (`Ask`), `set` (`Record`) and save a step of `VersionCache`; a context that is cancelled ends
none of these three, so `Fail` is for requests only. Nomad and the sources have no state here: what a check reads
and resolves is any value, which covers whatever is published, withdrawn, reverted or registered. A job with several variables records
them one after the other in one goroutine, so it does to the cache nothing that several jobs
could not do.

### VersionOrder and Sources

`VersionOrder` is `versionSegments` and `compareVersions`. A tag is a record of what these look at:
its numbers (those of the version proper and those after it), and its place in the
alphabet. Numbers beyond int become the largest int, because the code ignores the error of `Atoi`.

`Sources` is `resolve` with both kinds of source: `Begin` parses the spec and chooses the endpoint; `AskNewest`
and `AskList` are GitHub's two endpoints; `Scan` is a round of the loop over the page that `AskList` got, with its
filters, and `ScanEnds` what follows it; `AskManifest`, `FetchToken` and `Retry` are the Docker flow, in which the
registry may answer anything its API allows, with a digest or without. Releases are published and withdrawn and the
image tag moves between any two requests; they stand still during the loop, which is local to `Latest` and looks at
its page only.

### Support

The `MC` modules only give constants values for TLC (and declare the keys of `Scheduler` and
`CheckHeap` interchangeable; no liveness run uses the symmetry). `Least` holds a lemma on
`Min` that three proof modules need.
Operators named "a flawed variant" in the modules are used by no specification:
each is one plausible bug, and `PROJECT.json` says which property finds it.

## 3. Runs

| Run | Asks | Bounds |
|---|---|---|
| `sched_safety` | type and capacity; each managed job has exactly one next check; at most one check per job and no lost mark; slots are accounted for; the timer is never late; a trigger covers every managed job; every step is a step of `CheckCycle` | 3 keys for 2 slots, so a worker has to wait and the results channel fills; intervals unset (1) and 3 around a discovery period of 2, so that either one can bound the timer |
| `sched_live` | a job that stays managed is checked for ever; cancelling ends the process | 2 keys, `Concurrency = 0`: the clamp in `newScheduler` is what makes it live; one slot, so the keys compete |
| `upd_operator` | type; the value that was decided on last is not decided on again; an update carries the meta of one listed version; it comes into a rollout only when the operator has registered during its check: with releases that come and go, an operator who registers anything at any time, stamped or not, HCL sources that opt out and that are not retained | 1 variable, 2 releases (and no value), 4 versions: the job's first, an update, what Nomad or the operator makes of it, and a second update; or three updates, of which the last may go back to the first one's value |
| `upd_live` | no value of either of two variables is decided on twice, while both sources move on and fail independently, with restarts; and both settle | 2 variables, 3 releases, 9 versions: more than all updates and reverts there can be, so the bound never blocks `Register` (`Converges` would fail) |
| `upd_faults` | only reverted releases are held back, with a kill at any step, lost responses and cache I/O failures | 2 variables, 3 releases, 6 versions |
| `coordinator` | types; what was saved is on file and in memory; the file is only ever replaced by the whole map (`DurableMap`); the release recorded last for a job is not registered again; the single pass checks every job it listed, once, and leaves no save unfinished; checks and the single pass end | 2 jobs and 2 values (a job may run, and remember, either or none), so that two saves interleave and the second of two updates of a job follows a restart; `once` either way; failures and kills at every step |
| `heap` | types and the items' indices; the first item is the earliest; the array implements the queue | 6 keys: an array of three levels, so `remove` moves its last item up in some arrays and down in others; waits up to 3 and times up to 2, so ties and overdue items occur |
| `sources` | types; the loop keeps the highest tag it has seen; the result is the newest of its page; a digest is that of the last answer; resolutions end | 7 tags that the alphabet orders differently than their numbers, of different lengths, two of them beyond `MaxInt`, one a pre-release; listings of 4 with pages of 3, so one release is behind the page; all forms of specs |
| `upd_doc_*`, `src_doc_rc` | statements of the documentation that the code does not keep (section 6) | as small as the counterexample allows |

Bounds by name. In `Updater`, `MaxRelease` (releases of a source) and `MaxVersions` (versions of the
job in Nomad); `MaxVersions` stops registrations by anyone; all safety properties
speak of pairs or triples of versions, and 4 versions hold two updates with the operator's or Nomad's version between them. In
`CheckHeap`, `MaxNow` ends time and `MaxWait` bounds the waits. In `Sources`, `MaxListed` bounds a listing, `PageSize`
is 3 instead of 100, and `MaxInt` is 99, larger than every other number in a tag. Nothing in
`Scheduler`, `VersionCache` and `Coordinator` is bounded but by their finite sets of keys, intervals and values.

`CrashSteps` is `SafeCrashSteps` (every step before the registration is sent) where the
property needs it: `AppliedOnce` and `LastHeldBack` do *not* hold when the process dies between the
registration and the record, which is the finding `upd_doc_crash`.
`OperatorActs` is off in `upd_faults` (and, for the size of its state space, in `upd_live`): a release that the operator takes back by hand is held back, too, so
`HeldBackOnlyIfReverted` is about a job that only Nomad takes back. It is on wherever it matters what
falls into the time between two requests of a check. `SourcesGoBack` is on in `upd_operator` only. `AppliedOnce` is about
sources that move on, and so is `HeldBackOnlyIfReverted`: a job that runs a release whose record was lost is kept on it when
the release is withdrawn, because the one before it is the last that is remembered.

### Fairness

- *Scheduler.* Calls to Nomad have a 30 s client timeout and checks a two-minute
  context, so `DiscoverReturns`, `TriggerReturns` and `FinishCheck` are weakly
  fair. Go's `select` picks uniformly among ready cases: a case that is ready again and
  again is taken, which is strong fairness (almost surely) for the cases of the
  loop. Goroutines blocked on a channel send queue up in order, so `Acquire`
  and `Report` are strongly fair. `Sighup` and `Cancel` have no fairness.
- *Updater.* The scheduler keeps discovering and starting checks
  (`ManagedJobsKeepBeingChecked`). That a request that is retried for ever
  succeeds at some time is an assumption about Nomad and the sources (strong
  fairness of the successful steps); a deployment settles within its progress
  deadline; Nomad restarts the process. `Publish`, `Crash`, the failures and
  the operator have no fairness.
- *Coordinator.* A check goes on: its requests have timeouts and file operations return, so
  each check's steps are weakly fair, *some* step: it may always be the failing one. A
  goroutine that waits for the mutex gets it, also when others keep taking it: a Go mutex hands itself
  over to a waiter of more than a millisecond (starvation mode), hence strong fairness of `Ask` and `Record`. The
  loop of `runOnce` is weakly fair. Starts, signals and kills have no fairness.
- *Sources.* A request ends in a response or in the client's 30 s timeout, so a
  resolution takes some step (weak fairness of `Resolution`).

## 4. Proofs

`SchedulerProofs` proves, from `SchedulerAssumption` alone (finitely many keys;
intervals, discovery period and concurrency any integers at all), the six safety
properties of `sched_safety`: `TypeCorrect`, `QueueCorrect`, `OneCheckCorrect`,
`ConcurrencyCorrect`, `TimerCorrect` and `TriggerCorrect`.

They follow from one inductive invariant, `IInv`. None of its parts but
`TimerNotLate` and `StoppedCancelled` is inductive with types alone:

- `TypeOK` says that `sem` stays within its capacity, from below too: a
  release must find a token, which is `SlotsAccounted`.
- `SlotsAccounted` counts the *keys* at a stage, which counts workers only if each
  key has at most one: `OneCheckPerJob`.
- `QueueMatchesManaged` is disturbed by a result for a job that was not in flight:
  `OneCheckPerJob` again, whose "`Pending(k)` implies in flight, once" is what
  allows `reschedule` to push without looking.
- `OneCheckPerJob` lets a cancelled worker leave its mark; `Exit`, which removes all
  workers, needs that the process only stops when cancelled: `StoppedCancelled`.

The lemmas above the steps are about the operators: `MinOfNats` (`Min` is a CHOOSE;
that a set of naturals has a least element is proved from the well-foundedness of
finite intervals), `RearmEarly`, `DiscoveryMatches`,
`RunDueMatches`, `DueNowMatches` (the merge, the dispatch and the trigger each
keep one item per managed key), and `EnterStage`/`LeaveStage` for the counting.
`TriggerCorrect` is an action property: `DueNowMatches` makes every queued job due, and
`QueueMatchesManaged` says the others are in flight already.

Its last theorem is `Refinement`, that `Scheduler` implements `CheckCycle`. In the states
of `IInv` a job's stage can be read from the workers, the in-flight set and the managed
set alone (`StagePhase`, from `QueueMatchesManaged` and `OneCheckPerJob`), and each action
is then one step of the cycle: `TriggerReturns` because a trigger empties the queue,
`Acquire` because `SlotsAccounted` bounds the running checks by `sem`,
`ReceiveResult` because a pending result belongs to an ended check.

`CacheProofs` proves of `VersionCache`, for any entries and values, `AckedSurvives` and
`CacheRefinement`. `AckedOnFile` is not inductive: that a rename does not take away another entry's record
needs `SavingHoldsLock`, that the call in `saveLocked` holds the mutex and that what it has
marshalled, and then written to its temporary file, is the map as it still is; and without a
cache file nothing counts as saved (`AckedNeedsFile`). The same invariant turns `Rename` into
`DurableMap`'s `Save` and the other system calls into stutters.

`CoordinatorProofs` proves, for any jobs, that the whole process uses the cache as `VersionCache`
says (`UsesCache`: every step of `Coordinator` is a step of `VersionCache` or leaves it alone), so
both results hold of the process (`SavedStays`, `ProcessKeepsDurableMap`), and that no check
registers the release that was recorded last for its job, or saved last (`LastRecordCorrect`), from `WantIsNew`: a check that is
about to register was told by `Get` that the release is not in memory, where `AckedOnFile` puts what was saved, and while it is
under way no other check sets its entry (`ChecksInProcess`).

The same invariant carries `TypeCorrect` and `OnceCovers`. `OnceCoversManaged` needs that the jobs that the single pass has
checked and those that it has not come to are the ones that it listed, at all times and never both (`Visited`: `CheckNext` takes one
from the one set to the other; that nothing else starts a check of a pass is `StartsNext`); and that no save is left behind needs that the mutex belongs to a check
that is under way (`LockInUse`), as a single pass only ends when there is none.

`HeapProofs` proves `TypeCorrect`, `PeekCorrect` and `Refinement` of `CheckHeap`, for any number of keys. Heap order
is broken while an operation is under way, and the invariant says where (`HeapOrder`): in `up`, only between the
position and its parent, with the parent no later than the position's children (`UpOrder`); in `down`, only
between the position and its children, from the first position on that has been sifted
(`DownOrder`). `UpRound` and `DownRound` show that a round moves that place one level, `UpDone` and `DownDone` that
the order holds when a loop ends. `DownOrder` knows the position where the sifting began, too: in `remove`, the item
that took the place of the one that is gone may be earlier than its new parent, which is what `up`
after an idle `down` is for; if `down` has moved something, its child is there now, which is not. `InHeap` says that
the positions are within the part of the array that is the heap. That the first item is the earliest
(`FirstIsLeast`) follows from the order by way of `MinOfNats`: of the positions with an item that is earlier, the least one
would have a parent that is one, too. For `Refinement`, an exchange within the heap changes no item (`SwapKeepsItems`), so
the loops are stutters; `SweepEnds` may not leave anything due behind, which is `PeekCorrect`.

`UpdaterProofs` and `AppliedProofs` prove the safety properties of `Updater`, for any number
of variables, releases and versions:

- `TypeCorrect`, `MetaCorrect` and `OnlyOperatorInterrupted` from no assumption about the world. `MetaListed` needs
  `MetaKnown`: what the scheduler knows of the job and the check's copy of it are the meta of some version that opted
  in, and once the check has read the job, of one no later than the version read.
  `InterruptsOnlyOperator` needs `RolloutIsOperators`: a rollout under a check that is about to register comes with a
  version that the operator has registered since the check's read; `ReadDeployment` lets a check through only without any rollout,
  and after it nobody else starts one.
- `LastHeldBackCorrect`, if what is applied gets recorded (`Recording`: the cache file works, no response
  is lost, no kill between registration and record; section 6 shows what happens
  without). The invariant: the last decision on a variable is the record, or the change that is about to
  be recorded by a loop that is not yet past its variable (`LastRecorded`); and such a change is to a value that is neither the
  record nor that of the version read (`ChangesDiffer`), so that registering it *is* a decision (`AllChanged`). Sources may do what they like.
- `AppliedOnceCorrect`, if besides that sources only move on. The invariant: a check's change is later than the record (`ChangesAreLater`, as the
  source was not behind the record and `get` said it is different), and every decision so far is not later than
  the record or is the change that is about to be recorded, by a loop that is not yet past its
  variable (`Remembered`).
- `HeldBackCorrect`, if no operator acts and sources only move on, whatever fails. What is remembered was pushed
  (`RecordsPushed`); from an update to a later one a variable goes back only if Nomad reverted it
  (`Progress`); and a check has read the last update or something later (`ReadsLastUpdate`), so the version
  that it has read can only be behind the remembered value if Nomad went back.

`SourcesProofs` proves `TotalOrder`: on any set of tags, `compareVersions` is antisymmetric,
is 0 for equal tags only, and is transitive. The code compares at the first difference, which is a `Min`; the
proof goes through `Above`, the same without `Min`, where being greater at the first difference composes
(`FirstGreaterTransitive` and the lemmas after it). Hence a set of tags has one that is above all others, which the
loop of `Latest` keeps round by round (`OneMore`, `HighestCorrect`), in whatever order the listing has them.
`NewestCorrect` follows with `NewerComparesAbove`: a newer version proper, in a number that an int can tell from the
other, compares as higher whatever else the tags have. `DigestCorrect` needs `OnlyRegistry`: the answer that led to a
token had no digest. `TypeCorrect` is proved with them.

**Only model-checked.** Liveness, in all modules (TLAPS does not reach it): `ManagedJobsKeepBeingChecked`,
`ShutdownCompletes`, `Converges`, `ChecksReturn`, `OnceEnds` and `ResolutionEnds`. Every other property of a
passing run is a theorem; those of `Updater` that exclude an operator, unrecorded updates or sources that go back are theorems
under that assumption.

## 5. What the passing runs show of the code

The scheduler's bookkeeping is right, for any configuration: the three places that
touch the queue (`discover`, `runDue`, `reschedule`) agree on who queues a job next,
also for a job that disappears and returns during its check. The clamp of
`-concurrency` is needed. Shutdown does not depend on the workers.

"In flight" in `TriggerCoversManaged` includes a check that has returned and whose result the
loop has not read yet; a SIGHUP does not check such a job again. It is next checked one interval later.

No check decides to push the value that was decided on last, as long as the process is not killed between
registration and record and the response arrives; and while sources only move forward, none decides twice on the
same value at all. (That is less than
"never pushed twice": a check can carry a reverted value along without deciding on it, see
`upd_doc_stalebase`.) The revert protection never holds back anything but a reverted
release, whatever fails, when no operator is involved and sources only move forward.

The cache's locking is right: holding the mutex from the change of the map to the rename is what
keeps one job's save from taking away another job's record (the mutant that gives it back after
marshalling loses records). A failing file loses nothing but what was recorded since its last good
save. The release recorded last for a job is not pushed again by the process that recorded it; once its record is saved, by no
later one either, over any number of restarts, unless a start cannot read the file: `main` then goes on with an empty map, and
the next save of any job wipes the records of all. `AckedOnFile` and `LastRecordNotPushed` except exactly that. They
say nothing of earlier records: a set takes the place of the one before, in memory at once and so also
when its own save fails and the old record is still on file.

An update comes into a rollout only if the operator has registered during its check (section 6), and carries the meta of one listed version.

`-once` checks each job that it listed once, one after the other, and returns with no save under way.

The heap is a queue, whatever is pushed, removed, popped or triggered. `compareVersions` is a total order, so "the highest tag" is well
defined; it is the newest of the first page in all cases but two: a pre-release against its own final
release (section 6), and tags that differ only in numbers beyond int, which the alphabet decides.
What lies behind the first page of 100 releases is never seen.

A Docker resolution makes at most two manifest requests and returns the digest of the last one.

## 6. Where the code departs from what is said of it

| Run | Said | Done |
|---|---|---|
| `upd_doc_crash` | README: an applied version is not pushed a second time; the state survives restarts | the value is recorded after the registration; a kill in between loses it (a lost response does, too, without a kill) |
| `upd_doc_stalebase` | same | the base values are read before the deployment check; an auto-revert in between is undone when another variable is updated |
| `upd_doc_optout` | `carryMeta` adds the *live* job's meta; jobs opt out by not carrying it | it adds the meta of the last discovery, which opts the job in again; a key that was stamped on the job since is dropped by the same cause (`MetaListed` is what is left) |
| `src_doc_rc` | README, `source_github.go`: the newest qualifying release | with `prerelease=true`, v2.0.0-rc.1 has one number more than v2.0.0 and ranks above it |

Other departures, which the models show in their actions and no run restates:

- One value per variable is remembered, so a source that goes back to an older release and forth again
  has a reverted release pushed again (README: it is not pushed a second time).
- An update is registered into a rollout that is in progress, if the operator starts it between the deployment check and the
  registration (README: if no deployment is already in progress); `InterruptsOnlyOperator` says that it happens in no other way.
- The same single value keeps a job on a withdrawn release if the record of that release was lost.
- `registerJob` sends no index; what an operator registers during a check is overwritten (README: updates
  are compare-and-set).
- Variables whose values came from a var file of the submission are left out of what is rendered and
  registered (README: only the variables that changed change).
- An interval that is changed takes effect after the check that is already queued.

## 7. Not modelled

- Telemetry and logging: no effect on the rest.
- Flag, address and path resolution: computed once.
- HTTP and JSON encoding, error wording, URLs; the parsing of image references, of challenge headers and of
  specs, beyond succeeding or not. A cache file that holds `null`.
- What a power loss leaves of a file: the code does not sync, and the models are about ends of the
  process. Temporary files that a killed save leaves behind are never read again.
- `buildVarFile` and `hclEscapeTemplates`: what matters of them is how Nomad's HCL lexer reads the text, and
  the lexer is not part of the repository.
- Other Nomad regions, and several coordinators at once: the documentation rules them out.

## 8. Plan

1. An abstract updater (what has been decided, remembered and reverted, without Nomad's versions) that `Updater` implements.
