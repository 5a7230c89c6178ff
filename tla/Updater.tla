------------------------------ MODULE Updater ------------------------------
(***************************************************************************)
(* One job under auto-update: the checks of src/update.go call by call,    *)
(* against the Nomad server, the job's operator and the release sources,   *)
(* with the version cache of src/cache.go and the process around them.     *)
(*                                                                         *)
(* The scheduler runs at most one check of a job at a time (OneCheckPerJob *)
(* of module Scheduler), so there is one check here.  Nomad's versions of  *)
(* a job never change, so the two requests of jobSubmission (the current   *)
(* version number, then that version's submission) are one step that picks *)
(* the version.  parseJob reads nothing that changes; it is part of        *)
(* Register.                                                               *)
(***************************************************************************)
EXTENDS Integers, Sequences, FiniteSets

CONSTANTS
    NumVars,          \* the job's auto-updated variables, in order of name
    MaxRelease,       \* releases of a source are 1 .. MaxRelease (a bound)
    MaxVersions,      \* no more job versions than these (a bound)
    Sources,          \* HCL sources of the job
    OptedIn,          \* those whose meta declares the variables
    Retained,         \* those that Nomad retains as hcl2 source
    DryRun,           \* -dry-run
    Persist,          \* a cache file is configured
    OperatorActs,     \* the operator registers versions of the job, too
    SourcesGoBack,    \* releases may be withdrawn
    CanLoseResponse,  \* a registration may succeed and its response be lost
    CanFailIO,        \* the cache file may be unwritable or unreadable
    CrashSteps        \* steps of a check in which the process may be killed

Vars == 1 .. NumVars
Releases == 1 .. MaxRelease
NoValue == 0          \* no -var flag, no cached value, no change
Values == Releases \cup {NoValue}
Unset == [v \in Vars |-> NoValue]

ASSUME UpdaterAssumption ==
    /\ NumVars \in Nat \ {0}
    /\ MaxRelease \in Nat \ {0}
    /\ MaxVersions \in Nat \ {0}
    /\ OptedIn \subseteq Sources
    /\ OptedIn # {}
    /\ Retained \subseteq Sources
    /\ \A flag \in {DryRun, Persist, OperatorActs, SourcesGoBack, CanLoseResponse, CanFailIO} :
         flag \in BOOLEAN

VARIABLES
    versions,  \* Nomad: the job's versions, the last one is current
    stable,    \* Nomad: the version that auto-revert goes back to
    deploying, \* Nomad: the current version's deployment is in progress
    latest,    \* sources: the newest release, per variable
    up,        \* the coordinator's process is running
    known,     \* scheduler.managed: the job's meta as listed, {} if not managed
    step,      \* where the check is
    job,       \* the check's copy of the listed meta
    read,      \* the version whose submission the check has read
    pos,       \* the next variable of the check's loop over job.Vars
    changes,   \* the check's changes, per variable
    cache,     \* versionCache.applied
    disk       \* the cache file

nomadVars == <<versions, stable, deploying>>
checkVars == <<step, job, read, pos, changes>>
cacheVars == <<cache, disk>>
vars      == <<nomadVars, latest, up, known, checkVars, cacheVars>>

----------------------------------------------------------------------------
(* Job versions.  The meta of a job is abstracted to two keys: "auto", the *)
(* declaration of its variables, which its HCL source sets or does not,    *)
(* and "stamp", which a tool that registers a job may add to its source.   *)

Metas == SUBSET {"auto", "stamp"}
Stamps == SUBSET {"stamp"}
Authors == {"operator", "updater", "nomad"}

Versions ==
    [src : Sources, flags : [Vars -> Values], meta : Metas, by : Authors, from : Nat]

Current == versions[Len(versions)]

\* The meta that a source sets itself.
SrcMeta(src) == IF src \in OptedIn THEN {"auto"} ELSE {}

\* A flawed variant: the re-rendered job's meta is registered as it is.
CarryNothing(src, live) == SrcMeta(src)

\* carryMeta adds the live keys that the re-rendered job lacks.
Carried(src, live) == SrcMeta(src) \cup live

----------------------------------------------------------------------------

Init ==
    /\ \E src \in OptedIn \cap Retained, stamp \in Stamps :
         versions = <<[src |-> src, flags |-> [v \in Vars |-> 1],
                       meta |-> SrcMeta(src) \cup stamp, by |-> "operator", from |-> 0]>>
    /\ stable = 1
    /\ deploying = FALSE
    /\ latest = [v \in Vars |-> 1]
    /\ up = TRUE
    /\ known = {}
    /\ step = "idle"
    /\ job = {}
    /\ read = 0
    /\ pos = 1
    /\ changes = Unset
    /\ cache = Unset
    /\ disk = Unset

\* The check returns; nothing of it is kept.
EndCheck ==
    /\ step' = "idle"
    /\ job' = {}
    /\ read' = 0
    /\ pos' = 1
    /\ changes' = Unset

\* Discovery lists the job with its current meta, or finds that it opted out.
Discover ==
    /\ up
    /\ known' = IF "auto" \in Current.meta THEN Current.meta ELSE {}
    /\ UNCHANGED <<nomadVars, latest, up, checkVars, cacheVars>>

\* The scheduler dispatches a check with a copy of what it knows of the job.
StartCheck ==
    /\ up
    /\ step = "idle"
    /\ known # {}
    /\ step' = "reading"
    /\ job' = known
    /\ UNCHANGED <<nomadVars, latest, up, known, read, pos, changes, cacheVars>>

\* jobSubmission; a version whose source is not retained is skipped.
ReadSubmission ==
    /\ step = "reading"
    /\ IF Current.src \in Retained
       THEN step' = "resolving" /\ read' = Len(versions) /\ UNCHANGED <<job, pos, changes>>
       ELSE EndCheck
    /\ UNCHANGED <<nomadVars, latest, up, known, cacheVars>>

\* A flawed variant: any value applied before holds back every other one.
AlreadyAppliedAny(v, r) == cache[v] # NoValue

\* A value that was applied before and that the job is no longer on.
AlreadyApplied(v, r) == cache[v] = r

\* The value that the check would set variable v to, given its latest release.
Wanted(v, r) ==
    IF r = versions[read].flags[v] \/ AlreadyApplied(v, r) THEN NoValue ELSE r

\* Some variable of the check has a change to register.
AnyChange(ch) == \E v \in Vars : ch[v] # NoValue

\* A flawed variant: the loop runs past its last variable.
AfterResolvingOffByOne(ch) ==
    IF pos < NumVars + 1
    THEN /\ step' = "resolving" /\ pos' = pos + 1 /\ changes' = ch
         /\ UNCHANGED <<job, read>>
    ELSE EndCheck

\* The loop goes on with the next variable; after the last one the check ends
\* when nothing changed, or on a dry run.
AfterResolving(ch) ==
    IF pos < NumVars
    THEN /\ step' = "resolving" /\ pos' = pos + 1 /\ changes' = ch
         /\ UNCHANGED <<job, read>>
    ELSE IF AnyChange(ch) /\ ~DryRun
    THEN /\ step' = "deployment" /\ pos' = 1 /\ changes' = ch
         /\ UNCHANGED <<job, read>>
    ELSE EndCheck

\* The source of variable v answers.
Resolve(v) ==
    /\ step = "resolving"
    /\ pos = v
    /\ AfterResolving([changes EXCEPT ![v] = Wanted(v, latest[v])])
    /\ UNCHANGED <<nomadVars, latest, up, known, cacheVars>>

\* The source of variable v fails; the other variables are still updated.
ResolveFails(v) ==
    /\ step = "resolving"
    /\ pos = v
    /\ AfterResolving(changes)
    /\ UNCHANGED <<nomadVars, latest, up, known, cacheVars>>

\* A flawed variant: the update is not deferred.
ReadDeploymentIgnored ==
    /\ step = "deployment"
    /\ step' = "register"
    /\ UNCHANGED <<job, read, pos, changes>>
    /\ UNCHANGED <<nomadVars, latest, up, known, cacheVars>>

\* deploymentActive: an update waits for the rollout to settle.
ReadDeployment ==
    /\ step = "deployment"
    /\ IF deploying
       THEN EndCheck
       ELSE step' = "register" /\ UNCHANGED <<job, read, pos, changes>>
    /\ UNCHANGED <<nomadVars, latest, up, known, cacheVars>>

\* What the check registers: the source it read, rendered with the changes.
Rendered ==
    [src     |-> versions[read].src,
     flags   |-> [v \in Vars |-> IF changes[v] # NoValue THEN changes[v]
                                 ELSE versions[read].flags[v]],
     meta    |-> Carried(versions[read].src, job),
     by      |-> "updater",
     from    |-> read]

\* registerJob: Nomad accepts the version and starts a deployment.
Register ==
    /\ step = "register"
    /\ Len(versions) < MaxVersions
    /\ versions' = Append(versions, Rendered)
    /\ deploying' = TRUE
    /\ step' = "respond"
    /\ UNCHANGED <<stable, latest, up, known, job, read, pos, changes, cacheVars>>

\* The response arrives.
Respond ==
    /\ step = "respond"
    /\ step' = "record"
    /\ UNCHANGED <<nomadVars, latest, up, known, job, read, pos, changes, cacheVars>>

\* The response is lost or late; check reports an error.
LoseResponse ==
    /\ CanLoseResponse
    /\ step = "respond"
    /\ EndCheck
    /\ UNCHANGED <<nomadVars, latest, up, known, cacheVars>>

\* A flawed variant: only the first variable is recorded.
RecordedFirstOnly ==
    IF pos > 1 \/ changes[pos] = NoValue THEN cache
    ELSE [cache EXCEPT ![pos] = changes[pos]]

\* cache.set: the value of the next variable, when it was changed.
Recorded ==
    IF changes[pos] = NoValue THEN cache ELSE [cache EXCEPT ![pos] = changes[pos]]

\* A flawed variant: the cache is changed but not saved.
SavedNever == disk' = disk

\* set changes the memory first and then saves the whole cache.
Saved ==
    IF Persist /\ changes[pos] # NoValue
    THEN disk' = cache' \/ (CanFailIO /\ disk' = disk)
    ELSE disk' = disk

\* The loop over job.Vars at the end of check.
Record ==
    /\ step = "record"
    /\ cache' = Recorded
    /\ Saved
    /\ IF pos < NumVars
       THEN pos' = pos + 1 /\ UNCHANGED <<step, job, read, changes>>
       ELSE EndCheck
    /\ UNCHANGED <<nomadVars, latest, up, known>>

\* A request of the check fails or runs into its timeout.
Fail ==
    /\ step \in {"reading", "deployment", "register"}
    /\ EndCheck
    /\ UNCHANGED <<nomadVars, latest, up, known, cacheVars>>

----------------------------------------------------------------------------
(* The process                                                             *)

Crash ==
    /\ up
    /\ step \in CrashSteps
    /\ up' = FALSE
    /\ EndCheck
    /\ known' = {}
    /\ cache' = Unset
    /\ UNCHANGED <<nomadVars, latest, disk>>

\* A new process loads the cache file, or starts fresh when it cannot.
Restart ==
    /\ ~up
    /\ up' = TRUE
    /\ \/ cache' = disk
       \/ CanFailIO /\ cache' = Unset
    /\ UNCHANGED <<nomadVars, latest, known, checkVars, disk>>

----------------------------------------------------------------------------
(* The environment: sources, Nomad and the operator (external).            *)

\* A source moves on to a newer release.
Publish(v) ==
    /\ \E r \in Releases : r > latest[v] /\ latest' = [latest EXCEPT ![v] = r]
    /\ UNCHANGED <<nomadVars, up, known, checkVars, cacheVars>>

\* Its newest releases are withdrawn.
Withdraw(v) ==
    /\ SourcesGoBack
    /\ \E r \in Releases : r < latest[v] /\ latest' = [latest EXCEPT ![v] = r]
    /\ UNCHANGED <<nomadVars, up, known, checkVars, cacheVars>>

DeploymentSucceeds ==
    /\ deploying
    /\ deploying' = FALSE
    /\ stable' = Len(versions)
    /\ UNCHANGED <<versions, latest, up, known, checkVars, cacheVars>>

\* Two versions specify the same job.
SameJob(x, y) ==
    /\ x.src = y.src
    /\ x.flags = y.flags
    /\ x.meta = y.meta

\* Nomad auto-reverts to the stable version, as a version of its own with a
\* deployment of its own; not when that is the very job which has just failed.
DeploymentFails ==
    /\ deploying
    /\ IF SameJob(Current, versions[stable])
       THEN deploying' = FALSE /\ UNCHANGED versions
       ELSE /\ Len(versions) < MaxVersions
            /\ versions' = Append(versions, [versions[stable] EXCEPT !.by = "nomad",
                                                                     !.from = stable])
            /\ UNCHANGED deploying
    /\ UNCHANGED <<stable, latest, up, known, checkVars, cacheVars>>

\* The operator registers any source, with one variable set to any value or to
\* none, with a tool that stamps the job or with one that does not.
OperatorRegisters ==
    /\ OperatorActs
    /\ Len(versions) < MaxVersions
    /\ \E src \in Sources, v \in Vars, r \in Values, stamp \in Stamps :
         versions' = Append(versions,
                       [src |-> src, flags |-> [Current.flags EXCEPT ![v] = r],
                        meta |-> SrcMeta(src) \cup stamp, by |-> "operator",
                        from |-> Len(versions)])
    /\ deploying' = TRUE
    /\ UNCHANGED <<stable, latest, up, known, checkVars, cacheVars>>

Check ==
    \/ StartCheck
    \/ ReadSubmission
    \/ \E v \in Vars : Resolve(v) \/ ResolveFails(v)
    \/ ReadDeployment
    \/ Register
    \/ Respond
    \/ LoseResponse
    \/ Record
    \/ Fail

Environment ==
    \/ \E v \in Vars : Publish(v) \/ Withdraw(v)
    \/ DeploymentSucceeds
    \/ DeploymentFails
    \/ OperatorRegisters

Next == Discover \/ Check \/ Crash \/ Restart \/ Environment

Spec == Init /\ [][Next]_vars

(***************************************************************************)
(* Fairness.  The scheduler keeps discovering and keeps starting checks    *)
(* (ManagedJobsKeepBeingChecked of module Scheduler).  A request that is   *)
(* made again and again succeeds at some time; a deployment settles within *)
(* its progress deadline; Nomad restarts the process.                      *)
(***************************************************************************)
Fairness ==
    /\ WF_vars(Discover)
    /\ WF_vars(StartCheck)
    /\ SF_vars(ReadSubmission)
    /\ \A v \in Vars : SF_vars(Resolve(v))
    /\ SF_vars(ReadDeployment)
    /\ SF_vars(Register)
    /\ SF_vars(Respond)
    /\ WF_vars(Record)
    /\ WF_vars(Restart)
    /\ WF_vars(DeploymentSucceeds \/ DeploymentFails)

FairSpec == Spec /\ Fairness

----------------------------------------------------------------------------
(* Properties                                                              *)

Steps == {"idle", "reading", "resolving", "deployment", "register", "respond", "record"}

\* The types of the variables; the check's indices are in range.
TypeOK ==
    /\ versions \in Seq(Versions)
    /\ stable \in 1 .. Len(versions)
    /\ deploying \in BOOLEAN
    /\ latest \in [Vars -> Releases]
    /\ up \in BOOLEAN
    /\ known \in Metas
    /\ step \in Steps
    /\ job \in Metas
    /\ read \in 0 .. Len(versions)
    /\ step \notin {"idle", "reading"} => read > 0
    /\ pos \in Vars
    /\ changes \in [Vars -> Values]
    /\ cache \in [Vars -> Values]
    /\ disk \in [Vars -> Values]

\* Version n is the updater's and its check decided to change v.
Changed(n, v) ==
    /\ versions[n].by = "updater"
    /\ versions[n].flags[v] # versions[versions[n].from].flags[v]

\* The updater never decides to push the value of a variable that it has
\* decided on last, whatever the deployments, the operator, restarts between
\* checks and sources that go back and forth do (cache.go:59-81, update.go:112-121).
LastHeldBack ==
    \A m, n \in 1 .. Len(versions), v \in Vars :
        /\ m < n /\ Changed(m, v) /\ Changed(n, v)
        /\ ~\E k \in m + 1 .. n - 1 : Changed(k, v)
        => versions[m].flags[v] # versions[n].flags[v]

\* While sources only move on, it decides on a value at most once, whatever
\* the deployments, the operator and restarts between checks do to the job
\* (update.go:29-38, 112-121): the check that would do so again is held back.
AppliedOnce ==
    \A m, n \in 1 .. Len(versions), v \in Vars :
        m # n /\ Changed(m, v) /\ Changed(n, v)
          => versions[m].flags[v] # versions[n].flags[v]

\* Version n, which set v to r, was taken back by Nomad.
Reverted(v, r) ==
    \E n \in 1 .. Len(versions), m \in 1 .. Len(versions) :
        /\ n < m
        /\ versions[n].by = "updater" /\ versions[n].flags[v] = r
        /\ versions[m].by = "nomad" /\ versions[m].flags[v] # r

\* A check that is about to hold back a release only does so when Nomad has
\* reverted that very release (update.go:112-114): no other release is lost.
HeldBackOnlyIfReverted ==
    step = "resolving" =>
        LET r == latest[pos]
        IN  versions[read].flags[pos] # r /\ AlreadyApplied(pos, r) => Reverted(pos, r)

\* What an update carries is the meta of one version of the job, as a discovery
\* has listed it while it opted in, no later than the version that is replaced:
\* whatever the operator, reverts, restarts and other discoveries do during the
\* check, it does not mix the meta of two versions, and it drops only keys that
\* this listing did not have (update.go:180, 238-275).
MetaListed ==
    \A n \in 1 .. Len(versions) :
        versions[n].by = "updater" =>
            \E i \in 1 .. versions[n].from :
                /\ "auto" \in versions[i].meta
                /\ versions[n].meta = SrcMeta(versions[n].src) \cup versions[i].meta

\* Version n is the operator's and was registered after the check had read the
\* job.
OperatorsSince(n) == n > read /\ versions[n].by = "operator"

\* An update replaces a version whose rollout is in progress only when the
\* operator has registered one during its check (update.go:148-160): never to
\* push two releases in a row into one rollout, nor to stop a revert of Nomad's
\* that no registration of the operator's has set off.
InterruptsOnlyOperator ==
    [][Len(versions') > Len(versions) /\ versions'[Len(versions')].by = "updater" /\ deploying
         => \E n \in 1 .. Len(versions) : OperatorsSince(n)]_vars

\* Once releases and crashes end, every variable of the job comes to run its
\* latest release, or that release was pushed and is remembered (README.md:
\* 35-42, 200-205), whatever requests fail on the way.
Converges ==
    <>[]up => <>[](\A v \in Vars : Current.flags[v] = latest[v] \/ cache[v] = latest[v])

(***************************************************************************)
(* What documents and comments say and the code does not do.               *)
(***************************************************************************)

\* Version n, the updater's, moved variable v of the job.
Moved(n, v) ==
    /\ versions[n].by = "updater"
    /\ versions[n].flags[v] # versions[n - 1].flags[v]

\* README.md:200-204: a version that was applied is not pushed a second time.
\* Not even this much holds: when a registration has moved a variable to a
\* value and Nomad has reverted it, no later one moves it there again.
RevertedNotPushedAgain ==
    \A m, x, n \in 2 .. Len(versions), v \in Vars :
        /\ m < x /\ x < n
        /\ Moved(m, v) /\ Moved(n, v)
        /\ versions[x].by = "nomad"
        /\ versions[x].flags[v] # versions[m].flags[v]
        => versions[m].flags[v] # versions[n].flags[v]

\* meta.go:42-43: a job opts out by not carrying the meta.  No later update
\* opts it in again.
OptOutHolds ==
    \A n \in 1 .. Len(versions) :
        versions[n].by = "updater" /\ "auto" \in versions[n].meta
          => "auto" \in versions[versions[n].from].meta
=============================================================================
