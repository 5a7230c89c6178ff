---------------------------- MODULE Coordinator ----------------------------
(***************************************************************************)
(* The whole process of src/main.go over several jobs: starts that load    *)
(* the cache, serving or one pass (-once), the checks of the jobs side by  *)
(* side over the shared VersionCache, signals, exit and kills.             *)
(*                                                                         *)
(* While it serves, the scheduler starts a check of any job that has none  *)
(* under way, at any time (it implements CheckCycle, whose slots are left  *)
(* out here: more checks may run together than it allows).  A check is     *)
(* that of module Updater with one variable, so a job is an entry of the   *)
(* cache; that an update is deferred is one of the ways in which it fails. *)
(* Nomad and the sources answer any value at any time, whoever publishes,  *)
(* withdraws, reverts and registers, so they need no state here.           *)
(***************************************************************************)
EXTENDS VersionCache, Sequences

CONSTANT KeyOrder  \* the jobs in the order of their keys

Jobs == Entries

ASSUME CoordinatorAssumption ==
    /\ KeyOrder \in Seq(Jobs)
    /\ \A j \in Jobs : Cardinality({i \in 1 .. Len(KeyOrder) : KeyOrder[i] = j}) = 1

VARIABLES
    once,       \* -once
    main,       \* where main is
    cancelled,  \* the run context is cancelled
    managed,    \* scheduler.managed of a single pass
    todo,       \* the listed keys that runOnce has still to visit
    checked,    \* auxiliary: the jobs that runOnce has checked
    step,       \* per job: where its check is
    read,       \* per job: the value that its check has read
    want        \* per job: the value that its check registers

mainVars  == <<once, main, cancelled, managed, todo, checked>>
checkVars == <<step, read, want>>
vars      == <<cacheVars, mainVars, checkVars>>

Init ==
    /\ CacheInit
    /\ once \in BOOLEAN
    /\ main = "down"
    /\ cancelled = FALSE
    /\ managed = {}
    /\ todo = {}
    /\ checked = {}
    /\ step = [j \in Jobs |-> "idle"]
    /\ read = [j \in Jobs |-> NoValue]
    /\ want = [j \in Jobs |-> NoValue]

AllIdle == \A j \in Jobs : step[j] = "idle"

----------------------------------------------------------------------------
(* main                                                                    *)

\* A flawed variant: the cache is made but not loaded.
StartUnloaded ==
    /\ LoadNothing
    /\ main' = IF once THEN "listing" ELSE "serving"
    /\ UNCHANGED <<once, cancelled, managed, todo, checked, checkVars>>

Start ==
    /\ Load \/ LoadFails
    /\ main' = IF once THEN "listing" ELSE "serving"
    /\ UNCHANGED <<once, cancelled, managed, todo, checked, checkVars>>

\* The process is gone with all that it held.
Down ==
    /\ Halt
    /\ main' = "down"
    /\ cancelled' = FALSE
    /\ managed' = {}
    /\ todo' = {}
    /\ checked' = {}
    /\ step' = [j \in Jobs |-> "idle"]
    /\ read' = [j \in Jobs |-> NoValue]
    /\ want' = [j \in Jobs |-> NoValue]
    /\ UNCHANGED once

Kill == Down

\* SIGINT or SIGTERM.
Cancel ==
    /\ up
    /\ ~cancelled
    /\ cancelled' = TRUE
    /\ UNCHANGED <<cacheVars, once, main, managed, todo, checked, checkVars>>

\* run has returned; the workers are not waited for.
ExitServing == main = "serving" /\ cancelled /\ Down

\* The discovery of runOnce; one that fails has listed nothing.
ListOnce ==
    /\ main = "listing"
    /\ main' = "looping"
    /\ managed' \in SUBSET Jobs
    /\ todo' = managed'
    /\ UNCHANGED <<cacheVars, once, cancelled, checked, checkVars>>

Position(j) == CHOOSE i \in DOMAIN KeyOrder : KeyOrder[i] = j

\* The loop visits j next.
IsNext(j) == \A i \in todo : Position(j) <= Position(i)

\* A flawed variant: the loop stays at its first key.
CheckFirstAgain ==
    /\ main = "looping" /\ AllIdle /\ ~cancelled
    /\ \E j \in todo :
         /\ IsNext(j)
         /\ step' = [step EXCEPT ![j] = "reading"]
         /\ checked' = checked \cup {j}
    /\ UNCHANGED <<cacheVars, once, main, cancelled, managed, todo, read, want>>

\* runOnce goes on with the next key when the last check has returned.
CheckNext ==
    /\ main = "looping" /\ AllIdle /\ ~cancelled
    /\ \E j \in todo :
         /\ IsNext(j)
         /\ step' = [step EXCEPT ![j] = "reading"]
         /\ checked' = checked \cup {j}
         /\ todo' = todo \ {j}
    /\ UNCHANGED <<cacheVars, once, main, cancelled, managed, read, want>>

\* A flawed variant: the last key is left out.
OnceOverEarly == main = "looping" /\ AllIdle /\ (Cardinality(todo) <= 1 \/ cancelled)

\* runOnce returns.
OnceOver == main = "looping" /\ AllIdle /\ (todo = {} \/ cancelled)

ExitOnce == OnceOver /\ Down

----------------------------------------------------------------------------
(* The checks                                                              *)

To(j, s) == step' = [step EXCEPT ![j] = s]

EndCheck(j) ==
    /\ To(j, "idle")
    /\ read' = [read EXCEPT ![j] = NoValue]
    /\ want' = [want EXCEPT ![j] = NoValue]

StartCheck(j) ==
    /\ main = "serving"
    /\ step[j] = "idle"
    /\ To(j, "reading")
    /\ UNCHANGED <<cacheVars, mainVars, read, want>>

\* jobSubmission; the job may run any value of the variable, or none.
Read(j) ==
    /\ step[j] = "reading"
    /\ \E x \in Values \cup {NoValue} : read' = [read EXCEPT ![j] = x]
    /\ To(j, "resolving")
    /\ UNCHANGED <<cacheVars, mainVars, want>>

\* The source answers; the job may be on its latest release already.
Resolve(j) ==
    /\ step[j] = "resolving"
    /\ \E r \in Values :
         IF r = read[j]
         THEN EndCheck(j)
         ELSE /\ want' = [want EXCEPT ![j] = r]
              /\ To(j, "asking")
              /\ UNCHANGED read
    /\ UNCHANGED <<cacheVars, mainVars>>

\* The cache is asked; nothing but the mutex ends this call.
Ask(j) ==
    /\ step[j] = "asking"
    /\ \E prev \in Values \cup {NoValue} :
         /\ Get(j, prev)
         /\ IF want[j] = prev
            THEN EndCheck(j)
            ELSE To(j, "registering") /\ UNCHANGED <<read, want>>
    /\ UNCHANGED <<cacheVars, mainVars>>

\* registerJob, as far as Nomad has accepted it.
Register(j) ==
    /\ step[j] = "registering"
    /\ To(j, "responding")
    /\ UNCHANGED <<cacheVars, mainVars, read, want>>

Respond(j) ==
    /\ step[j] = "responding"
    /\ To(j, "recording")
    /\ UNCHANGED <<cacheVars, mainVars, read, want>>

\* The applied value is recorded; the saving is that of VersionCache.
Record(j) ==
    /\ step[j] = "recording"
    /\ Set(j, want[j])
    /\ To(j, "saving")
    /\ UNCHANGED <<mainVars, read, want>>

Save(j) ==
    /\ SaveStep(j)
    /\ UNCHANGED <<mainVars, checkVars>>

\* set has returned, with an error or without, and so does check.
CheckReturns(j) ==
    /\ step[j] = "saving" /\ at[j] = "out"
    /\ EndCheck(j)
    /\ UNCHANGED <<cacheVars, mainVars>>

\* A request fails, is cut off by the context or loses its response.
Fail(j) ==
    /\ step[j] \in {"reading", "resolving", "registering", "responding"}
    /\ EndCheck(j)
    /\ UNCHANGED <<cacheVars, mainVars>>

CheckStep(j) ==
    \/ Read(j)
    \/ Resolve(j)
    \/ Ask(j)
    \/ Register(j)
    \/ Respond(j)
    \/ Record(j)
    \/ Save(j)
    \/ CheckReturns(j)
    \/ Fail(j)

----------------------------------------------------------------------------

Next ==
    \/ Start \/ Kill \/ Cancel \/ ExitServing
    \/ ListOnce \/ CheckNext \/ ExitOnce
    \/ \E j \in Jobs : StartCheck(j) \/ CheckStep(j)

Spec == Init /\ [][Next]_vars

(***************************************************************************)
(* Fairness.  Requests time out and file operations return; main goes on;  *)
(* who waits for a Go mutex gets it in the end (its starvation mode).      *)
(***************************************************************************)
FairSpec ==
    /\ Spec
    /\ \A j \in Jobs : /\ WF_vars(CheckStep(j))
                       /\ SF_vars(Ask(j))
                       /\ SF_vars(Record(j))
    /\ WF_vars(ListOnce \/ CheckNext \/ ExitOnce)

----------------------------------------------------------------------------
(* Properties                                                              *)

Steps == {"idle", "reading", "resolving", "asking", "registering", "responding",
          "recording", "saving"}

\* The types of the variables.  A call of set belongs to a check that is
\* saving, and the process is up exactly when main is somewhere.
TypeOK ==
    /\ CacheTypeOK
    /\ once \in BOOLEAN
    /\ main \in (IF once THEN {"down", "listing", "looping"} ELSE {"down", "serving"})
    /\ up <=> main # "down"
    /\ cancelled \in BOOLEAN
    /\ managed \subseteq Jobs
    /\ todo \subseteq Jobs
    /\ checked \subseteq Jobs
    /\ step \in [Jobs -> Steps]
    /\ \A j \in Jobs : at[j] # "out" => step[j] = "saving"
    /\ read \in [Jobs -> Values \cup {NoValue}]
    /\ want \in [Jobs -> Values \cup {NoValue}]

\* The release that was recorded last for a job is not registered for it, by
\* the process that recorded it, whether it could save the record or not; and,
\* if its save succeeded, not by any later process either: whatever the sources
\* and Nomad answer, whatever the checks of other jobs save to the same file, and
\* wherever the process is killed (README.md:200-206, update.go:112-121, 195-199).
\* A job has one record: a later set takes the place of an earlier one, also of one
\* that was saved when its own save fails, and a start that cannot read the file
\* gives all of them up.
LastRecordNotPushed ==
    [][\A j \in Jobs : Register(j) => want[j] \notin {applied[j], acked[j]}]_vars

\* A single pass checks no job twice.  When it returns of itself, no check is cut
\* off by it, and unless it was cancelled every job that it had listed was
\* checked (scheduler.go:138-160, main.go:100-103).
OnceCoversManaged ==
    [][/\ \A j \in checked : step[j] = "idle" => step'[j] = "idle"
       /\ ExitOnce => AllIdle /\ mu = Unlocked /\ (cancelled \/ checked = managed)]_vars

\* Every check returns, whatever the other checks do with the mutex and the
\* file (cache.go:73-118).
ChecksReturn == \A j \in Jobs : step[j] # "idle" ~> step[j] = "idle"

\* The single pass ends.
OnceEnds == main \in {"listing", "looping"} ~> main = "down"
=============================================================================
