---------------------------- MODULE AppliedProofs ----------------------------
(***************************************************************************)
(* Proofs about Updater: which releases are pushed again and which are     *)
(* held back, for any number of variables, releases and job versions.      *)
(***************************************************************************)
EXTENDS UpdaterProofs

----------------------------------------------------------------------------
(* AppliedOnce                                                             *)

\* What is applied gets recorded and saved: the process is not killed between
\* the registration and the last record, the response arrives, and the file
\* works.
Recording ==
    /\ Persist
    /\ ~CanFailIO
    /\ ~CanLoseResponse
    /\ CrashSteps \cap {"respond", "record"} = {}

\* The cache is the file, and checks start their records at the first variable.
InStep ==
    /\ up => cache = disk
    /\ step # "idle" => up
    /\ step \in {"deployment", "register", "respond"} => pos = 1

\* The change of v is still to be recorded.
Unrecorded(v) == step = "record" => pos <= v

\* Sources only move on, so that a change is to a later release than any that
\* was recorded.
ChangesAreLater ==
    \A v \in Vars :
        /\ disk[v] <= latest[v]
        /\ changes[v] # NoValue =>
             /\ changes[v] <= latest[v]
             /\ Unrecorded(v) => changes[v] > disk[v]

\* What was decided is not later than the record, or is about to be recorded.
Remembered ==
    \A n \in 1 .. Len(versions), v \in Vars :
        Changed(n, v) =>
            \/ versions[n].flags[v] <= disk[v]
            \/ /\ step \in {"respond", "record"}
               /\ Unrecorded(v)
               /\ changes[v] # NoValue
               /\ versions[n].flags[v] = changes[v]

\* The updater's versions name an earlier one that they were rendered from.
FromEarlier ==
    \A n \in 1 .. Len(versions) :
        versions[n].by = "updater" => versions[n].from \in 1 .. Len(versions)

OnceInv == InStep /\ ChangesAreLater /\ Remembered /\ FromEarlier /\ AppliedOnce

\* A record makes file and memory equal to the cache with the change in it.
LEMMA RecordEffect ==
    ASSUME TypeOK, Recording, InStep, Record
    PROVE  /\ cache' = disk' /\ up /\ up' = up /\ step = "record"
           /\ UNCHANGED <<versions, latest>>
           /\ \A v \in Vars : disk'[v] = IF v = pos /\ changes[v] # NoValue
                                         THEN changes[v] ELSE disk[v]
           /\ \/ pos < NumVars /\ pos' = pos + 1 /\ UNCHANGED <<step, changes>>
              \/ pos >= NumVars /\ EndCheck
<1>1. step = "record" /\ up /\ cache = disk /\ pos \in Vars
  BY DEF TypeOK, InStep, Record
<1>2. cache' = Recorded /\ Saved
  BY DEF Record
<1>3. disk' = cache'
  BY <1>1, <1>2 DEF Recorded, Saved, Recording
<1>4. \A v \in Vars : disk'[v] = IF v = pos /\ changes[v] # NoValue
                                 THEN changes[v] ELSE disk[v]
  BY <1>1, <1>2, <1>3 DEF Recorded, TypeOK
<1>5. pos \in Int /\ NumVars \in Int
  BY <1>1, UpdaterAssumption DEF Vars
<1> QED
  BY <1>1, <1>3, <1>4, <1>5 DEF Record, nomadVars

LEMMA StepInStep ==
    ASSUME TypeOK, Recording, InStep, [Next]_vars
    PROVE  InStep'
<1>1. CASE Record
  BY <1>1, RecordEffect DEF InStep, EndCheck
<1>2. CASE Crash
  BY <1>2 DEF Crash, EndCheck, InStep
<1>3. CASE Restart
  BY <1>3 DEF Restart, Recording, InStep, checkVars
<1>4. CASE StartCheck
  BY <1>4 DEF StartCheck, InStep, cacheVars
<1>5. ASSUME UNCHANGED <<up, cacheVars>>,
             \/ EndCheck
             \/ UNCHANGED checkVars
             \/ /\ step # "idle"
                /\ step' \in {"deployment", "register", "respond"} => pos' = 1
      PROVE  InStep'
  BY <1>5 DEF InStep, EndCheck, checkVars, cacheVars
<1>6. ASSUME NEW v \in Vars, Resolve(v) \/ ResolveFails(v)
      PROVE  InStep'
  BY <1>5, <1>6 DEF Resolve, ResolveFails, AfterResolving
<1>7. CASE ReadSubmission
  BY <1>5, <1>7 DEF ReadSubmission
<1>8. CASE ReadDeployment \/ Register \/ Respond
  BY <1>5, <1>8 DEF ReadDeployment, Register, Respond, InStep
<1>9. CASE LoseResponse \/ Fail
  BY <1>5, <1>9 DEF LoseResponse, Fail
<1>10. CASE \/ Discover \/ DeploymentSucceeds \/ DeploymentFails \/ OperatorRegisters
            \/ (\E v \in Vars : Publish(v) \/ Withdraw(v)) \/ UNCHANGED vars
  BY <1>5, <1>10 DEF Discover, DeploymentSucceeds, DeploymentFails, OperatorRegisters,
                     Publish, Withdraw, vars
<1> QED
  BY <1>1, <1>2, <1>3, <1>4, <1>6, <1>7, <1>8, <1>9, <1>10 DEF Next, Check, Environment

\* The values are numbers.
LEMMA Numbers ==
    ASSUME TypeOK, NEW v \in Vars
    PROVE  /\ disk[v] \in Nat /\ cache[v] \in Nat /\ changes[v] \in Nat /\ latest[v] \in Nat
           /\ latest[v] > 0 /\ v \in Nat /\ pos \in Nat
           /\ \A n \in 1 .. Len(versions) : versions[n].flags[v] \in Nat
<1>1. /\ disk[v] \in Nat /\ cache[v] \in Nat /\ changes[v] \in Nat /\ v \in Nat
      /\ latest[v] \in Releases /\ pos \in Nat
  BY ValuesAreNats DEF TypeOK
<1>2. latest[v] \in Nat /\ latest[v] > 0
  BY <1>1, ValuesAreNats
<1>3. ASSUME NEW n \in 1 .. Len(versions)
      PROVE  versions[n].flags[v] \in Nat
  <2>1. versions[n] \in Versions
    BY DEF TypeOK
  <2>2. versions[n].flags \in [Vars -> Values]
    BY <2>1, VersionFields
  <2> QED
    BY <2>2, ValuesAreNats
<1> QED
  BY <1>1, <1>2, <1>3

\* Sources only move on.
LEMMA LatestGrows ==
    ASSUME TypeOK, ~SourcesGoBack, [Next]_vars, NEW v \in Vars
    PROVE  latest'[v] >= latest[v]
<1>0. latest[v] \in Nat
  BY Numbers
<1>1. ASSUME NEW w \in Vars, Publish(w) PROVE latest'[v] >= latest[v]
  <2>1. PICK r \in Releases : r > latest[w] /\ latest' = [latest EXCEPT ![w] = r]
    BY <1>1 DEF Publish
  <2>2. latest'[v] = IF v = w THEN r ELSE latest[v]
    BY <2>1 DEF TypeOK
  <2>3. r \in Nat
    BY ValuesAreNats
  <2> QED
    BY <1>0, <2>1, <2>2, <2>3
<1>2. CASE UNCHANGED latest
  BY <1>0, <1>2
<1> QED
  BY <1>1, <1>2
     DEF Next, Check, Environment, Withdraw, Discover, StartCheck, ReadSubmission, Resolve,
         ResolveFails, ReadDeployment, Register, Respond, LoseResponse, Record, Fail,
         Crash, Restart, DeploymentSucceeds, DeploymentFails, OperatorRegisters, vars,
         nomadVars

LEMMA StepLater ==
    ASSUME TypeOK, TypeOK', Recording, ~SourcesGoBack, InStep, ChangesAreLater, [Next]_vars
    PROVE  ChangesAreLater'
<1> SUFFICES ASSUME NEW v \in Vars
             PROVE  /\ disk'[v] <= latest'[v]
                    /\ changes'[v] # NoValue =>
                         /\ changes'[v] <= latest'[v]
                         /\ (step' = "record" => pos' <= v) => changes'[v] > disk'[v]
  BY DEF ChangesAreLater, Unrecorded
<1>1. /\ disk[v] \in Nat /\ changes[v] \in Nat /\ latest[v] \in Nat /\ v \in Nat /\ pos \in Nat
      /\ latest'[v] \in Nat
  <2>1. latest'[v] \in Releases
    BY DEF TypeOK
  <2> QED
    BY <2>1, Numbers, ValuesAreNats
<1>2. latest'[v] >= latest[v]
  BY LatestGrows
<1>3. /\ disk[v] <= latest[v]
      /\ changes[v] # NoValue =>
           /\ changes[v] <= latest[v]
           /\ (step = "record" => pos <= v) => changes[v] > disk[v]
  BY DEF ChangesAreLater, Unrecorded
<1>4. CASE disk' = disk /\ changes'[v] = NoValue
  BY <1>1, <1>2, <1>3, <1>4
<1>5. CASE disk' = disk /\ changes' = changes /\ (step' = "record" \/ step # "record")
                        /\ (step = "record" => step' = "record" /\ pos' = pos)
  BY <1>1, <1>2, <1>3, <1>5
<1>6. EndCheck => changes'[v] = NoValue
  BY DEF EndCheck, Unset
<1>7. CASE Record
  <2>1. /\ disk'[v] = IF v = pos /\ changes[v] # NoValue THEN changes[v] ELSE disk[v]
        /\ latest' = latest /\ step = "record"
        /\ \/ pos' = pos + 1 /\ UNCHANGED <<step, changes>>
           \/ EndCheck
    BY <1>7, RecordEffect
  <2>2. disk'[v] <= latest'[v]
    BY <1>1, <1>3, <2>1
  <2>3. CASE EndCheck
    BY <1>6, <2>2, <2>3
  <2>4. CASE pos' = pos + 1 /\ UNCHANGED <<step, changes>>
    <3>1. pos' <= v => pos <= v /\ v # pos
      BY <1>1, <2>4
    <3> QED
      BY <1>1, <1>3, <2>1, <2>2, <2>4, <3>1
  <2> QED
    BY <2>1, <2>3, <2>4
<1>8. ASSUME NEW w \in Vars, Resolve(w)
      PROVE  /\ disk'[v] <= latest'[v]
             /\ changes'[v] # NoValue => changes'[v] <= latest'[v] /\ changes'[v] > disk'[v]
  <2>1. /\ step = "resolving" /\ disk' = disk /\ latest' = latest
        /\ AfterResolving([changes EXCEPT ![w] = Wanted(w, latest[w])])
    BY <1>8 DEF Resolve, cacheVars
  <2>2. changes'[v] = NoValue \/ changes' = [changes EXCEPT ![w] = Wanted(w, latest[w])]
    BY <1>6, <2>1 DEF AfterResolving
  <2>3. Wanted(w, latest[w]) # NoValue => Wanted(w, latest[w]) = latest[w] /\ cache[w] # latest[w]
    BY DEF Wanted, AlreadyApplied
  <2>4. cache = disk
    BY <2>1 DEF InStep
  <2>5. CASE v = w /\ changes'[v] # NoValue
    <3>1. changes'[v] = latest[v] /\ disk[v] # latest[v]
      BY <2>2, <2>3, <2>4, <2>5 DEF TypeOK
    <3> QED
      BY <1>1, <1>3, <2>1, <3>1
  <2>6. CASE v # w /\ changes'[v] # NoValue
    <3>1. changes'[v] = changes[v]
      BY <2>2, <2>6 DEF TypeOK
    <3> QED
      BY <1>1, <1>3, <2>1, <2>6, <3>1
  <2> QED
    BY <1>3, <2>1, <2>5, <2>6
<1>9. CASE \E w \in Vars : ResolveFails(w)
  BY <1>4, <1>5, <1>6, <1>9 DEF ResolveFails, AfterResolving, cacheVars
<1>10. CASE \/ StartCheck \/ ReadSubmission \/ ReadDeployment \/ Register \/ Respond
            \/ LoseResponse \/ Fail \/ Crash
  BY <1>4, <1>5, <1>6, <1>10
     DEF StartCheck, ReadSubmission, ReadDeployment, Register, Respond, LoseResponse, Fail,
         Crash, cacheVars
<1>11. CASE \/ Discover \/ Restart \/ DeploymentSucceeds \/ DeploymentFails
            \/ OperatorRegisters \/ (\E w \in Vars : Publish(w) \/ Withdraw(w)) \/ UNCHANGED vars
  BY <1>5, <1>11 DEF Discover, Restart, DeploymentSucceeds, DeploymentFails,
                     OperatorRegisters, Publish, Withdraw, vars, checkVars, cacheVars
<1> QED
  BY <1>7, <1>8, <1>9, <1>10, <1>11 DEF Next, Check, Environment

LEMMA StepFromEarlier ==
    ASSUME TypeOK, FromEarlier, [Next]_vars
    PROVE  FromEarlier'
<1>0. versions \in Seq(Versions)
  BY DEF TypeOK
<1>1. CASE versions' = versions
  BY <1>1 DEF FromEarlier
<1>2. CASE versions' # versions
  <2>1. PICK x \in Versions :
          /\ versions' = Append(versions, x)
          /\ \/ x = Rendered /\ step = "register"
             \/ x.by # "updater"
    BY <1>2, Registered
  <2>2. x.by = "updater" => x.from \in 1 .. Len(versions)
    <3> SUFFICES ASSUME x = Rendered, step = "register" PROVE x.from \in 1 .. Len(versions)
      BY <2>1
    <3>1. x.from = read
      BY TypesTogether, RenderedVersion
    <3> QED
      BY <3>1 DEF TypeOK
  <2>3. /\ Len(versions') = Len(versions) + 1 /\ Len(versions) \in Nat
        /\ versions'[Len(versions) + 1] = x
        /\ \A n \in 1 .. Len(versions) : versions'[n] = versions[n]
    BY <1>0, <2>1, Appending
  <2> QED
    BY <2>2, <2>3 DEF FromEarlier
<1> QED
  BY <1>1, <1>2

\* What an earlier check has decided stays decided.
LEMMA ChangedStays ==
    ASSUME TypeOK, FromEarlier, [Next]_vars, NEW n \in 1 .. Len(versions), NEW v \in Vars
    PROVE  /\ Changed(n, v)' <=> Changed(n, v)
           /\ versions'[n].flags[v] = versions[n].flags[v]
<1>1. versions'[n] = versions[n]
  BY VersionsStay
<1>2. versions[n].by = "updater" =>
        versions'[versions[n].from] = versions[versions[n].from]
  BY VersionsStay DEF FromEarlier
<1> QED
  BY <1>1, <1>2 DEF Changed

\* A check only decides on what it has a change for.
LEMMA NewlyChanged ==
    ASSUME TypeOK, [Next]_vars, NEW n \in 1 .. Len(versions'), n \notin 1 .. Len(versions),
           NEW v \in Vars, Changed(n, v)'
    PROVE  /\ Register /\ step = "register" /\ n = Len(versions) + 1
           /\ changes[v] # NoValue /\ versions'[n].flags[v] = changes[v]
<1>0. versions \in Seq(Versions) /\ NomadTypes /\ CheckTypes
  BY TypesTogether DEF NomadTypes
<1>1. versions' # versions
  OBVIOUS
<1>2. PICK x \in Versions :
        /\ versions' = Append(versions, x)
        /\ \/ Register /\ x = Rendered /\ step = "register"
           \/ x.by # "updater"
  BY <1>1, Registered
<1>3. n = Len(versions) + 1 /\ versions'[n] = x
  BY <1>0, <1>2, Appending
<1>4. Register /\ x = Rendered /\ step = "register"
  BY <1>2, <1>3 DEF Changed
<1>5. x.from = read /\ x.flags[v] = IF changes[v] # NoValue THEN changes[v]
                                    ELSE versions[read].flags[v]
  BY <1>0, <1>4, RenderedVersion
<1>6. versions'[read] = versions[read]
  BY <1>0, <1>4, VersionsStay DEF CheckTypes
<1>7. x.flags[v] # versions[read].flags[v]
  BY <1>3, <1>5, <1>6 DEF Changed
<1> QED
  BY <1>3, <1>4, <1>5, <1>7

LEMMA StepRemembered ==
    ASSUME TypeOK, TypeOK', Recording, InStep, ChangesAreLater, Remembered, FromEarlier,
           [Next]_vars
    PROVE  Remembered'
<1> SUFFICES ASSUME NEW n \in 1 .. Len(versions'), NEW v \in Vars, Changed(n, v)'
             PROVE  \/ versions'[n].flags[v] <= disk'[v]
                    \/ /\ step' \in {"respond", "record"}
                       /\ step' = "record" => pos' <= v
                       /\ changes'[v] # NoValue
                       /\ versions'[n].flags[v] = changes'[v]
  BY DEF Remembered, Unrecorded
<1>1. CASE n \notin 1 .. Len(versions)
  <2>1. Register /\ changes[v] # NoValue /\ versions'[n].flags[v] = changes[v]
    BY <1>1, NewlyChanged
  <2> QED
    BY <2>1 DEF Register
<1>2. CASE n \in 1 .. Len(versions)
  <2> DEFINE f == versions[n].flags[v]
  <2>1. versions'[n].flags[v] = f /\ Changed(n, v)
    BY <1>2, ChangedStays
  <2>2. /\ f \in Nat /\ disk[v] \in Nat /\ changes[v] \in Nat /\ pos \in Nat /\ v \in Nat
    BY <1>2, Numbers
  <2>3. \/ f <= disk[v]
        \/ /\ step \in {"respond", "record"}
           /\ step = "record" => pos <= v
           /\ changes[v] # NoValue
           /\ f = changes[v]
    BY <1>2, <2>1 DEF Remembered, Unrecorded
  <2> HIDE DEF f
  <2>4. CASE disk' = disk /\ step \notin {"respond", "record"}
    BY <2>1, <2>3, <2>4
  <2>5. CASE disk' = disk /\ UNCHANGED <<step, pos, changes>>
    BY <2>1, <2>3, <2>5
  <2>6. CASE Record
    <3>1. /\ disk'[v] = IF v = pos /\ changes[v] # NoValue THEN changes[v] ELSE disk[v]
          /\ step = "record"
          /\ \/ pos < NumVars /\ pos' = pos + 1 /\ UNCHANGED <<step, changes>>
             \/ pos >= NumVars
      BY <2>6, RecordEffect
    <3>2. CASE f <= disk[v]
      <4>1. changes[v] # NoValue /\ v = pos => changes[v] > disk[v]
        BY <2>2 DEF ChangesAreLater, Unrecorded
      <4> QED
        BY <2>1, <2>2, <3>1, <3>2, <4>1
    <3>3. CASE ~(f <= disk[v])
      <4>1. pos <= v /\ changes[v] # NoValue /\ f = changes[v]
        BY <2>3, <3>1, <3>3
      <4>2. CASE v = pos
        BY <2>1, <2>2, <3>1, <4>1, <4>2
      <4>3. CASE v # pos
        <5>1. pos < v /\ v <= NumVars /\ NumVars \in Nat
          BY <2>2, <4>1, <4>3, UpdaterAssumption DEF Vars
        <5>2. pos' = pos + 1 /\ UNCHANGED <<step, changes>>
          BY <2>2, <3>1, <5>1
        <5>3. pos' <= v
          BY <2>2, <5>1, <5>2
        <5> QED
          BY <2>1, <3>1, <4>1, <5>2, <5>3
      <4> QED
        BY <4>2, <4>3
    <3> QED
      BY <3>2, <3>3
  <2>7. CASE Respond
    <3>1. /\ disk' = disk /\ step' = "record" /\ pos' = pos /\ changes' = changes /\ pos = 1
      BY <2>7 DEF Respond, InStep, cacheVars
    <3>2. pos <= v
      BY <3>1 DEF Vars
    <3> QED
      BY <2>1, <2>3, <3>1, <3>2
  <2>8. CASE Crash
    BY <2>4, <2>8 DEF Crash, Recording
  <2>9. CASE LoseResponse
    BY <2>9 DEF LoseResponse, Recording
  <2>10. CASE \/ StartCheck \/ ReadSubmission \/ ReadDeployment \/ Register \/ Fail
              \/ \E w \in Vars : Resolve(w) \/ ResolveFails(w)
    BY <2>4, <2>10 DEF StartCheck, ReadSubmission, ReadDeployment, Register, Fail, Resolve,
                       ResolveFails, cacheVars
  <2>11. CASE \/ Discover \/ Restart \/ DeploymentSucceeds \/ DeploymentFails
              \/ OperatorRegisters \/ (\E w \in Vars : Publish(w) \/ Withdraw(w)) \/ UNCHANGED vars
    BY <2>5, <2>11 DEF Discover, Restart, DeploymentSucceeds, DeploymentFails,
                       OperatorRegisters, Publish, Withdraw, vars, checkVars, cacheVars
  <2> QED
    BY <2>6, <2>7, <2>8, <2>9, <2>10, <2>11 DEF Next, Check, Environment
<1> QED
  BY <1>1, <1>2

LEMMA StepOnce ==
    ASSUME TypeOK, ChangesAreLater, Remembered, FromEarlier, AppliedOnce, [Next]_vars
    PROVE  AppliedOnce'
<1>1. ASSUME NEW m \in 1 .. Len(versions'), NEW n \in 1 .. Len(versions'), NEW v \in Vars,
             m < n, Changed(m, v)', Changed(n, v)'
      PROVE  versions'[m].flags[v] # versions'[n].flags[v]
  <2>1. CASE n \in 1 .. Len(versions)
    <3>1. m \in 1 .. Len(versions)
      BY <1>1, <2>1
    <3> QED
      BY <1>1, <2>1, <3>1, ChangedStays DEF AppliedOnce
  <2>2. CASE n \notin 1 .. Len(versions)
    <3>1. /\ step = "register" /\ n = Len(versions) + 1
          /\ changes[v] # NoValue /\ versions'[n].flags[v] = changes[v]
      BY <1>1, <2>2, NewlyChanged
    <3>2. m \in 1 .. Len(versions)
      BY <1>1, <3>1 DEF TypeOK
    <3>3. Changed(m, v) /\ versions'[m].flags[v] = versions[m].flags[v]
      BY <1>1, <3>2, ChangedStays
    <3>4. versions[m].flags[v] <= disk[v]
      BY <3>1, <3>2, <3>3 DEF Remembered
    <3>5. changes[v] > disk[v]
      BY <3>1 DEF ChangesAreLater, Unrecorded
    <3>6. versions[m].flags[v] \in Nat /\ disk[v] \in Nat /\ changes[v] \in Nat
      BY <3>2, Numbers
    <3> QED
      BY <3>1, <3>3, <3>4, <3>5, <3>6
  <2> QED
    BY <2>1, <2>2
<1> QED
  BY <1>1 DEF AppliedOnce

\* The updater decides at most once on each value of each variable, as long as
\* what it applies gets recorded: for any number of variables, releases and
\* versions, whatever operator and deployments do, and with kills and restarts
\* at any other step.
THEOREM AppliedOnceCorrect ==
    ASSUME Recording, ~SourcesGoBack
    PROVE  Spec => []AppliedOnce
<1>1. Init => OnceInv
  <2> SUFFICES ASSUME Init PROVE OnceInv
    OBVIOUS
  <2>0. TypeOK
    BY InitTypes
  <2>1. PICK src \in OptedIn \cap Retained, stamp \in Stamps :
          versions = <<[src |-> src, flags |-> [v \in Vars |-> 1],
                        meta |-> SrcMeta(src) \cup stamp, by |-> "operator", from |-> 0]>>
    BY DEF Init
  <2>2. Len(versions) = 1 /\ versions[1].by = "operator"
    BY <2>1
  <2>3. \A n \in 1 .. Len(versions) : versions[n].by # "updater"
    BY <2>2
  <2>4. InStep
    BY DEF Init, InStep
  <2>5. ChangesAreLater
    <3>1. \A v \in Vars : disk[v] = 0 /\ changes[v] = NoValue /\ latest[v] = 1
      BY DEF Init, Unset, NoValue
    <3> QED
      BY <3>1 DEF ChangesAreLater
  <2>6. Remembered /\ FromEarlier /\ AppliedOnce
    BY <2>3 DEF Remembered, FromEarlier, AppliedOnce, Changed
  <2> QED
    BY <2>4, <2>5, <2>6 DEF OnceInv
<1>2. TypeOK /\ TypeOK' /\ OnceInv /\ [Next]_vars => OnceInv'
  BY StepInStep, StepLater, StepRemembered, StepFromEarlier, StepOnce DEF OnceInv
<1>3. OnceInv => AppliedOnce
  BY DEF OnceInv
<1> QED
  BY <1>1, <1>2, <1>3, TypeCorrect, PTL DEF Spec

----------------------------------------------------------------------------
(* LastHeldBack                                                            *)

\* The change of v is registered and still to be recorded.
Pending(v) ==
    /\ step \in {"respond", "record"}
    /\ Unrecorded(v)
    /\ changes[v] # NoValue

\* A change is to a value that the version read does not have and, until it is
\* recorded, that is not the record.
ChangesDiffer ==
    \A v \in Vars :
        changes[v] # NoValue =>
            /\ step \notin {"idle", "reading"}
            /\ changes[v] # versions[read].flags[v]
            /\ Unrecorded(v) => changes[v] # disk[v]

\* Version n is the last one that decided on v.
LastDecision(n, v) ==
    /\ Changed(n, v)
    /\ \A k \in 1 .. Len(versions) : k > n => ~Changed(k, v)

\* The last decision on each variable is the record, or about to be.
LastRecorded ==
    \A n \in 1 .. Len(versions), v \in Vars :
        LastDecision(n, v) =>
            versions[n].flags[v] = IF Pending(v) THEN changes[v] ELSE disk[v]

LastInv == InStep /\ FromEarlier /\ ChangesDiffer /\ LastRecorded /\ LastHeldBack

LEMMA StepDiffer ==
    ASSUME TypeOK, Recording, InStep, ChangesDiffer, [Next]_vars
    PROVE  ChangesDiffer'
<1> SUFFICES ASSUME NEW v \in Vars, changes'[v] # NoValue
             PROVE  /\ step' \notin {"idle", "reading"}
                    /\ changes'[v] # versions'[read'].flags[v]
                    /\ (step' = "record" => pos' <= v) => changes'[v] # disk'[v]
  BY DEF ChangesDiffer, Unrecorded
<1>1. pos \in Nat /\ v \in Nat
  BY Numbers
<1>2. ASSUME EndCheck PROVE FALSE
  BY <1>2 DEF EndCheck, Unset
<1>3. changes[v] # NoValue =>
        /\ step \notin {"idle", "reading"}
        /\ changes[v] # versions[read].flags[v]
        /\ (step = "record" => pos <= v) => changes[v] # disk[v]
  BY DEF ChangesDiffer, Unrecorded
<1>4. step \notin {"idle", "reading"} => versions'[read] = versions[read]
  BY VersionsStay DEF TypeOK
<1>5. CASE /\ changes'[v] = changes[v] /\ disk' = disk /\ read' = read
           /\ step' \notin {"idle", "reading"}
           /\ step = "record" => step' = "record" /\ pos' = pos
  BY <1>3, <1>4, <1>5
<1>6. CASE Record
  <2>1. /\ disk'[v] = IF v = pos /\ changes[v] # NoValue THEN changes[v] ELSE disk[v]
        /\ step = "record"
        /\ pos' = pos + 1 /\ UNCHANGED <<step, changes>>
    BY <1>2, <1>6, RecordEffect
  <2>2. read' = read
    BY <1>2, <1>6 DEF Record
  <2>3. pos' <= v => pos <= v /\ v # pos
    BY <1>1, <2>1
  <2> QED
    BY <1>3, <1>4, <2>1, <2>2, <2>3
<1>7. ASSUME NEW w \in Vars, Resolve(w)
      PROVE  /\ step' \notin {"idle", "reading"}
             /\ changes'[v] # versions'[read'].flags[v]
             /\ changes'[v] # disk'[v]
  <2>1. /\ step = "resolving" /\ UNCHANGED <<versions, disk, read>>
        /\ step' \in {"resolving", "deployment"}
        /\ changes' = [changes EXCEPT ![w] = Wanted(w, latest[w])]
    BY <1>2, <1>7 DEF Resolve, AfterResolving, nomadVars, cacheVars
  <2>2. cache = disk
    BY <2>1 DEF InStep
  <2>3. CASE v = w
    <3>1. changes'[v] = Wanted(v, latest[v])
      BY <2>1, <2>3 DEF TypeOK
    <3>2. changes'[v] # versions[read].flags[v] /\ changes'[v] # cache[v]
      BY <3>1 DEF Wanted, AlreadyApplied
    <3> QED
      BY <2>1, <2>2, <3>2
  <2>4. CASE v # w
    <3>1. changes'[v] = changes[v]
      BY <2>1, <2>4 DEF TypeOK
    <3> QED
      BY <1>3, <2>1, <3>1
  <2> QED
    BY <2>3, <2>4
<1>8. CASE \E w \in Vars : ResolveFails(w)
  BY <1>2, <1>5, <1>8 DEF ResolveFails, AfterResolving, cacheVars
<1>9. CASE StartCheck \/ ReadSubmission
  BY <1>2, <1>3, <1>9 DEF StartCheck, ReadSubmission
<1>10. CASE ReadDeployment \/ Register \/ Respond \/ LoseResponse \/ Fail \/ Crash
  BY <1>2, <1>5, <1>10
     DEF ReadDeployment, Register, Respond, LoseResponse, Fail, Crash, cacheVars
<1>11. CASE \/ Discover \/ Restart \/ DeploymentSucceeds \/ DeploymentFails
            \/ OperatorRegisters \/ (\E w \in Vars : Publish(w) \/ Withdraw(w))
            \/ UNCHANGED vars
  BY <1>3, <1>5, <1>11 DEF Discover, Restart, DeploymentSucceeds, DeploymentFails,
                     OperatorRegisters, Publish, Withdraw, vars, checkVars, cacheVars
<1> QED
  BY <1>6, <1>7, <1>8, <1>9, <1>10, <1>11 DEF Next, Check, Environment

\* A check decides on everything that it has a change for.
LEMMA AllChanged ==
    ASSUME TypeOK, ChangesDiffer, [Next]_vars, Register, NEW v \in Vars, changes[v] # NoValue,
           NEW n \in Nat, n = Len(versions) + 1
    PROVE  n \in 1 .. Len(versions') /\ Changed(n, v)'
<1>0. versions \in Seq(Versions) /\ NomadTypes /\ CheckTypes /\ step = "register"
  BY TypesTogether DEF NomadTypes, Register
<1>1. /\ Rendered \in Versions /\ Rendered.by = "updater" /\ Rendered.from = read
      /\ Rendered.flags[v] = changes[v]
  BY <1>0, RenderedVersion
<1>2. n \in 1 .. Len(versions') /\ versions'[n] = Rendered
  BY <1>0, <1>1, Appending DEF Register
<1>3. versions'[read] = versions[read]
  BY <1>0, VersionsStay DEF CheckTypes
<1>4. changes[v] # versions[read].flags[v]
  BY DEF ChangesDiffer
<1> QED
  BY <1>1, <1>2, <1>3, <1>4 DEF Changed

LEMMA StepLastRecorded ==
    ASSUME TypeOK, Recording, InStep, FromEarlier, ChangesDiffer, LastRecorded, [Next]_vars
    PROVE  LastRecorded'
<1> SUFFICES ASSUME NEW n \in 1 .. Len(versions'), NEW v \in Vars, Changed(n, v)',
                    \A k \in 1 .. Len(versions') : k > n => ~Changed(k, v)'
             PROVE  versions'[n].flags[v] =
                      IF /\ step' \in {"respond", "record"}
                         /\ step' = "record" => pos' <= v
                         /\ changes'[v] # NoValue
                      THEN changes'[v] ELSE disk'[v]
  BY DEF LastRecorded, LastDecision, Pending, Unrecorded
<1>1. CASE n \notin 1 .. Len(versions)
  <2>1. Register /\ changes[v] # NoValue /\ versions'[n].flags[v] = changes[v]
    BY <1>1, NewlyChanged
  <2> QED
    BY <2>1 DEF Register
<1>2. CASE n \in 1 .. Len(versions)
  <2> DEFINE f == versions[n].flags[v]
  <2>1. versions'[n].flags[v] = f /\ Changed(n, v)
    BY <1>2, ChangedStays
  <2>2. pos \in Nat /\ v \in Nat /\ v <= NumVars /\ NumVars \in Nat
    BY UpdaterAssumption DEF TypeOK, Vars
  <2>3. \A k \in 1 .. Len(versions) : k > n => ~Changed(k, v)
    BY VersionsStay, ChangedStays
  <2>4. f = IF /\ step \in {"respond", "record"}
               /\ step = "record" => pos <= v
               /\ changes[v] # NoValue
            THEN changes[v] ELSE disk[v]
    BY <1>2, <2>1, <2>3 DEF LastRecorded, LastDecision, Pending, Unrecorded
  <2> HIDE DEF f
  <2>5. CASE disk' = disk /\ step \notin {"respond", "record"}
                          /\ step' \notin {"respond", "record"}
    BY <2>1, <2>4, <2>5
  <2>6. CASE disk' = disk /\ UNCHANGED <<step, pos, changes>>
    BY <2>1, <2>4, <2>6
  <2>7. CASE Register
    <3>1. changes[v] = NoValue
      <4>1. PICK k \in Nat : k = Len(versions) + 1 /\ k > n
        BY <1>2 DEF TypeOK
      <4> QED
        BY <2>7, <4>1, AllChanged
    <3> QED
      BY <2>1, <2>4, <2>7, <3>1 DEF Register, cacheVars
  <2>8. CASE Respond
    <3>1. /\ disk' = disk /\ step = "respond" /\ step' = "record"
          /\ pos' = 1 /\ changes' = changes
      BY <2>8 DEF Respond, InStep, cacheVars
    <3>2. pos' <= v
      BY <3>1 DEF Vars
    <3> QED
      BY <2>1, <2>4, <3>1, <3>2
  <2>9. CASE Record
    <3>1. /\ disk'[v] = IF v = pos /\ changes[v] # NoValue THEN changes[v] ELSE disk[v]
          /\ step = "record"
          /\ \/ pos < NumVars /\ pos' = pos + 1 /\ UNCHANGED <<step, changes>>
             \/ pos >= NumVars /\ EndCheck
      BY <2>9, RecordEffect
    <3>2. f = disk'[v] \/ (v # pos /\ pos <= v /\ changes[v] # NoValue /\ f = changes[v])
      BY <2>2, <2>4, <3>1
    <3>3. CASE pos < NumVars /\ pos' = pos + 1 /\ UNCHANGED <<step, changes>>
      <4>1. pos' <= v <=> pos <= v /\ v # pos
        BY <2>2, <3>3
      <4>2. CASE v = pos
        BY <2>1, <2>2, <2>4, <3>1, <3>3, <4>1, <4>2
      <4>3. CASE v # pos
        BY <2>1, <2>4, <3>1, <3>3, <4>1, <4>3
      <4> QED
        BY <4>2, <4>3
    <3>4. CASE pos >= NumVars /\ EndCheck
      <4>1. f = disk'[v]
        BY <2>2, <3>2, <3>4
      <4> QED
        BY <2>1, <3>4, <4>1 DEF EndCheck
    <3> QED
      BY <3>1, <3>3, <3>4
  <2>10. CASE LoseResponse
    BY <2>10 DEF LoseResponse, Recording
  <2>11. CASE \/ StartCheck \/ ReadSubmission \/ ReadDeployment \/ Fail \/ Crash
              \/ \E w \in Vars : Resolve(w) \/ ResolveFails(w)
    BY <2>5, <2>11 DEF StartCheck, ReadSubmission, ReadDeployment, Fail, Crash, Resolve,
                       ResolveFails, AfterResolving, EndCheck, Recording, cacheVars, TypeOK,
                       Steps
  <2>12. CASE \/ Discover \/ Restart \/ DeploymentSucceeds \/ DeploymentFails
              \/ OperatorRegisters \/ (\E w \in Vars : Publish(w) \/ Withdraw(w))
              \/ UNCHANGED vars
    BY <2>6, <2>12 DEF Discover, Restart, DeploymentSucceeds, DeploymentFails,
                       OperatorRegisters, Publish, Withdraw, vars, checkVars, cacheVars
  <2> QED
    BY <2>7, <2>8, <2>9, <2>10, <2>11, <2>12 DEF Next, Check, Environment
<1> QED
  BY <1>1, <1>2

LEMMA StepLastHeldBack ==
    ASSUME TypeOK, FromEarlier, ChangesDiffer, LastRecorded, LastHeldBack, [Next]_vars
    PROVE  LastHeldBack'
<1> SUFFICES ASSUME NEW m \in 1 .. Len(versions'), NEW n \in 1 .. Len(versions'),
                    NEW v \in Vars, m < n, Changed(m, v)', Changed(n, v)',
                    \A k \in m + 1 .. n - 1 : ~Changed(k, v)'
             PROVE  versions'[m].flags[v] # versions'[n].flags[v]
  BY DEF LastHeldBack
<1>0. Len(versions) \in Nat
  BY DEF TypeOK
<1>1. CASE n \in 1 .. Len(versions)
  <2>1. m \in 1 .. Len(versions)
    BY <1>1
  <2>2. \A k \in m + 1 .. n - 1 : ~Changed(k, v)
    <3> SUFFICES ASSUME NEW k \in m + 1 .. n - 1 PROVE ~Changed(k, v)
      OBVIOUS
    <3>1. k \in 1 .. Len(versions)
      BY <1>0, <1>1, <2>1
    <3> QED
      BY <3>1, ChangedStays
  <2> QED
    BY <1>1, <2>1, <2>2, ChangedStays DEF LastHeldBack
<1>2. CASE n \notin 1 .. Len(versions)
  <2>1. /\ step = "register" /\ n = Len(versions) + 1
        /\ changes[v] # NoValue /\ versions'[n].flags[v] = changes[v]
    BY <1>2, NewlyChanged
  <2>2. m \in 1 .. Len(versions)
    BY <1>0, <2>1
  <2>3. LastDecision(m, v)
    <3>1. Changed(m, v)
      BY <2>2, ChangedStays
    <3>2. ASSUME NEW k \in 1 .. Len(versions), k > m PROVE ~Changed(k, v)
      <4>1. k \in m + 1 .. n - 1
        BY <1>0, <2>1, <2>2, <3>2
      <4> QED
        BY <4>1, ChangedStays
    <3> QED
      BY <3>1, <3>2 DEF LastDecision
  <2>4. versions[m].flags[v] = disk[v]
    BY <2>1, <2>2, <2>3 DEF LastRecorded, Pending
  <2>5. changes[v] # disk[v]
    BY <2>1 DEF ChangesDiffer, Unrecorded
  <2>6. versions'[m].flags[v] = versions[m].flags[v]
    BY <2>2, ChangedStays
  <2> QED
    BY <2>1, <2>4, <2>5, <2>6
<1> QED
  BY <1>1, <1>2

\* The updater never decides to push the value that it has decided on last, as
\* long as what it applies gets recorded: also when releases are withdrawn and
\* the operator registers older values, for any number of variables, releases
\* and versions, and with kills and restarts at any other step.
THEOREM LastHeldBackCorrect ==
    ASSUME Recording
    PROVE  Spec => []LastHeldBack
<1>1. Init => LastInv
  <2> SUFFICES ASSUME Init PROVE LastInv
    OBVIOUS
  <2>1. PICK src \in OptedIn \cap Retained, stamp \in Stamps :
          versions = <<[src |-> src, flags |-> [v \in Vars |-> 1],
                        meta |-> SrcMeta(src) \cup stamp, by |-> "operator", from |-> 0]>>
    BY DEF Init
  <2>2. Len(versions) = 1 /\ versions[1].by = "operator"
    BY <2>1
  <2>3. \A n \in 1 .. Len(versions) : versions[n].by # "updater"
    BY <2>2
  <2>4. InStep
    BY DEF Init, InStep
  <2>5. ChangesDiffer
    BY DEF Init, Unset, ChangesDiffer
  <2>6. FromEarlier /\ LastRecorded /\ LastHeldBack
    BY <2>3 DEF FromEarlier, LastRecorded, LastDecision, LastHeldBack, Changed
  <2> QED
    BY <2>4, <2>5, <2>6 DEF LastInv
<1>2. TypeOK /\ LastInv /\ [Next]_vars => LastInv'
  BY StepInStep, StepFromEarlier, StepDiffer, StepLastRecorded, StepLastHeldBack DEF LastInv
<1>3. LastInv => LastHeldBack
  BY DEF LastInv
<1> QED
  BY <1>1, <1>2, <1>3, TypeCorrect, PTL DEF Spec

----------------------------------------------------------------------------
(* HeldBackOnlyIfReverted                                                  *)

\* The operator registered the first version and no other one.
OperatorFirst ==
    \A n \in 1 .. Len(versions) : versions[n].by = "operator" => n = 1

\* No version is ahead of its sources, or of the changes of a check that has
\* not registered them.
VersionsBehind ==
    \A v \in Vars :
        /\ changes[v] <= latest[v]
        /\ \A n \in 1 .. Len(versions) :
             /\ versions[n].flags[v] <= latest[v]
             /\ step \notin {"respond", "record"} /\ changes[v] # NoValue
                  => versions[n].flags[v] <= changes[v]

\* Among the versions vs, the updater has registered value r of variable v.
Pushed(vs, v, r) ==
    \E n \in 1 .. Len(vs) : vs[n].by = "updater" /\ vs[n].flags[v] = r

\* Reverted, of the versions vs.
RevertedIn(vs, v, r) ==
    \E n \in 1 .. Len(vs), m \in 1 .. Len(vs) :
        /\ n < m
        /\ vs[n].by = "updater" /\ vs[n].flags[v] = r
        /\ vs[m].by = "nomad" /\ vs[m].flags[v] # r

\* What is remembered was pushed, and so was what is about to be.
RecordsPushed ==
    \A v \in Vars :
        /\ cache[v] # NoValue => Pushed(versions, v, cache[v])
        /\ disk[v] # NoValue => Pushed(versions, v, disk[v])
        /\ step \in {"respond", "record"} /\ changes[v] # NoValue
             => Pushed(versions, v, changes[v])

\* Checks come one after the other: a check has read the last update, or
\* something that came after it.
ReadsLastUpdate ==
    step \in {"resolving", "deployment", "register"} =>
        \A n \in 1 .. Len(versions) : versions[n].by = "updater" => n <= read

\* From one update to a later one, a variable goes back only if Nomad took its
\* value back.
Progress ==
    \A m, n \in 1 .. Len(versions), v \in Vars :
        m < n /\ versions[m].by = "updater" /\ versions[n].by = "updater" =>
            \/ versions[n].flags[v] >= versions[m].flags[v]
            \/ RevertedIn(versions, v, versions[m].flags[v])

HeldInv == OperatorFirst /\ VersionsBehind /\ RecordsPushed /\ ReadsLastUpdate /\ Progress

\* What a step without an operator does to the versions.
LEMMA Growth ==
    ASSUME TypeOK, ~OperatorActs, [Next]_vars, versions' # versions
    PROVE  LET x == versions'[Len(versions) + 1]
           IN  /\ Len(versions) \in Nat /\ Len(versions') = Len(versions) + 1
               /\ Len(versions) >= 1
               /\ \A n \in 1 .. Len(versions) : versions'[n] = versions[n]
               /\ \/ /\ Register /\ step = "register" /\ x = Rendered /\ x.by = "updater"
                     /\ \A v \in Vars : x.flags[v] =
                          IF changes[v] # NoValue THEN changes[v] ELSE versions[read].flags[v]
                  \/ /\ DeploymentFails /\ x.by = "nomad"
                     /\ x.flags = versions[stable].flags
<1>0. versions \in Seq(Versions) /\ NomadTypes /\ CheckTypes
  BY TypesTogether DEF NomadTypes
<1>1. PICK x \in Versions :
        /\ versions' = Append(versions, x)
        /\ \/ Register /\ x = Rendered /\ step = "register"
           \/ DeploymentFails /\ x.by = "nomad" /\ x.flags = versions[stable].flags
  BY Registered
<1>2. /\ Len(versions') = Len(versions) + 1 /\ Len(versions) \in Nat
      /\ versions'[Len(versions) + 1] = x
      /\ \A n \in 1 .. Len(versions) : versions'[n] = versions[n]
  BY <1>0, <1>1, Appending
<1>3. Len(versions) >= 1
  BY <1>0, CurrentVersion
<1>4. CASE Register /\ x = Rendered /\ step = "register"
  BY <1>0, <1>2, <1>3, <1>4, RenderedVersion
<1>5. CASE DeploymentFails /\ x.by = "nomad" /\ x.flags = versions[stable].flags
  BY <1>2, <1>3, <1>5
<1> QED
  BY <1>1, <1>4, <1>5

\* What was pushed or reverted stays so.
LEMMA HistoryStays ==
    ASSUME TypeOK, [Next]_vars
    PROVE  \A v \in Vars, r \in Values :
             /\ Pushed(versions, v, r) => Pushed(versions', v, r)
             /\ RevertedIn(versions, v, r) => RevertedIn(versions', v, r)
<1>1. \A n \in 1 .. Len(versions) : n \in 1 .. Len(versions') /\ versions'[n] = versions[n]
  BY VersionsStay
<1> QED
  BY <1>1 DEF Pushed, RevertedIn

\* The flags of a version are values.
LEMMA FlagsAreValues ==
    ASSUME TypeOK, NEW n \in 1 .. Len(versions), NEW v \in Vars
    PROVE  versions[n].flags[v] \in Values
<1>1. versions[n] \in Versions
  BY DEF TypeOK
<1> QED
  BY <1>1, VersionFields

LEMMA StepOperatorFirst ==
    ASSUME TypeOK, ~OperatorActs, OperatorFirst, [Next]_vars
    PROVE  OperatorFirst'
<1>1. CASE versions' = versions
  BY <1>1 DEF OperatorFirst
<1>2. CASE versions' # versions
  BY <1>2, Growth DEF OperatorFirst
<1> QED
  BY <1>1, <1>2

\* Changes come from the sources.
LEMMA ChangesFromLatest ==
    ASSUME TypeOK, [Next]_vars, NEW v \in Vars, changes'[v] # NoValue
    PROVE  changes'[v] = changes[v] \/ (changes'[v] = latest[v] /\ UNCHANGED <<versions, latest>>)
<1>1. ASSUME EndCheck PROVE FALSE
  BY <1>1 DEF EndCheck, Unset
<1>2. ASSUME NEW w \in Vars, Resolve(w)
      PROVE  changes'[v] = changes[v] \/ (changes'[v] = latest[v] /\ UNCHANGED <<versions, latest>>)
  <2>1. changes' = [changes EXCEPT ![w] = Wanted(w, latest[w])] /\ UNCHANGED <<versions, latest>>
    BY <1>1, <1>2 DEF Resolve, AfterResolving, nomadVars
  <2>2. Wanted(w, latest[w]) \in {NoValue, latest[w]}
    BY DEF Wanted
  <2> QED
    BY <2>1, <2>2 DEF TypeOK
<1>3. CASE UNCHANGED changes
  BY <1>3
<1> QED
  BY <1>1, <1>2, <1>3
     DEF Next, Check, Environment, Discover, StartCheck, ReadSubmission, ResolveFails,
         AfterResolving, ReadDeployment, Register, Respond, LoseResponse, Record, Fail,
         Crash, Restart, Publish, Withdraw, DeploymentSucceeds, DeploymentFails, OperatorRegisters,
         vars, checkVars

\* A check that has not registered was not about to record.
LEMMA RecordsComeLast ==
    ASSUME [Next]_vars, step' \notin {"respond", "record"}
    PROVE  step \notin {"respond", "record"} \/ changes' = Unset
BY DEF Next, Check, Environment, Discover, StartCheck, ReadSubmission, Resolve, ResolveFails,
       AfterResolving, ReadDeployment, Register, Respond, LoseResponse, Record, Fail, Crash,
       Restart, Publish, Withdraw, DeploymentSucceeds, DeploymentFails, OperatorRegisters, EndCheck,
       vars, checkVars

LEMMA StepBehind ==
    ASSUME TypeOK, TypeOK', ~OperatorActs, ~SourcesGoBack, VersionsBehind, [Next]_vars
    PROVE  VersionsBehind'
<1> SUFFICES ASSUME NEW v \in Vars
             PROVE  /\ changes'[v] <= latest'[v]
                    /\ \A n \in 1 .. Len(versions') :
                         /\ versions'[n].flags[v] <= latest'[v]
                         /\ step' \notin {"respond", "record"} /\ changes'[v] # NoValue
                              => versions'[n].flags[v] <= changes'[v]
  BY DEF VersionsBehind
<1>1. /\ changes[v] \in Nat /\ latest[v] \in Nat /\ latest'[v] \in Nat /\ changes'[v] \in Nat
      /\ latest'[v] >= latest[v]
  <2>1. latest'[v] \in Releases /\ changes'[v] \in Values
    BY DEF TypeOK
  <2> QED
    BY <2>1, Numbers, ValuesAreNats, LatestGrows
<1>2. changes'[v] # NoValue =>
        changes'[v] = changes[v] \/ (changes'[v] = latest[v] /\ UNCHANGED <<versions, latest>>)
  BY ChangesFromLatest
<1>3. step' \notin {"respond", "record"} /\ changes'[v] # NoValue
        => step \notin {"respond", "record"}
  BY RecordsComeLast DEF Unset
<1>4. changes'[v] <= latest'[v]
  BY <1>1, <1>2 DEF VersionsBehind, NoValue
<1>5. ASSUME NEW n \in 1 .. Len(versions)
      PROVE  /\ versions[n].flags[v] \in Nat
             /\ versions[n].flags[v] <= latest'[v]
             /\ step' \notin {"respond", "record"} /\ changes'[v] # NoValue
                  => versions[n].flags[v] <= changes'[v]
  <2>1. versions[n].flags[v] \in Nat
    BY Numbers
  <2>2. /\ versions[n].flags[v] <= latest[v]
        /\ step \notin {"respond", "record"} /\ changes[v] # NoValue
             => versions[n].flags[v] <= changes[v]
    BY DEF VersionsBehind
  <2> QED
    BY <1>1, <1>2, <1>3, <2>1, <2>2
<1>6. CASE versions' = versions
  BY <1>4, <1>5, <1>6
<1>7. CASE versions' # versions
  <2> DEFINE x == versions'[Len(versions) + 1]
  <2>1. /\ Len(versions) \in Nat /\ Len(versions') = Len(versions) + 1
        /\ \A n \in 1 .. Len(versions) : versions'[n] = versions[n]
        /\ \/ /\ Register /\ step = "register"
              /\ x.flags[v] = IF changes[v] # NoValue THEN changes[v]
                              ELSE versions[read].flags[v]
           \/ DeploymentFails /\ x.flags = versions[stable].flags
    BY <1>7, Growth
  <2> HIDE DEF x
  <2>2. /\ x.flags[v] <= latest'[v]
        /\ step' \notin {"respond", "record"} /\ changes'[v] # NoValue
             => x.flags[v] <= changes'[v]
    <3>1. CASE /\ Register /\ step = "register"
               /\ x.flags[v] = IF changes[v] # NoValue THEN changes[v]
                               ELSE versions[read].flags[v]
      <4>1. step' = "respond"
        BY <3>1 DEF Register
      <4>2. read \in 1 .. Len(versions)
        BY <2>1, <3>1 DEF TypeOK
      <4>3. changes[v] <= latest'[v] /\ versions[read].flags[v] <= latest'[v]
        BY <1>1, <1>5, <4>2 DEF VersionsBehind
      <4> QED
        BY <3>1, <4>1, <4>3
    <3>2. CASE DeploymentFails /\ x.flags = versions[stable].flags
      BY <1>5, <3>2 DEF TypeOK
    <3> QED
      BY <2>1, <3>1, <3>2
  <2>3. \A n \in 1 .. Len(versions') : n \in 1 .. Len(versions) \/ versions'[n] = x
    BY <2>1 DEF x
  <2> QED
    BY <1>4, <1>5, <2>1, <2>2, <2>3
<1> QED
  BY <1>6, <1>7

LEMMA StepPushed ==
    ASSUME TypeOK, TypeOK', ~OperatorActs, RecordsPushed, [Next]_vars
    PROVE  RecordsPushed'
<1> SUFFICES ASSUME NEW v \in Vars
             PROVE  /\ cache'[v] # NoValue => Pushed(versions', v, cache'[v])
                    /\ disk'[v] # NoValue => Pushed(versions', v, disk'[v])
                    /\ step' \in {"respond", "record"} /\ changes'[v] # NoValue
                         => Pushed(versions', v, changes'[v])
  BY DEF RecordsPushed
<1>1. /\ cache[v] # NoValue => Pushed(versions', v, cache[v])
      /\ disk[v] # NoValue => Pushed(versions', v, disk[v])
      /\ step \in {"respond", "record"} /\ changes[v] # NoValue
           => Pushed(versions', v, changes[v])
  <2>1. cache[v] \in Values /\ disk[v] \in Values /\ changes[v] \in Values
    BY DEF TypeOK
  <2> QED
    BY <2>1, HistoryStays DEF RecordsPushed
<1>2. Unset[v] = NoValue
  BY DEF Unset
<1>3. CASE Register
  <2>1. step = "register" /\ versions' # versions
    BY <1>3 DEF Register, TypeOK
  <2> DEFINE n == Len(versions) + 1
  <2>2. /\ n \in 1 .. Len(versions')
        /\ versions'[n].by = "updater"
        /\ changes[v] # NoValue => versions'[n].flags[v] = changes[v]
    <3>1. ~DeploymentFails
      BY <2>1, <1>3 DEF Register, DeploymentFails, checkVars
    <3> QED
      BY <2>1, <3>1, Growth
  <2>3. changes[v] # NoValue => Pushed(versions', v, changes[v])
    BY <2>2 DEF Pushed
  <2>4. UNCHANGED <<changes, cache, disk>>
    BY <1>3 DEF Register, cacheVars
  <2> QED
    BY <1>1, <2>3, <2>4
<1>4. CASE Record
  <2>1. /\ cache'[v] = cache[v] \/ (changes[v] # NoValue /\ cache'[v] = changes[v])
        /\ disk'[v] = cache'[v] \/ disk'[v] = disk[v]
        /\ step = "record"
        /\ changes' = changes \/ changes' = Unset
    BY <1>4 DEF Record, Recorded, Saved, EndCheck, TypeOK
  <2>2. cache'[v] # NoValue => Pushed(versions', v, cache'[v])
    BY <1>1, <2>1
  <2>3. disk'[v] # NoValue => Pushed(versions', v, disk'[v])
    BY <1>1, <2>1, <2>2
  <2> QED
    BY <1>1, <1>2, <2>1, <2>2, <2>3
<1>5. ASSUME cache' \in {cache, disk, Unset}, disk' = disk,
             \/ step' \notin {"respond", "record"}
             \/ step \in {"respond", "record"} /\ changes' = changes
      PROVE  /\ cache'[v] # NoValue => Pushed(versions', v, cache'[v])
             /\ disk'[v] # NoValue => Pushed(versions', v, disk'[v])
             /\ step' \in {"respond", "record"} /\ changes'[v] # NoValue
                  => Pushed(versions', v, changes'[v])
  BY <1>1, <1>2, <1>5
<1>6. CASE \/ StartCheck \/ ReadSubmission \/ ReadDeployment \/ Respond \/ LoseResponse
           \/ Fail \/ Crash
           \/ \E w \in Vars : Resolve(w) \/ ResolveFails(w)
  BY <1>5, <1>6 DEF StartCheck, ReadSubmission, ReadDeployment, Respond, LoseResponse, Fail,
                    Crash, Resolve, ResolveFails, AfterResolving, EndCheck, cacheVars
<1>7. CASE \/ Discover \/ Restart \/ DeploymentSucceeds \/ DeploymentFails
           \/ OperatorRegisters \/ (\E w \in Vars : Publish(w) \/ Withdraw(w)) \/ UNCHANGED vars
  BY <1>5, <1>7 DEF Discover, Restart, DeploymentSucceeds, DeploymentFails,
                    OperatorRegisters, Publish, Withdraw, vars, checkVars, cacheVars
<1> QED
  BY <1>3, <1>4, <1>6, <1>7 DEF Next, Check, Environment

LEMMA StepReads ==
    ASSUME TypeOK, ~OperatorActs, ReadsLastUpdate, [Next]_vars
    PROVE  ReadsLastUpdate'
<1> DEFINE Checking == {"resolving", "deployment", "register"}
<1>1. CASE ReadSubmission
  <2>1. versions' = versions
    BY <1>1 DEF ReadSubmission, nomadVars
  <2>2. CASE step' = "resolving" /\ read' = Len(versions)
    BY <2>1, <2>2 DEF ReadsLastUpdate
  <2>3. CASE EndCheck
    BY <2>3 DEF EndCheck, ReadsLastUpdate
  <2> QED
    BY <1>1, <2>2, <2>3 DEF ReadSubmission
<1>2. CASE step' \notin Checking
  BY <1>2 DEF ReadsLastUpdate
<1>3. CASE step \in Checking /\ step' \in Checking /\ read' = read
  <2>1. CASE versions' = versions
    BY <1>3, <2>1 DEF ReadsLastUpdate
  <2>2. CASE versions' # versions
    <3>1. ~Register
      BY <1>3 DEF Register
    <3> QED
      BY <1>3, <2>2, <3>1, Growth DEF ReadsLastUpdate
  <2> QED
    BY <2>1, <2>2
<1>4. CASE UNCHANGED checkVars /\ step \in Checking
  BY <1>3, <1>4 DEF checkVars
<1> QED
  BY <1>1, <1>2, <1>3, <1>4
     DEF Next, Check, Environment, Discover, StartCheck, Resolve, ResolveFails,
         AfterResolving, ReadDeployment, Register, Respond, LoseResponse, Record, Fail,
         Crash, Restart, Publish, Withdraw, DeploymentSucceeds, DeploymentFails, OperatorRegisters,
         EndCheck, vars, checkVars

\* What lies between an update and a version that a check has read: seen from
\* the version, the variable has not gone back, or Nomad took its value back.
LEMMA SinceUpdate ==
    ASSUME TypeOK, OperatorFirst, ReadsLastUpdate, Progress,
           step \in {"resolving", "register"},
           NEW m \in 1 .. Len(versions), versions[m].by = "updater", NEW v \in Vars
    PROVE  /\ read \in 1 .. Len(versions) /\ m <= read
           /\ \/ versions[read].flags[v] >= versions[m].flags[v]
              \/ RevertedIn(versions, v, versions[m].flags[v])
<1>1. read \in 1 .. Len(versions) /\ m <= read /\ m \in Nat /\ read \in Nat
  BY DEF TypeOK, ReadsLastUpdate
<1>2. versions[read].flags[v] \in Nat /\ versions[m].flags[v] \in Nat
  BY <1>1, Numbers
<1>3. CASE m = read
  BY <1>1, <1>2, <1>3
<1>4. CASE m < read /\ versions[read].by = "updater"
  BY <1>1, <1>4 DEF Progress
<1>5. CASE m < read /\ versions[read].by = "nomad"
  <2>1. CASE versions[read].flags[v] = versions[m].flags[v]
    BY <1>1, <1>2, <2>1
  <2>2. CASE versions[read].flags[v] # versions[m].flags[v]
    BY <1>1, <1>5, <2>2 DEF RevertedIn
  <2> QED
    BY <2>1, <2>2, <1>1
<1>6. CASE m < read /\ versions[read].by = "operator"
  <2>1. read = 1
    BY <1>1, <1>6 DEF OperatorFirst
  <2> QED
    BY <1>6, <2>1
<1>7. versions[read].by \in Authors
  <2>1. versions[read] \in Versions
    BY <1>1 DEF TypeOK
  <2> QED
    BY <2>1, VersionFields
<1> QED
  BY <1>1, <1>3, <1>4, <1>5, <1>6, <1>7 DEF Authors

LEMMA StepProgress ==
    ASSUME TypeOK, ~OperatorActs, OperatorFirst, VersionsBehind, ReadsLastUpdate, Progress,
           [Next]_vars
    PROVE  Progress'
<1> SUFFICES ASSUME NEW m \in 1 .. Len(versions'), NEW n \in 1 .. Len(versions'),
                    NEW v \in Vars, m < n,
                    versions'[m].by = "updater", versions'[n].by = "updater"
             PROVE  \/ versions'[n].flags[v] >= versions'[m].flags[v]
                    \/ RevertedIn(versions', v, versions'[m].flags[v])
  BY DEF Progress
<1>1. CASE n \in 1 .. Len(versions)
  <2>1. m \in 1 .. Len(versions)
    BY <1>1
  <2>2. versions'[m] = versions[m] /\ versions'[n] = versions[n]
    BY <1>1, <2>1, VersionsStay
  <2>3. \/ versions[n].flags[v] >= versions[m].flags[v]
        \/ RevertedIn(versions, v, versions[m].flags[v])
    BY <1>1, <2>1, <2>2 DEF Progress
  <2>4. versions[m].flags[v] \in Values
    BY <2>1, FlagsAreValues
  <2> QED
    BY <2>2, <2>3, <2>4, HistoryStays
<1>2. CASE n \notin 1 .. Len(versions)
  <2>0. versions' # versions
    BY <1>2
  <2>1. /\ Len(versions) \in Nat /\ Len(versions') = Len(versions) + 1
        /\ \A k \in 1 .. Len(versions) : versions'[k] = versions[k]
    BY <2>0, Growth
  <2>2. n = Len(versions) + 1 /\ m \in 1 .. Len(versions)
    BY <1>2, <2>1
  <2>3. /\ step = "register"
        /\ versions'[n].flags[v] =
             IF changes[v] # NoValue THEN changes[v] ELSE versions[read].flags[v]
    BY <2>0, <2>2, Growth
  <2>4. versions'[m] = versions[m]
    BY <2>1, <2>2
  <2>5. CASE changes[v] # NoValue
    <3>1. versions[m].flags[v] <= changes[v]
      BY <2>2, <2>3, <2>5 DEF VersionsBehind
    <3>2. versions[m].flags[v] \in Nat /\ changes[v] \in Nat
      BY <2>2, Numbers
    <3> QED
      BY <2>3, <2>4, <2>5, <3>1, <3>2
  <2>6. CASE changes[v] = NoValue
    <3>1. \/ versions[read].flags[v] >= versions[m].flags[v]
          \/ RevertedIn(versions, v, versions[m].flags[v])
      BY <2>2, <2>3, <2>4, SinceUpdate
    <3>2. versions[m].flags[v] \in Values
      BY <2>2, FlagsAreValues
    <3>3. RevertedIn(versions, v, versions[m].flags[v])
            => RevertedIn(versions', v, versions[m].flags[v])
      BY <3>2, HistoryStays
    <3> QED
      BY <2>3, <2>4, <2>6, <3>1, <3>3
  <2> QED
    BY <2>5, <2>6
<1> QED
  BY <1>1, <1>2

\* What a check holds back was pushed; the version that it has read goes back
\* behind it, which only Nomad can have done.
LEMMA HeldBack ==
    ASSUME TypeOK, HeldInv
    PROVE  HeldBackOnlyIfReverted
<1> DEFINE r == latest[pos]
<1> SUFFICES ASSUME step = "resolving", versions[read].flags[pos] # r, AlreadyApplied(pos, r)
             PROVE  RevertedIn(versions, pos, r)
  BY DEF HeldBackOnlyIfReverted, Reverted, RevertedIn
<1>1. pos \in Vars /\ r \in Nat /\ r > 0 /\ cache[pos] = r
  BY Numbers DEF TypeOK, AlreadyApplied
<1>2. PICK m \in 1 .. Len(versions) : versions[m].by = "updater" /\ versions[m].flags[pos] = r
  <2>1. cache[pos] # NoValue
    BY <1>1 DEF NoValue
  <2> HIDE DEF r
  <2> QED
    BY <1>1, <2>1 DEF HeldInv, RecordsPushed, Pushed
<1>3. /\ read \in 1 .. Len(versions)
      /\ versions[read].flags[pos] >= r \/ RevertedIn(versions, pos, r)
  BY <1>1, <1>2, SinceUpdate DEF HeldInv
<1>4. versions[read].flags[pos] <= r /\ versions[read].flags[pos] \in Nat
  BY <1>1, <1>3, Numbers DEF HeldInv, VersionsBehind
<1> QED
  BY <1>1, <1>3, <1>4

\* A check holds back a release only when Nomad has reverted that very release,
\* for any number of variables, releases and versions, with kills at any step,
\* lost responses and failing files, as long as no operator acts.
THEOREM HeldBackCorrect ==
    ASSUME ~OperatorActs, ~SourcesGoBack
    PROVE  Spec => []HeldBackOnlyIfReverted
<1>1. Init => HeldInv
  <2> SUFFICES ASSUME Init PROVE HeldInv
    OBVIOUS
  <2>1. PICK src \in OptedIn \cap Retained, stamp \in Stamps :
          versions = <<[src |-> src, flags |-> [v \in Vars |-> 1],
                        meta |-> SrcMeta(src) \cup stamp, by |-> "operator", from |-> 0]>>
    BY DEF Init
  <2>2. /\ Len(versions) = 1 /\ versions[1].by = "operator"
        /\ \A v \in Vars : versions[1].flags[v] = 1
    BY <2>1
  <2>3. \A v \in Vars : /\ latest[v] = 1 /\ changes[v] = NoValue
                        /\ cache[v] = NoValue /\ disk[v] = NoValue
    BY DEF Init, Unset
  <2>4. step = "idle"
    BY DEF Init
  <2>5. OperatorFirst /\ Progress
    BY <2>2 DEF OperatorFirst, Progress
  <2>6. VersionsBehind
    BY <2>2, <2>3 DEF VersionsBehind, NoValue
  <2>7. RecordsPushed /\ ReadsLastUpdate
    BY <2>3, <2>4 DEF RecordsPushed, ReadsLastUpdate
  <2> QED
    BY <2>5, <2>6, <2>7 DEF HeldInv
<1>2. TypeOK /\ TypeOK' /\ HeldInv /\ [Next]_vars => HeldInv'
  BY StepOperatorFirst, StepBehind, StepPushed, StepReads, StepProgress DEF HeldInv
<1>3. TypeOK /\ HeldInv => HeldBackOnlyIfReverted
  BY HeldBack
<1> QED
  BY <1>1, <1>2, <1>3, TypeCorrect, PTL DEF Spec
=============================================================================
