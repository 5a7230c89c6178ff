-------------------------- MODULE CoordinatorProofs --------------------------
(***************************************************************************)
(* Proofs about Coordinator, for any jobs and releases: the checks use the *)
(* cache as VersionCache says, so that what CacheProofs proves of it holds *)
(* in the whole process, the release recorded last for a job is not        *)
(* registered again, and a single pass visits what it has listed, once.    *)
(***************************************************************************)
EXTENDS Coordinator, CacheProofs

\* The types of what the checks work with.
CheckTypes ==
    /\ step \in [Jobs -> Steps]
    /\ read \in [Jobs -> Values \cup {NoValue}]
    /\ want \in [Jobs -> Values \cup {NoValue}]

\* There are no checks but in a running process, and only a saving one is in
\* saveLocked.
ChecksInProcess ==
    /\ up <=> main # "down"
    /\ ~up => AllIdle
    /\ \A j \in Jobs : at[j] # "out" => step[j] = "saving"

\* What a check is about to register is a release, and not the one recorded last.
WantIsNew ==
    \A j \in Jobs :
        /\ step[j] \in {"asking", "registering", "responding", "recording"}
             => want[j] \in Values
        /\ step[j] = "registering" => want[j] \notin {applied[j], acked[j]}

\* The types of what main works with.
MainTypes ==
    /\ once \in BOOLEAN
    /\ main \in (IF once THEN {"down", "listing", "looping"} ELSE {"down", "serving"})
    /\ cancelled \in BOOLEAN
    /\ managed \subseteq Jobs
    /\ todo \subseteq Jobs
    /\ checked \subseteq Jobs

\* What a single pass has listed is checked or still to do, not both.
Visited ==
    /\ checked \cup todo = managed
    /\ checked \cap todo = {}
    /\ main # "looping" => checked = {}

\* The mutex is held by a call that is in saveLocked.
LockInUse == \A j \in Jobs : mu = j => at[j] # "out"

IInv ==
    /\ CacheIInv
    /\ CheckTypes
    /\ ChecksInProcess
    /\ WantIsNew
    /\ MainTypes
    /\ Visited
    /\ LockInUse

----------------------------------------------------------------------------
(* The process uses the cache as VersionCache says                         *)

\* Every step is a step of the cache or leaves it alone.
LEMMA StepOfCache ==
    ASSUME WantIsNew, [Next]_vars
    PROVE  [CacheNext]_cacheVars
<1>1. CASE Start
  BY <1>1 DEF Start, CacheNext
<1>2. CASE Kill \/ ExitServing \/ ExitOnce
  BY <1>2 DEF Kill, ExitServing, ExitOnce, Down, CacheNext
<1>3. CASE Cancel \/ ListOnce \/ CheckNext
  BY <1>3 DEF Cancel, ListOnce, CheckNext
<1>4. ASSUME NEW j \in Jobs, StartCheck(j)
      PROVE  UNCHANGED cacheVars
  BY <1>4 DEF StartCheck
<1>5. ASSUME NEW j \in Jobs, CheckStep(j)
      PROVE  [CacheNext]_cacheVars
  <2>1. CASE Record(j)
    BY <2>1 DEF Record, WantIsNew, CacheNext, Jobs
  <2>2. CASE Save(j)
    BY <2>2 DEF Save, CacheNext, Jobs
  <2>3. CASE \/ Read(j) \/ Resolve(j) \/ Ask(j) \/ Register(j) \/ Respond(j)
             \/ CheckReturns(j) \/ Fail(j)
    BY <2>3 DEF Read, Resolve, Ask, Register, Respond, CheckReturns, Fail
  <2> QED
    BY <1>5, <2>1, <2>2, <2>3 DEF CheckStep
<1>6. CASE UNCHANGED vars
  BY <1>6 DEF vars
<1> QED
  BY <1>1, <1>2, <1>3, <1>4, <1>5, <1>6 DEF Next

\* The invariant of the cache is kept.
LEMMA StepCache ==
    ASSUME CacheIInv, WantIsNew, [Next]_vars
    PROVE  CacheIInv'
BY StepOfCache, StepTypes, StepLock, StepNeedsFile, StepAcked DEF CacheIInv

----------------------------------------------------------------------------
(* The checks                                                              *)

\* A check that returns is idle and nothing else changes.
LEMMA EndCheckEffect ==
    ASSUME CheckTypes, NEW j \in Jobs, EndCheck(j)
    PROVE  /\ step' \in [Jobs -> Steps] /\ step'[j] = "idle"
           /\ read' \in [Jobs -> Values \cup {NoValue}]
           /\ want' \in [Jobs -> Values \cup {NoValue}]
           /\ \A i \in Jobs \ {j} : step'[i] = step[i] /\ want'[i] = want[i]
BY DEF CheckTypes, EndCheck, To, Steps

\* The process's steps keep the types of the checks.
LEMMA StepCheckTypes ==
    ASSUME CheckTypes, WantIsNew, [Next]_vars
    PROVE  CheckTypes'
<1>1. CASE Start \/ Cancel \/ ListOnce
  BY <1>1 DEF Start, Cancel, ListOnce, CheckTypes, checkVars
<1>2. CASE Kill \/ ExitServing \/ ExitOnce
  BY <1>2 DEF Kill, ExitServing, ExitOnce, Down, CheckTypes, Steps
<1>3. CASE CheckNext
  BY <1>3 DEF CheckNext, CheckTypes, Steps
<1>4. ASSUME NEW j \in Jobs, StartCheck(j)
      PROVE  CheckTypes'
  BY <1>4 DEF StartCheck, To, CheckTypes, Steps
<1>5. ASSUME NEW j \in Jobs, CheckStep(j)
      PROVE  CheckTypes'
  <2>1. CASE Read(j)
    BY <2>1 DEF Read, To, CheckTypes, Steps
  <2>2. CASE Resolve(j)
    <3>1. CASE EndCheck(j)
      BY <2>2, <3>1, EndCheckEffect DEF Resolve, CheckTypes
    <3>2. ASSUME NEW r \in Values, want' = [want EXCEPT ![j] = r], To(j, "asking"),
                 UNCHANGED read
          PROVE  CheckTypes'
      BY <2>2, <3>2 DEF Resolve, To, CheckTypes, Steps
    <3> QED
      BY <2>2, <3>1, <3>2 DEF Resolve
  <2>7. CASE Ask(j)
    <3>1. CASE EndCheck(j)
      BY <2>7, <3>1, EndCheckEffect DEF Ask, CheckTypes
    <3>2. CASE To(j, "registering") /\ UNCHANGED <<read, want>>
      BY <2>7, <3>2 DEF Ask, To, CheckTypes, Steps
    <3> QED
      BY <2>7, <3>1, <3>2 DEF Ask
  <2>3. CASE Register(j)
    BY <2>3 DEF Register, To, WantIsNew, CheckTypes, Steps
  <2>4. CASE Respond(j) \/ Record(j)
    BY <2>4 DEF Respond, Record, To, CheckTypes, Steps
  <2>5. CASE Save(j)
    BY <2>5 DEF Save, CheckTypes, checkVars
  <2>6. CASE CheckReturns(j) \/ Fail(j)
    BY <2>6, EndCheckEffect DEF CheckReturns, Fail, CheckTypes
  <2> QED
    BY <1>5, <2>1, <2>2, <2>3, <2>4, <2>5, <2>6, <2>7 DEF CheckStep
<1>6. CASE UNCHANGED vars
  BY <1>6 DEF vars, checkVars, CheckTypes
<1> QED
  BY <1>1, <1>2, <1>3, <1>4, <1>5, <1>6 DEF Next

\* The process's steps keep the checks in the process and the saves in checks.
LEMMA StepInProcess ==
    ASSUME CacheTypeOK, CheckTypes, ChecksInProcess, [Next]_vars
    PROVE  ChecksInProcess'
<1>1. CASE Start
  BY <1>1 DEF Start, Load, LoadFails, ChecksInProcess, AllIdle, checkVars, callVars
<1>2. CASE Kill \/ ExitServing \/ ExitOnce
  BY <1>2 DEF Kill, ExitServing, ExitOnce, Down, Halt, ChecksInProcess, AllIdle, Jobs
<1>3. CASE Cancel \/ ListOnce
  BY <1>3 DEF Cancel, ListOnce, ChecksInProcess, AllIdle, cacheVars, callVars, checkVars
<1>4. CASE CheckNext
  BY <1>4 DEF CheckNext, ChecksInProcess, AllIdle, cacheVars, callVars
<1>5. ASSUME NEW j \in Jobs, StartCheck(j)
      PROVE  ChecksInProcess'
  BY <1>5 DEF StartCheck, To, ChecksInProcess, AllIdle, CheckTypes, cacheVars, callVars,
             mainVars
<1>6. ASSUME NEW j \in Jobs, CheckStep(j)
      PROVE  ChecksInProcess'
  <2>1. ASSUME step[j] \notin {"idle", "saving"}, UNCHANGED <<cacheVars, mainVars>>,
               step' \in [Jobs -> Steps], \A i \in Jobs \ {j} : step'[i] = step[i]
        PROVE  ChecksInProcess'
    BY <2>1 DEF ChecksInProcess, AllIdle, cacheVars, callVars, mainVars
  <2>2. CASE Read(j) \/ Register(j) \/ Respond(j)
    BY <2>1, <2>2 DEF Read, Register, Respond, To, CheckTypes, Steps
  <2>3. CASE Resolve(j)
    <3>1. CASE EndCheck(j)
      BY <2>1, <2>3, <3>1, EndCheckEffect DEF Resolve
    <3>2. CASE To(j, "asking")
      BY <2>1, <2>3, <3>2 DEF Resolve, To, CheckTypes, Steps
    <3> QED
      BY <2>3, <3>1, <3>2 DEF Resolve
  <2>8. CASE Ask(j)
    <3>1. CASE EndCheck(j)
      BY <2>1, <2>8, <3>1, EndCheckEffect DEF Ask
    <3>2. CASE To(j, "registering")
      BY <2>1, <2>8, <3>2 DEF Ask, To, CheckTypes, Steps
    <3> QED
      BY <2>8, <3>1, <3>2 DEF Ask
  <2>4. CASE Fail(j)
    BY <2>1, <2>4, EndCheckEffect DEF Fail
  <2>5. CASE CheckReturns(j)
    BY <2>5, EndCheckEffect DEF CheckReturns, ChecksInProcess, AllIdle, cacheVars, callVars,
             mainVars
  <2>6. CASE Record(j)
    <3>1. \A i \in Jobs \ {j} : at'[i] = at[i]
      BY <2>6 DEF Record, Set, CacheTypeOK, Jobs
    <3>2. up' = up /\ main' = main /\ up
      BY <2>6 DEF Record, Set, mainVars
    <3>3. step' = [step EXCEPT ![j] = "saving"]
      BY <2>6 DEF Record, To
    <3> QED
      BY <3>1, <3>2, <3>3 DEF ChecksInProcess, CheckTypes
  <2>7. CASE Save(j)
    <3>1. /\ \A i \in Jobs \ {j} : at'[i] = at[i]
          /\ at[j] # "out"
          /\ up' = up
      BY <2>7 DEF Save, SaveStep, CreateTemp, Write, Rename, SaveFails, Return, CacheTypeOK,
                  Jobs
    <3>2. main' = main /\ step' = step
      BY <2>7 DEF Save, mainVars, checkVars
    <3> QED
      BY <3>1, <3>2 DEF ChecksInProcess, AllIdle
  <2> QED
    BY <1>6, <2>2, <2>3, <2>4, <2>5, <2>6, <2>7, <2>8 DEF CheckStep
<1>7. CASE UNCHANGED vars
  BY <1>7 DEF vars, cacheVars, callVars, mainVars, checkVars, ChecksInProcess, AllIdle
<1> QED
  BY <1>1, <1>2, <1>3, <1>4, <1>5, <1>6, <1>7 DEF Next

\* A check that decides to register asks the cache, which has what was recorded
\* and what was saved; and only the check of the job itself changes either.
LEMMA StepNew ==
    ASSUME IInv, [Next]_vars
    PROVE  WantIsNew'
<1> USE DEF IInv
<1>0. ASSUME UNCHANGED <<step, want, applied, acked>>
      PROVE  WantIsNew'
  BY <1>0 DEF WantIsNew
<1>1. ASSUME \A j \in Jobs : step'[j] \in {"idle", "reading"}
      PROVE  WantIsNew'
  BY <1>1 DEF WantIsNew
<1>2. CASE Start
  <2>1. \A j \in Jobs : step'[j] = "idle"
    BY <1>2 DEF Start, Load, LoadFails, ChecksInProcess, AllIdle, checkVars
  <2> QED
    BY <1>1, <2>1
<1>3. CASE Kill \/ ExitServing \/ ExitOnce
  BY <1>1, <1>3 DEF Kill, ExitServing, ExitOnce, Down
<1>4. CASE Cancel \/ ListOnce
  BY <1>0, <1>4 DEF Cancel, ListOnce, cacheVars, checkVars
<1>5. CASE CheckNext
  BY <1>1, <1>5 DEF CheckNext, AllIdle, CheckTypes
<1>6. ASSUME NEW j \in Jobs, StartCheck(j)
      PROVE  WantIsNew'
  BY <1>6 DEF StartCheck, To, WantIsNew, CheckTypes, cacheVars
<1>7. ASSUME NEW j \in Jobs, CheckStep(j)
      PROVE  WantIsNew'
  <2>1. CASE Read(j) \/ Register(j) \/ Respond(j)
    BY <2>1 DEF Read, Register, Respond, To, WantIsNew, CheckTypes, cacheVars
  <2>2. CASE Resolve(j)
    <3>1. CASE EndCheck(j)
      BY <2>2, <3>1, EndCheckEffect DEF Resolve, WantIsNew, cacheVars
    <3>2. ASSUME NEW r \in Values, want' = [want EXCEPT ![j] = r], To(j, "asking")
          PROVE  WantIsNew'
      BY <2>2, <3>2 DEF Resolve, To, WantIsNew, CheckTypes, cacheVars
    <3> QED
      BY <2>2, <3>1, <3>2 DEF Resolve
  <2>6. CASE Ask(j)
    <3>1. CASE EndCheck(j)
      BY <2>6, <3>1, EndCheckEffect DEF Ask, WantIsNew, cacheVars
    <3>2. ASSUME NEW prev \in Values \cup {NoValue}, Get(j, prev), want[j] # prev,
                 To(j, "registering"), UNCHANGED want
          PROVE  WantIsNew'
      <4>1. want[j] # applied[j]
        BY <3>2 DEF Get
      <4>2. up /\ want[j] \in Values
        BY <2>6 DEF Ask, ChecksInProcess, AllIdle, WantIsNew
      <4>3. want[j] # acked[j]
        BY <4>1, <4>2, CacheAssumption DEF CacheIInv, AckedOnFile, Jobs
      <4> QED
        BY <2>6, <3>2, <4>1, <4>2, <4>3 DEF Ask, To, WantIsNew, CheckTypes, cacheVars
    <3> QED
      BY <2>6, <3>1, <3>2 DEF Ask
  <2>3. CASE Fail(j) \/ CheckReturns(j)
    BY <2>3, EndCheckEffect DEF Fail, CheckReturns, WantIsNew, cacheVars
  <2>4. CASE Record(j)
    <3>1. \A i \in Jobs \ {j} : applied'[i] = applied[i] /\ acked'[i] = acked[i]
      BY <2>4 DEF Record, Set, CacheIInv, CacheTypeOK, Records, Jobs
    <3>2. step' = [step EXCEPT ![j] = "saving"] /\ want' = want
      BY <2>4 DEF Record, To
    <3> QED
      BY <3>1, <3>2 DEF WantIsNew, CheckTypes
  <2>5. CASE Save(j)
    <3>1. at[j] # "out"
      BY <2>5 DEF Save, SaveStep, CreateTemp, Write, Rename, SaveFails
    <3>2. \A i \in Jobs \ {j} : applied'[i] = applied[i] /\ acked'[i] = acked[i]
      BY <2>5 DEF Save, SaveStep, CreateTemp, Write, Rename, SaveFails, CacheIInv,
                  CacheTypeOK, Records, Jobs
    <3>3. step[j] = "saving" /\ step' = step /\ want' = want
      BY <2>5, <3>1 DEF Save, checkVars, ChecksInProcess
    <3> QED
      BY <3>2, <3>3 DEF WantIsNew
  <2> QED
    BY <1>7, <2>1, <2>2, <2>3, <2>4, <2>5, <2>6 DEF CheckStep
<1>8. CASE UNCHANGED vars
  BY <1>0, <1>8 DEF vars, cacheVars, checkVars
<1> QED
  BY <1>2, <1>3, <1>4, <1>5, <1>6, <1>7, <1>8 DEF Next

----------------------------------------------------------------------------
(* main                                                                    *)

\* The process's steps keep the types of main.
LEMMA StepMainTypes ==
    ASSUME MainTypes, [Next]_vars
    PROVE  MainTypes'
<1>1. CASE Start
  BY <1>1 DEF Start, MainTypes
<1>2. CASE Kill \/ ExitServing \/ ExitOnce
  BY <1>2 DEF Kill, ExitServing, ExitOnce, Down, MainTypes
<1>3. CASE Cancel
  BY <1>3 DEF Cancel, MainTypes
<1>4. CASE ListOnce
  BY <1>4 DEF ListOnce, MainTypes
<1>5. CASE CheckNext
  BY <1>5 DEF CheckNext, MainTypes
<1>6. ASSUME NEW j \in Jobs, StartCheck(j) \/ CheckStep(j)
      PROVE  UNCHANGED mainVars
  BY <1>6 DEF StartCheck, CheckStep, Read, Resolve, Ask, Register, Respond, Record,
              Save, CheckReturns, Fail
<1>7. CASE UNCHANGED mainVars
  BY <1>7 DEF mainVars, MainTypes
<1> QED
  BY <1>1, <1>2, <1>3, <1>4, <1>5, <1>6, <1>7 DEF Next, vars

\* The loop of runOnce takes a key from what is to do to what is checked, and
\* nothing else does until the process is gone.
LEMMA StepVisited ==
    ASSUME Visited, ChecksInProcess, [Next]_vars
    PROVE  Visited'
<1>1. CASE Start
  BY <1>1 DEF Start, Visited, ChecksInProcess, Load, LoadFails
<1>2. CASE Kill \/ ExitServing \/ ExitOnce
  BY <1>2 DEF Kill, ExitServing, ExitOnce, Down, Visited
<1>3. CASE Cancel
  BY <1>3 DEF Cancel, Visited
<1>4. CASE ListOnce
  BY <1>4 DEF ListOnce, Visited
<1>5. CASE CheckNext
  <2>1. PICK j \in todo : checked' = checked \cup {j} /\ todo' = todo \ {j}
    BY <1>5 DEF CheckNext
  <2>2. main' = "looping" /\ managed' = managed
    BY <1>5 DEF CheckNext
  <2> QED
    BY <2>1, <2>2 DEF Visited
<1>6. ASSUME NEW j \in Jobs, StartCheck(j) \/ CheckStep(j)
      PROVE  UNCHANGED mainVars
  BY <1>6 DEF StartCheck, CheckStep, Read, Resolve, Ask, Register, Respond, Record,
              Save, CheckReturns, Fail
<1>7. CASE UNCHANGED mainVars
  BY <1>7 DEF mainVars, Visited
<1> QED
  BY <1>1, <1>2, <1>3, <1>4, <1>5, <1>6, <1>7 DEF Next, vars

\* set gives the mutex back when it leaves saveLocked, however it leaves it.
LEMMA StepLockInUse ==
    ASSUME CacheTypeOK, LockInUse, [CacheNext]_cacheVars
    PROVE  LockInUse'
<1> USE CacheAssumption DEF Jobs
<1>1. ASSUME NEW e \in Entries, NEW x \in Values, Set(e, x)
      PROVE  LockInUse'
  BY <1>1 DEF Set, CacheTypeOK, LockInUse
<1>2. ASSUME NEW e \in Entries, CreateTemp(e) \/ Write(e)
      PROVE  LockInUse'
  BY <1>2 DEF CreateTemp, Write, CacheTypeOK, LockInUse
<1>3. ASSUME NEW e \in Entries, Rename(e) \/ SaveFails(e)
      PROVE  LockInUse'
  BY <1>3 DEF Rename, SaveFails, Return, LockInUse
<1>4. CASE Load \/ LoadFails
  BY <1>4 DEF Load, LoadFails, callVars, LockInUse
<1>5. CASE Halt
  BY <1>5 DEF Halt, LockInUse
<1>6. CASE UNCHANGED cacheVars
  BY <1>6 DEF cacheVars, callVars, LockInUse
<1> QED
  BY <1>1, <1>2, <1>3, <1>4, <1>5, <1>6 DEF CacheNext, SaveStep

----------------------------------------------------------------------------

\* The first process starts from nothing.
LEMMA InitInv == Init => IInv
<1> SUFFICES ASSUME Init PROVE IInv
  OBVIOUS
<1>1. CacheIInv
  BY InitTypes DEF Init, CacheInit, CacheIInv, SavingHoldsLock, AckedNeedsFile, AckedOnFile,
                  Blank
<1>2. CheckTypes
  BY DEF Init, CheckTypes, Steps
<1>3. ChecksInProcess /\ WantIsNew
  BY DEF Init, CacheInit, ChecksInProcess, AllIdle, WantIsNew, Jobs
<1>4. MainTypes /\ Visited
  BY DEF Init, MainTypes, Visited
<1>5. LockInUse
  BY CacheAssumption DEF Init, CacheInit, LockInUse, Jobs
<1> QED
  BY <1>1, <1>2, <1>3, <1>4, <1>5 DEF IInv

\* The inductive invariant holds in every state.
THEOREM CoordinatorInvariant == Spec => []IInv
<1>1. IInv /\ [Next]_vars => IInv'
  <2> SUFFICES ASSUME IInv, [Next]_vars
               PROVE  IInv'
    OBVIOUS
  <2>1. CacheIInv' /\ CheckTypes' /\ ChecksInProcess' /\ WantIsNew'
    BY StepCache, StepCheckTypes, StepInProcess, StepNew DEF IInv, CacheIInv
  <2>2. MainTypes' /\ Visited'
    BY StepMainTypes, StepVisited DEF IInv
  <2>3. LockInUse'
    BY StepOfCache, StepLockInUse DEF IInv, CacheIInv
  <2> QED
    BY <2>1, <2>2, <2>3 DEF IInv
<1> QED
  BY <1>1, InitInv, PTL DEF Spec

\* The whole process uses the cache as VersionCache says: of any jobs, serving
\* or in a single pass, whatever fails and whenever it is killed.
THEOREM UsesCache == Spec => CacheSpec
<1>1. Init => CacheInit
  BY DEF Init
<1>2. IInv /\ [Next]_vars => [CacheNext]_cacheVars
  BY StepOfCache DEF IInv
<1> QED
  BY <1>1, <1>2, CoordinatorInvariant, PTL DEF Spec, CacheSpec

\* In the whole process, what was saved stays.
THEOREM SavedStays == Spec => []AckedOnFile
BY UsesCache, AckedSurvives, PTL

\* In the whole process, the file is only ever replaced by the map.
THEOREM ProcessKeepsDurableMap == Spec => ImplementsDurableMap
BY UsesCache, CacheRefinement, PTL

\* No check registers the release that was recorded last for its job, nor the one
\* that was saved last, for any number of jobs and releases.
THEOREM LastRecordCorrect == Spec => LastRecordNotPushed
<1>1. IInv /\ [Next]_vars
        => [\A j \in Jobs : Register(j) => want[j] \notin {applied[j], acked[j]}]_vars
  BY DEF IInv, WantIsNew, Register
<1> QED
  BY <1>1, CoordinatorInvariant, PTL DEF Spec, LastRecordNotPushed

\* The types of the whole process, for any jobs: the process is up exactly
\* when main is somewhere, and only a saving check is in saveLocked.
THEOREM TypeCorrect == Spec => []TypeOK
<1>1. IInv => TypeOK
  BY DEF IInv, CacheIInv, MainTypes, CheckTypes, ChecksInProcess, TypeOK
<1> QED
  BY <1>1, CoordinatorInvariant, PTL

\* While it loops, a single pass starts the check of what is still to do.
LEMMA StartsNext ==
    ASSUME IInv, [Next]_vars, NEW j \in checked, step[j] = "idle"
    PROVE  step'[j] = "idle"
<1> USE DEF IInv
<1>0. j \in Jobs /\ j \notin todo /\ main = "looping"
  BY DEF Visited, MainTypes
<1>1. CASE Start \/ Cancel \/ ListOnce
  BY <1>1 DEF Start, Cancel, ListOnce, checkVars
<1>2. CASE Kill \/ ExitServing \/ ExitOnce
  BY <1>0, <1>2 DEF Kill, ExitServing, ExitOnce, Down
<1>3. CASE CheckNext
  <2>1. PICK i \in todo : step' = [step EXCEPT ![i] = "reading"]
    BY <1>3 DEF CheckNext
  <2> QED
    BY <1>0, <2>1 DEF CheckTypes
<1>4. ASSUME NEW i \in Jobs, StartCheck(i)
      PROVE  step'[j] = "idle"
  BY <1>0, <1>4 DEF StartCheck
<1>5. ASSUME NEW i \in Jobs, CheckStep(i)
      PROVE  step'[j] = "idle"
  <2>1. CASE i = j
    BY <1>5, <2>1 DEF CheckStep, Read, Resolve, Ask, Register, Respond, Record, Save,
                      CheckReturns, Fail, checkVars
  <2>2. CASE i # j
    BY <1>0, <1>5, <2>2 DEF CheckStep, Read, Resolve, Ask, Register, Respond, Record, Save,
                      CheckReturns, Fail, checkVars, To, EndCheck, CheckTypes
  <2> QED
    BY <2>1, <2>2
<1>6. CASE UNCHANGED vars
  BY <1>6 DEF vars, checkVars
<1> QED
  BY <1>1, <1>2, <1>3, <1>4, <1>5, <1>6 DEF Next

\* A single pass over any number of jobs visits all that it has listed, each of
\* them once, unless it is cancelled, and leaves no save under way.
THEOREM OnceCovers == Spec => OnceCoversManaged
<1>1. ASSUME IInv, ExitOnce
      PROVE  AllIdle /\ mu = Unlocked /\ (cancelled \/ checked = managed)
  <2>1. AllIdle /\ (todo = {} \/ cancelled)
    BY <1>1 DEF ExitOnce, OnceOver
  <2>2. \A j \in Jobs : at[j] = "out"
    BY <1>1, <2>1 DEF AllIdle, IInv, ChecksInProcess
  <2>3. mu = Unlocked
    BY <1>1, <2>2 DEF IInv, LockInUse, CacheIInv, CacheTypeOK, Jobs
  <2> QED
    BY <1>1, <2>1, <2>3 DEF IInv, Visited
<1>2. IInv /\ [Next]_vars
        => [/\ \A j \in checked : step[j] = "idle" => step'[j] = "idle"
            /\ ExitOnce => AllIdle /\ mu = Unlocked /\ (cancelled \/ checked = managed)]_vars
  BY <1>1, StartsNext
<1> QED
  BY <1>2, CoordinatorInvariant, PTL DEF Spec, OnceCoversManaged
=============================================================================
