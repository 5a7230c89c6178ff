----------------------------- MODULE CacheProofs -----------------------------
(***************************************************************************)
(* Proofs about VersionCache, for any entries and values, with and without *)
(* a cache file and with and without failing system calls.                 *)
(***************************************************************************)
EXTENDS VersionCache, TLAPS

\* A call that is saving holds the mutex, so that the map is still what it has
\* marshalled; what it renames is complete.
SavingHoldsLock ==
    \A e \in Entries :
        /\ at[e] # "out" => up /\ Persist /\ mu = e /\ data[e] = applied
        /\ at[e] = "rename" => tmp[e] = data[e]

\* Without a cache file nothing is ever saved.
AckedNeedsFile == Persist \/ acked = Blank

CacheIInv ==
    /\ CacheTypeOK
    /\ SavingHoldsLock
    /\ AckedNeedsFile
    /\ AckedOnFile

----------------------------------------------------------------------------
(* Lemmas about records                                                    *)

\* A map without records is a record.
LEMMA BlankRecord == Blank \in Records
BY DEF Blank, Records

\* Recording a value yields a record, which differs at its entry only.
LEMMA RecordUpdate ==
    ASSUME NEW r \in Records, NEW e \in Entries, NEW x \in Values \cup {NoValue}
    PROVE  /\ [r EXCEPT ![e] = x] \in Records
           /\ [r EXCEPT ![e] = x][e] = x
           /\ \A d \in Entries \ {e} : [r EXCEPT ![e] = x][d] = r[d]
BY DEF Records

\* Each entry of a record has a value or none.
LEMMA RecordEntry ==
    ASSUME NEW r \in Records, NEW e \in Entries
    PROVE  r[e] \in Values \cup {NoValue}
BY DEF Records

----------------------------------------------------------------------------
(* The types                                                               *)

\* The initial state has the right types.
LEMMA InitTypes == CacheInit => CacheTypeOK
BY BlankRecord DEF CacheInit, CacheTypeOK

\* Returning from set keeps the types of what it resets.
LEMMA ReturnTypes ==
    ASSUME CacheTypeOK, NEW e \in Entries, Return(e)
    PROVE  /\ mu' \in Entries \cup {Unlocked}
           /\ at' \in [Entries -> {"out", "create", "write", "rename"}]
           /\ data' \in [Entries -> Records \cup {NoFile}]
           /\ tmp' \in [Entries -> Records \cup {NoFile, Partial}]
BY DEF CacheTypeOK, Return

\* Every step keeps the types; that a rename never moves a partial file needs
\* SavingHoldsLock.
LEMMA StepTypes ==
    ASSUME CacheTypeOK, SavingHoldsLock, [CacheNext]_cacheVars
    PROVE  CacheTypeOK'
<1>1. ASSUME NEW e \in Entries, NEW x \in Values, Set(e, x)
      PROVE  CacheTypeOK'
  <2>1. applied' \in Records
    BY <1>1, RecordUpdate DEF Set, CacheTypeOK
  <2>2. acked' \in Records
    BY <1>1, RecordUpdate DEF Set, CacheTypeOK
  <2>3. CASE Persist
    BY <1>1, <2>1, <2>2, <2>3 DEF Set, CacheTypeOK
  <2>4. CASE ~Persist
    BY <1>1, <2>1, <2>2, <2>4 DEF Set, CacheTypeOK
  <2> QED
    BY <2>3, <2>4
<1>2. ASSUME NEW e \in Entries, CreateTemp(e)
      PROVE  CacheTypeOK'
  BY <1>2 DEF CreateTemp, CacheTypeOK
<1>3. ASSUME NEW e \in Entries, Write(e)
      PROVE  CacheTypeOK'
  BY <1>3 DEF Write, CacheTypeOK
<1>4. ASSUME NEW e \in Entries, Rename(e)
      PROVE  CacheTypeOK'
  <2>1. file' \in Records
    BY <1>4 DEF Rename, SavingHoldsLock, CacheTypeOK
  <2>2. acked' \in Records
    BY <1>4, RecordUpdate, RecordEntry DEF Rename, CacheTypeOK
  <2>3. Return(e) /\ UNCHANGED <<up, applied>>
    BY <1>4 DEF Rename
  <2> QED
    BY <2>1, <2>2, <2>3, ReturnTypes DEF CacheTypeOK
<1>5. ASSUME NEW e \in Entries, SaveFails(e)
      PROVE  CacheTypeOK'
  <2>1. Return(e) /\ UNCHANGED <<up, applied, file, acked>>
    BY <1>5 DEF SaveFails
  <2> QED
    BY <2>1, ReturnTypes DEF CacheTypeOK
<1>6. CASE Load
  BY <1>6, BlankRecord DEF Load, CacheTypeOK, callVars
<1>7. CASE LoadFails
  BY <1>7, BlankRecord DEF LoadFails, CacheTypeOK, callVars
<1>8. CASE Halt
  BY <1>8, BlankRecord DEF Halt, CacheTypeOK
<1>9. CASE UNCHANGED cacheVars
  BY <1>9 DEF cacheVars, callVars, CacheTypeOK
<1> QED
  BY <1>1, <1>2, <1>3, <1>4, <1>5, <1>6, <1>7, <1>8, <1>9 DEF CacheNext, SaveStep

----------------------------------------------------------------------------
(* Mutual exclusion                                                        *)

\* A call that returns leaves no other one under way.
LEMMA ReturnLeavesNone ==
    ASSUME CacheTypeOK, SavingHoldsLock, NEW e \in Entries, at[e] # "out", Return(e)
    PROVE  \A d \in Entries : at'[d] = "out"
BY DEF CacheTypeOK, SavingHoldsLock, Return

\* Every step keeps the saving calls in the mutex.
LEMMA StepLock ==
    ASSUME CacheTypeOK, SavingHoldsLock, [CacheNext]_cacheVars
    PROVE  SavingHoldsLock'
<1> USE CacheAssumption
<1>1. ASSUME NEW e \in Entries, NEW x \in Values, Set(e, x)
      PROVE  SavingHoldsLock'
  <2>1. \A d \in Entries : at[d] = "out"
    BY <1>1 DEF Set, SavingHoldsLock, CacheTypeOK
  <2>2. CASE Persist
    BY <1>1, <2>1, <2>2 DEF Set, SavingHoldsLock, CacheTypeOK
  <2>3. CASE ~Persist
    BY <1>1, <2>1, <2>3 DEF Set, SavingHoldsLock, CacheTypeOK
  <2> QED
    BY <2>2, <2>3
<1>2. ASSUME NEW e \in Entries, CreateTemp(e)
      PROVE  SavingHoldsLock'
  BY <1>2 DEF CreateTemp, SavingHoldsLock, CacheTypeOK
<1>3. ASSUME NEW e \in Entries, Write(e)
      PROVE  SavingHoldsLock'
  BY <1>3 DEF Write, SavingHoldsLock, CacheTypeOK
<1>4. ASSUME NEW e \in Entries, Rename(e)
      PROVE  SavingHoldsLock'
  BY <1>4, ReturnLeavesNone DEF Rename, SavingHoldsLock
<1>5. ASSUME NEW e \in Entries, SaveFails(e)
      PROVE  SavingHoldsLock'
  BY <1>5, ReturnLeavesNone DEF SaveFails, SavingHoldsLock
<1>6. CASE Load
  BY <1>6 DEF Load, SavingHoldsLock, callVars
<1>7. CASE LoadFails
  BY <1>7 DEF LoadFails, SavingHoldsLock, callVars
<1>8. CASE Halt
  BY <1>8 DEF Halt, SavingHoldsLock
<1>9. CASE UNCHANGED cacheVars
  BY <1>9 DEF cacheVars, callVars, SavingHoldsLock
<1> QED
  BY <1>1, <1>2, <1>3, <1>4, <1>5, <1>6, <1>7, <1>8, <1>9 DEF CacheNext, SaveStep

----------------------------------------------------------------------------
(* What has been saved stays                                               *)

\* Without a cache file no step saves.
LEMMA StepNeedsFile ==
    ASSUME CacheTypeOK, SavingHoldsLock, AckedNeedsFile, [CacheNext]_cacheVars
    PROVE  AckedNeedsFile'
<1> SUFFICES ASSUME ~Persist PROVE acked' = Blank
  BY DEF AckedNeedsFile
<1>0. acked = Blank
  BY DEF AckedNeedsFile
<1>1. ASSUME NEW e \in Entries, NEW x \in Values, Set(e, x)
      PROVE  acked' = Blank
  BY <1>0, <1>1 DEF Set, Blank
<1>2. ASSUME NEW e \in Entries, SaveStep(e)
      PROVE  acked' = Blank
  BY <1>0, <1>2 DEF SaveStep, CreateTemp, Write, Rename, SaveFails, SavingHoldsLock
<1>3. CASE Load \/ LoadFails \/ Halt \/ UNCHANGED cacheVars
  BY <1>0, <1>3 DEF Load, LoadFails, Halt, cacheVars
<1> QED
  BY <1>1, <1>2, <1>3 DEF CacheNext

\* Every step keeps the saved values on file and in memory.
LEMMA StepAcked ==
    ASSUME CacheTypeOK, SavingHoldsLock, AckedNeedsFile, AckedOnFile,
           [CacheNext]_cacheVars
    PROVE  AckedOnFile'
<1>1. ASSUME NEW e \in Entries, NEW x \in Values, Set(e, x)
      PROVE  AckedOnFile'
  <2> SUFFICES ASSUME NEW d \in Entries, acked'[d] # NoValue
               PROVE  /\ file' \in Records /\ file'[d] = acked'[d]
                      /\ up' => applied'[d] = acked'[d]
    BY DEF AckedOnFile
  <2>1. d # e /\ acked'[d] = acked[d] /\ applied'[d] = applied[d]
    BY <1>1, RecordUpdate DEF Set, CacheTypeOK
  <2> QED
    BY <1>1, <2>1 DEF Set, AckedOnFile
<1>2. ASSUME NEW e \in Entries, Rename(e)
      PROVE  AckedOnFile'
  <2>1. file' = applied /\ applied' = applied /\ up' = up /\ up
    BY <1>2 DEF Rename, SavingHoldsLock
  <2>2. \A d \in Entries : acked'[d] # NoValue => acked'[d] = applied[d]
    BY <1>2, <2>1 DEF Rename, AckedOnFile, CacheTypeOK, Records
  <2> QED
    BY <2>1, <2>2 DEF AckedOnFile, CacheTypeOK
<1>3. ASSUME NEW e \in Entries, CreateTemp(e) \/ Write(e) \/ SaveFails(e)
      PROVE  AckedOnFile'
  BY <1>3 DEF CreateTemp, Write, SaveFails, AckedOnFile
<1>4. CASE Load
  BY <1>4 DEF Load, AckedOnFile, AckedNeedsFile, Blank
<1>5. CASE LoadFails
  BY <1>5 DEF LoadFails, AckedOnFile, Blank
<1>6. CASE Halt
  BY <1>6 DEF Halt, AckedOnFile
<1>7. CASE UNCHANGED cacheVars
  BY <1>7 DEF cacheVars, AckedOnFile
<1> QED
  BY <1>1, <1>2, <1>3, <1>4, <1>5, <1>6, <1>7 DEF CacheNext, SaveStep

----------------------------------------------------------------------------

\* The inductive invariant holds in every state.
THEOREM CacheInvariant == CacheSpec => []CacheIInv
<1>1. CacheInit => CacheIInv
  BY InitTypes DEF CacheInit, CacheIInv, SavingHoldsLock, AckedNeedsFile, AckedOnFile, Blank
<1>2. CacheIInv /\ [CacheNext]_cacheVars => CacheIInv'
  BY StepTypes, StepLock, StepNeedsFile, StepAcked DEF CacheIInv
<1> QED
  BY <1>1, <1>2, PTL DEF CacheSpec

\* The cache file is a complete record or cannot be understood from the start:
\* no crash and no failure leaves it half written (cache.go:85-118).
THEOREM CacheTypes == CacheSpec => []CacheTypeOK
<1>1. CacheIInv => CacheTypeOK
  BY DEF CacheIInv
<1> QED
  BY <1>1, CacheInvariant, PTL

\* What set has saved survives every other call and the end of the process.
THEOREM AckedSurvives == CacheSpec => []AckedOnFile
<1>1. CacheIInv => AckedOnFile
  BY DEF CacheIInv
<1> QED
  BY <1>1, CacheInvariant, PTL

----------------------------------------------------------------------------
(* VersionCache implements DurableMap                                      *)

\* Both modules mean the same by a record.
LEMMA SameRecords == Durable!Records = Records /\ Durable!Blank = Blank
BY DEF Durable!Records, Records, Durable!Blank, Blank

\* Every step is a step of the map or changes nothing of it.
LEMMA StepRefines ==
    ASSUME CacheIInv, [CacheNext]_cacheVars
    PROVE  [Durable!Next]_(Durable!vars)
<1> USE SameRecords DEF CacheIInv
<1>1. ASSUME NEW e \in Entries, NEW x \in Values, Set(e, x)
      PROVE  Durable!Put
  BY <1>1 DEF Set, Durable!Put
<1>2. ASSUME NEW e \in Entries, Rename(e)
      PROVE  Durable!Save
  BY <1>2 DEF Rename, SavingHoldsLock, Durable!Save
<1>3. ASSUME NEW e \in Entries, CreateTemp(e) \/ Write(e) \/ SaveFails(e)
      PROVE  UNCHANGED Durable!vars
  BY <1>3 DEF CreateTemp, Write, SaveFails, Durable!vars
<1>4. ASSUME Load
      PROVE  Durable!Start
  BY <1>4, BlankRecord DEF Load, Durable!Start
<1>5. ASSUME LoadFails
      PROVE  Durable!Start
  BY <1>5, BlankRecord DEF LoadFails, Durable!Start
<1>6. ASSUME Halt
      PROVE  Durable!Stop
  BY <1>6 DEF Halt, Durable!Stop
<1>7. ASSUME UNCHANGED cacheVars
      PROVE  UNCHANGED Durable!vars
  BY <1>7 DEF cacheVars, Durable!vars
<1> QED
  BY <1>1, <1>2, <1>3, <1>4, <1>5, <1>6, <1>7 DEF CacheNext, SaveStep, Durable!Next

\* The cache is a durable map: a save is atomic although it is made of four
\* system calls.
THEOREM CacheRefinement == CacheSpec => ImplementsDurableMap
<1>1. CacheInit => Durable!Init
  BY SameRecords DEF CacheInit, Durable!Init
<1>2. CacheIInv /\ [CacheNext]_cacheVars => [Durable!Next]_(Durable!vars)
  BY StepRefines
<1> QED
  BY <1>1, <1>2, CacheInvariant, PTL DEF CacheSpec, ImplementsDurableMap, Durable!Spec
=============================================================================
