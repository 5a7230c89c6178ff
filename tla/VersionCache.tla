---------------------------- MODULE VersionCache ----------------------------
(***************************************************************************)
(* The version cache of src/cache.go, shared by the checks of all jobs: a  *)
(* map under a mutex and the file that set saves it to, system call by     *)
(* system call, across the ends and restarts of the process.               *)
(*                                                                         *)
(* The map of maps (job, then variable) is one function of entries.  A job *)
(* has at most one check and a check sets one variable after the other, so *)
(* there is at most one call of set for an entry at a time and the entry   *)
(* names the call.  What a call does before MarshalIndent is one step: it  *)
(* has the mutex and nothing of it can be seen.                            *)
(***************************************************************************)
EXTENDS Integers, FiniteSets

CONSTANTS
    Entries,   \* pairs of a job and a variable
    Values,    \* what may be recorded for one
    NoValue,   \* nothing is
    NoFile,    \* no such file; for the cache file also: empty or corrupt
    Partial,   \* a file that has been created and not yet written
    Unlocked,  \* nobody holds the mutex
    Persist,   \* a cache file is configured
    CanFailIO  \* system calls on the cache file may fail

Records == [Entries -> Values \cup {NoValue}]
Blank == [e \in Entries |-> NoValue]

ASSUME CacheAssumption ==
    /\ NoValue \notin Values
    /\ NoFile \notin Records
    /\ Partial \notin Records \cup {NoFile}
    /\ Unlocked \notin Entries
    /\ Persist \in BOOLEAN
    /\ CanFailIO \in BOOLEAN

VARIABLES
    up,       \* the process is running
    mu,       \* versionCache.mu: the entry whose set holds it, or Unlocked
    applied,  \* versionCache.applied
    file,     \* the content of the cache file
    at,       \* per call of set: the next step of saveLocked, or "out"
    data,     \* per call of set: the marshalled map
    tmp,      \* per call of set: the content of its temporary file
    acked     \* auxiliary, per entry: the value of the last set, if it saved

callVars  == <<mu, at, data, tmp>>
cacheVars == <<up, callVars, applied, file, acked>>

CacheInit ==
    /\ up = FALSE
    /\ mu = Unlocked
    /\ applied = Blank
    /\ file = NoFile
    /\ at = [e \in Entries |-> "out"]
    /\ data = [e \in Entries |-> NoFile]
    /\ tmp = [e \in Entries |-> NoFile]
    /\ acked = Blank

----------------------------------------------------------------------------
(* get, set and saveLocked                                                 *)

\* get takes the mutex, too.
Get(e, x) == mu = Unlocked /\ x = applied[e]

\* A flawed variant: set gives the mutex back before it saves.
SetUnlockingEarly(e, x) ==
    /\ up
    /\ at[e] = "out"
    /\ mu = Unlocked
    /\ applied' = [applied EXCEPT ![e] = x]
    /\ acked' = [acked EXCEPT ![e] = NoValue]
    /\ at' = [at EXCEPT ![e] = "create"]
    /\ data' = [data EXCEPT ![e] = applied']
    /\ UNCHANGED <<up, mu, file, tmp>>

\* set until it has marshalled the map; without a file, all of set.
Set(e, x) ==
    /\ up
    /\ at[e] = "out"
    /\ mu = Unlocked
    /\ applied' = [applied EXCEPT ![e] = x]
    /\ acked' = [acked EXCEPT ![e] = NoValue]
    /\ IF Persist
       THEN /\ mu' = e
            /\ at' = [at EXCEPT ![e] = "create"]
            /\ data' = [data EXCEPT ![e] = applied']
       ELSE UNCHANGED <<mu, at, data>>
    /\ UNCHANGED <<up, file, tmp>>

\* MkdirAll and CreateTemp.
CreateTemp(e) ==
    /\ at[e] = "create"
    /\ at' = [at EXCEPT ![e] = "write"]
    /\ tmp' = [tmp EXCEPT ![e] = Partial]
    /\ UNCHANGED <<up, mu, applied, file, data, acked>>

\* A flawed variant: the file is renamed before it is written and closed.
WriteLate(e) ==
    /\ at[e] = "write"
    /\ at' = [at EXCEPT ![e] = "rename"]
    /\ UNCHANGED <<up, mu, applied, file, data, tmp, acked>>

\* Write and Close.
Write(e) ==
    /\ at[e] = "write"
    /\ at' = [at EXCEPT ![e] = "rename"]
    /\ tmp' = [tmp EXCEPT ![e] = data[e]]
    /\ UNCHANGED <<up, mu, applied, file, data, acked>>

\* A flawed variant: the mutex is not given back by a defer.
ReturnLocked(e) ==
    /\ mu' = IF tmp[e] = data[e] THEN Unlocked ELSE mu
    /\ at' = [at EXCEPT ![e] = "out"]
    /\ data' = [data EXCEPT ![e] = NoFile]
    /\ tmp' = [tmp EXCEPT ![e] = NoFile]

\* set returns, with its deferred unlock; its temporary file is gone.
Return(e) ==
    /\ mu' = Unlocked
    /\ at' = [at EXCEPT ![e] = "out"]
    /\ data' = [data EXCEPT ![e] = NoFile]
    /\ tmp' = [tmp EXCEPT ![e] = NoFile]

\* Rename, after which set returns nil.
Rename(e) ==
    /\ at[e] = "rename"
    /\ file' = tmp[e]
    /\ acked' = [acked EXCEPT ![e] = applied[e]]
    /\ Return(e)
    /\ UNCHANGED <<up, applied>>

\* The next system call fails and set returns the error; the map keeps the value.
SaveFails(e) ==
    /\ CanFailIO
    /\ at[e] # "out"
    /\ Return(e)
    /\ UNCHANGED <<up, applied, file, acked>>

SaveStep(e) == CreateTemp(e) \/ Write(e) \/ Rename(e) \/ SaveFails(e)

----------------------------------------------------------------------------
(* The process                                                             *)

\* A flawed variant: the file is not loaded.
LoadNothing ==
    /\ ~up
    /\ up' = TRUE
    /\ applied' = Blank
    /\ UNCHANGED <<callVars, file, acked>>

\* Load.  A missing, empty or corrupt file leaves the map as it was made.
Load ==
    /\ ~up
    /\ up' = TRUE
    /\ applied' = IF Persist /\ file \in Records THEN file ELSE Blank
    /\ UNCHANGED <<callVars, file, acked>>

\* The file cannot be read and main starts fresh: what was saved is forgotten.
LoadFails ==
    /\ ~up
    /\ Persist /\ CanFailIO
    /\ up' = TRUE
    /\ applied' = Blank
    /\ acked' = Blank
    /\ UNCHANGED <<callVars, file>>

\* The process ends, between any two steps.  A temporary file that is left
\* behind is never looked at again: the next one gets another name.
Halt ==
    /\ up
    /\ up' = FALSE
    /\ mu' = Unlocked
    /\ applied' = Blank
    /\ at' = [e \in Entries |-> "out"]
    /\ data' = [e \in Entries |-> NoFile]
    /\ tmp' = [e \in Entries |-> NoFile]
    /\ UNCHANGED <<file, acked>>

CacheNext ==
    \/ \E e \in Entries : SaveStep(e) \/ \E x \in Values : Set(e, x)
    \/ Load
    \/ LoadFails
    \/ Halt

CacheSpec == CacheInit /\ [][CacheNext]_cacheVars

----------------------------------------------------------------------------
(* Properties                                                              *)

\* The types of the variables; the cache file is never partly written.
CacheTypeOK ==
    /\ up \in BOOLEAN
    /\ mu \in Entries \cup {Unlocked}
    /\ applied \in Records
    /\ file \in Records \cup {NoFile}
    /\ at \in [Entries -> {"out", "create", "write", "rename"}]
    /\ data \in [Entries -> Records \cup {NoFile}]
    /\ tmp \in [Entries -> Records \cup {NoFile, Partial}]
    /\ acked \in Records

\* A value whose set has returned nil is on file, and in memory while the
\* process runs, until the same entry is set again: no save of another job's
\* check, no failed save and no end of the process takes it away (cache.go:
\* 71-118); only a file that could not be read at a start is given up.
AckedOnFile ==
    \A e \in Entries :
        acked[e] # NoValue => /\ file \in Records /\ file[e] = acked[e]
                              /\ up => applied[e] = acked[e]

(***************************************************************************)
(* The cache implements DurableMap.                                        *)
(***************************************************************************)

Durable == INSTANCE DurableMap WITH mem <- applied, stored <- file, running <- up

\* Every save replaces the file by exactly the map as it is at that moment,
\* whichever calls and failures lie between MarshalIndent and Rename, and
\* nothing else writes it (cache.go:85-118).
ImplementsDurableMap == Durable!Spec
=============================================================================
