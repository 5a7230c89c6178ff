----------------------------- MODULE DurableMap -----------------------------
(***************************************************************************)
(* What the version cache of src/cache.go promises: a map in memory with a *)
(* file beside it.  A save makes the file equal to the map, whole and at   *)
(* once; a process that ends loses the map and never touches the file.     *)
(***************************************************************************)
CONSTANTS
    Entries,  \* pairs of a job and a variable
    Values,   \* what may be recorded for one
    NoValue,  \* nothing is
    NoFile    \* there is no file that can be understood

VARIABLES
    mem,     \* the map
    stored,  \* the file
    running  \* the process is there

vars == <<mem, stored, running>>

Records == [Entries -> Values \cup {NoValue}]
Blank == [e \in Entries |-> NoValue]

Init ==
    /\ mem = Blank
    /\ stored = NoFile
    /\ running = FALSE

Put ==
    /\ running
    /\ \E e \in Entries, x \in Values : mem' = [mem EXCEPT ![e] = x]
    /\ UNCHANGED <<stored, running>>

Save ==
    /\ running
    /\ stored' = mem
    /\ UNCHANGED <<mem, running>>

\* The new process starts from the file, or from nothing.
Start ==
    /\ ~running
    /\ running' = TRUE
    /\ mem' \in {stored, Blank} \cap Records
    /\ UNCHANGED stored

Stop ==
    /\ running
    /\ running' = FALSE
    /\ mem' = Blank
    /\ UNCHANGED stored

Next == Put \/ Save \/ Start \/ Stop

Spec == Init /\ [][Next]_vars
=============================================================================
