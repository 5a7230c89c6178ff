----------------------------- MODULE CheckHeap -----------------------------
(***************************************************************************)
(* checkHeap of src/scheduler.go: the array of pointers to items that      *)
(* container/heap keeps in heap order, as the run loop uses it.  Item and  *)
(* key are one, because a key has at most one item (QueueMatchesManaged of *)
(* module Scheduler).  Positions count from 1 here and from 0 in the       *)
(* items' index fields.                                                    *)
(*                                                                         *)
(* The loops of container/heap are steps: op is what the run loop is       *)
(* doing, pc where that is in container/heap.  The clock stands still      *)
(* during an operation: each one reads it once, but for triggerAll, whose  *)
(* runDue reads it again, when all items are due already.                  *)
(***************************************************************************)
EXTENDS Integers, Sequences, Functions

CONSTANTS
    Keys,     \* the jobs
    MaxWait,  \* an item is due at most so long after it is pushed (a bound)
    MaxNow    \* the clock stops here (a bound)

ASSUME HeapAssumption == MaxWait \in Nat /\ MaxNow \in Nat

VARIABLES
    array,  \* the checkHeap: the key of the item at each position
    due,    \* checkItem.due, per key
    index,  \* checkItem.index, per key
    now,    \* scheduler.now
    op,     \* the operation under way: push, remove, init, runDue, or none
    pc,     \* in it: runDue's loop, down, up, or before checkHeap.Pop
    pos,    \* the position that down or up has reached
    start   \* the position at which down has started

queueVars == <<array, due, index>>
loopVars  == <<op, pc, pos, start>>
vars      == <<queueVars, now, loopVars>>

Init ==
    /\ array = <<>>
    /\ due = [k \in Keys |-> 0]
    /\ index = [k \in Keys |-> -1]
    /\ now = 0
    /\ op = "none"
    /\ pc = "idle"
    /\ pos = 0
    /\ start = 0

----------------------------------------------------------------------------
(* The methods of checkHeap                                                *)

\* A flawed variant: the later check comes first.
LessReversed(i, j) == due[array[i]] > due[array[j]]

Less(i, j) == due[array[i]] < due[array[j]]

\* A flawed variant: the items do not learn of their new positions.
SwapPointersOnly(i, j) ==
    /\ array' = [array EXCEPT ![i] = array[j], ![j] = array[i]]
    /\ UNCHANGED index

Swap(i, j) ==
    /\ array' = [array EXCEPT ![i] = array[j], ![j] = array[i]]
    /\ index' = [index EXCEPT ![array[j]] = i - 1, ![array[i]] = j - 1]

----------------------------------------------------------------------------
(* container/heap                                                          *)

\* The first positions of the array are the heap: an item that is to leave it
\* has been moved behind them.
Size == IF op = "remove" \/ (op = "runDue" /\ pc # "sweep")
        THEN Len(array) - 1 ELSE Len(array)

At(label, i) == pc' = label /\ pos' = i
Sift(what, label, i) == op' = what /\ At(label, i) /\ start' = i
GoOn(what, label) == op' = what /\ At(label, 0) /\ start' = 0

Rises == pos > 1 /\ Less(pos, pos \div 2)

Up ==
    /\ pc = "up" /\ Rises
    /\ Swap(pos \div 2, pos)
    /\ At("up", pos \div 2)
    /\ UNCHANGED <<due, now, op, start>>

UpEnds ==
    /\ pc = "up" /\ ~Rises
    /\ IF op = "push" THEN GoOn("none", "idle") ELSE GoOn(op, "pop")
    /\ UNCHANGED <<queueVars, now>>

\* The least child of position i.
Child(i) == IF 2 * i < Size /\ Less(2 * i + 1, 2 * i) THEN 2 * i + 1 ELSE 2 * i

Sinks == 2 * pos <= Size /\ Less(Child(pos), pos)

Down ==
    /\ pc = "down" /\ Sinks
    /\ Swap(pos, Child(pos))
    /\ At("down", Child(pos))
    /\ UNCHANGED <<due, now, op, start>>

\* Pop drops the last item, Remove may have to sift the other way, and Init
\* sifts from the next position.
DownEnds ==
    /\ pc = "down" /\ ~Sinks
    /\ \/ op = "runDue" /\ GoOn(op, "pop")
       \/ op = "remove" /\ pos > start /\ GoOn(op, "pop")
       \/ op = "remove" /\ pos = start /\ Sift(op, "up", pos)
       \/ op = "init" /\ start > 1 /\ Sift(op, "down", start - 1)
       \/ op = "init" /\ start = 1 /\ GoOn("runDue", "sweep")
    /\ UNCHANGED <<queueVars, now>>

\* checkHeap.Pop.  The item is garbage or belongs to a worker; its deadline is
\* cleared to keep the states few.
PopLast ==
    /\ pc = "pop"
    /\ LET k == array[Len(array)]
       IN  /\ index' = [index EXCEPT ![k] = -1]
           /\ due' = [due EXCEPT ![k] = 0]
    /\ array' = SubSeq(array, 1, Len(array) - 1)
    /\ IF op = "remove" THEN GoOn("none", "idle") ELSE GoOn(op, "sweep")
    /\ UNCHANGED now

----------------------------------------------------------------------------
(* What the run loop does with it                                          *)

\* discover or reschedule queues the next check of a job: heap.Push.
Push(k) ==
    /\ pc = "idle"
    /\ k \notin Range(array)
    /\ array' = Append(array, k)
    /\ index' = [index EXCEPT ![k] = Len(array)]
    /\ \E w \in 0 .. MaxWait : due' = [due EXCEPT ![k] = now + w]
    /\ Sift("push", "up", Len(array) + 1)
    /\ UNCHANGED now

\* A flawed variant: the item is cut out of the array.
DropBySlice(k) ==
    /\ pc = "idle"
    /\ \E i \in DOMAIN array :
         /\ array[i] = k
         /\ array' = SubSeq(array, 1, i - 1) \o SubSeq(array, i + 1, Len(array))
    /\ index' = [index EXCEPT ![k] = -1]
    /\ due' = [due EXCEPT ![k] = 0]
    /\ UNCHANGED <<now, loopVars>>

\* discover drops a job that has gone away: remove finds its item, if it has
\* one, and heap.Remove moves it to the end.
Drop(k) ==
    /\ pc = "idle"
    /\ \E i \in DOMAIN array :
         /\ array[i] = k
         /\ IF i = Len(array)
            THEN GoOn("remove", "pop") /\ UNCHANGED <<array, index>>
            ELSE Sift("remove", "down", i) /\ Swap(i, Len(array))
    /\ UNCHANGED <<due, now>>

RunDue ==
    /\ pc = "idle"
    /\ GoOn("runDue", "sweep")
    /\ UNCHANGED <<queueVars, now>>

FirstIsDue == Len(array) > 0 /\ due[array[1]] <= now

\* runDue goes on while the first item is due: heap.Pop moves it to the end.
Sweep ==
    /\ pc = "sweep" /\ FirstIsDue
    /\ Swap(1, Len(array))
    /\ Sift(op, "down", 1)
    /\ UNCHANGED <<due, now>>

SweepEnds ==
    /\ pc = "sweep" /\ ~FirstIsDue
    /\ GoOn("none", "idle")
    /\ UNCHANGED <<queueVars, now>>

\* triggerAll overwrites the deadlines; heap.Init sifts down all positions that
\* have a child, from the last one; and runDue follows.
TriggerAll ==
    /\ pc = "idle"
    /\ due' = [k \in Keys |-> IF k \in Range(array) THEN now ELSE due[k]]
    /\ IF Len(array) > 1 THEN Sift("init", "down", Len(array) \div 2)
                         ELSE GoOn("runDue", "sweep")
    /\ UNCHANGED <<array, index, now>>

Tick ==
    /\ pc = "idle"
    /\ now < MaxNow
    /\ now' = now + 1
    /\ UNCHANGED <<queueVars, loopVars>>

Next ==
    \/ \E k \in Keys : Push(k) \/ Drop(k)
    \/ RunDue \/ Sweep \/ SweepEnds \/ TriggerAll
    \/ Up \/ UpEnds \/ Down \/ DownEnds \/ PopLast
    \/ Tick

Spec == Init /\ [][Next]_vars

----------------------------------------------------------------------------
(* Properties                                                              *)

Labels == {<<"none", "idle">>, <<"push", "up">>,
           <<"remove", "down">>, <<"remove", "up">>, <<"remove", "pop">>,
           <<"init", "down">>,
           <<"runDue", "sweep">>, <<"runDue", "down">>, <<"runDue", "pop">>}

\* The types of the variables; an item's index is where the array has it, in
\* the middle of every operation; down and up stay in the heap, and there is
\* something to drop when they are done.
TypeOK ==
    /\ array \in Seq(Keys)
    /\ due \in [Keys -> 0 .. MaxNow + MaxWait]
    /\ index \in [Keys -> -1 .. Len(array) - 1]
    /\ now \in 0 .. MaxNow
    /\ \A k \in Keys \ Range(array) : index[k] = -1
    /\ \A i \in DOMAIN array : index[array[i]] = i - 1
    /\ <<op, pc>> \in Labels
    /\ IF pc \in {"up", "down"} THEN start \in 1 .. Len(array) /\ pos \in 1 .. Len(array)
                                ELSE start = 0 /\ pos = 0
    /\ pc = "pop" => Len(array) > 0

\* What peek returns is due no later than anything else in the array,
\* wherever items were taken out of it: timeUntilNext and runDue look at
\* nothing else (scheduler.go:28, 181, 194).
PeekIsEarliest ==
    pc \in {"idle", "sweep"} => \A i \in DOMAIN array : due[array[1]] <= due[array[i]]

(***************************************************************************)
(* The heap implements the queue that module Scheduler works with.  An     *)
(* item has left the queue when it is moved behind the heap, and what is   *)
(* due has left it when runDue begins.                                     *)
(***************************************************************************)

Contents == {[key |-> array[i], due |-> due[array[i]]] : i \in 1 .. Size}

Queue == INSTANCE CheckQueue
            WITH queue <- IF op \in {"init", "runDue"}
                          THEN {it \in Contents : it.due > now} ELSE Contents

\* Pushing, removing by key, popping what is due and the trigger's
\* re-ordering never lose, duplicate or mistake an item; runDue leaves nothing
\* behind that is due and takes nothing that is not (scheduler.go:22-54, 162-203).
ImplementsQueue == Queue!Spec
=============================================================================
