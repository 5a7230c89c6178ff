----------------------------- MODULE CheckQueue -----------------------------
(***************************************************************************)
(* The queue that the run loop of src/scheduler.go works with: at most one *)
(* item per key, in no order.  These are the steps that module Scheduler   *)
(* makes with its queue, with points in time instead of times to wait.     *)
(***************************************************************************)
EXTENDS Integers

CONSTANTS Keys, MaxWait

VARIABLES queue, now

vars == <<queue, now>>

Items == [key : Keys, due : Nat]

Queued == {it.key : it \in queue}

Init == queue = {} /\ now = 0

Push(k) ==
    /\ k \notin Queued
    /\ \E w \in 0 .. MaxWait : queue' = queue \cup {[key |-> k, due |-> now + w]}
    /\ UNCHANGED now

Drop(k) ==
    /\ queue' = {it \in queue : it.key # k}
    /\ UNCHANGED now

\* All items that are due leave the queue, and no other.
RunDue ==
    /\ queue' = {it \in queue : it.due > now}
    /\ UNCHANGED now

TriggerAll ==
    /\ queue' = {}
    /\ UNCHANGED now

Tick == now' = now + 1 /\ UNCHANGED queue

Next == (\E k \in Keys : Push(k) \/ Drop(k)) \/ RunDue \/ TriggerAll \/ Tick

Spec == Init /\ [][Next]_vars
=============================================================================
