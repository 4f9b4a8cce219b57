------------------------- MODULE CountingSemaphore -------------------------
(***************************************************************************)
(* What CSemaphore and CAutoResetSignal promise to their users.  An object *)
(* has counts that are available, which any thread may take, or else       *)
(* threads that sleep on it; a release owes a count to as many sleepers as *)
(* it has counts for and makes only the others available.  A count that is *)
(* owed is received by one sleeper, and a sleeper may give up only while   *)
(* more threads sleep than counts are owed: a wait that fails takes no     *)
(* count, and no count is left over by it.                                 *)
(***************************************************************************)
EXTENDS Naturals, FiniteSets

CONSTANTS
    Thread,
    Object,
    Nil

VARIABLES
    avail,      \* counts available in each object
    owed,       \* counts released to sleepers that have yet to receive them
    waiting,    \* the object that each thread acquires or waits for, or Nil
    asleep      \* whether it sleeps

vars == <<avail, owed, waiting, asleep>>

Init ==
    /\ avail = [o \in Object |-> 0]
    /\ owed = [o \in Object |-> 0]
    /\ waiting = [t \in Thread |-> Nil]
    /\ asleep = [t \in Thread |-> FALSE]

\* The sleepers that are owed nothing.
Unserved(o) == Cardinality({t \in Thread : waiting[t] = o /\ asleep[t]}) - owed[o]

Begin(t, o) ==
    /\ waiting[t] = Nil
    /\ waiting' = [waiting EXCEPT ![t] = o]
    /\ UNCHANGED <<avail, owed, asleep>>

Return(t) ==
    /\ waiting[t] # Nil
    /\ waiting' = [waiting EXCEPT ![t] = Nil]
    /\ asleep' = [asleep EXCEPT ![t] = FALSE]

\* The call gets a count: one that is available, or one that it slept for.
Take(t) ==
    /\ ~asleep[t] /\ Return(t)
    /\ avail[waiting[t]] > 0
    /\ avail' = [avail EXCEPT ![waiting[t]] = @ - 1]
    /\ UNCHANGED owed

Wake(t) ==
    /\ asleep[t] /\ Return(t)
    /\ owed[waiting[t]] > 0
    /\ owed' = [owed EXCEPT ![waiting[t]] = @ - 1]
    /\ UNCHANGED avail

\* The call fails: it did not sleep, or its sleep timed out.
TryFails(t) ==
    /\ ~asleep[t] /\ Return(t)
    /\ avail[waiting[t]] = 0
    /\ UNCHANGED <<avail, owed>>

GiveUp(t) ==
    /\ asleep[t] /\ Return(t)
    /\ Unserved(waiting[t]) > 0
    /\ UNCHANGED <<avail, owed>>

Sleep(t) ==
    /\ waiting[t] # Nil /\ ~asleep[t]
    /\ avail[waiting[t]] = 0
    /\ asleep' = [asleep EXCEPT ![t] = TRUE]
    /\ UNCHANGED <<avail, owed, waiting>>

Supply(o, available, served) ==
    /\ avail' = [avail EXCEPT ![o] = available]
    /\ owed' = [owed EXCEPT ![o] = @ + served]
    /\ UNCHANGED <<waiting, asleep>>

Release(o, n) ==
    IF Unserved(o) <= n THEN Supply(o, avail[o] + n - Unserved(o), Unserved(o))
    ELSE Supply(o, avail[o], n)

ReleaseAllWaiters(o) == Supply(o, avail[o], Unserved(o))

\* A signal is set for one thread, however often it is set.
Set(o) == IF Unserved(o) > 0 THEN Supply(o, avail[o], 1) ELSE Supply(o, 1, 0)

Reset(o) == Supply(o, 0, 0)
=============================================================================
