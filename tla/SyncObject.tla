----------------------------- MODULE SyncObject -----------------------------
(***************************************************************************)
(* The objects of the synchronization library on which threads sleep:      *)
(* semaphores, auto-reset and manual-reset signals and gates (CSemaphore,  *)
(* CAutoResetSignal, CManualResetSignal and CGate), and the pool of kernel *)
(* semaphores that they borrow while there are waiters                     *)
(* (CKernelSemaphorePool).                                                 *)
(*                                                                         *)
(* The state of an object is one word: a count (or whether the signal is   *)
(* set), or else the number of waiters and the kernel semaphore on which   *)
(* they wait.  One interlocked instruction is one step; a compare-exchange *)
(* that fails goes back to where the word was read, so reading and         *)
(* exchanging are one step unless the code does something in between.      *)
(* Kernel semaphores that do not exist yet count as available.             *)
(***************************************************************************)
EXTENDS Integers, FiniteSets, FiniteSetsExt

CONSTANTS
    Thread,
    Object,
    Kind,       \* the class of each object: "semaphore", "auto", "manual" or "gate"
    Ksem,       \* the kernel semaphores of the pool
    Nil,
    MaxAvail,   \* bound on the available counts of a semaphore
    MaxRelease  \* bound on the counts released at once

VARIABLES
    state,      \* the word of each object: m_cAvail (or m_fSet), the waiters, m_irksem
    cReference, \* m_cReference of each kernel semaphore
    fInUse,     \* m_fInUse
    fAvailable, \* m_fAvailable: in the pool
    user,       \* m_psyncobjUser
    count,      \* the counts of the kernel semaphore
    at,         \* where each thread is
    obj,        \* the object it works on
    irksem,     \* the kernel semaphore that it waits on, or will post to
    alloc,      \* irksemAlloc
    seen,       \* stateCur, when the code goes on after reading it
    post,       \* counts that it has yet to release to irksem
    drop        \* the kernel semaphore it has yet to unreference

pool == <<cReference, fInUse, fAvailable, user>>
vars == <<state, pool, count, at, obj, irksem, alloc, seen, post, drop>>

Word(cAvail, cWait, k) == [cAvail |-> cAvail, cWait |-> cWait, irksem |-> k]
Free(n) == Word(n, 0, Nil)

Init ==
    /\ state = [o \in Object |-> Free(0)]
    /\ cReference = [k \in Ksem |-> 0]
    /\ fInUse = [k \in Ksem |-> FALSE]
    /\ fAvailable = [k \in Ksem |-> TRUE]
    /\ user = [k \in Ksem |-> Nil]
    /\ count = [k \in Ksem |-> 0]
    /\ at = [t \in Thread |-> "idle"]
    /\ obj = [t \in Thread |-> Nil]
    /\ irksem = [t \in Thread |-> Nil]
    /\ alloc = [t \in Thread |-> Nil]
    /\ seen = [t \in Thread |-> Free(0)]
    /\ post = [t \in Thread |-> 0]
    /\ drop = [t \in Thread |-> Nil]

\* Thread t is at a place and has no kernel semaphore to unreference first.
In(t, where) == at[t] = where /\ drop[t] = Nil
Go(t, where) == at' = [at EXCEPT ![t] = where]
Done(t) == Go(t, "idle") /\ obj' = [obj EXCEPT ![t] = Nil]
Change(t, word) == state' = [state EXCEPT ![obj[t]] = word]

-----------------------------------------------------------------------------
(* The pool. *)

\* CKernelSemaphorePool::Allocate takes a semaphore out of the pool and then
\* gives it a user.
FAllocate(k) ==
    /\ fAvailable[k]
    /\ fAvailable' = [fAvailable EXCEPT ![k] = FALSE]

SetUser(k, o) ==
    /\ fInUse' = [fInUse EXCEPT ![k] = TRUE]
    /\ cReference' = [cReference EXCEPT ![k] = @ + 1]
    /\ user' = [user EXCEPT ![k] = o]

Reference(k) ==
    /\ cReference' = [cReference EXCEPT ![k] = @ + 1]
    /\ UNCHANGED <<fInUse, fAvailable, user>>

\* The last reference to a semaphore in use frees it.  A reference taken by a
\* thread that read a stale word does not count as a use.
Unreference(t) ==
    /\ drop[t] # Nil
    /\ LET k == drop[t]
           free == fInUse[k] /\ cReference[k] = 1
       IN  /\ cReference' = [cReference EXCEPT ![k] = @ - 1]
           /\ fInUse' = [fInUse EXCEPT ![k] = @ /\ ~free]
           /\ user' = [user EXCEPT ![k] = IF free THEN Nil ELSE @]
           /\ fAvailable' = [fAvailable EXCEPT ![k] = @ \/ free]
    /\ drop' = [drop EXCEPT ![t] = Nil]
    /\ UNCHANGED <<state, count, at, obj, irksem, alloc, seen, post>>

-----------------------------------------------------------------------------
(* Waiting: FTryAcquire, FTryWait, _FAcquire and _FWait. *)

Begin(t, o) ==
    /\ In(t, "idle") /\ Kind[o] # "gate"
    /\ Go(t, "try")
    /\ obj' = [obj EXCEPT ![t] = o]
    /\ UNCHANGED <<state, pool, count, irksem, alloc, seen, post, drop>>

\* A count is available, or the signal is set.
Take(t) ==
    /\ In(t, "try")
    /\ LET s == state[obj[t]]
       IN  /\ s.cAvail > 0
           /\ Change(t, IF Kind[obj[t]] = "manual" THEN s ELSE Free(s.cAvail - 1))
    /\ Done(t)
    /\ drop' = [drop EXCEPT ![t] = alloc[t]]
    /\ alloc' = [alloc EXCEPT ![t] = Nil]
    /\ UNCHANGED <<pool, count, irksem, seen, post>>

\* A wait that only tests, or whose try fails and does not go on.
NoWait(t) ==
    /\ In(t, "try") /\ alloc[t] = Nil
    /\ state[obj[t]].cAvail = 0
    /\ Done(t)
    /\ UNCHANGED <<state, pool, count, irksem, alloc, seen, post, drop>>

\* The first waiter brings a kernel semaphore.
FirstAllocate(t) ==
    /\ In(t, "try") /\ alloc[t] = Nil
    /\ state[obj[t]] = Free(0)
    /\ \E k \in Ksem : FAllocate(k) /\ alloc' = [alloc EXCEPT ![t] = k]
    /\ Go(t, "setUser")
    /\ UNCHANGED <<state, cReference, fInUse, user, count, obj, irksem, seen, post, drop>>

FirstSetUser(t) ==
    /\ In(t, "setUser")
    /\ SetUser(alloc[t], obj[t])
    /\ Go(t, "try")
    /\ UNCHANGED <<state, fAvailable, count, obj, irksem, alloc, seen, post, drop>>

FirstWait(t) ==
    /\ In(t, "try") /\ alloc[t] # Nil
    /\ state[obj[t]] = Free(0)
    /\ Change(t, Word(0, 1, alloc[t]))
    /\ Go(t, "wait")
    /\ irksem' = [irksem EXCEPT ![t] = alloc[t]]
    /\ alloc' = [alloc EXCEPT ![t] = Nil]
    /\ UNCHANGED <<pool, count, obj, seen, post, drop>>

\* Another one references the kernel semaphore of the word that it read, and
\* then tries to join.
ReadWaiters(t) ==
    /\ In(t, "try")
    /\ state[obj[t]].cWait > 0
    /\ seen' = [seen EXCEPT ![t] = state[obj[t]]]
    /\ Go(t, "ref")
    /\ UNCHANGED <<state, pool, count, obj, irksem, alloc, post, drop>>

ReferenceSeen(t) ==
    /\ In(t, "ref")
    /\ Reference(seen[t].irksem)
    /\ Go(t, "join")
    /\ UNCHANGED <<state, count, obj, irksem, alloc, seen, post, drop>>

\* Slip: the word has changed, but it still has waiters.
SlipJoin(t) ==
    /\ In(t, "join")
    /\ IF state[obj[t]].cWait > 0
         THEN /\ Change(t, [state[obj[t]] EXCEPT !.cWait = @ + 1])
              /\ Go(t, "wait")
              /\ irksem' = [irksem EXCEPT ![t] = seen[t].irksem]
              /\ drop' = [drop EXCEPT ![t] = alloc[t]]
              /\ alloc' = [alloc EXCEPT ![t] = Nil]
         ELSE /\ drop' = [drop EXCEPT ![t] = seen[t].irksem]
              /\ Go(t, "try")
              /\ UNCHANGED <<state, irksem, alloc>>
    /\ seen' = [seen EXCEPT ![t] = Free(0)]
    /\ UNCHANGED <<pool, count, obj, post>>

Join(t) ==
    /\ In(t, "join")
    /\ IF state[obj[t]] = seen[t]
         THEN /\ Change(t, [seen[t] EXCEPT !.cWait = @ + 1])
              /\ Go(t, "wait")
              /\ irksem' = [irksem EXCEPT ![t] = seen[t].irksem]
              /\ drop' = [drop EXCEPT ![t] = alloc[t]]
              /\ alloc' = [alloc EXCEPT ![t] = Nil]
         ELSE /\ drop' = [drop EXCEPT ![t] = seen[t].irksem]
              /\ Go(t, "try")
              /\ UNCHANGED <<state, irksem, alloc>>
    /\ seen' = [seen EXCEPT ![t] = Free(0)]
    /\ UNCHANGED <<pool, count, obj, post>>

\* The wait for the kernel semaphore completes; or it times out, and whether the
\* thread is still one of the waiters decides what that means.
Wake(t) ==
    /\ In(t, "wait") \/ In(t, "absorb")
    /\ count[irksem[t]] > 0
    /\ count' = [count EXCEPT ![irksem[t]] = @ - 1]
    /\ Done(t)
    /\ drop' = [drop EXCEPT ![t] = irksem[t]]
    /\ irksem' = [irksem EXCEPT ![t] = Nil]
    /\ UNCHANGED <<state, pool, alloc, seen, post>>

TimeOut(t) ==
    /\ In(t, "wait") /\ Kind[obj[t]] # "gate"
    /\ count[irksem[t]] = 0
    /\ Go(t, "timedOut")
    /\ UNCHANGED <<state, pool, count, obj, irksem, alloc, seen, post, drop>>

\* Slip: the count that is on its way is not absorbed.
SlipAfterTimeOut(t) ==
    /\ In(t, "timedOut")
    /\ LET s == state[obj[t]]
       IN  IF s.irksem # irksem[t]
             THEN /\ Done(t)
                  /\ drop' = [drop EXCEPT ![t] = irksem[t]]
                  /\ irksem' = [irksem EXCEPT ![t] = Nil]
                  /\ UNCHANGED state
             ELSE /\ Change(t, IF s.cWait = 1 THEN Free(0) ELSE [s EXCEPT !.cWait = @ - 1])
                  /\ Done(t)
                  /\ drop' = [drop EXCEPT ![t] = irksem[t]]
                  /\ irksem' = [irksem EXCEPT ![t] = Nil]
    /\ UNCHANGED <<pool, count, alloc, seen, post>>

AfterTimeOut(t) ==
    /\ In(t, "timedOut")
    /\ LET s == state[obj[t]]
       IN  IF s.irksem # irksem[t]
             THEN /\ Go(t, "absorb")
                  /\ UNCHANGED <<state, obj, irksem, drop>>
             ELSE /\ Change(t, IF s.cWait = 1 THEN Free(0) ELSE [s EXCEPT !.cWait = @ - 1])
                  /\ Done(t)
                  /\ drop' = [drop EXCEPT ![t] = irksem[t]]
                  /\ irksem' = [irksem EXCEPT ![t] = Nil]
    /\ UNCHANGED <<pool, count, alloc, seen, post>>

-----------------------------------------------------------------------------
(* Waking. *)

\* The word changes, and n waiters are owed a count of their kernel semaphore.
WakeUp(t, o, word, n) ==
    /\ In(t, "idle")
    /\ state' = [state EXCEPT ![o] = word]
    /\ IF n = 0
         THEN UNCHANGED <<at, obj, irksem, post>>
         ELSE /\ Go(t, "post")
              /\ obj' = [obj EXCEPT ![t] = o]
              /\ irksem' = [irksem EXCEPT ![t] = state[o].irksem]
              /\ post' = [post EXCEPT ![t] = n]
    /\ UNCHANGED <<pool, count, alloc, seen, drop>>

\* The word with n waiters less.
Fewer(s, n) == IF s.cWait = n THEN Free(0) ELSE [s EXCEPT !.cWait = @ - n]

\* CSemaphore::Release, FIncAvail and _Release.
Release(t, o, n) ==
    /\ Kind[o] = "semaphore"
    /\ LET s == state[o]
       IN  IF s.cWait <= n
             THEN /\ s.cAvail + n - s.cWait <= MaxAvail
                  /\ WakeUp(t, o, Free(s.cAvail + n - s.cWait), s.cWait)
             ELSE WakeUp(t, o, Fewer(s, n), n)

ReleaseAllWaiters(t, o) ==
    /\ Kind[o] = "semaphore" /\ state[o].cWait > 0
    /\ WakeUp(t, o, Free(0), state[o].cWait)

\* CAutoResetSignal::Set and CManualResetSignal::Set.
Set(t, o) ==
    \/ /\ Kind[o] = "auto"
       /\ IF state[o].cWait = 0 THEN WakeUp(t, o, Free(1), 0)
          ELSE WakeUp(t, o, Fewer(state[o], 1), 1)
    \/ /\ Kind[o] = "manual"
       /\ WakeUp(t, o, Free(1), state[o].cWait)

Reset(t, o) ==
    /\ Kind[o] \in {"auto", "manual"}
    /\ state[o] = Free(1)
    /\ WakeUp(t, o, Free(0), 0)

Post(t) ==
    /\ In(t, "post")
    /\ count' = [count EXCEPT ![irksem[t]] = @ + post[t]]
    /\ Done(t)
    /\ irksem' = [irksem EXCEPT ![t] = Nil]
    /\ post' = [post EXCEPT ![t] = 0]
    /\ UNCHANGED <<state, pool, alloc, seen, drop>>

-----------------------------------------------------------------------------
(* CGate::Wait and CGate::Release.  A critical section is around all but the *)
(* wait and the release of the kernel semaphore.                            *)

GateWait(t, o) ==
    /\ In(t, "idle") /\ Kind[o] = "gate"
    /\ Go(t, "wait")
    /\ obj' = [obj EXCEPT ![t] = o]
    /\ IF state[o].cWait = 0
         THEN \E k \in Ksem : /\ FAllocate(k) /\ SetUser(k, o)
                              /\ state' = [state EXCEPT ![o] = Word(0, 1, k)]
                              /\ irksem' = [irksem EXCEPT ![t] = k]
         ELSE /\ Reference(state[o].irksem)
              /\ state' = [state EXCEPT ![o].cWait = @ + 1]
              /\ irksem' = [irksem EXCEPT ![t] = state[o].irksem]
    /\ UNCHANGED <<count, alloc, seen, post, drop>>

GateRelease(t, o, n) ==
    /\ Kind[o] = "gate"
    /\ n <= state[o].cWait
    /\ WakeUp(t, o, Fewer(state[o], n), n)

-----------------------------------------------------------------------------
Waits(t) ==
    \/ Take(t) \/ NoWait(t) \/ FirstAllocate(t) \/ FirstSetUser(t)
    \/ FirstWait(t)
    \/ ReadWaiters(t) \/ ReferenceSeen(t) \/ Join(t)
    \/ Wake(t) \/ TimeOut(t) \/ AfterTimeOut(t)

Next == \E t \in Thread :
    \/ Waits(t) \/ Post(t) \/ Unreference(t)
    \/ \E o \in Object :
          \/ Begin(t, o) \/ Set(t, o) \/ Reset(t, o)
          \/ ReleaseAllWaiters(t, o) \/ GateWait(t, o)
          \/ \E n \in 1 .. MaxRelease : Release(t, o, n) \/ GateRelease(t, o, n)

Spec == Init /\ [][Next]_vars

-----------------------------------------------------------------------------
TypeOK ==
    /\ state \in [Object -> [cAvail : 0 .. MaxAvail + Cardinality(Thread),
                             cWait : 0 .. Cardinality(Thread), irksem : Ksem \cup {Nil}]]
    /\ cReference \in [Ksem -> Nat] /\ fInUse \in [Ksem -> BOOLEAN]
    /\ fAvailable \in [Ksem -> BOOLEAN] /\ user \in [Ksem -> Object \cup {Nil}]
    /\ count \in [Ksem -> Nat]
    /\ at \in [Thread -> {"idle", "try", "setUser", "ref", "join", "wait",
                          "timedOut", "absorb", "post"}]
    /\ obj \in [Thread -> Object \cup {Nil}]
    /\ irksem \in [Thread -> Ksem \cup {Nil}] /\ alloc \in [Thread -> Ksem \cup {Nil}]
    /\ post \in [Thread -> Nat] /\ drop \in [Thread -> Ksem \cup {Nil}]

Sleeping(k) == {t \in Thread : irksem[t] = k /\ at[t] \in {"wait", "timedOut", "absorb"}}
Posting(k) == {t \in Thread : irksem[t] = k /\ at[t] = "post"}
\* Counts that are, or are about to be, in kernel semaphore k.
Coming(k) == count[k] + MapThenSumSet(LAMBDA t : post[t], Posting(k))
\* Waiters that the words of the objects count on k.
Counted(k) == MapThenSumSet(LAMBDA o : state[o].cWait, {o \in Object : state[o].irksem = k})

-----------------------------------------------------------------------------
(* Properties. *)

\* A kernel semaphore serves one object at a time: whoever waits on it or posts
\* to it does so for the object that it is in use by ("Illegal use of a Kernel
\* Semaphore by another Synchronization Object", the Enforce in Ksem).
RightUser == \A t \in Thread :
    irksem[t] # Nil => fInUse[irksem[t]] /\ user[irksem[t]] = obj[t]

\* What is in the pool is not in use, and no count is left in it; so a new user
\* starts from zero (the Enforces in Allocate, SetUser and Free).
PoolIsReset == \A k \in Ksem :
    fAvailable[k] => ~fInUse[k] /\ count[k] = 0 /\ Coming(k) = 0 /\ Counted(k) = 0

\* Each sleeper is counted exactly once: as a waiter in the word of its object,
\* or by a count that is in its kernel semaphore or on the way there.  So a
\* sleeper whose wait timed out and who is no longer counted finds a count to
\* absorb, and no waiter of the word is without a thread.
SleepersCounted == \A k \in Ksem : Cardinality(Sleeping(k)) = Counted(k) + Coming(k)

\* Semaphores and auto-reset signals as their users see them.
Counting == {o \in Object : Kind[o] \in {"semaphore", "auto"}}
OnCounting(t) == obj[t] \in Counting
Abstract == INSTANCE CountingSemaphore WITH
    Object <- Counting,
    avail <- [o \in Counting |-> state[o].cAvail],
    owed <- [o \in Counting |-> MapThenSumSet(Coming, {k \in Ksem : user[k] = o})],
    waiting <- [t \in Thread |-> IF OnCounting(t) /\ at[t] \notin {"idle", "post"}
                                    THEN obj[t] ELSE Nil],
    asleep <- [t \in Thread |-> OnCounting(t) /\ at[t] \in {"wait", "timedOut", "absorb"}]

\* Each call, by what it returns, and each step of a call.
ReturnsTrue(t) == OnCounting(t) /\ (Take(t) \/ Wake(t))
ReturnsFalse(t) == OnCounting(t) /\ obj'[t] = Nil /\ (NoWait(t) \/ AfterTimeOut(t))
FallsAsleep(t) == OnCounting(t) /\ at'[t] = "wait" /\ (FirstWait(t) \/ Join(t))
Starts(t) == \E o \in Counting : Begin(t, o)
Supplies(t) == \E o \in Counting :
    \/ Set(t, o) \/ Reset(t, o) \/ ReleaseAllWaiters(t, o)
    \/ \E n \in 1 .. MaxRelease : Release(t, o, n)

CallsMatch == \A t \in Thread :
    /\ ReturnsTrue(t) => Abstract!Take(t) \/ Abstract!Wake(t)
    /\ ReturnsFalse(t) => Abstract!TryFails(t) \/ Abstract!GiveUp(t)
    /\ FallsAsleep(t) => Abstract!Sleep(t)
    /\ \A o \in Counting :
          /\ Begin(t, o) => Abstract!Begin(t, o)
          /\ Set(t, o) => Abstract!Set(o)
          /\ Reset(t, o) => Abstract!Reset(o)
          /\ ReleaseAllWaiters(t, o) => Abstract!ReleaseAllWaiters(o)
          /\ \A n \in 1 .. MaxRelease : Release(t, o, n) => Abstract!Release(o, n)
OtherSteps == \A t \in Thread :
    ~(ReturnsTrue(t) \/ ReturnsFalse(t) \/ FallsAsleep(t) \/ Starts(t) \/ Supplies(t))

\* They implement a counting semaphore, call by call: a wait that returns fTrue
\* has taken one count that was available or that it was owed, one that returns
\* fFalse has taken none and leaves none behind, a release adds exactly the
\* counts it is called with, and no other step makes, moves or loses a count.
\* (Every step is paired with the step of CountingSemaphore that it must be, so
\* CountingSemaphore needs no next-state relation of its own.)
ImplementsSemaphore ==
    /\ Abstract!Init
    /\ [][CallsMatch /\ (OtherSteps => UNCHANGED Abstract!vars)]_vars
=============================================================================
