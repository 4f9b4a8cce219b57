------------------------------ MODULE MCLocks ------------------------------
(***************************************************************************)
(* The primitives of the synchronization library, and the range locks, for *)
(* TLC.  They share no state, so a behaviour uses one of them and leaves   *)
(* the others as they were created.                                        *)
(***************************************************************************)
EXTENDS SXWLatch, TLC

CONSTANTS
    Primitive,   \* the primitives to check
    Locker,      \* the threads that lock ranges; the other ones write pages
    Page, MaxActive,
    Sleeper, Ksem, MaxAvail, MaxRelease,
    a, b, c, d,  \* one synchronization object of each class
    Nil

\* Pages have numbers, and threads are not Nil.
ASSUME LocksAssumption ==
    Locker \subseteq Thread /\ Nil \notin Thread /\ Page \subseteq Nat /\ MaxActive \in Nat

VARIABLES
    primitive,   \* the one that is used
    fQR, cOOWR, fQW, cOAOWW, rwOwner, semReader, semWriter, lock, rwTodo,
    fQ, cOOW, blOwner, sem, owns, waits, blTodo,
    groupCurrent, cIn, key, signal, semOwner, ranges, crangeMax, at, group,
    page, range, enters, completes,
    state, cReference, fInUse, fAvailable, user, count, soAt, obj, irksem,
    alloc, seen, post, drop

RW == INSTANCE ReaderWriterLock WITH cOwner <- rwOwner, todo <- rwTodo
BL == INSTANCE BinaryLock WITH cOwner <- blOwner, todo <- blTodo
RL == INSTANCE RangeLock WITH Writer <- Thread \ Locker

SO == INSTANCE SyncObject WITH
    Thread <- Sleeper, Object <- {a, b, c, d}, at <- soAt,
    Kind <- (a :> "semaphore") @@ (b :> "auto") @@ (c :> "manual") @@ (d :> "gate")

sxw == vars
rw == <<fQR, cOOWR, fQW, cOAOWW, rwOwner, semReader, semWriter, lock, rwTodo>>
bl == <<fQ, cOOW, blOwner, sem, owns, waits, blTodo>>
rl == <<groupCurrent, cIn, key, signal, semOwner, ranges, crangeMax, at, group,
        page, range, enters, completes>>
so == <<state, cReference, fInUse, fAvailable, user, count, soAt, obj, irksem,
        alloc, seen, post, drop>>
all == <<primitive, sxw, rw, bl, rl, so>>

LocksInit ==
    /\ primitive \in Primitive
    /\ Init /\ RW!Init /\ BL!Init /\ RL!Init /\ SO!Init

OnLatch(A) == primitive = "SXWLatch" /\ A /\ UNCHANGED <<primitive, rw, bl, rl, so>>
OnRWLock(A) == primitive = "ReaderWriterLock" /\ A /\ UNCHANGED <<primitive, sxw, bl, rl, so>>
OnBinaryLock(A) == primitive = "BinaryLock" /\ A /\ UNCHANGED <<primitive, sxw, rw, rl, so>>
OnRangeLock(A) == primitive = "RangeLock" /\ A /\ UNCHANGED <<primitive, sxw, rw, bl, so>>
\* Threads use two of the synchronization objects at a time.
OnSyncObjects(name, A, unused) ==
    /\ primitive = name /\ A /\ UNCHANGED <<primitive, sxw, rw, bl, rl>>
    /\ \A o \in unused : state'[o] = state[o]
    /\ \A t \in Sleeper : obj'[t] \notin unused
OnSemaphores(A) == OnSyncObjects("Semaphores", A, {c, d})
OnGates(A) == OnSyncObjects("Gates", A, {a, b})

\* All threads may end up asleep at a gate.
Asleep == \A t \in Sleeper : soAt[t] = "wait"

LocksNext ==
    \/ OnLatch(Next)
    \/ OnRWLock(RW!Next)
    \/ OnBinaryLock(BL!Next)
    \/ OnRangeLock(RL!Next)
    \/ OnSemaphores(SO!Next)
    \/ OnGates(SO!Next \/ (Asleep /\ UNCHANGED so))

LocksSpec == LocksInit /\ [][LocksNext]_all

\* The fairness of each primitive.  A thread uses one of them, so the strong
\* fairness of its wait, and of its giving up what it owns, is stated for all
\* at once.
LocksFairness ==
    /\ \A t \in Thread :
          /\ WF_sxw(Finish(t))
          /\ WF_rw(RW!HandOver(t)) /\ WF_rw(RW!Leave(t))
          /\ WF_bl(BL!HandOver(t)) /\ \A g \in {1, 2} : WF_bl(BL!Leave(t, g))
          /\ WF_rl(RL!PartitionComplete(t))
          /\ SF_all(OnLatch(Wait(t)) \/ OnRWLock(RW!Wait(t)) \/ OnBinaryLock(BL!Wait(t)))
          /\ SF_all(OnLatch(ReleaseLatch(t)) \/ (t \in Locker /\ OnRangeLock(RL!RangeUnlock(t))))
    /\ \A t \in Thread \ Locker : WF_rl(RL!Writes(t))
    /\ \A t \in Locker : WF_rl(RL!Locks(t))

LocksFairSpec == LocksSpec /\ LocksFairness

Symmetry == Permutations(Sleeper) \cup Permutations(Ksem)

-----------------------------------------------------------------------------
\* The reader / writer lock implements a lock with shared and exclusive owners.
RWImplementsLatch == RW!ImplementsLatch

\* The control words of the reader / writer lock and of the binary lock are
\* legal, the counts that are spread over control word, m_cOwner and
\* semaphores agree, no wake-up is lost and none is left over.
LockCountsAgree ==
    /\ RW!TypeOK /\ RW!CountsAgree /\ RW!NoLostWakeup /\ RW!NoSpareCount
    /\ BL!TypeOK /\ BL!LegalState /\ BL!CountsAgree

\* All owners of a binary lock are of one group, through every hand-over.
GroupsExclude == BL!MutualExclusion

\* Every thread that waits for a latch, for a reader / writer lock as reader or
\* writer, or for a binary lock in either group, gets it.
AllServed == WaitersServed /\ RW!WaitersServed /\ BL!WaitersServed

\* No page of a range that is locked is being written.
NoWriteInLockedRange == RL!NoWriteInLockedRange

\* The array of ranges does not change under a thread that looks at it, it is
\* rewritten only when nobody can look, and it holds what is locked.
RangeArrays == RL!TypeOK /\ RL!ArrayIsStable /\ RL!NobodyInOldGroup /\ RL!RangesAgree

\* Who holds m_semRangeLock gives it up, and who locks a range gets to unlock it.
RangesReleased == RL!SemaphoreReleased

\* Semaphores and auto-reset signals implement counting semaphores, although
\* their waits time out while they are being served.
ImplementsSemaphore == SO!ImplementsSemaphore

\* Kernel semaphores go from one object to another without a count, a waiter or
\* a late release left over, and every sleeper is counted once.
PoolIsSound == SO!TypeOK /\ SO!RightUser /\ SO!PoolIsReset /\ SO!SleepersCounted
=============================================================================
