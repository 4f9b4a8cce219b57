------------------------------ MODULE SXWLatch ------------------------------
(***************************************************************************)
(* The S / X / W latch of the synchronization library (class CSXWLatch,    *)
(* published/inc/sync.hxx): the latch the buffer manager puts on every     *)
(* cached page.  Shared owners may coexist with each other and with one    *)
(* exclusive owner; a write owner is alone.                                *)
(*                                                                         *)
(* The code keeps three pieces of state that no single instruction updates *)
(* together: the 32-bit control word m_cw, the count m_cQS of quiesced     *)
(* shared latches, and three counting semaphores.  One interlocked         *)
(* instruction is one step of the model; what an operation does after it   *)
(* (the update of m_cQS, the releases of the semaphores) is kept as work   *)
(* the thread still has to do, and every other thread may run in between.  *)
(*                                                                         *)
(* A compare-exchange loop is the one step of its successful iteration.    *)
(* An attempt that fails with errLatchConflict changes nothing, so it is a *)
(* stuttering step and has no action.                                      *)
(***************************************************************************)
EXTENDS Integers, FiniteSets

CONSTANT Thread     \* the execution contexts that use the latch

\* m_cOOWS has 15 bits, and AssertValid takes 0x7fff for an underflow: a latch
\* works only while fewer contexts than that can want it at once.
ASSUME ThreadAssumption == IsFiniteSet(Thread) /\ Cardinality(Thread) < 32767

VARIABLES
    cw,      \* State().m_cw
    cQS,     \* State().m_cQS: a DWORD, read here as the signed number it wraps to
    semS,    \* the available counts of m_semS,
    semX,    \* m_semX
    semW,    \* and m_semW
    latch,   \* what each thread owns, or is a declared waiter for
    dQ,      \* the update of m_cQS that the thread has yet to make (0: none)
    postS,   \* the counts it has yet to release to m_semS
    postX,   \* the threads that have yet to release m_semX
    postW    \* and m_semW

vars == <<cw, cQS, semS, semX, semW, latch, dQ, postS, postX, postW>>
sems == <<semS, semX, semW>>
todo == <<dQ, postS, postX, postW>>

-----------------------------------------------------------------------------
(* The control word *)

OneS == 1           \* 0x00000001: one shared owner or waiter
FlagQS == 32768     \* 0x00008000: shared latches are quiesced
OneX == 65536       \* 0x00010000: one exclusive owner or waiter

COOWS(w) == w % FlagQS              \* m_cOOWS, owners or waiters of shared
FQS(w) == (w \div FlagQS) % 2       \* m_fQS
COAWX(w) == w \div OneX             \* m_cOAWX, owner and waiters of exclusive

-----------------------------------------------------------------------------

Owning == {"S", "X", "W"}
Waiting == {"waitS", "waitX", "waitW"}

TypeOK ==
    /\ cw \in Nat
    /\ cQS \in Int
    /\ semS \in Nat /\ semX \in Nat /\ semW \in Nat
    /\ latch \in [Thread -> {"none"} \cup Owning \cup Waiting]
    /\ dQ \in [Thread -> Int]
    /\ postS \in [Thread -> Nat]
    /\ postX \subseteq Thread
    /\ postW \subseteq Thread

Init ==
    /\ cw = 0 /\ cQS = 0
    /\ semS = 0 /\ semX = 0 /\ semW = 0
    /\ latch = [t \in Thread |-> "none"]
    /\ dQ = [t \in Thread |-> 0]
    /\ postS = [t \in Thread |-> 0]
    /\ postX = {} /\ postW = {}

\* The thread is not in the middle of an operation.
Idle(t) == dQ[t] = 0 /\ postS[t] = 0 /\ t \notin postX /\ t \notin postW

Owns(t, m) == Idle(t) /\ latch[t] = m

Become(t, m) == latch' = [latch EXCEPT ![t] = m]

-----------------------------------------------------------------------------
(* Acquiring *)

\* Slip: the new shared owner does not look at the quiesced flag.
AcquireSharedIgnoringQuiesce(t) ==
    /\ Owns(t, "none")
    /\ cw' = cw + OneS
    /\ Become(t, "S")
    /\ UNCHANGED <<cQS, sems, todo>>

ErrAcquireSharedLatch(t) ==
    /\ Owns(t, "none")
    /\ cw' = cw + OneS
    /\ Become(t, IF FQS(cw) = 1 THEN "waitS" ELSE "S")
    /\ UNCHANGED <<cQS, sems, todo>>

ErrTryAcquireSharedLatch(t) ==
    /\ Owns(t, "none")
    /\ FQS(cw) = 0
    /\ cw' = cw + OneS
    /\ Become(t, "S")
    /\ UNCHANGED <<cQS, sems, todo>>

ErrAcquireExclusiveLatch(t) ==
    /\ Owns(t, "none")
    /\ cw' = cw + OneX
    /\ Become(t, IF COAWX(cw) # 0 THEN "waitX" ELSE "X")
    /\ UNCHANGED <<cQS, sems, todo>>

ErrTryAcquireExclusiveLatch(t) ==
    /\ Owns(t, "none")
    /\ COAWX(cw) = 0
    /\ cw' = cw + OneX
    /\ Become(t, "X")
    /\ UNCHANGED <<cQS, sems, todo>>

ErrTryAcquireWriteLatch(t) ==
    /\ Owns(t, "none")
    /\ cw = 0
    /\ cw' = OneX + FlagQS
    /\ Become(t, "W")
    /\ UNCHANGED <<cQS, sems, todo>>

-----------------------------------------------------------------------------
(* Upgrading *)

ErrUpgradeSharedLatchToExclusiveLatch(t) ==
    /\ Owns(t, "S")
    /\ COAWX(cw) = 0
    /\ cw' = cw + OneX - OneS
    /\ Become(t, "X")
    /\ UNCHANGED <<cQS, sems, todo>>

\* The before image is compared whole with 1: nothing but our own shared latch.
ErrUpgradeSharedLatchToWriteLatch(t) ==
    /\ Owns(t, "S")
    /\ COAWX(cw) = 0
    /\ cw' = OneX + FlagQS
    /\ Become(t, IF cw # OneS THEN "waitW" ELSE "W")
    /\ dQ' = [dQ EXCEPT ![t] = cw - 1]
    /\ UNCHANGED <<cQS, sems, postS, postX, postW>>

\* Slip: the exclusive owner does not wait for the shared owners to leave.
UpgradeExclusiveWithoutWait(t) ==
    /\ Owns(t, "X")
    /\ cw' = COAWX(cw) * OneX + FlagQS
    /\ Become(t, "W")
    /\ dQ' = [dQ EXCEPT ![t] = COOWS(cw)]
    /\ UNCHANGED <<cQS, sems, postS, postX, postW>>

ErrUpgradeExclusiveLatchToWriteLatch(t) ==
    /\ Owns(t, "X")
    /\ cw' = COAWX(cw) * OneX + FlagQS
    /\ Become(t, IF COOWS(cw) # 0 THEN "waitW" ELSE "W")
    /\ dQ' = [dQ EXCEPT ![t] = COOWS(cw)]
    /\ UNCHANGED <<cQS, sems, postS, postX, postW>>

\* Slip: only the exclusive count is tested, not the other shared owners.
TryUpgradeSharedAmongReaders(t) ==
    /\ Owns(t, "S")
    /\ COAWX(cw) = 0
    /\ cw' = OneX + FlagQS
    /\ Become(t, "W")
    /\ UNCHANGED <<cQS, sems, todo>>

ErrTryUpgradeSharedLatchToWriteLatch(t) ==
    /\ Owns(t, "S")
    /\ cw = OneS
    /\ cw' = OneX + FlagQS
    /\ Become(t, "W")
    /\ UNCHANGED <<cQS, sems, todo>>

ErrTryUpgradeExclusiveLatchToWriteLatch(t) ==
    /\ Owns(t, "X")
    /\ cw = OneX
    /\ cw' = OneX + FlagQS
    /\ Become(t, "W")
    /\ UNCHANGED <<cQS, sems, todo>>

-----------------------------------------------------------------------------
(* Downgrading and releasing *)

\* Every shared latch counted in the before image was quiesced: wake them all.
WakeShared(t) == postS' = [postS EXCEPT ![t] = COOWS(cw)]

\* The before image shows another exclusive owner or waiter: wake one.
WakeExclusive(t) == postX' = IF cw >= 2 * OneX THEN postX \cup {t} ELSE postX

\* Slip: the quiesced shared waiters are not woken.
DowngradeToExclusiveWithoutWake(t) ==
    /\ Owns(t, "W")
    /\ cw' = cw - FlagQS
    /\ Become(t, "X")
    /\ UNCHANGED <<cQS, sems, todo>>

DowngradeWriteLatchToExclusiveLatch(t) ==
    /\ Owns(t, "W")
    /\ cw' = cw - FlagQS
    /\ Become(t, "X")
    /\ WakeShared(t)
    /\ UNCHANGED <<cQS, sems, dQ, postX, postW>>

\* Slip: the shared latch that the downgrade keeps is not counted.
DowngradeToUncountedShared(t) ==
    /\ Owns(t, "W")
    /\ cw' = cw - FlagQS - OneX
    /\ Become(t, "S")
    /\ WakeShared(t)
    /\ WakeExclusive(t)
    /\ UNCHANGED <<cQS, sems, dQ, postW>>

DowngradeWriteLatchToSharedLatch(t) ==
    /\ Owns(t, "W")
    /\ cw' = cw - FlagQS - OneX + OneS
    /\ Become(t, "S")
    /\ WakeShared(t)
    /\ WakeExclusive(t)
    /\ UNCHANGED <<cQS, sems, dQ, postW>>

DowngradeExclusiveLatchToSharedLatch(t) ==
    /\ Owns(t, "X")
    /\ cw' = cw - OneX + OneS
    /\ Become(t, "S")
    /\ WakeExclusive(t)
    /\ UNCHANGED <<cQS, sems, dQ, postS, postW>>

ReleaseWriteLatch(t) ==
    /\ Owns(t, "W")
    /\ cw' = cw - FlagQS - OneX
    /\ Become(t, "none")
    /\ WakeShared(t)
    /\ WakeExclusive(t)
    /\ UNCHANGED <<cQS, sems, dQ, postW>>

ReleaseExclusiveLatch(t) ==
    /\ Owns(t, "X")
    /\ cw' = cw - OneX
    /\ Become(t, "none")
    /\ WakeExclusive(t)
    /\ UNCHANGED <<cQS, sems, dQ, postS, postW>>

\* A shared latch that a writer displaced from the control word is given back
\* through m_cQS instead, in a second interlocked instruction.
ReleaseSharedLatch(t) ==
    /\ Owns(t, "S")
    /\ Become(t, "none")
    /\ \/ FQS(cw) = 0 /\ cw' = cw - OneS /\ dQ' = dQ
       \/ FQS(cw) = 1 /\ cw' = cw /\ dQ' = [dQ EXCEPT ![t] = -1]
    /\ UNCHANGED <<cQS, sems, postS, postX, postW>>

-----------------------------------------------------------------------------
(* The rest of an operation, and the waits *)

\* Slip: only a leaving reader looks for zero; the writer that adds the count of
\* readers who have all left already waits for ever.
UpdateQuiescedReadersOnly(t) ==
    /\ dQ[t] # 0
    /\ cQS' = cQS + dQ[t]
    /\ dQ' = [dQ EXCEPT ![t] = 0]
    /\ postW' = IF dQ[t] < 0 /\ cQS + dQ[t] = 0 THEN postW \cup {t} ELSE postW
    /\ UNCHANGED <<cw, sems, latch, postS, postX>>

_UpdateQuiescedSharedLatchCount(t) ==
    /\ dQ[t] # 0
    /\ cQS' = cQS + dQ[t]
    /\ dQ' = [dQ EXCEPT ![t] = 0]
    /\ postW' = IF cQS + dQ[t] = 0 THEN postW \cup {t} ELSE postW
    /\ UNCHANGED <<cw, sems, latch, postS, postX>>

ReleaseSemS(t) ==
    /\ postS[t] # 0
    /\ semS' = semS + postS[t]
    /\ postS' = [postS EXCEPT ![t] = 0]
    /\ UNCHANGED <<cw, cQS, semX, semW, latch, dQ, postX, postW>>

\* m_semX is released after m_semS.
ReleaseSemX(t) ==
    /\ t \in postX
    /\ postS[t] = 0
    /\ semX' = semX + 1
    /\ postX' = postX \ {t}
    /\ UNCHANGED <<cw, cQS, semS, semW, latch, dQ, postS, postW>>

ReleaseSemW(t) ==
    /\ t \in postW
    /\ semW' = semW + 1
    /\ postW' = postW \ {t}
    /\ UNCHANGED <<cw, cQS, semS, semX, latch, dQ, postS, postX>>

WaitForSharedLatch(t) ==
    /\ Owns(t, "waitS")
    /\ semS > 0
    /\ semS' = semS - 1
    /\ Become(t, "S")
    /\ UNCHANGED <<cw, cQS, semX, semW, todo>>

WaitForExclusiveLatch(t) ==
    /\ Owns(t, "waitX")
    /\ semX > 0
    /\ semX' = semX - 1
    /\ Become(t, "X")
    /\ UNCHANGED <<cw, cQS, semS, semW, todo>>

WaitForWriteLatch(t) ==
    /\ Owns(t, "waitW")
    /\ semW > 0
    /\ semW' = semW - 1
    /\ Become(t, "W")
    /\ UNCHANGED <<cw, cQS, semS, semX, todo>>

-----------------------------------------------------------------------------

Acquire(t) ==
    \/ ErrAcquireSharedLatch(t)
    \/ ErrTryAcquireSharedLatch(t)
    \/ ErrAcquireExclusiveLatch(t)
    \/ ErrTryAcquireExclusiveLatch(t)
    \/ ErrTryAcquireWriteLatch(t)

Upgrade(t) ==
    \/ ErrUpgradeSharedLatchToExclusiveLatch(t)
    \/ ErrUpgradeSharedLatchToWriteLatch(t)
    \/ ErrUpgradeExclusiveLatchToWriteLatch(t)
    \/ ErrTryUpgradeSharedLatchToWriteLatch(t)
    \/ ErrTryUpgradeExclusiveLatchToWriteLatch(t)

Downgrade(t) ==
    \/ DowngradeWriteLatchToExclusiveLatch(t)
    \/ DowngradeWriteLatchToSharedLatch(t)
    \/ DowngradeExclusiveLatchToSharedLatch(t)

ReleaseLatch(t) ==
    \/ ReleaseWriteLatch(t)
    \/ ReleaseExclusiveLatch(t)
    \/ ReleaseSharedLatch(t)

Finish(t) ==
    \/ _UpdateQuiescedSharedLatchCount(t)
    \/ ReleaseSemS(t)
    \/ ReleaseSemX(t)
    \/ ReleaseSemW(t)

Wait(t) ==
    \/ WaitForSharedLatch(t)
    \/ WaitForExclusiveLatch(t)
    \/ WaitForWriteLatch(t)

Next == \E t \in Thread :
    Acquire(t) \/ Upgrade(t) \/ Downgrade(t) \/ ReleaseLatch(t) \/ Finish(t) \/ Wait(t)

Spec == Init /\ [][Next]_vars

(***************************************************************************)
(* A thread that is inside an operation finishes it; a thread that waits   *)
(* on a semaphore gets a count if counts keep coming (a kernel semaphore   *)
(* does not pass over a waiter for ever); an owner gives the latch back in *)
(* the end, however often it upgrades and downgrades first.                *)
(***************************************************************************)
Fairness == \A t \in Thread :
    /\ WF_vars(Finish(t))
    /\ SF_vars(Wait(t))
    /\ SF_vars(ReleaseLatch(t))

FairSpec == Spec /\ Fairness

-----------------------------------------------------------------------------
(* Counting *)

At(M) == {t \in Thread : latch[t] \in M}
XOwner == {"X", "W", "waitW"}       \* a waiting writer has the exclusive latch
Writer == {"W", "waitW"}

Count(M) == Cardinality(At(M))

NS == Count({"S"})                              \* shared owners,
NWaitS == Count({"waitS"})                      \* waiters,
NShared == Count({"S", "waitS"})                \* and both
NX == Count(XOwner)                             \* exclusive (and write) owners,
NWaitX == Count({"waitX"})                      \* waiters,
NExclusive == Count({"waitX"} \cup XOwner)      \* and both
NW == Count(Writer)                             \* write owners and waiters

\* Quiesced owners that are about to leave.
Leaving == {t \in Thread : dQ[t] = -1}

\* At most one thread owes counts to m_semS.
OnePost == \A t, u \in Thread : postS[t] # 0 /\ postS[u] # 0 => t = u

\* The counts that a downgrade or release of the write latch still has to give
\* to m_semS.
PendingS == IF \E t \in Thread : postS[t] # 0
            THEN postS[CHOOSE t \in Thread : postS[t] # 0]
            ELSE 0

\* Shared latches that are out: owned, granted by a count that its waiter has
\* not picked up yet, or owned by a thread on its way out through m_cQS.
Granted == NS + Cardinality(Leaving) + semS + PendingS

-----------------------------------------------------------------------------
(* Properties *)

\* The promise of the latch (the comment block above CSXWLatch): a write owner
\* is alone, and there is one exclusive owner.  A thread that waits for the
\* write latch has kept or taken the exclusive latch.
MutualExclusion == \A t, u \in Thread : t # u =>
    /\ latch[t] = "W" => latch[u] \notin Owning
    /\ latch[t] \in {"X", "waitW"} => latch[u] \notin {"X", "waitW", "W"}

\* What AssertValid enforces of the control word at its call sites: the fields
\* never borrow from each other, an exclusive owner or waiter is counted, and
\* shared latches stay quiesced while a writer owns or waits, while a quiesced
\* owner is leaving and while somebody is about to wake the writer.
AssertValid ==
    /\ COOWS(cw) # 32767 /\ COAWX(cw) < 65535
    /\ \A t \in Thread :
         /\ latch[t] \in {"X", "waitX"} => COAWX(cw) # 0
         /\ latch[t] \in {"W", "waitW"} => COAWX(cw) # 0 /\ FQS(cw) = 1
         /\ dQ[t] # 0 => FQS(cw) = 1
         /\ t \in postW => FQS(cw) = 1

\* No lost wake-up.  A declared waiter always has something to wait for: the
\* owner that blocks it, a count in its semaphore, or a thread that is about to
\* release one.
NoLostWakeup ==
    /\ At({"waitX"}) # {} => At(XOwner) # {} \/ postX # {} \/ semX > 0
    /\ At({"waitS"}) # {} => At(Writer) # {} \/ PendingS > 0 \/ semS > 0
    /\ At({"waitW"}) # {} => Granted > 0 \/ postW # {} \/ semW > 0
                            \/ \E t \in At({"waitW"}) : dQ[t] # 0

\* No surplus wake-up: a semaphore never holds a count, nor is one on its way,
\* that has no waiter; a later waiter would take it without the latch.
NoSpareCount ==
    /\ semS + PendingS <= NWaitS
    /\ semX + Cardinality(postX) <= NWaitX
    /\ semW + Cardinality(postW) <= Count({"waitW"})

\* Once shared latches are quiesced the writer's wait only gets shorter: no
\* step that leaves fQS set lets one more shared latch out, although waiters of
\* this quiescence may take the counts meant for waiters of the one before.
QuiescenceDrains ==
    [][FQS(cw) = 1 /\ FQS(cw)' = 1 => Granted' <= Granted]_vars

\* Every declared waiter is served, so a writer is not starved by readers that
\* keep coming, nor readers by writers.
WaitersServed == \A t \in Thread :
    /\ latch[t] = "waitS" ~> latch[t] = "S"
    /\ latch[t] = "waitX" ~> latch[t] = "X"
    /\ latch[t] = "waitW" ~> latch[t] = "W"

-----------------------------------------------------------------------------
(***************************************************************************)
(* Why it works: the counts that the scattered state keeps between them.   *)
(***************************************************************************)

\* m_cOAWX counts the exclusive owner and waiters, and while there are any,
\* exactly one of these is true: there is an owner, a count is in m_semX, or
\* somebody is about to put it there.
ExclusiveCounts ==
    /\ COAWX(cw) = NExclusive
    /\ NExclusive = NWaitX + NX
    /\ NX + semX + Cardinality(postX) = IF COAWX(cw) = 0 THEN 0 ELSE 1

\* m_fQS is set exactly while there is a writer.  While it is clear m_cOOWS
\* counts owners and waiters and every waiter is already granted; while it is
\* set m_cOOWS counts only the waiters that no count is meant for.
SharedCounts ==
    /\ FQS(cw) = NW
    /\ NShared = NS + NWaitS
    /\ OnePost
    /\ FQS(cw) = 0 => /\ COOWS(cw) = NShared
                      /\ NWaitS = semS + PendingS
                      /\ cQS = 0
                      /\ Leaving = {}
    /\ FQS(cw) = 1 => COOWS(cw) + semS + PendingS = NWaitS

\* m_cQS and the update its writer has yet to make add up to the shared latches
\* that are still out, and the writer's wake-up is under way exactly when both
\* are zero: the readers that leave before the writer has added the count they
\* leave from take m_cQS below zero and wake nobody.
WriterCounts ==
    /\ \A t \in Thread : dQ[t] # 0 => \/ dQ[t] = -1 /\ latch[t] = "none"
                                      \/ dQ[t] > 0 /\ latch[t] = "waitW" /\ cQS <= 0
    /\ \A t \in At(Writer) : Granted = cQS + dQ[t]
    /\ \A t \in At({"W"}) : cQS = 0 /\ dQ[t] = 0
    /\ semW + Cardinality(postW) =
          IF \E t \in At({"waitW"}) : dQ[t] = 0 /\ cQS = 0 THEN 1 ELSE 0

\* The inductive invariant: the scattered counters of the latch agree.
CountsAgree == ExclusiveCounts /\ SharedCounts /\ WriterCounts

-----------------------------------------------------------------------------
\* What a client sees: a waiter owns nothing yet, but one that waits for the
\* write latch has the exclusive latch.
Mode(m) == CASE m \in {"waitS", "waitX"} -> "none"
             [] m = "waitW" -> "X"
             [] OTHER -> m

Client == INSTANCE Latch WITH mode <- [t \in Thread |-> Mode(latch[t])]

\* The three counters and the hand-overs through semaphores implement a latch
\* whose mode changes are single steps, each legal when it happens.
ImplementsLatch == Client!Spec
=============================================================================
