--------------------------- MODULE MCTransactions ---------------------------
(***************************************************************************)
(* What transactions are numbered, ordered and cleaned up with, for TLC:   *)
(* TrxOldest, TrxNumber and VersionBuckets.  They share no state; a        *)
(* behaviour belongs to one scenario and leaves the variables of the other *)
(* modules alone.                                                          *)
(***************************************************************************)
EXTENDS VersionBuckets, TLC

CONSTANTS
    Scenarios, s1, s2, w1, w2, g, d, t, db1, db2,
    TrxSession, Caller, cProcs, trxInfinite, trxLast,  \* of TrxOldest
    trxHalf, trxFirst, trxEnd,                    \* of TrxNumber, for transactions
    rceidHalf, rceidFirst, rceidEnd               \* of TrxNumber, for versions

\* trxInfinite, the trxMax of TrxOldest, is above every number that is drawn.  The
\* words have an even number of
\* values that are a multiple of the steps, and m_trxNewest and m_rceidLast start
\* at a multiple of TRXID_INCR and at an odd number.
ASSUME TransactionsAssumption ==
    /\ none \notin TrxSession \cup Caller
    /\ cProcs \in Nat \ {0}
    /\ trxLast \in Nat /\ trxInfinite \in Nat /\ trxLast + 4 <= trxInfinite
    /\ trxHalf \in Nat \ {0} /\ trxHalf % 4 = 0
    /\ trxFirst \in Nat /\ trxFirst % 4 = 0 /\ trxEnd \in Nat
    /\ rceidHalf \in Nat \ {0} /\ rceidHalf % 2 = 0
    /\ rceidFirst \in Nat /\ rceidFirst % 2 = 1 /\ rceidEnd \in Nat

VARIABLES
    scenario,
    toNewest, trxBegin0, ppls, toList, writer, toPc, stale, cached, crit, call, locked, seen,
    tnNewest, live, rceidLast, made, chain

TO == INSTANCE TrxOldest WITH Session <- TrxSession, trxMax <- trxInfinite,
    trxNewest <- toNewest, list <- toList, pc <- toPc

\* A DWORD of a few bits, so that the counters wrap more than once.
TN == INSTANCE TrxNumber WITH Half <- trxHalf, Last <- trxEnd, trxNewest <- tnNewest
RN == INSTANCE TrxNumber WITH Half <- rceidHalf, Last <- rceidEnd, trxNewest <- tnNewest

\* A session runs out of buckets; waiting for a cleanup may time out.
Alloc == INSTANCE VersionBuckets WITH Session <- {s1}, Worker <- {w1, w2},
    Signaller <- {}, Detacher <- {}, Terminator <- {}, Db <- {db1},
    crceBucket <- 2, cbucketMost <- 2, cbucketAllowed <- 1, crceMax <- 5, fTimeouts <- TRUE

\* One database is cleaned while another one is in use.
Detaching == INSTANCE VersionBuckets WITH Session <- {s1}, Worker <- {w1},
    Signaller <- {}, Detacher <- {d}, Terminator <- {}, Db <- {db1, db2},
    crceBucket <- 1, cbucketMost <- 3, cbucketAllowed <- 1, crceMax <- 3, fTimeouts <- FALSE

\* Waiting for a cleanup has no timeout.
NoTimeout == INSTANCE VersionBuckets WITH Session <- {s1, s2}, Worker <- {w1},
    Signaller <- {}, Detacher <- {}, Terminator <- {}, Db <- {db1},
    crceBucket <- 1, cbucketMost <- 2, cbucketAllowed <- 1, crceMax <- 3, fTimeouts <- FALSE

\* The instance shuts down.
Shutdown == INSTANCE VersionBuckets WITH Session <- {s1}, Worker <- {w1},
    Signaller <- {g}, Detacher <- {}, Terminator <- {t}, Db <- {db1},
    crceBucket <- 1, cbucketMost <- 2, cbucketAllowed <- 1, crceMax <- 2, fTimeouts <- FALSE

to == <<toNewest, trxBegin0, ppls, toList, writer, toPc, stale, cached, crit, call, locked, seen>>
tn == <<tnNewest, live, rceidLast, made, chain>>
mcvars == <<scenario, vars, to, tn>>

MCInit ==
    /\ scenario \in Scenarios
    /\ Init
    /\ TO!Init
    /\ IF scenario = "rceids" THEN RN!Init ELSE TN!Init

OnBuckets(s, A) == scenario = s /\ A /\ UNCHANGED <<to, tn>>

MCNext ==
    /\ UNCHANGED scenario
    /\ \/ scenario = "oldest" /\ TO!Next /\ UNCHANGED <<vars, tn>>
       \/ scenario = "trxs" /\ TN!TrxNext /\ UNCHANGED <<vars, to>>
       \/ scenario = "rceids" /\ RN!RceNext /\ UNCHANGED <<vars, to>>
       \/ OnBuckets("alloc", Alloc!Next)
       \/ OnBuckets("detach", Detaching!Next)
       \/ OnBuckets("notimeout", NoTimeout!Next)
       \/ OnBuckets("shutdown", Shutdown!Next)

MCSpec == MCInit /\ [][MCNext]_mcvars

\* Fairness, in the two scenarios that are about progress: a thread that is
\* inside an operation is scheduled, sessions and the shutdown get a lock that is
\* free again and again, and a posted task gets a thread.
Inside(u) ==
    /\ scenario \in {"notimeout", "shutdown"} /\ pc[u] # "idle"
    /\ \/ scenario = "notimeout" /\ NoTimeout!Step(u)
       \/ scenario = "shutdown" /\ Shutdown!Step(u)
    /\ UNCHANGED <<scenario, to, tn>>

MCFairness ==
    /\ SF_mcvars(Inside(s1)) /\ SF_mcvars(Inside(s2) \/ Inside(t))
    /\ WF_mcvars(Inside(w1)) /\ WF_mcvars(Inside(g))
    /\ WF_mcvars(/\ \/ scenario = "notimeout" /\ NoTimeout!RunTask(w1)
                    \/ scenario = "shutdown" /\ Shutdown!RunTask(w1)
                 /\ UNCHANGED <<scenario, to, tn>>)

MCFairSpec == MCSpec /\ MCFairness

-----------------------------------------------------------------------------
\* The cached oldest transaction is never ahead of a listed one and exact when
\* nothing is pending, and each list is in the order of the numbers.
OldestSound ==
    scenario = "oldest" => TO!TypeOK /\ TO!CacheNotAhead /\ TO!ListsOrdered /\ TO!CacheExact

\* TrxOldest is linearizable.
ReturnsOldest == TO!ReturnsOldest

\* Numbers of transactions are ordered as they were drawn, across wraparounds,
\* and none has a special meaning.
TrxOrder == scenario = "trxs" => TN!TrxOrder /\ TN!NeverSpecial

\* Recovery links the versions of a node in the order of their creation.
ChainInOrder == scenario = "rceids" => RN!ChainInOrder

\* An allocation comes back although the wait for a cleanup has no timeout.
AllocEnds == scenario = "notimeout" => AllocReturns

\* A shutdown ends or is refused.
TermEnds == scenario = "shutdown" => TermReturns
=============================================================================
