--------------------------- MODULE VersionBuckets ---------------------------
(***************************************************************************)
(* The memory of the version store and its cleanup (ver.cxx).              *)
(*                                                                         *)
(* RCEs are cut from the newest of a list of buckets.  A session that      *)
(* needs a new bucket asks for a cleanup, and when the quota is used up    *)
(* waits for one.  Cleanup runs as a task, in a detach for one database,   *)
(* and at shutdown; it walks the buckets from the oldest, nullifies what   *)
(* no transaction needs and frees the buckets it has emptied.              *)
(***************************************************************************)
EXTENDS Integers, Sequences, FiniteSets

CONSTANTS
    Session,         \* threads that make RCEs
    Signaller,       \* other callers of VERSignalCleanup (JetIdle, FMP, ...)
    Worker,          \* threads of the task manager
    Detacher,        \* a thread that cleans one database, or none
    Terminator,      \* the thread that shuts down, or none
    Db,              \* databases
    crceBucket,      \* RCEs that fit into a bucket
    cbucketMost,     \* quota of buckets
    cbucketAllowed,  \* cbucketMost * JET_paramMaxTransactionSize / 100
    crceMax,         \* bound: RCEs ever made
    fTimeouts        \* whether waiting for a cleanup may time out

VARIABLES
    list,            \* the buckets from m_pbucketGlobalTail to m_pbucketGlobalHead
    rce,             \* the RCEs ever made
    critBucket,      \* owner of m_critBucketGlobal
    rwlHash,         \* writer of the hash chain in question
    critClean,       \* owner of m_critRCEClean
    fVERCleanUpWait, \* m_fVERCleanUpWait
    msig,            \* m_msigRCECleanPerformedRecently is set
    asig,            \* m_asigRCECleanDone is set
    queued,          \* tasks posted and not yet running
    tmUp,            \* the task manager accepts tasks
    fSync,           \* m_fSyncronousTasks
    fAbove,          \* m_fAboveMaxTransactionSize
    clean,           \* locals of ErrVERIRCEClean
    pc,              \* where each thread is
    arg              \* what a session is about to make

vars == <<list, rce, critBucket, rwlHash, critClean, fVERCleanUpWait, msig, asig,
          queued, tmUp, fSync, fAbove, clean, pc, arg>>
store == <<list, rce, fAbove>>
signal == <<fVERCleanUpWait, msig, asig, queued>>
locks == <<critBucket, rwlHash, critClean>>
mode == <<tmUp, fSync>>

none == "none"
all == "all"
Thread == Session \cup Signaller \cup Worker \cup Detacher \cup Terminator

\* A thread has one of these roles, and one thread shuts the instance down.
ASSUME BucketsAssumption ==
    /\ crceBucket \in Nat \ {0} /\ cbucketMost \in Nat \ {0}
    /\ cbucketAllowed \in Nat /\ crceMax \in Nat
    /\ fTimeouts \in BOOLEAN
    /\ none \notin Thread \cup Db /\ all \notin Db
    /\ Session \cap (Signaller \cup Worker \cup Detacher \cup Terminator) = {}
    /\ Signaller \cap (Worker \cup Detacher \cup Terminator) = {}
    /\ Worker \cap (Detacher \cup Terminator) = {}
    /\ Detacher \cap Terminator = {}
    /\ \A t, u \in Terminator : t = u

\* hdr.prceOldest is the place in the bucket where the next cleanup starts.
NewBucket == [rces |-> <<>>, prceOldest |-> 1]
Idle == [db |-> all, b |-> 1, i |-> 1, fNeed |-> FALSE, fSkipped |-> FALSE, fSaved |-> FALSE, at |-> "off"]

NoArg == [db |-> none, fConcurrent |-> FALSE]

TypeOK ==
    /\ \A b \in DOMAIN list :
        /\ list[b].rces \in Seq(1..Len(rce)) /\ Len(list[b].rces) <= crceBucket
        /\ list[b].prceOldest \in 1..(Len(list[b].rces) + 1)
    /\ Len(list) <= cbucketMost
    /\ rce \in Seq([db : Db, st : {"active", "committed", "old", "null"}])
    /\ critBucket \in Thread \cup {none} /\ rwlHash \in Thread \cup {none}
    /\ critClean \in Thread \cup {none}
    /\ fVERCleanUpWait \in 0..2
    /\ {msig, asig, tmUp, fSync, fAbove} \subseteq BOOLEAN
    /\ queued \in 0..1
    /\ clean.at \in {"off", "visit", "test", "rce", "free", "over"}
    /\ pc \in [Thread -> {"idle", "cas", "reset", "post", "unset", "uncas", "alloc", "wait",
                          "retry", "clean", "set", "set2", "tmterm", "verterm", "asig", "clean2", "done"}]

Init ==
    /\ list = <<>> /\ rce = <<>>
    /\ critBucket = none /\ rwlHash = none /\ critClean = none
    /\ fVERCleanUpWait = 0 /\ msig = TRUE /\ asig = FALSE
    /\ queued = 0 /\ tmUp = TRUE /\ fSync = FALSE /\ fAbove = FALSE
    /\ clean = Idle
    /\ pc = [t \in Thread |-> "idle"]
    /\ arg = [s \in Session |-> NoArg]

Forget(s) == arg' = [arg EXCEPT ![s] = NoArg]
Goto(t, l) == pc' = [pc EXCEPT ![t] = l]

-----------------------------------------------------------------------------
(* VERSignalCleanup *)

\* Sessions call it while they own m_critBucketGlobal and go on to allocate.
Return(t) == IF critBucket = t THEN "alloc" ELSE "idle"

Signal(t) ==
    /\ t \in Signaller /\ pc[t] = "idle"
    /\ \A u \in Terminator : pc[u] # "done"
    /\ Goto(t, "cas")
    /\ UNCHANGED <<store, signal, locks, mode, clean, arg>>

VERSignalCleanup(t) ==
    /\ pc[t] = "cas"
    /\ IF list # <<>> /\ fVERCleanUpWait = 0
       THEN fVERCleanUpWait' = 1 /\ Goto(t, "reset")
       ELSE UNCHANGED fVERCleanUpWait /\ Goto(t, Return(t))
    /\ UNCHANGED <<store, msig, asig, queued, locks, mode, clean, arg>>

ResetSignal(t) ==
    /\ pc[t] = "reset"
    /\ msig' = FALSE
    /\ Goto(t, "post")
    /\ UNCHANGED <<store, fVERCleanUpWait, asig, queued, locks, mode, clean, arg>>

\* Posting may fail at any time.
ErrTMPost(t) ==
    /\ pc[t] = "post"
    /\ \/ ~fSync /\ tmUp /\ queued' = queued + 1 /\ Goto(t, Return(t))
       \/ UNCHANGED queued /\ Goto(t, "unset")
    /\ UNCHANGED <<store, fVERCleanUpWait, msig, asig, locks, mode, clean, arg>>

SetSignal(t) ==
    /\ pc[t] = "unset"
    /\ msig' = TRUE
    /\ Goto(t, "uncas")
    /\ UNCHANGED <<store, fVERCleanUpWait, asig, queued, locks, mode, clean, arg>>

\* Slip: nobody is told that no cleanup will run.
WithdrawSilently(t) ==
    /\ pc[t] = "uncas"
    /\ fVERCleanUpWait' = IF fVERCleanUpWait = 1 THEN 0 ELSE fVERCleanUpWait
    /\ Goto(t, Return(t))
    /\ UNCHANGED <<store, msig, asig, queued, locks, mode, clean, arg>>

\* 1 becomes 0; 2 stays, and whoever wrote it waits for m_asigRCECleanDone.
WithdrawSignal(t) ==
    /\ pc[t] = "uncas"
    /\ fVERCleanUpWait' = IF fVERCleanUpWait = 1 THEN 0 ELSE fVERCleanUpWait
    /\ asig' = (asig \/ fVERCleanUpWait = 2)
    /\ Goto(t, Return(t))
    /\ UNCHANGED <<store, msig, queued, locks, mode, clean, arg>>

-----------------------------------------------------------------------------
(* ErrVERICreateRCE *)

\* m_pbucketGlobalHead has room.
Fits == list # <<>> /\ Len(list[Len(list)].rces) < crceBucket

\* The newest bucket, a new one if f, gets another RCE.
Cut(d, f) ==
    LET l == IF f THEN Append(list, NewBucket) ELSE list IN
    /\ rce' = Append(rce, [db |-> d, st |-> "active"])
    /\ list' = [l EXCEPT ![Len(l)].rces = Append(@, Len(rce) + 1)]
    /\ fAbove' = (fAbove \/ (f /\ Len(l) > cbucketAllowed))

\* Operations that others may do to the same node at once hold the hash lock
\* from here until their RCE is in the chain.  A database that is being cleaned
\* by itself has been closed and its tasks have ended, so nothing is done in it.
ErrVERICreateRCE(s, d, fConcurrent) ==
    /\ pc[s] = "idle" /\ Len(rce) < crceMax
    /\ \A u \in Terminator : pc[u] = "idle"
    /\ critClean \in Detacher => clean.db # d
    /\ critBucket = none /\ (fConcurrent => rwlHash = none)
    /\ IF Fits
       THEN Cut(d, FALSE) /\ UNCHANGED <<locks, pc, arg>>
       ELSE /\ critBucket' = s
            /\ rwlHash' = IF fConcurrent THEN s ELSE rwlHash
            /\ arg' = [arg EXCEPT ![s] = [db |-> d, fConcurrent |-> fConcurrent]]
            /\ Goto(s, "cas")
            /\ UNCHANGED <<store, critClean>>
    /\ UNCHANGED <<signal, mode, clean>>

\* Slip: the hash lock is kept.
UnlockBucketOnly(s) == critBucket' = none /\ UNCHANGED <<rwlHash, critClean>>

Unlock(s) ==
    /\ critBucket' = none
    /\ rwlHash' = IF rwlHash = s THEN none ELSE rwlHash
    /\ UNCHANGED critClean

ErrVERIBUAllocBucket(s) ==
    /\ pc[s] = "alloc"
    /\ IF Len(list) < cbucketMost
       THEN Cut(arg[s].db, TRUE) /\ Goto(s, "idle") /\ Forget(s)
       ELSE UNCHANGED <<store, arg>> /\ Goto(s, "wait")
    /\ Unlock(s)
    /\ UNCHANGED <<signal, mode, clean>>

FWait(s) ==
    /\ pc[s] = "wait"
    /\ msig \/ fTimeouts
    /\ Goto(s, "retry")
    /\ UNCHANGED <<store, signal, locks, mode, clean, arg>>

\* Somebody else may have linked a bucket or cleanup freed one.  Otherwise the
\* operation fails with JET_errVersionStoreOutOfMemory.
RetryAlloc(s) ==
    /\ pc[s] = "retry"
    /\ critBucket = none /\ (arg[s].fConcurrent => rwlHash = none)
    /\ IF Fits \/ Len(list) < cbucketMost
       THEN Cut(arg[s].db, ~Fits)
       ELSE UNCHANGED store
    /\ Goto(s, "idle") /\ Forget(s)
    /\ UNCHANGED <<signal, locks, mode, clean>>

-----------------------------------------------------------------------------
(* Transactions end *)

\* An RCE commits, or is rolled back, or becomes older than every transaction.
Age(r) ==
    /\ \E move \in {<<"active", "committed">>, <<"active", "null">>, <<"committed", "old">>} :
        /\ rce[r].st = move[1]
        /\ rce' = [rce EXCEPT ![r].st = move[2]]
    /\ UNCHANGED <<list, fAbove, signal, locks, mode, clean, pc, arg>>

-----------------------------------------------------------------------------
(* ErrVERIRCEClean *)

\* Who calls it: a task, a detach, the shutdown (twice).
RunTask(t) ==
    /\ t \in Worker /\ pc[t] = "idle" /\ queued > 0
    /\ queued' = queued - 1
    /\ Goto(t, "clean")
    /\ UNCHANGED <<store, fVERCleanUpWait, msig, asig, locks, mode, clean, arg>>

Detach(t) ==
    /\ t \in Detacher /\ pc[t] = "idle"
    /\ \A u \in Terminator : pc[u] = "idle"
    /\ Goto(t, "clean")
    /\ UNCHANGED <<store, signal, locks, mode, clean, arg>>

\* The oldest bucket is read under m_critBucketGlobal.  Cleaning one database
\* is done without tasks.
StartClean(t, db) ==
    /\ pc[t] \in {"clean", "clean2"} /\ critClean = none /\ critBucket = none
    /\ (db # all) <=> (t \in Detacher)
    /\ \A s \in Session : arg[s].db # db
    /\ critClean' = t
    /\ clean' = [Idle EXCEPT !.db = db, !.fSaved = fSync, !.at = IF list = <<>> THEN "over" ELSE "visit"]
    /\ fSync' = (fSync \/ db # all)
    /\ UNCHANGED <<store, signal, critBucket, rwlHash, tmUp, pc, arg>>

\* Slip: the newest bucket is treated like the others.
NeverInCrit == FALSE

\* Only the newest bucket gets more RCEs, so the others need no lock.
FNeedBeInCritBucketGlobal == clean.b = Len(list)

VisitBucket(t) ==
    /\ critClean = t /\ clean.at = "visit"
    /\ clean' = [clean EXCEPT !.i = list[clean.b].prceOldest, !.fNeed = FNeedBeInCritBucketGlobal,
                              !.fSkipped = FALSE, !.at = "test"]
    /\ UNCHANGED <<store, signal, locks, mode, pc, arg>>

\* The walk is at hdr.prceNextNew.
AtEnd == clean.i > Len(list[clean.b].rces)

\* At the end of the newest bucket the critical section is kept until the
\* bucket is freed.
TestRCE(t) ==
    /\ critClean = t /\ clean.at = "test"
    /\ clean.fNeed => critBucket = none
    /\ list' = IF clean.fSkipped THEN list ELSE [list EXCEPT ![clean.b].prceOldest = clean.i]
    /\ critBucket' = IF AtEnd /\ clean.fNeed THEN t ELSE critBucket
    /\ clean' = [clean EXCEPT !.at = IF AtEnd THEN "free" ELSE "rce"]
    /\ UNCHANGED <<rce, fAbove, signal, rwlHash, critClean, mode, pc, arg>>

Current == list[clean.b].rces[clean.i]

\* For a database that is detached nobody looks at committed RCEs any more.
Cleanable(r) == r.st = "old" \/ (r.st = "committed" /\ r.db = clean.db)

\* A nullified RCE is passed by.
PassRCE(t) ==
    /\ critClean = t /\ clean.at = "rce" /\ rce[Current].st = "null"
    /\ clean' = [clean EXCEPT !.i = @ + 1, !.at = "test"]
    /\ UNCHANGED <<store, signal, locks, mode, pc, arg>>

\* The RCE is nullified under its hash lock.
ErrPrepareToDeallocate(t) ==
    /\ critClean = t /\ clean.at = "rce" /\ Cleanable(rce[Current])
    /\ rwlHash = none
    /\ rce' = [rce EXCEPT ![Current].st = "null"]
    /\ clean' = [clean EXCEPT !.i = @ + 1, !.at = "test"]
    /\ UNCHANGED <<list, fAbove, signal, locks, mode, pc, arg>>

\* An RCE of another database is left behind, and with it its bucket.  Otherwise
\* the cleanup ends at the first RCE that it cannot clean.
StopOrSkip(t) ==
    LET r == rce[Current] IN
    /\ critClean = t /\ clean.at = "rce"
    /\ r.st # "null" /\ ~Cleanable(r)
    /\ clean' = IF clean.db \notin {all, r.db}
                THEN [clean EXCEPT !.i = @ + 1, !.fSkipped = TRUE, !.at = "test"]
                ELSE [clean EXCEPT !.at = "over"]
    /\ UNCHANGED <<store, signal, locks, mode, pc, arg>>

StillAbove(cbucket) == fAbove /\ cbucket > cbucketAllowed

\* Slip: the bucket after the one that is freed is passed by.
FreeAndSkip(t) ==
    /\ critClean = t /\ clean.at = "free"
    /\ critBucket \in {none, t}
    /\ IF clean.fSkipped
       THEN UNCHANGED <<list, fAbove>>
       ELSE /\ list' = SubSeq(list, 1, clean.b - 1) \o SubSeq(list, clean.b + 1, Len(list))
            /\ fAbove' = StillAbove(Len(list) - 1)
    /\ clean' = [clean EXCEPT !.b = @ + 1, !.at = IF clean.b >= Len(list') THEN "over" ELSE "visit"]
    /\ critBucket' = none
    /\ UNCHANGED <<rce, signal, rwlHash, critClean, mode, pc, arg>>

PbucketVERIFreeAndGetNextOldestBucket(t) ==
    LET after == IF clean.b = Len(list) THEN "over" ELSE "visit" IN
    /\ critClean = t /\ clean.at = "free"
    /\ critBucket \in {none, t}
    /\ IF clean.fSkipped
       THEN UNCHANGED <<list, fAbove>> /\ clean' = [clean EXCEPT !.b = @ + 1, !.at = after]
       ELSE /\ list' = SubSeq(list, 1, clean.b - 1) \o SubSeq(list, clean.b + 1, Len(list))
            /\ fAbove' = StillAbove(Len(list) - 1)
            /\ clean' = [clean EXCEPT !.at = after]
    /\ critBucket' = none
    /\ UNCHANGED <<rce, signal, rwlHash, critClean, mode, pc, arg>>

\* The end of VERIRCECleanProc, of a detach and of the cleanups at shutdown.
EndClean(t) ==
    /\ critClean = t /\ clean.at = "over"
    /\ critClean' = none
    /\ clean' = Idle
    /\ fSync' = clean.fSaved
    /\ fVERCleanUpWait' = IF t \in Worker /\ fVERCleanUpWait = 1 THEN 0 ELSE fVERCleanUpWait
    /\ Goto(t, CASE t \in Worker -> IF fVERCleanUpWait = 2 THEN "set2" ELSE "set"
                 [] t \in Detacher -> "idle"
                 [] t \in Terminator -> IF pc[t] = "clean" THEN "verterm" ELSE "done")
    /\ UNCHANGED <<store, msig, asig, queued, critBucket, rwlHash, tmUp, arg>>

CleanPerformed(t) ==
    /\ pc[t] \in {"set", "set2"}
    /\ msig' = TRUE
    /\ asig' = (asig \/ pc[t] = "set2")
    /\ Goto(t, "idle")
    /\ UNCHANGED <<store, fVERCleanUpWait, queued, locks, mode, clean, arg>>

-----------------------------------------------------------------------------
(* Shutdown (INST::ErrINSTTerm, VERTerm) *)

\* API calls are over, transactions need not be.
BeginTerm(t) ==
    /\ t \in Terminator /\ pc[t] = "idle"
    /\ \A u \in Session \cup Detacher : pc[u] = "idle"
    /\ critClean = none
    /\ fSync' = TRUE
    /\ Goto(t, "tmterm")
    /\ UNCHANGED <<store, signal, locks, tmUp, clean, arg>>

\* TMTerm takes no more tasks and waits for those it has.
TMTerm(t) ==
    /\ pc[t] = "tmterm"
    /\ queued = 0 /\ \A w \in Worker : pc[w] = "idle"
    /\ tmUp' = FALSE
    /\ Goto(t, "clean")
    /\ UNCHANGED <<store, signal, locks, fSync, clean, arg>>

Open == \E r \in DOMAIN rce : rce[r].st \in {"active", "committed"}

\* Transactions are open: JET_errTooManyActiveUsers, and the instance goes on.
TooManyActiveUsers(t) ==
    /\ pc[t] = "verterm" /\ Open
    /\ critClean = none
    /\ tmUp' = TRUE /\ fSync' = FALSE
    /\ Goto(t, "idle")
    /\ UNCHANGED <<store, signal, locks, clean, arg>>

VERTerm(t) ==
    /\ pc[t] = "verterm" /\ ~Open
    /\ critClean = none
    /\ fVERCleanUpWait' = 2
    /\ Goto(t, IF fVERCleanUpWait = 1 THEN "asig" ELSE "clean2")
    /\ UNCHANGED <<store, msig, asig, queued, locks, mode, clean, arg>>

WaitCleanDone(t) ==
    /\ pc[t] = "asig" /\ asig
    /\ asig' = FALSE
    /\ Goto(t, "clean2")
    /\ UNCHANGED <<store, fVERCleanUpWait, msig, queued, locks, mode, clean, arg>>

-----------------------------------------------------------------------------

SignalStep(t) ==
    \/ Signal(t) \/ VERSignalCleanup(t) \/ ResetSignal(t) \/ ErrTMPost(t)
    \/ SetSignal(t) \/ WithdrawSignal(t)

SessionStep(s) ==
    \/ \E d \in Db, f \in BOOLEAN : ErrVERICreateRCE(s, d, f)
    \/ ErrVERIBUAllocBucket(s) \/ FWait(s) \/ RetryAlloc(s)

CleanStep(t) ==
    \/ RunTask(t) \/ Detach(t)
    \/ \E db \in Db \cup {all} : StartClean(t, db)
    \/ VisitBucket(t) \/ TestRCE(t) \/ PassRCE(t) \/ ErrPrepareToDeallocate(t) \/ StopOrSkip(t)
    \/ PbucketVERIFreeAndGetNextOldestBucket(t) \/ EndClean(t) \/ CleanPerformed(t)

TermStep(t) ==
    BeginTerm(t) \/ TMTerm(t) \/ TooManyActiveUsers(t) \/ VERTerm(t) \/ WaitCleanDone(t)

Next ==
    \/ \E t \in Thread : SignalStep(t) \/ CleanStep(t) \/ TermStep(t)
    \/ \E s \in Session : SessionStep(s)
    \/ \E r \in DOMAIN rce : Age(r)

Spec == Init /\ [][Next]_vars

Step(t) == SignalStep(t) \/ CleanStep(t) \/ TermStep(t) \/ (t \in Session /\ SessionStep(t))

-----------------------------------------------------------------------------
(* Properties *)

\* No RCE that is still needed is lost with its bucket, and none is passed by
\* for good: each lies in a linked bucket, at or after the place where the next
\* cleanup starts, although the end of a bucket is tested before it is freed and
\* a skipped bucket becomes the newest again when the ones after it are freed.
NoRceLost == \A r \in DOMAIN rce : rce[r].st # "null" =>
    \E b \in DOMAIN list : \E i \in list[b].prceOldest..Len(list[b].rces) : list[b].rces[i] = r

\* A cleanup of one database that has walked all buckets and so returns
\* JET_errSuccess has left no version of that database, whatever has been linked,
\* skipped and freed meanwhile: the detach, and shrinking, go on as if there were
\* none ("All versions on this ifmp should be cleanable", db.cxx).
DetachLeavesNone == [][
    clean.at = "free" /\ clean'.at = "over" /\ clean.db # all =>
        \A r \in DOMAIN rce : rce[r].db = clean.db => rce[r].st = "null"]_vars

\* Who waits for a cleanup does not wait in vain: while the signal is reset a
\* cleanup has been asked for, and whoever asked or cleans will set it.
SignalFollows == ~msig =>
    queued > 0 \/ \E t \in Thread : pc[t] \in {"post", "unset", "set", "set2"} \/ (t \in Worker /\ pc[t] = "clean")

\* m_fAboveMaxTransactionSize, on which transactions are failed, agrees with
\* the number of buckets.
AboveExact == fAbove <=> Len(list) > cbucketAllowed

\* When shutdown is over nothing is left, and nobody is about to touch the
\* version store.
TermIsFinal == \A t \in Terminator : pc[t] = "done" =>
    list = <<>> /\ queued = 0 /\ \A u \in Thread \ {t} : pc[u] \in {"idle", "cas"}

\* All of this together: no needed RCE is lost with its bucket, whoever waits for
\* a cleanup is told, the flag about big transactions is right and shutdown
\* leaves nothing behind.
BucketsSound == TypeOK /\ NoRceLost /\ SignalFollows /\ AboveExact /\ TermIsFinal

\* An allocation comes back, with or without a bucket, also when the wait for a
\* cleanup has no timeout.
AllocReturns == \A s \in Session : []<>(pc[s] = "idle")

\* A shutdown comes to an end, or is refused.
TermReturns == \A t \in Terminator : []<>(pc[t] \in {"idle", "done"})
=============================================================================
