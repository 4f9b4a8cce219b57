----------------------------- MODULE TrxOldest -----------------------------
(***************************************************************************)
(* The oldest open transaction of an instance (pib.hxx, pib.cxx).          *)
(*                                                                         *)
(* A transaction enters a list of the processor it begins on, under that   *)
(* list's reader/writer lock, and leaves it when it ends.  Nobody keeps    *)
(* the minimum over the lists: it is cached in the instance, with a flag   *)
(* that says that the cache may be stale.  Begin and end set the flag      *)
(* under the lock of one list; an update clears it before it locks them    *)
(* all.  The value is read outside of every lock.                          *)
(***************************************************************************)
EXTENDS Integers, Sequences, FiniteSets

CONSTANTS
    Session,     \* the sessions that begin and end transactions
    Caller,      \* the threads that ask for the oldest transaction
    cProcs,      \* OSSyncGetProcessorCountMax(), positive
    trxMax,      \* the number of no transaction, above all that are drawn
    trxLast      \* bound: the last number that is drawn

TRXID_INCR == 4

VARIABLES
    trxNewest,   \* INST::m_trxNewest
    trxBegin0,   \* PIB::trxBegin0
    ppls,        \* PIB::m_pplsTrxOldest, the list a session is in or enters
    list,        \* m_ilTrxOldest of each processor, oldest first
    writer,      \* the owner of each m_rwlPIBTrxOldest as writer, or none
    pc,          \* where a session is in PIBSetTrxBegin0 or PIBResetTrxBegin0
    stale,       \* m_fTrxOldestCachedMayBeStale
    cached,      \* m_trxOldestCached
    crit,        \* the owner of m_critTrxOldestCached, or none
    call,        \* where a caller is in TrxOldest
    locked,      \* the lists from 0 on that the updater has entered as reader
    seen         \* history: the oldest transactions there were during a call

session == <<trxNewest, trxBegin0, ppls, list, writer, pc>>
caller == <<cached, crit, call, locked>>
vars == <<session, stale, caller, seen>>

none == "none"
Proc == 0..(cProcs - 1)
Thread == Session \cup Caller

Range(q) == {q[i] : i \in DOMAIN q}
Listed == UNION {Range(list[p]) : p \in Proc}

\* The minimum over a set of transaction numbers, trxMax for none.
Minimum(T) == CHOOSE t \in T \cup {trxMax} : \A u \in T : t <= u

\* The oldest transaction in the lists.
Exact == Minimum({trxBegin0[s] : s \in Listed})

TypeOK ==
    /\ trxNewest \in 0..trxLast /\ trxNewest % TRXID_INCR = 0
    /\ trxBegin0 \in [Session -> 0..trxMax]
    /\ ppls \in [Session -> Proc]
    /\ list \in [Proc -> Seq(Session)]
    /\ writer \in [Proc -> Session \cup {none}]
    /\ pc \in [Session -> {"out", "drawn", "listing", "in", "leaving"}]
    /\ stale \in BOOLEAN
    /\ cached \in 0..trxMax
    /\ crit \in Caller \cup {none}
    /\ call \in [Caller -> {"idle", "enter", "lock", "read"}]
    /\ locked \in 0..cProcs
    /\ seen \in [Caller -> SUBSET (0..trxMax)]

Init ==
    /\ trxNewest = 0
    /\ trxBegin0 = [s \in Session |-> trxMax]
    /\ ppls = [s \in Session |-> 0]
    /\ list = [p \in Proc |-> <<>>]
    /\ writer = [p \in Proc |-> none]
    /\ pc = [s \in Session |-> "out"]
    /\ stale = TRUE /\ cached = trxMax
    /\ crit = none
    /\ call = [c \in Caller |-> "idle"]
    /\ locked = 0
    /\ seen = [c \in Caller |-> {}]

\* Nobody is in the list's lock.
Free(p) == writer[p] = none /\ p >= locked

-----------------------------------------------------------------------------
(* Begin *)

\* A read-only transaction takes the middle between two numbers.
Numbers(fReadOnly) ==
    IF fReadOnly
    THEN trxNewest' = trxNewest
    ELSE trxNewest + TRXID_INCR <= trxLast /\ trxNewest' = trxNewest + TRXID_INCR

Draw(s, p, fReadOnly) ==
    /\ pc[s] = "out"
    /\ Numbers(fReadOnly)
    /\ trxBegin0' = [trxBegin0 EXCEPT ![s] = IF fReadOnly THEN trxNewest + TRXID_INCR \div 2 ELSE trxNewest']
    /\ ppls' = [ppls EXCEPT ![s] = p]
    /\ pc' = [pc EXCEPT ![s] = "drawn"]

\* Slip: the number is drawn before the list is locked.
DrawUnlocked(s, p, fReadOnly) ==
    /\ Draw(s, p, fReadOnly)
    /\ UNCHANGED <<list, writer, stale, caller>>

PIBSetTrxBegin0(s, p, fReadOnly) ==
    /\ Free(p)
    /\ writer' = [writer EXCEPT ![p] = s]
    /\ Draw(s, p, fReadOnly)
    /\ UNCHANGED <<list, stale, caller>>

\* The flag goes up only for the first transaction of the list.
SetStaleForBegin(s) ==
    /\ pc[s] = "drawn"
    /\ stale' = (stale \/ list[ppls[s]] = <<>>)
    /\ pc' = [pc EXCEPT ![s] = "listing"]
    /\ UNCHANGED <<trxNewest, trxBegin0, ppls, list, writer, caller>>

InsertAsNextMost(s) ==
    /\ pc[s] = "listing"
    /\ list' = [list EXCEPT ![ppls[s]] = Append(@, s)]
    /\ writer' = [writer EXCEPT ![ppls[s]] = none]
    /\ pc' = [pc EXCEPT ![s] = "in"]
    /\ UNCHANGED <<trxNewest, trxBegin0, ppls, stale, caller>>

-----------------------------------------------------------------------------
(* Another number is drawn by a commit (ErrDIRCommitTransaction). *)

DrawCommit0 ==
    /\ trxNewest + TRXID_INCR <= trxLast
    /\ trxNewest' = trxNewest + TRXID_INCR
    /\ UNCHANGED <<trxBegin0, ppls, list, writer, pc, stale, caller>>

-----------------------------------------------------------------------------
(* End *)

PIBResetTrxBegin0(s) ==
    /\ pc[s] = "in"
    /\ Free(ppls[s])
    /\ writer' = [writer EXCEPT ![ppls[s]] = s]
    /\ stale' = (stale \/ Head(list[ppls[s]]) = s)
    /\ pc' = [pc EXCEPT ![s] = "leaving"]
    /\ UNCHANGED <<trxNewest, trxBegin0, ppls, list, caller>>

\* A sequence without one of its elements.
Without(q, e) ==
    LET i == CHOOSE i \in DOMAIN q : q[i] = e
    IN  SubSeq(q, 1, i - 1) \o SubSeq(q, i + 1, Len(q))

RemoveFromList(s) ==
    /\ pc[s] = "leaving"
    /\ list' = [list EXCEPT ![ppls[s]] = Without(@, s)]
    /\ writer' = [writer EXCEPT ![ppls[s]] = none]
    /\ trxBegin0' = [trxBegin0 EXCEPT ![s] = trxMax]
    /\ pc' = [pc EXCEPT ![s] = "out"]
    /\ UNCHANGED <<trxNewest, ppls, stale, caller>>

-----------------------------------------------------------------------------
(* TrxOldest *)

UpdateCachedTrxOldest(c) ==
    /\ call[c] = "idle"
    /\ crit = none
    /\ crit' = c
    /\ call' = [call EXCEPT ![c] = "enter"]
    /\ UNCHANGED <<session, stale, cached, locked>>

\* Slip: the critical section is left before the cache is up to date.
TestStaleAndLeave(c) ==
    /\ call[c] = "enter"
    /\ stale' = FALSE
    /\ call' = [call EXCEPT ![c] = IF stale THEN "lock" ELSE "read"]
    /\ crit' = none
    /\ UNCHANGED <<session, cached, locked>>

\* The flag is tested and cleared in one instruction.
FTrxOldestCachedMayBeStale(c) ==
    /\ call[c] = "enter"
    /\ stale' = FALSE
    /\ call' = [call EXCEPT ![c] = IF stale THEN "lock" ELSE "read"]
    /\ crit' = IF stale THEN crit ELSE none
    /\ UNCHANGED <<session, cached, locked>>

EnterAsReader(c) ==
    /\ call[c] = "lock"
    /\ locked < cProcs /\ writer[locked] = none
    /\ locked' = locked + 1
    /\ UNCHANGED <<session, stale, cached, crit, call>>

\* Only the first transaction of each list is looked at.
Scanned == Minimum({trxBegin0[list[p][1]] : p \in {p \in Proc : list[p] # <<>>}})

SetTrxOldestCached(c) ==
    /\ call[c] = "lock"
    /\ locked = cProcs
    /\ cached' = Scanned
    /\ locked' = 0
    /\ crit' = none
    /\ call' = [call EXCEPT ![c] = "read"]
    /\ UNCHANGED <<session, stale>>

\* The value is returned as it is now.
TrxOldestCached(c) ==
    /\ call[c] = "read"
    /\ call' = [call EXCEPT ![c] = "idle"]
    /\ UNCHANGED <<session, stale, cached, crit, locked>>

-----------------------------------------------------------------------------

SessionStep(s) ==
    \/ \E p \in Proc, fReadOnly \in BOOLEAN : PIBSetTrxBegin0(s, p, fReadOnly)
    \/ SetStaleForBegin(s) \/ InsertAsNextMost(s)
    \/ PIBResetTrxBegin0(s) \/ RemoveFromList(s)

CallerStep(c) ==
    \/ UpdateCachedTrxOldest(c) \/ FTrxOldestCachedMayBeStale(c)
    \/ EnterAsReader(c) \/ SetTrxOldestCached(c) \/ TrxOldestCached(c)

\* What a call may answer: a value is collected from the step that starts the
\* call to the step that ends it.
Observe == seen' = [c \in Caller |->
    CASE call'[c] = "idle" -> {}
      [] call[c] = "idle" /\ call'[c] # "idle" -> {Exact}
      [] OTHER -> seen[c] \cup {Exact'}]

Next ==
    /\ (\E s \in Session : SessionStep(s)) \/ DrawCommit0 \/ (\E c \in Caller : CallerStep(c))
    /\ Observe

Spec == Init /\ [][Next]_vars

-----------------------------------------------------------------------------
(* Properties *)

\* TrxOldest is linearizable: what a call returns was the oldest transaction at
\* some moment between its start and its end, although the flag is cleared long
\* before the lists are read and the cache is read after every lock is released.
ReturnsOldest == [][\A c \in Caller : call[c] = "read" /\ call'[c] = "idle" => cached \in seen[c]]_vars

\* The cache is never ahead of a listed transaction, however stale: cleanup may
\* use TrxOldestCached without an update (VERNullifyInactiveVersionsOnBM does).
\* The one exception is trxMax, "there is none", which a begin makes false.
CacheNotAhead == cached = trxMax \/ \A s \in Listed : cached <= trxBegin0[s]

\* What PIBSetTrxBegin0 asserts: numbers are in order within a list, so that its
\* first transaction is its oldest.
ListsOrdered == \A p \in Proc : \A i, j \in DOMAIN list[p] :
    i < j => trxBegin0[list[p][i]] <= trxBegin0[list[p][j]]

-----------------------------------------------------------------------------
(* Why it works *)

\* Somebody has changed, or is about to change, the first transaction of a list:
\* then the flag is up, or an update that has yet to lock that list will see it.
Pending == stale \/ \E c \in Caller : call[c] = "lock"

\* With the flag down and no update under way the cache is exact.
CacheExact == ~Pending => cached = Exact
=============================================================================
