----------------------------- MODULE RangeLock -----------------------------
(***************************************************************************)
(* The range locks of a database file (class FMP, fmp.cxx) over a metered  *)
(* section (class CMeteredSection, published/inc/sync.hxx).  Backup and    *)
(* others lock a range of pages; the buffer manager does not write a page  *)
(* that is in a locked range.                                              *)
(*                                                                         *)
(* There are two arrays of ranges, one per group of the metered section.   *)
(* Writers enter the current group and look at its array.  A locker, under *)
(* m_semRangeLock, prepares the other array, makes its group the current   *)
(* one and waits until all writers have left the old group.                *)
(***************************************************************************)
EXTENDS Integers, Sequences, SequencesExt, FiniteSets

CONSTANTS
    Writer,     \* threads of the buffer manager that write pages
    Locker,     \* threads that lock ranges
    Page,       \* the pages of the file, by number
    MaxActive,  \* cMaxActive: the most threads in the current group, at least 1
    Nil

Actor == Writer \cup Locker
Groups == {0, 1}
PageRange == {r \in Page \X Page : r[1] <= r[2]}

FContains(r, p) == r[1] <= p /\ p <= r[2]
FOverlaps(r, s) == r[1] <= s[2] /\ s[1] <= r[2]

VARIABLES
    groupCurrent,   \* m_groupCurrent
    cIn,            \* m_cCurrent and m_cQuiesced, by group
    key,            \* m_dwPartitionCompleteKey: whose signal completes the partition
    signal,         \* the threads whose signal is set
    semOwner,       \* who holds m_semRangeLock
    ranges,         \* m_rgprangelock[group]->rgrange
    crangeMax,      \* m_rgprangelock[group]->crangeMax
    at,             \* where each thread is
    group,          \* the group that it is in
    page,           \* the page a writer is about to write
    range,          \* the range of a locker
    enters,         \* the locker enters the section too (ErrRangeLockAndEnter)
    completes       \* the thread has to run m_pfnPartitionComplete

ms == <<groupCurrent, cIn, key, signal>>
fmp == <<semOwner, ranges, crangeMax>>
local == <<group, page, range, enters, completes>>
vars == <<ms, fmp, at, local>>

Init ==
    /\ groupCurrent = 0
    /\ cIn = [g \in Groups |-> 0]
    /\ key = Nil
    /\ signal = {}
    /\ semOwner = Nil
    /\ ranges = [g \in Groups |-> <<>>]
    /\ crangeMax = [g \in Groups |-> 1]
    /\ at = [t \in Actor |-> "idle"]
    /\ group = [t \in Actor |-> 0]
    /\ page = [t \in Writer |-> Nil]
    /\ range = [t \in Locker |-> Nil]
    /\ enters = [t \in Locker |-> FALSE]
    /\ completes = [t \in Actor |-> FALSE]

GroupInactive == 1 - groupCurrent
In(t, where) == at[t] = where /\ ~completes[t]
Go(t, where) == at' = [at EXCEPT ![t] = where]

-----------------------------------------------------------------------------
(* The metered section. *)

TooManyActive == cIn[groupCurrent] >= MaxActive

\* GroupEnter, when there is room.
GroupEnter(t) ==
    /\ ~TooManyActive
    /\ cIn' = [cIn EXCEPT ![groupCurrent] = @ + 1]
    /\ group' = [group EXCEPT ![t] = groupCurrent]
    /\ UNCHANGED <<groupCurrent, key, signal>>

\* The last to leave the quiesced group completes the partition.
MSLeave(t) ==
    /\ cIn' = [cIn EXCEPT ![group[t]] = @ - 1]
    /\ completes' = [completes EXCEPT ![t] =
                        group[t] # groupCurrent /\ cIn[group[t]] = 1]
    /\ group' = [group EXCEPT ![t] = 0]
    /\ UNCHANGED <<groupCurrent, key, signal>>

\* _PartitionSyncComplete: set the signal that the partition waits for.
PartitionComplete(t) ==
    /\ completes[t]
    /\ completes' = [completes EXCEPT ![t] = FALSE]
    /\ signal' = signal \cup {key}
    /\ UNCHANGED <<groupCurrent, cIn, key, fmp, at, group, page, range, enters>>

\* Slip: the partition is complete although writers are in the old group.
SlipPartition(t) ==
    /\ (In(t, "swapIn") \/ In(t, "swapOut"))
    /\ key' = t
    /\ groupCurrent' = GroupInactive
    /\ completes' = [completes EXCEPT ![t] = TRUE]
    /\ Go(t, IF at[t] = "swapIn" THEN "waitIn" ELSE "waitOut")
    /\ UNCHANGED <<cIn, signal, fmp, group, page, range, enters>>

\* _PartitionAsync: the groups change places; if nobody is in the old one, the
\* partition is complete at once.
Partition(t) ==
    /\ (In(t, "swapIn") \/ In(t, "swapOut"))
    /\ key' = t
    /\ groupCurrent' = GroupInactive
    /\ completes' = [completes EXCEPT ![t] = (cIn[groupCurrent] = 0)]
    /\ Go(t, IF at[t] = "swapIn" THEN "waitIn" ELSE "waitOut")
    /\ UNCHANGED <<cIn, signal, fmp, group, page, range, enters>>

-----------------------------------------------------------------------------
(* Writing a page: FEnterRangeLock and LeaveRangeLock. *)

FEnterRangeLock(w, p) ==
    /\ In(w, "idle")
    /\ GroupEnter(w)
    /\ Go(w, "scan")
    /\ page' = [page EXCEPT ![w] = p]
    /\ UNCHANGED <<fmp, range, enters, completes>>

Scan(w) ==
    /\ In(w, "scan")
    /\ Go(w, IF \E i \in DOMAIN ranges[group[w]] : FContains(ranges[group[w]][i], page[w])
             THEN "leave" ELSE "write")
    /\ UNCHANGED <<ms, fmp, local>>

\* The page is written, or not, and the writer leaves.
LeaveRangeLock(w) ==
    /\ In(w, "write") \/ In(w, "leave")
    /\ MSLeave(w)
    /\ Go(w, "idle")
    /\ page' = [page EXCEPT ![w] = Nil]
    /\ UNCHANGED <<fmp, range, enters>>

-----------------------------------------------------------------------------
(* Locking a range: ErrRangeLock and ErrRangeLockAndEnter. *)

ErrRangeLock(l, r) ==
    /\ In(l, "idle") /\ semOwner = Nil
    /\ semOwner' = l
    /\ Go(l, "add")
    /\ range' = [range EXCEPT ![l] = r]
    /\ UNCHANGED <<ms, ranges, crangeMax, group, page, enters, completes>>

\* Slip: ranges may overlap.
SlipErrRangeLockAndEnter(l, r) ==
    /\ In(l, "idle") /\ semOwner = Nil
    /\ semOwner' = l
    /\ Go(l, "add")
    /\ range' = [range EXCEPT ![l] = r]
    /\ enters' = [enters EXCEPT ![l] = TRUE]
    /\ UNCHANGED <<ms, ranges, crangeMax, group, page, completes>>

\* ErrRangeLockAndEnter refuses a range that overlaps a locked one.
ErrRangeLockAndEnter(l, r) ==
    /\ In(l, "idle") /\ semOwner = Nil
    /\ \A i \in DOMAIN ranges[groupCurrent] : ~FOverlaps(ranges[groupCurrent][i], r)
    /\ semOwner' = l
    /\ Go(l, "add")
    /\ range' = [range EXCEPT ![l] = r]
    /\ enters' = [enters EXCEPT ![l] = TRUE]
    /\ UNCHANGED <<ms, ranges, crangeMax, group, page, completes>>

\* LNextPowerOf2, up to the number of ranges that the threads of MCLocks can lock.
NextPowerOf2(n) ==
    CHOOSE m \in {1, 2, 4, 8, 16, 32, 64, 128, 256, 512, 1024, 2048, 4096, 8192, 16384, 32768} :
        m >= n /\ (m \div 2 < n)

\* ErrIAddRangeLock: the other array becomes a copy of the current one with the
\* new range, in a larger array if need be.
ErrIAddRangeLock(l) ==
    /\ In(l, "add")
    /\ LET new == Append(ranges[groupCurrent], range[l])
       IN  /\ ranges' = [ranges EXCEPT ![GroupInactive] = new]
           /\ crangeMax' = [crangeMax EXCEPT ![GroupInactive] =
                              IF @ < Len(new) THEN NextPowerOf2(Len(new)) ELSE @]
    /\ Go(l, "swapIn")
    /\ UNCHANGED <<ms, semOwner, local>>

\* The larger array cannot be allocated: the lock fails.
OutOfMemory(l) ==
    /\ In(l, "add")
    /\ crangeMax[GroupInactive] <= Len(ranges[groupCurrent])
    /\ semOwner' = Nil
    /\ Go(l, "idle")
    /\ range' = [range EXCEPT ![l] = Nil]
    /\ enters' = [enters EXCEPT ![l] = FALSE]
    /\ UNCHANGED <<ms, ranges, crangeMax, group, page, completes>>

\* The partition is complete.  ErrRangeLock returns; ErrRangeLockAndEnter goes on
\* to enter the section.
Locked(l) ==
    /\ In(l, "waitIn") /\ l \in signal
    /\ signal' = signal \ {l}
    /\ semOwner' = IF enters[l] THEN l ELSE Nil
    /\ Go(l, IF enters[l] THEN "enter" ELSE "held")
    /\ UNCHANGED <<groupCurrent, cIn, key, ranges, crangeMax, local>>

EnterLocked(l) ==
    /\ In(l, "enter")
    /\ GroupEnter(l)
    /\ semOwner' = Nil
    /\ Go(l, "held")
    /\ UNCHANGED <<ranges, crangeMax, page, range, enters, completes>>

\* With too many threads in the section it takes the range out again.
EnterFails(l) ==
    /\ In(l, "enter") /\ TooManyActive
    /\ Go(l, "remove")
    /\ UNCHANGED <<ms, fmp, local>>

-----------------------------------------------------------------------------
(* Unlocking it: RangeUnlock and RangeUnlockAndLeave. *)

\* RangeUnlockAndLeave leaves the section first.
LeaveLocked(l) ==
    /\ In(l, "held") /\ enters[l]
    /\ MSLeave(l)
    /\ Go(l, "unlock")
    /\ UNCHANGED <<fmp, page, range, enters>>

\* Slip: a locker unlocks its range while it is in the section.
SlipRangeUnlock(l) ==
    /\ In(l, "held")
    /\ semOwner = Nil
    /\ semOwner' = l
    /\ Go(l, "remove")
    /\ UNCHANGED <<ms, ranges, crangeMax, local>>

RangeUnlock(l) ==
    /\ In(l, IF enters[l] THEN "unlock" ELSE "held")
    /\ semOwner = Nil
    /\ semOwner' = l
    /\ Go(l, "remove")
    /\ UNCHANGED <<ms, ranges, crangeMax, local>>

\* IRemoveRangeLock: the other array becomes a copy without the first such range.
Without(s, r) ==
    LET i == SelectInSeq(s, LAMBDA x : x = r)
    IN  IF i = 0 THEN s ELSE RemoveAt(s, i)

IRemoveRangeLock(l) ==
    /\ In(l, "remove")
    /\ ranges' = [ranges EXCEPT ![GroupInactive] = Without(ranges[groupCurrent], range[l])]
    /\ Go(l, "swapOut")
    /\ UNCHANGED <<ms, semOwner, crangeMax, local>>

Unlocked(l) ==
    /\ In(l, "waitOut") /\ l \in signal
    /\ signal' = signal \ {l}
    /\ semOwner' = Nil
    /\ Go(l, "idle")
    /\ range' = [range EXCEPT ![l] = Nil]
    /\ enters' = [enters EXCEPT ![l] = FALSE]
    /\ UNCHANGED <<groupCurrent, cIn, key, ranges, crangeMax, group, page, completes>>

-----------------------------------------------------------------------------
Writes(w) == Scan(w) \/ LeaveRangeLock(w)
Locks(l) ==
    \/ ErrIAddRangeLock(l) \/ OutOfMemory(l) \/ Locked(l) \/ EnterLocked(l) \/ EnterFails(l)
    \/ LeaveLocked(l) \/ IRemoveRangeLock(l) \/ Unlocked(l) \/ Partition(l)

Next ==
    \/ \E w \in Writer : Writes(w) \/ \E p \in Page : FEnterRangeLock(w, p)
    \/ \E l \in Locker : \/ Locks(l) \/ RangeUnlock(l)
                         \/ \E r \in PageRange : ErrRangeLock(l, r) \/ ErrRangeLockAndEnter(l, r)
    \/ \E t \in Actor : PartitionComplete(t)

Spec == Init /\ [][Next]_vars

\* Writes complete, ranges are unlocked, and m_semRangeLock serves its waiters in
\* turn.
Fairness ==
    /\ \A w \in Writer : WF_vars(Writes(w))
    /\ \A l \in Locker : WF_vars(Locks(l)) /\ SF_vars(RangeUnlock(l))
    /\ \A t \in Actor : WF_vars(PartitionComplete(t))

FairSpec == Spec /\ Fairness

-----------------------------------------------------------------------------
TypeOK ==
    /\ groupCurrent \in Groups
    /\ cIn \in [Groups -> 0 .. Cardinality(Actor)]
    /\ key \in Locker \cup {Nil} /\ signal \subseteq Locker
    /\ semOwner \in Locker \cup {Nil}
    /\ \A g \in Groups : ranges[g] \in Seq(PageRange)
    /\ crangeMax \in [Groups -> Nat]
    /\ group \in [Actor -> Groups]
    /\ page \in [Writer -> Page \cup {Nil}] /\ range \in [Locker -> PageRange \cup {Nil}]
    /\ enters \in [Locker -> BOOLEAN] /\ completes \in [Actor -> BOOLEAN]

-----------------------------------------------------------------------------
(* Properties. *)

\* While a range is locked none of its pages is being written ("waits until the
\* given PGNO range can no longer be written to by the buffer manager").
NoWriteInLockedRange == \A w \in Writer, l \in Locker :
    at[w] = "write" /\ at[l] = "held" => ~FContains(range[l], page[w])

\* The array of a group does not change under a thread that is in the group (the
\* Asserts of LeaveRangeLock and RangeUnlockAndLeave): the page that is written
\* is in none of its ranges, and the range that a locker entered with is there
\* once and overlaps no other.
ArrayIsStable ==
    /\ \A w \in Writer : at[w] = "write" =>
          \A i \in DOMAIN ranges[group[w]] : ~FContains(ranges[group[w]][i], page[w])
    /\ \A l \in Locker : at[l] = "held" /\ enters[l] =>
          \E i \in DOMAIN ranges[group[l]] :
             /\ ranges[group[l]][i] = range[l]
             /\ \A j \in DOMAIN ranges[group[l]] :
                   j # i => ~FOverlaps(ranges[group[l]][j], range[l])

\* The array that is rewritten, and perhaps freed, is that of a group that nobody
\* is in, and there is no partition under way ("Illegal concurrent use of
\* Partitioning").
NobodyInOldGroup == \A l \in Locker :
    at[l] \in {"add", "remove", "swapIn", "swapOut"} =>
        /\ cIn[GroupInactive] = 0
        /\ \A t \in Actor : ~completes[t]

\* Between changes the current array holds exactly the ranges that are locked; it
\* fits, and so will one range less ("we should always have enough room").
RangesAgree ==
    /\ semOwner = Nil => \A r \in PageRange :
          Cardinality({i \in DOMAIN ranges[groupCurrent] : ranges[groupCurrent][i] = r})
        = Cardinality({l \in Locker : range[l] = r /\ at[l] \in {"held", "unlock"}})
    /\ \A g \in Groups : Len(ranges[g]) <= crangeMax[g]
    /\ \A l \in Locker : at[l] = "remove" =>
          /\ range[l] \in ToSet(ranges[groupCurrent])
          /\ Len(ranges[groupCurrent]) - 1 <= crangeMax[GroupInactive]

\* Who holds m_semRangeLock, waiting for writers or for a locker that entered the
\* section, gives it up again; so every range that is locked gets unlocked.
SemaphoreReleased == \A l \in Locker :
    /\ semOwner = l ~> semOwner # l
    /\ at[l] = "held" ~> at[l] = "idle"
=============================================================================
