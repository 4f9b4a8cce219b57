CONSTANTS
    Primitive = {"SXWLatch", "ReaderWriterLock", "BinaryLock", "RangeLock", "Semaphores", "Gates"}
    Thread = {t1, t2, t3, t4}
    Locker = {t1, t2}
    Page = {1, 2}
    MaxActive = 2
    Sleeper = {s1, s2, s3}
    Ksem = {k1, k2}
    MaxAvail = 1
    MaxRelease = 2
    a = a
    b = b
    c = c
    d = d
    Nil = Nil
SPECIFICATION LocksSpec
SYMMETRY Symmetry
INVARIANT CountsAgree
INVARIANT MutualExclusion
INVARIANT NoLostWakeup
INVARIANT LockCountsAgree
INVARIANT GroupsExclude
INVARIANT NoWriteInLockedRange
INVARIANT RangeArrays
INVARIANT PoolIsSound
PROPERTY QuiescenceDrains
PROPERTY ImplementsLatch
PROPERTY RWImplementsLatch
PROPERTY ImplementsSemaphore
