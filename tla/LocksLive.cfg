CONSTANTS
    Primitive = {"SXWLatch", "ReaderWriterLock", "BinaryLock", "RangeLock"}
    Thread = {t1, t2, t3}
    Locker = {t1, t2}
    Page = {1}
    MaxActive = 2
    Sleeper = {s1, s2, s3}
    Ksem = {k1, k2}
    MaxAvail = 1
    MaxRelease = 2
    a = a
    b = b
    c = c
    d = d
    Nil = Nil
SPECIFICATION LocksFairSpec
PROPERTY AllServed
PROPERTY RangesReleased
