----------------------------- MODULE BufferCache -----------------------------
(***************************************************************************)
(* The buffer manager of bf.cxx: pages of a database file cached in        *)
(* buffers that threads latch, change, version, flush and evict.           *)
(*                                                                         *)
(* A page is written without any latch being held: issuing the write marks *)
(* the buffer wrnBFPageFlushPending and lets the exclusive latch go, and   *)
(* whoever next owns the buffer exclusively completes the flush, or copies *)
(* the page to another buffer when the write has not ended.  A page may    *)
(* therefore have several buffers: the current one, which g_bfhash names,  *)
(* and older versions, which hang off it in the order they must be         *)
(* written.  Clean pages are written too, to close the gaps between dirty  *)
(* ones, so a version that a copy leaves behind may be clean.              *)
(*                                                                         *)
(* The latch of a buffer is the one SXWLatch implements; what is used of   *)
(* it here is what Latch promises.  The log dependencies of a flush are    *)
(* the subject of Recovery; here a flush may be refused at any time.       *)
(***************************************************************************)
EXTENDS Integers, FiniteSets

CONSTANTS
    Page,        \* pgno
    Buffer,      \* BF structures
    Thread,
    Nil,         \* pbfNil, pgnoNull
    MaxUpdate,   \* bound: updates of one page
    MayFail      \* whether reads and writes may fail

ASSUME BufferCacheAssumption ==
    MaxUpdate \in Nat /\ MayFail \in BOOLEAN /\ Nil \notin Page \cup Buffer

VARIABLES
    disk,    \* the database file: the content of every page
    hash,    \* g_bfhash: the current buffer of every cached page
    bf,      \* the BF structures and the pages they point to
    io,      \* the I/O under way on a buffer: BF::pvIOContext
    th,      \* the threads
    latest   \* history: the number of updates made to a page, plus one

vars == <<disk, hash, bf, io, th, latest>>

\* The content of a page: how many updates it has had, counted from 1.  A
\* buffer that nothing was read into has content 0.
Content == 0 .. MaxUpdate + 1

\* BF::err: "fault" is errBFIPageFaultPending, "unverified" is
\* errBFIPageNotVerified, "pending" is wrnBFPageFlushPending, "ioerr" any
\* error of an I/O.
Err == {"ok", "fault", "unverified", "pending", "ioerr"}

Free == [pgno |-> Nil, cur |-> FALSE, old |-> FALSE, err |-> "ok",
         dirty |-> FALSE, pv |-> 0, next |-> Nil, prev |-> Nil,
         signal |-> "none"]

\* What a thread does: idle; "lookup" and "miss" in ErrBFILatchPage with no
\* latch; "wait" for a latch; "upW" upgrading within ErrBFILatchPage; "copy"
\* about to copy the page it latched; "read" the page it faulted in; "held" a
\* latch in the client's hands; "rdwW" and "readW" upgrading the client's
\* latch; "mcopy" copying for such an upgrade; "flush" the buffer.
Idle == [pc |-> "idle", pg |-> Nil, b |-> Nil, req |-> "none", mode |-> "none"]

TypeOK ==
    /\ disk \in [Page -> Content]
    /\ latest \in [Page -> Content]
    /\ hash \in [Page -> Buffer \cup {Nil}]
    /\ bf \in [Buffer -> [pgno : Page \cup {Nil}, cur : BOOLEAN, old : BOOLEAN,
                          err : Err, dirty : BOOLEAN, pv : Content,
                          next : Buffer \cup {Nil}, prev : Buffer \cup {Nil},
                          signal : {"none", "ok", "failed"}]]
    /\ io \in [Buffer -> {"none", "read", "write"}]
    /\ th \in [Thread -> [pc : {"idle", "lookup", "miss", "wait", "upW", "copy",
                                "read", "held", "rdwW", "readW", "mcopy", "flush"},
                          pg : Page \cup {Nil}, b : Buffer \cup {Nil},
                          req : {"none", "S", "X", "W"},
                          mode : {"none", "S", "X", "W"}]]

Init ==
    /\ disk = [p \in Page |-> 1]
    /\ latest = [p \in Page |-> 1]
    /\ hash = [p \in Page |-> Nil]
    /\ bf = [b \in Buffer |-> Free]
    /\ io = [b \in Buffer |-> "none"]
    /\ th = [t \in Thread |-> Idle]
-----------------------------------------------------------------------------
(***************************************************************************)
(* The latch of a buffer.  A read under way owns it for writing.  A thread *)
(* that waits is one that was queued, or that has been handed the latch    *)
(* and does not know it yet: no try of another thread can pass it.         *)
(***************************************************************************)
Owns(t, b, m) == th[t].b = b /\ th[t].mode = m

WriteOwned(b) == io[b] = "read" \/ \E t \in Thread : Owns(t, b, "W")

ExclusiveOwned(b) == WriteOwned(b) \/ \E t \in Thread : Owns(t, b, "X")

ReadersBut(t, b) == \E u \in Thread \ {t} : Owns(u, b, "S")

Upgrading(b) ==
    \E t \in Thread : Owns(t, b, "X") /\ th[t].pc \in {"upW", "copy", "rdwW", "readW", "mcopy"}

CanShare(b) == ~WriteOwned(b) /\ ~Upgrading(b)

CanTryExclusive(b) ==
    /\ ~ExclusiveOwned(b)
    /\ ~ \E t \in Thread : th[t].b = b /\ th[t].pc = "wait" /\ th[t].req # "S"

CanTryWrite(b) == io[b] # "read" /\ \A t \in Thread : th[t].b # b

\* The thread's next place, with the latch it owns there.
Goes(t, pc, b, m) ==
    th' = [th EXCEPT ![t] = [@ EXCEPT !.pc = pc, !.b = b, !.mode = m]]

Leaves(t) == th' = [th EXCEPT ![t] = Idle]

\* Every latch released, and the loop of ErrBFILatchPage taken again.
Retries(t) == Goes(t, "lookup", Nil, "none")
-----------------------------------------------------------------------------
(***************************************************************************)
(* The state of a buffer.                                                  *)
(***************************************************************************)
FBFICurrentPage(b, p) == bf[b].cur /\ bf[b].pgno = p

FBFIUpdatablePage(s) == s.err # "pending"

\* Whether the write of a pending buffer has ended.
FlushEnded(b) == bf[b].err = "pending" /\ bf[b].signal # "none"

\* BFICleanVersion takes a buffer that was written out of the chain it ends.
Unlinked(f, b) ==
    [c \in Buffer |->
        IF c = b THEN [f[c] EXCEPT !.prev = Nil]
        ELSE IF f[b].prev = c THEN [f[c] EXCEPT !.next = Nil]
        ELSE f[c]]

\* BFIFlushComplete: a page that was written is clean, and leaves the chain;
\* one whose write failed keeps the error and stays dirty.
BFIFlushComplete(f, b) ==
    IF f[b].signal = "ok"
    THEN [Unlinked(f, b) EXCEPT
            ![b] = [@ EXCEPT !.signal = "none", !.err = "ok", !.dirty = FALSE]]
    ELSE [f EXCEPT ![b] = [@ EXCEPT !.signal = "none", !.err = "ioerr"]]

FBFICompleteFlushPage(b) == IF FlushEnded(b) THEN BFIFlushComplete(bf, b) ELSE bf

\* Slip: the copy is not linked to the version it was made from.
SlipForgetOlder(f, n, b) ==
    [f EXCEPT ![n] = [f[b] EXCEPT !.err = IF @ = "pending" THEN "ok" ELSE @,
                                  !.next = Nil, !.prev = Nil, !.signal = "none"],
              ![b] = [@ EXCEPT !.cur = FALSE, !.old = TRUE]]

\* Slip: the copy counts as clean.
SlipCopyClean(f, n, b) ==
    [f EXCEPT ![n] = [f[b] EXCEPT !.err = IF @ = "pending" THEN "ok" ELSE @,
                                  !.dirty = FALSE,
                                  !.next = b, !.prev = Nil, !.signal = "none"],
              ![b] = [@ EXCEPT !.prev = n, !.cur = FALSE, !.old = TRUE]]

\* ErrBFIVersionCopyPage: buffer n becomes the current version of the page of
\* buffer b, which stays behind as the version that must be written first.
VersionCopied(f, n, b) ==
    [f EXCEPT ![n] = [f[b] EXCEPT !.err = IF @ = "pending" THEN "ok" ELSE @,
                                  !.next = b, !.prev = Nil, !.signal = "none"],
              ![b] = [@ EXCEPT !.prev = n, !.cur = FALSE, !.old = TRUE]]

\* ErrBFIVersionPage: buffer n gets a copy of the page of buffer b, which stays
\* current, and takes its place in the chain.
Versioned(f, n, b) ==
    [c \in Buffer |->
        CASE c = n -> [f[b] EXCEPT !.cur = FALSE, !.old = TRUE, !.prev = b]
          [] c = b -> [f[b] EXCEPT !.next = n, !.dirty = TRUE]
          [] c \notin {n, b} /\ c = f[b].next -> [f[c] EXCEPT !.prev = n]
          [] OTHER -> f[c]]

\* ErrBFIAllocPage: a buffer from the available pool.
Available(b) == bf[b] = Free

\* FBFIMaintIsImpedingCheckpointMaintenance and
\* FBFIMaintNeedsOpportunisticFlushing depend on log positions that are not in
\* this model; they hold of dirty pages only.
MayImpede(s) == s.dirty

\* PbfBFIGetFlushOrderLeaf: the last buffer of the chain that b is on.
PbfBFIGetFlushOrderLeaf(b) ==
    CHOOSE c \in Buffer : bf[c].pgno = bf[b].pgno /\ bf[c].next = Nil /\
                          (c = b \/ (bf[c].prev # Nil /\ bf[b].next # Nil))

\* ErrBFIEvictRemoveCleanVersions: a clean version at the end of the chain that
\* b is on is taken out, unless it is still being written or is latched.  That
\* the loop finds no second one is part of Chain.
ErrBFIEvictRemoveCleanVersions(f, b) ==
    LET l == PbfBFIGetFlushOrderLeaf(b) IN
    IF /\ f[b].next # Nil
       /\ ~f[l].dirty /\ FBFIUpdatablePage(f[l])
       /\ CanTryExclusive(l)
    THEN Unlinked(f, l)
    ELSE f

\* ErrBFIAcquireExclusiveLatchForFlush, once the latch is owned: a flush that
\* has ended is completed.
ErrBFIAcquireExclusiveLatchForFlush(b) ==
    ErrBFIEvictRemoveCleanVersions(FBFICompleteFlushPage(b), b)
-----------------------------------------------------------------------------
(***************************************************************************)
(* ErrBFILatchPage.                                                        *)
(***************************************************************************)
\* The page is looked up; the latch of its buffer is asked for while the hash
\* table is locked for reading.
ErrBFILatchPage(t, p, m) ==
    /\ \/ th[t].pc = "idle"
       \/ th[t].pc = "lookup" /\ p = th[t].pg /\ m = th[t].req
    /\ th' = [th EXCEPT ![t] =
                [pc |-> IF hash[p] = Nil THEN "miss" ELSE "wait",
                 pg |-> p, b |-> hash[p], req |-> m, mode |-> "none"]]
    /\ UNCHANGED <<disk, hash, bf, io, latest>>

\* Slip: whether the buffer is still the page is not asked again.
SlipNoRecheck(t, b, m) ==
    /\ bf' = FBFICompleteFlushPage(b)
    /\ IF m # "S" /\ bf[b].err = "pending" /\ ~FlushEnded(b)
       THEN Goes(t, "copy", b, m)
       ELSE Goes(t, "held", b, m)

\* Slip: a page that is being written is given out for change.
SlipNoUpdatableCheck(t, b, m) ==
    \/ /\ ~FBFICurrentPage(b, th[t].pg)
       /\ Retries(t)
       /\ UNCHANGED bf
    \/ /\ FBFICurrentPage(b, th[t].pg)
       /\ Goes(t, "held", b, m)
       /\ UNCHANGED bf

\* The latch is owned.  The buffer may have become an older version since it
\* was looked up; a page that is being written cannot be owned for change, and
\* is copied unless the write has ended; a page that could not be read is not
\* given out, one that could not be written is.  A page read ahead is verified
\* now, under the exclusive latch.
Latched(t, b, m) ==
    LET f == IF m = "S" THEN bf ELSE FBFICompleteFlushPage(b)
    IN  \/ /\ ~FBFICurrentPage(b, th[t].pg)
           /\ Retries(t)
           /\ UNCHANGED bf
        \/ /\ FBFICurrentPage(b, th[t].pg)
           /\ m # "S" /\ ~FBFIUpdatablePage(f[b])
           /\ Goes(t, "copy", b, m)
           /\ UNCHANGED bf
        \/ /\ FBFICurrentPage(b, th[t].pg)
           /\ m = "S" \/ FBFIUpdatablePage(f[b])
           /\ f[b].err # "unverified"
           /\ bf' = f
           /\ IF f[b].err = "ioerr" /\ ~f[b].dirty THEN Leaves(t)
                                                    ELSE Goes(t, "held", b, m)
        \/ /\ FBFICurrentPage(b, th[t].pg)
           /\ bf[b].err = "unverified"
           /\ m = "S" => ~ExclusiveOwned(b)
           /\ \E e \in {"ok"} \cup (IF MayFail THEN {"ioerr"} ELSE {}) :
                /\ bf' = [bf EXCEPT ![b].err = e]
                /\ IF e = "ioerr" THEN Leaves(t) ELSE Goes(t, "held", b, m)

\* The shared or exclusive latch is granted to a thread that asked for it.
LatchGranted(t) ==
    LET b == th[t].b IN
    /\ th[t].pc = "wait"
    /\ IF th[t].req = "S" THEN CanShare(b) ELSE ~ExclusiveOwned(b)
    /\ IF th[t].req = "W" THEN Goes(t, "upW", b, "X") /\ UNCHANGED bf
                          ELSE Latched(t, b, th[t].req)
    /\ UNCHANGED <<disk, hash, io, latest>>

\* bfltWrite: the exclusive latch is upgraded when the readers have left.
LatchUpgraded(t) ==
    LET b == th[t].b IN
    /\ th[t].pc = "upW"
    /\ ~ReadersBut(t, b)
    /\ Latched(t, b, "W")
    /\ UNCHANGED <<disk, hash, io, latest>>

\* ErrBFIVersionCopyPage for a latch request: both versions are let go and the
\* page is looked up again.
VersionCopyForLatch(t) ==
    LET b == th[t].b IN
    /\ th[t].pc = "copy"
    /\ ~ReadersBut(t, b)
    /\ \/ \E n \in Buffer :
            /\ Available(n)
            /\ bf' = VersionCopied(bf, n, b)
            /\ hash' = [hash EXCEPT ![bf[b].pgno] = n]
            /\ Retries(t)
       \/ /\ ~ \E n \in Buffer : Available(n)
          /\ Leaves(t)
          /\ UNCHANGED <<bf, hash>>
    /\ UNCHANGED <<disk, io, latest>>

\* ErrBFICachePage: a buffer is put into the hash table under its write latch,
\* unless another thread has cached the page in the meantime.
ErrBFICachePage(t) ==
    LET p == th[t].pg IN
    /\ th[t].pc = "miss"
    /\ \/ \E b \in Buffer :
            /\ Available(b) /\ hash[p] = Nil
            /\ hash' = [hash EXCEPT ![p] = b]
            /\ bf' = [bf EXCEPT ![b] = [Free EXCEPT !.pgno = p, !.cur = TRUE, !.err = "fault"]]
            /\ Goes(t, "read", b, "W")
       \/ /\ \E b \in Buffer : Available(b)
          /\ hash[p] # Nil
          /\ Retries(t)
          /\ UNCHANGED <<hash, bf>>
       \/ /\ ~ \E b \in Buffer : Available(b)
          /\ Leaves(t)
          /\ UNCHANGED <<hash, bf>>
    /\ UNCHANGED <<disk, io, latest>>

\* BFISyncRead, and the downgrade to the latch that was asked for.  A buffer
\* that could not be read stays in the cache with the error.
BFISyncRead(t) ==
    LET b == th[t].b IN
    /\ th[t].pc = "read"
    /\ \/ /\ bf' = [bf EXCEPT ![b] = [@ EXCEPT !.err = "ok", !.pv = disk[bf[b].pgno]]]
          /\ Goes(t, "held", b, th[t].req)
       \/ /\ MayFail
          /\ bf' = [bf EXCEPT ![b].err = "ioerr"]
          /\ Leaves(t)
    /\ UNCHANGED <<disk, hash, io, latest>>

\* ErrBFReadLatchPage with a hint: a buffer that once held the page is tried
\* without the hash table.
HintedReadLatch(t, p, b) ==
    /\ th[t].pc = "idle"
    /\ CanShare(b)
    /\ FBFICurrentPage(b, p)
    /\ bf[b].err \in {"ok", "pending"}
    /\ th' = [th EXCEPT ![t] = [pc |-> "held", pg |-> p, b |-> b, req |-> "S", mode |-> "S"]]
    /\ UNCHANGED <<disk, hash, bf, io, latest>>
-----------------------------------------------------------------------------
(***************************************************************************)
(* What a client does with a page it has latched.                          *)
(***************************************************************************)
\* Slip: the page is changed and not marked dirty.
SlipNotDirtied(t) ==
    LET b == th[t].b p == th[t].pg IN
    /\ th[t].pc = "held" /\ th[t].mode = "W"
    /\ latest[p] <= MaxUpdate
    /\ bf' = [bf EXCEPT ![b].pv = @ + 1]
    /\ latest' = [latest EXCEPT ![p] = @ + 1]
    /\ UNCHANGED <<disk, hash, io, th>>

\* BFDirty and the change itself, under the write latch.
BFDirty(t) ==
    LET b == th[t].b p == th[t].pg IN
    /\ th[t].pc = "held" /\ th[t].mode = "W"
    /\ latest[p] <= MaxUpdate
    /\ bf' = [bf EXCEPT ![b] = [@ EXCEPT !.dirty = TRUE, !.pv = bf[b].pv + 1]]
    /\ latest' = [latest EXCEPT ![p] = @ + 1]
    /\ UNCHANGED <<disk, hash, io, th>>

\* ErrBFIMaintImpedingPageLatch, once the thread owns the latch in mode m: the
\* page is the thread's to change, unless it is being written or impedes the
\* checkpoint, when it is copied.
MaintImpedingPageLatch(t, b, m) ==
    LET f == FBFICompleteFlushPage(b)
    IN  \/ /\ bf' = f
           /\ FBFIUpdatablePage(f[b])
           /\ Goes(t, "held", b, m)
        \/ /\ ~FBFIUpdatablePage(f[b]) \/ (MayImpede(f[b]) /\ ~FlushEnded(b))
           /\ bf' = f
           /\ Goes(t, "mcopy", b, m)

\* ErrBFUpgradeReadLatchToRDWLatch.
ErrBFUpgradeReadLatchToRDWLatch(t) ==
    LET b == th[t].b IN
    /\ th[t].pc = "held" /\ th[t].mode = "S"
    /\ CanTryExclusive(b)
    /\ MaintImpedingPageLatch(t, b, "X")
    /\ UNCHANGED <<disk, hash, io, latest>>

\* ErrBFUpgradeReadLatchToWriteLatch: the exclusive latch in exchange for the
\* shared one, and then the readers have to leave.
ErrBFUpgradeReadLatchToWriteLatch(t) ==
    LET b == th[t].b IN
    /\ th[t].pc = "held" /\ th[t].mode = "S"
    /\ CanTryExclusive(b)
    /\ Goes(t, "readW", b, "X")
    /\ UNCHANGED <<disk, hash, bf, io, latest>>

\* Its second half.  With fCOWAllowed false a page that is being written is
\* not copied: the thread is left with its shared latch.
ReadLatchUpgraded(t) ==
    LET b == th[t].b IN
    /\ th[t].pc = "readW"
    /\ ~ReadersBut(t, b)
    /\ \/ MaintImpedingPageLatch(t, b, "W")
       \/ /\ ~FBFIUpdatablePage(bf[b])
          /\ Goes(t, "held", b, "S")
          /\ UNCHANGED bf
    /\ UNCHANGED <<disk, hash, io, latest>>

\* The copy for an upgrade: the thread is left with a shared latch on the new
\* version, and a latch conflict.  Without a buffer for the copy, it has the
\* page after all when nothing is being written.
VersionCopyForUpgrade(t) ==
    LET b == th[t].b IN
    /\ th[t].pc = "mcopy"
    /\ ~ReadersBut(t, b)
    /\ \/ \E n \in Buffer :
            /\ Available(n)
            /\ bf' = VersionCopied(bf, n, b)
            /\ hash' = [hash EXCEPT ![bf[b].pgno] = n]
            /\ Goes(t, "held", n, "S")
       \/ /\ ~ \E n \in Buffer : Available(n)
          /\ Goes(t, "held", b, IF FBFIUpdatablePage(bf[b]) THEN th[t].mode ELSE "S")
          /\ UNCHANGED <<bf, hash>>
    /\ UNCHANGED <<disk, io, latest>>

\* ErrBFUpgradeRDWLatchToWriteLatch ...
ErrBFUpgradeRDWLatchToWriteLatch(t) ==
    /\ th[t].pc = "held" /\ th[t].mode = "X"
    /\ Goes(t, "rdwW", th[t].b, "X")
    /\ UNCHANGED <<disk, hash, bf, io, latest>>

\* ... which ends with BFIMaintImpedingPage: the page may be versioned first.
RDWLatchUpgraded(t) ==
    LET b == th[t].b IN
    /\ th[t].pc = "rdwW"
    /\ ~ReadersBut(t, b)
    /\ Goes(t, "held", b, "W")
    /\ \/ UNCHANGED bf
       \/ \E n \in Buffer :
            /\ Available(n) /\ MayImpede(bf[b])
            /\ bf' = Versioned(bf, n, b)
    /\ UNCHANGED <<disk, hash, io, latest>>

\* BFDowngradeWriteLatchToReadLatch and BFDowngradeRDWLatchToReadLatch, which
\* may version the page.
BFDowngradeToReadLatch(t) ==
    LET b == th[t].b IN
    /\ th[t].pc = "held" /\ th[t].mode \in {"X", "W"}
    /\ Goes(t, "held", b, "S")
    /\ \/ UNCHANGED bf
       \/ \E n \in Buffer :
            /\ Available(n) /\ MayImpede(bf[b]) /\ bf[b].next = Nil
            /\ bf' = Versioned(bf, n, b)
    /\ UNCHANGED <<disk, hash, io, latest>>

\* BFReadUnlatch, BFRDWUnlatch and BFWriteUnlatch, the last of which may copy
\* a dirty page first (BFIUnlatchMaintPage).
BFUnlatch(t) ==
    LET b == th[t].b IN
    /\ th[t].pc = "held"
    /\ Leaves(t)
    /\ \/ UNCHANGED <<bf, hash>>
       \/ \E n \in Buffer :
            /\ th[t].mode = "W"
            /\ Available(n) /\ MayImpede(bf[b]) /\ bf[b].next = Nil
            /\ bf' = VersionCopied(bf, n, b)
            /\ hash' = [hash EXCEPT ![bf[b].pgno] = n]
    /\ UNCHANGED <<disk, io, latest>>
-----------------------------------------------------------------------------
(***************************************************************************)
(* Reading ahead, flushing and evicting.                                   *)
(***************************************************************************)
\* ErrBFIPrereadPage and ErrBFIAsyncRead: the write latch goes to the read.
ErrBFIPrereadPage(p, b) ==
    /\ hash[p] = Nil
    /\ Available(b)
    /\ hash' = [hash EXCEPT ![p] = b]
    /\ bf' = [bf EXCEPT ![b] = [Free EXCEPT !.pgno = p, !.cur = TRUE, !.err = "fault"]]
    /\ io' = [io EXCEPT ![b] = "read"]
    /\ UNCHANGED <<disk, th, latest>>

BFIAsyncReadComplete(b) ==
    /\ io[b] = "read"
    /\ \/ bf' = [bf EXCEPT ![b] = [@ EXCEPT !.err = "unverified", !.pv = disk[bf[b].pgno]]]
       \/ MayFail /\ bf' = [bf EXCEPT ![b].err = "ioerr"]
    /\ io' = [io EXCEPT ![b] = "none"]
    /\ UNCHANGED <<disk, hash, th, latest>>

\* ErrBFIAsyncWrite: from here the page must not change, and no latch says so.
BFIPrepareWritePage(f, b) == [f EXCEPT ![b].err = "pending"]

\* ErrBFIFlushPage, up to the point where a dirty page is about to be prepared.
ErrBFIFlushPage(t, b) ==
    LET f == ErrBFIAcquireExclusiveLatchForFlush(b) IN
    /\ th[t].pc = "idle"
    /\ bf[b].pgno # Nil
    /\ CanTryExclusive(b)
    /\ bf' = f
    /\ IF f[b].dirty /\ f[b].err = "ok" THEN Goes(t, "flush", b, "X") ELSE UNCHANGED th
    /\ UNCHANGED <<disk, hash, io, latest>>

\* Slip: a clean neighbour is written whichever version it is.
SlipStaleNeighbor(t, b) ==
    /\ th[t].pc = "idle"
    /\ bf[b].pgno # Nil
    /\ CanTryExclusive(b)
    /\ bf' = ErrBFIAcquireExclusiveLatchForFlush(b)
    /\ IF bf'[b].err = "ok" THEN Goes(t, "flush", b, "X") ELSE UNCHANGED th
    /\ UNCHANGED <<disk, hash, io, latest>>

\* BFIPerformOpportuneWrites: with a page its neighbours in the file are
\* written, clean ones too when they fill a gap.  A neighbour is looked up and
\* latched afterwards, so any buffer that was the page's will do; a clean one
\* is written only if it still is the page's.  Which pages are near a flushed
\* one, and which gaps are worth filling, is not in the model; a writer that
\* holds several neighbours, by tries alone, is as many threads here.
GetFlushableNeighboringBFs(t, b) ==
    LET f == ErrBFIAcquireExclusiveLatchForFlush(b) IN
    /\ th[t].pc = "idle"
    /\ bf[b].pgno # Nil
    /\ CanTryExclusive(b)
    /\ bf' = f
    /\ IF f[b].err = "ok" /\ (f[b].dirty \/ (f[b].cur /\ ~f[b].old))
       THEN Goes(t, "flush", b, "X")
       ELSE UNCHANGED th
    /\ UNCHANGED <<disk, hash, io, latest>>

\* ErrBFIPrepareFlushPage with older versions of the page left: the oldest is
\* flushed.  If its write is issued, or has not ended, or its latch is taken,
\* so much for now; if it is clean, once its flush is completed, on to the
\* next.  An error that it has, or meets now, is the error of both.
FlushOlderVersion(t) ==
    LET b == th[t].b
        l == PbfBFIGetFlushOrderLeaf(b)
        f == FBFICompleteFlushPage(l)
    IN  /\ th[t].pc = "flush"
        /\ bf[b].next # Nil
        /\ \/ /\ ~CanTryExclusive(l) \/ ~FBFIUpdatablePage(f[l])
              /\ Leaves(t)
              /\ UNCHANGED <<bf, io>>
           \/ /\ CanTryExclusive(l)
              /\ FBFIUpdatablePage(f[l]) /\ ~f[l].dirty
              /\ bf' = f
              /\ UNCHANGED <<th, io>>
           \/ /\ CanTryExclusive(l)
              /\ f[l].dirty /\ (f[l].err = "ioerr" \/ (f[l].err = "ok" /\ MayFail))
              /\ bf' = [f EXCEPT ![l].err = "ioerr", ![b].err = "ioerr"]
              /\ Leaves(t)
              /\ UNCHANGED io
           \/ /\ CanTryExclusive(l)
              /\ f[l].dirty /\ f[l].err = "ok"
              /\ bf' = BFIPrepareWritePage(f, l)
              /\ io' = [io EXCEPT ![l] = "write"]
              /\ Leaves(t)
        /\ UNCHANGED <<disk, hash, latest>>

\* The page's turn: the write is issued and the exclusive latch let go.
ErrBFIAsyncWrite(t) ==
    LET b == th[t].b IN
    /\ th[t].pc = "flush"
    /\ bf[b].next = Nil
    /\ bf' = BFIPrepareWritePage(bf, b)
    /\ io' = [io EXCEPT ![b] = "write"]
    /\ Leaves(t)
    /\ UNCHANGED <<disk, hash, latest>>

\* The flush is refused: the log is not as far as the page, or the disk queue
\* is full, or no dirty page follows the clean one.  A fatal error, which among
\* others says that the log is down or that a version was taken out of the
\* chain unwritten (FDependentPurged), becomes the error of the buffer.
FlushRefused(t) ==
    /\ th[t].pc = "flush"
    /\ Leaves(t)
    /\ \/ UNCHANGED bf
       \/ MayFail /\ bf' = [bf EXCEPT ![th[t].b].err = "ioerr"]
    /\ UNCHANGED <<disk, hash, io, latest>>

\* BFIAsyncWriteComplete.  The page goes to disk as it is now; a write that
\* fails may have reached the disk or not.
BFIAsyncWriteComplete(b) ==
    /\ io[b] = "write"
    /\ io' = [io EXCEPT ![b] = "none"]
    /\ \/ /\ disk' = [disk EXCEPT ![bf[b].pgno] = bf[b].pv]
          /\ \E s \in {"ok"} \cup (IF MayFail THEN {"failed"} ELSE {}) :
               bf' = [bf EXCEPT ![b].signal = s]
       \/ /\ MayFail
          /\ bf' = [bf EXCEPT ![b].signal = "failed"]
          /\ UNCHANGED disk
    /\ UNCHANGED <<hash, th, latest>>

\* ErrBFIEvictPage: nobody has or wants the latch; a flush that has ended is
\* completed; a clean buffer that has no older version left is freed.
ErrBFIEvictPage(b) ==
    LET f == ErrBFIEvictRemoveCleanVersions(bf, b) IN
    /\ bf[b].pgno # Nil
    /\ CanTryWrite(b)
    /\ \/ /\ FlushEnded(b)
          /\ bf' = FBFICompleteFlushPage(b)
          /\ UNCHANGED hash
       \/ /\ FBFIUpdatablePage(bf[b])
          /\ f[b].dirty \/ f[b].next # Nil
          /\ bf' = f
          /\ UNCHANGED hash
       \/ /\ FBFIUpdatablePage(bf[b])
          /\ ~f[b].dirty /\ f[b].next = Nil
          /\ bf' = [Unlinked(f, b) EXCEPT ![b] = Free]
          /\ hash' = IF bf[b].cur THEN [hash EXCEPT ![bf[b].pgno] = Nil] ELSE hash
    /\ UNCHANGED <<disk, io, th, latest>>

Next ==
    \/ \E t \in Thread :
         \/ \E p \in Page, m \in {"S", "X", "W"} : ErrBFILatchPage(t, p, m)
         \/ \E p \in Page, b \in Buffer : HintedReadLatch(t, p, b)
         \/ LatchGranted(t) \/ LatchUpgraded(t) \/ VersionCopyForLatch(t)
         \/ ErrBFICachePage(t) \/ BFISyncRead(t)
         \/ BFDirty(t)
         \/ ErrBFUpgradeReadLatchToRDWLatch(t)
         \/ ErrBFUpgradeReadLatchToWriteLatch(t) \/ ReadLatchUpgraded(t)
         \/ ErrBFUpgradeRDWLatchToWriteLatch(t) \/ RDWLatchUpgraded(t)
         \/ VersionCopyForUpgrade(t)
         \/ BFDowngradeToReadLatch(t) \/ BFUnlatch(t)
         \/ \E b \in Buffer : ErrBFIFlushPage(t, b) \/ GetFlushableNeighboringBFs(t, b)
         \/ FlushOlderVersion(t) \/ ErrBFIAsyncWrite(t) \/ FlushRefused(t)
    \/ \E b \in Buffer :
         \/ \E p \in Page : ErrBFIPrereadPage(p, b)
         \/ BFIAsyncReadComplete(b) \/ BFIAsyncWriteComplete(b)
         \/ ErrBFIEvictPage(b)

Spec == Init /\ [][Next]_vars

\* The I/O ends; a thread that can go on goes on, and lets go of the page in
\* the end; checkpoint maintenance and the scavenger come back to a dirty
\* buffer until it is flushed, however often they are refused.
Fairness ==
    /\ \A b \in Buffer :
         /\ WF_vars(BFIAsyncReadComplete(b)) /\ WF_vars(BFIAsyncWriteComplete(b))
         /\ SF_vars(\E t \in Thread : ErrBFIFlushPage(t, b))
    /\ \A t \in Thread :
         /\ WF_vars(ErrBFICachePage(t)) /\ WF_vars(BFISyncRead(t))
         /\ SF_vars(LatchGranted(t) \/ BFUnlatch(t)) /\ WF_vars(LatchUpgraded(t))
         /\ WF_vars(ReadLatchUpgraded(t)) /\ WF_vars(RDWLatchUpgraded(t))
         /\ WF_vars(VersionCopyForLatch(t)) /\ WF_vars(VersionCopyForUpgrade(t))
         /\ WF_vars(\E p \in Page, m \in {"S", "X", "W"} :
                      th[t].pc = "lookup" /\ ErrBFILatchPage(t, p, m))
         /\ WF_vars(FlushOlderVersion(t)) /\ SF_vars(ErrBFIAsyncWrite(t))

FairSpec == Spec /\ Fairness
-----------------------------------------------------------------------------
(***************************************************************************)
(* Properties.                                                             *)
(***************************************************************************)
\* A thread that has a page latched, in whatever way it came by the latch,
\* has the current version of it, with every update made so far: not an older
\* version it was queued on (bf.cxx:20382), not a buffer that a stale hint
\* names (bf.cxx:486), not one that failed to be read.
SeesLatest ==
    \A t \in DOMAIN th : th[t].pc = "held" =>
        /\ FBFICurrentPage(th[t].b, th[t].pg)
        /\ bf[th[t].b].pv = latest[th[t].pg]

\* No update is lost: what is not in a dirty current buffer is on disk.  The
\* page may be dropped from the cache and read again at any time.
NoLostUpdate ==
    \A p \in Page :
        IF hash[p] # Nil /\ bf[hash[p]].dirty
        THEN bf[hash[p]].pv = latest[p]
        ELSE disk[p] = latest[p]

\* The versions of a page: the hash table names the one current buffer; every
\* dirty buffer of the page is on the chain that starts there, an older version
\* never further up than a newer one; only the end of the chain is being
\* written.  A clean buffer copied while it was written may end the chain: it
\* is what the disk has and is written no more, and no dirty version is older
\* than a clean one (bf.cxx:22759).
Chain ==
    \A b \in Buffer : bf[b].pgno # Nil =>
        LET p == bf[b].pgno n == bf[b].next IN
        /\ bf[b].cur <=> hash[p] = b
        /\ bf[b].cur <=> ~bf[b].old
        /\ bf[b].dirty /\ ~bf[b].cur => bf[b].prev # Nil
        /\ bf[b].cur => bf[b].prev = Nil
        /\ n # Nil => /\ bf[n].pgno = p /\ bf[n].prev = b
                      /\ bf[n].pv <= bf[b].pv
                      /\ bf[b].err # "pending"
                      /\ bf[n].dirty => bf[b].dirty
                      /\ ~bf[n].dirty => /\ bf[n].next = Nil
                                         /\ bf[n].err \in {"pending", "ioerr"}
                                         /\ disk[p] = bf[n].pv

\* Of one page at most one read or write is under way, whichever buffers it
\* has: nothing else orders the two.
OneIO ==
    \A b, c \in Buffer :
        b # c /\ io[b] # "none" /\ io[c] # "none" => bf[b].pgno # bf[c].pgno

\* The state of the cache, whatever is under way.
CacheSound == TypeOK /\ Chain /\ OneIO

\* A page does not change, and its buffer is not given to another page, while
\* its write is under way, though no latch is held (the "virtual" latch of
\* bf.cxx:24899).
StableWrite ==
    [][\A b \in DOMAIN io : io[b] = "write" /\ io'[b] = "write" =>
            bf'[b].pv = bf[b].pv /\ bf'[b].pgno = bf[b].pgno]_vars

\* The disk never goes back to an older version of a page.
DiskForward == [][\A p \in Page : disk'[p] >= disk[p]]_vars

\* When no write fails, the updates of a page that its users leave alone from
\* time to time reach the disk in the end: no chain of versions, and no copy
\* made for a thread that would not wait, leaves a dirty buffer that nobody can
\* flush.  (A page that somebody always owns exclusively cannot be flushed: it
\* is versioned, when log positions say so, for that reason.)
UpdatesReachDisk ==
    \A p \in Page :
        []<>(\A t \in Thread : th[t].pg # p) => <>[](disk[p] = latest[p])
=============================================================================
