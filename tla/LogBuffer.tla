----------------------------- MODULE LogBuffer -----------------------------
(***************************************************************************)
(* The log buffer and the log writer (_log/logwrite.cxx), and how the end  *)
(* of the log is found after a crash (_log/logread.cxx).                   *)
(*                                                                         *)
(* Sessions reserve space in a circular buffer under m_critLGBuf and copy  *)
(* their records into it outside of it.  Whoever gets m_semLogWrite writes *)
(* the buffer, in segments: full ones once, the last one, partly filled,   *)
(* twice, the second time as a shadow in the place of its successor.       *)
(*                                                                         *)
(* A log position (LGPOS) is a number of units since the first record ever *)
(* logged, and a segment has cbSec units.  The segments of a log file are  *)
(* numbered from 0, file headers are left out.                             *)
(***************************************************************************)
EXTENDS Integers, Sequences, FiniteSets, FiniteSetsExt

CONSTANTS
    Session,      \* threads that log
    task,         \* the thread of g_taskmgrLog
    lazy,         \* the thread of the timer of lazy commits
    After,        \* what sessions do with a record: subset of {"none", "flush", "lazy"}
    cbSec,        \* units in a segment
    csecLGBuf,    \* segments in the buffer
    csecFile,     \* segments for data in a file; one more is for a shadow
    Size,         \* sizes of log records
    cbIgnored,    \* sizeof( LRIGNORED )
    NewGen,       \* subset of BOOLEAN: whether fLGCreateNewGen is given
    cbMax,        \* bound: no record starts at or after this position
    ccrashMax,    \* bound: crashes
    fFaults,      \* whether writes, posts and new files may fail
    fTearShadow   \* whether an orderly crash may tear a shadow segment

ASSUME LogBufferAssumption ==
    /\ cbSec \in Nat \ {0} /\ csecLGBuf \in Nat \ {0} /\ csecFile \in Nat \ {0}
    /\ Size \subseteq Nat \ {0} /\ cbIgnored \in Nat
    /\ NewGen \subseteq BOOLEAN /\ {fFaults, fTearShadow} \subseteq BOOLEAN
    /\ cbMax \in Nat /\ ccrashMax \in Nat
    /\ task \notin Session /\ lazy \notin Session /\ task # lazy

VARIABLES
    entry,        \* m_pbEntry: where the next record goes
    write,        \* m_pbWrite: the first segment not yet written in full
    fileBase,     \* the first segment of the current file
    fileEnd,      \* m_pbLGFileEnd, or nil
    maxWrite,     \* m_lgposMaxWritePoint
    toWrite,      \* m_lgposToWrite: the first record not on disk
    recs,         \* the records in the current file and after it, as intervals
    disk,         \* the segments of the current file
    shadow,       \* m_fHaveShadow
    noMore,       \* FNoMoreLogWrite
    queue,        \* the list from m_ppibLGWriteQHead
    asig,         \* sessions with asigWaitLogWrite set
    semSignal,    \* owner of m_semLogSignal
    posted,       \* whether the task is posted
    w,            \* the owner of m_semLogWrite and its locals
    lgposLazy,    \* m_lgposNextLazyCommit
    tick,         \* m_tickNextLazyCommit # 0
    critLazy,     \* owner of m_critNextLazyCommit
    timer,        \* whether the timer task is scheduled
    pc, arg,      \* where each thread is; its record
    acked,        \* the last position a session was told is on disk
    ccrash        \* crashes so far

buffer == <<entry, fileEnd, maxWrite, recs>>
file == <<write, fileBase, toWrite, disk, shadow>>
waiting == <<queue, asig, acked>>
signal == <<semSignal, posted>>
commit == <<lgposLazy, tick, critLazy, timer>>
vars == <<buffer, file, waiting, signal, commit, noMore, w, pc, arg, ccrash>>

none == "none"
nil == -1
Thread == Session \cup {task, lazy}
Waiter == Session \cup {lazy}
Slot == 0..csecFile
Seg(p) == p \div cbSec

\* What a segment of the file holds: nothing of this file, the first n units of
\* segment seg as logged after so many crashes, or a mix of two writes, which the
\* checksum gives away.
Blank == [seg |-> nil, n |-> 0, era |-> 0]
Torn == [seg |-> nil, n |-> 1, era |-> 0]
Empty == [i \in Slot |-> Blank]

NoArg == [n |-> 0, fNew |-> FALSE, forced |-> FALSE, fill |-> FALSE, beg |-> 0, lgpos |-> nil]
NoWriter == [by |-> none, at |-> "off", ios |-> <<>>, csecFull |-> 0, fPartial |-> FALSE, end |-> 0,
             fNewGen |-> FALSE, fDeferred |-> FALSE, fRoll |-> FALSE, ok |-> TRUE]

TypeOK ==
    /\ {entry, write, fileBase, maxWrite, toWrite} \subseteq Nat /\ fileEnd \in Nat \cup {nil}
    /\ entry < (write + csecLGBuf) * cbSec
    /\ \A r \in recs : r.beg < r.end
    /\ disk \in [Slot -> [seg : Nat \cup {nil}, n : 0..cbSec, era : 0..ccrashMax]]
    /\ {shadow, noMore, posted, tick, timer} \subseteq BOOLEAN
    /\ queue \subseteq Waiter /\ asig \subseteq Waiter /\ queue \cap asig = {}
    /\ semSignal \in Thread \cup {none} /\ critLazy \in Session \cup {none}
    /\ w.by \in Thread \cup {none} /\ (w.by = none <=> w.at = "off")
    /\ w.at \in {"off", "enter", "deferred", "partition", "io", "done", "wake", "newfile", "wake2",
                 "check", "exit", "release"}
    /\ pc \in [Thread -> {"idle", "log", "copy", "flush", "fill", "try", "wl", "wl2", "writing",
                          "lazy", "lazy2", "lazy3", "zero", "read", "down"}]
    /\ lgposLazy \in Nat \cup {nil} /\ acked \in Nat \cup {nil} /\ ccrash \in 0..ccrashMax

Init ==
    /\ entry = 0 /\ write = 0 /\ fileBase = 0 /\ fileEnd = nil /\ maxWrite = 0 /\ toWrite = 0
    /\ recs = {} /\ disk = Empty /\ shadow = FALSE /\ noMore = FALSE
    /\ queue = {} /\ asig = {} /\ acked = nil /\ semSignal = none /\ posted = FALSE
    /\ w = NoWriter
    /\ lgposLazy = nil /\ tick = FALSE /\ critLazy = none /\ timer = FALSE
    /\ pc = [t \in Thread |-> "idle"] /\ arg = [t \in Waiter |-> NoArg]
    /\ ccrash = 0

Goto(t, l) == pc' = [pc EXCEPT ![t] = l]

\* The writer keeps m_critLGBuf while it waits for pending copies.
FreeLGBuf == w.at # "partition"

-----------------------------------------------------------------------------
(* Signals and the right to write *)

\* FLGSignalWrite: the owner of the signal posts the task, or gives up for good.
FLGSignalWrite ==
    \/ semSignal # none /\ UNCHANGED <<signal, noMore>>
    \/ semSignal = none /\ semSignal' = task /\ posted' = TRUE /\ UNCHANGED noMore
    \/ fFaults /\ semSignal = none /\ noMore' = TRUE /\ UNCHANGED signal

LGWriteLog_ ==
    /\ posted /\ pc[task] = "idle"
    /\ posted' = FALSE
    /\ Goto(task, "wl2")
    /\ UNCHANGED <<buffer, file, waiting, commit, semSignal, noMore, w, arg, ccrash>>

\* Where FLGWriteLog returns to: LGWriteLog_ ends, ErrLGWaitForWrite looks for
\* its signal, and ErrLGLogRec tries again (WriteToClearSpace waits for at most
\* cmsecWaitLogWrite, if it did not write).
Caller(t) == IF t = task THEN "idle" ELSE IF t \in queue \cup asig THEN "try" ELSE "log"

\* FLGWriteLog
TrySignal(t) ==
    /\ pc[t] = "wl"
    /\ semSignal' = IF semSignal = none THEN t ELSE semSignal
    /\ Goto(t, "wl2")
    /\ UNCHANGED <<buffer, file, waiting, commit, posted, noMore, w, arg, ccrash>>

Released(t) == IF semSignal = t THEN none ELSE semSignal

TryWrite(t) ==
    /\ pc[t] = "wl2"
    /\ IF w.by = none
       THEN w' = [NoWriter EXCEPT !.by = t, !.at = "enter"] /\ Goto(t, "writing") /\ UNCHANGED semSignal
       ELSE semSignal' = Released(t) /\ Goto(t, Caller(t)) /\ UNCHANGED w
    /\ UNCHANGED <<buffer, file, waiting, commit, posted, noMore, arg, ccrash>>

-----------------------------------------------------------------------------
(* ErrLGLogRec *)

Avail == (write + csecLGBuf) * cbSec - entry
csecReady == Seg(entry) - write
ibEntry == entry % cbSec

\* fLGFillPartialSector asks for the rest of the segment.
cbReq(t) == IF arg[t].fill THEN (cbSec - ibEntry) % cbSec ELSE arg[t].n
fForceNewGen(t) == arg[t].fNew /\ ~arg[t].forced

\* A full buffer would look like an empty one.
FHasRoom(t) == cbReq(t) < Avail

\* The record leaves a unit of the file (or of the next one) free.
FFitsInFile(t) ==
    entry + cbReq(t) < (IF fileEnd = nil THEN fileBase * cbSec ELSE fileEnd) + csecFile * cbSec

fNewGen(t) == fForceNewGen(t) \/ (fileEnd = nil /\ ~FFitsInFile(t))

\* A file gets at least one segment in the write that closes it.
cbToFill == IF ibEntry > 0 THEN cbSec - ibEntry ELSE IF csecReady = 0 THEN cbSec ELSE 0

FNothingToFill(t) == arg[t].fill /\ (cbReq(t) = 0 \/ ~FHasRoom(t) \/ cbReq(t) < cbIgnored)
FTooSmall(t) == ~arg[t].fill /\ ~fForceNewGen(t) /\ ~FHasRoom(t) /\ entry <= toWrite

FMustWait(t) ==
    IF fForceNewGen(t) THEN fileEnd # nil \/ Avail <= cbToFill
    ELSE \/ ~FHasRoom(t)
         \/ fileEnd # nil /\ ~FFitsInFile(t)
         \/ fNewGen(t) /\ Avail <= cbToFill

Logging(t) == pc[t] \in {"log", "fill"} /\ FreeLGBuf

AfterRestart(t) == IF arg[t].fill THEN "try" ELSE "wl"
EndFill(t) == arg' = [arg EXCEPT ![t].fill = FALSE, ![t].forced = FALSE]

LogRecFails(t) ==
    /\ Logging(t)
    /\ noMore \/ FNothingToFill(t) \/ FTooSmall(t)
    /\ IF arg[t].fill
       THEN Goto(t, "try") /\ EndFill(t)
       ELSE Goto(t, "idle") /\ arg' = [arg EXCEPT ![t] = NoArg]
    /\ UNCHANGED <<buffer, file, waiting, signal, commit, noMore, w, ccrash>>

\* Restart: errLGNotSynchronous, which the caller of a fill ignores.
LogRecRestart(t) ==
    /\ Logging(t) /\ ~noMore /\ ~FNothingToFill(t) /\ ~FTooSmall(t)
    /\ FMustWait(t)
    /\ FLGSignalWrite
    /\ Goto(t, AfterRestart(t)) /\ EndFill(t)
    /\ UNCHANGED <<buffer, file, waiting, commit, w, ccrash>>

\* Fill the segment, and with it the file, with NOPs, and start all over.
LogRecNewGen(t) ==
    /\ Logging(t) /\ ~noMore /\ ~FNothingToFill(t) /\ ~FTooSmall(t)
    /\ ~FMustWait(t) /\ fNewGen(t)
    /\ entry' = entry + cbToFill
    /\ fileEnd' = entry + cbToFill
    /\ FLGSignalWrite
    /\ arg' = [arg EXCEPT ![t].forced = TRUE]
    /\ UNCHANGED <<maxWrite, recs, file, waiting, commit, w, pc, ccrash>>

\* The first byte that a write of full segments leaves out: a record that hangs
\* over into the segment after them is not on disk.
MaxWritePoint(n) ==
    IF Seg(entry + n) = Seg(entry) THEN maxWrite
    ELSE IF (entry + n) % cbSec = 0 THEN entry + n ELSE entry

LogRecReserve(t) ==
    /\ Logging(t) /\ ~noMore /\ ~FNothingToFill(t) /\ ~FTooSmall(t)
    /\ ~FMustWait(t) /\ ~fNewGen(t)
    /\ IF fileEnd # nil \/ csecReady >= csecLGBuf \div 2
       THEN FLGSignalWrite ELSE UNCHANGED <<signal, noMore>>
    /\ maxWrite' = MaxWritePoint(cbReq(t))
    /\ entry' = entry + cbReq(t)
    /\ arg' = [arg EXCEPT ![t].beg = entry, ![t].n = cbReq(t),
                          ![t].lgpos = IF arg[t].fill THEN @ ELSE entry]
    /\ recs' = recs \cup (IF arg[t].fill THEN {} ELSE {[beg |-> entry, end |-> entry + cbReq(t), era |-> ccrash]})
    /\ Goto(t, "copy")
    /\ UNCHANGED <<fileEnd, file, waiting, commit, w, ccrash>>

\* The copy, outside of m_critLGBuf, and what the session does next: nothing,
\* ErrLGWaitForWrite or ErrLGScheduleWrite.
Copy(t) ==
    /\ pc[t] = "copy"
    /\ IF arg[t].fill
       THEN Goto(t, "try") /\ arg' = [arg EXCEPT ![t] = [NoArg EXCEPT !.lgpos = arg[t].lgpos]]
       ELSE \E a \in After :
              /\ Goto(t, IF a = "none" THEN "idle" ELSE a)
              /\ arg' = [arg EXCEPT ![t] = [NoArg EXCEPT !.lgpos = IF a = "none" THEN nil ELSE arg[t].lgpos]]
    /\ UNCHANGED <<buffer, file, waiting, signal, commit, noMore, w, ccrash>>

LogRec(t) ==
    /\ pc[t] = "idle" /\ t \in Session /\ entry < cbMax
    /\ \E n \in Size, f \in NewGen : arg' = [arg EXCEPT ![t] = [NoArg EXCEPT !.n = n, !.fNew = f]]
    /\ Goto(t, "log")
    /\ UNCHANGED <<buffer, file, waiting, signal, commit, noMore, w, ccrash>>

-----------------------------------------------------------------------------
(* ErrLGWaitForWrite *)

Finish(t) == Goto(t, "idle") /\ arg' = [arg EXCEPT ![t] = NoArg]
MaxOf(a, b) == IF a < b THEN b ELSE a

ErrLGWaitForWrite(t) ==
    /\ pc[t] = "flush" /\ FreeLGBuf
    /\ \/ arg[t].lgpos < toWrite /\ Finish(t) /\ acked' = MaxOf(acked, arg[t].lgpos) /\ UNCHANGED <<queue, asig>>
       \/ arg[t].lgpos >= toWrite /\ noMore /\ Finish(t) /\ UNCHANGED waiting
       \/ /\ arg[t].lgpos >= toWrite /\ ~noMore
          /\ queue' = queue \cup {t} /\ UNCHANGED <<asig, acked>>
          /\ LET fFill == fileEnd = nil /\ Seg(entry) = Seg(arg[t].lgpos)
             IN  /\ Goto(t, IF fFill THEN "fill" ELSE "try")
                 /\ arg' = [arg EXCEPT ![t].fill = fFill]
    /\ UNCHANGED <<buffer, file, signal, commit, noMore, w, ccrash>>

\* FTryWait, FWait with a timeout, and FLGWriteLog each time the signal is not set.
AwaitSignal(t) ==
    /\ pc[t] = "try"
    /\ \/ /\ t \in asig /\ asig' = asig \ {t} /\ Finish(t)
          /\ acked' = IF noMore THEN acked ELSE MaxOf(acked, arg[t].lgpos)
       \/ t \notin asig /\ Goto(t, "wl") /\ UNCHANGED <<asig, acked, arg>>
    /\ UNCHANGED <<queue, buffer, file, signal, commit, noMore, w, ccrash>>

-----------------------------------------------------------------------------
(* Lazy commits *)

\* ErrLGScheduleWrite: the position first, then the timer.
UpdateLgposLazy(t) ==
    /\ pc[t] = "lazy"
    /\ lgposLazy' = MaxOf(lgposLazy, arg[t].lgpos)
    /\ Goto(t, "lazy2")
    /\ UNCHANGED <<buffer, file, waiting, signal, tick, critLazy, timer, noMore, w, arg, ccrash>>

\* A timer that is set may be early enough or not; both loops are one test here.
CheckTick(t) ==
    /\ pc[t] = "lazy2"
    /\ \/ tick /\ Finish(t) /\ UNCHANGED <<tick, critLazy>>
       \/ critLazy = none /\ critLazy' = t /\ tick' = TRUE /\ Goto(t, "lazy3") /\ UNCHANGED arg
    /\ UNCHANGED <<buffer, file, waiting, signal, lgposLazy, timer, noMore, w, ccrash>>

ScheduleTimer(t) ==
    /\ pc[t] = "lazy3"
    /\ timer' = TRUE /\ critLazy' = none
    /\ Finish(t)
    /\ UNCHANGED <<buffer, file, waiting, signal, lgposLazy, tick, noMore, w, ccrash>>

\* LGLazyCommit_: the tick first, then the position.
TimerFires ==
    /\ timer /\ pc[lazy] = "idle"
    /\ timer' = FALSE
    /\ Goto(lazy, "zero")
    /\ UNCHANGED <<buffer, file, waiting, signal, lgposLazy, tick, critLazy, noMore, w, arg, ccrash>>

\* Slip: the tick of the timer is not reset.
SlipKeepsTick ==
    /\ pc[lazy] = "zero"
    /\ Goto(lazy, "read")
    /\ UNCHANGED <<buffer, file, waiting, signal, commit, noMore, w, arg, ccrash>>

ZeroTick ==
    /\ pc[lazy] = "zero"
    /\ tick' = FALSE
    /\ Goto(lazy, "read")
    /\ UNCHANGED <<buffer, file, waiting, signal, lgposLazy, critLazy, timer, noMore, w, arg, ccrash>>

ReadLgposLazy ==
    /\ pc[lazy] = "read"
    /\ arg' = [arg EXCEPT ![lazy].lgpos = lgposLazy]
    /\ Goto(lazy, "flush")
    /\ UNCHANGED <<buffer, file, waiting, signal, commit, noMore, w, ccrash>>

-----------------------------------------------------------------------------
(* The writer: ErrLGIWriteLog, ErrLGIDeferredWrite *)

Step(l) == w' = [w EXCEPT !.at = l]

\* Slip: when the log is down, only those whose records are on disk are woken.
SlipWokenWritten(end) == {t \in queue : arg[t].lgpos < end}

\* FWakeWaitingQueue
Woken(end) == IF noMore THEN queue ELSE {t \in queue : arg[t].lgpos < end}

FWakeWaitingQueue(end) ==
    /\ queue' = queue \ Woken(end)
    /\ asig' = asig \cup Woken(end)
    /\ UNCHANGED acked

\* Repeat: nothing is written once the log is down.
EnterWrite ==
    /\ w.at = "enter"
    /\ IF noMore
       THEN FWakeWaitingQueue(0) /\ w' = [w EXCEPT !.at = "exit", !.ok = FALSE]
       ELSE Step("partition") /\ UNCHANGED waiting
    /\ UNCHANGED <<buffer, file, signal, commit, noMore, pc, arg, ccrash>>

EnterDeferred ==
    /\ w.at = "deferred"
    /\ Step("partition")
    /\ UNCHANGED <<buffer, file, waiting, signal, commit, noMore, pc, arg, ccrash>>

Copying == {t \in Waiter : pc[t] = "copy"}

\* Slip: the writer does not wait for records that are being copied.
SlipNoPartition == FALSE

\* m_msLGPendingCopyIntoBuffer.Partition()
FPendingCopies == Copying # {}

\* The segments a write sends out, with the place in the file of the first.
Segment(seg, end) == [seg |-> seg, n |-> Min({cbSec, end - seg * cbSec}), era |-> ccrash]
Io(seg, segments) == [i \in 1..Len(segments) |-> [slot |-> seg - fileBase + i - 1, to |-> segments[i]]]
Full(from, csec) == [i \in 1..csec |-> [seg |-> from + i - 1, n |-> cbSec, era |-> ccrash]]

\* Slip: full segments go out in one write, shadow or not.
SlipOneIo(csec) == <<Io(write, Full(write, csec))>>

\* ErrLGIWriteFullSectors: a shadow is overwritten only once the segment it
\* protects is written in full.
FullSectorIos(csec) ==
    IF ~shadow THEN <<Io(write, Full(write, csec))>>
    ELSE <<Io(write, Full(write, 1)),
           IF csec = 1 THEN Io(write + 1, Full(write, 1)) ELSE Io(write + 1, Full(write + 1, csec - 1))>>

\* ErrLGIWritePartialSector: the segment and its shadow, apart if there is a
\* shadow already.
PartialSectorIos(end) ==
    LET s == Segment(write, end)
    IN  IF shadow THEN <<Io(write, <<s>>), Io(write + 1, <<s>>)>> ELSE <<Io(write, <<s, s>>)>>

\* With m_critLGBuf and no copies pending, decide what to write.
Partition ==
    /\ w.at = "partition" /\ ~FPendingCopies
    /\ LET end == IF fileEnd = nil THEN entry ELSE fileEnd
           csecFull == Seg(end) - write
       IN  IF ~w.fDeferred /\ fileEnd = nil /\ entry <= toWrite
           THEN Step("exit")
           ELSE w' = [w EXCEPT !.at = "io", !.csecFull = csecFull, !.fPartial = end % cbSec # 0,
                               !.fNewGen = fileEnd # nil,
                               !.end = IF csecFull = 0 \/ fileEnd # nil THEN end ELSE maxWrite,
                               !.ios = IF csecFull = 0 THEN PartialSectorIos(end) ELSE FullSectorIos(csecFull)]
    /\ UNCHANGED <<buffer, file, waiting, signal, commit, noMore, pc, arg, ccrash>>

\* What the disk may hold of a write that did not end: each segment is there or
\* not, or torn, in any order ("order of sector updating is not guaranteed when
\* writing multiple sectors to disk").
Arrivals(io) == [1..Len(io) -> {"new", "old", "torn"}]

Left(io, f) ==
    [s \in Slot |->
        IF \E i \in 1..Len(io) : io[i].slot = s
        THEN LET i == CHOOSE i \in 1..Len(io) : io[i].slot = s
             IN  CASE f[i] = "new" -> io[i].to [] f[i] = "torn" -> Torn [] OTHER -> disk[s]
        ELSE disk[s]]

Outcomes(io) == {Left(io, f) : f \in Arrivals(io)}

\* The crashes that the reader counts on: segments written for the first time
\* arrive in order and whole; one that is rewritten may be torn, and may be late.
Rewrites(e) == disk[e.slot].seg = e.to.seg /\ (fTearShadow \/ e.to.seg = fileBase + e.slot)

OrderlyOutcomes(io) ==
    LET Orderly == {f \in Arrivals(io) :
                     \A i \in 1..Len(io) :
                       /\ f[i] = "torn" => Rewrites(io[i])
                       /\ f[i] = "old" /\ ~Rewrites(io[i]) => \A j \in i..Len(io) : f[j] = "old"}
    IN  {Left(io, f) : f \in Orderly}

Written(io) == [s \in Slot |-> IF \E i \in 1..Len(io) : io[i].slot = s
                                THEN io[CHOOSE i \in 1..Len(io) : io[i].slot = s].to ELSE disk[s]]

\* ErrLGWriteSectorData
IoEnds ==
    /\ w.at = "io"
    /\ disk' = Written(Head(w.ios))
    /\ w' = [w EXCEPT !.ios = Tail(@), !.at = IF Len(w.ios) = 1 THEN "done" ELSE "io"]
    /\ UNCHANGED <<buffer, write, fileBase, toWrite, shadow, waiting, signal, commit, noMore, pc, arg, ccrash>>

IoFails ==
    /\ w.at = "io" /\ fFaults
    /\ disk' \in Outcomes(Head(w.ios))
    /\ noMore' = TRUE
    /\ w' = [w EXCEPT !.ios = <<>>, !.at = "wake2", !.ok = FALSE]
    /\ UNCHANGED <<buffer, write, fileBase, toWrite, shadow, waiting, signal, commit, pc, arg, ccrash>>

\* Under m_critLGBuf.
WriteDone ==
    /\ w.at = "done"
    /\ toWrite' = w.end
    /\ shadow' = (w.csecFull = 0)
    /\ write' = write + w.csecFull
    /\ w' = [w EXCEPT !.at = "wake", !.fRoll = w.csecFull > 0 /\ fileEnd = write' * cbSec]
    /\ UNCHANGED <<buffer, fileBase, disk, waiting, signal, commit, noMore, pc, arg, ccrash>>

Wake ==
    /\ w.at = "wake"
    /\ FWakeWaitingQueue(w.end)
    /\ Step(IF w.csecFull = 0 THEN "exit" ELSE IF w.fRoll THEN "newfile" ELSE "wake2")
    /\ UNCHANGED <<buffer, file, signal, commit, noMore, pc, arg, ccrash>>

\* ErrLGNewLogFile
NewLogFile ==
    /\ w.at = "newfile"
    /\ fileBase' = write /\ disk' = Empty
    /\ fileEnd' = nil
    /\ recs' = {r \in recs : r.beg >= write * cbSec}
    /\ maxWrite' = MaxOf(maxWrite, toWrite)
    /\ Step("wake2")
    /\ UNCHANGED <<entry, write, toWrite, shadow, waiting, signal, commit, noMore, pc, arg, ccrash>>

NewLogFileFails ==
    /\ w.at = "newfile" /\ fFaults
    /\ noMore' = TRUE
    /\ w' = [w EXCEPT !.at = "wake2", !.ok = FALSE]
    /\ UNCHANGED <<buffer, file, waiting, signal, commit, pc, arg, ccrash>>

\* The last wake-up of a write, which says whether anybody still waits.
WakeAgain ==
    /\ w.at = "wake2"
    /\ FWakeWaitingQueue(w.end)
    /\ LET fWaitersExist == queue # Woken(w.end)
       IN  IF ~w.ok \/ w.csecFull = 0 \/ w.fDeferred THEN Step("exit")
           ELSE IF fWaitersExist /\ w.fNewGen THEN Step("enter")
           ELSE w' = [w EXCEPT !.at = "check", !.fPartial = @ /\ fWaitersExist]
    /\ UNCHANGED <<buffer, file, signal, commit, noMore, pc, arg, ccrash>>

Check ==
    /\ w.at = "check"
    /\ IF fileEnd # nil THEN Step("enter")
       ELSE IF w.fPartial THEN w' = [w EXCEPT !.at = "deferred", !.fDeferred = TRUE]
       ELSE Step("exit")
    /\ UNCHANGED <<buffer, file, waiting, signal, commit, noMore, pc, arg, ccrash>>

ReleaseWrite ==
    /\ w.at = "exit"
    /\ w' = NoWriter
    /\ Goto(w.by, "down")
    /\ UNCHANGED <<buffer, file, waiting, signal, commit, noMore, arg, ccrash>>

ReleaseSignal(t) ==
    /\ pc[t] = "down"
    /\ semSignal' = Released(t)
    /\ Goto(t, Caller(t))
    /\ UNCHANGED <<buffer, file, waiting, commit, posted, noMore, w, arg, ccrash>>

-----------------------------------------------------------------------------
(* Crash and restart *)

CrashDisks == IF w.at = "io" THEN Outcomes(Head(w.ios)) ELSE {disk}

\* A write that failed may have left anything, and is the last one.
OrderlyDisks == IF w.at = "io" THEN OrderlyOutcomes(Head(w.ios)) ELSE IF noMore THEN {} ELSE {disk}

\* ErrLGCheckReadLastLogRecordFF: the segments in order.  One is good, or empty
\* (the shadow of its predecessor, or of an older file), or corrupt and then
\* replaced by its shadow; after an empty one there must be no other.
Good(d, i) == d[i].seg = fileBase + i
FEmpty(d, i) == d[i] # Torn /\ ~Good(d, i)
FShadowed(d, i) == d[i] = Torn /\ d[i + 1].seg = fileBase + i
Usable(d, i) == Good(d, i) \/ FShadowed(d, i)
Content(d, i) == IF Good(d, i) THEN d[i] ELSE d[i + 1]

\* The number of segments before the first empty one.
csecValid(d) == Min({csecFile} \cup {i \in 0..(csecFile - 1) : FEmpty(d, i)})

FReadable(d) ==
    /\ \A i \in 0..(csecValid(d) - 1) : Usable(d, i)
    /\ \A i \in csecValid(d)..(csecFile - 1) : FEmpty(d, i)

\* All of a record is there, in segments that are good or have a shadow.
Recovered(d, r) ==
    \A s \in Seg(r.beg)..Seg(r.end - 1) :
        LET i == s - fileBase IN
        /\ i \in 0..(csecFile - 1) /\ Usable(d, i)
        /\ Content(d, i).era = r.era
        /\ Min({r.end, (s + 1) * cbSec}) <= s * cbSec + Content(d, i).n

\* A log that cannot be read is refused.  Logging goes on in the segment after the
\* last one, of a new file if need be.
Restart ==
    /\ ccrash < ccrashMax
    /\ ccrash' = ccrash + 1
    /\ \E d \in CrashDisks :
        /\ FReadable(d)
        /\ LET sec == fileBase + csecValid(d)
               fFull == csecValid(d) = csecFile
           IN  /\ write' = sec /\ entry' = sec * cbSec /\ toWrite' = sec * cbSec /\ maxWrite' = sec * cbSec
               /\ fileBase' = IF fFull THEN sec ELSE fileBase
               /\ disk' = IF fFull THEN Empty
                          ELSE [i \in Slot |-> IF i < csecValid(d) THEN Content(d, i) ELSE d[i]]
               /\ recs' = IF fFull THEN {} ELSE {r \in recs : Recovered(d, r)}
    /\ fileEnd' = nil /\ shadow' = FALSE /\ noMore' = FALSE
    /\ queue' = {} /\ asig' = {} /\ semSignal' = none /\ posted' = FALSE /\ w' = NoWriter
    /\ lgposLazy' = nil /\ tick' = FALSE /\ critLazy' = none /\ timer' = FALSE
    /\ pc' = [t \in Thread |-> "idle"] /\ arg' = [t \in Waiter |-> NoArg]
    /\ UNCHANGED acked

-----------------------------------------------------------------------------
Writer ==
    \/ EnterWrite \/ EnterDeferred \/ Partition \/ IoEnds \/ IoFails \/ WriteDone \/ Wake
    \/ NewLogFile \/ NewLogFileFails \/ WakeAgain \/ Check \/ ReleaseWrite

Timer == TimerFires \/ ZeroTick \/ ReadLgposLazy

LogRecStep(t) == LogRecFails(t) \/ LogRecRestart(t) \/ LogRecNewGen(t) \/ LogRecReserve(t) \/ Copy(t)

Waits(t) == LogRecStep(t) \/ ErrLGWaitForWrite(t) \/ AwaitSignal(t)
Commits(t) == UpdateLgposLazy(t) \/ CheckTick(t) \/ ScheduleTimer(t)
Writes(t) == TrySignal(t) \/ TryWrite(t) \/ ReleaseSignal(t)

Next ==
    \/ \E t \in Session : LogRec(t) \/ Commits(t)
    \/ \E t \in Waiter : Waits(t)
    \/ \E t \in Thread : Writes(t)
    \/ LGWriteLog_ \/ Timer
    \/ Writer \/ Restart

Spec == Init /\ [][Next]_vars

-----------------------------------------------------------------------------
(* Properties *)

\* Whatever a crash leaves of the write under way, in whatever order its segments
\* arrive, every record that starts before m_lgposToWrite, the position up to which
\* commits are acknowledged and pages may be written, is whole on disk; and if
\* first-time segments arrive in order, the scan of the log accepts what is left.
Durable ==
    /\ \A d \in CrashDisks : \A r \in recs : r.beg < toWrite => Recovered(d, r)
    /\ \A d \in OrderlyDisks : FReadable(d)

\* A session that is told that its record is on disk is told the truth, however
\* its wait, a failing write, a new file and a restart interleave.
AckedWritten == acked < toWrite

\* No byte goes to disk before its session has copied it into the buffer.
InFlight(p) ==
    \E k \in DOMAIN w.ios : \E i \in DOMAIN w.ios[k] :
        LET s == w.ios[k][i].to IN s.seg * cbSec <= p /\ p < s.seg * cbSec + s.n

OnlyCopied ==
    \A t \in Copying : \A p \in arg[t].beg..(arg[t].beg + arg[t].n - 1) :
        /\ ~InFlight(p)
        /\ \A i \in Slot : ~(disk[i].seg = Seg(p) /\ disk[i].era = ccrash /\ p < Seg(p) * cbSec + disk[i].n)

\* The last two together, with the types.
Sound == TypeOK /\ AckedWritten /\ OnlyCopied

\* Every call comes back.  A wait for a write ends because the record is on disk
\* or the log is down: a signal that is missed at the very end of a write is made
\* up for.  A session that finds no room in the buffer or the file gets it.
CallsReturn == \A t \in Thread : []<>(pc[t] = "idle")

\* A lazy commit gets to disk, or the log is down, even if nobody commits after
\* it.  Both positions only grow.
LazyCommitWritten == []<>(lgposLazy < toWrite \/ noMore)

\* The log of an instance can be read again if a crash tears one segment that
\* was written before, the shadow too.
TornSegmentRepaired == \A d \in OrderlyDisks : FReadable(d)
=============================================================================
