---------------------------- MODULE MCLogBuffer ----------------------------
(***************************************************************************)
(* Small instances of the log buffer for TLC.  A behaviour belongs to one  *)
(* scenario: with all sizes, waits and faults at once the state space      *)
(* would be out of reach.                                                  *)
(***************************************************************************)
EXTENDS LogBuffer

CONSTANTS Scenarios, s2
VARIABLE scenario

\* Two sessions fill segments and files and wait for them to be written.
Shared == INSTANCE LogBuffer WITH After <- {"none", "flush"}, cbSec <- 2, csecLGBuf <- 3, csecFile <- 3,
    Size <- {1, 3}, cbIgnored <- 2, NewGen <- {FALSE}, cbMax <- 3, ccrashMax <- 0, fFaults <- FALSE

\* Records that span segments, failing writes and a crash.
Crash == INSTANCE LogBuffer WITH After <- {"none", "flush"}, cbSec <- 3, csecLGBuf <- 3, csecFile <- 2,
    Size <- {1, 4}, cbIgnored <- 2, NewGen <- {FALSE}, cbMax <- 5, ccrashMax <- 2, fFaults <- TRUE

\* Two sessions wait for their records.
Flushes == INSTANCE LogBuffer WITH After <- {"flush"}, cbSec <- 2, csecLGBuf <- 2, csecFile <- 2,
    Size <- {1}, cbIgnored <- 2, NewGen <- {FALSE}, cbMax <- 3, ccrashMax <- 0, fFaults <- TRUE

\* A session runs out of room in the buffer and in the file.
Room == INSTANCE LogBuffer WITH After <- {"none", "flush"}, cbSec <- 2, csecLGBuf <- 3, csecFile <- 2,
    Size <- {1, 2}, cbIgnored <- 1, NewGen <- BOOLEAN, cbMax <- 4, ccrashMax <- 0, fFaults <- TRUE

\* Lazy commits.
Lazy == INSTANCE LogBuffer WITH After <- {"lazy"}, cbSec <- 1, csecLGBuf <- 4, csecFile <- 4,
    Size <- {1}, cbIgnored <- 1, NewGen <- {FALSE}, cbMax <- 2, ccrashMax <- 0, fFaults <- FALSE

mcvars == <<scenario, vars>>

MCInit ==
    /\ scenario \in Scenarios
    /\ \/ scenario = "shared" /\ Shared!Init
       \/ scenario = "crash" /\ Crash!Init
       \/ scenario = "flushes" /\ Flushes!Init
       \/ scenario = "room" /\ Room!Init
       \/ scenario = "lazy" /\ Lazy!Init

Alone == pc'[s2] = "idle"

MCNext ==
    /\ UNCHANGED scenario
    /\ \/ scenario = "shared" /\ Shared!Next
       \/ scenario = "crash" /\ Crash!Next /\ Alone
       \/ scenario = "flushes" /\ Flushes!Next
       \/ scenario = "room" /\ Room!Next /\ Alone
       \/ scenario = "lazy" /\ Lazy!Next

MCSpec == MCInit /\ [][MCNext]_mcvars

\* Threads that can run do run, and I/O comes back, in the scenarios that are
\* about progress.
Fair(flushes, room, lazily) ==
    /\ \/ scenario = "flushes" /\ flushes
       \/ scenario = "room" /\ room
       \/ scenario = "lazy" /\ lazily
    /\ UNCHANGED scenario

MCFairness ==
    /\ \A t \in Session : WF_mcvars(Fair(Flushes!Commits(t), Room!Commits(t), Lazy!Commits(t)))
    /\ \A t \in Waiter : WF_mcvars(Fair(Flushes!Waits(t), Room!Waits(t), Lazy!Waits(t)))
    /\ \A t \in Thread : WF_mcvars(Fair(Flushes!Writes(t), Room!Writes(t), Lazy!Writes(t)))
    /\ WF_mcvars(Fair(Flushes!LGWriteLog_, Room!LGWriteLog_, Lazy!LGWriteLog_))
    /\ WF_mcvars(Fair(Flushes!Timer, Room!Timer, Lazy!Timer))
    /\ WF_mcvars(Fair(Flushes!Writer, Room!Writer, Lazy!Writer))

MCFairSpec == MCSpec /\ MCFairness

-----------------------------------------------------------------------------
Of(shared, crash, flushes, room, lazily) ==
    CASE scenario = "shared" -> shared [] scenario = "crash" -> crash [] scenario = "flushes" -> flushes
      [] scenario = "room" -> room [] OTHER -> lazily

\* Every record before m_lgposToWrite survives any crash.
LogDurable ==
    Of(Shared!Durable, Crash!Durable, Flushes!Durable, Room!Durable, Lazy!Durable)

\* A session is told the truth, and nothing is written before it is copied.
BufferSound ==
    Of(Shared!Sound, Crash!Sound, Flushes!Sound, Room!Sound, Lazy!Sound)

\* Waits for a write and for room in the buffer end.
CallsEnd == scenario \in {"flushes", "room"} => CallsReturn

\* A lazy commit gets to disk.
LazyWritten == scenario = "lazy" => LazyCommitWritten
=============================================================================
