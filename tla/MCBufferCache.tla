--------------------------- MODULE MCBufferCache ---------------------------
(***************************************************************************)
(* Small instances of the buffer manager for TLC.  A behaviour belongs to  *)
(* one scenario, in which only so many pages, buffers, threads and updates *)
(* are used.                                                               *)
(***************************************************************************)
EXTENDS BufferCache, TLC

CONSTANTS Scenarios, p1, p2, t3
VARIABLE scenario

MCInit == scenario \in Scenarios /\ Init

\* No read and no write of the page fails, and no flush of it is refused for good.
NoFailure(p) ==
    \A b \in Buffer : bf'[b].pgno = p => bf'[b].err # "ioerr" /\ bf'[b].signal # "failed"

\* One of the buffers stays in the available pool.
OneBufferLeft == \E b \in Buffer : bf'[b].pgno = Nil

\* One page is used, by so many threads at a time, and updated so many times.
OnePage(threads, updates) ==
    /\ Next
    /\ \A t \in Thread : th'[t].pg # p2
    /\ \A b \in Buffer : bf'[b].pgno # p2
    /\ threads = 2 => th'[t3] = th[t3]
    /\ latest'[p1] <= updates + 1

\* Three threads on one page, of which one reads and flushes.
ThreeThreads ==
    /\ OnePage(3, 1)
    /\ th'[t3].req \in {"none", "S"}
    /\ OneBufferLeft
    /\ NoFailure(p1)

\* Two pages compete for three buffers; the second one is only read.
TwoPages ==
    /\ Next
    /\ th'[t3] = th[t3]
    /\ \A t \in Thread : th'[t].pg = p2 => th'[t].req \in {"none", "S"}
    /\ latest'[p1] <= 2 /\ latest'[p2] = 1
    /\ NoFailure(p1) /\ NoFailure(p2)

MCNext ==
    /\ UNCHANGED scenario
    /\ \/ scenario = "versions" /\ OnePage(2, 2)
       \/ scenario = "threads" /\ ThreeThreads
       \/ scenario = "pages" /\ TwoPages

MCSpec == MCInit /\ [][MCNext]_<<scenario, vars>>

Symmetry == Permutations(Buffer) \cup Permutations(Thread \ {t3})
=============================================================================
