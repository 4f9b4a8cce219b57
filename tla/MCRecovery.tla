---------------------------- MODULE MCRecovery ----------------------------
(***************************************************************************)
(* Small instances of recovery for TLC.  A behaviour belongs to one        *)
(* scenario, in which some of the dimensions are larger than in others.    *)
(* Written log is lost in one scenario only.                               *)
(***************************************************************************)
EXTENDS Recovery

CONSTANTS Scenarios, n1, n2, n3, p1, p2
VARIABLE scenario

ASSUME MCAssumption ==
    /\ Scenarios \subseteq {"lazy", "shared", "pages", "crashes", "waypoints"}
    /\ LosesLogs = FALSE

TwoPages == [n \in Node |-> IF n = n3 THEN p2 ELSE p1]

Waypoints == INSTANCE Recovery WITH LosesLogs <- TRUE

mcvars == <<scenario, vars>>

\* Of a scenario: how far transactions fill the log, how many nodes one of
\* them changes, how often the system crashes, whether commits may be lazy, and
\* which nodes each session changes.
Dim(records, updates, times, lazy, used) ==
    [records |-> records, updates |-> updates, times |-> times, lazy |-> lazy, used |-> used]
Dims ==
    [lazy      |-> Dim(5, 1, 1, TRUE, <<{n1}, {n1}>>),     \* two sessions change one node, one after the other
     shared    |-> Dim(6, 1, 1, FALSE, <<{n1}, {n2}>>),    \* two sessions have nodes of their own on one page
     pages     |-> Dim(4, 2, 1, FALSE, <<{n1, n3}, {}>>),  \* one session changes two pages
     crashes   |-> Dim(3, 2, 2, FALSE, <<{n1}, {}>>),      \* a crash during the recovery from a crash
     waypoints |-> Dim(4, 1, 1, TRUE, <<{n1}, {}>>)]       \* written log is lost too

\* A step that keeps to the dimensions.
Within(d) ==
    /\ Len(log') > Len(log) /\ log'[Len(log')].t \in {"Node", "Commit0"} => Len(log') <= d.records
    /\ \A s \in Session : /\ Cardinality(sess'[s].rces) <= d.updates
                          /\ {r.node : r \in sess'[s].rces} \subseteq d.used[s]
    /\ crashes' <= d.times
    /\ ~d.lazy => \A s \in Session :
          sess[s].st = "committing" /\ sess'[s].st = "idle" /\ mode' = "run" => sess[s].start \in acked'

MCInit == scenario \in Scenarios /\ Init

MCNext ==
    /\ UNCHANGED scenario
    /\ IF scenario = "waypoints" THEN Waypoints!Next ELSE Next
    /\ Within(Dims[scenario])
    /\ scenario = "shared" => ckpt'.pc = "none"

MCSpec == MCInit /\ [][MCNext]_mcvars

\* In the scenario that is about progress, recovery is one thread that goes on
\* until it is done.  It updates the checkpoint between two records, so the
\* checkpoint update ends too, and holds up redo for a while only: hence the
\* strong fairness.
Fair(A) == scenario = "waypoints" /\ A /\ UNCHANGED scenario

MCFairSpec ==
    /\ MCSpec
    /\ SF_mcvars(Fair(Waypoints!Redo \/ Waypoints!BeginUndo))
    /\ WF_mcvars(Fair(Waypoints!CkptSessions \/ Waypoints!CkptPages))
    /\ WF_mcvars(Fair(Waypoints!RollsBack))
    /\ WF_mcvars(Fair(Waypoints!Quit))

-----------------------------------------------------------------------------
\* What redo and undo rely on.
RecoveryReliable == IF scenario = "waypoints" THEN Waypoints!RecoverySound ELSE RecoverySound

\* Without loss of written log a commit that was reported as durable stays.
AckedDurable == scenario # "waypoints" => AckedSurvives

\* Recovery ends, although checkpoint updates come in between.
RecoveryDone == scenario = "waypoints" => RecoveryEnds
=============================================================================
