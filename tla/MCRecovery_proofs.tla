------------------------- MODULE MCRecovery_proofs -------------------------
(***************************************************************************)
(* The theorems about Recovery for the specification that TLC checks: its  *)
(* scenarios are restrictions of Recovery without and, in one of them,     *)
(* with loss of written log.  That one is an instance of Recovery, and is  *)
(* here an instance of the proofs as well, with the same constants; the    *)
(* two say the same of a state and of a step.                              *)
(***************************************************************************)
EXTENDS MCRecovery, RecoveryState_proofs

Losing == INSTANCE RecoveryState_proofs WITH LosesLogs <- TRUE

\* The invariants of Recovery, in both forms.
Kept == RecInv /\ StateInv
KeptLosing == Losing!RecInv /\ Losing!StateInv
MCInv ==
    /\ scenario \in {"lazy", "shared", "pages", "crashes", "waypoints"}
    /\ IF scenario = "waypoints" THEN KeptLosing ELSE Kept

\* The constants are as Recovery assumes.
LEMMA LosingConstants == Losing!RecoveryAssumption
BY RecoveryAssumption DEF Losing!RecoveryAssumption

\* The initial states are the same.
LEMMA LosingInit == Init => Losing!Init
BY Zenon DEF Init, NoRec, NoLgpos, NewSession, CleanBuf, Session, Losing!Init, Losing!NoRec, Losing!NoLgpos,
   Losing!NewSession, Losing!CleanBuf, Losing!Session

\* So are the steps.
LEMMA LosingNext == Waypoints!Next => Losing!Next
BY Zenon DEF Waypoints!Session, Waypoints!NoRec, Waypoints!NoLgpos, Waypoints!NewSession, Waypoints!CleanBuf,
   Waypoints!Rec, Waypoints!NodeRec, Waypoints!NeedsUndoInfo, Waypoints!Later, Waypoints!Earlier,
   Waypoints!Changed, Waypoints!WithoutUndoInfo, Waypoints!Open, Waypoints!Newest, Waypoints!LogRoom,
   Waypoints!Locked, Waypoints!OperOf, Waypoints!Update, Waypoints!LogCommit, Waypoints!CommittedBufs,
   Waypoints!EndCommit, Waypoints!Rollback, Waypoints!UndoneRecs, Waypoints!UndoNewest, Waypoints!EndRollback,
   Waypoints!WriteLog, Waypoints!WriteTip, Waypoints!AdvanceWaypoint, Waypoints!Waypoint, Waypoints!LogUndoInfo,
   Waypoints!Flushable, Waypoints!FlushPage, Waypoints!CkptTip, Waypoints!OldestStart, Waypoints!OldestBegin0,
   Waypoints!CkptSessions, Waypoints!CkptPages, Waypoints!Crash, Waypoints!NextRec, Waypoints!ToRedo,
   Waypoints!RedoNeeded, Waypoints!DbtimeMatches, Waypoints!DbtimeSeen, Waypoints!RedoBegin, Waypoints!RedoSkip,
   Waypoints!RedoNode, Waypoints!RedoUndoInfo, Waypoints!RedoUndo, Waypoints!RedoEndTrx,
   Waypoints!RedoRecoveryUndo, Waypoints!RedoQuit, Waypoints!BeginUndo, Waypoints!RecoveryQuitKeep,
   Waypoints!RecoveryQuitDetach, Waypoints!Transactions, Waypoints!Caching, Waypoints!Checkpointing,
   Waypoints!Redo, Waypoints!Quit, Waypoints!Next, Waypoints!vars, Waypoints!Min, Waypoints!Cardinality,
   Losing!Session, Losing!NoRec, Losing!NoLgpos, Losing!NewSession, Losing!CleanBuf, Losing!Rec, Losing!NodeRec,
   Losing!NeedsUndoInfo, Losing!Later, Losing!Earlier, Losing!Changed, Losing!WithoutUndoInfo, Losing!Open,
   Losing!Newest, Losing!LogRoom, Losing!Locked, Losing!OperOf, Losing!Update, Losing!LogCommit,
   Losing!CommittedBufs, Losing!EndCommit, Losing!Rollback, Losing!UndoneRecs, Losing!UndoNewest,
   Losing!EndRollback, Losing!WriteLog, Losing!WriteTip, Losing!AdvanceWaypoint, Losing!Waypoint,
   Losing!LogUndoInfo, Losing!Flushable, Losing!FlushPage, Losing!CkptTip, Losing!OldestStart,
   Losing!OldestBegin0, Losing!CkptSessions, Losing!CkptPages, Losing!Crash, Losing!NextRec, Losing!ToRedo,
   Losing!RedoNeeded, Losing!DbtimeMatches, Losing!DbtimeSeen, Losing!RedoBegin, Losing!RedoSkip,
   Losing!RedoNode, Losing!RedoUndoInfo, Losing!RedoUndo, Losing!RedoEndTrx, Losing!RedoRecoveryUndo,
   Losing!RedoQuit, Losing!BeginUndo, Losing!RecoveryQuitKeep, Losing!RecoveryQuitDetach, Losing!Transactions,
   Losing!Caching, Losing!Checkpointing, Losing!Redo, Losing!Quit, Losing!Next, Losing!vars, Losing!Min,
   Losing!Cardinality

\* So is what redo and undo rely on.
LEMMA LosingSound == Losing!RecoverySound => Waypoints!RecoverySound
BY Zenon DEF Waypoints!RecoverySound, Waypoints!TypeOK, Waypoints!PageImage, Waypoints!NoRec, Waypoints!Session,
   Waypoints!RCE, Waypoints!RedoDbtimeMatches, Waypoints!DbtimeMatches, Waypoints!UndoFindsVersion,
   Waypoints!NoDeferredAtUndo, Waypoints!DbtimeAdvances, Waypoints!WriteAhead, Waypoints!Survives,
   Waypoints!ChangedBy, Waypoints!ToRedo, Waypoints!NextRec, Waypoints!RedoNeeded, Losing!RecoverySound,
   Losing!TypeOK, Losing!PageImage, Losing!NoRec, Losing!Session, Losing!RCE, Losing!RedoDbtimeMatches,
   Losing!DbtimeMatches, Losing!UndoFindsVersion, Losing!NoDeferredAtUndo, Losing!DbtimeAdvances,
   Losing!WriteAhead, Losing!Survives, Losing!ChangedBy, Losing!ToRedo, Losing!NextRec, Losing!RedoNeeded

\* So is the state that the committed transactions make.
LEMMA LosingState == Losing!RecoveredState => RecoveredState
BY Zenon DEF RecoveredState, StateUnder, ValueUnder, Committed, LogCommitted, Session, Open, NoRec, Max,
   Losing!RecoveredState, Losing!StateUnder, Losing!ValueUnder, Losing!Committed, Losing!LogCommitted,
   Losing!Session, Losing!Open, Losing!NoRec, Losing!Max

\* The invariants hold at first.
LEMMA MCStarts == MCInit => MCInv
<1> SUFFICES ASSUME MCInit PROVE MCInv
  OBVIOUS
<1>1. Init /\ scenario \in {"lazy", "shared", "pages", "crashes", "waypoints"}
  BY MCAssumption DEF MCInit
<1>2. Kept
  BY <1>1, InitRec, InitState DEF Kept
<1>3. Losing!Init
  BY <1>1, LosingInit
<1>4. Losing!RecInv
  BY <1>3, LosingConstants, Losing!InitRec
<1>5. Losing!StateInv
  BY <1>3, LosingConstants, Losing!InitState
<1> QED
  BY <1>1, <1>2, <1>4, <1>5 DEF MCInv, KeptLosing

\* Every step keeps them.
LEMMA MCKeeps == MCInv /\ [MCNext]_mcvars => MCInv'
<1> SUFFICES ASSUME MCInv, [MCNext]_mcvars PROVE MCInv'
  OBVIOUS
<1>1. scenario' = scenario
  BY DEF MCNext, mcvars
<1>2. CASE scenario = "waypoints"
  <2>1. Waypoints!Next \/ UNCHANGED vars
    BY <1>2, Zenon DEF MCNext, mcvars
  <2>2. Losing!Next \/ UNCHANGED Losing!vars
    BY <2>1, LosingNext DEF vars, Losing!vars
  <2>3. Losing!RecInv /\ Losing!StateInv
    BY <1>2 DEF MCInv, KeptLosing
  <2>4. Losing!RecInv' /\ Losing!StateInv'
    BY <2>2, <2>3, LosingConstants, Losing!StateNext
  <2> QED
    BY <1>1, <1>2, <2>4 DEF MCInv, KeptLosing
<1>3. CASE scenario # "waypoints"
  <2>1. [Next]_vars
    BY <1>3, Zenon DEF MCNext, mcvars
  <2>2. RecInv /\ StateInv
    BY <1>3 DEF MCInv, Kept
  <2>3. RecInv' /\ StateInv'
    BY <2>1, <2>2, StateNext
  <2>4. scenario \in {"lazy", "shared", "pages", "crashes", "waypoints"}
    BY DEF MCInv
  <2> QED
    BY <1>1, <1>3, <2>3, <2>4 DEF MCInv, Kept
<1> QED
  BY <1>2, <1>3

\* They say what the run checks.
LEMMA MCRight == MCInv => RecoveredState /\ RecoveryReliable /\ AckedDurable
<1> SUFFICES ASSUME MCInv PROVE RecoveredState /\ RecoveryReliable /\ AckedDurable
  OBVIOUS
<1>1. CASE scenario = "waypoints"
  <2>1. Losing!RecInv /\ Losing!StateInv
    BY <1>1 DEF MCInv, KeptLosing
  <2>2. Losing!RecoverySound
    BY <2>1, LosingConstants, Losing!SoundNow
  <2>3. Losing!RecoveredState
    BY <2>1, LosingConstants, Losing!StateRight
  <2> QED
    BY <1>1, <2>2, <2>3, LosingSound, LosingState DEF RecoveryReliable, AckedDurable
<1>2. CASE scenario # "waypoints"
  <2>1. RecInv /\ StateInv
    BY <1>2 DEF MCInv, Kept
  <2>2. RecoverySound /\ RecoveredState
    BY <2>1, SoundNow, StateRight
  <2>3. AckedSurvives
    BY <2>1, RecAcked, MCAssumption
  <2> QED
    BY <1>2, <2>2, <2>3 DEF RecoveryReliable, AckedDurable
<1> QED
  BY <1>1, <1>2

-----------------------------------------------------------------------------
(* Theorems *)

\* Outside of recovery the database is what the committed transactions made of
\* it, with and without loss of written log, for any sessions, nodes and pages.
THEOREM RecoveredStateChecked == MCSpec => []RecoveredState
<1>1. MCInit => MCInv
  BY MCStarts
<1>2. MCInv /\ [MCNext]_mcvars => MCInv'
  BY MCKeeps
<1>3. MCInv => RecoveredState
  BY MCRight
<1> QED
  BY <1>1, <1>2, <1>3, PTL DEF MCSpec

\* Redo finds pages, versions, undo information, dbtimes and log as it relies
\* on them, with and without loss of written log.
THEOREM RecoveryReliableAlways == MCSpec => []RecoveryReliable
<1>1. MCInit => MCInv
  BY MCStarts
<1>2. MCInv /\ [MCNext]_mcvars => MCInv'
  BY MCKeeps
<1>3. MCInv => RecoveryReliable
  BY MCRight
<1> QED
  BY <1>1, <1>2, <1>3, PTL DEF MCSpec

\* A commit that was reported as durable stays in the log where no written log
\* is lost.
THEOREM AckedDurableAlways == MCSpec => []AckedDurable
<1>1. MCInit => MCInv
  BY MCStarts
<1>2. MCInv /\ [MCNext]_mcvars => MCInv'
  BY MCKeeps
<1>3. MCInv => AckedDurable
  BY MCRight
<1> QED
  BY <1>1, <1>2, <1>3, PTL DEF MCSpec
=============================================================================
