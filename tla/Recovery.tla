------------------------------ MODULE Recovery ------------------------------
(***************************************************************************)
(* Write-ahead logging, checkpoint and crash recovery (bf.cxx, ver.cxx,    *)
(* logapi.cxx, log.cxx, logredo.cxx).  Sessions change nodes of pages in   *)
(* the buffer cache and log each change; dirty pages reach the database    *)
(* file whenever the buffer manager's conditions allow, with changes of    *)
(* open transactions on them too; a checkpoint says where redo starts; a   *)
(* crash loses the cache and the unwritten log; recovery redoes the log    *)
(* and rolls back what had not committed.                                  *)
(*                                                                         *)
(* The log buffer and its writes (module LogBuffer) are reduced here to    *)
(* "durable", the length of the log prefix that is on disk.  A log         *)
(* position is the index of a record.  A node's value is the dbtime of the *)
(* operation that wrote it, so any two versions of a node differ.          *)
(***************************************************************************)
EXTENDS Integers, Sequences, FiniteSets, FiniteSetsExt, SequencesExt

CONSTANTS
    NSession,       \* sessions are 1..NSession, in procid order
    Node,           \* nodes that transactions insert, replace and delete
    Page,           \* database pages
    PageOf,         \* PageOf[n]: the page that holds node n
    Loaded,         \* nodes that exist in the initial database
    MaxLog,         \* bound: records in the log (RecoveryUndo, RecoveryQuit apart)
    MaxUpdate,      \* bound: updates of one transaction
    MaxCrash,       \* bound: crashes
    LazyAllowed,    \* commits may be lazy (JET_bitCommitLazyFlush)
    LosesLogs       \* log loss resiliency (JET_paramWaypointLatency > 0): a crash
                    \* may also lose written log from the waypoint on

ASSUME RecoveryAssumption ==
    /\ NSession \in Nat \ {0}
    /\ PageOf \in [Node -> Page]
    /\ Loaded \subseteq Node
    /\ {MaxLog, MaxUpdate, MaxCrash} \subseteq Nat
    /\ {LazyAllowed, LosesLogs} \subseteq BOOLEAN

Session == 1 .. NSession
NoRec == -1                 \* value of a node that is not there
NoLgpos == 0                \* lgposMin as a modify position, lgposMax as a begin

VARIABLES
    mode,       \* "run", "redo" or "undo" (m_fRecovering, m_fRecoveringMode)
    log,        \* every record logged, on disk or still in the log buffer
    durable,    \* the write tip: records 1..durable are on disk
    waypoint,   \* first position whose changes may not reach the database
    disk,       \* disk[p]: the page image in the database file
    buf,        \* buf[p]: the page in the buffer cache
    sess,       \* sess[s]: the session
    dbtime,     \* dbtime counter of the database
    chk,        \* the checkpoint file: where redo starts, dbtime saved with it
    ckpt,       \* a checkpoint update in progress
    redo,       \* m_lgposRedo: the last record that recovery replayed
    acked,      \* history: transactions reported to the caller as durably committed
    kept,       \* history: transactions on disk as a whole, but not in the log
    crashes

vars == <<mode, log, durable, waypoint, disk, buf, sess, dbtime, chk, ckpt,
          redo, acked, kept, crashes>>

-----------------------------------------------------------------------------
(* Pages, versions and records. *)

\* An RCE: its rceid is the dbtime of its operation.
RCE == [id : Nat, node : Node, oper : {"Insert", "Replace", "FlagDelete"},
        before : Nat \cup {NoRec}]

NewSession == [st |-> "idle", start |-> NoLgpos, commit |-> NoLgpos,
               rces |-> {}, afterBT |-> FALSE, deferred |-> {}]

\* A page without changes.  The code leaves the begin-0 position of a written
\* page to checkpoint maintenance; until then the checkpoint only stays older.
CleanBuf(pg) == [pg |-> pg, dirty |-> FALSE, modify |-> NoLgpos,
                 begin0 |-> NoLgpos, undoInfo |-> {}]

\* Of a record: type, session, the Begin0 of its transaction, and for the
\* records about a node the rceid, the node, the operation, the value and the
\* page's dbtime before and after.
Rec(t, s, trx) == [t |-> t, s |-> s, trx |-> trx, rceid |-> 0, node |-> "none",
                   oper |-> "none", val |-> NoRec, before |-> 0, after |-> 0]
NodeRec(t, s, trx, rce, val, before, after) ==
    [t |-> t, s |-> s, trx |-> trx, rceid |-> rce.id, node |-> rce.node,
     oper |-> rce.oper, val |-> val, before |-> before, after |-> after]

\* FVERIAddUndoInfo: a replace and a flag-delete cannot be undone from their
\* log records, so their undo information must be logged before the page that
\* holds their effect is written.  An insert can.
NeedsUndoInfo(rce) == rce.oper # "Insert"

Later(a, b) == IF a > b THEN a ELSE b
Earlier(a, b) == IF b = NoLgpos \/ (a # NoLgpos /\ a < b) THEN a ELSE b

\* A change of a page in the cache: BFIDirtyPage, BFSetLgposModify and
\* BFSetLgposBegin0 under the write latch.
Changed(b, n, val, time, lgpos, begin) ==
    [b EXCEPT !.pg.img[n] = val, !.pg.dbtime = time, !.dirty = TRUE,
              !.modify = Later(@, lgpos), !.begin0 = Earlier(@, begin)]

\* BFRemoveUndoInfo of one version, the page now depending on lgpos.
WithoutUndoInfo(b, id, lgpos) ==
    [b EXCEPT !.undoInfo = @ \ {id}, !.modify = Later(@, lgpos)]

Open(s) == sess[s].st \in {"open", "rolling"}
Newest(s) == CHOOSE r \in sess[s].rces : \A q \in sess[s].rces : q.id <= r.id
LogRoom(k) == Len(log) + k <= MaxLog

Init ==
    /\ mode = "run"
    /\ log = <<>>
    /\ durable = 0
    /\ waypoint = 1
    /\ disk = [p \in Page |->
                 [img |-> [n \in {m \in Node : PageOf[m] = p} |->
                             IF n \in Loaded THEN 0 ELSE NoRec],
                  dbtime |-> 0]]
    /\ buf = [p \in Page |-> CleanBuf(disk[p])]
    /\ sess = [s \in Session |-> NewSession]
    /\ dbtime = 0
    /\ chk = [lgpos |-> 1, dbtime |-> 0]
    /\ ckpt = [pc |-> "none", lgpos |-> 0]
    /\ redo = 0
    /\ acked = {}
    /\ kept = {}
    /\ crashes = 0

-----------------------------------------------------------------------------
(* Transactions. *)

\* First-updater-wins: a node with a version of another session is refused.
Locked(n, s) == \E u \in Session \ {s} : \E r \in sess[u].rces : r.node = n

\* The operation that turns value v of a node into w.
OperOf(v, w) == IF v = NoRec THEN "Insert"
                ELSE IF w = NoRec THEN "FlagDelete" ELSE "Replace"

\* ErrNDInsert, ErrNDReplace, ErrNDFlagDelete: the deferred Begin0, then the
\* record, then the page, all under the page's write latch.  The RCE is linked
\* to the page if it will need undo information.
Update(s, n, delete) ==
    LET p     == PageOf[n]
        old   == buf[p].pg.img[n]
        time  == dbtime + 1
        new   == IF delete THEN NoRec ELSE time
        rce   == [id |-> time, node |-> n, oper |-> OperOf(old, new), before |-> old]
        first == sess[s].st = "idle"
        start == IF first THEN Len(log) + 1 ELSE sess[s].start
        recs  == (IF first THEN <<Rec("Begin0", s, start)>> ELSE <<>>)
                   \o <<NodeRec("Node", s, start, rce, new, buf[p].pg.dbtime, time)>>
        b     == Changed(buf[p], n, new, time, Len(log) + Len(recs), start)
    IN  /\ mode = "run"
        /\ sess[s].st \in {"idle", "open"}
        /\ Cardinality(sess[s].rces) < MaxUpdate
        /\ ~Locked(n, s)
        /\ ~(delete /\ old = NoRec)
        /\ LogRoom(Len(recs))
        /\ log' = log \o recs
        /\ dbtime' = time
        /\ sess' = [sess EXCEPT ![s].st = "open", ![s].start = start,
                                ![s].rces = @ \cup {rce}]
        /\ buf' = [buf EXCEPT ![p] =
                     IF NeedsUndoInfo(rce) THEN [b EXCEPT !.undoInfo = @ \cup {time}]
                     ELSE b]
        /\ UNCHANGED <<mode, durable, waypoint, disk, chk, ckpt, redo, acked, kept, crashes>>

\* ErrLGCommitTransaction to level 0: Commit0 is logged and FBegin0Logged is
\* reset, while the versions still hang on their pages.
LogCommit(s) ==
    /\ mode = "run"
    /\ sess[s].st = "open"
    /\ LogRoom(1)
    /\ log' = Append(log, Rec("Commit0", s, sess[s].start))
    /\ sess' = [sess EXCEPT ![s].st = "committing", ![s].commit = Len(log) + 1]
    /\ UNCHANGED <<mode, durable, waypoint, disk, buf, dbtime, chk, ckpt, redo,
                   acked, kept, crashes>>

\* Slip: the pages do not depend on the commit record.
SlipCommittedBufs(s, lgpos) ==
    LET Ids == {r.id : r \in sess[s].rces}
    IN  [p \in Page |-> [buf[p] EXCEPT !.undoInfo = @ \ Ids]]

\* Every page loses the undo information of session s.  BFRemoveUndoInfo makes
\* the page depend on the commit record, lest the page reach the disk, the
\* commit record be lost, and nothing be left to undo from.
CommittedBufs(s, lgpos) ==
    LET Ids == {r.id : r \in sess[s].rces}
    IN  [p \in Page |->
           IF buf[p].undoInfo \cap Ids = {} THEN buf[p]
           ELSE [buf[p] EXCEPT !.undoInfo = @ \ Ids, !.modify = Later(@, lgpos)]]

\* Slip: a durable commit does not wait for its record.
SlipEndCommit(s, lazy) ==
    /\ sess[s].st = "committing"
    /\ lazy => LazyAllowed
    /\ buf' = CommittedBufs(s, sess[s].commit)
    /\ acked' = IF lazy THEN acked ELSE acked \cup {sess[s].start}
    /\ sess' = [sess EXCEPT ![s] = NewSession]
    /\ UNCHANGED <<mode, log, durable, waypoint, disk, dbtime, chk, ckpt, redo, kept, crashes>>

\* The rest of ErrDIRCommitTransaction: wait until the commit record is on
\* disk, unless the commit is lazy, then VERCommitTransaction.
EndCommit(s, lazy) ==
    /\ sess[s].st = "committing"
    /\ IF lazy THEN LazyAllowed ELSE durable >= sess[s].commit
    /\ buf' = CommittedBufs(s, sess[s].commit)
    /\ acked' = IF lazy THEN acked ELSE acked \cup {sess[s].start}
    /\ sess' = [sess EXCEPT ![s] = NewSession]
    /\ UNCHANGED <<mode, log, durable, waypoint, disk, dbtime, chk, ckpt, redo, kept, crashes>>

\* Slip: open transactions are not rolled back at the end of recovery.
SlipRollback(s) ==
    /\ sess[s].st = "open"
    /\ mode = "run"
    /\ sess' = [sess EXCEPT ![s].st = "rolling"]
    /\ UNCHANGED <<mode, log, durable, waypoint, disk, buf, dbtime, chk, ckpt,
                   redo, acked, kept, crashes>>

\* A session may roll back its transaction; at the end of recovery every open
\* one is rolled back, in procid order (ErrLGRIEndEverySession).
Rollback(s) ==
    /\ sess[s].st = "open"
    /\ \/ mode = "run"
       \/ mode = "undo" /\ \A u \in 1 .. (s - 1) : ~Open(u)
    /\ sess' = [sess EXCEPT ![s].st = "rolling"]
    /\ UNCHANGED <<mode, log, durable, waypoint, disk, buf, dbtime, chk, ckpt,
                   redo, acked, kept, crashes>>

\* Slip: the undo information that is owed is not logged.
SlipUndoneRecs(s, rce, time) ==
    LET b == buf[PageOf[rce.node]]
    IN  <<NodeRec("Undo", s, sess[s].start, rce, rce.before, b.pg.dbtime, time)>>

\* ErrVERIUndoLoggedOper of the newest version: undo information that is still
\* owed is logged first, then the Undo record, then the page goes back to the
\* before-image, and the version is nullified.
UndoneRecs(s, rce, time) ==
    LET b == buf[PageOf[rce.node]]
    IN  (IF rce.id \in b.undoInfo
           THEN <<NodeRec("UndoInfo", s, sess[s].start, rce, rce.before, 0, 0)>>
           ELSE <<>>)
          \o <<NodeRec("Undo", s, sess[s].start, rce, rce.before, b.pg.dbtime, time)>>

UndoNewest(s) ==
    LET rce  == Newest(s)
        p    == PageOf[rce.node]
        time == dbtime + 1
        recs == UndoneRecs(s, rce, time)
    IN  /\ mode \in {"run", "undo"}
        /\ sess[s].st = "rolling"
        /\ sess[s].rces # {}
        /\ log' = log \o recs
        /\ dbtime' = time
        /\ buf' = [buf EXCEPT ![p] =
                     Changed(WithoutUndoInfo(@, rce.id, NoLgpos), rce.node, rce.before,
                             time, Len(log) + Len(recs), sess[s].start)]
        /\ sess' = [sess EXCEPT ![s].rces = @ \ {rce}]
        /\ UNCHANGED <<mode, durable, waypoint, disk, chk, ckpt, redo, acked, kept, crashes>>

\* ErrLGRollback, once nothing is left to undo.
EndRollback(s) ==
    /\ mode \in {"run", "undo"}
    /\ sess[s].st = "rolling"
    /\ sess[s].rces = {}
    /\ log' = Append(log, Rec("Rollback", s, sess[s].start))
    /\ sess' = [sess EXCEPT ![s] = NewSession]
    /\ UNCHANGED <<mode, durable, waypoint, disk, buf, dbtime, chk, ckpt, redo,
                   acked, kept, crashes>>

-----------------------------------------------------------------------------
(* The log writer and the buffer manager. *)

\* Some of the log buffer is written (module LogBuffer says how).
WriteLog ==
    /\ mode \in {"run", "undo"}
    /\ \E k \in durable + 1 .. Len(log) : durable' = k
    /\ UNCHANGED <<mode, log, waypoint, disk, buf, sess, dbtime, chk, ckpt, redo,
                   acked, kept, crashes>>

\* The tip that page writes are held against: LGWriteAndFlushTip.
WriteTip == IF mode = "redo" THEN redo ELSE durable + 1

\* ErrLGUpdateWaypoint: lGenMaxRequired in the database header moves up to the
\* log that is on disk, and the waypoint with it.
AdvanceWaypoint ==
    /\ LosesLogs
    /\ waypoint < WriteTip
    /\ waypoint' = WriteTip
    /\ UNCHANGED <<mode, log, durable, disk, buf, sess, dbtime, chk, ckpt, redo,
                   acked, kept, crashes>>

\* Without log loss resiliency the waypoint is the end of the current log file,
\* past everything logged.
Waypoint == IF LosesLogs THEN waypoint ELSE Len(log) + 1

\* One turn of the loop of ErrBFIPrepareFlushPage that logs the undo
\* information a dirty page owes.  The loop stops when the log buffer is full
\* and goes on at the next attempt, and it cannot log during redo.
LogUndoInfo(p) ==
    \E s \in Session : \E rce \in sess[s].rces :
        /\ mode \in {"run", "undo"}
        /\ rce.id \in buf[p].undoInfo
        /\ log' = Append(log, NodeRec("UndoInfo", s, sess[s].start, rce, rce.before, 0, 0))
        /\ buf' = [buf EXCEPT ![p] = WithoutUndoInfo(@, rce.id, Len(log) + 1)]
        /\ UNCHANGED <<mode, durable, waypoint, disk, sess, dbtime, chk, ckpt, redo,
                       acked, kept, crashes>>

\* The rest of ErrBFIPrepareFlushPage: no undo information owed, not touched
\* past the waypoint, and every record of the page's changes on disk.
Flushable(p) ==
    /\ buf[p].dirty
    /\ buf[p].undoInfo = {}
    /\ buf[p].modify < Waypoint
    /\ buf[p].modify < WriteTip

\* The page is written under its latch.  A crash during the write leaves the
\* old image or the new one.
FlushPage(p) ==
    /\ Flushable(p)
    /\ disk' = [disk EXCEPT ![p] = buf[p].pg]
    /\ buf' = [buf EXCEPT ![p] = CleanBuf(buf[p].pg)]
    /\ UNCHANGED <<mode, log, durable, waypoint, sess, dbtime, chk, ckpt, redo,
                   acked, kept, crashes>>

-----------------------------------------------------------------------------
(* The checkpoint: LGIUpdateCheckpoint reads the write tip, then the         *)
(* sessions, then the dirty pages, while transactions go on.                 *)

CkptTip ==
    /\ ckpt.pc = "none"
    /\ WriteTip > chk.lgpos
    /\ ckpt' = [pc |-> "sessions", lgpos |-> WriteTip]
    /\ UNCHANGED <<mode, log, durable, waypoint, disk, buf, sess, dbtime, chk, redo,
                   acked, kept, crashes>>

\* The oldest transaction with a logged begin.
OldestStart(lgpos) == Min({lgpos} \cup {sess[s].start : s \in {u \in Session : Open(u)}})
\* The oldest begin of a transaction that changed a page still dirty, held
\* back by the waypoint.
OldestBegin0(lgpos) ==
    Min({lgpos, Waypoint} \cup {buf[p].begin0 : p \in {q \in Page : buf[q].dirty}})

CkptSessions ==
    /\ ckpt.pc = "sessions"
    /\ ckpt' = [pc |-> "pages", lgpos |-> OldestStart(ckpt.lgpos)]
    /\ UNCHANGED <<mode, log, durable, waypoint, disk, buf, sess, dbtime, chk, redo,
                   acked, kept, crashes>>

\* The file is written only if the checkpoint moved up; the dbtime goes with
\* it (LGLoadAttachmentsFromFMP), because recovery will not see older records.
CkptPages ==
    LET lgpos == OldestBegin0(ckpt.lgpos)
    IN  /\ ckpt.pc = "pages"
        /\ chk' = IF lgpos > chk.lgpos THEN [lgpos |-> lgpos, dbtime |-> dbtime] ELSE chk
        /\ ckpt' = [pc |-> "none", lgpos |-> 0]
        /\ UNCHANGED <<mode, log, durable, waypoint, disk, buf, sess, dbtime, redo,
                       acked, kept, crashes>>

-----------------------------------------------------------------------------
(* Crash and recovery. *)

\* The cache, the sessions and the unwritten log are gone.  ErrLGRRedo starts
\* at the checkpoint, with the dbtime saved there.
Crash ==
    /\ crashes < MaxCrash
    /\ crashes' = crashes + 1
    /\ \E k \in (IF LosesLogs THEN waypoint - 1 .. durable ELSE {durable}) :
         /\ log' = SubSeq(log, 1, k)
         /\ durable' = k
         /\ kept' = kept \cup {log[i].trx : i \in {j \in k + 1 .. Len(log) :
                                  log[j].t = "Commit0" /\ log[j].trx < chk.lgpos}}
    /\ mode' = "redo"
    /\ buf' = [p \in Page |-> CleanBuf(disk[p])]
    /\ sess' = [s \in Session |-> NewSession]
    /\ dbtime' = chk.dbtime
    /\ ckpt' = [pc |-> "none", lgpos |-> 0]
    /\ redo' = chk.lgpos - 1
    /\ UNCHANGED <<waypoint, disk, chk, acked>>

NextRec == log[redo + 1]              \* the record that redo comes to
ToRedo(types) ==
    /\ mode = "redo"
    /\ ckpt.pc = "none"             \* redo updates the checkpoint itself
    /\ redo < Len(log)
    /\ NextRec.t \in types

\* FLGNeedRedoCheckDbtimeBefore: a record is redone if the page is older than
\* it, and then the page must be as it was when the record was logged.
RedoNeeded(r) == r.after > buf[PageOf[r.node]].pg.dbtime

DbtimeMatches(r) == RedoNeeded(r) => buf[PageOf[r.node]].pg.dbtime = r.before

\* ErrLGRICheckRedoCondition: the counter follows every record, skipped or not.
DbtimeSeen(r) == dbtime' = Later(dbtime, r.after)

\* lrtypBegin0
RedoBegin ==
    /\ ToRedo({"Begin0"})
    /\ sess' = [sess EXCEPT ![NextRec.s] =
                  [NewSession EXCEPT !.st = "open", !.start = redo + 1, !.afterBT = TRUE]]
    /\ redo' = redo + 1
    /\ UNCHANGED <<mode, log, durable, waypoint, disk, buf, dbtime, chk, ckpt, acked, kept, crashes>>

\* A session whose first Begin0 lies before the checkpoint: its records are
\* skipped (FAfterFirstBT).
RedoSkip ==
    /\ ToRedo({"Node", "UndoInfo", "Undo", "Commit0", "Rollback"})
    /\ ~sess[NextRec.s].afterBT
    /\ DbtimeSeen(NextRec)
    /\ redo' = redo + 1
    /\ UNCHANGED <<mode, log, durable, waypoint, disk, buf, sess, chk, ckpt, acked, kept, crashes>>

\* lrtypInsert, lrtypReplace, lrtypFlagDelete.  The version of an insert is
\* always made.  That of a replace or a flag-delete is made from the page if
\* the page is older than the record; if not, the page may have been written
\* with the change on it and the version waits for its undo information.
RedoNode ==
    LET r   == NextRec
        p   == PageOf[r.node]
        rce == [id |-> r.rceid, node |-> r.node, oper |-> r.oper,
                before |-> IF r.oper = "Insert" THEN NoRec ELSE buf[p].pg.img[r.node]]
        b   == Changed(buf[p], r.node, r.val, r.after, redo + 1, sess[r.s].start)
    IN  /\ ToRedo({"Node"})
        /\ sess[r.s].afterBT
        /\ DbtimeMatches(r)
        /\ DbtimeSeen(r)
        /\ \/ /\ RedoNeeded(r)
              /\ sess' = [sess EXCEPT ![r.s].rces = @ \cup {rce}]
              /\ buf' = [buf EXCEPT ![p] =
                           IF NeedsUndoInfo(rce) THEN [b EXCEPT !.undoInfo = @ \cup {rce.id}]
                           ELSE b]
           \/ /\ ~RedoNeeded(r)
              /\ sess' = IF NeedsUndoInfo(rce)
                           THEN [sess EXCEPT ![r.s].deferred = @ \cup {r.rceid}]
                           ELSE [sess EXCEPT ![r.s].rces = @ \cup {rce}]
              /\ UNCHANGED buf
        /\ redo' = redo + 1
        /\ UNCHANGED <<mode, log, durable, waypoint, disk, chk, ckpt, acked, kept, crashes>>

\* lrtypUndoInfo.  With no transaction open there is nothing it could serve.
\* If the version is there already, its page no longer owes undo information
\* (ErrVERModify, JET_errPreviousVersion); otherwise the version is made.
RedoUndoInfo ==
    LET r     == NextRec
        known == \E q \in sess[r.s].rces : q.id = r.rceid
        rce   == [id |-> r.rceid, node |-> r.node, oper |-> r.oper, before |-> r.val]
    IN  /\ ToRedo({"UndoInfo"})
        /\ sess[r.s].afterBT
        /\ IF ~Open(r.s) THEN UNCHANGED <<sess, buf>>
           ELSE /\ sess' = [sess EXCEPT ![r.s].deferred = @ \ {r.rceid},
                                        ![r.s].rces = IF known THEN @ ELSE @ \cup {rce}]
                /\ buf' = IF r.rceid \in buf[PageOf[r.node]].undoInfo
                            THEN [buf EXCEPT ![PageOf[r.node]] =
                                    WithoutUndoInfo(@, r.rceid, redo + 1)]
                            ELSE buf
        /\ redo' = redo + 1
        /\ UNCHANGED <<mode, log, durable, waypoint, disk, dbtime, chk, ckpt, acked, kept, crashes>>

\* lrtypUndo (VERRedoPhysicalUndo): the page goes back to the before-image of
\* the version, which is then nullified.
RedoUndo ==
    LET r     == NextRec
        p     == PageOf[r.node]
        found == {q \in sess[r.s].rces : q.id = r.rceid}
        b     == WithoutUndoInfo(buf[p], r.rceid, NoLgpos)
    IN  /\ ToRedo({"Undo"})
        /\ sess[r.s].afterBT
        /\ DbtimeMatches(r)
        /\ DbtimeSeen(r)
        /\ IF RedoNeeded(r)
             THEN \E q \in found :
                    buf' = [buf EXCEPT ![p] = Changed(b, r.node, q.before, r.after,
                                                      redo + 1, sess[r.s].start)]
             ELSE buf' = [buf EXCEPT ![p] = b]
        /\ sess' = [sess EXCEPT ![r.s].rces = @ \ found]
        /\ redo' = redo + 1
        /\ UNCHANGED <<mode, log, durable, waypoint, disk, chk, ckpt, acked, kept, crashes>>

\* lrtypCommit0 and lrtypRollback close the transaction: what is left of its
\* versions goes, and the deferred ones with them
\* (LGICleanupTransactionToLevel0).
RedoEndTrx ==
    LET r == NextRec
    IN  /\ ToRedo({"Commit0", "Rollback"})
        /\ sess[r.s].afterBT
        /\ buf' = CommittedBufs(r.s, IF r.t = "Commit0" THEN redo + 1 ELSE NoLgpos)
        /\ sess' = [sess EXCEPT ![r.s] = [NewSession EXCEPT !.afterBT = TRUE]]
        /\ redo' = redo + 1
        /\ UNCHANGED <<mode, log, durable, waypoint, disk, dbtime, chk, ckpt, acked, kept, crashes>>

\* lrtypRecoveryUndo does nothing; lrtypRecoveryQuit ends every session, and
\* writes every page if that recovery detached the database.
RedoRecoveryUndo ==
    /\ ToRedo({"RecoveryUndo"})
    /\ redo' = redo + 1
    /\ UNCHANGED <<mode, log, durable, waypoint, disk, buf, sess, dbtime, chk, ckpt,
                   acked, kept, crashes>>
RedoQuit ==
    /\ ToRedo({"QuitKeep", "QuitDetach"})
    /\ sess' = [s \in Session |-> NewSession]
    /\ IF NextRec.t = "QuitDetach"
         THEN /\ disk' = [p \in Page |-> buf[p].pg]
              /\ buf' = [p \in Page |-> CleanBuf(buf[p].pg)]
         ELSE UNCHANGED <<disk, buf>>
    /\ redo' = redo + 1
    /\ UNCHANGED <<mode, log, durable, waypoint, dbtime, chk, ckpt, acked, kept, crashes>>

\* The end of the log: ErrLGRRedo switches to undo and logs RecoveryUndo.
BeginUndo ==
    /\ mode = "redo"
    /\ ckpt.pc = "none"
    /\ redo = Len(log)
    /\ mode' = "undo"
    /\ log' = Append(log, Rec("RecoveryUndo", 0, 0))
    /\ UNCHANGED <<durable, waypoint, disk, buf, sess, dbtime, chk, ckpt, redo, acked, kept, crashes>>

\* ErrLGRIEndAllSessions, every session ended.  The database is kept attached
\* or, its pages all written, detached; then RecoveryQuit is on disk before the
\* checkpoint moves up to it.
RecoveryQuitKeep ==
    /\ mode = "undo"
    /\ \A s \in Session : sess[s].st = "idle"
    /\ log' = Append(log, Rec("QuitKeep", 0, 0))
    /\ mode' = "run"
    /\ UNCHANGED <<durable, waypoint, disk, buf, sess, dbtime, chk, ckpt, redo, acked, kept, crashes>>
RecoveryQuitDetach ==
    /\ mode = "undo"
    /\ \A s \in Session : sess[s].st = "idle"
    /\ \A p \in Page : ~buf[p].dirty
    /\ ckpt.pc = "none"
    /\ log' = Append(log, Rec("QuitDetach", 0, 0))
    /\ durable' = Len(log) + 1
    /\ waypoint' = Later(waypoint, Len(log) + 1)
    /\ chk' = [lgpos |-> Len(log) + 1, dbtime |-> dbtime]
    /\ mode' = "run"
    /\ UNCHANGED <<disk, buf, sess, dbtime, ckpt, redo, acked, kept, crashes>>

-----------------------------------------------------------------------------
Transactions ==
    \E s \in Session :
        \/ \E n \in Node, delete \in BOOLEAN : Update(s, n, delete)
        \/ LogCommit(s)
        \/ \E lazy \in BOOLEAN : EndCommit(s, lazy)
        \/ Rollback(s)
        \/ UndoNewest(s)
        \/ EndRollback(s)

Caching == \E p \in Page : LogUndoInfo(p) \/ FlushPage(p)
Checkpointing == CkptTip \/ CkptSessions \/ CkptPages

Redo == \/ RedoBegin \/ RedoSkip \/ RedoNode \/ RedoUndoInfo \/ RedoUndo
        \/ RedoEndTrx \/ RedoRecoveryUndo \/ RedoQuit

\* Recovery's own rollbacks, and its end.
RollsBack == mode = "undo" /\ \E s \in Session : Rollback(s) \/ UndoNewest(s) \/ EndRollback(s)
Quit == RecoveryQuitKeep \/ RecoveryQuitDetach

Next ==
    \/ Transactions
    \/ WriteLog
    \/ AdvanceWaypoint
    \/ Caching
    \/ Checkpointing
    \/ Crash
    \/ Redo
    \/ BeginUndo
    \/ Quit

Spec == Init /\ [][Next]_vars

-----------------------------------------------------------------------------
(* Properties. *)

PageImage(p) == [img : [{n \in Node : PageOf[n] = p} -> Nat \cup {NoRec}], dbtime : Nat]

\* Pages, cached pages, sessions, log and checkpoint are well formed, and the
\* positions they name lie in the log.
TypeOK ==
    /\ mode \in {"run", "redo", "undo"}
    /\ durable \in 0 .. Len(log)
    /\ waypoint \in 1 .. durable + 1
    /\ \A p \in Page :
          /\ disk[p] \in PageImage(p)
          /\ buf[p].pg \in PageImage(p)
          /\ buf[p].modify \in 0 .. Len(log)
          /\ buf[p].begin0 \in 0 .. Len(log)
          /\ buf[p].dirty \in BOOLEAN
          /\ buf[p].undoInfo \subseteq Nat
    /\ \A s \in Session :
          /\ sess[s].st \in {"idle", "open", "committing", "rolling"}
          /\ sess[s].start \in 0 .. Len(log)
          /\ sess[s].rces \subseteq RCE
          /\ sess[s].deferred \subseteq Nat
    /\ dbtime \in Nat
    /\ chk.lgpos \in 1 .. durable + 1
    /\ redo \in 0 .. Len(log)

LogCommitted(trx) == \E i \in 1 .. Len(log) : log[i].t = "Commit0" /\ log[i].trx = trx

\* What the committed transactions make of a node.
ValueUnder(Committed(_), n) ==
    LET Written == {i \in 1 .. Len(log) : /\ log[i].t = "Node"
                                          /\ log[i].node = n
                                          /\ Committed(log[i].trx)}
    IN  IF Written # {} THEN log[Max(Written)].val
        ELSE IF n \in Loaded THEN 0 ELSE NoRec

\* Every node, less the changes of the transactions that are still open, holds
\* what the committed transactions made of it.
StateUnder(Committed(_)) ==
    \A n \in Node :
        LET Pending == {r \in UNION {sess[s].rces : s \in {u \in Session : Open(u)}} :
                          r.node = n}
        IN  IF Pending = {} THEN buf[PageOf[n]].pg.img[n] = ValueUnder(Committed, n)
            ELSE \E r \in Pending : /\ \A q \in Pending : r.id <= q.id
                                    /\ r.before = ValueUnder(Committed, n)

\* Outside of recovery the database is what the committed transactions made of
\* it: redo and undo have brought back every committed change, and nothing
\* else, whatever the crash found on the pages and wherever the checkpoint was.
\* A transaction whose commit record was lost counts as committed if its
\* changes were all on disk and the checkpoint had passed them: it took effect
\* as a whole.
Committed(trx) == LogCommitted(trx) \/ trx \in kept
RecoveredState == mode = "run" => StateUnder(Committed)

\* A transaction whose commit was reported as durable stays committed through
\* every crash.
AckedSurvives == \A trx \in acked : LogCommitted(trx)

\* A record that recovery redoes finds its page as the operation did
\* (FLGNeedRedoCheckDbtimeBefore: JET_errDatabaseCorrupted otherwise).
RedoDbtimeMatches ==
    /\ ToRedo({"Node", "Undo"})
    /\ sess[NextRec.s].afterBT
    => DbtimeMatches(NextRec)

\* An Undo record that must be applied finds its version (the Assert of
\* VERRedoPhysicalUndo), so the before-image was there or came with an
\* UndoInfo record.
UndoFindsVersion ==
    /\ ToRedo({"Undo"})
    /\ sess[NextRec.s].afterBT
    /\ RedoNeeded(NextRec)
    => \E r \in sess[NextRec.s].rces : r.id = NextRec.rceid

\* When redo is over, every version that waited for its undo information has
\* got it (AssertNoDeferredRceid in ErrLGRIEndAllSessions).
NoDeferredAtUndo == mode = "undo" => \A s \in Session : sess[s].deferred = {}

\* Once redo is over, the dbtime counter is not behind any page: the next
\* change of a page gets a greater dbtime than the page has
\* (ErrLGSetDbtimeBeforeAndDirty).
DbtimeAdvances == mode # "redo" => \A p \in Page : buf[p].pg.dbtime <= dbtime

\* Write-ahead logging: the last change of every page in the database file is
\* in the part of the log that every crash leaves (Survives), even though
\* recovery writes pages too and the next crash takes more of the log.
Survives(i) == i <= durable /\ (LosesLogs => i < waypoint)
ChangedBy(p, time, i) ==
    i <= Len(log) /\ log[i].t \in {"Node", "Undo"} /\ PageOf[log[i].node] = p /\ log[i].after = time
WriteAhead ==
    \A p \in Page : disk[p].dbtime = 0 \/ \E i \in 1 .. Len(log) : Survives(i) /\ ChangedBy(p, disk[p].dbtime, i)

\* What redo and undo rely on, together.
RecoverySound ==
    TypeOK /\ RedoDbtimeMatches /\ UndoFindsVersion /\ NoDeferredAtUndo /\ DbtimeAdvances /\ WriteAhead

\* After a crash recovery comes to its end.
RecoveryEnds == []<>(mode = "run")
=============================================================================
