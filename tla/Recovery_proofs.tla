-------------------------- MODULE Recovery_proofs --------------------------
(***************************************************************************)
(* Proofs about Recovery, for any sessions, nodes, pages and bounds, with  *)
(* and without loss of written log: the types, write-ahead logging,        *)
(* acknowledged commits, the dbtime counter, and that every record that is *)
(* redone finds its page as the operation did.                             *)
(***************************************************************************)
EXTENDS Recovery, WellFoundedInduction, SequenceTheorems, TLAPS

Oper == {"Insert", "Replace", "FlagDelete"}
Value == Nat \cup {NoRec}
NodeType == {"Node", "UndoInfo", "Undo"}
TrxType == NodeType \cup {"Begin0", "Commit0", "Rollback"}

\* A log record: of a session unless recovery wrote it, about a node or not,
\* with a dbtime if it changed a page.
LRec ==
    {r \in [t : TrxType \cup {"RecoveryUndo", "QuitKeep", "QuitDetach"}, s : Nat, trx : Nat, rceid : Nat,
            node : Node \cup {"none"}, oper : Oper \cup {"none"}, val : Value, before : Nat, after : Nat] :
       /\ r.t \in TrxType => r.s \in Session
       /\ r.t \in NodeType => r.node \in Node /\ r.oper \in Oper
       /\ IF r.t \in {"Node", "Undo"} THEN r.after > 0 ELSE r.after = 0}

BufType(p) == [pg : PageImage(p), dirty : BOOLEAN, modify : Nat, begin0 : Nat, undoInfo : SUBSET Nat]
SessType == [st : {"idle", "open", "committing", "rolling"}, start : Nat, commit : Nat,
             rces : SUBSET RCE, afterBT : BOOLEAN, deferred : SUBSET Nat]

LogTypes ==
    /\ mode \in {"run", "redo", "undo"}
    /\ log \in Seq(LRec)
    /\ durable \in Nat /\ waypoint \in Nat /\ dbtime \in Nat /\ redo \in Nat
    /\ chk \in [lgpos : Nat, dbtime : Nat]
    /\ ckpt \in [pc : {"none", "sessions", "pages"}, lgpos : Nat]
PageTypes ==
    /\ DOMAIN disk = Page /\ \A p \in Page : disk[p] \in PageImage(p)
    /\ DOMAIN buf = Page /\ \A p \in Page : buf[p] \in BufType(p)
\* The versions of a session have a newest one, if there are any.
SessTypes ==
    /\ sess \in [Session -> SessType]
    /\ \A s \in Session : \E top \in Nat : \A r \in sess[s].rces : r.id <= top
Types == LogTypes /\ PageTypes /\ SessTypes

Idx == 1 .. Len(log)
\* How far the cached pages follow the log.
Horizon == IF mode = "redo" THEN redo ELSE Len(log)
PageRec(i) == log[i].t \in {"Node", "Undo"}
On(p, i) == PageRec(i) /\ PageOf[log[i].node] = p

Bounds ==
    /\ 1 <= waypoint /\ waypoint <= durable + 1 /\ durable <= Len(log) /\ redo <= Len(log)
    /\ 1 <= chk.lgpos /\ chk.lgpos <= durable + 1 /\ (LosesLogs => chk.lgpos <= waypoint)
    /\ ckpt.lgpos <= durable + 1
    /\ mode = "redo" => durable = Len(log) /\ ckpt.lgpos <= redo /\ chk.lgpos <= redo + 1
    /\ \A i \in Idx : log[i].t = "QuitDetach" => i <= waypoint
BufBounds == \A p \in Page : buf[p].modify <= Horizon /\ buf[p].begin0 <= Len(log)

\* A session that commits has logged it.
Commits ==
    \A s \in Session :
        /\ sess[s].start <= Len(log)
        /\ sess[s].st = "committing" =>
             sess[s].commit \in Idx /\ log[sess[s].commit].t = "Commit0" /\ log[sess[s].commit].trx = sess[s].start
AckedLogged ==
    ~LosesLogs => \A trx \in acked : \E i \in Idx : i <= durable /\ log[i].t = "Commit0" /\ log[i].trx = trx

\* The dbtime of a record is news to the log before it; the counter, and the
\* checkpoint, have seen all of theirs.
SeenTimes == \A i \in Idx : i <= Horizon => log[i].after <= dbtime
ChkTimes == \A i \in Idx : i < chk.lgpos => log[i].after <= chk.dbtime
Order == \A i, j \in Idx : i < j /\ PageRec(i) /\ PageRec(j) => log[i].after < log[j].after

\* A page is as old as on disk or as a record within the horizon.
Stamps ==
    \A p \in Page :
        /\ disk[p].dbtime <= buf[p].pg.dbtime
        /\ buf[p].pg.dbtime = disk[p].dbtime
             \/ \E i \in Idx : i <= buf[p].modify /\ ChangedBy(p, buf[p].pg.dbtime, i)

\* A record has the dbtime of the last record of its page before it.
Chain ==
    \A j \in Idx : PageRec(j) =>
        /\ \A i \in Idx : i < j /\ On(PageOf[log[j].node], i) => log[i].after <= log[j].before
        /\ log[j].before = 0 \/ \E i \in Idx : i < j /\ On(PageOf[log[j].node], i) /\ log[i].after = log[j].before

\* Cached pages have every change within the horizon, and pages on disk every
\* change of a transaction that began before the checkpoint; a cached page that
\* is ahead of the disk is dirty, and says since which transaction.
Caught == \A p \in Page : \A i \in Idx : On(p, i) /\ i <= Horizon => log[i].after <= buf[p].pg.dbtime
ChkSafe ==
    \A p \in Page : \A i \in Idx : On(p, i) /\ log[i].trx < chk.lgpos => log[i].after <= disk[p].dbtime
Dirty ==
    \A p \in Page : \A i \in Idx :
        On(p, i) /\ i <= Horizon /\ log[i].after > disk[p].dbtime =>
            buf[p].dirty /\ buf[p].begin0 > 0 /\ buf[p].begin0 <= log[i].trx

\* A transaction is one stretch of the records of its session.
Cuts(k, s) ==
    \/ log[k].t \in {"QuitKeep", "QuitDetach"}
    \/ log[k].s = s /\ log[k].t \in {"Begin0", "Commit0", "Rollback"}
OfTrx ==
    \A i \in Idx : PageRec(i) =>
        /\ log[i].trx \in Idx /\ log[i].trx < i
        /\ log[log[i].trx].t = "Begin0" /\ log[log[i].trx].s = log[i].s
        /\ \A k \in Idx : log[i].trx < k /\ k < i => ~Cuts(k, log[i].s)
OpenTrx ==
    \A s \in Session : Open(s) =>
        /\ sess[s].start \in Idx /\ sess[s].start <= Horizon
        /\ log[sess[s].start].t = "Begin0" /\ log[sess[s].start].s = s
        /\ \A k \in Idx : sess[s].start < k /\ k <= Horizon => ~Cuts(k, s)
        /\ chk.lgpos <= sess[s].start /\ (ckpt.pc = "pages" => ckpt.lgpos <= sess[s].start)
\* Redo is in the middle of the transaction, or of one whose begin it did not see.
InRedo ==
    mode = "redo" =>
        \A i \in Idx : redo < i /\ PageRec(i) /\ log[i].trx <= redo =>
            IF sess[log[i].s].afterBT THEN Open(log[i].s) /\ sess[log[i].s].start = log[i].trx
            ELSE log[i].trx < chk.lgpos

RedoOpen == mode = "redo" => \A s \in Session : (Open(s) => sess[s].afterBT) /\ sess[s].st # "committing"

LogInv == Bounds /\ SeenTimes /\ ChkTimes /\ Order /\ Chain /\ OfTrx
PageInv == WriteAhead /\ Stamps /\ Caught /\ Dirty /\ ChkSafe /\ BufBounds
SessInv == Commits /\ AckedLogged /\ OpenTrx /\ InRedo /\ RedoOpen

\* The inductive invariant.
RecInv == Types /\ LogInv /\ PageInv /\ SessInv

-----------------------------------------------------------------------------
(* Operators *)

\* A nonempty set of naturals has a least element.
LEMMA LeastNat == ASSUME NEW T \in SUBSET Nat, T # {} PROVE \E x \in T : \A y \in T : x <= y
<1>1. PICK R : R = OpToRel(<, Nat)
  OBVIOUS
<1>2. IsWellFoundedOn(R, Nat)
  BY <1>1, NatLessThanWellFounded
<1>3. PICK x \in T : \A y \in T : ~(<<y, x>> \in R)
  BY <1>2, WFMin
<1>4. \A y \in T : y < x => <<y, x>> \in R
  BY <1>1 DEF OpToRel
<1>5. \A y \in T : ~(y < x)
  BY <1>3, <1>4, Zenon
<1> QED
  BY <1>5

\* Min returns an element that none is below.
LEMMA MinOfNat == ASSUME NEW T \in SUBSET Nat, T # {} PROVE Min(T) \in T /\ \A y \in T : Min(T) <= y
<1>1. \E x \in T : \A y \in T : x <= y
  BY LeastNat
<1> QED
  BY <1>1, Zenon DEF Min

\* Sessions are numbers, and a node has a page.
LEMMA Constants == Session \subseteq Nat /\ (\A n \in Node : PageOf[n] \in Page) /\ LosesLogs \in BOOLEAN
BY RecoveryAssumption DEF Session

Grows(l, m, k) == m \in Seq(LRec) /\ Len(m) = Len(l) + k /\ \A i \in 1 .. Len(l) : m[i] = l[i]

\* One record more.
LEMMA GrowsByOne ==
    ASSUME NEW l \in Seq(LRec), NEW r \in LRec, NEW m, m = Append(l, r) \/ m = l \o <<r>>
    PROVE  Grows(l, m, 1) /\ m[Len(l) + 1] = r
BY DEF Grows

\* Two records more.
LEMMA GrowsByTwo ==
    ASSUME NEW l \in Seq(LRec), NEW q \in LRec, NEW r \in LRec, NEW m, m = l \o (<<q>> \o <<r>>)
    PROVE  Grows(l, m, 2) /\ m[Len(l) + 1] = q /\ m[Len(l) + 2] = r
<1>1. PICK k : k = <<q>> \o <<r>> /\ k \in Seq(LRec) /\ Len(k) = 2 /\ k[1] = q /\ k[2] = r
  <2>1. PICK u, v : u = <<q>> /\ v = <<r>>
    OBVIOUS
  <2>2. u \in Seq(LRec) /\ v \in Seq(LRec) /\ Len(u) = 1 /\ Len(v) = 1 /\ u[1] = q /\ v[1] = r
    BY <2>1
  <2>3. /\ u \o v \in Seq(LRec) /\ Len(u \o v) = Len(u) + Len(v)
        /\ \A i \in 1 .. (Len(u) + Len(v)) : (u \o v)[i] = IF i <= Len(u) THEN u[i] ELSE v[i - Len(u)]
    BY <2>2, ConcatProperties
  <2>4. u \o v = <<q>> \o <<r>>
    BY <2>1, Zenon
  <2>5. PICK k : k = u \o v
    OBVIOUS
  <2>6. k \in Seq(LRec) /\ Len(k) = 2 /\ k[1] = q /\ k[2] = r
    BY <2>2, <2>3, <2>5
  <2> QED
    BY <2>4, <2>5, <2>6, Zenon
<1>2. m = l \o k
  BY <1>1, Zenon
<1>3. /\ m \in Seq(LRec) /\ Len(m) = Len(l) + Len(k)
      /\ \A i \in 1 .. (Len(l) + Len(k)) : m[i] = IF i <= Len(l) THEN l[i] ELSE k[i - Len(l)]
  <2>1. k \in Seq(LRec)
    BY <1>1
  <2> QED
    BY <1>2, <2>1, ConcatProperties
<1> QED
  BY <1>1, <1>3 DEF Grows

\* The records the code logs are records.
LEMMA RecIsRec ==
    ASSUME NEW s \in Nat, NEW trx \in Nat, NEW t \in {"Begin0", "Commit0", "Rollback", "RecoveryUndo", "QuitKeep", "QuitDetach"},
           t \in {"Begin0", "Commit0", "Rollback"} => s \in Session
    PROVE  /\ Rec(t, s, trx) \in LRec
           /\ Rec(t, s, trx).t = t /\ Rec(t, s, trx).s = s /\ Rec(t, s, trx).trx = trx /\ Rec(t, s, trx).after = 0
BY DEF Rec, LRec, TrxType, NodeType, Value, Oper, NoRec

\* The records the code logs about nodes are records.
LEMMA NodeRecIsRec ==
    ASSUME NEW s \in Session, NEW trx \in Nat, NEW t \in NodeType, NEW rce \in RCE, NEW val \in Value,
           NEW before \in Nat, NEW after \in Nat, IF t = "UndoInfo" THEN after = 0 ELSE after > 0
    PROVE  /\ NodeRec(t, s, trx, rce, val, before, after) \in LRec
           /\ NodeRec(t, s, trx, rce, val, before, after).t = t
           /\ NodeRec(t, s, trx, rce, val, before, after).s = s
           /\ NodeRec(t, s, trx, rce, val, before, after).trx = trx
           /\ NodeRec(t, s, trx, rce, val, before, after).node = rce.node
           /\ NodeRec(t, s, trx, rce, val, before, after).rceid = rce.id
           /\ NodeRec(t, s, trx, rce, val, before, after).oper = rce.oper
           /\ NodeRec(t, s, trx, rce, val, before, after).val = val
           /\ NodeRec(t, s, trx, rce, val, before, after).before = before
           /\ NodeRec(t, s, trx, rce, val, before, after).after = after
BY Constants DEF NodeRec, LRec, TrxType, NodeType, Value, Oper, RCE

\* What is known of a record in the log.
LEMMA OfLog ==
    ASSUME LogTypes, NEW i \in Idx
    PROVE  /\ log[i] \in LRec
           /\ log[i].t \in TrxType \cup {"RecoveryUndo", "QuitKeep", "QuitDetach"}
           /\ log[i].s \in Nat /\ log[i].trx \in Nat /\ log[i].rceid \in Nat
           /\ log[i].before \in Nat /\ log[i].after \in Nat /\ log[i].val \in Value
           /\ log[i].t \in TrxType => log[i].s \in Session
           /\ log[i].t \in NodeType => log[i].node \in Node /\ PageOf[log[i].node] \in Page /\ log[i].oper \in Oper
           /\ IF log[i].t \in {"Node", "Undo"} THEN log[i].after > 0 ELSE log[i].after = 0
<1>1. log[i] \in LRec
  BY DEF LogTypes, Idx
<1> QED
  BY <1>1, Constants DEF LRec

\* The same of the log after a step.
LEMMA OfLogNext ==
    ASSUME LogTypes', NEW i \in Idx'
    PROVE  /\ log'[i].t \in TrxType \cup {"RecoveryUndo", "QuitKeep", "QuitDetach"}
           /\ log'[i].s \in Nat /\ log'[i].trx \in Nat /\ log'[i].before \in Nat /\ log'[i].after \in Nat
           /\ log'[i].t \in TrxType => log'[i].s \in Session
           /\ log'[i].t \in NodeType => log'[i].node \in Node /\ PageOf[log'[i].node] \in Page
           /\ IF log'[i].t \in {"Node", "Undo"} THEN log'[i].after > 0 ELSE log'[i].after = 0
<1>1. log'[i] \in LRec
  BY DEF LogTypes, Idx
<1> QED
  BY <1>1, Constants DEF LRec

Written(img, n, val) == [img EXCEPT ![n] = val]
WrittenTo(c, b, n, val) == c.undoInfo = b.undoInfo /\ c.pg.img = Written(b.pg.img, n, val)

\* Page b in the cache after a change at a dbtime, by a record, of a transaction.
ChangedTo(c, p, b, time, lgpos, begin) ==
    /\ c \in BufType(p) /\ c.pg.dbtime = time /\ c.dirty = TRUE
    /\ c.modify = Later(b.modify, lgpos) /\ c.begin0 = Earlier(b.begin0, begin)

\* Changed does that.
LEMMA ChangedType ==
    ASSUME NEW n \in Node, NEW p, p = PageOf[n], NEW b \in BufType(p), NEW val \in Value,
           NEW time \in Nat, NEW lgpos \in Nat, NEW begin \in Nat
    PROVE  /\ ChangedTo(Changed(b, n, val, time, lgpos, begin), p, b, time, lgpos, begin)
           /\ WrittenTo(Changed(b, n, val, time, lgpos, begin), b, n, val)
<1>1. /\ b.pg \in PageImage(p) /\ b.modify \in Nat /\ b.begin0 \in Nat /\ b.undoInfo \in SUBSET Nat
      /\ b = [pg |-> b.pg, dirty |-> b.dirty, modify |-> b.modify, begin0 |-> b.begin0, undoInfo |-> b.undoInfo]
  BY DEF BufType
<1>2. b.pg.img \in [{m \in Node : PageOf[m] = p} -> Value] /\ b.pg = [img |-> b.pg.img, dbtime |-> b.pg.dbtime]
  BY <1>1 DEF PageImage, Value
<1>3. PICK pg : pg = [img |-> [b.pg.img EXCEPT ![n] = val], dbtime |-> time]
  OBVIOUS
<1>4. pg \in PageImage(p) /\ pg.dbtime = time
  BY <1>2, <1>3 DEF PageImage, Value
<1>5. Later(b.modify, lgpos) \in Nat /\ Earlier(b.begin0, begin) \in Nat
  BY <1>1 DEF Later, Earlier
<1>6. Changed(b, n, val, time, lgpos, begin) =
        [pg |-> pg, dirty |-> TRUE, modify |-> Later(b.modify, lgpos), begin0 |-> Earlier(b.begin0, begin),
         undoInfo |-> b.undoInfo]
  <2>1. PICK img : img = [b.pg.img EXCEPT ![n] = val]
    OBVIOUS
  <2>2. PICK b1 : b1 = [b EXCEPT !.pg.img = img]
    OBVIOUS
  <2>3. b1 = [b EXCEPT !.pg.img[n] = val]
    BY <2>1, <2>2
  <2>4. b1.pg = [img |-> img, dbtime |-> b.pg.dbtime]
    BY <1>1, <1>2, <2>2
  <2>5. b1 = [pg |-> b1.pg, dirty |-> b.dirty, modify |-> b.modify, begin0 |-> b.begin0, undoInfo |-> b.undoInfo]
    BY <1>1, <1>2, <2>2
  <2>6. PICK b2 : b2 = [b1 EXCEPT !.pg.dbtime = time]
    OBVIOUS
  <2>7. b2.pg = pg
    BY <1>3, <2>1, <2>4, <2>5, <2>6
  <2>8. b2 = [pg |-> pg, dirty |-> b.dirty, modify |-> b.modify, begin0 |-> b.begin0, undoInfo |-> b.undoInfo]
    BY <2>5, <2>6, <2>7
  <2>9. PICK b3 : b3 = [b2 EXCEPT !.dirty = TRUE]
    OBVIOUS
  <2>10. b3 = [pg |-> pg, dirty |-> TRUE, modify |-> b.modify, begin0 |-> b.begin0, undoInfo |-> b.undoInfo]
    BY <2>8, <2>9
  <2>11. PICK b4 : b4 = [b3 EXCEPT !.modify = Later(b.modify, lgpos)]
    OBVIOUS
  <2>12. b4 = [pg |-> pg, dirty |-> TRUE, modify |-> Later(b.modify, lgpos), begin0 |-> b.begin0, undoInfo |-> b.undoInfo]
    BY <2>10, <2>11
  <2>13. PICK b5 : b5 = [b4 EXCEPT !.begin0 = Earlier(b.begin0, begin)]
    OBVIOUS
  <2>14. b5 = [pg |-> pg, dirty |-> TRUE, modify |-> Later(b.modify, lgpos), begin0 |-> Earlier(b.begin0, begin),
               undoInfo |-> b.undoInfo]
    BY <2>12, <2>13
  <2>15. b3.modify = b.modify /\ b4.begin0 = b.begin0
    BY <2>10, <2>12
  <2>16. Changed(b, n, val, time, lgpos, begin) = b5
    BY <2>3, <2>6, <2>9, <2>11, <2>13, <2>15 DEF Changed
  <2> QED
    BY <2>14, <2>16
<1>7. ChangedTo(Changed(b, n, val, time, lgpos, begin), p, b, time, lgpos, begin)
  BY <1>1, <1>4, <1>5, <1>6 DEF BufType, ChangedTo
<1>8. pg.img = Written(b.pg.img, n, val)
  BY <1>3 DEF Written
<1>9. PICK c : c = Changed(b, n, val, time, lgpos, begin)
  OBVIOUS
<1>10. c.undoInfo = b.undoInfo /\ c.pg.img = Written(b.pg.img, n, val)
  BY <1>6, <1>8, <1>9
<1> QED
  BY <1>7, <1>9, <1>10 DEF WrittenTo

\* Two fields of a page in the cache change.
LEMMA LessUndoInfo ==
    ASSUME NEW p, NEW b \in BufType(p), NEW T, NEW lgpos
    PROVE  [b EXCEPT !.undoInfo = @ \ T, !.modify = Later(@, lgpos)] =
             [pg |-> b.pg, dirty |-> b.dirty, modify |-> Later(b.modify, lgpos), begin0 |-> b.begin0,
              undoInfo |-> b.undoInfo \ T]
<1>1. b = [pg |-> b.pg, dirty |-> b.dirty, modify |-> b.modify, begin0 |-> b.begin0, undoInfo |-> b.undoInfo]
  BY DEF BufType
<1>2. PICK c : c = [b EXCEPT !.undoInfo = @ \ T]
  OBVIOUS
<1>3. c = [pg |-> b.pg, dirty |-> b.dirty, modify |-> b.modify, begin0 |-> b.begin0, undoInfo |-> b.undoInfo \ T]
  BY <1>1, <1>2
<1>4. PICK d : d = [c EXCEPT !.modify = Later(@, lgpos)]
  OBVIOUS
<1>5. d = [pg |-> b.pg, dirty |-> b.dirty, modify |-> Later(b.modify, lgpos), begin0 |-> b.begin0,
           undoInfo |-> b.undoInfo \ T]
  BY <1>3, <1>4
<1> QED
  BY <1>2, <1>4, <1>5

\* A page in the cache without some undo information.
LEMMA WithoutType ==
    ASSUME NEW p, NEW b \in BufType(p), NEW id, NEW lgpos \in Nat
    PROVE  /\ WithoutUndoInfo(b, id, lgpos) \in BufType(p)
           /\ WithoutUndoInfo(b, id, lgpos).pg = b.pg /\ WithoutUndoInfo(b, id, lgpos).dirty = b.dirty
           /\ WithoutUndoInfo(b, id, lgpos).begin0 = b.begin0
           /\ WithoutUndoInfo(b, id, lgpos).modify = Later(b.modify, lgpos)
           /\ WithoutUndoInfo(b, id, lgpos).undoInfo = b.undoInfo \ {id}
<1>1. /\ b.pg \in PageImage(p) /\ b.modify \in Nat /\ b.begin0 \in Nat /\ b.undoInfo \in SUBSET Nat
      /\ b.dirty \in BOOLEAN
      /\ b = [pg |-> b.pg, dirty |-> b.dirty, modify |-> b.modify, begin0 |-> b.begin0, undoInfo |-> b.undoInfo]
  BY DEF BufType
<1>2. Later(b.modify, lgpos) \in Nat
  BY <1>1 DEF Later
<1>3. WithoutUndoInfo(b, id, lgpos) =
        [pg |-> b.pg, dirty |-> b.dirty, modify |-> Later(b.modify, lgpos), begin0 |-> b.begin0,
         undoInfo |-> b.undoInfo \ {id}]
  BY <1>1, LessUndoInfo, ZenonT(40) DEF WithoutUndoInfo
<1> QED
  BY <1>1, <1>2, <1>3 DEF BufType

\* A page in the cache that has been written or read.
LEMMA CleanType ==
    ASSUME NEW p, NEW pg \in PageImage(p)
    PROVE  /\ CleanBuf(pg) \in BufType(p)
           /\ CleanBuf(pg).pg = pg /\ CleanBuf(pg).modify = 0 /\ CleanBuf(pg).begin0 = 0 /\ CleanBuf(pg).dirty = FALSE
           /\ CleanBuf(pg).undoInfo = {}
BY DEF CleanBuf, BufType, NoLgpos

\* The positions of a page that has been written or read.
LEMMA CleanFields ==
    ASSUME NEW pg PROVE CleanBuf(pg).pg = pg /\ CleanBuf(pg).modify = 0 /\ CleanBuf(pg).begin0 = 0
BY DEF CleanBuf, NoLgpos

\* The pages in the cache at the end of a transaction.
LEMMA CommittedType ==
    ASSUME PageTypes, NEW s, NEW lgpos \in Nat, NEW p \in Page
    PROVE  /\ CommittedBufs(s, lgpos)[p] \in BufType(p)
           /\ CommittedBufs(s, lgpos)[p].pg = buf[p].pg /\ CommittedBufs(s, lgpos)[p].dirty = buf[p].dirty
           /\ CommittedBufs(s, lgpos)[p].begin0 = buf[p].begin0
           /\ CommittedBufs(s, lgpos)[p].modify \in {buf[p].modify, Later(buf[p].modify, lgpos)}
<1>1. PICK b : b = buf[p] /\ b \in BufType(p)
  BY DEF PageTypes
<1>2. /\ b.pg \in PageImage(p) /\ b.modify \in Nat /\ b.begin0 \in Nat /\ b.undoInfo \in SUBSET Nat
      /\ b.dirty \in BOOLEAN
      /\ b = [pg |-> b.pg, dirty |-> b.dirty, modify |-> b.modify, begin0 |-> b.begin0, undoInfo |-> b.undoInfo]
  BY <1>1 DEF BufType
<1>3. Later(b.modify, lgpos) \in Nat
  BY <1>2 DEF Later
<1>4. PICK Ids : Ids = {r.id : r \in sess[s].rces}
  OBVIOUS
<1>5. CommittedBufs(s, lgpos)[p] =
        IF b.undoInfo \cap Ids = {} THEN b ELSE [b EXCEPT !.undoInfo = @ \ Ids, !.modify = Later(@, lgpos)]
  BY <1>1, <1>4 DEF CommittedBufs
<1>6. [b EXCEPT !.undoInfo = @ \ Ids, !.modify = Later(@, lgpos)] =
        [pg |-> b.pg, dirty |-> b.dirty, modify |-> Later(b.modify, lgpos), begin0 |-> b.begin0,
         undoInfo |-> b.undoInfo \ Ids]
  <2>1. PICK c : c = [b EXCEPT !.undoInfo = @ \ Ids]
    OBVIOUS
  <2>2. c = [pg |-> b.pg, dirty |-> b.dirty, modify |-> b.modify, begin0 |-> b.begin0, undoInfo |-> b.undoInfo \ Ids]
    BY <1>2, <2>1
  <2>3. [c EXCEPT !.modify = Later(@, lgpos)] =
          [pg |-> b.pg, dirty |-> b.dirty, modify |-> Later(b.modify, lgpos), begin0 |-> b.begin0,
           undoInfo |-> b.undoInfo \ Ids]
    BY <2>2
  <2> QED
    BY <2>1, <2>2, <2>3
<1>7. CommittedBufs(s, lgpos)[p] =
        IF b.undoInfo \cap Ids = {} THEN b
        ELSE [pg |-> b.pg, dirty |-> b.dirty, modify |-> Later(b.modify, lgpos), begin0 |-> b.begin0,
              undoInfo |-> b.undoInfo \ Ids]
  BY <1>5, <1>6, Zenon
<1> QED
  BY <1>1, <1>2, <1>3, <1>7 DEF BufType

-----------------------------------------------------------------------------
(* Types *)

\* What is known of a session.
LEMMA OfSess ==
    ASSUME SessTypes, NEW s \in Session
    PROVE  /\ sess[s] \in SessType
           /\ sess[s].st \in {"idle", "open", "committing", "rolling"}
           /\ sess[s].start \in Nat /\ sess[s].commit \in Nat /\ sess[s].rces \subseteq RCE
           /\ sess[s].afterBT \in BOOLEAN /\ sess[s].deferred \subseteq Nat
           /\ sess[s] = [st |-> sess[s].st, start |-> sess[s].start, commit |-> sess[s].commit,
                         rces |-> sess[s].rces, afterBT |-> sess[s].afterBT, deferred |-> sess[s].deferred]
<1>1. sess[s] \in SessType
  BY DEF SessTypes
<1> QED
  BY <1>1 DEF SessType

\* What is known of a page.
LEMMA OfPage ==
    ASSUME PageTypes, NEW p \in Page
    PROVE  /\ disk[p] \in PageImage(p) /\ disk[p].dbtime \in Nat
           /\ buf[p] \in BufType(p) /\ buf[p].pg \in PageImage(p) /\ buf[p].pg.dbtime \in Nat
           /\ buf[p].dirty \in BOOLEAN /\ buf[p].modify \in Nat /\ buf[p].begin0 \in Nat
           /\ buf[p].undoInfo \in SUBSET Nat
<1>1. disk[p] \in PageImage(p) /\ buf[p] \in BufType(p)
  BY DEF PageTypes
<1> QED
  BY <1>1 DEF BufType, PageImage

\* The value of a node in the cache.
LEMMA OfNode == ASSUME PageTypes, NEW n \in Node PROVE buf[PageOf[n]].pg.img[n] \in Value
<1>1. PageOf[n] \in Page
  BY Constants
<1>2. buf[PageOf[n]].pg \in PageImage(PageOf[n])
  BY <1>1, OfPage
<1> QED
  BY <1>2 DEF PageImage, Value

\* Newest is a version of the session.
LEMMA NewestIs ==
    ASSUME SessTypes, NEW s \in Session, sess[s].rces # {}
    PROVE  /\ Newest(s) \in sess[s].rces /\ Newest(s) \in RCE
           /\ Newest(s).id \in Nat /\ Newest(s).node \in Node /\ Newest(s).before \in Value
           /\ PageOf[Newest(s).node] \in Page
<1>1. PICK top \in Nat : \A r \in sess[s].rces : r.id <= top
  BY DEF SessTypes
<1>2. \A r \in sess[s].rces : r \in RCE /\ r.id \in Nat
  BY OfSess DEF RCE
<1>3. PICK T : T = {top - r.id : r \in sess[s].rces}
  OBVIOUS
<1>4. T \in SUBSET Nat /\ T # {}
  BY <1>1, <1>2, <1>3
<1>5. PICK x \in T : \A y \in T : x <= y
  BY <1>4, LeastNat
<1>6. PICK r \in sess[s].rces : x = top - r.id
  BY <1>3, <1>5
<1>7. \A q \in sess[s].rces : q.id <= r.id
  BY <1>2, <1>3, <1>5, <1>6
<1>8. \E r1 \in sess[s].rces : \A q \in sess[s].rces : q.id <= r1.id
  BY <1>7
<1>9. Newest(s) \in sess[s].rces
  BY <1>8, Zenon DEF Newest
<1> QED
  BY <1>2, <1>9, Constants DEF RCE, Value

\* One session changes.
LEMMA SessSet ==
    ASSUME SessTypes, NEW s \in Session, NEW u \in SessType, NEW top \in Nat, \A r \in u.rces : r.id <= top,
           sess' = [sess EXCEPT ![s] = u]
    PROVE  SessTypes'
<1>1. sess' \in [Session -> SessType]
  BY DEF SessTypes
<1>2. \A v \in Session : sess'[v] = IF v = s THEN u ELSE sess[v]
  BY DEF SessTypes
<1>3. ASSUME NEW v \in Session PROVE \E top1 \in Nat : \A r \in sess'[v].rces : r.id <= top1
  <2>1. CASE v = s
    BY <1>2, <2>1
  <2>2. CASE v # s
    BY <1>2, <2>2 DEF SessTypes
  <2> QED
    BY <2>1, <2>2
<1> QED
  BY <1>1, <1>3 DEF SessTypes

\* A version more.
LEMMA TopOneMore ==
    ASSUME SessTypes, NEW s \in Session, NEW q \in RCE
    PROVE  \E top \in Nat : \A r \in sess[s].rces \cup {q} : r.id <= top
<1>1. PICK top \in Nat : \A r \in sess[s].rces : r.id <= top
  BY DEF SessTypes
<1>2. \A r \in sess[s].rces : r.id \in Nat
  BY OfSess DEF RCE
<1>3. q.id \in Nat
  BY DEF RCE
<1>4. PICK t1 \in Nat : t1 = top + q.id
  BY <1>3
<1>5. \A r \in sess[s].rces \cup {q} : r.id <= t1
  BY <1>1, <1>2, <1>3, <1>4
<1> QED
  BY <1>5

\* The states of a session that a step sets as a whole.
LEMMA NewSessType ==
    /\ NewSession \in SessType /\ NewSession.rces = {} /\ NewSession.st = "idle" /\ NewSession.start = 0
    /\ NewSession.afterBT = FALSE /\ NewSession.commit = 0 /\ NewSession.deferred = {}
    /\ [NewSession EXCEPT !.afterBT = TRUE] \in SessType
    /\ [NewSession EXCEPT !.afterBT = TRUE].rces = {} /\ [NewSession EXCEPT !.afterBT = TRUE].st = "idle"
    /\ [NewSession EXCEPT !.afterBT = TRUE].start = 0 /\ [NewSession EXCEPT !.afterBT = TRUE].afterBT = TRUE
    /\ [NewSession EXCEPT !.afterBT = TRUE].deferred = {}
BY DEF NewSession, SessType, NoLgpos

\* The fields of a record of a session.
LEMMA BegunFields ==
    ASSUME NEW k, NEW e,
           NEW u, u = [st |-> "open", start |-> k, commit |-> 0, rces |-> e, afterBT |-> TRUE, deferred |-> e]
    PROVE  u.rces = e /\ u.deferred = e
OBVIOUS

\* A session that redo begins.
LEMMA BegunType ==
    ASSUME NEW k \in Nat, NEW u, u = [NewSession EXCEPT !.st = "open", !.start = k, !.afterBT = TRUE]
    PROVE  u \in SessType /\ u.rces = {} /\ u.st = "open" /\ u.start = k /\ u.afterBT = TRUE /\ u.deferred = {}
<1>1. PICK a : a = [NewSession EXCEPT !.st = "open"]
  OBVIOUS
<1>2. a = [st |-> "open", start |-> 0, commit |-> 0, rces |-> {}, afterBT |-> FALSE, deferred |-> {}]
  BY <1>1 DEF NewSession, NoLgpos
<1>3. PICK b : b = [a EXCEPT !.start = k]
  OBVIOUS
<1>4. b = [st |-> "open", start |-> k, commit |-> 0, rces |-> {}, afterBT |-> FALSE, deferred |-> {}]
  BY <1>2, <1>3
<1>5. u = [b EXCEPT !.afterBT = TRUE]
  BY <1>1, <1>3
<1>6. u = [st |-> "open", start |-> k, commit |-> 0, rces |-> {}, afterBT |-> TRUE, deferred |-> {}]
  BY <1>4, <1>5
<1>7. [st |-> "open", start |-> k, commit |-> 0, rces |-> {}, afterBT |-> TRUE, deferred |-> {}] \in SessType
  BY DEF SessType
<1>8. u \in SessType
  BY <1>6, <1>7, Zenon
<1>9. u.rces = {} /\ u.st = "open" /\ u.start = k /\ u.deferred = {}
  <2>1. u.rces = {} /\ u.deferred = {}
    BY <1>6, BegunFields, Zenon
  <2>2. u.st = "open" /\ u.start = k
    BY <1>6
  <2> QED
    BY <2>1, <2>2, Zenon
<1>10. u.afterBT = TRUE
  BY <1>6
<1> QED
  BY <1>8, <1>9, <1>10, Zenon

\* More undo information on a page.
LEMMA MoreUndoInfo ==
    ASSUME NEW p, NEW b \in BufType(p), NEW id \in Nat, NEW c, c = [b EXCEPT !.undoInfo = @ \cup {id}]
    PROVE  /\ c \in BufType(p) /\ c.pg = b.pg /\ c.dirty = b.dirty /\ c.modify = b.modify /\ c.begin0 = b.begin0
           /\ c.undoInfo = b.undoInfo \cup {id}
BY DEF BufType

\* One page of the cache changes.
LEMMA BufSet ==
    ASSUME PageTypes, NEW p \in Page, NEW b \in BufType(p), buf' = [buf EXCEPT ![p] = b], UNCHANGED disk
    PROVE  PageTypes' /\ buf'[p] = b /\ \A q \in Page \ {p} : buf'[q] = buf[q]
BY DEF PageTypes

-----------------------------------------------------------------------------
(* What the operations do *)

Ext == /\ Len(log) <= Len(log') /\ \A i \in Idx : log'[i] = log[i]

\* Update and UndoNewest: the page record k of an open transaction, perhaps after
\* its Begin0 or an UndoInfo record, and the page p with the change on it.
Changes(s, p, k) ==
    /\ mode # "redo" /\ Ext /\ k = Len(log') /\ k \in {Len(log) + 1, Len(log) + 2}
    /\ p \in Page /\ On(p, k)'
    /\ log'[k].s = s /\ log'[k].trx = sess'[s].start /\ log'[k].before = buf[p].pg.dbtime
    /\ log'[k].after = dbtime + 1 /\ dbtime' = dbtime + 1
    /\ Open(s)'
    /\ \/ /\ sess[s].st = "idle" /\ k = Len(log) + 2 /\ sess'[s].start = Len(log) + 1
          /\ log'[Len(log) + 1].t = "Begin0" /\ log'[Len(log) + 1].s = s
       \/ /\ Open(s) /\ sess'[s].start = sess[s].start
          /\ k = Len(log) + 2 => log'[Len(log) + 1].t = "UndoInfo"
    /\ k = Len(log) + 2 => log'[Len(log) + 1].after = 0
    /\ \A v \in Session : v # s => sess'[v] = sess[v]
    /\ buf'[p].pg.dbtime = dbtime + 1 /\ buf'[p].dirty /\ buf'[p].modify = Later(buf[p].modify, k)
    /\ buf'[p].begin0 = Earlier(buf[p].begin0, sess'[s].start)
    /\ \A q \in Page : q # p => buf'[q] = buf[q]
    /\ UNCHANGED <<mode, durable, waypoint, disk, chk, ckpt, redo, acked>>

\* What they do to node n of page p: it gets a value, and version r comes or goes.
UpdatesTo(s, n, p, k, r, val) ==
    /\ log'[k].t = "Node" /\ log'[k].node = n /\ log'[k].rceid = r.id /\ log'[k].oper = r.oper /\ log'[k].val = val
    /\ val \in Value /\ r \in RCE /\ r.id = dbtime + 1 /\ r.node = n
    /\ r.before = buf[p].pg.img[n] /\ (r.oper = "Insert" => r.before = NoRec)
    /\ mode = "run" /\ sess'[s].st = "open" /\ (sess[s].st # "idle" => sess[s].st = "open" /\ k = Len(log) + 1)
    /\ sess'[s].rces = sess[s].rces \cup {r} /\ sess'[s].deferred = sess[s].deferred
    /\ buf'[p].pg.img = Written(buf[p].pg.img, n, val)
    /\ buf'[p].undoInfo = buf[p].undoInfo \cup (IF NeedsUndoInfo(r) THEN {r.id} ELSE {})
UndoesTo(s, p, k, r) ==
    /\ log'[k].t = "Undo" /\ log'[k].node = r.node /\ log'[k].rceid = r.id /\ log'[k].oper = r.oper /\ log'[k].val = r.before
    /\ r = Newest(s) /\ sess[s].rces # {} /\ sess[s].st = "rolling" /\ p = PageOf[r.node]
    /\ IF r.id \in buf[p].undoInfo
         THEN \E j \in Nat :
                /\ k = Len(log) + 2 /\ j = Len(log) + 1 /\ log'[j].t = "UndoInfo" /\ log'[j].s = s /\ log'[j].trx = sess[s].start
                /\ log'[j].node = r.node /\ log'[j].rceid = r.id /\ log'[j].oper = r.oper /\ log'[j].val = r.before
         ELSE k = Len(log) + 1
    /\ sess'[s].st = "rolling" /\ sess'[s].rces = sess[s].rces \ {r} /\ sess'[s].deferred = sess[s].deferred
    /\ buf'[p].pg.img = Written(buf[p].pg.img, r.node, r.before)
    /\ buf'[p].undoInfo = buf[p].undoInfo \ {r.id}

\* An update makes a record and a version of the node.
LEMMA UpdateDoes ==
    ASSUME Types, NEW s \in Session, NEW n \in Node, NEW delete \in BOOLEAN, Update(s, n, delete)
    PROVE  Types' /\ \E k \in Nat : Changes(s, PageOf[n], k) /\ \E r, val : UpdatesTo(s, n, PageOf[n], k, r, val)
<1> DEFINE p == PageOf[n]
           old == buf[p].pg.img[n]
           time == dbtime + 1
           new == IF delete THEN NoRec ELSE time
           rce == [id |-> time, node |-> n, oper |-> OperOf(old, new), before |-> old]
           first == sess[s].st = "idle"
           start == IF first THEN Len(log) + 1 ELSE sess[s].start
           begin == Rec("Begin0", s, start)
           rec == NodeRec("Node", s, start, rce, new, buf[p].pg.dbtime, time)
           recs == (IF first THEN <<begin>> ELSE <<>>) \o <<rec>>
           b == Changed(buf[p], n, new, time, Len(log) + Len(recs), start)
           c == IF NeedsUndoInfo(rce) THEN [b EXCEPT !.undoInfo = @ \cup {time}] ELSE b
<1>0. LogTypes /\ PageTypes /\ SessTypes
  BY SMTT(30) DEF Types
<1>1. /\ mode = "run" /\ sess[s].st \in {"idle", "open"}
      /\ log' = log \o recs /\ dbtime' = time
      /\ sess' = [sess EXCEPT ![s].st = "open", ![s].start = start, ![s].rces = @ \cup {rce}]
      /\ buf' = [buf EXCEPT ![p] = c]
      /\ UNCHANGED <<mode, durable, waypoint, disk, chk, ckpt, redo, acked, kept, crashes>>
  BY DEF Update
<1>2. p \in Page /\ old \in Value /\ time \in Nat /\ time > 0 /\ new \in Value /\ buf[p].pg.dbtime \in Nat
  BY <1>0, Constants, OfNode, OfPage DEF Value, LogTypes
<1>3. /\ rce \in RCE /\ rce.node = n /\ rce.id = time /\ rce.before = old
      /\ rce.oper = "Insert" => rce.before = NoRec
  BY <1>2 DEF RCE, OperOf, Value
<1>4. Len(log) \in Nat /\ log \in Seq(LRec)
  BY <1>0 DEF LogTypes
<1>5. start \in Nat
  <2>1. sess[s].start \in Nat
    BY <1>0, OfSess
  <2> QED
    BY <1>4, <2>1
<1>6. begin \in LRec /\ begin.t = "Begin0" /\ begin.s = s /\ begin.after = 0
  BY <1>5, RecIsRec, Constants
<1>7. /\ rec \in LRec /\ rec.t = "Node" /\ rec.s = s /\ rec.trx = start /\ rec.node = n
      /\ rec.before = buf[p].pg.dbtime /\ rec.after = time /\ rec.rceid = rce.id /\ rec.oper = rce.oper /\ rec.val = new
  <2>1. "Node" \in NodeType
    BY DEF NodeType
  <2>2. time \in Nat /\ time > 0 /\ "Node" # "UndoInfo"
    BY <1>2
  <2> HIDE DEF rce, time, start, new, p
  <2>3. /\ rec \in LRec /\ rec.t = "Node" /\ rec.s = s /\ rec.trx = start /\ rec.node = rce.node
        /\ rec.before = buf[p].pg.dbtime /\ rec.after = time /\ rec.rceid = rce.id /\ rec.oper = rce.oper /\ rec.val = new
    BY <1>2, <1>3, <1>5, <2>1, <2>2, NodeRecIsRec
  <2> QED
    BY <1>3, <2>3
<1> DEFINE k0 == Len(log) + Len(recs)
<1>8. /\ Len(recs) \in {1, 2} /\ Grows(log, log', Len(recs)) /\ log'[k0] = rec
      /\ first => Len(recs) = 2 /\ log'[Len(log) + 1] = begin
      /\ ~first => Len(recs) = 1
  <2> HIDE DEF rec, begin
  <2>1. CASE first
    <3>1. recs = <<begin>> \o <<rec>> /\ Len(recs) = 2
      BY <2>1
    <3>2. log' = log \o (<<begin>> \o <<rec>>)
      BY <1>1, <3>1, Zenon
    <3>3. Grows(log, log', 2) /\ log'[Len(log) + 1] = begin /\ log'[Len(log) + 2] = rec
      BY <1>4, <1>6, <1>7, <3>2, GrowsByTwo
    <3> QED
      BY <2>1, <3>1, <3>3
  <2>2. CASE ~first
    <3>1. recs = <<rec>> /\ Len(recs) = 1
      BY <1>7, <2>2
    <3>2. log' = log \o <<rec>>
      BY <1>1, <3>1, Zenon
    <3>3. Grows(log, log', 1) /\ log'[Len(log) + 1] = rec
      BY <1>4, <1>7, <3>2, GrowsByOne
    <3> QED
      BY <2>2, <3>1, <3>3
  <2> QED
    BY <2>1, <2>2
<1>9. PICK k \in Nat : k = k0 /\ k = Len(log') /\ log' \in Seq(LRec)
  <2> HIDE DEF recs
  <2> QED
    BY <1>4, <1>8 DEF Grows
<1>10. ChangedTo(b, p, buf[p], time, k, start) /\ b.undoInfo = buf[p].undoInfo /\ b.pg.img = Written(buf[p].pg.img, n, new)
  <2>1. buf[p] \in BufType(p)
    BY <1>0, <1>2, OfPage
  <2>2. b = Changed(buf[p], n, new, time, k, start)
    BY <1>9
  <2> HIDE DEF b, start, time, new
  <2>3. /\ ChangedTo(Changed(buf[p], n, new, time, k, start), p, buf[p], time, k, start)
        /\ WrittenTo(Changed(buf[p], n, new, time, k, start), buf[p], n, new)
    BY <1>2, <1>5, <1>9, <2>1, ChangedType
  <2> QED
    BY <2>2, <2>3, Zenon DEF WrittenTo
<1>11. /\ ChangedTo(c, p, buf[p], time, k, start) /\ c.pg.img = Written(buf[p].pg.img, n, new)
       /\ c.undoInfo = buf[p].undoInfo \cup (IF NeedsUndoInfo(rce) THEN {rce.id} ELSE {})
  <2>0. rce.id = time
    BY <1>3
  <2> HIDE DEF b, time, start, rce, new
  <2>1. CASE NeedsUndoInfo(rce)
    <3>1. c = [b EXCEPT !.undoInfo = @ \cup {time}]
      BY <2>1
    <3> HIDE DEF c
    <3>2. /\ c \in BufType(p) /\ c.pg = b.pg /\ c.dirty = b.dirty /\ c.modify = b.modify /\ c.begin0 = b.begin0
          /\ c.undoInfo = b.undoInfo \cup {time}
      BY <1>2, <1>10, <3>1, MoreUndoInfo DEF ChangedTo
    <3>3. ChangedTo(c, p, buf[p], time, k, start) /\ c.pg.img = Written(buf[p].pg.img, n, new)
      BY <1>10, <3>2 DEF ChangedTo
    <3> QED
      BY <1>10, <2>0, <2>1, <3>2, <3>3
  <2>2. CASE ~NeedsUndoInfo(rce)
    <3>1. c = b
      BY <2>2
    <3> HIDE DEF c
    <3> QED
      BY <1>10, <2>2, <3>1
  <2> QED
    BY <2>1, <2>2
<1>12. PageTypes' /\ buf'[p] = c /\ \A q \in Page : q # p => buf'[q] = buf[q]
  <2> HIDE DEF c, p
  <2> QED
    BY <1>0, <1>1, <1>2, <1>11, BufSet DEF ChangedTo
<1> DEFINE u == [st |-> "open", start |-> start, commit |-> sess[s].commit, rces |-> sess[s].rces \cup {rce},
                 afterBT |-> sess[s].afterBT, deferred |-> sess[s].deferred]
<1>13. sess' = [sess EXCEPT ![s] = u]
  <2> HIDE DEF start, rce
  <2>1. PICK a : a = [sess EXCEPT ![s].st = "open"]
    OBVIOUS
  <2>2. /\ a[s] = [st |-> "open", start |-> sess[s].start, commit |-> sess[s].commit, rces |-> sess[s].rces,
                   afterBT |-> sess[s].afterBT, deferred |-> sess[s].deferred]
        /\ DOMAIN a = Session /\ \A v \in Session : v # s => a[v] = sess[v]
    BY <1>0, <2>1, OfSess DEF SessTypes
  <2>3. PICK d : d = [a EXCEPT ![s].start = start]
    OBVIOUS
  <2>4. /\ d[s] = [st |-> "open", start |-> start, commit |-> sess[s].commit, rces |-> sess[s].rces,
                   afterBT |-> sess[s].afterBT, deferred |-> sess[s].deferred]
        /\ DOMAIN d = Session /\ \A v \in Session : v # s => d[v] = sess[v]
    BY <2>2, <2>3
  <2>5. sess' = [d EXCEPT ![s].rces = @ \cup {rce}]
    BY <1>1, <2>1, <2>3
  <2>6. sess'[s] = u
    BY <2>4, <2>5, SMTT(30)
  <2>7. sess' = [v \in Session |-> sess'[v]] /\ \A v \in Session : v # s => sess'[v] = sess[v]
    BY <2>4, <2>5
  <2>8. [sess EXCEPT ![s] = u] = [v \in Session |-> IF v = s THEN u ELSE sess[v]]
    BY <1>0 DEF SessTypes
  <2> HIDE DEF u
  <2> QED
    BY <2>6, <2>7, <2>8
<1>14. u \in SessType
  <2> HIDE DEF start, rce
  <2> QED
    BY <1>0, <1>3, <1>5, OfSess DEF SessType
<1>15. SessTypes'
  <2>1. PICK top \in Nat : \A r \in sess[s].rces \cup {rce} : r.id <= top
    <3> HIDE DEF rce
    <3> QED
      BY <1>0, <1>3, TopOneMore
  <2>2. u.rces = sess[s].rces \cup {rce}
    OBVIOUS
  <2> HIDE DEF u, rce
  <2>3. \A r \in u.rces : r.id <= top
    BY <2>1, <2>2
  <2> QED
    BY <1>0, <1>13, <1>14, <2>3, SessSet
<1>16. sess'[s] = u /\ \A v \in Session : v # s => sess'[v] = sess[v]
  <2> HIDE DEF u
  <2> QED
    BY <1>0, <1>13, SMTT(30) DEF SessTypes
<1>17. LogTypes'
  BY <1>0, <1>1, <1>2, <1>9 DEF LogTypes
<1>18. sess'[s].st = "open" /\ sess'[s].start = start /\ Open(s)' /\ (~first => Open(s))
  <2>1. u.st = "open" /\ u.start = start
    OBVIOUS
  <2> HIDE DEF start, u
  <2>2. sess'[s].st = "open" /\ sess'[s].start = start
    BY <1>16, <2>1
  <2>3. Open(s)'
    BY <2>2 DEF Open
  <2>4. ~first => Open(s)
    BY <1>1 DEF Open
  <2> QED
    BY <2>2, <2>3, <2>4, Zenon
<1>19. Ext /\ \A i \in Idx : log'[i] = log[i]
  <2> HIDE DEF recs
  <2> QED
    BY <1>4, <1>8 DEF Ext, Grows, Idx
<1>20. On(p, k)' /\ log'[k].s = s /\ log'[k].trx = start /\ log'[k].before = buf[p].pg.dbtime /\ log'[k].after = time
  <2>1. log'[k] = rec
    BY <1>8, <1>9
  <2> HIDE DEF rec, start, time
  <2>2. log'[k].t = "Node" /\ PageOf[log'[k].node] = p
    BY <1>7, <2>1
  <2>3. On(p, k)'
    BY <2>2 DEF On, PageRec
  <2> QED
    BY <1>7, <2>1, <2>3
<1>21. \/ first /\ k = Len(log) + 2 /\ start = Len(log) + 1 /\ log'[Len(log) + 1] = begin
       \/ ~first /\ k = Len(log) + 1 /\ start = sess[s].start
  <2> HIDE DEF recs, begin
  <2> QED
    BY <1>4, <1>8, <1>9
<1>22. mode # "redo" /\ k \in {Len(log) + 1, Len(log) + 2}
  BY <1>1, <1>21
<1>23. \/ /\ sess[s].st = "idle" /\ k = Len(log) + 2 /\ sess'[s].start = Len(log) + 1
          /\ log'[Len(log) + 1].t = "Begin0" /\ log'[Len(log) + 1].s = s /\ log'[Len(log) + 1].after = 0
       \/ Open(s) /\ sess'[s].start = sess[s].start /\ k = Len(log) + 1
  <2> HIDE DEF begin, start
  <2> QED
    BY <1>6, <1>18, <1>21
<1>24. /\ buf'[p].pg.dbtime = dbtime + 1 /\ buf'[p].dirty /\ buf'[p].modify = Later(buf[p].modify, k)
       /\ buf'[p].begin0 = Earlier(buf[p].begin0, sess'[s].start)
  <2> HIDE DEF c, start
  <2> QED
    BY <1>11, <1>12, <1>18 DEF ChangedTo
<1>25. k = Len(log) + 2 => log'[Len(log) + 1].after = 0
  BY <1>4, <1>9, <1>23
<1>26. Changes(s, p, k)
  <2>1. \/ /\ sess[s].st = "idle" /\ k = Len(log) + 2 /\ sess'[s].start = Len(log) + 1
           /\ log'[Len(log) + 1].t = "Begin0" /\ log'[Len(log) + 1].s = s
        \/ /\ Open(s) /\ sess'[s].start = sess[s].start
           /\ k = Len(log) + 2 => log'[Len(log) + 1].t = "UndoInfo"
    BY <1>4, <1>23
  <2> HIDE DEF begin, start, rce, c, u, b, recs, rec, k0
  <2> QED
    BY <1>1, <1>2, <1>9, <1>12, <1>16, <1>18, <1>19, <1>20, <1>22, <1>24, <1>25, <2>1, Zenon DEF Changes
<1>27. UpdatesTo(s, n, p, k, rce, new)
  <2>1. u.rces = sess[s].rces \cup {rce} /\ u.deferred = sess[s].deferred
    OBVIOUS
  <2>2. log'[k] = rec
    BY <1>8, <1>9
  <2>3. sess[s].st # "idle" => sess[s].st = "open" /\ k = Len(log) + 1
    BY <1>1, <1>21
  <2>4. rce.before = buf[p].pg.img[n]
    BY <1>3
  <2> HIDE DEF rec, rce, new, u, c, p, old
  <2> QED
    BY <1>1, <1>2, <1>3, <1>7, <1>11, <1>12, <1>16, <1>18, <2>1, <2>2, <2>3, <2>4 DEF UpdatesTo
<1> HIDE DEF rce, new, p
<1>28. \E r, val : UpdatesTo(s, n, p, k, r, val)
  BY <1>27
<1> QED
  BY <1>12, <1>15, <1>17, <1>26, <1>28, SMTT(30) DEF Types, p

\* The versions of a session change.
LEMMA SetRces ==
    ASSUME SessTypes, NEW s \in Session, NEW R \in SUBSET RCE, NEW top \in Nat, \A r \in R : r.id <= top,
           sess' = [sess EXCEPT ![s].rces = R]
    PROVE  /\ SessTypes' /\ sess'[s].st = sess[s].st /\ sess'[s].start = sess[s].start
           /\ sess'[s].commit = sess[s].commit /\ sess'[s].afterBT = sess[s].afterBT
           /\ sess'[s].rces = R /\ sess'[s].deferred = sess[s].deferred
           /\ \A v \in Session : v # s => sess'[v] = sess[v]
<1> DEFINE u == [st |-> sess[s].st, start |-> sess[s].start, commit |-> sess[s].commit, rces |-> R,
                 afterBT |-> sess[s].afterBT, deferred |-> sess[s].deferred]
<1>1. sess'[s] = u
  BY OfSess DEF SessTypes
<1>2. sess' = [sess EXCEPT ![s] = u]
  BY <1>1 DEF SessTypes
<1>3. u \in SessType
  BY OfSess DEF SessType
<1>4. u.rces = R
  OBVIOUS
<1>5. SessTypes'
  <2> HIDE DEF u
  <2> QED
    BY <1>2, <1>3, <1>4, SessSet
<1>6. \A v \in Session : v # s => sess'[v] = sess[v]
  BY DEF SessTypes
<1> QED
  BY <1>1, <1>5, <1>6

\* A version less.
LEMMA TopSubset ==
    ASSUME SessTypes, NEW s \in Session, NEW R, R \subseteq sess[s].rces
    PROVE  R \in SUBSET RCE /\ \E top \in Nat : \A r \in R : r.id <= top
<1>1. PICK top \in Nat : \A r \in sess[s].rces : r.id <= top
  BY DEF SessTypes
<1> QED
  BY <1>1, OfSess

\* Undoing a version makes a record.
LEMMA UndoNewestDoes ==
    ASSUME Types, NEW s \in Session, UndoNewest(s)
    PROVE  Types' /\ \E p \in Page : \E k \in Nat : Changes(s, p, k) /\ \E r : UndoesTo(s, p, k, r)
<1>0. LogTypes /\ PageTypes /\ SessTypes
  BY DEF Types
<1>r. PICK rce : rce = Newest(s)
  OBVIOUS
<1>p. PICK p : p = PageOf[rce.node]
  BY SMTT(30)
<1> DEFINE time == dbtime + 1
           start == sess[s].start
           info == NodeRec("UndoInfo", s, start, rce, rce.before, 0, 0)
           rec == NodeRec("Undo", s, start, rce, rce.before, buf[p].pg.dbtime, time)
           recs == (IF rce.id \in buf[p].undoInfo THEN <<info>> ELSE <<>>) \o <<rec>>
           a == WithoutUndoInfo(buf[p], rce.id, NoLgpos)
           c == Changed(a, rce.node, rce.before, time, Len(log) + Len(recs), start)
<1>u. recs = UndoneRecs(s, rce, time)
  BY <1>p DEF UndoneRecs
<1>1. /\ mode \in {"run", "undo"} /\ sess[s].st = "rolling" /\ sess[s].rces # {}
      /\ log' = log \o recs /\ dbtime' = time
      /\ buf' = [buf EXCEPT ![p] = c]
      /\ sess' = [sess EXCEPT ![s].rces = @ \ {rce}]
      /\ UNCHANGED <<mode, durable, waypoint, disk, chk, ckpt, redo, acked, kept, crashes>>
  <2> HIDE DEF recs
  <2>1. mode \in {"run", "undo"} /\ sess[s].st = "rolling" /\ sess[s].rces # {} /\ dbtime' = time
    BY Zenon DEF UndoNewest
  <2>2. log' = log \o recs
    BY <1>r, <1>p, <1>u, Zenon DEF UndoNewest
  <2>3. buf' = [buf EXCEPT ![p] = c]
    BY <1>r, <1>p, <1>u, Zenon DEF UndoNewest
  <2>4. sess' = [sess EXCEPT ![s].rces = @ \ {rce}]
    BY <1>r, Zenon DEF UndoNewest
  <2>5. UNCHANGED <<mode, durable, waypoint, disk, chk, ckpt, redo, acked, kept, crashes>>
    BY Zenon DEF UndoNewest
  <2> QED
    BY <2>1, <2>2, <2>3, <2>4, <2>5, Zenon
<1>2. /\ rce \in sess[s].rces /\ rce \in RCE /\ rce.id \in Nat /\ rce.node \in Node /\ rce.before \in Value /\ p \in Page
  BY <1>0, <1>1, <1>r, <1>p, NewestIs, Zenon
<1>3. time \in Nat /\ time > 0 /\ buf[p].pg.dbtime \in Nat /\ buf[p] \in BufType(p) /\ buf[p].modify \in Nat
  BY <1>0, <1>2, OfPage DEF LogTypes
<1>4. Len(log) \in Nat /\ log \in Seq(LRec)
  BY <1>0 DEF LogTypes
<1>5. start \in Nat
  BY <1>0, OfSess
<1>6. /\ info \in LRec /\ info.t = "UndoInfo" /\ info.after = 0 /\ info.s = s /\ info.trx = start /\ info.node = rce.node
      /\ info.rceid = rce.id /\ info.oper = rce.oper /\ info.val = rce.before
  <2>1. "UndoInfo" \in NodeType
    BY DEF NodeType
  <2> HIDE DEF time, start, rec, recs, a, c
  <2> QED
    BY <1>2, <1>5, <2>1, NodeRecIsRec, SMTT(30)
<1>7. /\ rec \in LRec /\ rec.t = "Undo" /\ rec.s = s /\ rec.trx = start /\ rec.node = rce.node
      /\ rec.before = buf[p].pg.dbtime /\ rec.after = time /\ rec.rceid = rce.id /\ rec.oper = rce.oper /\ rec.val = rce.before
  <2>1. "Undo" \in NodeType
    BY DEF NodeType
  <2> HIDE DEF time, start
  <2> QED
    BY <1>2, <1>3, <1>5, <2>1, NodeRecIsRec
<1> DEFINE k0 == Len(log) + Len(recs)
<1>8. /\ Len(recs) \in {1, 2} /\ Grows(log, log', Len(recs)) /\ log'[k0] = rec
      /\ Len(recs) = 2 => log'[Len(log) + 1] = info
      /\ IF rce.id \in buf[p].undoInfo THEN Len(recs) = 2 ELSE Len(recs) = 1
  <2> HIDE DEF rec, info
  <2>1. CASE rce.id \in buf[p].undoInfo
    <3>1. recs = <<info>> \o <<rec>> /\ Len(recs) = 2
      BY <2>1
    <3>2. log' = log \o (<<info>> \o <<rec>>)
      BY <1>1, <3>1, Zenon
    <3>3. Grows(log, log', 2) /\ log'[Len(log) + 1] = info /\ log'[Len(log) + 2] = rec
      BY <1>4, <1>6, <1>7, <3>2, GrowsByTwo
    <3> QED
      BY <2>1, <3>1, <3>3
  <2>2. CASE rce.id \notin buf[p].undoInfo
    <3>1. recs = <<rec>> /\ Len(recs) = 1
      BY <1>7, <2>2
    <3>2. log' = log \o <<rec>>
      BY <1>1, <3>1, Zenon
    <3>3. Grows(log, log', 1) /\ log'[Len(log) + 1] = rec
      BY <1>4, <1>7, <3>2, GrowsByOne
    <3> QED
      BY <2>2, <3>1, <3>3
  <2> QED
    BY <2>1, <2>2
<1>9. PICK k \in Nat : k = k0 /\ k = Len(log') /\ log' \in Seq(LRec)
  <2> HIDE DEF recs
  <2> QED
    BY <1>4, <1>8 DEF Grows
<1>10. /\ a \in BufType(p) /\ a.begin0 = buf[p].begin0 /\ a.modify = buf[p].modify /\ a.pg = buf[p].pg
       /\ a.undoInfo = buf[p].undoInfo \ {rce.id}
  <2>1. /\ a \in BufType(p) /\ a.begin0 = buf[p].begin0 /\ a.modify = Later(buf[p].modify, 0) /\ a.pg = buf[p].pg
        /\ a.undoInfo = buf[p].undoInfo \ {rce.id}
    BY <1>3, WithoutType DEF NoLgpos
  <2>2. Later(buf[p].modify, 0) = buf[p].modify
    BY <1>3 DEF Later
  <2> QED
    BY <2>1, <2>2, Zenon
<1>11. /\ ChangedTo(c, p, buf[p], time, k, start) /\ c.undoInfo = a.undoInfo
       /\ c.pg.img = Written(buf[p].pg.img, rce.node, rce.before)
  <2>1. c = Changed(a, rce.node, rce.before, time, k, start)
    BY <1>9
  <2> HIDE DEF a, c, start, time
  <2>2. /\ ChangedTo(Changed(a, rce.node, rce.before, time, k, start), p, a, time, k, start)
        /\ WrittenTo(Changed(a, rce.node, rce.before, time, k, start), a, rce.node, rce.before)
    BY <1>2, <1>3, <1>5, <1>9, <1>10, <1>p, ChangedType
  <2>3. /\ ChangedTo(c, p, a, time, k, start) /\ c.undoInfo = a.undoInfo
        /\ c.pg.img = Written(a.pg.img, rce.node, rce.before)
    BY <2>1, <2>2, Zenon DEF WrittenTo
  <2> QED
    BY <2>3, <1>10 DEF ChangedTo
<1>12. PageTypes' /\ buf'[p] = c /\ \A q \in Page : q # p => buf'[q] = buf[q]
  <2> HIDE DEF c
  <2> QED
    BY <1>0, <1>1, <1>2, <1>11, BufSet DEF ChangedTo
<1>13. /\ SessTypes' /\ sess'[s].st = sess[s].st /\ sess'[s].start = start
       /\ sess'[s].rces = sess[s].rces \ {rce} /\ sess'[s].deferred = sess[s].deferred
       /\ \A v \in Session : v # s => sess'[v] = sess[v]
  <2>1. PICK R : R = sess[s].rces \ {rce}
    OBVIOUS
  <2>2. R \in SUBSET RCE /\ \E top \in Nat : \A r \in R : r.id <= top
    BY <1>0, <2>1, TopSubset
  <2>3. sess' = [sess EXCEPT ![s].rces = R]
    BY <1>1, <2>1
  <2> QED
    BY <1>0, <2>1, <2>2, <2>3, SetRces
<1>17. LogTypes'
  BY <1>0, <1>1, <1>3, <1>9 DEF LogTypes
<1>18. Open(s)' /\ Open(s)
  BY <1>1, <1>13 DEF Open
<1>19. Ext
  <2> HIDE DEF recs
  <2> QED
    BY <1>4, <1>8 DEF Ext, Grows, Idx
<1>20. On(p, k)' /\ log'[k].s = s /\ log'[k].trx = start /\ log'[k].before = buf[p].pg.dbtime /\ log'[k].after = time
  <2>1. log'[k] = rec
    BY <1>8, <1>9
  <2> HIDE DEF rec, start, time
  <2>2. log'[k].t = "Undo" /\ PageOf[log'[k].node] = p
    BY <1>7, <1>p, <2>1
  <2>3. On(p, k)'
    BY <2>2 DEF On, PageRec
  <2> QED
    BY <1>7, <2>1, <2>3
<1>21. /\ k \in {Len(log) + 1, Len(log) + 2} /\ mode # "redo"
       /\ k = Len(log) + 2 => log'[Len(log) + 1].t = "UndoInfo" /\ log'[Len(log) + 1].after = 0
  <2> HIDE DEF recs, info
  <2>1. k \in {Len(log) + 1, Len(log) + 2} /\ (k = Len(log) + 2 => Len(recs) = 2)
    <3>1. PICK m : m = Len(recs)
      OBVIOUS
    <3>2. m \in {1, 2} /\ k = Len(log) + m
      BY <1>8, <1>9, <3>1, Zenon
    <3>3. k \in {Len(log) + 1, Len(log) + 2} /\ (k = Len(log) + 2 => m = 2)
      BY <1>4, <3>2
    <3> QED
      BY <3>1, <3>3, Zenon
  <2>2. k = Len(log) + 2 => log'[Len(log) + 1] = info
    BY <1>8, <2>1, Zenon
  <2> QED
    BY <1>1, <1>6, <2>1, <2>2
<1>24. /\ buf'[p].pg.dbtime = dbtime + 1 /\ buf'[p].dirty /\ buf'[p].modify = Later(buf[p].modify, k)
       /\ buf'[p].begin0 = Earlier(buf[p].begin0, start)
  <2> HIDE DEF c, start
  <2> QED
    BY <1>11, <1>12 DEF ChangedTo
<1>26. Changes(s, p, k)
  <2>1. \/ /\ sess[s].st = "idle" /\ k = Len(log) + 2 /\ sess'[s].start = Len(log) + 1
           /\ log'[Len(log) + 1].t = "Begin0" /\ log'[Len(log) + 1].s = s
        \/ /\ Open(s) /\ sess'[s].start = sess[s].start
           /\ k = Len(log) + 2 => log'[Len(log) + 1].t = "UndoInfo"
    BY <1>13, <1>18, <1>21, Zenon
  <2>2. (k = Len(log) + 2 => log'[Len(log) + 1].after = 0) /\ sess'[s].start = start
    BY <1>13, <1>21, Zenon
  <2> HIDE DEF start, c, a, recs, rec, k0
  <2>3. log'[k].trx = sess'[s].start /\ buf'[p].begin0 = Earlier(buf[p].begin0, sess'[s].start)
    BY <1>20, <1>24, <2>2, Zenon
  <2> QED
    BY <1>1, <1>2, <1>9, <1>12, <1>13, <1>18, <1>19, <1>20, <1>21, <1>24, <2>1, <2>2, <2>3, Zenon DEF Changes
<1>27. UndoesTo(s, p, k, rce)
  <2>1. log'[k] = rec
    BY <1>8, <1>9
  <2>2. CASE rce.id \in buf[p].undoInfo
    <3>1. Len(recs) = 2 /\ log'[Len(log) + 1] = info
      BY <1>8, <2>2
    <3>2. PICK j \in Nat : j = Len(log) + 1
      BY <1>4
    <3>3. k = Len(log) + 2 /\ log'[j] = info
      BY <1>9, <3>1, <3>2
    <3> HIDE DEF info, recs, rec, c, k0
    <3>4. \E i \in Nat :
            /\ k = Len(log) + 2 /\ i = Len(log) + 1 /\ log'[i].t = "UndoInfo" /\ log'[i].s = s /\ log'[i].trx = sess[s].start
            /\ log'[i].node = rce.node /\ log'[i].rceid = rce.id /\ log'[i].oper = rce.oper /\ log'[i].val = rce.before
      BY <1>6, <3>2, <3>3
    <3>5. log'[k].t = "Undo" /\ log'[k].node = rce.node /\ log'[k].rceid = rce.id /\ log'[k].oper = rce.oper /\ log'[k].val = rce.before
      BY <1>7, <2>1
    <3>6. buf'[p].pg.img = Written(buf[p].pg.img, rce.node, rce.before) /\ buf'[p].undoInfo = buf[p].undoInfo \ {rce.id}
      BY <1>10, <1>11, <1>12
    <3>7. sess'[s].st = "rolling" /\ sess'[s].rces = sess[s].rces \ {rce} /\ sess'[s].deferred = sess[s].deferred
      BY <1>1, <1>13
    <3> QED
      BY <1>1, <1>r, <1>p, <2>2, <3>4, <3>5, <3>6, <3>7, Zenon DEF UndoesTo
  <2>3. CASE rce.id \notin buf[p].undoInfo
    <3>1. k = Len(log) + 1
      BY <1>8, <1>9, <2>3
    <3> HIDE DEF info, recs, rec, c, k0
    <3> QED
      BY <1>1, <1>7, <1>10, <1>11, <1>12, <1>13, <1>r, <1>p, <2>1, <2>3, <3>1, ZenonT(60) DEF UndoesTo
  <2> QED
    BY <2>2, <2>3
<1>28. \E r : UndoesTo(s, p, k, r)
  BY <1>27
<1> QED
  BY <1>2, <1>12, <1>13, <1>17, <1>26, <1>28 DEF Types

-----------------------------------------------------------------------------
(* Pages *)

BufKept(p) ==
    /\ buf'[p].pg = buf[p].pg /\ buf'[p].dirty = buf[p].dirty /\ buf'[p].begin0 = buf[p].begin0
    /\ buf[p].modify <= buf'[p].modify
Advances == Ext /\ Horizon <= Horizon' /\ durable <= durable' /\ waypoint <= waypoint'

\* Nothing is written, and the records that come within the horizon are on disk
\* already, if they are about a page.
Quiet ==
    /\ Advances /\ disk' = disk
    /\ \A p \in Page : BufKept(p) /\ buf'[p].modify <= Horizon'
    /\ \A p \in Page : \A i \in Idx' : On(p, i)' /\ Horizon < i /\ i <= Horizon' => log'[i].after <= disk[p].dbtime

\* Record k comes within the horizon as its change is made to page p.
PageStep(p, k) ==
    /\ Advances /\ disk' = disk
    /\ k \in Idx' /\ k = Horizon' /\ Horizon < k
    /\ \A i \in Idx' : Horizon < i /\ i < k => ~PageRec(i)'
    /\ p \in Page /\ On(p, k)' /\ log'[k].trx > 0 /\ log'[k].trx <= Len(log')
    /\ buf'[p].pg.dbtime = log'[k].after /\ buf[p].pg.dbtime < log'[k].after
    /\ buf'[p].dirty /\ buf'[p].modify = Later(buf[p].modify, k)
    /\ buf'[p].begin0 = Earlier(buf[p].begin0, log'[k].trx)
    /\ \A q \in Page : q # p => buf'[q] = buf[q]

\* Pages are written, with changes that survive a crash.
FlushStep(F) ==
    /\ Advances /\ log' = log /\ F \subseteq Page
    /\ \A i \in Idx : Horizon < i /\ i <= Horizon' => ~PageRec(i)
    /\ \A p \in F : disk'[p] = buf[p].pg /\ buf'[p] = CleanBuf(buf[p].pg)
    /\ \A p \in Page \ F : disk'[p] = disk[p] /\ buf'[p] = buf[p]
    /\ \A p \in F : \A i \in Idx : i <= buf[p].modify => Survives(i)

\* Records keep their places.
LEMMA SameRecs ==
    ASSUME LogTypes, LogTypes', Advances, NEW i \in Idx
    PROVE  /\ i \in Idx' /\ log'[i] = log[i] /\ (PageRec(i)' <=> PageRec(i))
           /\ \A p \in Page : On(p, i)' <=> On(p, i)
           /\ Survives(i) => Survives(i)'
           /\ \A p, time : ChangedBy(p, time, i) => ChangedBy(p, time, i)'
<1>1. /\ Len(log) \in Nat /\ Len(log') \in Nat /\ durable \in Nat /\ durable' \in Nat
      /\ waypoint \in Nat /\ waypoint' \in Nat
  BY DEF LogTypes
<1>2. i \in Nat /\ i <= Len(log) /\ 1 <= i
  BY <1>1 DEF Idx
<1>3. i \in Idx' /\ log'[i] = log[i]
  BY <1>1, <1>2 DEF Advances, Ext, Idx
<1>4. i <= Len(log')
  BY <1>1, <1>2 DEF Advances, Ext
<1>5. /\ PageRec(i)' <=> PageRec(i)
      /\ \A p \in Page : On(p, i)' <=> On(p, i)
  BY <1>3 DEF PageRec, On
<1>6. Survives(i) => Survives(i)'
  BY <1>1, <1>2 DEF Advances, Survives
<1>7. \A p, time : ChangedBy(p, time, i) => ChangedBy(p, time, i)'
  BY <1>3, <1>4, Zenon DEF ChangedBy
<1> QED
  BY <1>3, <1>5, <1>6, <1>7

\* What the disk owes to the log stays.
LEMMA WriteAheadKept ==
    ASSUME Types, Types', Advances, NEW p \in Page, disk'[p].dbtime = disk[p].dbtime,
           disk[p].dbtime = 0 \/ \E i \in 1 .. Len(log) : Survives(i) /\ ChangedBy(p, disk[p].dbtime, i)
    PROVE  disk'[p].dbtime = 0 \/ \E i \in 1 .. Len(log') : Survives(i)' /\ ChangedBy(p, disk[p].dbtime, i)'
<1>0. LogTypes /\ LogTypes'
  BY DEF Types
<1>1. CASE disk[p].dbtime = 0
  BY <1>1
<1>2. CASE \E i \in 1 .. Len(log) : Survives(i) /\ ChangedBy(p, disk[p].dbtime, i)
  <2>1. PICK i \in Idx : Survives(i) /\ ChangedBy(p, disk[p].dbtime, i)
    BY <1>2 DEF Idx
  <2>2. PICK time : time = disk[p].dbtime
    OBVIOUS
  <2>3. i \in Idx' /\ Survives(i)' /\ ChangedBy(p, time, i)'
    BY <1>0, <2>1, <2>2, SameRecs
  <2>4. disk'[p].dbtime = time
    BY <2>2
  <2> QED
    BY <2>2, <2>3, <2>4 DEF Idx
<1> QED
  BY <1>1, <1>2

\* A page from the cache is as old as the disk or as a record of the log.
LEMMA BufStamped ==
    ASSUME Types, Stamps, WriteAhead, NEW p \in Page, buf[p].pg.dbtime # 0
    PROVE  \E i \in Idx : ChangedBy(p, buf[p].pg.dbtime, i)
<1>1. CASE buf[p].pg.dbtime = disk[p].dbtime
  <2>1. PICK i \in Idx : ChangedBy(p, disk[p].dbtime, i)
    BY <1>1 DEF WriteAhead, Idx
  <2> QED
    BY <1>1, <2>1
<1>2. CASE \E i \in Idx : i <= buf[p].modify /\ ChangedBy(p, buf[p].pg.dbtime, i)
  BY <1>2
<1> QED
  BY <1>1, <1>2 DEF Stamps

\* The horizon is in the log.
LEMMA HorizonInLog ==
    ASSUME LogTypes, Bounds
    PROVE  Horizon \in Nat /\ Horizon <= Len(log) /\ Len(log) \in Nat /\ (mode # "redo" => Horizon = Len(log))
BY DEF LogTypes, Bounds, Horizon

\* What comes within the horizon is new or was there before.
LEMMA SeenBefore ==
    ASSUME LogTypes, LogTypes', Bounds, Advances, NEW p \in Page, NEW i \in Idx', On(p, i)', ~(Horizon < i)
    PROVE  i \in Idx /\ On(p, i) /\ i <= Horizon /\ log'[i] = log[i]
<1>1. i \in Idx /\ i <= Horizon
  BY HorizonInLog, SMTT(30) DEF Idx, LogTypes
<1> QED
  BY <1>1, SameRecs

\* Pages in a quiet step.
LEMMA QuietPages ==
    ASSUME Types, Types', Bounds, WriteAhead, Stamps, Caught, Dirty, BufBounds, Quiet
    PROVE  (WriteAhead /\ Stamps /\ Caught /\ Dirty /\ BufBounds)'
<1>0. LogTypes /\ LogTypes' /\ PageTypes /\ PageTypes' /\ Advances
  BY DEF Types, Quiet
<1>1. \A p \in Page : BufKept(p) /\ buf'[p].modify <= Horizon' /\ disk'[p] = disk[p]
  BY DEF Quiet
<1>2. WriteAhead'
  <2> SUFFICES ASSUME NEW p \in Page
               PROVE  disk'[p].dbtime = 0
                        \/ \E i \in 1 .. Len(log') : Survives(i)' /\ ChangedBy(p, disk[p].dbtime, i)'
    BY DEF WriteAhead
  <2> QED
    BY <1>0, <1>1, WriteAheadKept DEF WriteAhead
<1>3. Stamps'
  <2> SUFFICES ASSUME NEW p \in Page
               PROVE  /\ disk'[p].dbtime <= buf'[p].pg.dbtime
                      /\ buf'[p].pg.dbtime = disk'[p].dbtime
                           \/ \E i \in Idx' : i <= buf'[p].modify /\ ChangedBy(p, buf[p].pg.dbtime, i)'
    BY DEF Stamps
  <2>1. disk'[p].dbtime = disk[p].dbtime /\ buf'[p].pg.dbtime = buf[p].pg.dbtime /\ buf[p].modify <= buf'[p].modify
    BY <1>1 DEF BufKept
  <2>2. CASE buf[p].pg.dbtime = disk[p].dbtime
    BY <2>1, <2>2 DEF Stamps
  <2>3. CASE \E i \in Idx : i <= buf[p].modify /\ ChangedBy(p, buf[p].pg.dbtime, i)
    <3>1. PICK i \in Idx : i <= buf[p].modify /\ ChangedBy(p, buf[p].pg.dbtime, i)
      BY <2>3
    <3>2. PICK time : time = buf[p].pg.dbtime
      OBVIOUS
    <3>3. i \in Idx' /\ ChangedBy(p, time, i)' /\ time = buf'[p].pg.dbtime
      BY <1>0, <2>1, <3>1, <3>2, SameRecs
    <3>4. i \in Nat /\ buf[p].modify \in Nat /\ buf'[p].modify \in Nat
      <4>1. buf'[p].modify \in Nat
        BY <1>0 DEF PageTypes, BufType
      <4> QED
        BY <1>0, <4>1, OfPage DEF Idx, LogTypes
    <3>5. i <= buf'[p].modify
      BY <2>1, <3>1, <3>4
    <3> QED
      BY <2>1, <3>3, <3>5 DEF Stamps
  <2> QED
    BY <2>2, <2>3 DEF Stamps
<1>4. Caught' /\ Dirty'
  <2> SUFFICES ASSUME NEW p \in Page, NEW i \in Idx', On(p, i)', i <= Horizon'
               PROVE  /\ log'[i].after <= buf'[p].pg.dbtime
                      /\ log'[i].after > disk'[p].dbtime =>
                           buf'[p].dirty /\ buf'[p].begin0 > 0 /\ buf'[p].begin0 <= log'[i].trx
    BY DEF Caught, Dirty
  <2>1. /\ disk'[p].dbtime = disk[p].dbtime /\ buf'[p].pg.dbtime = buf[p].pg.dbtime
        /\ buf'[p].dirty = buf[p].dirty /\ buf'[p].begin0 = buf[p].begin0
    BY <1>1 DEF BufKept
  <2>2. CASE Horizon < i
    <3>1. log'[i].after <= disk[p].dbtime /\ disk[p].dbtime <= buf[p].pg.dbtime
      BY <2>2 DEF Quiet, Stamps
    <3>2. log'[i].after \in Nat /\ disk[p].dbtime \in Nat /\ buf[p].pg.dbtime \in Nat
      <4>1. log'[i].after \in Nat
        BY <1>0, OfLogNext
      <4> QED
        BY <1>0, <4>1, OfPage
    <3> QED
      BY <2>1, <3>1, <3>2
  <2>3. CASE ~(Horizon < i)
    <3>1. i \in Idx /\ On(p, i) /\ i <= Horizon /\ log'[i] = log[i]
      BY <1>0, <2>3, SeenBefore
    <3> QED
      BY <2>1, <3>1 DEF Caught, Dirty
  <2> QED
    BY <2>2, <2>3
<1>5. BufBounds'
  <2> SUFFICES ASSUME NEW p \in Page PROVE buf'[p].modify <= Horizon' /\ buf'[p].begin0 <= Len(log')
    BY DEF BufBounds
  <2>1. buf'[p].begin0 = buf[p].begin0 /\ buf[p].begin0 <= Len(log) /\ Len(log) <= Len(log')
    BY <1>0, <1>1 DEF BufKept, BufBounds, Advances, Ext
  <2>2. buf[p].begin0 \in Nat /\ Len(log) \in Nat /\ Len(log') \in Nat
    BY <1>0, OfPage DEF LogTypes
  <2> QED
    BY <1>1, <2>1, <2>2
<1> QED
  BY <1>2, <1>3, <1>4, <1>5

\* Pages in a step that changes one.
LEMMA ChangedPages ==
    ASSUME Types, Types', Bounds, WriteAhead, Stamps, Caught, Dirty, BufBounds,
           NEW p \in Page, NEW k \in Nat, PageStep(p, k)
    PROVE  (WriteAhead /\ Stamps /\ Caught /\ Dirty /\ BufBounds)'
<1>0. LogTypes /\ LogTypes' /\ PageTypes /\ PageTypes' /\ Advances /\ disk' = disk
  BY DEF Types, PageStep
<1>1. /\ k \in Idx' /\ k = Horizon' /\ Horizon < k /\ On(p, k)'
      /\ buf'[p].pg.dbtime = log'[k].after /\ buf[p].pg.dbtime < log'[k].after
      /\ buf'[p].dirty /\ buf'[p].modify = Later(buf[p].modify, k)
      /\ buf'[p].begin0 = Earlier(buf[p].begin0, log'[k].trx) /\ log'[k].trx > 0 /\ log'[k].trx <= Len(log')
  BY DEF PageStep
<1>n. /\ log'[k].trx \in Nat /\ log'[k].after \in Nat /\ Len(log) \in Nat /\ Len(log') \in Nat
      /\ Horizon \in Nat /\ Len(log) <= Len(log')
  <2>1. log'[k].trx \in Nat /\ log'[k].after \in Nat
    BY <1>0, <1>1, OfLogNext
  <2> QED
    BY <1>0, <2>1, HorizonInLog, SMTT(30) DEF LogTypes, Advances, Ext
<1>m. /\ disk[p].dbtime \in Nat /\ buf[p].pg.dbtime \in Nat /\ buf[p].modify \in Nat /\ buf[p].begin0 \in Nat
      /\ buf[p].modify <= Horizon /\ buf[p].begin0 <= Len(log)
  BY <1>0, OfPage DEF BufBounds
<1>2. WriteAhead'
  <2> SUFFICES ASSUME NEW q \in Page
               PROVE  disk'[q].dbtime = 0
                        \/ \E i \in 1 .. Len(log') : Survives(i)' /\ ChangedBy(q, disk[q].dbtime, i)'
    BY DEF WriteAhead
  <2> QED
    BY <1>0, WriteAheadKept DEF WriteAhead
<1>q. ASSUME NEW q \in Page, q # p
      PROVE  buf'[q] = buf[q] /\ disk'[q] = disk[q]
  BY <1>q, <1>0 DEF PageStep
<1>3. Stamps'
  <2> SUFFICES ASSUME NEW q \in Page
               PROVE  /\ disk'[q].dbtime <= buf'[q].pg.dbtime
                      /\ buf'[q].pg.dbtime = disk'[q].dbtime
                           \/ \E i \in Idx' : i <= buf'[q].modify /\ ChangedBy(q, buf[q].pg.dbtime, i)'
    BY DEF Stamps
  <2>1. CASE q = p
    <3>1. disk[p].dbtime <= buf[p].pg.dbtime
      BY DEF Stamps
    <3>2. disk'[p].dbtime <= buf'[p].pg.dbtime
      BY <1>0, <1>1, <1>n, <1>m, <3>1
    <3>3. k <= buf'[p].modify
      BY <1>1, <1>m DEF Later
    <3>4. PICK time : time = buf'[p].pg.dbtime
      OBVIOUS
    <3>5. ChangedBy(p, time, k)'
      <4>1. k <= Len(log') /\ log'[k].after = time
        BY <1>1, <1>n, <3>4 DEF Idx
      <4> QED
        BY <1>1, <4>1 DEF ChangedBy, On, PageRec
    <3>6. ChangedBy(p, buf[p].pg.dbtime, k)'
      BY <3>4, <3>5
    <3> QED
      BY <1>1, <2>1, <3>2, <3>3, <3>6
  <2>2. CASE q # p
    <3>1. buf'[q] = buf[q] /\ disk'[q] = disk[q]
      BY <1>q, <2>2
    <3>2. CASE buf[q].pg.dbtime = disk[q].dbtime
      BY <3>1, <3>2 DEF Stamps
    <3>3. CASE \E i \in Idx : i <= buf[q].modify /\ ChangedBy(q, buf[q].pg.dbtime, i)
      <4>1. PICK i \in Idx : i <= buf[q].modify /\ ChangedBy(q, buf[q].pg.dbtime, i)
        BY <3>3
      <4>2. PICK time : time = buf[q].pg.dbtime
        OBVIOUS
      <4>3. i \in Idx' /\ ChangedBy(q, time, i)' /\ time = buf'[q].pg.dbtime
        BY <1>0, <3>1, <4>1, <4>2, SameRecs
      <4> QED
        BY <3>1, <4>1, <4>3 DEF Stamps
    <3> QED
      BY <3>2, <3>3 DEF Stamps
  <2> QED
    BY <2>1, <2>2
<1>4. Caught' /\ Dirty'
  <2> SUFFICES ASSUME NEW q \in Page, NEW i \in Idx', On(q, i)', i <= Horizon'
               PROVE  /\ log'[i].after <= buf'[q].pg.dbtime
                      /\ log'[i].after > disk'[q].dbtime =>
                           buf'[q].dirty /\ buf'[q].begin0 > 0 /\ buf'[q].begin0 <= log'[i].trx
    BY DEF Caught, Dirty
  <2>1. CASE i = k
    <3>1. q = p
      BY <1>1, <2>1 DEF On
    <3>2. buf'[p].begin0 > 0 /\ buf'[p].begin0 <= log'[k].trx
      BY <1>1, <1>n, <1>m DEF Earlier, NoLgpos
    <3> QED
      BY <1>1, <1>n, <2>1, <3>1, <3>2
  <2>2. CASE i # k
    <3>1. ~(Horizon < i)
      <4>1. i \in Nat
        BY <1>n DEF Idx
      <4>2. i < k
        BY <1>1, <2>2, <4>1
      <4> QED
        BY <4>2 DEF PageStep, On
    <3>2. i \in Idx /\ On(q, i) /\ i <= Horizon /\ log'[i] = log[i]
      BY <1>0, <3>1, SeenBefore
    <3>3. CASE q # p
      BY <1>q, <3>2, <3>3 DEF Caught, Dirty
    <3>4. CASE q = p
      <4>1. log[i].after <= buf[p].pg.dbtime
        BY <3>2, <3>4 DEF Caught
      <4>2. log[i].after > disk[p].dbtime => buf[p].begin0 > 0 /\ buf[p].begin0 <= log[i].trx
        BY <3>2, <3>4 DEF Dirty
      <4>3. log[i].after \in Nat /\ log[i].trx \in Nat
        BY <1>0, <3>2, OfLog
      <4>4. log[i].after <= buf'[p].pg.dbtime
        BY <1>1, <1>n, <1>m, <4>1, <4>3, SMTT(30)
      <4>5. log[i].after > disk[p].dbtime => buf'[p].begin0 > 0 /\ buf'[p].begin0 <= log[i].trx
        BY <1>1, <1>n, <1>m, <4>2, <4>3, SMTT(30) DEF Earlier, NoLgpos
      <4> QED
        BY <1>0, <1>1, <3>2, <3>4, <4>4, <4>5
    <3> QED
      BY <3>3, <3>4
  <2> QED
    BY <2>1, <2>2
<1>5. BufBounds'
  <2> SUFFICES ASSUME NEW q \in Page PROVE buf'[q].modify <= Horizon' /\ buf'[q].begin0 <= Len(log')
    BY DEF BufBounds
  <2>1. CASE q = p
    BY <1>1, <1>n, <1>m, <2>1 DEF Later, Earlier
  <2>2. CASE q # p
    <3>1. buf'[q] = buf[q] /\ buf[q].modify <= Horizon /\ buf[q].begin0 <= Len(log)
      BY <1>q, <2>2 DEF BufBounds
    <3>2. buf[q].modify \in Nat /\ buf[q].begin0 \in Nat
      BY <1>0, OfPage
    <3> QED
      BY <1>1, <1>n, <3>1, <3>2
  <2> QED
    BY <2>1, <2>2
<1> QED
  BY <1>2, <1>3, <1>4, <1>5

\* Pages in a step that writes some.
LEMMA FlushedPages ==
    ASSUME Types, Types', Bounds, WriteAhead, Stamps, Caught, Dirty, BufBounds, NEW F, FlushStep(F)
    PROVE  (WriteAhead /\ Stamps /\ Caught /\ Dirty /\ BufBounds)'
<1>0. LogTypes /\ LogTypes' /\ PageTypes /\ PageTypes' /\ Advances /\ log' = log /\ F \subseteq Page
  BY DEF Types, FlushStep
<1>f. ASSUME NEW p \in F
      PROVE  /\ p \in Page /\ disk'[p] = buf[p].pg /\ buf'[p].pg = buf[p].pg /\ buf'[p].modify = 0 /\ buf'[p].begin0 = 0
             /\ disk'[p].dbtime = buf[p].pg.dbtime /\ buf'[p].pg.dbtime = buf[p].pg.dbtime /\ buf[p].pg.dbtime \in Nat
  <2>1. p \in Page /\ disk'[p] = buf[p].pg /\ buf'[p] = CleanBuf(buf[p].pg)
    BY <1>0 DEF FlushStep
  <2>2. PICK g : g = buf[p].pg /\ g \in PageImage(p) /\ g.dbtime \in Nat
    BY <1>0, <2>1, OfPage
  <2>3. CleanBuf(g).pg = g /\ CleanBuf(g).modify = 0 /\ CleanBuf(g).begin0 = 0
    BY <2>2, CleanFields
  <2>4. buf'[p].pg = g /\ buf'[p].modify = 0 /\ buf'[p].begin0 = 0
    BY <2>1, <2>2, <2>3
  <2> QED
    BY <2>1, <2>2, <2>4
<1>g. ASSUME NEW p \in Page \ F
      PROVE  disk'[p] = disk[p] /\ buf'[p] = buf[p]
  BY DEF FlushStep
<1>2. WriteAhead'
  <2> SUFFICES ASSUME NEW p \in Page
               PROVE  disk'[p].dbtime = 0
                        \/ \E i \in 1 .. Len(log') : Survives(i)' /\ ChangedBy(p, disk[p].dbtime, i)'
    BY DEF WriteAhead
  <2>1. CASE p \notin F
    BY <1>0, <1>g, <2>1, WriteAheadKept DEF WriteAhead
  <2>2. CASE p \in F
    <3>1. PICK time : time = buf[p].pg.dbtime
      OBVIOUS
    <3>2. disk'[p].dbtime = time
      BY <1>f, <2>2, <3>1
    <3>3. CASE \E i \in Idx : i <= buf[p].modify /\ ChangedBy(p, time, i)
      <4>1. PICK i \in Idx : i <= buf[p].modify /\ ChangedBy(p, time, i)
        BY <3>3
      <4>2. Survives(i)
        BY <2>2, <4>1 DEF FlushStep
      <4>3. i \in Idx' /\ Survives(i)' /\ ChangedBy(p, time, i)'
        BY <1>0, <4>1, <4>2, SameRecs
      <4> QED
        BY <3>2, <4>3 DEF Idx
    <3>4. CASE time = disk[p].dbtime
      <4>1. disk'[p].dbtime = disk[p].dbtime
        BY <3>2, <3>4
      <4> QED
        BY <1>0, <4>1, WriteAheadKept DEF WriteAhead
    <3> QED
      BY <3>1, <3>3, <3>4 DEF Stamps
  <2> QED
    BY <2>1, <2>2
<1>3. Stamps'
  <2> SUFFICES ASSUME NEW p \in Page
               PROVE  /\ disk'[p].dbtime <= buf'[p].pg.dbtime
                      /\ buf'[p].pg.dbtime = disk'[p].dbtime
                           \/ \E i \in Idx' : i <= buf'[p].modify /\ ChangedBy(p, buf[p].pg.dbtime, i)'
    BY DEF Stamps
  <2>1. CASE p \in F
    BY <1>f, <2>1
  <2>2. CASE p \notin F
    <3>1. buf'[p] = buf[p] /\ disk'[p] = disk[p]
      BY <1>g, <2>2
    <3>2. CASE buf[p].pg.dbtime = disk[p].dbtime
      BY <3>1, <3>2 DEF Stamps
    <3>3. CASE \E i \in Idx : i <= buf[p].modify /\ ChangedBy(p, buf[p].pg.dbtime, i)
      <4>1. PICK i \in Idx : i <= buf[p].modify /\ ChangedBy(p, buf[p].pg.dbtime, i)
        BY <3>3
      <4>2. PICK time : time = buf[p].pg.dbtime
        OBVIOUS
      <4>3. i \in Idx' /\ ChangedBy(p, time, i)' /\ time = buf'[p].pg.dbtime
        BY <1>0, <3>1, <4>1, <4>2, SameRecs
      <4> QED
        BY <3>1, <4>1, <4>3 DEF Stamps
    <3> QED
      BY <3>2, <3>3 DEF Stamps
  <2> QED
    BY <2>1, <2>2
<1>4. Caught' /\ Dirty'
  <2> SUFFICES ASSUME NEW p \in Page, NEW i \in Idx', On(p, i)', i <= Horizon'
               PROVE  /\ log'[i].after <= buf'[p].pg.dbtime
                      /\ log'[i].after > disk'[p].dbtime =>
                           buf'[p].dirty /\ buf'[p].begin0 > 0 /\ buf'[p].begin0 <= log'[i].trx
    BY DEF Caught, Dirty
  <2>1. ~(Horizon < i)
    <3>1. i \in Idx /\ PageRec(i)
      BY <1>0 DEF On, PageRec, Idx
    <3> QED
      BY <3>1 DEF FlushStep
  <2>2. i \in Idx /\ On(p, i) /\ i <= Horizon /\ log'[i] = log[i]
    BY <1>0, <2>1, SeenBefore
  <2>3. log[i].after <= buf[p].pg.dbtime /\ log[i].after \in Nat
    BY <1>0, <2>2, OfLog DEF Caught
  <2>4. CASE p \in F
    BY <1>f, <2>2, <2>3, <2>4
  <2>5. CASE p \notin F
    BY <1>g, <2>2, <2>3, <2>5 DEF Dirty
  <2> QED
    BY <2>4, <2>5
<1>5. BufBounds'
  <2> SUFFICES ASSUME NEW p \in Page PROVE buf'[p].modify <= Horizon' /\ buf'[p].begin0 <= Len(log')
    BY DEF BufBounds
  <2>1. Horizon \in Nat /\ Horizon' \in Nat /\ Horizon <= Horizon' /\ Len(log) \in Nat
    BY <1>0, HorizonInLog DEF Advances, Horizon, LogTypes
  <2>2. CASE p \in F
    BY <1>0, <1>f, <2>1, <2>2
  <2>3. CASE p \notin F
    <3>1. buf'[p] = buf[p] /\ buf[p].modify <= Horizon /\ buf[p].begin0 <= Len(log)
      BY <1>g, <2>3 DEF BufBounds
    <3>2. buf[p].modify \in Nat /\ buf[p].begin0 \in Nat
      BY <1>0, OfPage
    <3> QED
      BY <1>0, <2>1, <3>1, <3>2
  <2> QED
    BY <2>2, <2>3
<1> QED
  BY <1>2, <1>3, <1>4, <1>5

-----------------------------------------------------------------------------
(* The log and the sessions *)

\* Without new records about pages, what the log says of them stays.
LEMMA SameChain ==
    ASSUME LogTypes, LogTypes', Ext, \A i \in Idx' : Len(log) < i => ~PageRec(i)', Order, Chain, OfTrx
    PROVE  (Order /\ Chain /\ OfTrx)'
<1>1. ASSUME NEW i \in Idx', PageRec(i)'
      PROVE  i \in Idx /\ PageRec(i) /\ log'[i] = log[i]
  <2>1. i \in Idx
    BY <1>1 DEF Idx, LogTypes
  <2> QED
    BY <1>1, <2>1 DEF Ext, PageRec
<1>2. \A i \in Idx : i \in Idx' /\ log'[i] = log[i] /\ i \in Nat
  BY DEF Ext, Idx, LogTypes
<1>3. Order'
  <2> SUFFICES ASSUME NEW i \in Idx', NEW j \in Idx', i < j, PageRec(i)', PageRec(j)' PROVE log'[i].after < log'[j].after
    BY DEF Order
  <2> QED
    BY <1>1 DEF Order
<1>4. Chain'
  <2> SUFFICES ASSUME NEW j \in Idx', PageRec(j)'
               PROVE  /\ \A i \in Idx' : i < j /\ On(PageOf[log[j].node], i)' => log'[i].after <= log'[j].before
                      /\ log'[j].before = 0
                           \/ \E i \in Idx' : i < j /\ On(PageOf[log[j].node], i)' /\ log'[i].after = log'[j].before
    BY DEF Chain
  <2>1. j \in Idx /\ PageRec(j) /\ log'[j] = log[j]
    BY <1>1
  <2>2. PICK p : p = PageOf[log[j].node]
    OBVIOUS
  <2>3. p = PageOf[log'[j].node]
    BY <2>1, <2>2
  <2>4. ASSUME NEW i \in Idx', i < j, On(p, i)' PROVE log'[i].after <= log'[j].before
    <3>1. i \in Idx /\ On(p, i) /\ log'[i] = log[i]
      BY <1>1, <2>4 DEF On
    <3> QED
      BY <2>1, <2>2, <2>4, <3>1 DEF Chain
  <2>5. ASSUME log'[j].before # 0 PROVE \E i \in Idx' : i < j /\ On(p, i)' /\ log'[i].after = log'[j].before
    <3>1. PICK i \in Idx : i < j /\ On(p, i) /\ log[i].after = log[j].before
      BY <2>1, <2>2, <2>5 DEF Chain
    <3> QED
      BY <1>2, <2>1, <3>1 DEF On, PageRec
  <2> QED
    BY <2>3, <2>4, <2>5
<1>5. OfTrx'
  <2> SUFFICES ASSUME NEW i \in Idx', PageRec(i)'
               PROVE  /\ log'[i].trx \in Idx' /\ log'[i].trx < i
                      /\ log'[log'[i].trx].t = "Begin0" /\ log'[log'[i].trx].s = log'[i].s
                      /\ \A k \in Idx' : log'[i].trx < k /\ k < i => ~Cuts(k, log[i].s)'
    BY DEF OfTrx
  <2>1. i \in Idx /\ PageRec(i) /\ log'[i] = log[i]
    BY <1>1
  <2>2. PICK s : s = log[i].s
    OBVIOUS
  <2>3. /\ log[i].trx \in Idx /\ log[i].trx < i /\ log[log[i].trx].t = "Begin0" /\ log[log[i].trx].s = s
        /\ \A k \in Idx : log[i].trx < k /\ k < i => ~Cuts(k, s)
    BY <2>1, <2>2 DEF OfTrx
  <2>4. log'[log[i].trx] = log[log[i].trx] /\ log[i].trx \in Idx'
    BY <1>2, <2>3
  <2>5. ASSUME NEW k \in Idx', log'[i].trx < k, k < i PROVE ~Cuts(k, s)'
    <3>1. k \in Idx
      BY <2>1, <2>5 DEF Idx, LogTypes
    <3>2. ~Cuts(k, s) /\ log'[k] = log[k]
      BY <1>2, <2>1, <2>3, <2>5, <3>1
    <3> QED
      BY <3>2 DEF Cuts
  <2>6. log'[i].s = s
    BY <2>1, <2>2
  <2> QED
    BY <2>1, <2>2, <2>3, <2>4, <2>5, <2>6
<1> QED
  BY <1>3, <1>4, <1>5

\* An acknowledged commit stays in the log.
LEMMA SameAcked ==
    ASSUME LogTypes, LogTypes', Ext, durable <= durable', AckedLogged, acked' = acked
    PROVE  AckedLogged'
<1> SUFFICES ASSUME ~LosesLogs, NEW trx \in acked
             PROVE  \E i \in Idx' : i <= durable' /\ log'[i].t = "Commit0" /\ log'[i].trx = trx
  BY DEF AckedLogged
<1>1. PICK i \in Idx : i <= durable /\ log[i].t = "Commit0" /\ log[i].trx = trx
  BY DEF AckedLogged
<1>2. i \in Idx' /\ log'[i] = log[i] /\ i <= durable'
  BY <1>1, SMTT(30) DEF Ext, Idx, LogTypes
<1> QED
  BY <1>1, <1>2

\* A session that keeps its state keeps its commit record.
SessKept(v) ==
    sess'[v].start = sess[v].start
    /\ (sess'[v].st = "committing" => sess[v].st = "committing" /\ sess'[v].commit = sess[v].commit)

\* Sessions that commit have logged it.
LEMMA CommitKept ==
    ASSUME LogTypes, LogTypes', Ext, Commits, SessTypes, NEW v \in Session, SessKept(v)
    PROVE  /\ sess'[v].start <= Len(log')
           /\ sess'[v].st = "committing" =>
                /\ sess'[v].commit \in Idx' /\ log'[sess'[v].commit].t = "Commit0"
                /\ log'[sess'[v].commit].trx = sess'[v].start
<1>0. sess[v].start \in Nat
  BY OfSess
<1>1. sess[v].start <= Len(log) /\ sess[v].start \in Nat /\ Len(log) \in Nat /\ Len(log') \in Nat
  BY <1>0 DEF Commits, LogTypes
<1>2. sess'[v].start <= Len(log')
  BY <1>1 DEF Ext, SessKept
<1>3. ASSUME sess'[v].st = "committing"
      PROVE  /\ sess'[v].commit \in Idx' /\ log'[sess'[v].commit].t = "Commit0"
             /\ log'[sess'[v].commit].trx = sess'[v].start
  <2>1. PICK c \in Idx : c = sess[v].commit /\ log[c].t = "Commit0" /\ log[c].trx = sess[v].start
    BY <1>3 DEF Commits, SessKept
  <2>2. c \in Idx' /\ log'[c] = log[c] /\ sess'[v].commit = c /\ sess'[v].start = sess[v].start
    BY <1>1, <1>3, <2>1 DEF Ext, Idx, SessKept
  <2> QED
    BY <2>1, <2>2
<1> QED
  BY <1>2, <1>3

\* A record about a page is as new as it can be.
LEMMA CacheBehind ==
    ASSUME Types, Bounds, SeenTimes, Stamps, WriteAhead, mode # "redo", NEW p \in Page
    PROVE  buf[p].pg.dbtime <= dbtime
<1>0. LogTypes /\ PageTypes
  BY DEF Types
<1>1. buf[p].pg.dbtime \in Nat /\ dbtime \in Nat
  BY <1>0, OfPage DEF LogTypes
<1>2. CASE buf[p].pg.dbtime # 0
  <2>1. PICK i \in Idx : ChangedBy(p, buf[p].pg.dbtime, i)
    BY <1>2, BufStamped
  <2>2. log[i].after = buf[p].pg.dbtime /\ i <= Len(log)
    BY <2>1 DEF ChangedBy
  <2>3. i <= Horizon
    BY <1>0, <2>2, HorizonInLog
  <2> QED
    BY <2>2, <2>3 DEF SeenTimes
<1> QED
  BY <1>1, <1>2

\* Update and UndoNewest are steps that change a page.
LEMMA ChangesPage ==
    ASSUME RecInv, Types', NEW s \in Session, NEW p \in Page, NEW k \in Nat, Changes(s, p, k)
    PROVE  PageStep(p, k)
<1>0. /\ LogTypes /\ LogTypes' /\ PageTypes /\ SessTypes /\ SessTypes' /\ Bounds
      /\ SeenTimes /\ Stamps /\ WriteAhead /\ Types /\ OpenTrx
  BY DEF RecInv, Types, LogInv, PageInv, SessInv
<1>1. /\ mode # "redo" /\ Ext /\ k = Len(log') /\ k \in {Len(log) + 1, Len(log) + 2}
      /\ On(p, k)' /\ log'[k].s = s /\ log'[k].trx = sess'[s].start /\ log'[k].after = dbtime + 1
      /\ UNCHANGED <<mode, durable, waypoint, disk>>
      /\ k = Len(log) + 2 => log'[Len(log) + 1].t \in {"Begin0", "UndoInfo"}
      /\ \/ sess'[s].start = Len(log) + 1 /\ k = Len(log) + 2
         \/ Open(s) /\ sess'[s].start = sess[s].start
  BY DEF Changes
<1>2. Horizon = Len(log) /\ Horizon' = k /\ Len(log) \in Nat
  BY <1>0, <1>1, HorizonInLog DEF Horizon
<1>3. k \in Idx' /\ Horizon < k
  BY <1>1, <1>2 DEF Idx
<1>4. Advances
  BY <1>0, <1>1, <1>2, SMTT(30) DEF Advances, LogTypes
<1>5. ASSUME NEW i \in Idx', Horizon < i, i < k PROVE ~PageRec(i)'
  <2>1. i = Len(log) + 1 /\ k = Len(log) + 2
    BY <1>1, <1>2, <1>5 DEF Idx
  <2>2. log'[i].t \in {"Begin0", "UndoInfo"}
    BY <1>1, <2>1
  <2> QED
    BY <2>2 DEF PageRec
<1>6. log'[k].trx > 0 /\ log'[k].trx <= Len(log')
  <2>1. CASE sess'[s].start = Len(log) + 1 /\ k = Len(log) + 2
    BY <1>1, <1>2, <2>1
  <2>2. CASE Open(s) /\ sess'[s].start = sess[s].start
    <3>1. sess[s].start \in Idx
      BY <1>0, <2>2 DEF OpenTrx
    <3> QED
      BY <1>1, <1>2, <2>2, <3>1 DEF Idx
  <2> QED
    BY <1>1, <2>1, <2>2
<1>7. buf[p].pg.dbtime < log'[k].after
  <2>1. buf[p].pg.dbtime <= dbtime
    BY <1>0, <1>1, CacheBehind
  <2>2. buf[p].pg.dbtime \in Nat /\ dbtime \in Nat
    BY <1>0, OfPage DEF LogTypes
  <2> QED
    BY <1>1, <2>1, <2>2
<1>8. /\ buf'[p].pg.dbtime = log'[k].after /\ buf'[p].dirty /\ buf'[p].modify = Later(buf[p].modify, k)
      /\ buf'[p].begin0 = Earlier(buf[p].begin0, log'[k].trx)
      /\ \A q \in Page : q # p => buf'[q] = buf[q]
  BY <1>1 DEF Changes
<1> QED
  BY <1>1, <1>2, <1>3, <1>4, <1>5, <1>6, <1>7, <1>8 DEF PageStep

\* The log after Update or UndoNewest.
LEMMA ChangesLog ==
    ASSUME RecInv, Types', NEW s \in Session, NEW p \in Page, NEW k \in Nat, Changes(s, p, k)
    PROVE  LogInv'
<1>0. /\ LogTypes /\ LogTypes' /\ PageTypes /\ SessTypes /\ SessTypes' /\ Bounds
      /\ SeenTimes /\ ChkTimes /\ Order /\ Chain /\ OfTrx /\ Stamps /\ WriteAhead /\ Caught /\ Types /\ OpenTrx
  BY DEF RecInv, Types, LogInv, PageInv, SessInv
<1>1. /\ mode # "redo" /\ Ext /\ k = Len(log') /\ k \in {Len(log) + 1, Len(log) + 2}
      /\ On(p, k)' /\ log'[k].s = s /\ log'[k].trx = sess'[s].start /\ log'[k].after = dbtime + 1
      /\ log'[k].before = buf[p].pg.dbtime /\ dbtime' = dbtime + 1
      /\ UNCHANGED <<mode, durable, waypoint, disk, chk, ckpt, redo, acked>>
      /\ k = Len(log) + 2 => log'[Len(log) + 1].t \in {"Begin0", "UndoInfo"} /\ log'[Len(log) + 1].after = 0
  BY DEF Changes
<1>n. Len(log) \in Nat /\ Len(log') \in Nat /\ durable \in Nat /\ waypoint \in Nat /\ redo \in Nat /\ dbtime \in Nat
      /\ chk.lgpos \in Nat /\ ckpt.lgpos \in Nat
  BY <1>0 DEF LogTypes
<1>2. Horizon = Len(log) /\ Horizon' = k /\ k \in Idx'
  BY <1>0, <1>1, <1>n, HorizonInLog DEF Horizon, Idx
<1>3. ASSUME NEW i \in Idx'
      PROVE  \/ i \in Idx /\ log'[i] = log[i] /\ i <= Len(log)
             \/ i = k /\ i > Len(log)
             \/ i = Len(log) + 1 /\ i < k /\ k = Len(log) + 2 /\ log'[i].t \in {"Begin0", "UndoInfo"} /\ log'[i].after = 0
  <2>1. i \in Nat /\ 1 <= i /\ i <= k
    BY <1>1, <1>n DEF Idx
  <2>2. CASE i <= Len(log)
    BY <1>1, <1>n, <2>1, <2>2 DEF Idx, Ext
  <2>3. CASE i > Len(log)
    BY <1>1, <1>n, <2>1, <2>3
  <2> QED
    BY <1>n, <2>1, <2>2, <2>3
<1>4. \A i \in Idx : i \in Idx' /\ log'[i] = log[i] /\ i \in Nat /\ i <= Len(log) /\ i < k
  BY <1>1, <1>n DEF Ext, Idx
<1>5. PageRec(k)' /\ PageOf[log'[k].node] = p /\ log'[k].t \in {"Node", "Undo"}
  BY <1>1 DEF On, PageRec
<1>6. ASSUME NEW i \in Idx', PageRec(i)', i # k PROVE i \in Idx /\ PageRec(i) /\ log'[i] = log[i]
  BY <1>3, <1>6 DEF PageRec
<1>a. \A i \in Idx : log[i].after \in Nat /\ log[i].after <= dbtime
  <2> SUFFICES ASSUME NEW i \in Idx PROVE log[i].after \in Nat /\ log[i].after <= dbtime
    OBVIOUS
  <2> QED
    BY <1>0, <1>2, <1>4, OfLog DEF SeenTimes
<1>10. Bounds'
  <2>1. \A i \in Idx' : log'[i].t = "QuitDetach" => i <= waypoint'
    <3> SUFFICES ASSUME NEW i \in Idx', log'[i].t = "QuitDetach" PROVE i <= waypoint
      BY <1>1
    <3> QED
      BY <1>0, <1>3, <1>5 DEF Bounds
  <2> QED
    BY <1>0, <1>1, <1>n, <2>1 DEF Bounds
<1>11. SeenTimes'
  <2> SUFFICES ASSUME NEW i \in Idx' PROVE log'[i].after <= dbtime'
    BY DEF SeenTimes
  <2> QED
    BY <1>1, <1>3, <1>a, <1>n
<1>12. ChkTimes'
  <2> SUFFICES ASSUME NEW i \in Idx', i < chk.lgpos PROVE log'[i].after <= chk.dbtime
    BY <1>1 DEF ChkTimes
  <2>1. i \in Idx /\ log'[i] = log[i]
    BY <1>0, <1>1, <1>3, <1>n DEF Bounds
  <2> QED
    BY <1>0, <2>1 DEF ChkTimes
<1>13. Order'
  <2> SUFFICES ASSUME NEW i \in Idx', NEW j \in Idx', i < j, PageRec(i)', PageRec(j)' PROVE log'[i].after < log'[j].after
    BY DEF Order
  <2>0. i # k
    BY <1>1, <1>n DEF Idx
  <2>1. i \in Idx /\ PageRec(i) /\ log'[i] = log[i]
    BY <1>6, <2>0
  <2>2. CASE j = k
    BY <1>1, <1>a, <1>n, <2>1, <2>2
  <2>3. CASE j # k
    BY <1>0, <1>6, <2>1, <2>3 DEF Order
  <2> QED
    BY <2>2, <2>3
<1>14. Chain'
  <2> SUFFICES ASSUME NEW j \in Idx', PageRec(j)', NEW r, r = PageOf[log'[j].node]
               PROVE  /\ \A i \in Idx' : i < j /\ On(r, i)' => log'[i].after <= log'[j].before
                      /\ log'[j].before = 0 \/ \E i \in Idx' : i < j /\ On(r, i)' /\ log'[i].after = log'[j].before
    BY DEF Chain
  <2>1. CASE j = k
    <3>1. r = p /\ log'[j].before = buf[p].pg.dbtime
      BY <1>1, <1>5, <2>1
    <3>2. ASSUME NEW i \in Idx', i < j, On(p, i)' PROVE log'[i].after <= buf[p].pg.dbtime
      <4>0. i # k
        BY <1>n, <2>1, <3>2 DEF Idx
      <4>1. i \in Idx /\ log'[i] = log[i]
        BY <1>6, <3>2, <4>0 DEF On
      <4>2. On(p, i) /\ i <= Horizon
        BY <1>2, <1>4, <3>2, <4>1 DEF On, PageRec
      <4> QED
        BY <1>0, <4>1, <4>2 DEF Caught
    <3>3. ASSUME buf[p].pg.dbtime # 0 PROVE \E i \in Idx' : i < j /\ On(p, i)' /\ log'[i].after = buf[p].pg.dbtime
      <4>1. PICK i \in Idx : ChangedBy(p, buf[p].pg.dbtime, i)
        BY <1>0, <3>3, BufStamped
      <4>2. On(p, i) /\ log[i].after = buf[p].pg.dbtime
        BY <4>1 DEF ChangedBy, On, PageRec
      <4>3. i \in Idx' /\ log'[i] = log[i] /\ i < j
        BY <1>4, <2>1
      <4>4. On(p, i)'
        BY <4>2, <4>3 DEF On, PageRec
      <4> QED
        BY <4>2, <4>3, <4>4
    <3> QED
      BY <3>1, <3>2, <3>3
  <2>2. CASE j # k
    <3>1. j \in Idx /\ PageRec(j) /\ log'[j] = log[j] /\ r = PageOf[log[j].node]
      BY <1>6, <2>2
    <3>2. ASSUME NEW i \in Idx', i < j, On(r, i)' PROVE log'[i].after <= log'[j].before
      <4>0. i # k
        BY <1>1, <1>n, <3>2 DEF Idx
      <4>1. i \in Idx /\ On(r, i) /\ log'[i] = log[i]
        BY <1>6, <3>2, <4>0 DEF On, PageRec
      <4> QED
        BY <1>0, <3>1, <3>2, <4>1 DEF Chain
    <3>3. ASSUME log'[j].before # 0 PROVE \E i \in Idx' : i < j /\ On(r, i)' /\ log'[i].after = log'[j].before
      <4>1. PICK i \in Idx : i < j /\ On(r, i) /\ log[i].after = log[j].before
        BY <1>0, <3>1, <3>3 DEF Chain
      <4> QED
        BY <1>4, <3>1, <4>1 DEF On, PageRec
    <3> QED
      BY <3>2, <3>3
  <2> QED
    BY <2>1, <2>2
<1>15. OfTrx'
  <2> SUFFICES ASSUME NEW i \in Idx', PageRec(i)', NEW v, v = log'[i].s
               PROVE  /\ log'[i].trx \in Idx' /\ log'[i].trx < i
                      /\ log'[log'[i].trx].t = "Begin0" /\ log'[log'[i].trx].s = v
                      /\ \A j \in Idx' : log'[i].trx < j /\ j < i => ~Cuts(j, v)'
    BY DEF OfTrx
  <2>1. CASE i = k
    <3>1. v = s /\ log'[i].trx = sess'[s].start
      BY <1>1, <2>1
    <3>2. CASE /\ k = Len(log) + 2 /\ sess'[s].start = Len(log) + 1
               /\ log'[Len(log) + 1].t = "Begin0" /\ log'[Len(log) + 1].s = s
      <4>1. Len(log) + 1 \in Idx' /\ Len(log) + 1 < k
        BY <1>1, <1>n, <3>2 DEF Idx
      <4>2. \A j \in Idx' : ~(Len(log) + 1 < j /\ j < k)
        BY <1>n, <3>2 DEF Idx
      <4> QED
        BY <2>1, <3>1, <3>2, <4>1, <4>2
    <3>3. CASE Open(s) /\ sess'[s].start = sess[s].start /\ (k = Len(log) + 2 => log'[Len(log) + 1].t = "UndoInfo")
      <4>1. PICK b \in Idx : /\ b = sess[s].start /\ log[b].t = "Begin0" /\ log[b].s = s
                             /\ \A j \in Idx : b < j /\ j <= Len(log) => ~Cuts(j, s)
        BY <1>0, <1>2, <3>3 DEF OpenTrx
      <4>2. b \in Idx' /\ b < k /\ log'[b] = log[b]
        BY <1>4, <4>1
      <4>3. ASSUME NEW j \in Idx', b < j, j < k PROVE ~Cuts(j, s)'
        <5>1. CASE j \in Idx /\ log'[j] = log[j] /\ j <= Len(log)
          BY <4>1, <4>3, <5>1 DEF Cuts
        <5>2. CASE j = Len(log) + 1 /\ k = Len(log) + 2
          <6>1. log'[j].t = "UndoInfo"
            BY <3>3, <5>2
          <6> QED
            BY <6>1 DEF Cuts
        <5>3. j # k
          BY <1>n, <4>3 DEF Idx
        <5> QED
          BY <1>3, <5>1, <5>2, <5>3
      <4> QED
        BY <2>1, <3>1, <3>3, <4>1, <4>2, <4>3
    <3> QED
      BY <3>2, <3>3 DEF Changes
  <2>2. CASE i # k
    <3>1. i \in Idx /\ PageRec(i) /\ log'[i] = log[i] /\ v = log[i].s
      BY <1>6, <2>2
    <3>2. /\ log[i].trx \in Idx /\ log[i].trx < i /\ log[log[i].trx].t = "Begin0" /\ log[log[i].trx].s = v
          /\ \A j \in Idx : log[i].trx < j /\ j < i => ~Cuts(j, v)
      BY <1>0, <3>1 DEF OfTrx
    <3>3. log'[log[i].trx] = log[log[i].trx] /\ log[i].trx \in Idx'
      BY <1>4, <3>2
    <3>4. ASSUME NEW j \in Idx', log[i].trx < j, j < i PROVE ~Cuts(j, v)'
      <4>1. j \in Idx /\ log'[j] = log[j]
        BY <1>3, <1>4, <1>n, <3>1, <3>4 DEF Idx
      <4> QED
        BY <3>2, <3>4, <4>1 DEF Cuts
    <3> QED
      BY <3>1, <3>2, <3>3, <3>4
  <2> QED
    BY <2>1, <2>2
<1> QED
  BY <1>10, <1>11, <1>12, <1>13, <1>14, <1>15 DEF LogInv

\* The sessions, and what the checkpoint relies on, after Update or UndoNewest.
LEMMA ChangesSess ==
    ASSUME RecInv, Types', NEW s \in Session, NEW p \in Page, NEW k \in Nat, Changes(s, p, k)
    PROVE  SessInv' /\ ChkSafe'
<1>0. /\ LogTypes /\ LogTypes' /\ SessTypes /\ SessTypes' /\ Bounds /\ OpenTrx /\ Commits /\ AckedLogged /\ ChkSafe
  BY DEF RecInv, Types, LogInv, PageInv, SessInv
<1>1. /\ mode # "redo" /\ Ext /\ k = Len(log') /\ k \in {Len(log) + 1, Len(log) + 2} /\ Open(s)'
      /\ On(p, k)' /\ log'[k].s = s /\ log'[k].trx = sess'[s].start
      /\ UNCHANGED <<mode, durable, waypoint, disk, chk, ckpt, redo, acked>>
      /\ \A v \in Session : v # s => sess'[v] = sess[v]
  BY DEF Changes
<1>n. Len(log) \in Nat /\ Len(log') \in Nat /\ durable \in Nat /\ chk.lgpos \in Nat /\ ckpt.lgpos \in Nat
  BY <1>0 DEF LogTypes
<1>2. Horizon = Len(log) /\ Horizon' = k /\ k \in Idx' /\ Len(log) < k
  BY <1>0, <1>1, <1>n, HorizonInLog DEF Horizon, Idx
<1>4. \A i \in Idx : i \in Idx' /\ log'[i] = log[i] /\ i \in Nat /\ i <= Len(log) /\ i < k
  BY <1>1, <1>n DEF Ext, Idx
<1>5. log'[k].t \in {"Node", "Undo"}
  BY <1>1 DEF On, PageRec
<1>6. /\ sess'[s].start \in Idx' /\ log'[sess'[s].start].t = "Begin0" /\ log'[sess'[s].start].s = s
      /\ \A i \in Idx' : sess'[s].start < i => ~Cuts(i, s)'
      /\ chk.lgpos <= sess'[s].start /\ (ckpt.pc = "pages" => ckpt.lgpos <= sess'[s].start)
  <2>1. CASE /\ k = Len(log) + 2 /\ sess'[s].start = Len(log) + 1
             /\ log'[Len(log) + 1].t = "Begin0" /\ log'[Len(log) + 1].s = s
    <3>1. Len(log) + 1 \in Idx' /\ chk.lgpos <= Len(log) + 1 /\ ckpt.lgpos <= Len(log) + 1
      BY <1>0, <1>1, <1>n, <2>1 DEF Idx, Bounds
    <3>2. ASSUME NEW i \in Idx', Len(log) + 1 < i PROVE ~Cuts(i, s)'
      <4>1. i = k
        BY <1>1, <1>n, <2>1, <3>2 DEF Idx
      <4> QED
        BY <1>5, <4>1 DEF Cuts
    <3> QED
      BY <2>1, <3>1, <3>2
  <2>2. CASE Open(s) /\ sess'[s].start = sess[s].start /\ (k = Len(log) + 2 => log'[Len(log) + 1].t = "UndoInfo")
    <3>1. PICK b \in Idx : /\ b = sess[s].start /\ log[b].t = "Begin0" /\ log[b].s = s
                           /\ \A j \in Idx : b < j /\ j <= Len(log) => ~Cuts(j, s)
                           /\ chk.lgpos <= b /\ (ckpt.pc = "pages" => ckpt.lgpos <= b)
      BY <1>0, <1>2, <2>2 DEF OpenTrx
    <3>2. b \in Idx' /\ log'[b] = log[b]
      BY <1>4, <3>1
    <3>3. ASSUME NEW i \in Idx', b < i PROVE ~Cuts(i, s)'
      <4>1. CASE i \in Idx
        BY <1>4, <3>1, <3>3, <4>1 DEF Cuts
      <4>2. CASE i = k
        BY <1>5, <4>2 DEF Cuts
      <4>3. CASE i = Len(log) + 1 /\ k = Len(log) + 2
        <5>1. log'[i].t = "UndoInfo"
          BY <2>2, <4>3
        <5> QED
          BY <5>1 DEF Cuts
      <4>4. i \in Idx \/ i = k \/ (i = Len(log) + 1 /\ k = Len(log) + 2)
        BY <1>1, <1>n DEF Idx
      <4> QED
        BY <4>1, <4>2, <4>3, <4>4
    <3> QED
      BY <2>2, <3>1, <3>2, <3>3
  <2> QED
    BY <2>1, <2>2 DEF Changes
<1>10. Commits'
  <2> SUFFICES ASSUME NEW v \in Session
               PROVE  /\ sess'[v].start <= Len(log')
                      /\ sess'[v].st = "committing" =>
                           /\ sess'[v].commit \in Idx' /\ log'[sess'[v].commit].t = "Commit0"
                           /\ log'[sess'[v].commit].trx = sess'[v].start
    BY DEF Commits
  <2>1. CASE v = s
    <3>1. sess'[s].start <= Len(log')
      BY <1>6, <1>n DEF Idx
    <3>2. sess'[s].st # "committing"
      BY <1>1 DEF Open
    <3> QED
      BY <2>1, <3>1, <3>2
  <2>2. CASE v # s
    <3>1. SessKept(v)
      BY <1>1, <2>2 DEF SessKept
    <3> QED
      BY <1>0, <1>1, <3>1, CommitKept
  <2> QED
    BY <2>1, <2>2
<1>11. AckedLogged'
  BY <1>0, <1>1, <1>n, SameAcked
<1>12. OpenTrx'
  <2> SUFFICES ASSUME NEW v \in Session, Open(v)'
               PROVE  /\ sess'[v].start \in Idx' /\ sess'[v].start <= Horizon'
                      /\ log'[sess'[v].start].t = "Begin0" /\ log'[sess'[v].start].s = v
                      /\ \A i \in Idx' : sess'[v].start < i /\ i <= Horizon' => ~Cuts(i, v)'
                      /\ chk'.lgpos <= sess'[v].start /\ (ckpt'.pc = "pages" => ckpt'.lgpos <= sess'[v].start)
    BY DEF OpenTrx
  <2>1. CASE v = s
    <3>1. sess'[s].start <= Horizon'
      BY <1>1, <1>2, <1>6, <1>n DEF Idx
    <3> QED
      BY <1>1, <1>6, <2>1, <3>1
  <2>2. CASE v # s
    <3>0. sess'[v] = sess[v] /\ Open(v)
      BY <1>1, <2>2 DEF Open
    <3>1. PICK b \in Idx : /\ b = sess[v].start /\ log[b].t = "Begin0" /\ log[b].s = v
                           /\ \A j \in Idx : b < j /\ j <= Len(log) => ~Cuts(j, v)
                           /\ chk.lgpos <= b /\ (ckpt.pc = "pages" => ckpt.lgpos <= b)
      BY <1>0, <1>2, <3>0 DEF OpenTrx
    <3>2. b \in Idx' /\ log'[b] = log[b] /\ b <= Horizon'
      BY <1>2, <1>4, <3>1
    <3>3. ASSUME NEW i \in Idx', b < i PROVE ~Cuts(i, v)'
      <4>1. CASE i \in Idx
        BY <1>4, <3>1, <3>3, <4>1 DEF Cuts
      <4>2. CASE i = k
        BY <1>5, <4>2 DEF Cuts
      <4>3. CASE i = Len(log) + 1 /\ k = Len(log) + 2
        <5>1. log'[i].t = "UndoInfo" \/ (log'[i].t = "Begin0" /\ log'[i].s = s)
          BY <4>3 DEF Changes
        <5> QED
          BY <2>2, <5>1 DEF Cuts
      <4>4. i \in Idx \/ i = k \/ (i = Len(log) + 1 /\ k = Len(log) + 2)
        BY <1>1, <1>n DEF Idx
      <4> QED
        BY <4>1, <4>2, <4>3, <4>4
    <3> QED
      BY <1>1, <3>0, <3>1, <3>2, <3>3
  <2> QED
    BY <2>1, <2>2
<1>13. InRedo' /\ RedoOpen'
  BY <1>1 DEF InRedo, RedoOpen
<1>14. ChkSafe'
  <2> SUFFICES ASSUME NEW q \in Page, NEW i \in Idx', On(q, i)', log'[i].trx < chk.lgpos
               PROVE  log'[i].after <= disk[q].dbtime
    BY <1>1 DEF ChkSafe
  <2>0. i # k
    <3>1. sess'[s].start \in Nat
      BY <1>0 DEF SessTypes, SessType
    <3> QED
      BY <1>1, <1>6, <1>n, <3>1
  <2>1. i \in Idx
    <3>1. i \in Idx \/ i = k \/ (i = Len(log) + 1 /\ k = Len(log) + 2)
      BY <1>1, <1>n DEF Idx
    <3>2. ~(i = Len(log) + 1 /\ k = Len(log) + 2)
      <4>1. k = Len(log) + 2 => log'[Len(log) + 1].t \in {"UndoInfo", "Begin0"}
        BY DEF Changes
      <4> QED
        BY <4>1 DEF On, PageRec
    <3> QED
      BY <2>0, <3>1, <3>2
  <2>2. log'[i] = log[i] /\ On(q, i)
    BY <1>4, <2>1 DEF On, PageRec
  <2> QED
    BY <1>0, <2>1, <2>2 DEF ChkSafe
<1> QED
  BY <1>10, <1>11, <1>12, <1>13, <1>14 DEF SessInv

\* Update and UndoNewest preserve the invariant.
LEMMA ChangesKeep ==
    ASSUME RecInv, Types', NEW s \in Session, NEW p \in Page, NEW k \in Nat, Changes(s, p, k)
    PROVE  RecInv'
<1>1. PageStep(p, k)
  BY ChangesPage
<1>2. (WriteAhead /\ Stamps /\ Caught /\ Dirty /\ BufBounds)'
  BY <1>1, ChangedPages DEF RecInv, LogInv, PageInv
<1>3. LogInv' /\ SessInv' /\ ChkSafe'
  BY ChangesLog, ChangesSess
<1> QED
  BY <1>2, <1>3 DEF RecInv, PageInv

\* No record about a page is logged, and the counter is not behind the records
\* that come within the horizon.
Plain ==
    /\ Advances /\ dbtime <= dbtime'
    /\ \A i \in Idx' : Len(log) < i => ~PageRec(i)'
    /\ \A i \in Idx' : Horizon < i /\ i <= Horizon' => log'[i].after <= dbtime'

\* The log after such a step.
LEMMA PlainLog ==
    ASSUME LogTypes, LogTypes', Bounds, SeenTimes, Order, Chain, OfTrx, Plain
    PROVE  (SeenTimes /\ Order /\ Chain /\ OfTrx)'
<1>1. (Order /\ Chain /\ OfTrx)'
  BY SameChain DEF Plain, Advances
<1>2. SeenTimes'
  <2> SUFFICES ASSUME NEW i \in Idx', i <= Horizon' PROVE log'[i].after <= dbtime'
    BY DEF SeenTimes
  <2>1. CASE Horizon < i
    BY <2>1 DEF Plain
  <2>2. CASE ~(Horizon < i)
    <3>1. i \in Idx /\ i <= Horizon
      BY <2>2, HorizonInLog, SMTT(30) DEF Idx, LogTypes
    <3>2. log'[i] = log[i] /\ log[i].after <= dbtime
      BY <3>1 DEF SeenTimes, Plain, Advances, Ext
    <3>3. log[i].after \in Nat /\ dbtime \in Nat /\ dbtime' \in Nat
      BY <3>1, OfLog DEF LogTypes
    <3> QED
      BY <3>2, <3>3 DEF Plain
  <2> QED
    BY <2>1, <2>2
<1> QED
  BY <1>1, <1>2

\* The checkpoint after such a step, if it stays.
LEMMA SameChk ==
    ASSUME LogTypes, LogTypes', PageTypes, PageTypes', Bounds, ChkTimes, ChkSafe, Ext, chk' = chk,
           \A i \in Idx' : Len(log) < i => ~PageRec(i)', \A p \in Page : disk[p].dbtime <= disk'[p].dbtime
    PROVE  ChkTimes' /\ ChkSafe'
<1>n. chk.lgpos \in Nat /\ durable \in Nat /\ Len(log) \in Nat /\ Len(log') \in Nat
  BY DEF LogTypes
<1>1. ChkTimes'
  <2> SUFFICES ASSUME NEW i \in Idx', i < chk.lgpos PROVE log'[i].after <= chk.dbtime
    BY DEF ChkTimes
  <2>1. i \in Idx /\ log'[i] = log[i]
    BY <1>n DEF Idx, Bounds, Ext
  <2> QED
    BY <2>1 DEF ChkTimes
<1>2. ChkSafe'
  <2> SUFFICES ASSUME NEW p \in Page, NEW i \in Idx', On(p, i)', log'[i].trx < chk.lgpos
               PROVE  log'[i].after <= disk'[p].dbtime
    BY DEF ChkSafe
  <2>1. i \in Idx
    BY <1>n DEF Idx, On
  <2>2. log'[i] = log[i] /\ On(p, i)
    BY <2>1 DEF Ext, On, PageRec
  <2>3. log[i].after <= disk[p].dbtime
    BY <2>1, <2>2 DEF ChkSafe
  <2>4. log[i].after \in Nat /\ disk[p].dbtime \in Nat /\ disk'[p].dbtime \in Nat
    <3>1. disk'[p].dbtime \in Nat
      BY DEF PageTypes, PageImage
    <3> QED
      BY <2>1, <3>1, OfLog, OfPage
  <2> QED
    BY <2>2, <2>3, <2>4
<1> QED
  BY <1>1, <1>2

\* What OpenTrx says of one session after a step.
OpenAfter(v) ==
    /\ sess'[v].start \in Idx' /\ sess'[v].start <= Horizon'
    /\ log'[sess'[v].start].t = "Begin0" /\ log'[sess'[v].start].s = v
    /\ \A i \in Idx' : sess'[v].start < i /\ i <= Horizon' => ~Cuts(i, v)'
    /\ chk'.lgpos <= sess'[v].start /\ (ckpt'.pc = "pages" => ckpt'.lgpos <= sess'[v].start)

\* A transaction that nothing cut stays open.
LEMMA OpenKept ==
    ASSUME LogTypes, LogTypes', Bounds, Advances, OpenTrx, NEW v \in Session, Open(v), sess'[v].start = sess[v].start,
           \A i \in Idx' : Horizon < i /\ i <= Horizon' => ~Cuts(i, v)',
           chk'.lgpos <= sess[v].start /\ (ckpt'.pc = "pages" => ckpt'.lgpos <= sess[v].start)
    PROVE  OpenAfter(v)
<1>n. Len(log) \in Nat /\ Len(log') \in Nat /\ Horizon \in Nat /\ Horizon' \in Nat /\ Horizon <= Len(log)
  BY HorizonInLog DEF LogTypes, Horizon
<1>1. PICK b \in Idx : /\ b = sess[v].start /\ log[b].t = "Begin0" /\ log[b].s = v /\ b <= Horizon
                       /\ \A j \in Idx : b < j /\ j <= Horizon => ~Cuts(j, v)
  BY DEF OpenTrx
<1>2. b \in Idx' /\ log'[b] = log[b] /\ b <= Horizon'
  BY <1>1, <1>n DEF Advances, Ext, Idx
<1>3. ASSUME NEW i \in Idx', b < i, i <= Horizon' PROVE ~Cuts(i, v)'
  <2>1. CASE Horizon < i
    BY <1>3, <2>1
  <2>2. CASE ~(Horizon < i)
    <3>1. i \in Idx /\ i <= Horizon
      BY <1>n, <2>2 DEF Idx
    <3>2. ~Cuts(i, v) /\ log'[i] = log[i]
      BY <1>1, <1>3, <3>1 DEF Advances, Ext
    <3> QED
      BY <3>2 DEF Cuts
  <2> QED
    BY <2>1, <2>2
<1> QED
  BY <1>1, <1>2, <1>3 DEF OpenAfter

\* A step that concerns the sessions S only.
Elsewhere(S) ==
    \A v \in Session \ S :
        /\ SessKept(v) /\ (Open(v)' <=> Open(v)) /\ sess'[v].afterBT = sess[v].afterBT
        /\ \A i \in Idx' : Horizon < i /\ i <= Horizon' => ~Cuts(i, v)'
        /\ Open(v) => chk'.lgpos <= sess[v].start /\ (ckpt'.pc = "pages" => ckpt'.lgpos <= sess[v].start)
\* Those it concerns.
Here(S) ==
    \A v \in S : /\ Open(v)' => OpenAfter(v)
                 /\ sess'[v].start <= Len(log')
                 /\ sess'[v].st = "committing" =>
                      /\ sess'[v].commit \in Idx' /\ log'[sess'[v].commit].t = "Commit0"
                      /\ log'[sess'[v].commit].trx = sess'[v].start
PagesAfter == (WriteAhead /\ Stamps /\ Caught /\ Dirty /\ BufBounds)'

\* What is left to show of a step without new records about pages.
LEMMA PlainKeeps ==
    ASSUME RecInv, Types', Bounds', NEW S \in SUBSET Session, Plain, Elsewhere(S), Here(S), PagesAfter,
           InRedo', RedoOpen', AckedLogged', ChkTimes', ChkSafe'
    PROVE  RecInv'
<1>0. /\ LogTypes /\ LogTypes' /\ SessTypes /\ SessTypes' /\ Bounds
      /\ SeenTimes /\ Order /\ Chain /\ OfTrx /\ Commits /\ OpenTrx
  BY DEF RecInv, LogInv, PageInv, SessInv, Types
<1>2. (SeenTimes /\ Order /\ Chain /\ OfTrx)'
  BY <1>0, PlainLog
<1>3. Advances /\ Ext
  BY DEF Plain, Advances
<1>5. Commits'
  <2> SUFFICES ASSUME NEW v \in Session
               PROVE  /\ sess'[v].start <= Len(log')
                      /\ sess'[v].st = "committing" =>
                           /\ sess'[v].commit \in Idx' /\ log'[sess'[v].commit].t = "Commit0"
                           /\ log'[sess'[v].commit].trx = sess'[v].start
    BY DEF Commits
  <2>1. CASE v \in S
    BY <2>1 DEF Here
  <2>2. CASE v \notin S
    BY <1>0, <1>3, <2>2, CommitKept DEF Elsewhere
  <2> QED
    BY <2>1, <2>2
<1>7. OpenTrx'
  <2> SUFFICES ASSUME NEW v \in Session, Open(v)' PROVE OpenAfter(v)
    BY DEF OpenTrx, OpenAfter
  <2>1. CASE v \in S
    BY <2>1 DEF Here
  <2>2. CASE v \notin S
    <3>1. /\ Open(v) /\ sess'[v].start = sess[v].start
          /\ \A i \in Idx' : Horizon < i /\ i <= Horizon' => ~Cuts(i, v)'
          /\ chk'.lgpos <= sess[v].start /\ (ckpt'.pc = "pages" => ckpt'.lgpos <= sess[v].start)
      BY <2>2 DEF Elsewhere, SessKept
    <3> QED
      BY <1>0, <1>3, <3>1, OpenKept
  <2> QED
    BY <2>1, <2>2
<1> QED
  BY <1>2, <1>5, <1>7 DEF RecInv, LogInv, PageInv, SessInv, PagesAfter

\* The same if neither pages nor the checkpoint nor acknowledged commits change.
LEMMA RoutineKeeps ==
    ASSUME RecInv, Types', Bounds', NEW S \in SUBSET Session, Quiet, Plain, Elsewhere(S), Here(S),
           InRedo', RedoOpen', acked' = acked, chk' = chk
    PROVE  RecInv'
<1>0. /\ Types /\ LogTypes /\ LogTypes' /\ PageTypes /\ PageTypes' /\ Bounds /\ ChkTimes /\ ChkSafe /\ AckedLogged
      /\ WriteAhead /\ Stamps /\ Caught /\ Dirty /\ BufBounds
  BY DEF RecInv, LogInv, PageInv, SessInv, Types
<1>1. PagesAfter
  BY <1>0, QuietPages DEF PagesAfter
<1>3. Advances /\ Ext /\ disk' = disk /\ durable <= durable'
  BY DEF Quiet, Advances
<1>4. ChkTimes' /\ ChkSafe'
  <2>1. \A p \in Page : disk[p].dbtime <= disk'[p].dbtime
    BY <1>0, <1>3, OfPage
  <2> QED
    BY <1>0, <1>3, <2>1, SameChk DEF Plain
<1>6. AckedLogged'
  BY <1>0, <1>3, SameAcked
<1> QED
  BY <1>1, <1>4, <1>6, PlainKeeps

\* Nothing new is checkpointed of an open transaction.
LEMMA SameStart ==
    ASSUME RecInv, chk' = chk, ckpt' = ckpt, NEW v \in Session, Open(v)
    PROVE  chk'.lgpos <= sess[v].start /\ (ckpt'.pc = "pages" => ckpt'.lgpos <= sess[v].start)
BY DEF RecInv, SessInv, OpenTrx


-----------------------------------------------------------------------------
(* Steps that log nothing *)

\* No new record; sessions, counter and horizon stay.
Steady ==
    /\ mode' = mode /\ log' = log /\ sess' = sess /\ redo' = redo /\ dbtime' = dbtime
    /\ durable <= durable' /\ waypoint <= waypoint' /\ chk.lgpos <= chk'.lgpos
    /\ \A v \in Session : Open(v) =>
         chk'.lgpos <= sess[v].start /\ (ckpt'.pc = "pages" => ckpt'.lgpos <= sess[v].start)

\* What such a step leaves alone.
LEMMA SteadyPlain ==
    ASSUME RecInv, LogTypes', Steady
    PROVE  Plain /\ Elsewhere({}) /\ Here({}) /\ InRedo' /\ RedoOpen'
<1>0. LogTypes /\ SessTypes /\ Bounds /\ InRedo /\ RedoOpen
  BY DEF RecInv, LogInv, SessInv, Types
<1>n. Horizon \in Nat /\ Len(log) \in Nat /\ dbtime \in Nat /\ Horizon' = Horizon /\ chk.lgpos \in Nat /\ chk'.lgpos \in Nat
  BY <1>0, HorizonInLog DEF Steady, Horizon, LogTypes
<1>1. Advances
  BY <1>n DEF Advances, Ext, Steady
<1>2. \A i \in Idx' : i \in Idx /\ i \in Nat /\ i <= Len(log)
  BY <1>n DEF Steady, Idx
<1>3. \A i \in Idx' : ~(Len(log) < i) /\ ~(Horizon < i /\ i <= Horizon')
  BY <1>2, <1>n
<1>4. Plain
  BY <1>1, <1>3, <1>n DEF Plain, Steady
<1>5. Elsewhere({})
  <2>1. \A v \in Session : SessKept(v)
    BY DEF SessKept, Steady
  <2>2. \A v \in Session : (Open(v)' <=> Open(v)) /\ sess'[v].afterBT = sess[v].afterBT
    BY DEF Open, Steady
  <2> QED
    BY <1>3, <2>1, <2>2 DEF Elsewhere, Steady
<1>6. Here({})
  BY DEF Here
<1>7. InRedo'
  <2> SUFFICES ASSUME mode = "redo", NEW i \in Idx, redo < i, PageRec(i), log[i].trx <= redo
               PROVE  IF sess[log[i].s].afterBT THEN Open(log[i].s) /\ sess[log[i].s].start = log[i].trx
                      ELSE log[i].trx < chk'.lgpos
    BY DEF InRedo, Steady, Idx, PageRec, Open
  <2>1. log[i].trx \in Nat
    BY <1>0, OfLog
  <2> QED
    BY <1>0, <1>n, <2>1 DEF InRedo, Steady
<1>8. RedoOpen'
  BY <1>0 DEF RedoOpen, Steady, Open
<1> QED
  BY <1>4, <1>5, <1>6, <1>7, <1>8

\* The types after such a step.
LEMMA SteadyTypes ==
    ASSUME Types, Steady, PageTypes', durable' \in Nat, waypoint' \in Nat, chk' \in [lgpos : Nat, dbtime : Nat],
           ckpt' \in [pc : {"none", "sessions", "pages"}, lgpos : Nat]
    PROVE  Types'
<1>1. LogTypes'
  BY DEF Types, LogTypes, Steady
<1>2. SessTypes'
  BY DEF Types, SessTypes, Steady
<1> QED
  BY <1>1, <1>2 DEF Types

\* If it leaves the cache alone as well.
LEMMA SteadyQuiet ==
    ASSUME RecInv, Types', Steady, buf' = buf, disk' = disk
    PROVE  Quiet
<1>0. Types /\ LogTypes /\ LogTypes' /\ PageTypes /\ Bounds /\ BufBounds
  BY DEF RecInv, LogInv, PageInv, Types
<1>1. Advances
  BY <1>0, SteadyPlain DEF Plain
<1>n. Horizon \in Nat /\ Len(log) \in Nat /\ Horizon' = Horizon
  BY <1>0, HorizonInLog DEF Steady, Horizon
<1>2. \A i \in Idx' : ~(Horizon < i /\ i <= Horizon')
  BY <1>n DEF Steady, Idx
<1>3. \A p \in Page : buf[p].modify \in Nat
  BY <1>0, OfPage
<1>4. \A p \in Page : BufKept(p) /\ buf'[p].modify <= Horizon'
  BY <1>0, <1>3, <1>n DEF BufKept, BufBounds
<1> QED
  BY <1>1, <1>2, <1>4 DEF Quiet

\* WriteLog.
LEMMA WriteLogKeeps == ASSUME RecInv, WriteLog PROVE RecInv'
<1>0. Types /\ LogTypes /\ PageTypes /\ Bounds
  BY DEF RecInv, LogInv, Types
<1>1. PICK k \in durable + 1 .. Len(log) : durable' = k
  BY DEF WriteLog
<1>2. k \in Nat /\ durable \in Nat /\ durable < k /\ k <= Len(log) /\ Len(log) \in Nat /\ waypoint \in Nat /\ chk.lgpos \in Nat
  BY <1>0, <1>1 DEF LogTypes
<1>3. Steady
  BY <1>0, <1>1, <1>2, SameStart DEF WriteLog, Steady
<1>4. Types'
  <2>1. PageTypes'
    BY <1>0 DEF WriteLog, PageTypes
  <2> QED
    BY <1>0, <1>1, <1>2, <1>3, <2>1, SteadyTypes DEF WriteLog, LogTypes
<1>5. Bounds'
  BY <1>0, <1>1, <1>2 DEF Bounds, WriteLog, Idx, LogTypes
<1> QED
  BY <1>3, <1>4, <1>5, SteadyPlain, SteadyQuiet, RoutineKeeps DEF WriteLog, Types

\* AdvanceWaypoint.
LEMMA AdvanceWaypointKeeps == ASSUME RecInv, AdvanceWaypoint PROVE RecInv'
<1>0. Types /\ LogTypes /\ PageTypes /\ Bounds
  BY DEF RecInv, LogInv, Types
<1>2. /\ durable \in Nat /\ Len(log) \in Nat /\ waypoint \in Nat /\ chk.lgpos \in Nat /\ redo \in Nat
      /\ WriteTip \in Nat /\ waypoint < WriteTip /\ WriteTip <= durable + 1
  BY <1>0 DEF LogTypes, WriteTip, AdvanceWaypoint, Bounds
<1>3. Steady
  BY <1>0, <1>2, SameStart DEF AdvanceWaypoint, Steady
<1>4. Types'
  <2>1. PageTypes'
    BY <1>0 DEF AdvanceWaypoint, PageTypes
  <2> QED
    BY <1>0, <1>2, <1>3, <2>1, SteadyTypes DEF AdvanceWaypoint, LogTypes
<1>5. Bounds'
  BY <1>0, <1>2 DEF Bounds, AdvanceWaypoint, Idx, LogTypes
<1> QED
  BY <1>3, <1>4, <1>5, SteadyPlain, SteadyQuiet, RoutineKeeps DEF AdvanceWaypoint, Types

\* CkptTip.
LEMMA CkptTipKeeps == ASSUME RecInv, CkptTip PROVE RecInv'
<1>0. Types /\ LogTypes /\ PageTypes /\ Bounds
  BY DEF RecInv, LogInv, Types
<1>2. /\ durable \in Nat /\ Len(log) \in Nat /\ waypoint \in Nat /\ chk.lgpos \in Nat /\ redo \in Nat
      /\ WriteTip \in Nat /\ WriteTip <= durable + 1 /\ (mode = "redo" => WriteTip = redo)
  BY <1>0 DEF LogTypes, WriteTip, Bounds
<1>1. ckpt'.pc = "sessions" /\ ckpt'.lgpos = WriteTip
  BY DEF CkptTip
<1>3. Steady
  <2>1. \A v \in Session : Open(v) => chk.lgpos <= sess[v].start
    BY DEF RecInv, SessInv, OpenTrx
  <2> QED
    BY <1>0, <1>1, <1>2, <2>1 DEF CkptTip, Steady
<1>4. Types'
  <2>1. PageTypes'
    BY <1>0 DEF CkptTip, PageTypes
  <2> QED
    BY <1>0, <1>2, <1>3, <2>1, SteadyTypes DEF CkptTip, LogTypes
<1>5. Bounds'
  BY <1>0, <1>1, <1>2 DEF Bounds, CkptTip, Idx, LogTypes
<1> QED
  BY <1>3, <1>4, <1>5, SteadyPlain, SteadyQuiet, RoutineKeeps DEF CkptTip, Types

\* CkptSessions: the checkpoint in progress is not past an open transaction.
LEMMA CkptSessionsKeeps == ASSUME RecInv, CkptSessions PROVE RecInv'
<1>0. Types /\ LogTypes /\ PageTypes /\ SessTypes /\ Bounds
  BY DEF RecInv, LogInv, Types
<1>n. durable \in Nat /\ Len(log) \in Nat /\ waypoint \in Nat /\ chk.lgpos \in Nat /\ redo \in Nat /\ ckpt.lgpos \in Nat
  BY <1>0 DEF LogTypes
<1>1. PICK T : T = {ckpt.lgpos} \cup {sess[s].start : s \in {u \in Session : Open(u)}}
  OBVIOUS
<1>2. T \in SUBSET Nat /\ T # {}
  BY <1>0, <1>1, <1>n, OfSess
<1>3. PICK m : m = Min(T) /\ m \in T /\ \A y \in T : m <= y
  BY <1>2, MinOfNat
<1>4. OldestStart(ckpt.lgpos) = m
  BY <1>1, <1>3 DEF OldestStart
<1>5. m \in Nat /\ m <= ckpt.lgpos /\ \A v \in Session : Open(v) => m <= sess[v].start
  BY <1>1, <1>2, <1>3
<1>6. ckpt'.pc = "pages" /\ ckpt'.lgpos = m /\ ckpt' = [pc |-> "pages", lgpos |-> m]
  BY <1>4 DEF CkptSessions
<1>7. Steady
  <2>1. \A v \in Session : Open(v) => chk.lgpos <= sess[v].start
    BY DEF RecInv, SessInv, OpenTrx
  <2> QED
    BY <1>n, <1>5, <1>6, <2>1 DEF CkptSessions, Steady
<1>8. Types'
  <2>1. PageTypes'
    BY <1>0 DEF CkptSessions, PageTypes
  <2> QED
    BY <1>0, <1>5, <1>6, <1>7, <2>1, SteadyTypes DEF CkptSessions, LogTypes
<1>9. Bounds'
  BY <1>0, <1>n, <1>5, <1>6 DEF Bounds, CkptSessions, Idx
<1> QED
  BY <1>7, <1>8, <1>9, SteadyPlain, SteadyQuiet, RoutineKeeps DEF CkptSessions, Types

\* OldestBegin0 is not past anything it looks at.
LEMMA OldestIs ==
    ASSUME LogTypes, PageTypes
    PROVE  /\ OldestBegin0(ckpt.lgpos) \in Nat /\ OldestBegin0(ckpt.lgpos) <= ckpt.lgpos
           /\ LosesLogs => OldestBegin0(ckpt.lgpos) <= waypoint
           /\ \A p \in Page : buf[p].dirty => OldestBegin0(ckpt.lgpos) <= buf[p].begin0
<1>n. Len(log) \in Nat /\ waypoint \in Nat /\ ckpt.lgpos \in Nat
  BY DEF LogTypes
<1>1. PICK T : T = {ckpt.lgpos, Waypoint} \cup {buf[p].begin0 : p \in {q \in Page : buf[q].dirty}}
  OBVIOUS
<1>2. T \in SUBSET Nat /\ T # {}
  <2>1. Waypoint \in Nat
    BY <1>n DEF Waypoint
  <2> QED
    BY <1>1, <1>n, <2>1, OfPage
<1>3. PICK m : m = Min(T) /\ m \in T /\ \A y \in T : m <= y
  BY <1>2, MinOfNat
<1>4. OldestBegin0(ckpt.lgpos) = m
  BY <1>1, <1>3 DEF OldestBegin0
<1>5. m \in Nat /\ m <= ckpt.lgpos /\ m <= Waypoint /\ \A p \in Page : buf[p].dirty => m <= buf[p].begin0
  BY <1>1, <1>2, <1>3
<1>6. LosesLogs => m <= waypoint
  BY <1>5 DEF Waypoint
<1> QED
  BY <1>4, <1>5, <1>6

\* CkptPages: what the new checkpoint leaves out of redo is on disk.
LEMMA CkptPagesKeeps == ASSUME RecInv, CkptPages PROVE RecInv'
<1>0. /\ Types /\ LogTypes /\ PageTypes /\ SessTypes /\ Bounds /\ SeenTimes /\ Dirty /\ ChkSafe /\ InRedo /\ OpenTrx
      /\ ChkTimes /\ AckedLogged /\ WriteAhead /\ Stamps /\ Caught /\ BufBounds
  BY DEF RecInv, LogInv, PageInv, SessInv, Types
<1>n. /\ durable \in Nat /\ Len(log) \in Nat /\ waypoint \in Nat /\ chk.lgpos \in Nat /\ redo \in Nat
      /\ ckpt.lgpos \in Nat /\ dbtime \in Nat
  BY <1>0 DEF LogTypes
<1>1. PICK m : /\ m = OldestBegin0(ckpt.lgpos) /\ m \in Nat /\ m <= ckpt.lgpos /\ (LosesLogs => m <= waypoint)
               /\ \A p \in Page : buf[p].dirty => m <= buf[p].begin0
  BY <1>0, OldestIs
<1>2. chk' = IF m > chk.lgpos THEN [lgpos |-> m, dbtime |-> dbtime] ELSE chk
  BY <1>1 DEF CkptPages
<1>3. ckpt' = [pc |-> "none", lgpos |-> 0] /\ ckpt'.pc = "none" /\ ckpt'.lgpos = 0 /\ ckpt.pc = "pages"
  BY DEF CkptPages
<1>4. chk' \in [lgpos : Nat, dbtime : Nat] /\ chk'.lgpos \in {chk.lgpos, m} /\ chk.lgpos <= chk'.lgpos
  BY <1>0, <1>1, <1>2, <1>n DEF LogTypes
<1>5. Steady
  <2>1. \A v \in Session : Open(v) => chk.lgpos <= sess[v].start /\ ckpt.lgpos <= sess[v].start
    BY <1>0, <1>3 DEF OpenTrx
  <2>2. \A v \in Session : sess[v].start \in Nat
    BY <1>0, OfSess
  <2>3. \A v \in Session : Open(v) => chk'.lgpos <= sess[v].start
    BY <1>1, <1>4, <1>n, <2>1, <2>2
  <2> QED
    BY <1>n, <1>3, <1>4, <2>3 DEF CkptPages, Steady
<1>6. Types'
  <2>1. PageTypes'
    BY <1>0 DEF CkptPages, PageTypes
  <2> QED
    BY <1>0, <1>3, <1>4, <1>5, <2>1, SteadyTypes DEF CkptPages, LogTypes
<1>7. Bounds'
  <2>1. /\ 1 <= chk'.lgpos /\ chk'.lgpos <= durable + 1 /\ (LosesLogs => chk'.lgpos <= waypoint)
        /\ mode = "redo" => chk'.lgpos <= redo + 1
    BY <1>0, <1>1, <1>4, <1>n DEF Bounds
  <2> QED
    BY <1>0, <1>n, <1>3, <2>1 DEF Bounds, CkptPages, Idx
<1>8. ChkTimes'
  <2> SUFFICES ASSUME NEW i \in Idx, i < chk'.lgpos PROVE log[i].after <= chk'.dbtime
    BY DEF ChkTimes, CkptPages, Idx
  <2>1. CASE m > chk.lgpos
    <3>1. chk'.lgpos = m /\ chk'.dbtime = dbtime
      BY <1>2, <2>1
    <3>2. i <= Horizon
      BY <1>0, <1>1, <1>n, <3>1 DEF Horizon, Bounds, Idx
    <3> QED
      BY <1>0, <3>1, <3>2 DEF SeenTimes
  <2>2. CASE ~(m > chk.lgpos)
    BY <1>0, <1>2, <2>2 DEF ChkTimes
  <2> QED
    BY <2>1, <2>2
<1>9. ChkSafe'
  <2> SUFFICES ASSUME NEW p \in Page, NEW i \in Idx, On(p, i), log[i].trx < chk'.lgpos PROVE log[i].after <= disk[p].dbtime
    BY DEF ChkSafe, CkptPages, Idx, On, PageRec
  <2>n. /\ log[i].trx \in Nat /\ log[i].after \in Nat /\ disk[p].dbtime \in Nat /\ buf[p].begin0 \in Nat /\ i \in Nat
        /\ Horizon \in Nat /\ PageRec(i) /\ log[i].s \in Session /\ i <= Len(log)
    <3>1. PageRec(i) /\ i \in Nat /\ i <= Len(log)
      BY <1>n DEF On, Idx
    <3>2. log[i].s \in Session
      BY <1>0, <3>1, OfLog DEF PageRec, TrxType, NodeType
    <3> QED
      BY <1>0, <3>1, <3>2, OfLog, OfPage, HorizonInLog
  <2>1. CASE log[i].trx < chk.lgpos
    BY <1>0, <2>1 DEF ChkSafe
  <2>2. CASE ~(log[i].trx < chk.lgpos)
    <3>1. log[i].trx < m
      BY <1>4, <2>2
    <3>2. CASE i <= Horizon
      <4> SUFFICES ASSUME log[i].after > disk[p].dbtime PROVE FALSE
        BY <2>n
      <4>1. buf[p].dirty /\ buf[p].begin0 <= log[i].trx
        BY <1>0, <3>2 DEF Dirty
      <4> QED
        BY <1>1, <2>n, <3>1, <4>1
    <3>3. CASE ~(i <= Horizon)
      <4>1. mode = "redo" /\ redo < i
        BY <1>n, <2>n, <3>3 DEF Horizon
      <4>2. log[i].trx <= redo /\ log[i].trx < ckpt.lgpos
        BY <1>0, <1>1, <1>n, <2>n, <3>1, <4>1 DEF Bounds
      <4>3. sess[log[i].s].afterBT /\ Open(log[i].s) /\ sess[log[i].s].start = log[i].trx
        BY <1>0, <2>n, <2>2, <4>1, <4>2 DEF InRedo
      <4>4. ckpt.lgpos <= log[i].trx
        BY <1>0, <1>3, <2>n, <4>3 DEF OpenTrx
      <4> QED
        BY <1>n, <2>n, <4>2, <4>4
    <3> QED
      BY <3>2, <3>3
  <2> QED
    BY <2>1, <2>2
<1>10. PagesAfter
  <2>1. Quiet
    BY <1>5, <1>6, SteadyQuiet DEF CkptPages
  <2> QED
    BY <1>0, <1>6, <2>1, QuietPages DEF PagesAfter
<1>11. AckedLogged'
  BY <1>0 DEF AckedLogged, CkptPages, Idx
<1> QED
  BY <1>5, <1>6, <1>7, <1>8, <1>9, <1>10, <1>11, SteadyPlain, PlainKeeps DEF Types

\* FlushPage: what the page depends on survives a crash.
LEMMA FlushPageKeeps == ASSUME RecInv, NEW p \in Page, FlushPage(p) PROVE RecInv'
<1>0. /\ Types /\ LogTypes /\ PageTypes /\ SessTypes /\ Bounds /\ ChkSafe
      /\ ChkTimes /\ AckedLogged /\ WriteAhead /\ Stamps /\ Caught /\ Dirty /\ BufBounds
  BY DEF RecInv, LogInv, PageInv, SessInv, Types
<1>n. durable \in Nat /\ Len(log) \in Nat /\ waypoint \in Nat /\ chk.lgpos \in Nat /\ redo \in Nat
  BY <1>0 DEF LogTypes
<1>1. /\ disk' = [disk EXCEPT ![p] = buf[p].pg] /\ buf' = [buf EXCEPT ![p] = CleanBuf(buf[p].pg)]
      /\ buf[p].modify < Waypoint /\ buf[p].modify < WriteTip
  BY DEF FlushPage, Flushable
<1>2. disk'[p] = buf[p].pg /\ buf'[p] = CleanBuf(buf[p].pg)
  BY <1>0, <1>1 DEF PageTypes
<1>3. \A q \in Page \ {p} : disk'[q] = disk[q] /\ buf'[q] = buf[q]
  BY <1>0, <1>1 DEF PageTypes
<1>4. PageTypes'
  <2>1. DOMAIN disk' = Page /\ DOMAIN buf' = Page
    BY <1>0, <1>1 DEF PageTypes
  <2>2. ASSUME NEW q \in Page PROVE disk'[q] \in PageImage(q) /\ buf'[q] \in BufType(q)
    <3>1. CASE q = p
      <4>1. buf[p].pg \in PageImage(p)
        BY <1>0, OfPage
      <4>2. CleanBuf(buf[p].pg) \in BufType(p)
        BY <4>1, CleanType
      <4> QED
        BY <1>2, <3>1, <4>1, <4>2
    <3>2. CASE q # p
      BY <1>0, <1>3, <3>2 DEF PageTypes
    <3> QED
      BY <3>1, <3>2
  <2> QED
    BY <2>1, <2>2 DEF PageTypes
<1>5. Steady
  BY <1>n, SameStart DEF FlushPage, Steady
<1>6. Types'
  BY <1>0, <1>4, <1>5, SteadyTypes DEF FlushPage, LogTypes
<1>7. Bounds'
  BY <1>0, <1>n DEF Bounds, FlushPage, Idx
<1>8. FlushStep({p})
  <2>1. Advances
    BY <1>5, <1>6, SteadyPlain DEF Plain, Types
  <2>2. \A i \in Idx : ~(Horizon < i /\ i <= Horizon')
    BY <1>0, <1>n, HorizonInLog DEF Steady, Horizon, Idx, FlushPage
  <2>3. ASSUME NEW i \in Idx, i <= buf[p].modify PROVE Survives(i)
    <3>1. buf[p].modify \in Nat /\ i \in Nat
      BY <1>0, <1>n, OfPage DEF Idx
    <3>2. LosesLogs => i < waypoint
      BY <1>1, <1>n, <2>3, <3>1 DEF Waypoint
    <3>3. i <= durable
      <4>1. mode # "redo" => i <= durable
        BY <1>1, <1>n, <2>3, <3>1 DEF WriteTip
      <4>2. mode = "redo" => i <= durable
        BY <1>0, <1>n DEF Bounds, Idx
      <4> QED
        BY <4>1, <4>2
    <3> QED
      BY <3>2, <3>3 DEF Survives
  <2> QED
    BY <1>2, <1>3, <2>1, <2>2, <2>3 DEF FlushStep, FlushPage
<1>9. PagesAfter
  BY <1>0, <1>6, <1>8, FlushedPages DEF PagesAfter
<1>10. ChkTimes' /\ ChkSafe'
  <2>1. \A q \in Page : disk[q].dbtime <= disk'[q].dbtime
    <3>1. \A q \in Page : disk[q].dbtime \in Nat
      BY <1>0, OfPage
    <3>2. disk[p].dbtime <= buf[p].pg.dbtime
      BY <1>0 DEF Stamps
    <3> QED
      BY <1>2, <1>3, <3>1, <3>2
  <2>2. \A i \in Idx' : ~(Len(log) < i)
    BY <1>n DEF Idx, FlushPage
  <2>3. Ext
    BY <1>8 DEF FlushStep, Advances
  <2> QED
    BY <1>0, <1>6, <2>1, <2>2, <2>3, SameChk DEF FlushPage, Types
<1>11. AckedLogged'
  BY <1>0 DEF AckedLogged, FlushPage, Idx
<1> QED
  BY <1>5, <1>6, <1>7, <1>9, <1>10, <1>11, SteadyPlain, PlainKeeps DEF Types

-----------------------------------------------------------------------------
(* Steps that log a record that changes no page *)

Logged(r) ==
    /\ log' = Append(log, r) /\ r \in LRec /\ r.t \notin {"Node", "Undo"}
    /\ mode' # "redo" /\ (mode = "redo" => redo = Len(log)) /\ dbtime' = dbtime
    /\ durable <= durable' /\ waypoint <= waypoint'

\* The log after such a step.
LEMMA LoggedPlain ==
    ASSUME RecInv, LogTypes', NEW r, Logged(r)
    PROVE  /\ Plain /\ InRedo' /\ RedoOpen'
           /\ Len(log') = Len(log) + 1 /\ log'[Len(log) + 1] = r /\ Horizon = Len(log) /\ Horizon' = Len(log) + 1
           /\ \A i \in Idx' : Horizon < i => i = Len(log) + 1
<1>0. LogTypes /\ Bounds
  BY DEF RecInv, LogInv, Types
<1>1. Grows(log, log', 1) /\ log'[Len(log) + 1] = r
  <2>1. log \in Seq(LRec) /\ r \in LRec /\ log' = Append(log, r)
    BY <1>0 DEF LogTypes, Logged
  <2> QED
    BY <2>1, GrowsByOne
<1>n. Len(log) \in Nat /\ Len(log') = Len(log) + 1 /\ dbtime \in Nat
  BY <1>0, <1>1 DEF Grows, LogTypes
<1>2. Horizon = Len(log) /\ Horizon' = Len(log) + 1
  BY <1>n DEF Horizon, Logged
<1>3. Advances
  BY <1>1, <1>2, <1>n DEF Advances, Ext, Grows, Idx, Logged
<1>4. \A i \in Idx' : Horizon < i => i = Len(log) + 1
  BY <1>2, <1>n DEF Idx
<1>5. r.after = 0
  BY DEF Logged, LRec
<1>6. Plain
  <2>1. \A i \in Idx' : Len(log) < i => ~PageRec(i)'
    BY <1>1, <1>2, <1>4 DEF PageRec, Logged
  <2>2. \A i \in Idx' : Horizon < i => log'[i].after <= dbtime'
    BY <1>1, <1>4, <1>5, <1>n DEF Logged
  <2>3. dbtime <= dbtime'
    BY <1>n DEF Logged
  <2> QED
    BY <1>3, <2>1, <2>2, <2>3 DEF Plain
<1>7. InRedo' /\ RedoOpen'
  BY DEF InRedo, RedoOpen, Logged
<1> QED
  BY <1>1, <1>2, <1>4, <1>6, <1>7, <1>n

\* The bounds after it, if the checkpoint stays.
LEMMA LoggedBounds ==
    ASSUME RecInv, LogTypes', NEW r, Logged(r), r.t # "QuitDetach",
           UNCHANGED <<durable, waypoint, chk, ckpt, redo>>
    PROVE  Bounds'
<1>0. LogTypes /\ Bounds
  BY DEF RecInv, LogInv, Types
<1>1. Grows(log, log', 1) /\ log'[Len(log) + 1] = r
  <2>1. log \in Seq(LRec) /\ r \in LRec /\ log' = Append(log, r)
    BY <1>0 DEF LogTypes, Logged
  <2> QED
    BY <2>1, GrowsByOne
<1>n. /\ Len(log) \in Nat /\ Len(log') = Len(log) + 1 /\ durable \in Nat /\ waypoint \in Nat /\ redo \in Nat
      /\ chk.lgpos \in Nat /\ ckpt.lgpos \in Nat
  BY <1>0, <1>1 DEF Grows, LogTypes
<1>2. ASSUME NEW i \in Idx', log'[i].t = "QuitDetach" PROVE i <= waypoint
  <2>1. CASE i \in Idx
    BY <1>0, <1>1, <1>2, <2>1 DEF Bounds, Grows, Idx
  <2>2. CASE i \notin Idx
    <3>1. i = Len(log) + 1
      BY <1>n, <2>2 DEF Idx
    <3> QED
      BY <1>1, <1>2, <3>1
  <2> QED
    BY <2>1, <2>2
<1>3. durable' = durable /\ waypoint' = waypoint /\ chk' = chk /\ ckpt' = ckpt /\ redo' = redo /\ mode' # "redo"
  BY DEF Logged
<1>4. /\ 1 <= waypoint /\ waypoint <= durable + 1 /\ durable <= Len(log') /\ redo <= Len(log')
      /\ 1 <= chk.lgpos /\ chk.lgpos <= durable + 1 /\ (LosesLogs => chk.lgpos <= waypoint)
      /\ ckpt.lgpos <= durable + 1
  BY <1>0, <1>n DEF Bounds
<1> QED
  BY <1>2, <1>3, <1>4 DEF Bounds

\* The pages after it, if only positions change.
LEMMA LoggedQuiet ==
    ASSUME RecInv, LogTypes', NEW r, Logged(r), disk' = disk,
           \A p \in Page : BufKept(p) /\ (buf'[p].modify = buf[p].modify \/ buf'[p].modify <= Len(log) + 1)
    PROVE  Quiet
<1>0. Types /\ LogTypes /\ PageTypes /\ Bounds /\ BufBounds
  BY DEF RecInv, LogInv, PageInv, Types
<1>1. /\ Plain /\ Len(log') = Len(log) + 1 /\ log'[Len(log) + 1] = r /\ Horizon = Len(log) /\ Horizon' = Len(log) + 1
      /\ \A i \in Idx' : Horizon < i => i = Len(log) + 1
  BY LoggedPlain
<1>n. Len(log) \in Nat
  BY <1>0 DEF LogTypes
<1>2. \A p \in Page : buf'[p].modify <= Horizon'
  <2>1. \A p \in Page : buf[p].modify \in Nat /\ buf[p].modify <= Len(log)
    BY <1>0, <1>1, OfPage DEF BufBounds
  <2> QED
    BY <1>1, <1>n, <2>1
<1>3. \A p \in Page : \A i \in Idx' : Horizon < i => ~On(p, i)'
  BY <1>1 DEF On, PageRec, Logged
<1> QED
  BY <1>1, <1>2, <1>3 DEF Quiet, Plain

\* A session that no such record concerns.
LEMMA LoggedElse ==
    ASSUME RecInv, LogTypes', NEW r, Logged(r), chk' = chk, ckpt' = ckpt, NEW S \in SUBSET Session,
           \A v \in Session \ S : sess'[v] = sess[v] /\ (r.s # v \/ r.t \notin {"Begin0", "Commit0", "Rollback"}),
           r.t \notin {"QuitKeep", "QuitDetach"}
    PROVE  Elsewhere(S)
<1>1. /\ log'[Len(log) + 1] = r /\ \A i \in Idx' : Horizon < i => i = Len(log) + 1
  BY LoggedPlain
<1> SUFFICES ASSUME NEW v \in Session \ S
             PROVE  /\ SessKept(v) /\ (Open(v)' <=> Open(v)) /\ sess'[v].afterBT = sess[v].afterBT
                    /\ \A i \in Idx' : Horizon < i /\ i <= Horizon' => ~Cuts(i, v)'
                    /\ Open(v) => chk'.lgpos <= sess[v].start /\ (ckpt'.pc = "pages" => ckpt'.lgpos <= sess[v].start)
  BY DEF Elsewhere
<1>2. SessKept(v) /\ (Open(v)' <=> Open(v)) /\ sess'[v].afterBT = sess[v].afterBT
  BY DEF SessKept, Open
<1>3. \A i \in Idx' : Horizon < i => ~Cuts(i, v)'
  BY <1>1 DEF Cuts
<1>4. Open(v) => chk'.lgpos <= sess[v].start /\ (ckpt'.pc = "pages" => ckpt'.lgpos <= sess[v].start)
  BY SameStart
<1> QED
  BY <1>2, <1>3, <1>4

\* Two fields of a session change.
LEMMA CommittingSess ==
    ASSUME SessTypes, NEW s \in Session, NEW k \in Nat,
           sess' = [sess EXCEPT ![s].st = "committing", ![s].commit = k]
    PROVE  /\ SessTypes' /\ sess'[s].st = "committing" /\ sess'[s].commit = k /\ sess'[s].start = sess[s].start
           /\ \A v \in Session : v # s => sess'[v] = sess[v]
<1>0. sess \in [Session -> SessType]
  BY DEF SessTypes
<1>1. /\ sess[s] = [st |-> sess[s].st, start |-> sess[s].start, commit |-> sess[s].commit,
                    rces |-> sess[s].rces, afterBT |-> sess[s].afterBT, deferred |-> sess[s].deferred]
      /\ sess[s].start \in Nat /\ sess[s].rces \subseteq RCE /\ sess[s].afterBT \in BOOLEAN /\ sess[s].deferred \subseteq Nat
  BY OfSess
<1>2. PICK u : u = [st |-> "committing", start |-> sess[s].start, commit |-> k,
                    rces |-> sess[s].rces, afterBT |-> sess[s].afterBT, deferred |-> sess[s].deferred]
  OBVIOUS
<1>3. u \in SessType /\ u.rces = sess[s].rces /\ u.st = "committing" /\ u.commit = k /\ u.start = sess[s].start
  BY <1>1, <1>2 DEF SessType
<1>4. sess' = [sess EXCEPT ![s] = u]
  <2>1. PICK s1 : s1 = [sess EXCEPT ![s].st = "committing"]
    OBVIOUS
  <2>2. PICK u1 : u1 = [sess[s] EXCEPT !.st = "committing"]
    OBVIOUS
  <2>3. u1 = [st |-> "committing", start |-> sess[s].start, commit |-> sess[s].commit,
              rces |-> sess[s].rces, afterBT |-> sess[s].afterBT, deferred |-> sess[s].deferred]
    BY <1>1, <2>2
  <2>4. s1 = [sess EXCEPT ![s] = u1]
    BY <2>1, <2>2
  <2>5. sess' = [s1 EXCEPT ![s].commit = k]
    BY <2>1
  <2>6. s1[s] = u1
    BY <1>0, <2>4
  <2>7. [u1 EXCEPT !.commit = k] = u
    BY <1>2, <2>3
  <2>8. sess' = [s1 EXCEPT ![s] = u]
    BY <2>5, <2>6, <2>7
  <2> QED
    BY <1>0, <2>4, <2>8
<1>5. PICK top \in Nat : \A r \in sess[s].rces : r.id <= top
  BY DEF SessTypes
<1>6. SessTypes'
  BY <1>3, <1>4, <1>5, SessSet
<1>7. sess'[s] = u /\ \A v \in Session : v # s => sess'[v] = sess[v]
  BY <1>0, <1>4
<1> QED
  BY <1>3, <1>6, <1>7

\* LogCommit.
LEMMA LogCommitKeeps == ASSUME RecInv, NEW s \in Session, LogCommit(s) PROVE RecInv'
<1>0. Types /\ LogTypes /\ PageTypes /\ SessTypes /\ Bounds /\ Commits
  BY DEF RecInv, LogInv, PageInv, SessInv, Types
<1>n. Len(log) \in Nat /\ durable \in Nat /\ waypoint \in Nat /\ sess[s].start \in Nat /\ s \in Nat
  <2>1. sess[s].start \in Nat
    BY <1>0, OfSess
  <2> QED
    BY <1>0, <2>1, Constants DEF LogTypes
<1>1. PICK r : r = Rec("Commit0", s, sess[s].start)
  OBVIOUS
<1>2. r \in LRec /\ r.t = "Commit0" /\ r.s = s /\ r.trx = sess[s].start
  BY <1>n, <1>1, RecIsRec
<1>3. Logged(r)
  BY <1>1, <1>2, <1>n DEF LogCommit, Logged
<1>4. /\ SessTypes' /\ sess'[s].st = "committing" /\ sess'[s].commit = Len(log) + 1 /\ sess'[s].start = sess[s].start
      /\ \A v \in Session : v # s => sess'[v] = sess[v]
  <2>1. PICK k \in Nat : k = Len(log) + 1
    BY <1>n
  <2>2. sess' = [sess EXCEPT ![s].st = "committing", ![s].commit = k]
    BY <2>1 DEF LogCommit
  <2> QED
    BY <1>0, <2>1, <2>2, CommittingSess
<1>5. Types'
  <2>1. log' \in Seq(LRec)
    BY <1>0, <1>3, GrowsByOne DEF Logged, Grows, LogTypes
  <2>2. LogTypes'
    BY <1>0, <2>1 DEF LogTypes, LogCommit
  <2>3. PageTypes'
    BY <1>0 DEF PageTypes, LogCommit
  <2> QED
    BY <1>4, <2>2, <2>3 DEF Types
<1>6. Bounds'
  BY <1>2, <1>3, <1>5, LoggedBounds DEF LogCommit, Types
<1>7. Quiet
  <2>1. \A p \in Page : buf[p].modify \in Nat
    BY <1>0, OfPage
  <2>2. \A p \in Page : BufKept(p) /\ buf'[p].modify = buf[p].modify
    BY <2>1 DEF BufKept, LogCommit
  <2> QED
    BY <1>3, <1>5, <2>2, LoggedQuiet DEF LogCommit, Types
<1>8. Elsewhere({s})
  BY <1>2, <1>3, <1>4, <1>5, LoggedElse DEF LogCommit, Types
<1>9. /\ Plain /\ InRedo' /\ RedoOpen' /\ Len(log') = Len(log) + 1 /\ log'[Len(log) + 1] = r
  BY <1>3, <1>5, LoggedPlain DEF Types
<1>10. Here({s})
  <2>1. ~Open(s)'
    BY <1>4 DEF Open
  <2>2. sess[s].start <= Len(log)
    BY <1>0 DEF Commits
  <2>3. Len(log) + 1 \in Idx'
    BY <1>9, <1>n DEF Idx
  <2> QED
    BY <1>2, <1>4, <1>9, <1>n, <2>1, <2>2, <2>3 DEF Here
<1> QED
  BY <1>5, <1>6, <1>7, <1>8, <1>9, <1>10, RoutineKeeps DEF LogCommit

\* Nothing happens to the log.
LEMMA StillPlain ==
    ASSUME RecInv, LogTypes', UNCHANGED <<mode, log, redo, dbtime, durable, waypoint>>
    PROVE  Plain /\ Horizon' = Horizon /\ \A i \in Idx' : ~(Horizon < i /\ i <= Horizon')
<1>0. LogTypes /\ Bounds
  BY DEF RecInv, LogInv, Types
<1>n. /\ Horizon \in Nat /\ Len(log) \in Nat /\ dbtime \in Nat /\ Horizon' = Horizon /\ durable \in Nat /\ waypoint \in Nat
  BY <1>0, HorizonInLog DEF Horizon, LogTypes
<1>1. Advances
  BY <1>n DEF Advances, Ext
<1>2. \A i \in Idx' : i \in Nat /\ ~(Len(log) < i) /\ ~(Horizon < i /\ i <= Horizon')
  BY <1>n DEF Idx
<1> QED
  BY <1>1, <1>2, <1>n DEF Plain

\* Nor to the pages.
LEMMA StillQuiet ==
    ASSUME RecInv, LogTypes', UNCHANGED <<mode, log, redo, dbtime, durable, waypoint, disk>>,
           \A p \in Page : BufKept(p) /\ (buf'[p].modify = buf[p].modify \/ buf'[p].modify <= Horizon)
    PROVE  Quiet
<1>0. Types /\ LogTypes /\ PageTypes /\ Bounds /\ BufBounds
  BY DEF RecInv, LogInv, PageInv, Types
<1>1. Plain /\ Horizon' = Horizon /\ \A i \in Idx' : ~(Horizon < i /\ i <= Horizon')
  BY StillPlain
<1>2. \A p \in Page : buf'[p].modify <= Horizon'
  BY <1>0, <1>1 DEF BufBounds
<1> QED
  BY <1>1, <1>2 DEF Quiet, Plain

\* A session that such a step leaves alone.
LEMMA StillElse ==
    ASSUME RecInv, LogTypes', UNCHANGED <<mode, log, redo, dbtime, durable, waypoint, chk, ckpt>>,
           NEW S \in SUBSET Session, \A v \in Session \ S : sess'[v] = sess[v]
    PROVE  Elsewhere(S)
<1>1. \A i \in Idx' : ~(Horizon < i /\ i <= Horizon')
  BY StillPlain
<1> SUFFICES ASSUME NEW v \in Session \ S
             PROVE  /\ SessKept(v) /\ (Open(v)' <=> Open(v)) /\ sess'[v].afterBT = sess[v].afterBT
                    /\ \A i \in Idx' : Horizon < i /\ i <= Horizon' => ~Cuts(i, v)'
                    /\ Open(v) => chk'.lgpos <= sess[v].start /\ (ckpt'.pc = "pages" => ckpt'.lgpos <= sess[v].start)
  BY DEF Elsewhere
<1>2. SessKept(v) /\ (Open(v)' <=> Open(v)) /\ sess'[v].afterBT = sess[v].afterBT
  BY DEF SessKept, Open
<1>4. Open(v) => chk'.lgpos <= sess[v].start /\ (ckpt'.pc = "pages" => ckpt'.lgpos <= sess[v].start)
  BY SameStart
<1> QED
  BY <1>1, <1>2, <1>4

\* EndCommit.
LEMMA EndCommitKeeps == ASSUME RecInv, NEW s \in Session, NEW lazy \in BOOLEAN, EndCommit(s, lazy) PROVE RecInv'
<1>0. /\ Types /\ LogTypes /\ PageTypes /\ SessTypes /\ Bounds /\ Commits /\ AckedLogged /\ InRedo /\ RedoOpen
      /\ ChkTimes /\ ChkSafe /\ WriteAhead /\ Stamps /\ Caught /\ Dirty /\ BufBounds
  BY DEF RecInv, LogInv, PageInv, SessInv, Types
<1>n. Len(log) \in Nat /\ durable \in Nat /\ waypoint \in Nat
  BY <1>0 DEF LogTypes
<1>1. PICK c \in Nat : c = sess[s].commit /\ c \in Idx /\ log[c].t = "Commit0" /\ log[c].trx = sess[s].start
  BY <1>0, OfSess DEF Commits, EndCommit
<1>2. mode # "redo" /\ c <= Horizon
  BY <1>0, <1>1, <1>n DEF RedoOpen, EndCommit, Horizon, Idx
<1>3. buf' = CommittedBufs(s, c) /\ sess' = [sess EXCEPT ![s] = NewSession]
  BY <1>1 DEF EndCommit
<1>4. /\ UNCHANGED <<mode, log, redo, dbtime, durable, waypoint, disk, chk, ckpt>>
      /\ acked' = IF lazy THEN acked ELSE acked \cup {sess[s].start}
      /\ IF lazy THEN LazyAllowed ELSE durable >= c
  BY <1>1 DEF EndCommit
<1>5. ASSUME NEW p \in Page
      PROVE  /\ buf'[p] \in BufType(p) /\ BufKept(p) /\ (buf'[p].modify = buf[p].modify \/ buf'[p].modify <= Horizon)
  <2>1. /\ buf'[p] \in BufType(p) /\ buf'[p].pg = buf[p].pg /\ buf'[p].dirty = buf[p].dirty /\ buf'[p].begin0 = buf[p].begin0
        /\ buf'[p].modify \in {buf[p].modify, Later(buf[p].modify, c)}
    BY <1>0, <1>3, CommittedType
  <2>2. buf[p].modify \in Nat /\ buf[p].modify <= Horizon
    BY <1>0, OfPage DEF BufBounds
  <2> QED
    BY <1>1, <1>2, <2>1, <2>2 DEF BufKept, Later
<1>6. Types'
  <2>1. LogTypes'
    BY <1>0, <1>4 DEF LogTypes
  <2>2. PageTypes'
    <3>1. DOMAIN buf' = Page
      BY <1>3 DEF CommittedBufs
    <3> QED
      BY <1>0, <1>4, <1>5, <3>1 DEF PageTypes
  <2>3. SessTypes'
    <3>1. NewSession \in SessType /\ NewSession.rces = {}
      BY NewSessType
    <3>2. \A r \in NewSession.rces : r.id <= 0
      BY <3>1
    <3> QED
      BY <1>0, <1>3, <3>1, <3>2, SessSet
  <2> QED
    BY <2>1, <2>2, <2>3 DEF Types
<1>7. sess'[s] = NewSession /\ \A v \in Session \ {s} : sess'[v] = sess[v]
  BY <1>0, <1>3 DEF SessTypes
<1>8. sess'[s].st = "idle" /\ sess'[s].start = 0
  BY <1>7, NewSessType
<1>9. Bounds'
  BY <1>0, <1>4 DEF Bounds, Idx
<1>10. Plain /\ Elsewhere({s})
  BY <1>4, <1>6, <1>7, StillPlain, StillElse DEF Types
<1>11. Here({s})
  BY <1>4, <1>8, <1>n DEF Here, Open
<1>12. PagesAfter /\ ChkTimes' /\ ChkSafe'
  <2>1. Quiet
    BY <1>4, <1>5, <1>6, StillQuiet DEF Types
  <2>2. PagesAfter
    BY <1>0, <1>6, <2>1, QuietPages DEF PagesAfter
  <2>3. ChkTimes' /\ ChkSafe'
    BY <1>0, <1>4 DEF ChkTimes, ChkSafe, Idx, On, PageRec
  <2> QED
    BY <2>2, <2>3
<1>13. InRedo' /\ RedoOpen'
  BY <1>2, <1>4 DEF InRedo, RedoOpen
<1>14. AckedLogged'
  <2> SUFFICES ASSUME ~LosesLogs, NEW trx \in acked'
               PROVE  \E i \in Idx : i <= durable /\ log[i].t = "Commit0" /\ log[i].trx = trx
    BY <1>4 DEF AckedLogged, Idx
  <2>1. CASE trx \in acked
    BY <1>0, <2>1 DEF AckedLogged
  <2>2. CASE trx \notin acked
    BY <1>1, <1>4, <1>n, <2>2
  <2> QED
    BY <2>1, <2>2
<1> QED
  BY <1>6, <1>9, <1>10, <1>11, <1>12, <1>13, <1>14, PlainKeeps

\* Rollback.
LEMMA RollbackKeeps == ASSUME RecInv, NEW s \in Session, Rollback(s) PROVE RecInv'
<1>0. Types /\ LogTypes /\ PageTypes /\ SessTypes /\ Bounds
  BY DEF RecInv, LogInv, PageInv, SessInv, Types
<1>1. /\ UNCHANGED <<mode, log, redo, dbtime, durable, waypoint, disk, buf, chk, ckpt, acked>> /\ mode # "redo"
      /\ sess[s].st = "open" /\ sess' = [sess EXCEPT ![s].st = "rolling"]
  BY DEF Rollback
<1>2. PICK u : u = [sess[s] EXCEPT !.st = "rolling"]
  OBVIOUS
<1>3. /\ u \in SessType /\ u.st = "rolling" /\ u.start = sess[s].start /\ u.afterBT = sess[s].afterBT
      /\ u.rces = sess[s].rces
  <2>1. sess[s] \in SessType
    BY <1>0, OfSess
  <2> QED
    BY <1>2, <2>1 DEF SessType
<1>4. sess' = [sess EXCEPT ![s] = u]
  BY <1>1, <1>2
<1>5. SessTypes'
  <2>1. PICK top \in Nat : \A r \in sess[s].rces : r.id <= top
    BY <1>0 DEF SessTypes
  <2> QED
    BY <1>0, <1>3, <1>4, <2>1, SessSet
<1>6. sess'[s] = u /\ \A v \in Session \ {s} : sess'[v] = sess[v]
  BY <1>0, <1>4 DEF SessTypes
<1>7. Types'
  BY <1>0, <1>1, <1>5 DEF Types, LogTypes, PageTypes
<1>8. Bounds'
  BY <1>0, <1>1 DEF Bounds, Idx
<1>9. Plain /\ Quiet /\ Elsewhere({s})
  <2>1. \A p \in Page : buf[p].modify \in Nat
    BY <1>0, OfPage
  <2>2. \A p \in Page : BufKept(p) /\ buf'[p].modify = buf[p].modify
    BY <1>1, <2>1 DEF BufKept
  <2> QED
    BY <1>1, <1>6, <1>7, <2>2, StillPlain, StillQuiet, StillElse DEF Types
<1>10. Here({s})
  <2>1. Open(s) /\ chk'.lgpos <= sess[s].start /\ (ckpt'.pc = "pages" => ckpt'.lgpos <= sess[s].start)
    BY <1>1, SameStart DEF Open
  <2>2. sess'[s].start = sess[s].start /\ sess'[s].st = "rolling"
    BY <1>3, <1>6
  <2>3. \A i \in Idx' : ~(Horizon < i /\ i <= Horizon')
    BY <1>1, <1>7, StillPlain DEF Types
  <2>4. OpenAfter(s)
    BY <1>0, <1>7, <1>9, <2>1, <2>2, <2>3, OpenKept DEF Types, Plain, RecInv, SessInv
  <2>5. sess[s].start <= Len(log')
    BY <1>1 DEF RecInv, SessInv, Commits
  <2> QED
    BY <2>2, <2>4, <2>5 DEF Here
<1>11. InRedo' /\ RedoOpen'
  BY <1>1 DEF InRedo, RedoOpen
<1> QED
  BY <1>1, <1>7, <1>8, <1>9, <1>10, <1>11, RoutineKeeps

\* EndRollback.
LEMMA EndRollbackKeeps == ASSUME RecInv, NEW s \in Session, EndRollback(s) PROVE RecInv'
<1>0. Types /\ LogTypes /\ PageTypes /\ SessTypes /\ Bounds
  BY DEF RecInv, LogInv, Types
<1>n. Len(log) \in Nat /\ durable \in Nat /\ waypoint \in Nat /\ sess[s].start \in Nat /\ s \in Nat
  <2>1. sess[s].start \in Nat
    BY <1>0, OfSess
  <2> QED
    BY <1>0, <2>1, Constants DEF LogTypes
<1>1. PICK r : r = Rec("Rollback", s, sess[s].start)
  OBVIOUS
<1>2. r \in LRec /\ r.t = "Rollback" /\ r.s = s
  BY <1>n, <1>1, RecIsRec
<1>3. Logged(r)
  BY <1>1, <1>2, <1>n DEF EndRollback, Logged
<1>4. sess' = [sess EXCEPT ![s] = NewSession]
  BY DEF EndRollback
<1>5. sess'[s] = NewSession /\ \A v \in Session \ {s} : sess'[v] = sess[v]
  BY <1>0, <1>4 DEF SessTypes
<1>6. sess'[s].st = "idle" /\ sess'[s].start = 0
  BY <1>5, NewSessType
<1>7. Types'
  <2>1. log' \in Seq(LRec)
    BY <1>0, <1>3, GrowsByOne DEF Logged, Grows, LogTypes
  <2>2. LogTypes'
    BY <1>0, <2>1 DEF LogTypes, EndRollback
  <2>3. PageTypes'
    BY <1>0 DEF PageTypes, EndRollback
  <2>4. SessTypes'
    <3>1. NewSession \in SessType /\ NewSession.rces = {}
      BY NewSessType
    <3>2. \A q \in NewSession.rces : q.id <= 0
      BY <3>1
    <3> QED
      BY <1>0, <1>4, <3>1, <3>2, SessSet
  <2> QED
    BY <2>2, <2>3, <2>4 DEF Types
<1>8. Bounds'
  BY <1>2, <1>3, <1>7, LoggedBounds DEF EndRollback, Types
<1>9. Quiet
  <2>1. \A p \in Page : buf[p].modify \in Nat
    BY <1>0, OfPage
  <2>2. \A p \in Page : BufKept(p) /\ buf'[p].modify = buf[p].modify
    BY <2>1 DEF BufKept, EndRollback
  <2> QED
    BY <1>3, <1>7, <2>2, LoggedQuiet DEF EndRollback, Types
<1>10. Elsewhere({s})
  BY <1>2, <1>3, <1>5, <1>7, LoggedElse DEF EndRollback, Types
<1>11. Plain /\ InRedo' /\ RedoOpen' /\ Len(log') = Len(log) + 1
  BY <1>3, <1>7, LoggedPlain DEF Types
<1>12. Here({s})
  BY <1>6, <1>11, <1>n DEF Here, Open
<1> QED
  BY <1>7, <1>8, <1>9, <1>10, <1>11, <1>12, RoutineKeeps DEF EndRollback

\* LogUndoInfo.
LEMMA LogUndoInfoKeeps == ASSUME RecInv, NEW p \in Page, LogUndoInfo(p) PROVE RecInv'
<1>0. Types /\ LogTypes /\ PageTypes /\ SessTypes /\ Bounds /\ BufBounds
  BY DEF RecInv, LogInv, PageInv, Types
<1>1. PICK s \in Session : \E rce \in sess[s].rces :
        /\ mode \in {"run", "undo"}
        /\ log' = Append(log, NodeRec("UndoInfo", s, sess[s].start, rce, rce.before, 0, 0))
        /\ buf' = [buf EXCEPT ![p] = WithoutUndoInfo(@, rce.id, Len(log) + 1)]
        /\ UNCHANGED <<mode, durable, waypoint, disk, sess, dbtime, chk, ckpt, redo, acked>>
  BY DEF LogUndoInfo
<1>2. PICK rce \in sess[s].rces :
        /\ mode \in {"run", "undo"}
        /\ log' = Append(log, NodeRec("UndoInfo", s, sess[s].start, rce, rce.before, 0, 0))
        /\ buf' = [buf EXCEPT ![p] = WithoutUndoInfo(@, rce.id, Len(log) + 1)]
        /\ UNCHANGED <<mode, durable, waypoint, disk, sess, dbtime, chk, ckpt, redo, acked>>
  BY <1>1
<1>n. Len(log) \in Nat /\ durable \in Nat /\ waypoint \in Nat /\ sess[s].start \in Nat /\ rce \in RCE /\ rce.before \in Value
  <2>1. sess[s].start \in Nat /\ rce \in RCE
    BY <1>0, OfSess
  <2> QED
    BY <1>0, <2>1 DEF LogTypes, RCE, Value
<1>3. PICK r : r = NodeRec("UndoInfo", s, sess[s].start, rce, rce.before, 0, 0)
  OBVIOUS
<1>4. r \in LRec /\ r.t = "UndoInfo"
  BY <1>n, <1>3, NodeRecIsRec DEF NodeType
<1>5. Logged(r)
  BY <1>2, <1>3, <1>4, <1>n DEF Logged
<1>6. PICK b : b = WithoutUndoInfo(buf[p], rce.id, Len(log) + 1)
  OBVIOUS
<1>7. /\ b \in BufType(p) /\ b.pg = buf[p].pg /\ b.dirty = buf[p].dirty /\ b.begin0 = buf[p].begin0
      /\ b.modify = Later(buf[p].modify, Len(log) + 1)
  <2>1. buf[p] \in BufType(p)
    BY <1>0, OfPage
  <2>2. Len(log) + 1 \in Nat
    BY <1>n
  <2> QED
    BY <1>6, <2>1, <2>2, WithoutType
<1>8. PageTypes' /\ buf'[p] = b /\ \A q \in Page \ {p} : buf'[q] = buf[q]
  <2>1. buf' = [buf EXCEPT ![p] = b]
    BY <1>2, <1>6
  <2> QED
    BY <1>0, <1>2, <1>7, <2>1, BufSet
<1>9. Types'
  <2>1. log' \in Seq(LRec)
    BY <1>0, <1>5, GrowsByOne DEF Logged, Grows, LogTypes
  <2>2. LogTypes'
    BY <1>0, <1>2, <2>1 DEF LogTypes
  <2>3. SessTypes'
    BY <1>0, <1>2 DEF SessTypes
  <2> QED
    BY <1>8, <2>2, <2>3 DEF Types
<1>10. Bounds'
  BY <1>2, <1>4, <1>5, <1>9, LoggedBounds DEF Types
<1>11. Quiet
  <2>1. ASSUME NEW q \in Page
        PROVE  BufKept(q) /\ (buf'[q].modify = buf[q].modify \/ buf'[q].modify <= Len(log) + 1)
    <3>1. buf[q].modify \in Nat /\ buf[q].modify <= Len(log)
      BY <1>0, <1>2, <1>n, OfPage DEF BufBounds, Horizon
    <3>2. CASE q = p
      BY <1>7, <1>8, <1>n, <3>1, <3>2 DEF BufKept, Later
    <3>3. CASE q # p
      BY <1>8, <3>1, <3>3 DEF BufKept
    <3> QED
      BY <3>2, <3>3
  <2> QED
    BY <1>2, <1>5, <1>9, <2>1, LoggedQuiet DEF Types
<1>12. Elsewhere({}) /\ Here({})
  <2>1. Elsewhere({})
    BY <1>2, <1>4, <1>5, <1>9, LoggedElse DEF Types
  <2> QED
    BY <2>1 DEF Here
<1>13. Plain /\ InRedo' /\ RedoOpen'
  BY <1>5, <1>9, LoggedPlain DEF Types
<1> QED
  BY <1>2, <1>9, <1>10, <1>11, <1>12, <1>13, RoutineKeeps

\* BeginUndo.
LEMMA BeginUndoKeeps == ASSUME RecInv, BeginUndo PROVE RecInv'
<1>0. Types /\ LogTypes /\ PageTypes /\ SessTypes /\ Bounds
  BY DEF RecInv, LogInv, Types
<1>n. Len(log) \in Nat /\ durable \in Nat /\ waypoint \in Nat
  BY <1>0 DEF LogTypes
<1>1. PICK r : r = Rec("RecoveryUndo", 0, 0)
  OBVIOUS
<1>2. r \in LRec /\ r.t = "RecoveryUndo"
  BY <1>1, RecIsRec
<1>3. Logged(r)
  BY <1>1, <1>2, <1>n DEF BeginUndo, Logged
<1>4. Types'
  <2>1. log' \in Seq(LRec)
    BY <1>0, <1>3, GrowsByOne DEF Logged, Grows, LogTypes
  <2>2. LogTypes'
    BY <1>0, <2>1 DEF LogTypes, BeginUndo
  <2>3. PageTypes' /\ SessTypes'
    BY <1>0 DEF PageTypes, SessTypes, BeginUndo
  <2> QED
    BY <2>2, <2>3 DEF Types
<1>5. Bounds'
  BY <1>2, <1>3, <1>4, LoggedBounds DEF BeginUndo, Types
<1>6. Quiet
  <2>1. \A p \in Page : buf[p].modify \in Nat
    BY <1>0, OfPage
  <2>2. \A p \in Page : BufKept(p) /\ buf'[p].modify = buf[p].modify
    BY <2>1 DEF BufKept, BeginUndo
  <2> QED
    BY <1>3, <1>4, <2>2, LoggedQuiet DEF BeginUndo, Types
<1>7. Elsewhere({}) /\ Here({})
  <2>1. Elsewhere({})
    BY <1>2, <1>3, <1>4, LoggedElse DEF BeginUndo, Types
  <2> QED
    BY <2>1 DEF Here
<1>8. Plain /\ InRedo' /\ RedoOpen'
  BY <1>3, <1>4, LoggedPlain DEF Types
<1> QED
  BY <1>4, <1>5, <1>6, <1>7, <1>8, RoutineKeeps DEF BeginUndo

\* RecoveryQuit: no session is left, and every page is as the log has it.
LEMMA QuitKeeps == ASSUME RecInv, RecoveryQuitKeep \/ RecoveryQuitDetach PROVE RecInv'
<1>0. /\ Types /\ LogTypes /\ PageTypes /\ SessTypes /\ Bounds /\ Commits /\ AckedLogged /\ SeenTimes
      /\ ChkTimes /\ ChkSafe /\ WriteAhead /\ Stamps /\ Caught /\ Dirty /\ BufBounds
  BY DEF RecInv, LogInv, PageInv, SessInv, Types
<1>n. /\ Len(log) \in Nat /\ durable \in Nat /\ waypoint \in Nat /\ redo \in Nat /\ dbtime \in Nat
      /\ chk.lgpos \in Nat /\ ckpt.lgpos \in Nat
  BY <1>0 DEF LogTypes
<1>1. /\ RecoveryQuitKeep => log' = Append(log, Rec("QuitKeep", 0, 0))
      /\ RecoveryQuitDetach => log' = Append(log, Rec("QuitDetach", 0, 0))
  BY DEF RecoveryQuitKeep, RecoveryQuitDetach
<1>b. PICK r1 : /\ log' = Append(log, r1)
                /\ \/ RecoveryQuitKeep /\ r1 = Rec("QuitKeep", 0, 0)
                   \/ RecoveryQuitDetach /\ r1 = Rec("QuitDetach", 0, 0)
  BY <1>1, Zenon
<1>2. r1 \in LRec /\ r1.t \in {"QuitKeep", "QuitDetach"} /\ (r1.t = "QuitKeep" => RecoveryQuitKeep)
  BY <1>b, RecIsRec
<1>3. /\ mode = "undo" /\ mode' = "run" /\ \A s \in Session : sess[s].st = "idle"
      /\ UNCHANGED <<disk, buf, sess, dbtime, ckpt, redo, acked>>
  BY DEF RecoveryQuitKeep, RecoveryQuitDetach
<1>4. /\ RecoveryQuitKeep => durable' = durable /\ waypoint' = waypoint /\ chk' = chk
      /\ RecoveryQuitDetach => /\ durable' = Len(log) + 1 /\ waypoint' = Later(waypoint, Len(log) + 1)
                               /\ chk' = [lgpos |-> Len(log) + 1, dbtime |-> dbtime]
                               /\ chk'.lgpos = Len(log) + 1 /\ chk'.dbtime = dbtime
                               /\ \A p \in Page : ~buf[p].dirty
  BY DEF RecoveryQuitKeep, RecoveryQuitDetach
<1>5. durable' \in Nat /\ waypoint' \in Nat /\ chk' \in [lgpos : Nat, dbtime : Nat] /\ durable <= durable' /\ waypoint <= waypoint'
  BY <1>0, <1>4, <1>n DEF Later, LogTypes, Bounds
<1>6. Logged(r1)
  BY <1>b, <1>2, <1>3, <1>5 DEF Logged
<1>7. Types'
  <2>1. log' \in Seq(LRec)
    BY <1>0, <1>6, GrowsByOne DEF Logged, Grows, LogTypes
  <2>2. LogTypes'
    BY <1>0, <1>3, <1>5, <2>1 DEF LogTypes
  <2>3. PageTypes' /\ SessTypes'
    BY <1>0, <1>3 DEF PageTypes, SessTypes
  <2> QED
    BY <2>2, <2>3 DEF Types
<1>8. /\ Plain /\ InRedo' /\ RedoOpen' /\ Len(log') = Len(log) + 1 /\ log'[Len(log) + 1] = r1
      /\ Horizon = Len(log) /\ Horizon' = Len(log) + 1 /\ \A i \in Idx' : Horizon < i => i = Len(log) + 1
  BY <1>6, <1>7, LoggedPlain DEF Types
<1>9. /\ \A i \in Idx : i \in Idx' /\ log'[i] = log[i]
      /\ \A i \in Idx' : i \in Idx \/ i = Len(log) + 1
  BY <1>8, <1>n DEF Plain, Advances, Ext, Idx
<1>10. Bounds'
  <2>1. CASE r1.t = "QuitKeep"
    BY <1>2, <1>3, <1>4, <1>6, <1>7, <2>1, LoggedBounds DEF Types
  <2>2. CASE r1.t # "QuitKeep"
    <3>1. RecoveryQuitDetach
      BY <1>b, <1>2, <2>2, RecIsRec
    <3>2. waypoint' = Len(log) + 1
      BY <1>0, <1>4, <1>n, <3>1 DEF Later, Bounds
    <3>3. \A i \in Idx' : i <= Len(log) + 1
      BY <1>8, <1>n DEF Idx
    <3>4. durable' = Len(log) + 1 /\ chk'.lgpos = Len(log) + 1
      BY <1>4, <3>1
    <3>5. ckpt'.lgpos <= Len(log) + 2 /\ redo' <= Len(log) + 1
      BY <1>0, <1>3, <1>n DEF Bounds
    <3> QED
      BY <1>3, <1>8, <1>n, <3>2, <3>3, <3>4, <3>5 DEF Bounds
  <2> QED
    BY <2>1, <2>2
<1>11. Elsewhere(Session) /\ Here(Session)
  <2>1. \A v \in Session : ~Open(v)' /\ sess'[v].st # "committing"
    BY <1>3 DEF Open
  <2>2. \A v \in Session : sess'[v].start <= Len(log')
    <3>1. \A v \in Session : sess[v].start \in Nat /\ sess[v].start <= Len(log)
      BY <1>0, OfSess DEF Commits
    <3> QED
      BY <1>3, <1>8, <1>n, <3>1
  <2> QED
    BY <2>1, <2>2 DEF Elsewhere, Here
<1>12. PagesAfter
  <2>1. \A p \in Page : buf[p].modify \in Nat
    BY <1>0, OfPage
  <2>2. \A p \in Page : BufKept(p) /\ buf'[p].modify = buf[p].modify
    BY <1>3, <2>1 DEF BufKept
  <2>3. Quiet
    BY <1>3, <1>6, <1>7, <2>2, LoggedQuiet DEF Types
  <2> QED
    BY <1>0, <1>7, <2>3, QuietPages DEF PagesAfter
<1>13. AckedLogged'
  BY <1>0, <1>3, <1>7, <1>8, SameAcked DEF Types, Plain, Advances
<1>14. ChkTimes' /\ ChkSafe'
  <2>1. CASE chk' = chk
    <3>1. \A p \in Page : disk[p].dbtime <= disk'[p].dbtime
      BY <1>0, <1>3, OfPage
    <3> QED
      BY <1>0, <1>7, <1>8, <2>1, <3>1, SameChk DEF Types, Plain, Advances
  <2>2. CASE chk' # chk
    <3>1. chk'.lgpos = Len(log) + 1 /\ chk'.dbtime = dbtime /\ \A p \in Page : ~buf[p].dirty
      BY <1>4, <2>2
    <3>2. ChkTimes'
      <4> SUFFICES ASSUME NEW i \in Idx', i < Len(log) + 1 PROVE log'[i].after <= dbtime
        BY <3>1 DEF ChkTimes
      <4>1. i \in Idx /\ i <= Horizon /\ log'[i] = log[i]
        BY <1>8, <1>9, <1>n DEF Idx
      <4> QED
        BY <1>0, <4>1 DEF SeenTimes
    <3>3. ChkSafe'
      <4> SUFFICES ASSUME NEW p \in Page, NEW i \in Idx', On(p, i)' PROVE log'[i].after <= disk[p].dbtime
        BY <1>3 DEF ChkSafe
      <4>1. i \in Idx
        BY <1>2, <1>8, <1>9 DEF On, PageRec
      <4>2. log'[i] = log[i] /\ On(p, i) /\ i <= Horizon
        BY <1>8, <1>9, <1>n, <4>1 DEF On, PageRec, Idx
      <4>3. ~(log[i].after > disk[p].dbtime)
        BY <1>0, <3>1, <4>1, <4>2 DEF Dirty
      <4>4. log[i].after \in Nat /\ disk[p].dbtime \in Nat
        BY <1>0, <4>1, OfLog, OfPage
      <4> QED
        BY <4>2, <4>3, <4>4
    <3> QED
      BY <3>2, <3>3
  <2> QED
    BY <2>1, <2>2
<1> QED
  BY <1>7, <1>8, <1>10, <1>11, <1>12, <1>13, <1>14, PlainKeeps

-----------------------------------------------------------------------------
(* Redo *)

\* Redo comes to the next record, and the counter with it.
RedoStep ==
    /\ mode = "redo" /\ mode' = "redo" /\ redo < Len(log) /\ redo' = redo + 1 /\ ckpt.pc = "none"
    /\ UNCHANGED <<log, durable, waypoint, chk, ckpt, acked>>
    /\ dbtime <= dbtime' /\ log[redo + 1].after <= dbtime'

SessSame(v) == sess'[v].st = sess[v].st /\ sess'[v].start = sess[v].start /\ sess'[v].afterBT = sess[v].afterBT

\* What it does to the sessions: the record begins or ends transactions of S.
RedoSess(S) ==
    /\ \A v \in Session \ S : SessSame(v) /\ ~Cuts(redo + 1, v)
    /\ \A v \in S :
         \/ /\ log[redo + 1].t = "Begin0" /\ log[redo + 1].s = v
            /\ sess'[v].st = "open" /\ sess'[v].start = redo + 1 /\ sess'[v].afterBT = TRUE
         \/ log[redo + 1].t # "Begin0" /\ Cuts(redo + 1, v) /\ sess'[v].st = "idle" /\ sess'[v].start <= Len(log)

\* The log and the horizon.
LEMMA RedoPlain ==
    ASSUME RecInv, LogTypes', RedoStep
    PROVE  /\ Plain /\ Bounds' /\ Horizon = redo /\ Horizon' = redo + 1 /\ Idx' = Idx /\ redo + 1 \in Idx
           /\ \A i \in Idx' : Horizon < i /\ i <= Horizon' => i = redo + 1
<1>0. LogTypes /\ Bounds
  BY DEF RecInv, LogInv, Types
<1>n. /\ redo \in Nat /\ Len(log) \in Nat /\ dbtime \in Nat /\ durable \in Nat /\ waypoint \in Nat
      /\ chk.lgpos \in Nat /\ ckpt.lgpos \in Nat
  BY <1>0 DEF LogTypes
<1>1. Horizon = redo /\ Horizon' = redo + 1 /\ Idx' = Idx /\ redo + 1 \in Idx
  BY <1>n DEF Horizon, Idx, RedoStep
<1>2. Advances
  BY <1>n, <1>1 DEF Advances, Ext, RedoStep
<1>3. \A i \in Idx' : i \in Nat /\ ~(Len(log) < i) /\ (Horizon < i /\ i <= Horizon' => i = redo + 1)
  BY <1>n, <1>1 DEF Idx
<1>4. Plain
  BY <1>2, <1>3 DEF Plain, RedoStep
<1>5. Bounds'
  BY <1>0, <1>n, <1>1 DEF Bounds, RedoStep
<1> QED
  BY <1>1, <1>3, <1>4, <1>5

\* The transaction redo is in.
LEMMA RedoTrx ==
    ASSUME RecInv, LogTypes', RedoStep, NEW S \in SUBSET Session, RedoSess(S)
    PROVE  InRedo' /\ RedoOpen'
<1>0. LogTypes /\ Bounds /\ OfTrx /\ InRedo /\ RedoOpen
  BY DEF RecInv, LogInv, SessInv, Types
<1>n. redo \in Nat /\ Len(log) \in Nat /\ redo + 1 \in Idx /\ mode = "redo"
  BY <1>0, RedoPlain DEF LogTypes, RedoStep
<1>1. ASSUME NEW i \in Idx, redo + 1 < i, PageRec(i), log[i].trx <= redo + 1, NEW s, s = log[i].s
      PROVE  IF sess'[s].afterBT THEN Open(s)' /\ sess'[s].start = log[i].trx ELSE log[i].trx < chk.lgpos
  <2>1. s = log[i].s
    BY <1>1
  <2>2. s \in Session /\ log[i].trx \in Nat /\ i \in Nat
    BY <1>0, <1>1, <1>n, <2>1, OfLog DEF PageRec, TrxType, NodeType, Idx
  <2>3. /\ log[i].trx \in Idx /\ log[log[i].trx].t = "Begin0" /\ log[log[i].trx].s = s
        /\ \A k \in Idx : log[i].trx < k /\ k < i => ~Cuts(k, s)
    BY <1>0, <1>1, <2>1 DEF OfTrx
  <2>4. CASE log[i].trx <= redo
    <3>1. ~Cuts(redo + 1, s)
      BY <1>1, <1>n, <2>2, <2>3, <2>4
    <3>2. s \notin S
      BY <3>1 DEF RedoSess, Cuts
    <3>3. SessSame(s)
      BY <2>2, <3>2 DEF RedoSess
    <3>4. IF sess[s].afterBT THEN Open(s) /\ sess[s].start = log[i].trx ELSE log[i].trx < chk.lgpos
      BY <1>0, <1>1, <1>n, <2>1, <2>2, <2>4 DEF InRedo
    <3> QED
      BY <3>3, <3>4 DEF SessSame, Open
  <2>5. CASE ~(log[i].trx <= redo)
    <3>1. log[i].trx = redo + 1
      BY <1>1, <1>n, <2>2, <2>5
    <3>2. Cuts(redo + 1, s) /\ log[redo + 1].t = "Begin0" /\ log[redo + 1].s = s
      BY <2>3, <3>1 DEF Cuts
    <3>3. s \in S
      BY <2>2, <3>2 DEF RedoSess
    <3>4. sess'[s].st = "open" /\ sess'[s].start = redo + 1 /\ sess'[s].afterBT = TRUE
      BY <3>2, <3>3 DEF RedoSess
    <3> QED
      BY <3>1, <3>4 DEF Open
  <2> QED
    BY <2>4, <2>5
<1>2. InRedo'
  <2> SUFFICES ASSUME NEW i \in Idx', redo' < i, PageRec(i)', log'[i].trx <= redo'
               PROVE  IF sess'[log'[i].s].afterBT
                        THEN sess'[log'[i].s].st \in {"open", "rolling"} /\ sess'[log'[i].s].start = log'[i].trx
                        ELSE log'[i].trx < chk'.lgpos
    BY DEF InRedo, Open
  <2>1. PICK s : s = log[i].s
    OBVIOUS
  <2>2. log' = log /\ chk' = chk /\ redo' = redo + 1 /\ i \in Idx /\ PageRec(i)
    BY DEF RedoStep, Idx, PageRec
  <2>3. IF sess'[s].afterBT THEN Open(s)' /\ sess'[s].start = log[i].trx ELSE log[i].trx < chk.lgpos
    BY <1>1, <2>1, <2>2
  <2> QED
    BY <2>1, <2>2, <2>3 DEF Open
<1>3. RedoOpen'
  <2> SUFFICES ASSUME NEW v \in Session PROVE (Open(v)' => sess'[v].afterBT) /\ sess'[v].st # "committing"
    BY DEF RedoOpen
  <2>1. CASE v \in S
    BY <2>1 DEF RedoSess, Open
  <2>2. CASE v \notin S
    BY <1>0, <1>n, <2>2 DEF RedoSess, SessSame, RedoOpen, Open
  <2> QED
    BY <2>1, <2>2
<1> QED
  BY <1>2, <1>3

\* The other sessions, and those of S.
LEMMA RedoOthers ==
    ASSUME RecInv, LogTypes', RedoStep, NEW S \in SUBSET Session, RedoSess(S)
    PROVE  Elsewhere(S) /\ Here(S)
<1>0. LogTypes /\ Bounds /\ RedoOpen
  BY DEF RecInv, LogInv, SessInv, Types
<1>n. redo \in Nat /\ Len(log) \in Nat /\ mode = "redo" /\ log' = log /\ ckpt' = ckpt /\ chk' = chk /\ ckpt.pc = "none"
  BY <1>0 DEF LogTypes, RedoStep
<1>1. /\ Horizon = redo /\ Horizon' = redo + 1 /\ Idx' = Idx /\ redo + 1 \in Idx
      /\ \A i \in Idx' : Horizon < i /\ i <= Horizon' => i = redo + 1
  BY RedoPlain
<1>2. Elsewhere(S)
  <2> SUFFICES ASSUME NEW v \in Session \ S
               PROVE  /\ SessKept(v) /\ (Open(v)' <=> Open(v)) /\ sess'[v].afterBT = sess[v].afterBT
                      /\ \A i \in Idx' : Horizon < i /\ i <= Horizon' => ~Cuts(i, v)'
                      /\ Open(v) => chk'.lgpos <= sess[v].start /\ (ckpt'.pc = "pages" => ckpt'.lgpos <= sess[v].start)
    BY DEF Elsewhere
  <2>1. SessSame(v) /\ ~Cuts(redo + 1, v) /\ sess[v].st # "committing"
    BY <1>0, <1>n DEF RedoSess, RedoOpen
  <2>2. SessKept(v) /\ (Open(v)' <=> Open(v)) /\ sess'[v].afterBT = sess[v].afterBT
    BY <2>1 DEF SessSame, SessKept, Open
  <2>3. \A i \in Idx' : Horizon < i /\ i <= Horizon' => ~Cuts(i, v)'
    BY <1>1, <1>n, <2>1 DEF Cuts
  <2>4. Open(v) => chk'.lgpos <= sess[v].start /\ (ckpt'.pc = "pages" => ckpt'.lgpos <= sess[v].start)
    BY <1>n, SameStart
  <2> QED
    BY <2>2, <2>3, <2>4
<1>3. Here(S)
  <2> SUFFICES ASSUME NEW v \in S
               PROVE  (Open(v)' => OpenAfter(v)) /\ sess'[v].start <= Len(log') /\ sess'[v].st # "committing"
    BY DEF Here
  <2>1. CASE /\ log[redo + 1].t = "Begin0" /\ log[redo + 1].s = v
             /\ sess'[v].st = "open" /\ sess'[v].start = redo + 1 /\ sess'[v].afterBT = TRUE
    <3>1. chk.lgpos <= redo + 1 /\ redo + 1 <= Len(log)
      BY <1>0, <1>1, <1>n DEF Bounds, Idx
    <3>2. \A i \in Idx' : ~(redo + 1 < i /\ i <= redo + 1)
      BY <1>n, <1>1 DEF Idx
    <3>3. OpenAfter(v)
      BY <1>1, <1>n, <2>1, <3>1, <3>2 DEF OpenAfter
    <3> QED
      BY <1>n, <2>1, <3>1, <3>3
  <2>2. CASE log[redo + 1].t # "Begin0" /\ Cuts(redo + 1, v) /\ sess'[v].st = "idle" /\ sess'[v].start <= Len(log)
    BY <1>n, <2>2 DEF Open
  <2> QED
    BY <2>1, <2>2 DEF RedoSess
<1> QED
  BY <1>2, <1>3

\* So the pages are left to show.
LEMMA RedoKeeps ==
    ASSUME RecInv, Types', RedoStep, NEW S \in SUBSET Session, RedoSess(S), PagesAfter,
           \A p \in Page : disk[p].dbtime <= disk'[p].dbtime
    PROVE  RecInv'
<1>0. LogTypes /\ LogTypes' /\ PageTypes /\ PageTypes' /\ Bounds /\ ChkTimes /\ ChkSafe /\ AckedLogged
  BY DEF RecInv, LogInv, PageInv, SessInv, Types
<1>1. Plain /\ Bounds'
  BY <1>0, RedoPlain
<1>2. InRedo' /\ RedoOpen' /\ Elsewhere(S) /\ Here(S)
  BY <1>0, RedoTrx, RedoOthers
<1>3. ChkTimes' /\ ChkSafe'
  BY <1>0, <1>1, SameChk DEF Plain, Advances, RedoStep
<1>4. AckedLogged'
  BY <1>0, <1>1, SameAcked DEF Plain, Advances, RedoStep
<1> QED
  BY <1>1, <1>2, <1>3, <1>4, PlainKeeps

\* If the record changes no page, or the disk has its change.
LEMMA RedoQuietKeeps ==
    ASSUME RecInv, Types', RedoStep, NEW S \in SUBSET Session, RedoSess(S), disk' = disk,
           \A p \in Page : BufKept(p) /\ (buf'[p].modify = buf[p].modify \/ buf'[p].modify <= redo + 1),
           \A p \in Page : On(p, redo + 1) => log[redo + 1].after <= disk[p].dbtime
    PROVE  RecInv'
<1>0. /\ Types /\ LogTypes /\ LogTypes' /\ PageTypes /\ Bounds /\ BufBounds
      /\ WriteAhead /\ Stamps /\ Caught /\ Dirty
  BY DEF RecInv, LogInv, PageInv, Types
<1>1. /\ Plain /\ Horizon = redo /\ Horizon' = redo + 1 /\ Idx' = Idx /\ redo + 1 \in Idx
      /\ \A i \in Idx' : Horizon < i /\ i <= Horizon' => i = redo + 1
  BY <1>0, RedoPlain
<1>n. redo \in Nat /\ log' = log
  BY <1>0 DEF LogTypes, RedoStep
<1>2. \A p \in Page : buf'[p].modify <= Horizon'
  <2>1. \A p \in Page : buf[p].modify \in Nat /\ buf[p].modify <= redo
    BY <1>0, <1>1, OfPage DEF BufBounds
  <2> QED
    BY <1>1, <1>n, <2>1
<1>3. \A p \in Page : \A i \in Idx' : On(p, i)' /\ Horizon < i /\ i <= Horizon' => log'[i].after <= disk[p].dbtime
  BY <1>1, <1>n DEF On, PageRec
<1>4. Quiet
  BY <1>1, <1>2, <1>3 DEF Quiet, Plain
<1>5. PagesAfter
  BY <1>0, <1>4, QuietPages DEF PagesAfter
<1>6. \A p \in Page : disk[p].dbtime <= disk'[p].dbtime
  BY <1>0, OfPage
<1> QED
  BY <1>5, <1>6, RedoKeeps

\* The record that redo comes to.
LEMMA RedoRec ==
    ASSUME RecInv, NEW types, ToRedo(types)
    PROVE  /\ mode = "redo" /\ ckpt.pc = "none" /\ redo \in Nat /\ redo < Len(log) /\ redo + 1 \in Idx
           /\ NextRec = log[redo + 1] /\ NextRec.t \in types
           /\ NextRec.s \in Nat /\ NextRec.after \in Nat /\ NextRec.rceid \in Nat /\ NextRec.val \in Value
           /\ NextRec.t \in TrxType => NextRec.s \in Session
           /\ NextRec.t \in NodeType => NextRec.node \in Node /\ PageOf[NextRec.node] \in Page /\ NextRec.oper \in Oper
           /\ NextRec.t \notin {"Node", "Undo"} => NextRec.after = 0
<1>0. LogTypes
  BY DEF RecInv, Types
<1>1. mode = "redo" /\ ckpt.pc = "none" /\ redo \in Nat /\ redo < Len(log) /\ redo + 1 \in Idx /\ NextRec.t \in types
  BY <1>0 DEF ToRedo, LogTypes, Idx
<1>2. NextRec = log[redo + 1]
  BY DEF NextRec
<1> QED
  BY <1>0, <1>1, <1>2, OfLog

\* Redo of a record that changes no page.
LEMMA RedoTakes ==
    ASSUME RecInv, NEW types, ToRedo(types), types \cap {"Node", "Undo"} = {}, redo' = redo + 1,
           UNCHANGED <<mode, log, durable, waypoint, dbtime, chk, ckpt, acked>>
    PROVE  RedoStep /\ LogTypes' /\ \A p \in Page : ~On(p, redo + 1)
<1>0. LogTypes
  BY DEF RecInv, Types
<1>1. /\ mode = "redo" /\ ckpt.pc = "none" /\ redo \in Nat /\ redo < Len(log)
      /\ NextRec = log[redo + 1] /\ NextRec.t \in types
      /\ NextRec.t \notin {"Node", "Undo"} => NextRec.after = 0
  BY RedoRec
<1>2. log[redo + 1].after = 0 /\ log[redo + 1].t \notin {"Node", "Undo"} /\ dbtime \in Nat
  BY <1>0, <1>1 DEF LogTypes
<1>3. RedoStep
  BY <1>1, <1>2 DEF RedoStep
<1>4. LogTypes'
  BY <1>0, <1>1 DEF LogTypes
<1>5. \A p \in Page : ~On(p, redo + 1)
  BY <1>2 DEF On, PageRec
<1> QED
  BY <1>3, <1>4, <1>5

\* RedoBegin.
LEMMA RedoBeginKeeps == ASSUME RecInv, RedoBegin PROVE RecInv'
<1>0. Types /\ PageTypes /\ SessTypes
  BY DEF RecInv, Types
<1>1. /\ ToRedo({"Begin0"}) /\ redo' = redo + 1
      /\ UNCHANGED <<mode, log, durable, waypoint, disk, buf, dbtime, chk, ckpt, acked>>
      /\ sess' = [sess EXCEPT ![NextRec.s] = [NewSession EXCEPT !.st = "open", !.start = redo + 1, !.afterBT = TRUE]]
  BY DEF RedoBegin
<1>2. /\ NextRec = log[redo + 1] /\ NextRec.t \in {"Begin0"} /\ redo \in Nat
      /\ NextRec.t \in TrxType => NextRec.s \in Session
  BY <1>1, RedoRec
<1>3. NextRec.t = "Begin0" /\ NextRec.s \in Session
  BY <1>2 DEF TrxType
<1>4. PICK s \in Session : s = NextRec.s /\ log[redo + 1].t = "Begin0" /\ log[redo + 1].s = s
  BY <1>2, <1>3
<1>5. PICK u : u = [NewSession EXCEPT !.st = "open", !.start = redo + 1, !.afterBT = TRUE]
  OBVIOUS
<1>6. u \in SessType /\ u.rces = {} /\ u.st = "open" /\ u.start = redo + 1 /\ u.afterBT = TRUE
  <2>1. redo + 1 \in Nat
    BY <1>2
  <2> QED
    BY <1>5, <2>1, BegunType
<1>7. sess' = [sess EXCEPT ![s] = u]
  BY <1>1, <1>4, <1>5, Zenon
<1>8. SessTypes'
  <2>1. \A q \in u.rces : q.id <= 0
    BY <1>6
  <2> QED
    BY <1>0, <1>6, <1>7, <2>1, SessSet
<1>9. sess'[s] = u /\ \A v \in Session : v # s => sess'[v] = sess[v]
  BY <1>0, <1>7 DEF SessTypes
<1>10. RedoStep /\ LogTypes' /\ \A p \in Page : ~On(p, redo + 1)
  BY <1>1, RedoTakes
<1>11. Types'
  <2>1. PageTypes'
    BY <1>0, <1>1 DEF PageTypes
  <2> QED
    BY <1>8, <1>10, <2>1 DEF Types
<1>12. RedoSess({s})
  <2>1. \A v \in Session \ {s} : SessSame(v) /\ ~Cuts(redo + 1, v)
    BY <1>4, <1>9 DEF SessSame, Cuts
  <2> QED
    BY <1>4, <1>6, <1>9, <2>1 DEF RedoSess
<1>13. \A p \in Page : BufKept(p) /\ buf'[p].modify = buf[p].modify
  <2>1. \A p \in Page : buf[p].modify \in Nat
    BY <1>0, OfPage
  <2> QED
    BY <1>1, <2>1 DEF BufKept
<1> QED
  BY <1>1, <1>10, <1>11, <1>12, <1>13, RedoQuietKeeps

\* RedoSkip: what is skipped is on disk.
LEMMA RedoSkipKeeps == ASSUME RecInv, RedoSkip PROVE RecInv'
<1> DEFINE types == {"Node", "UndoInfo", "Undo", "Commit0", "Rollback"}
<1>0. Types /\ LogTypes /\ PageTypes /\ SessTypes /\ RedoOpen /\ OfTrx /\ InRedo /\ ChkSafe /\ Commits
  BY DEF RecInv, LogInv, PageInv, SessInv, Types
<1>1. /\ ToRedo(types) /\ redo' = redo + 1 /\ ~sess[NextRec.s].afterBT /\ dbtime' = Later(dbtime, NextRec.after)
      /\ UNCHANGED <<mode, log, durable, waypoint, disk, buf, sess, chk, ckpt, acked>>
  BY DEF RedoSkip, DbtimeSeen
<1>2. /\ mode = "redo" /\ ckpt.pc = "none" /\ redo \in Nat /\ redo < Len(log) /\ redo + 1 \in Idx
      /\ NextRec = log[redo + 1] /\ NextRec.t \in types /\ NextRec.after \in Nat
      /\ NextRec.t \in TrxType => NextRec.s \in Session
  BY <1>1, RedoRec
<1>3. NextRec.s \in Session
  BY <1>2 DEF TrxType, NodeType
<1>4. PICK s \in Session : s = log[redo + 1].s /\ ~sess[s].afterBT
  BY <1>1, <1>2, <1>3
<1>5. RedoStep
  <2>1. dbtime \in Nat
    BY <1>0 DEF LogTypes
  <2>2. dbtime <= dbtime' /\ NextRec.after <= dbtime'
    BY <1>1, <1>2, <2>1 DEF Later
  <2> QED
    BY <1>1, <1>2, <2>2 DEF RedoStep
<1>6. Types'
  <2>1. dbtime' \in Nat
    BY <1>0, <1>1, <1>2 DEF LogTypes, Later
  <2>2. LogTypes'
    BY <1>0, <1>1, <1>2, <2>1 DEF LogTypes
  <2> QED
    BY <1>0, <1>1, <2>2 DEF Types, PageTypes, SessTypes
<1>7. sess[s].st = "idle" /\ sess[s].start <= Len(log)
  <2>1. ~Open(s) /\ sess[s].st # "committing" /\ sess[s].start <= Len(log)
    BY <1>0, <1>2, <1>4 DEF RedoOpen, Commits
  <2>2. sess[s].st \in {"idle", "open", "committing", "rolling"}
    BY <1>0, OfSess
  <2> QED
    BY <2>1, <2>2 DEF Open
<1>8. PICK S : S = IF log[redo + 1].t \in {"Commit0", "Rollback"} THEN {s} ELSE {}
  OBVIOUS
<1>9. S \in SUBSET Session /\ RedoSess(S)
  <2>1. S \in SUBSET Session
    BY <1>8
  <2>2. \A v \in Session \ S : SessSame(v) /\ ~Cuts(redo + 1, v)
    BY <1>1, <1>2, <1>4, <1>8 DEF SessSame, Cuts
  <2>3. \A v \in S : log[redo + 1].t # "Begin0" /\ Cuts(redo + 1, v) /\ sess'[v].st = "idle" /\ sess'[v].start <= Len(log)
    BY <1>1, <1>2, <1>4, <1>7, <1>8 DEF Cuts
  <2> QED
    BY <2>1, <2>2, <2>3 DEF RedoSess
<1>10. \A p \in Page : BufKept(p) /\ buf'[p].modify = buf[p].modify
  <2>1. \A p \in Page : buf[p].modify \in Nat
    BY <1>0, OfPage
  <2> QED
    BY <1>1, <2>1 DEF BufKept
<1>11. ASSUME NEW p \in Page, On(p, redo + 1) PROVE log[redo + 1].after <= disk[p].dbtime
  <2>1. PageRec(redo + 1)
    BY <1>11 DEF On
  <2>2. log[redo + 1].trx \in Nat
    BY <1>0, <1>2, OfLog
  <2>3. log[redo + 1].trx <= redo
    BY <1>0, <1>2, <2>1, <2>2 DEF OfTrx
  <2>4. redo < redo + 1
    BY <1>2
  <2>5. log[redo + 1].trx < chk.lgpos
    BY <1>0, <1>2, <1>4, <2>1, <2>3, <2>4 DEF InRedo
  <2> QED
    BY <1>0, <1>2, <1>11, <2>5 DEF ChkSafe
<1> QED
  BY <1>1, <1>5, <1>6, <1>9, <1>10, <1>11, RedoQuietKeeps

\* RedoRecoveryUndo.
LEMMA RedoRecoveryUndoKeeps == ASSUME RecInv, RedoRecoveryUndo PROVE RecInv'
<1>0. Types /\ PageTypes /\ SessTypes
  BY DEF RecInv, Types
<1>1. /\ ToRedo({"RecoveryUndo"}) /\ redo' = redo + 1
      /\ UNCHANGED <<mode, log, durable, waypoint, disk, buf, sess, dbtime, chk, ckpt, acked>>
  BY DEF RedoRecoveryUndo
<1>2. log[redo + 1].t = "RecoveryUndo"
  BY <1>1 DEF ToRedo, NextRec
<1>3. RedoStep /\ LogTypes' /\ \A p \in Page : ~On(p, redo + 1)
  BY <1>1, RedoTakes
<1>4. Types'
  BY <1>0, <1>1, <1>3 DEF Types, PageTypes, SessTypes
<1>5. RedoSess({})
  BY <1>1, <1>2 DEF RedoSess, SessSame, Cuts
<1>6. \A p \in Page : BufKept(p) /\ buf'[p].modify = buf[p].modify
  <2>1. \A p \in Page : buf[p].modify \in Nat
    BY <1>0, OfPage
  <2> QED
    BY <1>1, <2>1 DEF BufKept
<1> QED
  BY <1>1, <1>3, <1>4, <1>5, <1>6, RedoQuietKeeps

\* RedoEndTrx.
LEMMA RedoEndTrxKeeps == ASSUME RecInv, RedoEndTrx PROVE RecInv'
<1>0. Types /\ LogTypes /\ PageTypes /\ SessTypes /\ BufBounds /\ Bounds
  BY DEF RecInv, LogInv, PageInv, Types
<1>1. /\ ToRedo({"Commit0", "Rollback"}) /\ redo' = redo + 1
      /\ UNCHANGED <<mode, log, durable, waypoint, disk, dbtime, chk, ckpt, acked>>
      /\ buf' = CommittedBufs(NextRec.s, IF NextRec.t = "Commit0" THEN redo + 1 ELSE NoLgpos)
      /\ sess' = [sess EXCEPT ![NextRec.s] = [NewSession EXCEPT !.afterBT = TRUE]]
  BY DEF RedoEndTrx
<1>2. /\ NextRec = log[redo + 1] /\ NextRec.t \in {"Commit0", "Rollback"} /\ redo \in Nat /\ mode = "redo"
      /\ NextRec.t \in TrxType => NextRec.s \in Session
  BY <1>1, RedoRec
<1>3. NextRec.s \in Session
  BY <1>2 DEF TrxType
<1>4. PICK s \in Session : s = NextRec.s /\ log[redo + 1].t \in {"Commit0", "Rollback"} /\ log[redo + 1].s = s
  BY <1>2, <1>3
<1>5. PICK k \in Nat : k <= redo + 1 /\ buf' = CommittedBufs(s, k)
  BY <1>1, <1>2, <1>4 DEF NoLgpos
<1>6. PICK u : u = [NewSession EXCEPT !.afterBT = TRUE] /\ u \in SessType /\ u.rces = {} /\ u.st = "idle" /\ u.start = 0
  BY NewSessType
<1>7. sess' = [sess EXCEPT ![s] = u]
  BY <1>1, <1>4, <1>6, Zenon
<1>8. SessTypes'
  <2>1. \A q \in u.rces : q.id <= 0
    BY <1>6
  <2> QED
    BY <1>0, <1>6, <1>7, <2>1, SessSet
<1>9. sess'[s] = u /\ \A v \in Session : v # s => sess'[v] = sess[v]
  BY <1>0, <1>7 DEF SessTypes
<1>10. RedoStep /\ LogTypes' /\ \A p \in Page : ~On(p, redo + 1)
  BY <1>1, RedoTakes
<1>11. ASSUME NEW p \in Page
       PROVE  /\ buf'[p] \in BufType(p) /\ BufKept(p) /\ (buf'[p].modify = buf[p].modify \/ buf'[p].modify <= redo + 1)
  <2>1. /\ buf'[p] \in BufType(p) /\ buf'[p].pg = buf[p].pg /\ buf'[p].dirty = buf[p].dirty /\ buf'[p].begin0 = buf[p].begin0
        /\ buf'[p].modify \in {buf[p].modify, Later(buf[p].modify, k)}
    BY <1>0, <1>5, CommittedType
  <2>2. buf[p].modify \in Nat
    BY <1>0, OfPage
  <2> QED
    BY <1>2, <1>5, <2>1, <2>2 DEF BufKept, Later
<1>12. Types'
  <2>1. DOMAIN buf' = Page
    BY <1>5 DEF CommittedBufs
  <2>2. PageTypes'
    BY <1>0, <1>1, <1>11, <2>1 DEF PageTypes
  <2> QED
    BY <1>8, <1>10, <2>2 DEF Types
<1>13. RedoSess({s})
  <2>1. \A v \in Session \ {s} : SessSame(v) /\ ~Cuts(redo + 1, v)
    BY <1>4, <1>9 DEF SessSame, Cuts
  <2>2. Cuts(redo + 1, s) /\ log[redo + 1].t # "Begin0"
    BY <1>4 DEF Cuts
  <2>3. 0 <= Len(log)
    BY <1>0 DEF LogTypes
  <2> QED
    BY <1>6, <1>9, <2>1, <2>2, <2>3 DEF RedoSess
<1> QED
  BY <1>1, <1>10, <1>11, <1>12, <1>13, RedoQuietKeeps

\* RedoQuit: the pages it writes were written at that time, and what they
\* depend on survives.
LEMMA RedoQuitKeeps == ASSUME RecInv, RedoQuit PROVE RecInv'
<1>0. Types /\ LogTypes /\ PageTypes /\ SessTypes /\ BufBounds /\ Bounds /\ WriteAhead /\ Stamps /\ Caught /\ Dirty
  BY DEF RecInv, LogInv, PageInv, Types
<1>1. /\ ToRedo({"QuitKeep", "QuitDetach"}) /\ redo' = redo + 1
      /\ UNCHANGED <<mode, log, durable, waypoint, dbtime, chk, ckpt, acked>>
      /\ sess' = [s \in Session |-> NewSession]
  BY DEF RedoQuit
<1>2. /\ NextRec = log[redo + 1] /\ NextRec.t \in {"QuitKeep", "QuitDetach"} /\ redo \in Nat /\ mode = "redo" /\ redo + 1 \in Idx
  BY <1>1, RedoRec
<1>3. RedoStep /\ LogTypes' /\ \A p \in Page : ~On(p, redo + 1)
  BY <1>1, RedoTakes
<1>4. SessTypes'
  <2>1. NewSession \in SessType /\ NewSession.rces = {}
    BY NewSessType
  <2> QED
    BY <1>1, <2>1 DEF SessTypes
<1>5. RedoSess(Session)
  <2>1. \A v \in Session : Cuts(redo + 1, v) /\ log[redo + 1].t # "Begin0"
    BY <1>2 DEF Cuts
  <2>2. \A v \in Session : sess'[v].st = "idle" /\ sess'[v].start = 0
    BY <1>1, NewSessType
  <2>3. 0 <= Len(log)
    BY <1>0 DEF LogTypes
  <2> QED
    BY <2>1, <2>2, <2>3 DEF RedoSess
<1>6. CASE NextRec.t = "QuitDetach"
  <2>1. disk' = [p \in Page |-> buf[p].pg] /\ buf' = [p \in Page |-> CleanBuf(buf[p].pg)]
    BY <1>6 DEF RedoQuit
  <2>2. \A p \in Page : disk'[p] = buf[p].pg /\ buf'[p] = CleanBuf(buf[p].pg)
    BY <2>1
  <2>3. PageTypes'
    <3>1. \A p \in Page : buf[p].pg \in PageImage(p)
      BY <1>0, OfPage
    <3>2. \A p \in Page : CleanBuf(buf[p].pg) \in BufType(p)
      BY <3>1, CleanType
    <3> QED
      BY <2>1, <2>2, <3>1, <3>2 DEF PageTypes
  <2>4. Types'
    BY <1>3, <1>4, <2>3 DEF Types
  <2>5. /\ Plain /\ Horizon = redo /\ Horizon' = redo + 1 /\ Idx' = Idx
        /\ \A i \in Idx' : Horizon < i /\ i <= Horizon' => i = redo + 1
    BY <1>3, RedoPlain
  <2>6. FlushStep(Page)
    <3>1. \A i \in Idx : Horizon < i /\ i <= Horizon' => ~PageRec(i)
      BY <1>2, <2>5 DEF PageRec
    <3>2. ASSUME NEW p \in Page, NEW i \in Idx, i <= buf[p].modify PROVE Survives(i)
      <4>1. buf[p].modify \in Nat /\ buf[p].modify <= redo /\ i \in Nat /\ durable \in Nat /\ waypoint \in Nat /\ Len(log) \in Nat
        BY <1>0, <2>5, OfPage DEF BufBounds, Idx, LogTypes
      <4>2. redo + 1 <= waypoint /\ redo + 1 <= Len(log) /\ durable = Len(log)
        BY <1>0, <1>2, <1>6, <4>1 DEF Bounds, Idx
      <4> QED
        BY <1>2, <3>2, <4>1, <4>2 DEF Survives
    <3> QED
      BY <1>1, <2>2, <2>5, <3>1, <3>2 DEF FlushStep, Plain
  <2>7. PagesAfter
    BY <1>0, <2>4, <2>6, FlushedPages DEF PagesAfter
  <2>8. \A p \in Page : disk[p].dbtime <= disk'[p].dbtime
    BY <1>0, <2>2 DEF Stamps
  <2> QED
    BY <1>3, <1>5, <2>4, <2>7, <2>8, RedoKeeps
<1>7. CASE NextRec.t # "QuitDetach"
  <2>1. disk' = disk /\ buf' = buf
    BY <1>7 DEF RedoQuit
  <2>2. Types'
    BY <1>0, <1>3, <1>4, <2>1 DEF Types, PageTypes
  <2>3. \A p \in Page : BufKept(p) /\ buf'[p].modify = buf[p].modify
    <3>1. \A p \in Page : buf[p].modify \in Nat
      BY <1>0, OfPage
    <3> QED
      BY <2>1, <3>1 DEF BufKept
  <2> QED
    BY <1>3, <1>5, <2>1, <2>2, <2>3, RedoQuietKeeps
<1> QED
  BY <1>6, <1>7

\* A record that redo does not skip belongs to the open transaction of its
\* session, and if the page in the cache is not older than the record, neither
\* is the page on disk.
LEMMA RedoCondition ==
    ASSUME RecInv, mode = "redo", redo + 1 \in Idx, PageRec(redo + 1), sess[log[redo + 1].s].afterBT,
           NEW p \in Page, p = PageOf[log[redo + 1].node]
    PROVE  /\ log[redo + 1].s \in Session /\ Open(log[redo + 1].s) /\ sess[log[redo + 1].s].start = log[redo + 1].trx
           /\ log[redo + 1].trx > 0 /\ log[redo + 1].trx <= Len(log) /\ log[redo + 1].trx \in Nat
           /\ On(p, redo + 1)
           /\ log[redo + 1].after <= buf[p].pg.dbtime => log[redo + 1].after <= disk[p].dbtime
<1>0. LogTypes /\ PageTypes /\ Bounds /\ OfTrx /\ InRedo /\ Stamps /\ Order /\ BufBounds
  BY DEF RecInv, LogInv, PageInv, SessInv, Types
<1>n. redo \in Nat /\ Len(log) \in Nat
  BY <1>0 DEF LogTypes
<1>1. log[redo + 1].s \in Session /\ log[redo + 1].trx \in Nat /\ log[redo + 1].after \in Nat
  BY <1>0, OfLog DEF PageRec, TrxType, NodeType
<1>2. log[redo + 1].trx \in Idx /\ log[redo + 1].trx < redo + 1
  BY <1>0 DEF OfTrx
<1>3. log[redo + 1].trx > 0 /\ log[redo + 1].trx <= Len(log) /\ log[redo + 1].trx <= redo /\ redo < redo + 1
  BY <1>1, <1>2, <1>n DEF Idx
<1>4. Open(log[redo + 1].s) /\ sess[log[redo + 1].s].start = log[redo + 1].trx
  BY <1>0, <1>3 DEF InRedo
<1>5. On(p, redo + 1)
  BY DEF On
<1>6. ASSUME log[redo + 1].after <= buf[p].pg.dbtime PROVE log[redo + 1].after <= disk[p].dbtime
  <2>1. CASE buf[p].pg.dbtime = disk[p].dbtime
    BY <1>6, <2>1
  <2>2. CASE buf[p].pg.dbtime # disk[p].dbtime
    <3>1. PICK i \in Idx : i <= buf[p].modify /\ ChangedBy(p, buf[p].pg.dbtime, i)
      BY <1>0, <2>2 DEF Stamps
    <3>2. buf[p].modify \in Nat /\ buf[p].pg.dbtime \in Nat /\ buf[p].modify <= redo /\ i \in Nat
      BY <1>0, <1>n, OfPage DEF BufBounds, Horizon, Idx
    <3>3. i < redo + 1 /\ PageRec(i) /\ log[i].after = buf[p].pg.dbtime
      BY <1>n, <3>1, <3>2 DEF ChangedBy, PageRec
    <3>4. log[i].after < log[redo + 1].after
      BY <1>0, <3>3 DEF Order
    <3> QED
      BY <1>1, <1>6, <3>2, <3>3, <3>4
  <2> QED
    BY <2>1, <2>2
<1> QED
  BY <1>1, <1>3, <1>4, <1>5, <1>6

\* The page changes.
LEMMA RedoPageKeeps ==
    ASSUME RecInv, Types', RedoStep, RedoSess({}), disk' = disk,
           NEW p \in Page, On(p, redo + 1), log[redo + 1].trx > 0, log[redo + 1].trx <= Len(log),
           buf[p].pg.dbtime < log[redo + 1].after,
           ChangedTo(buf'[p], p, buf[p], log[redo + 1].after, redo + 1, log[redo + 1].trx),
           \A q \in Page \ {p} : buf'[q] = buf[q]
    PROVE  RecInv'
<1>0. /\ Types /\ LogTypes /\ LogTypes' /\ PageTypes /\ Bounds /\ BufBounds
      /\ WriteAhead /\ Stamps /\ Caught /\ Dirty
  BY DEF RecInv, LogInv, PageInv, Types
<1>1. /\ Plain /\ Horizon = redo /\ Horizon' = redo + 1 /\ Idx' = Idx /\ redo + 1 \in Idx
      /\ \A i \in Idx' : Horizon < i /\ i <= Horizon' => i = redo + 1
  BY <1>0, RedoPlain
<1>n. redo \in Nat /\ log' = log
  BY <1>0 DEF LogTypes, RedoStep
<1>2. PICK k \in Nat : k = redo + 1
  BY <1>n
<1>3. PageStep(p, k)
  <2>1. \A i \in Idx' : ~(Horizon < i /\ i < k)
    BY <1>1, <1>2, <1>n DEF Idx
  <2>2. On(p, k)'
    BY <1>2, <1>n DEF On, PageRec
  <2>3. /\ buf'[p].pg.dbtime = log'[k].after /\ buf'[p].dirty /\ buf'[p].modify = Later(buf[p].modify, k)
        /\ buf'[p].begin0 = Earlier(buf[p].begin0, log'[k].trx)
    BY <1>2, <1>n DEF ChangedTo
  <2>4. k \in Idx' /\ k = Horizon' /\ Horizon < k
    BY <1>1, <1>2, <1>n
  <2> QED
    BY <1>1, <1>2, <1>n, <2>1, <2>2, <2>3, <2>4 DEF PageStep, Plain
<1>4. PagesAfter
  BY <1>0, <1>3, ChangedPages DEF PagesAfter
<1>5. \A q \in Page : disk[q].dbtime <= disk'[q].dbtime
  BY <1>0, OfPage
<1> QED
  BY <1>4, <1>5, RedoKeeps

\* Redo of a record that may change a page.
LEMMA RedoSees ==
    ASSUME RecInv, NEW types \in SUBSET {"Node", "Undo"}, ToRedo(types), redo' = redo + 1, DbtimeSeen(NextRec),
           UNCHANGED <<mode, log, durable, waypoint, chk, ckpt, acked>>
    PROVE  /\ RedoStep /\ LogTypes' /\ PageRec(redo + 1)
           /\ \A v \in Session : ~Cuts(redo + 1, v)
<1>0. LogTypes
  BY DEF RecInv, Types
<1>1. /\ mode = "redo" /\ ckpt.pc = "none" /\ redo \in Nat /\ redo < Len(log)
      /\ NextRec = log[redo + 1] /\ NextRec.t \in types /\ NextRec.after \in Nat
  BY RedoRec
<1>2. dbtime \in Nat /\ dbtime' = Later(dbtime, NextRec.after)
  BY <1>0 DEF LogTypes, DbtimeSeen
<1>3. dbtime' \in Nat /\ dbtime <= dbtime' /\ log[redo + 1].after <= dbtime'
  BY <1>1, <1>2 DEF Later
<1>4. RedoStep
  BY <1>1, <1>3 DEF RedoStep
<1>5. LogTypes'
  BY <1>0, <1>1, <1>3 DEF LogTypes
<1>6. PageRec(redo + 1)
  BY <1>1 DEF PageRec
<1>7. \A v \in Session : ~Cuts(redo + 1, v)
  BY <1>6 DEF Cuts, PageRec
<1> QED
  BY <1>4, <1>5, <1>6, <1>7

\* The versions and the deferred ones of a session change.
LEMMA SetVersions ==
    ASSUME SessTypes, NEW s \in Session, NEW R \in SUBSET RCE, NEW top \in Nat, \A r \in R : r.id <= top,
           NEW D \in SUBSET Nat,
           NEW u, u = [st |-> sess[s].st, start |-> sess[s].start, commit |-> sess[s].commit, rces |-> R,
                       afterBT |-> sess[s].afterBT, deferred |-> D],
           sess' = [sess EXCEPT ![s] = u]
    PROVE  SessTypes' /\ \A v \in Session : SessSame(v)
<1>0. sess \in [Session -> SessType]
  BY DEF SessTypes
<1>1. u \in SessType /\ u.rces = R /\ u.st = sess[s].st /\ u.start = sess[s].start /\ u.afterBT = sess[s].afterBT
  BY OfSess DEF SessType
<1>2. SessTypes'
  BY <1>1, SessSet
<1>3. sess'[s] = u /\ \A v \in Session : v # s => sess'[v] = sess[v]
  BY <1>0
<1> QED
  BY <1>1, <1>2, <1>3 DEF SessSame

\* A version more, or one more that waits.
LEMMA AddVersion ==
    ASSUME SessTypes, NEW s \in Session, NEW rce \in RCE, NEW id \in Nat,
           \/ sess' = [sess EXCEPT ![s].rces = @ \cup {rce}]
           \/ sess' = [sess EXCEPT ![s].deferred = @ \cup {id}]
    PROVE  SessTypes' /\ \A v \in Session : SessSame(v)
<1>1. /\ sess[s] = [st |-> sess[s].st, start |-> sess[s].start, commit |-> sess[s].commit,
                    rces |-> sess[s].rces, afterBT |-> sess[s].afterBT, deferred |-> sess[s].deferred]
      /\ sess[s].rces \subseteq RCE /\ sess[s].deferred \subseteq Nat
  BY OfSess
<1>2. CASE sess' = [sess EXCEPT ![s].rces = @ \cup {rce}]
  <2>1. PICK R \in SUBSET RCE : R = sess[s].rces \cup {rce}
    BY <1>1
  <2>2. PICK top \in Nat : \A r \in R : r.id <= top
    BY <2>1, TopOneMore
  <2>3. sess' = [sess EXCEPT ![s].rces = R]
    BY <1>2, <2>1
  <2> QED
    BY <2>2, <2>3, SetRces DEF SessSame
<1>3. CASE sess' = [sess EXCEPT ![s].deferred = @ \cup {id}]
  <2>1. PICK D \in SUBSET Nat : D = sess[s].deferred \cup {id}
    BY <1>1
  <2>2. PICK u : u = [st |-> sess[s].st, start |-> sess[s].start, commit |-> sess[s].commit, rces |-> sess[s].rces,
                      afterBT |-> sess[s].afterBT, deferred |-> D]
    OBVIOUS
  <2>3. [sess[s] EXCEPT !.deferred = @ \cup {id}] = u
    BY <1>1, <2>1, <2>2, SMTT(30)
  <2>4. sess' = [sess EXCEPT ![s] = u]
    BY <1>3, <2>3
  <2>5. PICK top \in Nat : \A r \in sess[s].rces : r.id <= top
    BY DEF SessTypes
  <2> QED
    BY <1>1, <2>2, <2>4, <2>5, SetVersions
<1> QED
  BY <1>2, <1>3

\* RedoNode.
LEMMA RedoNodeKeeps == ASSUME RecInv, RedoNode PROVE RecInv'
<1>0. Types /\ LogTypes /\ PageTypes /\ SessTypes
  BY DEF RecInv, Types
<1> DEFINE r == NextRec
           p == PageOf[r.node]
           rce == [id |-> r.rceid, node |-> r.node, oper |-> r.oper,
                   before |-> IF r.oper = "Insert" THEN NoRec ELSE buf[p].pg.img[r.node]]
           b == Changed(buf[p], r.node, r.val, r.after, redo + 1, sess[r.s].start)
<1>1. /\ ToRedo({"Node"}) /\ sess[r.s].afterBT /\ DbtimeSeen(r) /\ redo' = redo + 1
      /\ UNCHANGED <<mode, log, durable, waypoint, disk, chk, ckpt, acked>>
      /\ \/ /\ RedoNeeded(r)
            /\ sess' = [sess EXCEPT ![r.s].rces = @ \cup {rce}]
            /\ buf' = [buf EXCEPT ![p] =
                         IF NeedsUndoInfo(rce) THEN [b EXCEPT !.undoInfo = @ \cup {rce.id}] ELSE b]
         \/ /\ ~RedoNeeded(r)
            /\ sess' = IF NeedsUndoInfo(rce)
                         THEN [sess EXCEPT ![r.s].deferred = @ \cup {r.rceid}]
                         ELSE [sess EXCEPT ![r.s].rces = @ \cup {rce}]
            /\ UNCHANGED buf
  BY DEF RedoNode
<1>2. /\ mode = "redo" /\ redo \in Nat /\ redo + 1 \in Idx /\ r = log[redo + 1] /\ r.t \in {"Node"}
      /\ r.after \in Nat /\ r.rceid \in Nat /\ r.val \in Value
      /\ r.t \in TrxType => r.s \in Session
      /\ r.t \in NodeType => r.node \in Node /\ PageOf[r.node] \in Page /\ r.oper \in Oper
  BY <1>1, RedoRec
<1>3. r.s \in Session /\ r.node \in Node /\ p \in Page /\ r.oper \in Oper
  BY <1>2 DEF TrxType, NodeType
<1>4. rce \in RCE /\ rce.id = r.rceid
  <2>1. buf[p].pg.img[r.node] \in Value
    BY <1>0, <1>3, OfNode
  <2>2. (IF r.oper = "Insert" THEN NoRec ELSE buf[p].pg.img[r.node]) \in Value
    BY <2>1 DEF Value
  <2> QED
    BY <1>2, <1>3, <2>2 DEF RCE, Value, Oper
<1>5. RedoStep /\ LogTypes' /\ PageRec(redo + 1) /\ \A v \in Session : ~Cuts(redo + 1, v)
  <2>1. ToRedo({"Node"}) /\ DbtimeSeen(NextRec)
    BY <1>1
  <2> QED
    BY <1>1, <2>1, RedoSees
<1>6. /\ sess[r.s].start = log[redo + 1].trx /\ log[redo + 1].trx > 0 /\ log[redo + 1].trx <= Len(log)
      /\ log[redo + 1].trx \in Nat /\ On(p, redo + 1)
      /\ log[redo + 1].after <= buf[p].pg.dbtime => log[redo + 1].after <= disk[p].dbtime
  <2>1. PICK q \in Page : q = p
    BY <1>3, SMTT(30)
  <2>2. sess[log[redo + 1].s].afterBT /\ q = PageOf[log[redo + 1].node]
    BY <1>1, <1>2, <2>1
  <2>3. /\ sess[log[redo + 1].s].start = log[redo + 1].trx /\ log[redo + 1].trx > 0 /\ log[redo + 1].trx <= Len(log)
        /\ log[redo + 1].trx \in Nat /\ On(q, redo + 1)
        /\ log[redo + 1].after <= buf[q].pg.dbtime => log[redo + 1].after <= disk[q].dbtime
    BY <1>2, <1>5, <2>2, RedoCondition
  <2> QED
    BY <1>2, <2>1, <2>3, SMTT(30)
<1>7. SessTypes' /\ \A v \in Session : SessSame(v)
  <2>1. PICK c \in RCE : c = rce
    BY <1>4
  <2>2. PICK s \in Session : s = r.s
    BY <1>3
  <2>3. PICK id \in Nat : id = r.rceid
    BY <1>2
  <2>4. \/ sess' = [sess EXCEPT ![s].rces = @ \cup {c}]
        \/ sess' = [sess EXCEPT ![s].deferred = @ \cup {id}]
    BY <1>1, <2>1, <2>2, <2>3, Zenon
  <2> QED
    BY <1>0, <2>4, AddVersion
<1>8. RedoSess({})
  BY <1>5, <1>7 DEF RedoSess
<1>9. CASE RedoNeeded(r)
  <2>1. PICK d : d = b
    OBVIOUS
  <2>2. ChangedTo(d, p, buf[p], r.after, redo + 1, log[redo + 1].trx)
    <3>1. buf[p] \in BufType(p)
      BY <1>0, <1>3, OfPage
    <3>2. redo + 1 \in Nat
      BY <1>2
    <3> QED
      BY <1>2, <1>3, <1>6, <2>1, <3>1, <3>2, ChangedType
  <2>3. PICK c : c = IF NeedsUndoInfo(rce) THEN [d EXCEPT !.undoInfo = @ \cup {rce.id}] ELSE d
    OBVIOUS
  <2>4. ChangedTo(c, p, buf[p], r.after, redo + 1, log[redo + 1].trx)
    <3>1. CASE NeedsUndoInfo(rce)
      <4>1. d \in BufType(p) /\ rce.id \in Nat
        BY <1>2, <1>4, <2>2 DEF ChangedTo
      <4>2. PICK e : e = [d EXCEPT !.undoInfo = @ \cup {rce.id}]
        OBVIOUS
      <4>3. e \in BufType(p) /\ e.pg = d.pg /\ e.dirty = d.dirty /\ e.modify = d.modify /\ e.begin0 = d.begin0
        BY <4>1, <4>2, MoreUndoInfo
      <4>4. c = e
        BY <2>3, <3>1, <4>2
      <4> QED
        BY <2>2, <4>3, <4>4 DEF ChangedTo
    <3>2. CASE ~NeedsUndoInfo(rce)
      BY <2>2, <2>3, <3>2, SMTT(30)
    <3> QED
      BY <3>1, <3>2
  <2>5. buf' = [buf EXCEPT ![p] = c]
    BY <1>1, <1>9, <2>1, <2>3, ZenonT(40)
  <2>6. PageTypes' /\ buf'[p] = c /\ \A q \in Page \ {p} : buf'[q] = buf[q]
    BY <1>0, <1>1, <1>3, <2>4, <2>5, BufSet DEF ChangedTo
  <2>7. Types'
    BY <1>5, <1>7, <2>6 DEF Types
  <2>8. buf[p].pg.dbtime < log[redo + 1].after
    <3>1. r.after > buf[p].pg.dbtime
      BY <1>9 DEF RedoNeeded
    <3>2. buf[p].pg.dbtime \in Nat
      BY <1>0, <1>3, OfPage
    <3> QED
      BY <1>2, <3>1, <3>2
  <2>9. ChangedTo(buf'[p], p, buf[p], log[redo + 1].after, redo + 1, log[redo + 1].trx)
    BY <1>2, <2>4, <2>6
  <2>10. PICK q \in Page : q = p
    BY <1>3
  <2>11. /\ On(q, redo + 1) /\ buf[q].pg.dbtime < log[redo + 1].after
         /\ ChangedTo(buf'[q], q, buf[q], log[redo + 1].after, redo + 1, log[redo + 1].trx)
         /\ \A q1 \in Page \ {q} : buf'[q1] = buf[q1]
    BY <1>6, <2>6, <2>8, <2>9, <2>10
  <2>12. disk' = disk /\ log[redo + 1].trx > 0 /\ log[redo + 1].trx <= Len(log)
    BY <1>1, <1>6
  <2> HIDE DEF r, p, rce, b
  <2> QED
    BY <1>5, <1>8, <2>7, <2>11, <2>12, RedoPageKeeps
<1>10. CASE ~RedoNeeded(r)
  <2>1. buf' = buf
    BY <1>1, <1>10
  <2>2. Types'
    BY <1>0, <1>1, <1>5, <1>7, <2>1 DEF Types, PageTypes
  <2>3. log[redo + 1].after <= disk[p].dbtime
    <3>1. ~(r.after > buf[p].pg.dbtime)
      BY <1>10 DEF RedoNeeded
    <3>2. buf[p].pg.dbtime \in Nat
      BY <1>0, <1>3, OfPage
    <3> QED
      BY <1>2, <1>6, <3>1, <3>2
  <2>4. \A q \in Page : On(q, redo + 1) => log[redo + 1].after <= disk[q].dbtime
    BY <1>2, <2>3 DEF On
  <2>5. \A q \in Page : BufKept(q) /\ buf'[q].modify = buf[q].modify
    <3>1. \A q \in Page : buf[q].modify \in Nat
      BY <1>0, OfPage
    <3> QED
      BY <2>1, <3>1 DEF BufKept
  <2>6. disk' = disk
    BY <1>1
  <2> HIDE DEF r, p, rce, b
  <2> QED
    BY <1>5, <1>8, <2>2, <2>4, <2>5, <2>6, RedoQuietKeeps
<1> QED
  BY <1>9, <1>10

\* RedoUndo.
LEMMA RedoUndoKeeps == ASSUME RecInv, RedoUndo PROVE RecInv'
<1>0. Types /\ LogTypes /\ PageTypes /\ SessTypes
  BY DEF RecInv, Types
<1> DEFINE r == NextRec
           p == PageOf[r.node]
           found == {q \in sess[r.s].rces : q.id = r.rceid}
           b == WithoutUndoInfo(buf[p], r.rceid, NoLgpos)
<1>1. /\ ToRedo({"Undo"}) /\ sess[r.s].afterBT /\ DbtimeSeen(r) /\ redo' = redo + 1
      /\ UNCHANGED <<mode, log, durable, waypoint, disk, chk, ckpt, acked>>
      /\ IF RedoNeeded(r)
           THEN \E q \in found :
                  buf' = [buf EXCEPT ![p] = Changed(b, r.node, q.before, r.after, redo + 1, sess[r.s].start)]
           ELSE buf' = [buf EXCEPT ![p] = b]
      /\ sess' = [sess EXCEPT ![r.s].rces = @ \ found]
  BY DEF RedoUndo
<1>2. /\ mode = "redo" /\ redo \in Nat /\ redo + 1 \in Idx /\ r = log[redo + 1] /\ r.t \in {"Undo"}
      /\ r.after \in Nat /\ r.rceid \in Nat
      /\ r.t \in TrxType => r.s \in Session
      /\ r.t \in NodeType => r.node \in Node /\ PageOf[r.node] \in Page
  BY <1>1, RedoRec
<1>3. r.s \in Session /\ r.node \in Node /\ p \in Page
  BY <1>2 DEF TrxType, NodeType
<1>5. RedoStep /\ LogTypes' /\ PageRec(redo + 1) /\ \A v \in Session : ~Cuts(redo + 1, v)
  <2>1. ToRedo({"Undo"}) /\ DbtimeSeen(NextRec)
    BY <1>1
  <2> QED
    BY <1>1, <2>1, RedoSees
<1>6. /\ sess[r.s].start = log[redo + 1].trx /\ log[redo + 1].trx > 0 /\ log[redo + 1].trx <= Len(log)
      /\ log[redo + 1].trx \in Nat /\ On(p, redo + 1)
      /\ log[redo + 1].after <= buf[p].pg.dbtime => log[redo + 1].after <= disk[p].dbtime
  <2>1. PICK q \in Page : q = p
    BY <1>3
  <2>2. sess[log[redo + 1].s].afterBT /\ q = PageOf[log[redo + 1].node]
    BY <1>1, <1>2, <2>1
  <2>3. /\ sess[log[redo + 1].s].start = log[redo + 1].trx /\ log[redo + 1].trx > 0 /\ log[redo + 1].trx <= Len(log)
        /\ log[redo + 1].trx \in Nat /\ On(q, redo + 1)
        /\ log[redo + 1].after <= buf[q].pg.dbtime => log[redo + 1].after <= disk[q].dbtime
    BY <1>2, <1>5, <2>2, RedoCondition
  <2> QED
    BY <1>2, <2>1, <2>3
<1>7. SessTypes' /\ \A v \in Session : SessSame(v)
  <2>1. PICK s \in Session : s = r.s
    BY <1>3
  <2>2. PICK R : R = sess[s].rces \ found
    OBVIOUS
  <2>3. R \in SUBSET RCE /\ \E top \in Nat : \A q \in R : q.id <= top
    BY <1>0, <2>2, TopSubset
  <2>4. PICK top \in Nat : \A q \in R : q.id <= top
    BY <2>3
  <2>5. sess' = [sess EXCEPT ![s].rces = R]
    BY <1>1, <2>1, <2>2
  <2> QED
    BY <1>0, <2>3, <2>4, <2>5, SetRces DEF SessSame
<1>8. RedoSess({})
  BY <1>5, <1>7 DEF RedoSess
<1>b. /\ b \in BufType(p) /\ b.pg = buf[p].pg /\ b.dirty = buf[p].dirty /\ b.begin0 = buf[p].begin0
      /\ b.modify = buf[p].modify /\ buf[p].modify \in Nat
  <2>1. buf[p] \in BufType(p) /\ buf[p].modify \in Nat
    BY <1>0, <1>3, OfPage
  <2>2. /\ b \in BufType(p) /\ b.pg = buf[p].pg /\ b.dirty = buf[p].dirty /\ b.begin0 = buf[p].begin0
        /\ b.modify = Later(buf[p].modify, NoLgpos)
    <3>1. NoLgpos \in Nat
      BY DEF NoLgpos
    <3> QED
      BY <2>1, <3>1, WithoutType
  <2> QED
    BY <2>1, <2>2 DEF Later, NoLgpos
<1>9. CASE RedoNeeded(r)
  <2>1. PICK q \in found : buf' = [buf EXCEPT ![p] = Changed(b, r.node, q.before, r.after, redo + 1, sess[r.s].start)]
    BY <1>1, <1>9
  <2>2. PICK c : c = Changed(b, r.node, q.before, r.after, redo + 1, sess[r.s].start)
    OBVIOUS
  <2>3. ChangedTo(c, p, buf[p], r.after, redo + 1, log[redo + 1].trx)
    <3>1. q.before \in Value
      <4>1. q \in RCE
        BY <1>0, <1>3, OfSess
      <4> QED
        BY <4>1 DEF RCE, Value
    <3>2. redo + 1 \in Nat
      BY <1>2
    <3>3. PICK a : a = b /\ a \in BufType(p) /\ a.modify = buf[p].modify /\ a.begin0 = buf[p].begin0
      BY <1>b
    <3>4. c = Changed(a, r.node, q.before, r.after, redo + 1, log[redo + 1].trx)
      BY <1>6, <2>2, <3>3
    <3>5. ChangedTo(c, p, a, r.after, redo + 1, log[redo + 1].trx)
      <4> HIDE DEF b, found, r
      <4> QED
        BY <1>2, <1>3, <1>6, <3>1, <3>2, <3>3, <3>4, ChangedType
    <3> QED
      BY <3>3, <3>5 DEF ChangedTo
  <2>5. buf' = [buf EXCEPT ![p] = c]
    BY <2>1, <2>2
  <2>6. PageTypes' /\ buf'[p] = c /\ \A q1 \in Page \ {p} : buf'[q1] = buf[q1]
    BY <1>0, <1>1, <1>3, <2>3, <2>5, BufSet DEF ChangedTo
  <2>7. Types'
    BY <1>5, <1>7, <2>6 DEF Types
  <2>8. buf[p].pg.dbtime < log[redo + 1].after
    <3>1. r.after > buf[p].pg.dbtime
      BY <1>9 DEF RedoNeeded
    <3>2. buf[p].pg.dbtime \in Nat
      BY <1>0, <1>3, OfPage
    <3> QED
      BY <1>2, <3>1, <3>2
  <2>9. ChangedTo(buf'[p], p, buf[p], log[redo + 1].after, redo + 1, log[redo + 1].trx)
    BY <1>2, <2>3, <2>6
  <2>10. PICK pp \in Page : pp = p
    BY <1>3
  <2>11. /\ On(pp, redo + 1) /\ buf[pp].pg.dbtime < log[redo + 1].after
         /\ ChangedTo(buf'[pp], pp, buf[pp], log[redo + 1].after, redo + 1, log[redo + 1].trx)
         /\ \A q1 \in Page \ {pp} : buf'[q1] = buf[q1]
    BY <1>6, <2>6, <2>8, <2>9, <2>10
  <2>12. disk' = disk /\ log[redo + 1].trx > 0 /\ log[redo + 1].trx <= Len(log)
    BY <1>1, <1>6
  <2> HIDE DEF r, p, found, b
  <2> QED
    BY <1>5, <1>8, <2>7, <2>11, <2>12, RedoPageKeeps
<1>10. CASE ~RedoNeeded(r)
  <2>1. buf' = [buf EXCEPT ![p] = b]
    BY <1>1, <1>10
  <2>2. PageTypes' /\ buf'[p] = b /\ \A q \in Page \ {p} : buf'[q] = buf[q]
    BY <1>0, <1>1, <1>3, <1>b, <2>1, BufSet
  <2>3. Types'
    BY <1>5, <1>7, <2>2 DEF Types
  <2>4. log[redo + 1].after <= disk[p].dbtime
    <3>1. ~(r.after > buf[p].pg.dbtime)
      BY <1>10 DEF RedoNeeded
    <3>2. buf[p].pg.dbtime \in Nat
      BY <1>0, <1>3, OfPage
    <3> QED
      BY <1>2, <1>6, <3>1, <3>2
  <2>5. \A q \in Page : On(q, redo + 1) => log[redo + 1].after <= disk[q].dbtime
    BY <1>2, <2>4 DEF On
  <2>6. ASSUME NEW q \in Page PROVE BufKept(q) /\ buf'[q].modify = buf[q].modify
    <3>1. buf[q].modify \in Nat
      BY <1>0, OfPage
    <3>2. CASE q = p
      BY <1>b, <2>2, <3>1, <3>2 DEF BufKept
    <3>3. CASE q # p
      BY <2>2, <3>1, <3>3 DEF BufKept
    <3> QED
      BY <3>2, <3>3
  <2>7. disk' = disk
    BY <1>1
  <2> HIDE DEF r, p, found, b
  <2> QED
    BY <1>5, <1>8, <2>3, <2>5, <2>6, <2>7, RedoQuietKeeps
<1> QED
  BY <1>9, <1>10

\* RedoUndoInfo.
LEMMA RedoUndoInfoKeeps == ASSUME RecInv, RedoUndoInfo PROVE RecInv'
<1>0. Types /\ LogTypes /\ PageTypes /\ SessTypes
  BY DEF RecInv, Types
<1> DEFINE r == NextRec
           known == \E q \in sess[r.s].rces : q.id = r.rceid
           rce == [id |-> r.rceid, node |-> r.node, oper |-> r.oper, before |-> r.val]
<1>1. /\ ToRedo({"UndoInfo"}) /\ redo' = redo + 1
      /\ UNCHANGED <<mode, log, durable, waypoint, disk, dbtime, chk, ckpt, acked>>
      /\ \/ sess' = sess
         \/ sess' = [sess EXCEPT ![r.s].deferred = @ \ {r.rceid}, ![r.s].rces = IF known THEN @ ELSE @ \cup {rce}]
      /\ \/ buf' = buf
         \/ buf' = [buf EXCEPT ![PageOf[r.node]] = WithoutUndoInfo(@, r.rceid, redo + 1)]
  BY DEF RedoUndoInfo
<1>2. /\ redo \in Nat /\ r = log[redo + 1] /\ r.t \in {"UndoInfo"} /\ r.rceid \in Nat /\ r.val \in Value
      /\ r.t \in TrxType => r.s \in Session
      /\ r.t \in NodeType => r.node \in Node /\ PageOf[r.node] \in Page /\ r.oper \in Oper
  BY <1>1, RedoRec
<1>3. r.s \in Session /\ r.node \in Node /\ PageOf[r.node] \in Page /\ r.oper \in Oper
  BY <1>2 DEF TrxType, NodeType
<1>4. PICK c : c = rce
  OBVIOUS
<1>5. c \in RCE
  BY <1>2, <1>3, <1>4 DEF RCE, Value, Oper
<1>6. PICK s \in Session : s = r.s
  BY <1>3
<1>7. SessTypes' /\ \A v \in Session : SessSame(v)
  <2>1. CASE sess' = sess
    BY <1>0, <2>1 DEF SessTypes, SessSame
  <2>2. CASE sess' = [sess EXCEPT ![r.s].deferred = @ \ {r.rceid}, ![r.s].rces = IF known THEN @ ELSE @ \cup {rce}]
    <3>1. /\ sess[s] = [st |-> sess[s].st, start |-> sess[s].start, commit |-> sess[s].commit,
                        rces |-> sess[s].rces, afterBT |-> sess[s].afterBT, deferred |-> sess[s].deferred]
          /\ sess[s].rces \subseteq RCE /\ sess[s].deferred \subseteq Nat /\ sess \in [Session -> SessType]
      BY <1>0, OfSess DEF SessTypes
    <3>2. PICK D \in SUBSET Nat : D = sess[s].deferred \ {r.rceid}
      BY <3>1
    <3>3. PICK R \in SUBSET RCE : R = IF known THEN sess[s].rces ELSE sess[s].rces \cup {c}
      BY <1>5, <3>1
    <3>4. PICK u : u = [st |-> sess[s].st, start |-> sess[s].start, commit |-> sess[s].commit, rces |-> R,
                        afterBT |-> sess[s].afterBT, deferred |-> D]
      OBVIOUS
    <3>5. PICK s1 : s1 = [sess EXCEPT ![s].deferred = @ \ {r.rceid}]
      OBVIOUS
    <3>6. PICK u1 : u1 = [sess[s] EXCEPT !.deferred = D]
      OBVIOUS
    <3>7. u1 = [st |-> sess[s].st, start |-> sess[s].start, commit |-> sess[s].commit,
                rces |-> sess[s].rces, afterBT |-> sess[s].afterBT, deferred |-> D]
      BY <3>1, <3>6
    <3>8. s1 = [sess EXCEPT ![s] = u1]
      BY <3>2, <3>5, <3>6
    <3>9. s1[s] = u1
      BY <3>1, <3>8
    <3>10. PICK kn \in BOOLEAN : kn = known
      OBVIOUS
    <3>11. sess' = [s1 EXCEPT ![s].rces = IF kn THEN @ ELSE @ \cup {c}]
      BY <1>4, <1>6, <2>2, <3>5, <3>10
    <3>12. u1.rces = sess[s].rces
      BY <3>7
    <3>13. sess' = [s1 EXCEPT ![s].rces = R]
      <4>1. (IF kn THEN s1[s].rces ELSE s1[s].rces \cup {c}) = R
        BY <3>3, <3>9, <3>10, <3>12
      <4> QED
        BY <3>11, <4>1
    <3>14. [u1 EXCEPT !.rces = R] = u
      BY <3>4, <3>7
    <3>15. sess' = [s1 EXCEPT ![s] = u]
      BY <3>9, <3>13, <3>14
    <3>16. sess' = [sess EXCEPT ![s] = u]
      BY <3>1, <3>8, <3>15
    <3>17. PICK top \in Nat : \A q \in sess[s].rces \cup {c} : q.id <= top
      BY <1>0, <1>5, TopOneMore
    <3>18. \A q \in R : q.id <= top
      BY <3>3, <3>17
    <3> HIDE DEF r, known, rce
    <3> QED
      BY <1>0, <3>4, <3>16, <3>18, SetVersions
  <2> QED
    BY <1>1, <2>1, <2>2
<1>8. RedoStep /\ LogTypes' /\ \A p \in Page : ~On(p, redo + 1)
  BY <1>1, RedoTakes
<1>9. RedoSess({})
  BY <1>2, <1>7 DEF RedoSess, Cuts
<1>10. PageTypes' /\ \A q \in Page : BufKept(q) /\ (buf'[q].modify = buf[q].modify \/ buf'[q].modify <= redo + 1)
  <2>0. \A q \in Page : buf[q].modify \in Nat
    BY <1>0, OfPage
  <2>1. CASE buf' = buf
    BY <1>0, <1>1, <2>0, <2>1 DEF PageTypes, BufKept
  <2>2. CASE buf' = [buf EXCEPT ![PageOf[r.node]] = WithoutUndoInfo(@, r.rceid, redo + 1)]
    <3>1. PICK p \in Page : p = PageOf[r.node]
      BY <1>3
    <3>2. PICK b : b = WithoutUndoInfo(buf[p], r.rceid, redo + 1)
      OBVIOUS
    <3>3. /\ b \in BufType(p) /\ b.pg = buf[p].pg /\ b.dirty = buf[p].dirty /\ b.begin0 = buf[p].begin0
          /\ b.modify = Later(buf[p].modify, redo + 1)
      <4>1. buf[p] \in BufType(p)
        BY <1>0, OfPage
      <4>2. redo + 1 \in Nat
        BY <1>2
      <4> QED
        BY <3>2, <4>1, <4>2, WithoutType
    <3>4. buf' = [buf EXCEPT ![p] = b]
      BY <2>2, <3>1, <3>2
    <3>5. PageTypes' /\ buf'[p] = b /\ \A q \in Page \ {p} : buf'[q] = buf[q]
      BY <1>0, <1>1, <3>3, <3>4, BufSet
    <3>6. ASSUME NEW q \in Page PROVE BufKept(q) /\ (buf'[q].modify = buf[q].modify \/ buf'[q].modify <= redo + 1)
      <4>1. CASE q = p
        BY <1>2, <2>0, <3>3, <3>5, <4>1 DEF BufKept, Later
      <4>2. CASE q # p
        BY <2>0, <3>5, <4>2 DEF BufKept
      <4> QED
        BY <4>1, <4>2
    <3> QED
      BY <3>5, <3>6
  <2> QED
    BY <1>1, <2>1, <2>2
<1>11. Types'
  BY <1>7, <1>8, <1>10 DEF Types
<1>12. disk' = disk
  BY <1>1
<1> HIDE DEF r, known, rce
<1> QED
  BY <1>8, <1>9, <1>10, <1>11, <1>12, RedoQuietKeeps

-----------------------------------------------------------------------------
(* Crash *)

\* What a crash leaves: a prefix of the log with all that survives.
CrashTo(k) ==
    /\ k \in Nat /\ waypoint <= k + 1 /\ chk.lgpos <= k + 1 /\ k <= durable /\ (~LosesLogs => k = durable)
    /\ log' \in Seq(LRec) /\ Len(log') = k /\ \A i \in Idx : i <= k => log'[i] = log[i]
    /\ durable' = k /\ mode' = "redo" /\ dbtime' = chk.dbtime /\ redo' = chk.lgpos - 1
    /\ ckpt' = [pc |-> "none", lgpos |-> 0]
    /\ buf' = [p \in Page |-> CleanBuf(disk[p])] /\ sess' = [s \in Session |-> NewSession]
    /\ UNCHANGED <<waypoint, disk, chk, acked>>

\* Crash does that.
LEMMA CrashDoes == ASSUME RecInv, Crash PROVE \E k : CrashTo(k)
<1>0. LogTypes /\ Bounds
  BY DEF RecInv, LogInv, Types
<1>n. durable \in Nat /\ waypoint \in Nat /\ chk.lgpos \in Nat /\ Len(log) \in Nat /\ log \in Seq(LRec)
  BY <1>0 DEF LogTypes
<1>1. PICK k \in (IF LosesLogs THEN waypoint - 1 .. durable ELSE {durable}) :
        log' = SubSeq(log, 1, k) /\ durable' = k
  BY DEF Crash
<1>2. k \in Nat /\ waypoint <= k + 1 /\ chk.lgpos <= k + 1 /\ k <= durable /\ (~LosesLogs => k = durable) /\ k <= Len(log)
  BY <1>0, <1>1, <1>n DEF Bounds
<1>3. log' \in Seq(LRec) /\ Len(log') = k
  BY <1>1, <1>2, <1>n, SubSeqProperties
<1>4. ASSUME NEW i \in Idx, i <= k PROVE log'[i] = log[i]
  <2>1. i \in 1 .. k
    BY <1>2, <1>4, <1>n DEF Idx
  <2> QED
    BY <1>1, <1>2, <1>n, <2>1, SubSeqProperties
<1>5. CrashTo(k)
  BY <1>1, <1>2, <1>3, <1>4 DEF Crash, CrashTo
<1> QED
  BY <1>5

\* The types and the log after a crash.
LEMMA CrashLog ==
    ASSUME RecInv, NEW k, CrashTo(k)
    PROVE  /\ Types' /\ LogInv'
           /\ \A i \in Idx' : i \in Idx /\ log'[i] = log[i] /\ i \in Nat /\ i <= k
           /\ \A i \in Idx : Survives(i) => i \in Idx' /\ log'[i] = log[i] /\ Survives(i)'
           /\ Horizon' = chk.lgpos - 1
<1>0. /\ Types /\ LogTypes /\ PageTypes /\ SessTypes /\ Bounds /\ ChkTimes /\ Order /\ Chain /\ OfTrx
  BY DEF RecInv, LogInv, Types
<1>n. /\ durable \in Nat /\ waypoint \in Nat /\ chk.lgpos \in Nat /\ Len(log) \in Nat /\ k \in Nat /\ chk.dbtime \in Nat
      /\ k <= Len(log) /\ 1 <= chk.lgpos
  BY <1>0 DEF LogTypes, CrashTo, Bounds
<1>1. Types'
  <2>1. LogTypes'
    <3>1. chk.lgpos - 1 \in Nat
      BY <1>n
    <3> QED
      BY <1>0, <1>n, <3>1 DEF LogTypes, CrashTo
  <2>2. PageTypes'
    <3>1. \A p \in Page : disk[p] \in PageImage(p)
      BY <1>0, OfPage
    <3>2. \A p \in Page : CleanBuf(disk[p]) \in BufType(p)
      BY <3>1, CleanType
    <3> QED
      BY <1>0, <3>1, <3>2 DEF PageTypes, CrashTo
  <2>3. SessTypes'
    <3>1. NewSession \in SessType /\ NewSession.rces = {}
      BY NewSessType
    <3> QED
      BY <3>1 DEF SessTypes, CrashTo
  <2> QED
    BY <2>1, <2>2, <2>3 DEF Types
<1>2. \A i \in Idx' : i \in Idx /\ log'[i] = log[i] /\ i \in Nat /\ i <= k
  BY <1>n DEF CrashTo, Idx
<1>3. \A i \in Idx : i <= k => i \in Idx' /\ log'[i] = log[i] /\ i \in Nat
  BY <1>n DEF CrashTo, Idx
<1>4. Horizon' = chk.lgpos - 1
  BY DEF CrashTo, Horizon
<1>5. \A i \in Idx : Survives(i) => i \in Idx' /\ log'[i] = log[i] /\ Survives(i)'
  <2> SUFFICES ASSUME NEW i \in Idx, Survives(i) PROVE i \in Idx' /\ log'[i] = log[i] /\ Survives(i)'
    OBVIOUS
  <2>1. i <= k
    BY <1>n DEF Survives, CrashTo, Idx
  <2> QED
    BY <1>3, <1>n, <2>1 DEF Survives, CrashTo
<1>6. Bounds'
  <2>1. \A i \in Idx' : log'[i].t = "QuitDetach" => i <= waypoint'
    BY <1>0, <1>2 DEF Bounds, CrashTo
  <2>2. chk'.lgpos = chk.lgpos /\ ckpt'.lgpos = 0
    BY DEF CrashTo
  <2> QED
    BY <1>0, <1>n, <2>1, <2>2 DEF Bounds, CrashTo
<1>7. SeenTimes' /\ ChkTimes'
  <2>1. \A i \in Idx' : i < chk.lgpos => log'[i].after <= chk.dbtime
    BY <1>0, <1>2 DEF ChkTimes
  <2>2. \A i \in Idx' : i <= chk.lgpos - 1 => i < chk.lgpos
    BY <1>2, <1>n
  <2> QED
    BY <1>4, <2>1, <2>2 DEF SeenTimes, ChkTimes, CrashTo
<1>8. Order'
  BY <1>0, <1>2 DEF Order, PageRec
<1>9. Chain'
  <2> SUFFICES ASSUME NEW j \in Idx', PageRec(j)', NEW p, p = PageOf[log'[j].node]
               PROVE  /\ \A i \in Idx' : i < j /\ On(p, i)' => log'[i].after <= log'[j].before
                      /\ log'[j].before = 0
                           \/ \E i \in Idx' : i < j /\ On(p, i)' /\ log'[i].after = log'[j].before
    BY DEF Chain
  <2>1. j \in Idx /\ log'[j] = log[j] /\ PageRec(j) /\ p = PageOf[log[j].node] /\ j \in Nat /\ j <= k
    BY <1>2 DEF PageRec
  <2>2. ASSUME NEW i \in Idx', i < j, On(p, i)' PROVE log'[i].after <= log'[j].before
    <3>1. i \in Idx /\ log'[i] = log[i] /\ On(p, i)
      BY <1>2, <2>2 DEF On, PageRec
    <3> QED
      BY <1>0, <2>1, <2>2, <3>1 DEF Chain
  <2>3. ASSUME log'[j].before # 0 PROVE \E i \in Idx' : i < j /\ On(p, i)' /\ log'[i].after = log'[j].before
    <3>1. PICK i \in Idx : i < j /\ On(p, i) /\ log[i].after = log[j].before
      BY <1>0, <2>1, <2>3 DEF Chain
    <3>2. i <= k
      BY <1>n, <2>1, <3>1 DEF Idx
    <3>3. i \in Idx' /\ log'[i] = log[i]
      BY <1>3, <3>1, <3>2
    <3> QED
      BY <2>1, <3>1, <3>3 DEF On, PageRec
  <2> QED
    BY <2>2, <2>3
<1>10. OfTrx'
  <2> SUFFICES ASSUME NEW i \in Idx', PageRec(i)', NEW s, s = log'[i].s
               PROVE  /\ log'[i].trx \in Idx' /\ log'[i].trx < i
                      /\ log'[log'[i].trx].t = "Begin0" /\ log'[log'[i].trx].s = s
                      /\ \A j \in Idx' : log'[i].trx < j /\ j < i => ~Cuts(j, s)'
    BY DEF OfTrx
  <2>1. i \in Idx /\ log'[i] = log[i] /\ PageRec(i) /\ s = log[i].s /\ i \in Nat /\ i <= k
    BY <1>2 DEF PageRec
  <2>2. /\ log[i].trx \in Idx /\ log[i].trx < i /\ log[log[i].trx].t = "Begin0" /\ log[log[i].trx].s = s
        /\ \A j \in Idx : log[i].trx < j /\ j < i => ~Cuts(j, s)
    BY <1>0, <2>1 DEF OfTrx
  <2>3. log[i].trx <= k
    BY <1>n, <2>1, <2>2 DEF Idx
  <2>4. log[i].trx \in Idx' /\ log'[log[i].trx] = log[log[i].trx]
    BY <1>3, <2>2, <2>3
  <2>5. ASSUME NEW j \in Idx', log'[i].trx < j, j < i PROVE ~Cuts(j, s)'
    BY <1>2, <2>1, <2>2, <2>5 DEF Cuts
  <2> QED
    BY <2>1, <2>2, <2>4, <2>5
<1> QED
  BY <1>1, <1>2, <1>4, <1>5, <1>6, <1>7, <1>8, <1>9, <1>10 DEF LogInv

\* Crash: recovery starts from pages that have all that the log before the
\* checkpoint asks for, and nothing that the log has lost.
LEMMA CrashKeeps == ASSUME RecInv, Crash PROVE RecInv'
<1>0. /\ Types /\ LogTypes /\ PageTypes /\ SessTypes /\ Bounds /\ OfTrx /\ WriteAhead /\ ChkSafe /\ AckedLogged
  BY DEF RecInv, LogInv, PageInv, SessInv, Types
<1>1. PICK k : CrashTo(k)
  BY CrashDoes
<1>2. /\ Types' /\ LogInv'
      /\ \A i \in Idx' : i \in Idx /\ log'[i] = log[i] /\ i \in Nat /\ i <= k
      /\ \A i \in Idx : Survives(i) => i \in Idx' /\ log'[i] = log[i] /\ Survives(i)'
      /\ Horizon' = chk.lgpos - 1
  BY <1>1, CrashLog
<1>n. chk.lgpos \in Nat /\ 1 <= chk.lgpos
  BY <1>0 DEF LogTypes, Bounds
<1>3. ASSUME NEW p \in Page
      PROVE  /\ disk'[p] = disk[p] /\ buf'[p].pg = disk[p] /\ buf'[p].modify = 0 /\ buf'[p].begin0 = 0
             /\ disk[p].dbtime \in Nat
  <2>1. buf'[p] = CleanBuf(disk[p]) /\ disk'[p] = disk[p]
    BY <1>1 DEF CrashTo
  <2> QED
    BY <1>0, <2>1, CleanFields, OfPage
<1>4. ASSUME NEW p \in Page, NEW i \in Idx', On(p, i)', i <= Horizon' PROVE log'[i].after <= disk[p].dbtime
  <2>1. i \in Idx /\ log'[i] = log[i] /\ i \in Nat /\ On(p, i) /\ PageRec(i)
    BY <1>2, <1>4 DEF On, PageRec
  <2>2. log[i].trx < i /\ log[i].trx \in Nat
    BY <1>0, <2>1, OfLog DEF OfTrx
  <2>3. log[i].trx < chk.lgpos
    BY <1>2, <1>4, <1>n, <2>1, <2>2
  <2> QED
    BY <1>0, <2>1, <2>3 DEF ChkSafe
<1>5. WriteAhead'
  <2> SUFFICES ASSUME NEW p \in Page, disk[p].dbtime # 0, NEW time, time = disk[p].dbtime
               PROVE  \E i \in 1 .. Len(log') : Survives(i)' /\ ChangedBy(p, time, i)'
    BY <1>3 DEF WriteAhead
  <2>1. PICK i \in Idx : Survives(i) /\ ChangedBy(p, time, i)
    BY <1>0 DEF WriteAhead, Idx
  <2>2. i \in Idx' /\ log'[i] = log[i] /\ Survives(i)'
    BY <1>2, <2>1
  <2>3. i <= Len(log')
    BY <2>2 DEF Idx
  <2>4. ChangedBy(p, time, i)'
    BY <2>1, <2>2, <2>3 DEF ChangedBy
  <2> QED
    BY <2>2, <2>4 DEF Idx
<1>6. Stamps'
  BY <1>3 DEF Stamps
<1>7. Caught'
  BY <1>3, <1>4 DEF Caught
<1>8. Dirty'
  <2> SUFFICES ASSUME NEW p \in Page, NEW i \in Idx', On(p, i)', i <= Horizon', log'[i].after > disk'[p].dbtime
               PROVE  FALSE
    BY DEF Dirty
  <2>1. log'[i].after <= disk[p].dbtime /\ disk'[p] = disk[p] /\ disk[p].dbtime \in Nat
    BY <1>3, <1>4
  <2>2. log'[i].after \in Nat
    BY <1>0, <1>2, OfLog
  <2> QED
    BY <2>1, <2>2
<1>9. ChkSafe'
  <2> SUFFICES ASSUME NEW p \in Page, NEW i \in Idx', On(p, i)', log'[i].trx < chk.lgpos PROVE log'[i].after <= disk[p].dbtime
    BY <1>1, <1>3 DEF ChkSafe, CrashTo
  <2>1. i \in Idx /\ log'[i] = log[i] /\ On(p, i)
    BY <1>2 DEF On, PageRec
  <2> QED
    BY <1>0, <2>1 DEF ChkSafe
<1>10. BufBounds'
  <2>1. Horizon' \in Nat /\ Len(log') \in Nat
    BY <1>1, <1>2, <1>n DEF CrashTo
  <2> QED
    BY <1>3, <2>1 DEF BufBounds
<1>11. \A s \in Session : sess'[s].st = "idle" /\ sess'[s].start = 0 /\ sess'[s].afterBT = FALSE
  <2>1. \A s \in Session : sess'[s] = NewSession
    BY <1>1 DEF CrashTo
  <2> QED
    BY <2>1, NewSessType
<1>12. Commits' /\ OpenTrx' /\ RedoOpen'
  <2>1. 0 <= Len(log')
    BY <1>1 DEF CrashTo
  <2> QED
    BY <1>11, <2>1 DEF Commits, OpenTrx, RedoOpen, Open
<1>13. InRedo'
  <2> SUFFICES ASSUME NEW i \in Idx', PageRec(i)', log'[i].trx <= redo'
               PROVE  ~sess'[log'[i].s].afterBT /\ log'[i].trx < chk'.lgpos
    BY DEF InRedo
  <2>1. i \in Idx /\ log'[i] = log[i] /\ PageRec(i)
    BY <1>2 DEF PageRec
  <2>2. log[i].s \in Session /\ log[i].trx \in Nat
    BY <1>0, <2>1, OfLog DEF PageRec, TrxType, NodeType
  <2>3. redo' = chk.lgpos - 1 /\ chk' = chk
    BY <1>1 DEF CrashTo
  <2>4. log'[i].trx < chk'.lgpos
    BY <1>n, <2>1, <2>2, <2>3
  <2>5. ~sess'[log'[i].s].afterBT
    BY <1>11, <2>1, <2>2
  <2> QED
    BY <2>4, <2>5
<1>14. AckedLogged'
  <2> SUFFICES ASSUME ~LosesLogs, NEW trx \in acked
               PROVE  \E i \in Idx' : i <= durable' /\ log'[i].t = "Commit0" /\ log'[i].trx = trx
    BY <1>1 DEF AckedLogged, CrashTo
  <2>1. PICK i \in Idx : i <= durable /\ log[i].t = "Commit0" /\ log[i].trx = trx
    BY <1>0 DEF AckedLogged
  <2>2. Survives(i)
    BY <2>1 DEF Survives
  <2>3. i \in Idx' /\ log'[i] = log[i] /\ durable' = durable
    BY <1>1, <1>2, <2>2 DEF CrashTo
  <2> QED
    BY <2>1, <2>3
<1> QED
  BY <1>2, <1>5, <1>6, <1>7, <1>8, <1>9, <1>10, <1>12, <1>13, <1>14 DEF RecInv, PageInv, SessInv

-----------------------------------------------------------------------------
(* The invariant *)

\* The initial state satisfies it.
LEMMA InitRec == Init => RecInv
<1> SUFFICES ASSUME Init PROVE RecInv
  OBVIOUS
<1>1. Len(log) = 0 /\ log \in Seq(LRec) /\ \A i \in Idx : FALSE
  BY DEF Init, Idx
<1>2. LogTypes
  BY <1>1 DEF Init, LogTypes
<1>3. \A p \in Page : disk[p] \in PageImage(p) /\ disk[p].dbtime = 0
  BY DEF Init, PageImage, NoRec
<1>4. \A p \in Page : buf[p] = CleanBuf(disk[p]) /\ CleanBuf(disk[p]) \in BufType(p)
  BY <1>3, CleanType DEF Init
<1>5. PageTypes
  BY <1>3, <1>4 DEF Init, PageTypes
<1>6. \A s \in Session : sess[s] = NewSession
  BY DEF Init
<1>7. SessTypes
  <2>1. NewSession \in SessType /\ NewSession.rces = {}
    BY NewSessType
  <2> QED
    BY <2>1 DEF Init, SessTypes
<1>8. LogInv
  <2>1. Bounds
    BY <1>1 DEF Init, Bounds
  <2> QED
    BY <1>1, <2>1 DEF LogInv, SeenTimes, ChkTimes, Order, Chain, OfTrx
<1>9. \A p \in Page : buf[p].pg = disk[p] /\ buf[p].modify = 0 /\ buf[p].begin0 = 0
  BY <1>4, CleanFields
<1>10. PageInv
  <2>1. Horizon = 0
    BY <1>1 DEF Init, Horizon
  <2>2. Stamps /\ BufBounds /\ WriteAhead
    BY <1>1, <1>3, <1>9, <2>1 DEF Stamps, BufBounds, WriteAhead
  <2> QED
    BY <1>1, <2>2 DEF PageInv, Caught, Dirty, ChkSafe
<1>11. SessInv
  <2>1. \A s \in Session : sess[s].st = "idle" /\ sess[s].start = 0
    BY <1>6, NewSessType
  <2> QED
    BY <1>1, <2>1 DEF SessInv, Commits, AckedLogged, OpenTrx, InRedo, RedoOpen, Open, Init
<1> QED
  BY <1>2, <1>5, <1>7, <1>8, <1>10, <1>11 DEF RecInv, Types

\* A step of a transaction keeps it.
LEMMA TransactionsKeep == ASSUME RecInv, Transactions PROVE RecInv'
<1>0. Types
  BY DEF RecInv
<1>1. PICK s \in Session :
        \/ \E n \in Node, delete \in BOOLEAN : Update(s, n, delete)
        \/ LogCommit(s)
        \/ \E lazy \in BOOLEAN : EndCommit(s, lazy)
        \/ Rollback(s)
        \/ UndoNewest(s)
        \/ EndRollback(s)
  BY Zenon DEF Transactions
<1>2. ASSUME NEW n \in Node, NEW delete \in BOOLEAN, Update(s, n, delete) PROVE RecInv'
  <2>1. Types' /\ \E k \in Nat : Changes(s, PageOf[n], k)
    BY <1>0, <1>2, UpdateDoes
  <2>2. PICK p \in Page : p = PageOf[n]
    BY Constants
  <2>3. PICK k \in Nat : Changes(s, p, k)
    BY <2>1, <2>2
  <2> QED
    BY <2>1, <2>3, ChangesKeep
<1>3. ASSUME UndoNewest(s) PROVE RecInv'
  <2>1. Types' /\ \E p \in Page : \E k \in Nat : Changes(s, p, k)
    BY <1>0, <1>3, UndoNewestDoes
  <2>2. PICK p \in Page : \E k \in Nat : Changes(s, p, k)
    BY <2>1
  <2>3. PICK k \in Nat : Changes(s, p, k)
    BY <2>2
  <2> QED
    BY <2>1, <2>3, ChangesKeep
<1>4. ASSUME LogCommit(s) PROVE RecInv'
  BY <1>4, LogCommitKeeps
<1>5. ASSUME NEW lazy \in BOOLEAN, EndCommit(s, lazy) PROVE RecInv'
  BY <1>5, EndCommitKeeps
<1>6. ASSUME Rollback(s) PROVE RecInv'
  BY <1>6, RollbackKeeps
<1>7. ASSUME EndRollback(s) PROVE RecInv'
  BY <1>7, EndRollbackKeeps
<1> QED
  BY <1>1, <1>2, <1>3, <1>4, <1>5, <1>6, <1>7, Zenon

\* A stuttering step keeps it.
LEMMA StutterKeeps == ASSUME RecInv, UNCHANGED vars PROVE RecInv'
<1>1. /\ mode' = mode /\ log' = log /\ durable' = durable /\ waypoint' = waypoint /\ disk' = disk /\ buf' = buf
      /\ sess' = sess /\ dbtime' = dbtime /\ chk' = chk /\ ckpt' = ckpt /\ redo' = redo /\ acked' = acked
  BY DEF vars
<1>2. Types /\ LogTypes /\ PageTypes /\ Bounds
  BY DEF RecInv, LogInv, Types
<1>3. Steady
  <2>1. durable \in Nat /\ waypoint \in Nat /\ chk.lgpos \in Nat
    BY <1>2 DEF LogTypes
  <2> QED
    BY <1>1, <2>1, SameStart DEF Steady
<1>4. Types'
  BY <1>1, <1>2 DEF Types, LogTypes, PageTypes, SessTypes
<1>5. Bounds'
  BY <1>1, <1>2 DEF Bounds, Idx
<1> QED
  BY <1>1, <1>3, <1>4, <1>5, SteadyPlain, SteadyQuiet, RoutineKeeps DEF Types

\* Every step keeps it.
LEMMA NextKeeps == RecInv /\ [Next]_vars => RecInv'
<1> SUFFICES ASSUME RecInv, [Next]_vars PROVE RecInv'
  OBVIOUS
<1>1. CASE Transactions
  BY <1>1, TransactionsKeep
<1>2. CASE WriteLog
  BY <1>2, WriteLogKeeps
<1>3. CASE AdvanceWaypoint
  BY <1>3, AdvanceWaypointKeeps
<1>4. CASE Caching
  <2>1. PICK p \in Page : LogUndoInfo(p) \/ FlushPage(p)
    BY <1>4, Zenon DEF Caching
  <2> QED
    BY <2>1, LogUndoInfoKeeps, FlushPageKeeps
<1>5. CASE Checkpointing
  <2>1. CkptTip \/ CkptSessions \/ CkptPages
    BY <1>5, Zenon DEF Checkpointing
  <2> QED
    BY <2>1, CkptTipKeeps, CkptSessionsKeeps, CkptPagesKeeps
<1>6. CASE Crash
  BY <1>6, CrashKeeps
<1>7. CASE Redo
  <2>1. RedoBegin \/ RedoSkip \/ RedoNode \/ RedoUndoInfo \/ RedoUndo \/ RedoEndTrx \/ RedoRecoveryUndo \/ RedoQuit
    BY <1>7, Zenon DEF Redo
  <2> QED
    BY <2>1, RedoBeginKeeps, RedoSkipKeeps, RedoNodeKeeps, RedoUndoInfoKeeps, RedoUndoKeeps, RedoEndTrxKeeps,
       RedoRecoveryUndoKeeps, RedoQuitKeeps
<1>8. CASE BeginUndo
  BY <1>8, BeginUndoKeeps
<1>9. CASE Quit
  BY <1>9, QuitKeeps DEF Quit
<1>10. CASE UNCHANGED vars
  BY <1>10, StutterKeeps
<1> QED
  BY <1>1, <1>2, <1>3, <1>4, <1>5, <1>6, <1>7, <1>8, <1>9, <1>10, Zenon DEF Next

-----------------------------------------------------------------------------
(* What it implies *)

\* The type invariant.
LEMMA RecTypes == RecInv => TypeOK
<1> SUFFICES ASSUME RecInv PROVE TypeOK
  OBVIOUS
<1>0. LogTypes /\ PageTypes /\ SessTypes /\ Bounds /\ BufBounds /\ Commits
  BY DEF RecInv, LogInv, PageInv, SessInv, Types
<1>1. /\ mode \in {"run", "redo", "undo"} /\ durable \in 0 .. Len(log) /\ waypoint \in 1 .. durable + 1
      /\ dbtime \in Nat /\ chk.lgpos \in 1 .. durable + 1 /\ redo \in 0 .. Len(log)
  <2>1. /\ mode \in {"run", "redo", "undo"} /\ durable \in Nat /\ waypoint \in Nat /\ dbtime \in Nat /\ redo \in Nat
        /\ Len(log) \in Nat /\ chk.lgpos \in Nat
    BY <1>0 DEF LogTypes
  <2> QED
    BY <1>0, <2>1 DEF Bounds
<1>2. ASSUME NEW p \in Page
      PROVE  /\ disk[p] \in PageImage(p)
             /\ buf[p].pg \in PageImage(p)
             /\ buf[p].modify \in 0 .. Len(log)
             /\ buf[p].begin0 \in 0 .. Len(log)
             /\ buf[p].dirty \in BOOLEAN
             /\ buf[p].undoInfo \subseteq Nat
  <2>1. /\ disk[p] \in PageImage(p) /\ buf[p].pg \in PageImage(p) /\ buf[p].dirty \in BOOLEAN /\ buf[p].modify \in Nat
        /\ buf[p].begin0 \in Nat /\ buf[p].undoInfo \in SUBSET Nat
    BY <1>0, OfPage
  <2>2. Horizon \in Nat /\ Horizon <= Len(log) /\ Len(log) \in Nat
    BY <1>0, HorizonInLog
  <2>3. buf[p].modify <= Len(log) /\ buf[p].begin0 <= Len(log)
    BY <1>0, <2>1, <2>2 DEF BufBounds
  <2> QED
    BY <2>1, <2>2, <2>3
<1>3. ASSUME NEW s \in Session
      PROVE  /\ sess[s].st \in {"idle", "open", "committing", "rolling"}
             /\ sess[s].start \in 0 .. Len(log)
             /\ sess[s].rces \subseteq RCE
             /\ sess[s].deferred \subseteq Nat
  <2>1. /\ sess[s].st \in {"idle", "open", "committing", "rolling"} /\ sess[s].start \in Nat
        /\ sess[s].rces \subseteq RCE /\ sess[s].deferred \subseteq Nat
    BY <1>0, OfSess
  <2>2. sess[s].start <= Len(log) /\ Len(log) \in Nat
    BY <1>0 DEF Commits, LogTypes
  <2> QED
    BY <2>1, <2>2
<1> QED
  BY <1>1, <1>2, <1>3 DEF TypeOK

\* Acknowledged commits are in the log.
LEMMA RecAcked == ASSUME ~LosesLogs PROVE RecInv => AckedSurvives
<1> SUFFICES ASSUME RecInv, NEW trx \in acked PROVE \E i \in 1 .. Len(log) : log[i].t = "Commit0" /\ log[i].trx = trx
  BY DEF AckedSurvives, LogCommitted
<1> QED
  BY DEF RecInv, SessInv, AckedLogged, Idx

\* The counter is not behind a page.
LEMMA RecDbtime == RecInv => DbtimeAdvances
BY CacheBehind DEF RecInv, LogInv, PageInv, DbtimeAdvances

\* A record that must be redone finds its page as the operation did: the page
\* has every change that the record came after, and no other.
LEMMA RecRedo == RecInv => RedoDbtimeMatches
<1> SUFFICES ASSUME RecInv, ToRedo({"Node", "Undo"}), RedoNeeded(NextRec)
             PROVE  buf[PageOf[NextRec.node]].pg.dbtime = NextRec.before
  BY DEF RedoDbtimeMatches, DbtimeMatches
<1>0. Types /\ LogTypes /\ PageTypes /\ Bounds /\ Chain /\ Order /\ Caught /\ Stamps /\ WriteAhead
  BY DEF RecInv, LogInv, PageInv, Types
<1>1. /\ mode = "redo" /\ redo \in Nat /\ redo + 1 \in Idx /\ NextRec = log[redo + 1] /\ NextRec.t \in {"Node", "Undo"}
      /\ NextRec.t \in NodeType => NextRec.node \in Node /\ PageOf[NextRec.node] \in Page
  BY RedoRec
<1>2. PICK j \in Idx : j = redo + 1 /\ NextRec = log[j]
  BY <1>1
<1>3. PICK p \in Page : p = PageOf[log[j].node]
  BY <1>1, <1>2 DEF NodeType
<1>n. /\ j \in Nat /\ log[j].after \in Nat /\ log[j].before \in Nat /\ buf[p].pg.dbtime \in Nat /\ PageRec(j) /\ Horizon = redo
      /\ log[j].after > buf[p].pg.dbtime
  <2>1. log[j].after \in Nat /\ log[j].before \in Nat /\ buf[p].pg.dbtime \in Nat
    BY <1>0, OfLog, OfPage
  <2>2. PageRec(j) /\ Horizon = redo /\ log[j].after > buf[p].pg.dbtime /\ j \in Nat
    BY <1>1, <1>2, <1>3 DEF PageRec, Horizon, RedoNeeded
  <2> QED
    BY <2>1, <2>2
<1>4. log[j].before <= buf[p].pg.dbtime
  <2>1. CASE log[j].before = 0
    BY <1>n, <2>1
  <2>2. CASE log[j].before # 0
    <3>1. PICK i \in Idx : i < j /\ On(p, i) /\ log[i].after = log[j].before
      BY <1>0, <1>3, <1>n, <2>2 DEF Chain
    <3>2. i <= Horizon
      BY <1>1, <1>2, <1>n, <3>1 DEF Idx
    <3> QED
      BY <1>0, <3>1, <3>2 DEF Caught
  <2> QED
    BY <2>1, <2>2
<1>5. buf[p].pg.dbtime <= log[j].before
  <2>1. CASE buf[p].pg.dbtime = 0
    BY <1>n, <2>1
  <2>2. CASE buf[p].pg.dbtime # 0
    <3>1. PICK b \in Idx : ChangedBy(p, buf[p].pg.dbtime, b)
      BY <1>0, <2>2, BufStamped
    <3>2. On(p, b) /\ PageRec(b) /\ log[b].after = buf[p].pg.dbtime /\ b \in Nat
      BY <3>1 DEF ChangedBy, On, PageRec, Idx
    <3>3. ~(j < b)
      BY <1>0, <1>n, <3>2 DEF Order
    <3>4. b # j
      BY <1>n, <3>2
    <3>5. b < j
      BY <1>n, <3>2, <3>3, <3>4
    <3> QED
      BY <1>0, <1>3, <1>n, <3>2, <3>5 DEF Chain
  <2> QED
    BY <2>1, <2>2
<1> QED
  BY <1>2, <1>3, <1>4, <1>5, <1>n

-----------------------------------------------------------------------------
(* Theorems *)

\* Pages, cached pages, sessions, log and checkpoint stay well formed, and the
\* positions they name lie in the log, through any number of crashes.
THEOREM RecoveryTypes == Spec => []TypeOK
<1>1. Init => RecInv
  BY InitRec
<1>2. RecInv /\ [Next]_vars => RecInv'
  BY NextKeeps
<1>3. RecInv => TypeOK
  BY RecTypes
<1> QED
  BY <1>1, <1>2, <1>3, PTL DEF Spec

\* Without loss of written log, a commit that ErrDIRCommitTransaction reported
\* as durable is in the log after every crash.
THEOREM AckedAlways == ASSUME ~LosesLogs PROVE Spec => []AckedSurvives
<1>1. Init => RecInv
  BY InitRec
<1>2. RecInv /\ [Next]_vars => RecInv'
  BY NextKeeps
<1>3. RecInv => AckedSurvives
  BY RecAcked
<1> QED
  BY <1>1, <1>2, <1>3, PTL DEF Spec

\* Write-ahead logging: no page is in the database file with a change that the
\* next crash could take out of the log, with or without log loss resiliency.
THEOREM WriteAheadAlways == Spec => []WriteAhead
<1>1. Init => RecInv
  BY InitRec
<1>2. RecInv /\ [Next]_vars => RecInv'
  BY NextKeeps
<1>3. RecInv => WriteAhead
  BY DEF RecInv, PageInv
<1> QED
  BY <1>1, <1>2, <1>3, PTL DEF Spec

\* When redo is over the dbtime counter is not behind any page, so the next
\* change gets a greater dbtime (ErrLGSetDbtimeBeforeAndDirty).
THEOREM DbtimeAlways == Spec => []DbtimeAdvances
<1>1. Init => RecInv
  BY InitRec
<1>2. RecInv /\ [Next]_vars => RecInv'
  BY NextKeeps
<1>3. RecInv => DbtimeAdvances
  BY RecDbtime
<1> QED
  BY <1>1, <1>2, <1>3, PTL DEF Spec

\* A record that recovery redoes finds its page with the dbtime that the
\* operation found: the JET_errDatabaseCorrupted path of
\* FLGNeedRedoCheckDbtimeBefore is never taken.
THEOREM RedoMatchesAlways == Spec => []RedoDbtimeMatches
<1>1. Init => RecInv
  BY InitRec
<1>2. RecInv /\ [Next]_vars => RecInv'
  BY NextKeeps
<1>3. RecInv => RedoDbtimeMatches
  BY RecRedo
<1> QED
  BY <1>1, <1>2, <1>3, PTL DEF Spec
=============================================================================
