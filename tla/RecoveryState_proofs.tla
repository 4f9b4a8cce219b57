---------------------- MODULE RecoveryState_proofs ----------------------
(***************************************************************************)
(* Proofs about Recovery, continued: what recovery leaves in the database. *)
(* Every Undo record finds its version, no version waits for its undo      *)
(* information when redo is over, and outside of recovery the database is  *)
(* what the committed transactions made of it, for any sessions, nodes,    *)
(* pages and bounds, with and without loss of written log.                 *)
(***************************************************************************)
EXTENDS Recovery_proofs

(* What a log l says.  These operators take the log, the set K of          *)
(* transactions that were kept without their commit record, and positions, *)
(* so that they speak of the log before and after a step alike.            *)

NodeOn(l, n, i) == l[i].t \in {"Node", "Undo"} /\ l[i].node = n
Initially(n) == IF n \in Loaded THEN 0 ELSE NoRec

\* The last of the records in D that changed node n left value v there.
Shows(l, n, D, v) ==
    \/ \E i \in D : NodeOn(l, n, i) /\ l[i].val = v /\ \A j \in D : NodeOn(l, n, j) => j <= i
    \/ (\A j \in D : ~NodeOn(l, n, j)) /\ v = Initially(n)

\* No record up to h undoes the change that record i made.
Stands(l, i, h) == \A k \in 1 .. h : i < k => ~(l[k].t = "Undo" /\ l[k].rceid = l[i].rceid)
StandsOn(l, n, i, h) == l[i].t = "Node" /\ l[i].node = n /\ Stands(l, i, h)

\* The changes that stand make v of node n.
Nets(l, n, h, v) ==
    \/ \E i \in 1 .. h : StandsOn(l, n, i, h) /\ l[i].val = v /\ \A j \in 1 .. h : StandsOn(l, n, j, h) => j <= i
    \/ (\A j \in 1 .. h : ~StandsOn(l, n, j, h)) /\ v = Initially(n)

CommittedBy(l, K, trx, h) == trx \in K \/ \E c \in 1 .. h : l[c].t = "Commit0" /\ l[c].trx = trx

IsQuit(l, k) == l[k].t \in {"QuitKeep", "QuitDetach"}
Ends(l, k, s) == IsQuit(l, k) \/ (l[k].s = s /\ l[k].t \in {"Commit0", "Rollback"})
CutsIn(l, k, s) == Ends(l, k, s) \/ (l[k].s = s /\ l[k].t = "Begin0")

\* Record k is of the transaction that began at its trx.
Begins(l, k) == l[k].trx \in 1 .. (k - 1) /\ l[l[k].trx].t = "Begin0" /\ l[l[k].trx].s = l[k].s

\* Record k, of an undo or for one, is about the change that record i made.
About(l, i, k) ==
    /\ l[i].t = "Node" /\ l[i].rceid = l[k].rceid /\ l[i].trx = l[k].trx /\ l[i].s = l[k].s
    /\ l[i].node = l[k].node /\ l[i].oper = l[k].oper
    /\ Shows(l, l[i].node, 1 .. (i - 1), l[k].val)
    /\ Stands(l, i, k - 1)

\* A node is changed only when the last change of another transaction is committed.
NodeOK(l, K, k) ==
    /\ l[k].rceid = l[k].after
    /\ l[k].oper = "Insert" => Shows(l, l[k].node, 1 .. (k - 1), NoRec)
    /\ \A i \in 1 .. (k - 1) :
          StandsOn(l, l[k].node, i, k - 1) /\ l[i].trx # l[k].trx => CommittedBy(l, K, l[i].trx, k - 1)
\* Changes are undone in the reverse order, and not without undo information.
UndoOK(l, k) ==
    \E i \in 1 .. (k - 1) :
        /\ About(l, i, k)
        /\ \A j \in (i + 1) .. (k - 1) : ~StandsOn(l, l[k].node, j, k - 1)
        /\ l[k].oper # "Insert" => \E j \in (i + 1) .. (k - 1) : l[j].t = "UndoInfo" /\ l[j].rceid = l[k].rceid
InfoOK(l, k) ==
    /\ \E i \in 1 .. (k - 1) : About(l, i, k)
    /\ Begins(l, k)
    /\ l[k].oper # "Insert"
    /\ \A j \in (l[k].trx + 1) .. (k - 1) : ~IsQuit(l, j) /\ ~(l[j].s = l[k].s /\ l[j].t = "Begin0")
EndOK(l, k) == Begins(l, k) /\ \A j \in (l[k].trx + 1) .. (k - 1) : ~CutsIn(l, j, l[k].s)
CommitOK(l, k) == EndOK(l, k) /\ \A j \in 1 .. (k - 1) : ~(l[j].t = "Undo" /\ l[j].trx = l[k].trx)
\* Nothing is left of a transaction that was rolled back.
RollbackOK(l, k) == EndOK(l, k) /\ \A i \in 1 .. (k - 1) : l[i].t = "Node" /\ l[i].trx = l[k].trx => ~Stands(l, i, k - 1)
BeginOK(l, k) ==
    \A b \in 1 .. (k - 1) : l[b].t = "Begin0" /\ l[b].s = l[k].s => \E e \in (b + 1) .. (k - 1) : Ends(l, e, l[k].s)
\* When recovery ends, what stands is committed.
QuitOK(l, K, k) == \A i \in 1 .. (k - 1) : l[i].t = "Node" /\ Stands(l, i, k - 1) => CommittedBy(l, K, l[i].trx, k - 1)

RecOK(l, K, k) ==
    /\ l[k].t = "Node" => NodeOK(l, K, k)
    /\ l[k].t = "Undo" => UndoOK(l, k)
    /\ l[k].t = "UndoInfo" => InfoOK(l, k)
    /\ l[k].t = "Commit0" => CommitOK(l, k)
    /\ l[k].t = "Rollback" => RollbackOK(l, k)
    /\ l[k].t = "Begin0" => BeginOK(l, k)
    /\ IsQuit(l, k) => QuitOK(l, K, k)
\* A node holds what the changes that stand make of it.
NetOK(l, h) == \A n \in Node : \E v \in Value : Shows(l, n, 1 .. h, v) /\ Nets(l, n, h, v)

-----------------------------------------------------------------------------
(* The invariant. *)

LogOK == \A k \in Idx : RecOK(log, kept, k) /\ NetOK(log, k)

\* A page has the changes up to its dbtime.
UpTo(l, time) == {i \in 1 .. Len(l) : l[i].after <= time}
ImageOK(l, pg, p) == \A n \in Node : PageOf[n] = p => Shows(l, n, UpTo(l, pg.dbtime), pg.img[n])
Images == \A p \in Page : ImageOK(log, disk[p], p) /\ ImageOK(log, buf[p].pg, p)

\* Of every change of page p up to a dbtime the undo information is in the log,
\* or the commit that makes it superfluous, among the positions W; unless its
\* rceid is in U.
Covers(l, j, i) ==
    /\ i < j /\ l[j].trx = l[i].trx
    /\ l[j].t = "Commit0" \/ (l[j].t = "UndoInfo" /\ l[j].rceid = l[i].rceid)
Owes(l, p, i) == l[i].t = "Node" /\ PageOf[l[i].node] = p /\ l[i].oper # "Insert"
Covered(l, p, time, U, W) ==
    \A i \in 1 .. Len(l) : Owes(l, p, i) /\ l[i].after <= time =>
        l[i].rceid \in U \/ \E j \in W : Covers(l, j, i)
Surviving == {j \in Idx : Survives(j)}
Held(p) == Surviving \cup 1 .. buf[p].modify
DiskCovered == \A p \in Page : Covered(log, p, disk[p].dbtime, {}, Surviving)
BufCovered == \A p \in Page : Covered(log, p, buf[p].pg.dbtime, buf[p].undoInfo, Held(p))

\* A version is of a change that stands, and has the value before it.
VersionAt(l, h, s, start, r, i) ==
    /\ l[i].t = "Node" /\ l[i].rceid = r.id /\ l[i].s = s /\ l[i].trx = start
    /\ l[i].node = r.node /\ l[i].oper = r.oper
    /\ Stands(l, i, h)
    /\ Shows(l, r.node, 1 .. (i - 1), r.before)
IsOpen(S) == S.st \in {"open", "rolling"}
InfoAt(l, h, id) == \E j \in 1 .. h : l[j].t = "UndoInfo" /\ l[j].rceid = id

\* The versions of session S, the s-th, are those of the changes that stand.
SessOK(l, h, s, S) ==
    /\ \A r \in S.rces : \E i \in 1 .. h : VersionAt(l, h, s, S.start, r, i)
    /\ S.st = "idle" => S.rces = {}
    /\ IsOpen(S) => \A i \in 1 .. h :
          l[i].t = "Node" /\ l[i].trx = S.start /\ Stands(l, i, h) =>
            (\E r \in S.rces : r.id = l[i].rceid) \/ l[i].rceid \in S.deferred
Versions == \A s \in Session : SessOK(log, Horizon, s, sess[s])

\* A version that needs undo information has it in the log, or its page owes it.
OwingOK(l, h, S, B) ==
    \A r \in S.rces : NeedsUndoInfo(r) => r.id \in B[PageOf[r.node]].undoInfo \/ InfoAt(l, h, r.id)
Owing == \A s \in Session : OwingOK(log, Horizon, sess[s], buf)
OwnedBy(A, p, id) == \E s \in Session : \E r \in A[s].rces : r.id = id /\ NeedsUndoInfo(r) /\ PageOf[r.node] = p
Owned == \A p \in Page : \A id \in buf[p].undoInfo : OwnedBy(sess, p, id) /\ ~InfoAt(log, Horizon, id)

\* A version that waits for its undo information will get it, or not need it.
DeferOK(l, h, s, S) ==
    \A id \in S.deferred :
        /\ IsOpen(S) /\ ~InfoAt(l, h, id)
        /\ \E i \in 1 .. h : l[i].t = "Node" /\ l[i].rceid = id /\ l[i].s = s /\ l[i].trx = S.start
        /\ \E j \in (h + 1) .. Len(l) :
              l[j].trx = S.start /\ (l[j].t = "Commit0" \/ (l[j].t = "UndoInfo" /\ l[j].rceid = id))
Deferred == \A s \in Session : IF mode = "redo" THEN DeferOK(log, redo, s, sess[s]) ELSE sess[s].deferred = {}

\* What stands is committed, or its transaction is open, or redo passes it by.
ResolvedAt(l, K, h, A, c) ==
    \A i \in 1 .. h : l[i].t = "Node" /\ Stands(l, i, h) =>
        \/ CommittedBy(l, K, l[i].trx, h)
        \/ \E s \in Session : IsOpen(A[s]) /\ A[s].start = l[i].trx
        \/ l[i].trx < c
Skipped == IF mode = "redo" THEN chk.lgpos ELSE 0
Resolved == ResolvedAt(log, kept, Horizon, sess, Skipped)
PassedAt(l, K, c) ==
    \A i \in 1 .. Len(l) : l[i].t = "Node" /\ l[i].trx < c /\ Stands(l, i, Len(l)) => CommittedBy(l, K, l[i].trx, Len(l))
Passed == PassedAt(log, kept, chk.lgpos)
NoUndo(l, trx) == \A k \in 1 .. Len(l) : ~(l[k].t = "Undo" /\ l[k].trx = trx)
KeptTrx == \A trx \in kept : trx \in Nat /\ trx < chk.lgpos /\ NoUndo(log, trx)

\* Sessions begin after they have ended, and commit what they did not undo.
Rests(l, s) == \A b \in 1 .. Len(l) : l[b].t = "Begin0" /\ l[b].s = s => \E e \in (b + 1) .. Len(l) : Ends(l, e, s)
InTrx(l, s, start) == \A k \in (start + 1) .. Len(l) : ~IsQuit(l, k) /\ ~(l[k].s = s /\ l[k].t = "Begin0")
RunsOK(l, s, S) ==
    /\ S.st \in {"idle", "committing"} => Rests(l, s)
    /\ S.st = "open" => NoUndo(l, S.start)
Runs == mode = "run" => \A s \in Session : RunsOK(log, s, sess[s])
OwnOK(l, s, S) ==
    S.st = "committing" => S.start \in 1 .. Len(l) /\ l[S.start].t = "Begin0" /\ l[S.start].s = s /\ InTrx(l, s, S.start)
CommitsOwn == \A s \in Session : OwnOK(log, s, sess[s])
EndInRedo ==
    mode = "redo" =>
        \A i \in Idx : redo < i /\ log[i].t \in {"Commit0", "Rollback"} /\ log[i].trx <= redo =>
            IF sess[log[i].s].afterBT THEN Open(log[i].s) /\ sess[log[i].s].start = log[i].trx
            ELSE log[i].trx < chk.lgpos

PageState == Images /\ DiskCovered /\ BufCovered
SessState == Versions /\ Owing /\ Owned /\ Deferred /\ Runs /\ CommitsOwn /\ EndInRedo
TrxState == Resolved /\ Passed /\ KeptTrx
StateInv == LogOK /\ PageState /\ SessState /\ TrxState
-----------------------------------------------------------------------------
(* Lemmas about logs *)

Agree(l, m, h) == \A i \in 1 .. h : l[i] = m[i]

\* Logs that agree up to a position agree on what stands there.
LEMMA StandsSame ==
    ASSUME NEW l, NEW m, NEW h \in Nat, Agree(l, m, h), NEW i \in 1 .. h
    PROVE  Stands(l, i, h) <=> Stands(m, i, h)
BY DEF Agree, Stands

\* They agree on what stands on a node.
LEMMA StandsOnSame ==
    ASSUME NEW l, NEW m, NEW h \in Nat, Agree(l, m, h), NEW i \in 1 .. h, NEW n
    PROVE  StandsOn(l, n, i, h) <=> StandsOn(m, n, i, h)
<1>1. Stands(l, i, h) <=> Stands(m, i, h)
  BY StandsSame
<1>2. l[i] = m[i]
  BY DEF Agree
<1> QED
  BY <1>1, <1>2 DEF StandsOn

\* An earlier position agrees too.
LEMMA AgreeLess ==
    ASSUME NEW l, NEW m, NEW h \in Nat, Agree(l, m, h), NEW g \in 0 .. h
    PROVE  Agree(l, m, g) /\ Agree(m, l, g)
BY DEF Agree

\* What the records show depends on those about the node alone.
LEMMA ShowsSame ==
    ASSUME NEW l, NEW m, NEW n, NEW D, NEW E, NEW v,
           \A i : (i \in D /\ NodeOn(l, n, i)) <=> (i \in E /\ NodeOn(m, n, i)),
           \A i \in D : NodeOn(l, n, i) => l[i].val = m[i].val,
           Shows(l, n, D, v)
    PROVE  Shows(m, n, E, v)
<1>1. CASE \E i \in D : NodeOn(l, n, i) /\ l[i].val = v /\ \A j \in D : NodeOn(l, n, j) => j <= i
  <2>1. PICK i \in D : NodeOn(l, n, i) /\ l[i].val = v /\ \A j \in D : NodeOn(l, n, j) => j <= i
    BY <1>1
  <2>2. i \in E /\ NodeOn(m, n, i) /\ m[i].val = v /\ \A j \in E : NodeOn(m, n, j) => j <= i
    BY <2>1
  <2> QED
    BY <2>2 DEF Shows
<1>2. CASE (\A j \in D : ~NodeOn(l, n, j)) /\ v = Initially(n)
  BY <1>2 DEF Shows
<1> QED
  BY <1>1, <1>2 DEF Shows

\* Logs that agree show the same.
LEMMA ShowsAgree ==
    ASSUME NEW l, NEW m, NEW h \in Nat, Agree(l, m, h), NEW n, NEW v, Shows(l, n, 1 .. h, v)
    PROVE  Shows(m, n, 1 .. h, v)
<1>1. \A i \in 1 .. h : l[i] = m[i]
  BY DEF Agree
<1>2. \A i \in 1 .. h : NodeOn(l, n, i) <=> NodeOn(m, n, i)
  BY <1>1 DEF NodeOn
<1>3. /\ \A i : (i \in 1 .. h /\ NodeOn(l, n, i)) <=> (i \in 1 .. h /\ NodeOn(m, n, i))
      /\ \A i \in 1 .. h : NodeOn(l, n, i) => l[i].val = m[i].val
  BY <1>1, <1>2
<1> QED
  BY <1>3, ShowsSame

\* Records show one value.
LEMMA ShowsOne ==
    ASSUME NEW l, NEW n, NEW D \in SUBSET Nat, NEW v, NEW w, Shows(l, n, D, v), Shows(l, n, D, w)
    PROVE  v = w
<1>1. CASE \E i \in D : NodeOn(l, n, i)
  <2>1. PICK i \in D : NodeOn(l, n, i) /\ l[i].val = v /\ \A j \in D : NodeOn(l, n, j) => j <= i
    BY <1>1 DEF Shows
  <2>2. PICK k \in D : NodeOn(l, n, k) /\ l[k].val = w /\ \A j \in D : NodeOn(l, n, j) => j <= k
    BY <1>1 DEF Shows
  <2>3. i <= k /\ k <= i /\ i \in Nat /\ k \in Nat
    BY <2>1, <2>2
  <2> QED
    BY <2>1, <2>2, <2>3
<1>2. CASE \A i \in D : ~NodeOn(l, n, i)
  BY <1>2 DEF Shows
<1> QED
  BY <1>1, <1>2

\* Logs that agree have the same commits.
LEMMA CommittedSame ==
    ASSUME NEW l, NEW m, NEW h \in Nat, Agree(l, m, h), NEW K, NEW L, K \subseteq L, NEW trx, CommittedBy(l, K, trx, h)
    PROVE  CommittedBy(m, L, trx, h)
BY DEF Agree, CommittedBy

\* What is committed stays so.
LEMMA CommittedLater ==
    ASSUME NEW l, NEW g \in Nat, NEW h \in Nat, g <= h, NEW K, NEW trx, CommittedBy(l, K, trx, g)
    PROVE  CommittedBy(l, K, trx, h)
BY DEF CommittedBy

\* Logs that agree have the same transactions.
LEMMA BeginsSame ==
    ASSUME NEW l, NEW m, NEW k \in Nat \ {0}, Agree(l, m, k)
    PROVE  Begins(l, k) => Begins(m, k)
<1>1. l[k] = m[k]
  BY DEF Agree
<1>2. \A i \in 1 .. (k - 1) : l[i] = m[i]
  BY DEF Agree
<1> QED
  BY <1>1, <1>2 DEF Begins

\* They agree on what a record is about.
LEMMA AboutSame ==
    ASSUME NEW l, NEW m, NEW k \in Nat \ {0}, Agree(l, m, k), NEW i \in 1 .. (k - 1), About(l, i, k)
    PROVE  About(m, i, k)
<1>1. l[k] = m[k] /\ l[i] = m[i]
  BY DEF Agree
<1>2. PICK h \in Nat : h = k - 1
  OBVIOUS
<1>3. PICK g \in Nat : g = i - 1
  OBVIOUS
<1>4. Agree(l, m, h) /\ Agree(l, m, g)
  BY <1>2, <1>3, AgreeLess
<1>5. Stands(m, i, k - 1)
  <2>1. Stands(l, i, h) /\ i \in 1 .. h
    BY <1>2 DEF About
  <2> QED
    BY <1>2, <1>4, <2>1, StandsSame
<1>6. Shows(m, m[i].node, 1 .. (i - 1), m[k].val)
  <2>1. Shows(l, l[i].node, 1 .. g, l[k].val)
    BY <1>3 DEF About
  <2> QED
    BY <1>1, <1>3, <1>4, <2>1, ShowsAgree
<1> QED
  BY <1>1, <1>5, <1>6 DEF About

\* A record that was in order stays so, in any log that agrees up to it.
LEMMA NodeSame ==
    ASSUME NEW l, NEW m, NEW k \in Nat \ {0}, Agree(l, m, k), NEW K, NEW L, K \subseteq L, NodeOK(l, K, k)
    PROVE  NodeOK(m, L, k)
<1>1. l[k] = m[k]
  BY DEF Agree
<1>2. PICK h \in Nat : h = k - 1
  OBVIOUS
<1>3. Agree(l, m, h)
  BY <1>2, AgreeLess
<1>4. PICK n : n = l[k].node
  OBVIOUS
<1>5. ASSUME m[k].oper = "Insert" PROVE Shows(m, n, 1 .. h, NoRec)
  <2>1. Shows(l, n, 1 .. h, NoRec)
    BY <1>1, <1>2, <1>4, <1>5 DEF NodeOK
  <2> QED
    BY <1>3, <2>1, ShowsAgree
<1>6. ASSUME NEW i \in 1 .. h, StandsOn(m, n, i, h), m[i].trx # m[k].trx PROVE CommittedBy(m, L, m[i].trx, h)
  <2>1. StandsOn(l, n, i, h) /\ l[i] = m[i]
    BY <1>3, <1>6, StandsOnSame DEF Agree
  <2>2. CommittedBy(l, K, l[i].trx, h)
    BY <1>1, <1>2, <1>4, <1>6, <2>1 DEF NodeOK
  <2> QED
    BY <1>3, <2>1, <2>2, CommittedSame
<1> QED
  BY <1>1, <1>2, <1>4, <1>5, <1>6 DEF NodeOK

\* The same of an Undo record.
LEMMA UndoSame ==
    ASSUME NEW l, NEW m, NEW k \in Nat \ {0}, Agree(l, m, k), UndoOK(l, k)
    PROVE  UndoOK(m, k)
<1>1. l[k] = m[k]
  BY DEF Agree
<1>2. PICK h \in Nat : h = k - 1
  OBVIOUS
<1>3. Agree(l, m, h) /\ \A j \in 1 .. h : l[j] = m[j]
  BY <1>2, AgreeLess DEF Agree
<1>4. PICK i \in 1 .. h :
        /\ About(l, i, k)
        /\ \A j \in (i + 1) .. h : ~StandsOn(l, l[k].node, j, h)
        /\ l[k].oper # "Insert" => \E j \in (i + 1) .. h : l[j].t = "UndoInfo" /\ l[j].rceid = l[k].rceid
  BY <1>2 DEF UndoOK
<1>5. About(m, i, k)
  BY <1>2, <1>4, AboutSame
<1>6. PICK n : n = l[k].node
  OBVIOUS
<1>7. ASSUME NEW j \in (i + 1) .. h PROVE ~StandsOn(m, n, j, h)
  <2>1. j \in 1 .. h /\ ~StandsOn(l, n, j, h)
    BY <1>4, <1>6
  <2> QED
    BY <1>3, <2>1, StandsOnSame
<1>8. ASSUME m[k].oper # "Insert" PROVE \E j \in (i + 1) .. h : m[j].t = "UndoInfo" /\ m[j].rceid = m[k].rceid
  <2>1. PICK j \in (i + 1) .. h : l[j].t = "UndoInfo" /\ l[j].rceid = l[k].rceid
    BY <1>1, <1>4, <1>8
  <2>2. l[j] = m[j]
    BY <1>3
  <2> QED
    BY <1>1, <2>1, <2>2
<1> QED
  BY <1>1, <1>2, <1>5, <1>6, <1>7, <1>8 DEF UndoOK

\* The same of an UndoInfo record.
LEMMA InfoSame ==
    ASSUME NEW l, NEW m, NEW k \in Nat \ {0}, Agree(l, m, k), InfoOK(l, k)
    PROVE  InfoOK(m, k)
<1>1. l[k] = m[k] /\ \A j \in 1 .. (k - 1) : l[j] = m[j]
  BY DEF Agree
<1>2. PICK i \in 1 .. (k - 1) : About(l, i, k)
  BY DEF InfoOK
<1>3. About(m, i, k)
  BY <1>2, AboutSame
<1>4. Begins(m, k)
  BY BeginsSame DEF InfoOK
<1>5. l[k].trx \in 1 .. (k - 1)
  BY DEF InfoOK, Begins
<1>6. ASSUME NEW j \in (m[k].trx + 1) .. (k - 1) PROVE ~IsQuit(m, j) /\ ~(m[j].s = m[k].s /\ m[j].t = "Begin0")
  <2>1. j \in 1 .. (k - 1) /\ j \in (l[k].trx + 1) .. (k - 1)
    BY <1>1, <1>5
  <2> QED
    BY <1>1, <2>1 DEF InfoOK, IsQuit
<1> QED
  BY <1>1, <1>3, <1>4, <1>6 DEF InfoOK

\* The same of the end of a transaction.
LEMMA EndSame ==
    ASSUME NEW l, NEW m, NEW k \in Nat \ {0}, Agree(l, m, k), EndOK(l, k)
    PROVE  EndOK(m, k)
<1>1. l[k] = m[k] /\ \A j \in 1 .. (k - 1) : l[j] = m[j]
  BY DEF Agree
<1>2. Begins(m, k)
  BY BeginsSame DEF EndOK
<1>3. l[k].trx \in 1 .. (k - 1)
  BY DEF EndOK, Begins
<1>4. ASSUME NEW j \in (m[k].trx + 1) .. (k - 1) PROVE ~CutsIn(m, j, m[k].s)
  <2>1. j \in 1 .. (k - 1) /\ j \in (l[k].trx + 1) .. (k - 1)
    BY <1>1, <1>3
  <2> QED
    BY <1>1, <2>1 DEF EndOK, CutsIn, Ends, IsQuit
<1> QED
  BY <1>2, <1>4 DEF EndOK

\* The same of any record.
LEMMA RecSame ==
    ASSUME NEW l, NEW m, NEW k \in Nat \ {0}, Agree(l, m, k), NEW K, NEW L, K \subseteq L, RecOK(l, K, k)
    PROVE  RecOK(m, L, k)
<1>1. l[k] = m[k] /\ \A j \in 1 .. (k - 1) : l[j] = m[j]
  BY DEF Agree
<1>2. PICK h \in Nat : h = k - 1
  OBVIOUS
<1>3. Agree(l, m, h)
  BY <1>2, AgreeLess
<1>4. \A i \in 1 .. h : Stands(l, i, h) <=> Stands(m, i, h)
  BY <1>3, StandsSame
<1>5. m[k].t = "Node" => NodeOK(m, L, k)
  BY <1>1, NodeSame DEF RecOK
<1>6. m[k].t = "Undo" => UndoOK(m, k)
  BY <1>1, UndoSame DEF RecOK
<1>7. m[k].t = "UndoInfo" => InfoOK(m, k)
  BY <1>1, InfoSame DEF RecOK
<1>8. m[k].t = "Commit0" => CommitOK(m, k)
  <2> SUFFICES ASSUME m[k].t = "Commit0" PROVE CommitOK(m, k)
    OBVIOUS
  <2>1. CommitOK(l, k)
    BY <1>1 DEF RecOK
  <2>2. EndOK(m, k)
    BY <2>1, EndSame DEF CommitOK
  <2> QED
    BY <1>1, <2>1, <2>2 DEF CommitOK
<1>9. m[k].t = "Rollback" => RollbackOK(m, k)
  <2> SUFFICES ASSUME m[k].t = "Rollback" PROVE RollbackOK(m, k)
    OBVIOUS
  <2>1. RollbackOK(l, k)
    BY <1>1 DEF RecOK
  <2>2. EndOK(m, k)
    BY <2>1, EndSame DEF RollbackOK
  <2> QED
    BY <1>1, <1>2, <1>4, <2>1, <2>2 DEF RollbackOK
<1>10. m[k].t = "Begin0" => BeginOK(m, k)
  <2> SUFFICES ASSUME m[k].t = "Begin0", NEW b \in 1 .. (k - 1), m[b].t = "Begin0", m[b].s = m[k].s
               PROVE  \E e \in (b + 1) .. (k - 1) : Ends(m, e, m[k].s)
    BY DEF BeginOK
  <2>1. PICK e \in (b + 1) .. (k - 1) : Ends(l, e, l[k].s)
    BY <1>1 DEF RecOK, BeginOK
  <2>2. l[e] = m[e]
    BY <1>1
  <2> QED
    BY <1>1, <2>1, <2>2 DEF Ends, IsQuit
<1>11. IsQuit(m, k) => QuitOK(m, L, k)
  <2> SUFFICES ASSUME IsQuit(m, k), NEW i \in 1 .. h, m[i].t = "Node", Stands(m, i, h)
               PROVE  CommittedBy(m, L, m[i].trx, h)
    BY <1>2 DEF QuitOK
  <2>1. QuitOK(l, K, k)
    BY <1>1 DEF RecOK, IsQuit
  <2>2. CommittedBy(l, K, l[i].trx, h) /\ l[i] = m[i]
    BY <1>1, <1>2, <1>4, <2>1 DEF QuitOK
  <2> QED
    BY <1>3, <2>2, CommittedSame
<1> QED
  BY <1>5, <1>6, <1>7, <1>8, <1>9, <1>10, <1>11 DEF RecOK

\* Logs that agree make the same of a node.
LEMMA NetSame ==
    ASSUME NEW l, NEW m, NEW h \in Nat, Agree(l, m, h), NetOK(l, h)
    PROVE  NetOK(m, h)
<1> SUFFICES ASSUME NEW n \in Node PROVE \E v \in Value : Shows(m, n, 1 .. h, v) /\ Nets(m, n, h, v)
  BY DEF NetOK
<1>1. PICK v \in Value : Shows(l, n, 1 .. h, v) /\ Nets(l, n, h, v)
  BY DEF NetOK
<1>2. Shows(m, n, 1 .. h, v)
  BY <1>1, ShowsAgree
<1>3. \A i \in 1 .. h : (StandsOn(l, n, i, h) <=> StandsOn(m, n, i, h)) /\ l[i] = m[i]
  BY StandsOnSame DEF Agree
<1>4. Nets(m, n, h, v)
  BY <1>1, <1>3 DEF Nets
<1> QED
  BY <1>2, <1>4

\* A record that is not about a page leaves what the log makes of a node.
LEMMA NetPlain ==
    ASSUME NEW l, NEW h \in Nat, NEW k, k = h + 1, NetOK(l, h), l[k].t \notin {"Node", "Undo"}
    PROVE  NetOK(l, k)
<1> SUFFICES ASSUME NEW n \in Node PROVE \E v \in Value : Shows(l, n, 1 .. k, v) /\ Nets(l, n, k, v)
  BY DEF NetOK
<1>1. PICK v \in Value : Shows(l, n, 1 .. h, v) /\ Nets(l, n, h, v)
  BY DEF NetOK
<1>2. \A i : i \in 1 .. k <=> (i \in 1 .. h \/ i = k)
  OBVIOUS
<1>3. ~NodeOn(l, n, k)
  BY DEF NodeOn
<1>4. Shows(l, n, 1 .. k, v)
  <2>1. \A i : (i \in 1 .. h /\ NodeOn(l, n, i)) <=> (i \in 1 .. k /\ NodeOn(l, n, i))
    BY <1>2, <1>3
  <2> QED
    BY <1>1, <2>1, ShowsSame
<1>5. ~StandsOn(l, n, k, k)
  BY DEF StandsOn
<1>6. \A i \in 1 .. h : StandsOn(l, n, i, h) <=> StandsOn(l, n, i, k)
  BY <1>2 DEF StandsOn, Stands
<1>7. Nets(l, n, k, v)
  BY <1>1, <1>2, <1>5, <1>6 DEF Nets
<1> QED
  BY <1>4, <1>7

\* A new change of a node is what the log makes of it.
LEMMA NetNode ==
    ASSUME NEW l, NEW h \in Nat, NEW k, k = h + 1, NetOK(l, h), l[k].t = "Node", l[k].val \in Value
    PROVE  NetOK(l, k)
<1> SUFFICES ASSUME NEW n \in Node PROVE \E v \in Value : Shows(l, n, 1 .. k, v) /\ Nets(l, n, k, v)
  BY DEF NetOK
<1>1. \A i : i \in 1 .. k <=> (i \in 1 .. h \/ i = k)
  OBVIOUS
<1>2. CASE n = l[k].node
  <2>1. NodeOn(l, n, k) /\ StandsOn(l, n, k, k) /\ k \in 1 .. k /\ \A j \in 1 .. k : j <= k
    BY <1>2 DEF NodeOn, StandsOn, Stands
  <2> QED
    BY <2>1 DEF Shows, Nets
<1>3. CASE n # l[k].node
  <2>1. PICK v \in Value : Shows(l, n, 1 .. h, v) /\ Nets(l, n, h, v)
    BY DEF NetOK
  <2>2. ~NodeOn(l, n, k) /\ ~StandsOn(l, n, k, k)
    BY <1>3 DEF NodeOn, StandsOn
  <2>3. Shows(l, n, 1 .. k, v)
    <3>1. \A i : (i \in 1 .. h /\ NodeOn(l, n, i)) <=> (i \in 1 .. k /\ NodeOn(l, n, i))
      BY <1>1, <2>2
    <3> QED
      BY <2>1, <3>1, ShowsSame
  <2>4. \A i \in 1 .. h : StandsOn(l, n, i, h) <=> StandsOn(l, n, i, k)
    BY <1>1 DEF StandsOn, Stands
  <2>5. Nets(l, n, k, v)
    BY <1>1, <2>1, <2>2, <2>4 DEF Nets
  <2> QED
    BY <2>3, <2>5
<1> QED
  BY <1>2, <1>3

UniqueIds(l, h) == \A i, j \in 1 .. h : l[i].t = "Node" /\ l[j].t = "Node" /\ l[i].rceid = l[j].rceid => i = j

\* A change that is undone leaves what the log made of the node before it.
LEMMA NetUndo ==
    ASSUME NEW l, NEW h \in Nat, NEW k, k = h + 1, l[k].t = "Undo", l[k].val \in Value,
           UniqueIds(l, h), \A j \in 0 .. h : NetOK(l, j),
           \A j \in 1 .. k : l[j].t = "Undo" => UndoOK(l, j)
    PROVE  NetOK(l, k)
<1> SUFFICES ASSUME NEW n \in Node PROVE \E v \in Value : Shows(l, n, 1 .. k, v) /\ Nets(l, n, k, v)
  BY DEF NetOK
<1>1. \A i : i \in 1 .. k <=> (i \in 1 .. h \/ i = k)
  OBVIOUS
<1>2. k \in Nat /\ k \in 1 .. k /\ k - 1 = h
  OBVIOUS
<1>3. PICK i \in 1 .. h : About(l, i, k) /\ \A j \in (i + 1) .. h : ~StandsOn(l, l[k].node, j, h)
  BY <1>2 DEF UndoOK
<1>4. /\ l[i].t = "Node" /\ l[i].rceid = l[k].rceid /\ l[i].node = l[k].node
      /\ Shows(l, l[k].node, 1 .. (i - 1), l[k].val) /\ Stands(l, i, h)
  BY <1>2, <1>3 DEF About
<1>5. ~StandsOn(l, n, k, k)
  BY DEF StandsOn
<1>6. CASE n # l[k].node
  <2>1. PICK v \in Value : Shows(l, n, 1 .. h, v) /\ Nets(l, n, h, v)
    BY DEF NetOK
  <2>2. ~NodeOn(l, n, k)
    BY <1>6 DEF NodeOn
  <2>3. Shows(l, n, 1 .. k, v)
    <3>1. \A j : (j \in 1 .. h /\ NodeOn(l, n, j)) <=> (j \in 1 .. k /\ NodeOn(l, n, j))
      BY <1>1, <2>2
    <3> QED
      BY <2>1, <3>1, ShowsSame
  <2>4. ASSUME NEW j \in 1 .. h PROVE StandsOn(l, n, j, h) <=> StandsOn(l, n, j, k)
    <3>1. ASSUME l[j].t = "Node", l[j].node = n PROVE l[j].rceid # l[k].rceid
      BY <1>4, <1>6, <3>1 DEF UniqueIds
    <3> QED
      BY <1>1, <3>1 DEF StandsOn, Stands
  <2>5. Nets(l, n, k, v)
    BY <1>1, <1>5, <2>1, <2>4 DEF Nets
  <2> QED
    BY <2>3, <2>5
<1>7. CASE n = l[k].node
  <2>1. PICK v : v = l[k].val
    OBVIOUS
  <2>2. Shows(l, n, 1 .. k, v)
    <3>1. NodeOn(l, n, k) /\ k \in 1 .. k /\ \A j \in 1 .. k : j <= k
      BY <1>7 DEF NodeOn
    <3> QED
      BY <2>1, <3>1 DEF Shows
  <2>3. PICK g \in 0 .. h : g = i - 1
    OBVIOUS
  <2>4. Nets(l, n, g, v)
    <3>1. PICK w \in Value : Shows(l, n, 1 .. g, w) /\ Nets(l, n, g, w)
      BY DEF NetOK
    <3>2. Shows(l, n, 1 .. g, v) /\ 1 .. g \in SUBSET Nat
      BY <1>4, <1>7, <2>1, <2>3
    <3>3. w = v
      BY <3>1, <3>2, ShowsOne
    <3> QED
      BY <3>1, <3>3
  <2>5. ASSUME NEW j \in 1 .. k, StandsOn(l, n, j, k) PROVE j \in 1 .. g /\ StandsOn(l, n, j, g)
    <3>1. j \in 1 .. h /\ StandsOn(l, n, j, h)
      BY <1>1, <1>5, <2>5 DEF StandsOn, Stands
    <3>2. j # i
      BY <1>2, <1>4, <2>5 DEF StandsOn, Stands
    <3>3. ~(i < j)
      BY <1>3, <1>7, <3>1
    <3>4. j \in 1 .. g
      BY <2>3, <3>1, <3>2, <3>3
    <3> QED
      BY <2>3, <3>1, <3>4 DEF StandsOn, Stands
  <2>6. ASSUME NEW j \in 1 .. g, StandsOn(l, n, j, g) PROVE j \in 1 .. k /\ StandsOn(l, n, j, k)
    <3> SUFFICES ASSUME NEW u \in 1 .. k, j < u, l[u].t = "Undo", l[u].rceid = l[j].rceid PROVE FALSE
      BY <1>1, <2>3, <2>6 DEF StandsOn, Stands
    <3>1. l[j].t = "Node" /\ l[j].node = n /\ j \in 1 .. h /\ j < i
      BY <2>3, <2>6 DEF StandsOn
    <3>2. ~(u \in 1 .. g)
      BY <2>6 DEF StandsOn, Stands
    <3>3. u # i
      BY <1>4
    <3>4. u # k
      BY <1>4, <3>1 DEF UniqueIds
    <3>5. u \in (i + 1) .. h
      BY <1>1, <2>3, <3>2, <3>3, <3>4
    <3>6. PICK x \in 1 .. (u - 1) : About(l, x, u) /\ \A y \in (x + 1) .. (u - 1) : ~StandsOn(l, l[u].node, y, u - 1)
      BY DEF UndoOK
    <3>7. x = j /\ l[u].node = n
      BY <3>1, <3>5, <3>6 DEF UniqueIds, About
    <3>8. i \in (x + 1) .. (u - 1)
      BY <3>1, <3>5, <3>7
    <3>9. StandsOn(l, n, i, u - 1)
      BY <1>4, <1>7, <3>5 DEF StandsOn, Stands
    <3> QED
      BY <3>6, <3>7, <3>8, <3>9
  <2>7. Nets(l, n, k, v)
    BY <2>4, <2>5, <2>6 DEF Nets
  <2> QED
    BY <2>1, <2>2, <2>7
<1> QED
  BY <1>6, <1>7

\* Without records nothing has changed.
LEMMA NetNone == ASSUME NEW l PROVE NetOK(l, 0)
<1> SUFFICES ASSUME NEW n \in Node PROVE \E v \in Value : Shows(l, n, 1 .. 0, v) /\ Nets(l, n, 0, v)
  BY DEF NetOK
<1>1. \A j \in 1 .. 0 : FALSE
  OBVIOUS
<1>2. Initially(n) \in Value
  BY DEF Initially, Value, NoRec
<1>3. Shows(l, n, 1 .. 0, Initially(n)) /\ Nets(l, n, 0, Initially(n))
  BY <1>1 DEF Shows, Nets
<1> QED
  BY <1>2, <1>3

\* A version stays one while its change stands.
LEMMA VersionKept ==
    ASSUME NEW l, NEW m, NEW g \in Nat, NEW h \in Nat, g <= h, Agree(l, m, g), NEW s, NEW start, NEW r,
           NEW i \in 1 .. g, VersionAt(l, g, s, start, r, i),
           \A k \in (g + 1) .. h : ~(m[k].t = "Undo" /\ m[k].rceid = r.id)
    PROVE  VersionAt(m, h, s, start, r, i)
<1>1. l[i] = m[i]
  BY DEF Agree
<1>2. Stands(m, i, h)
  <2>1. Stands(m, i, g)
    BY StandsSame DEF VersionAt
  <2>2. m[i].rceid = r.id
    BY <1>1 DEF VersionAt
  <2> SUFFICES ASSUME NEW k \in 1 .. h, i < k PROVE ~(m[k].t = "Undo" /\ m[k].rceid = m[i].rceid)
    BY DEF Stands
  <2>3. k \in 1 .. g \/ k \in (g + 1) .. h
    OBVIOUS
  <2> QED
    BY <2>1, <2>2, <2>3 DEF Stands
<1>3. PICK e \in 0 .. g : e = i - 1
  OBVIOUS
<1>4. Shows(m, r.node, 1 .. e, r.before)
  <2>1. Agree(l, m, e)
    BY AgreeLess
  <2>2. Shows(l, r.node, 1 .. e, r.before)
    BY <1>3 DEF VersionAt
  <2> QED
    BY <2>1, <2>2, ShowsAgree
<1> QED
  BY <1>1, <1>2, <1>3, <1>4 DEF VersionAt

\* What stands later stood before.
LEMMA StoodBefore ==
    ASSUME NEW l, NEW m, NEW g \in Nat, NEW h \in Nat, g <= h, Agree(l, m, g), NEW i \in 1 .. g, Stands(m, i, h)
    PROVE  Stands(l, i, g)
BY DEF Stands, Agree

\* Records that concern no version of the session, and are no change of it.
Harmless(m, g, h, S) ==
    \A k \in (g + 1) .. h :
        /\ m[k].t = "Undo" => \A r \in S.rces : m[k].rceid # r.id
        /\ m[k].t = "Node" /\ IsOpen(S) => m[k].trx # S.start

\* The versions of a session stay in order while others work.
LEMMA SessStays ==
    ASSUME NEW l, NEW m, NEW g \in Nat, NEW h \in Nat, g <= h, Agree(l, m, g), NEW s, NEW S, NEW T,
           SessOK(l, g, s, S), T.start = S.start, T.rces = S.rces, T.deferred = S.deferred,
           T.st = "idle" => S.st = "idle", IsOpen(T) => IsOpen(S), Harmless(m, g, h, S)
    PROVE  SessOK(m, h, s, T)
<1>1. ASSUME NEW r \in T.rces PROVE \E i \in 1 .. h : VersionAt(m, h, s, T.start, r, i)
  <2>1. PICK i \in 1 .. g : VersionAt(l, g, s, S.start, r, i)
    BY <1>1 DEF SessOK
  <2>2. \A k \in (g + 1) .. h : ~(m[k].t = "Undo" /\ m[k].rceid = r.id)
    BY <1>1 DEF Harmless
  <2>3. VersionAt(m, h, s, S.start, r, i)
    BY <2>1, <2>2, VersionKept
  <2> QED
    BY <2>1, <2>3
<1>2. T.st = "idle" => T.rces = {}
  BY DEF SessOK
<1>3. ASSUME IsOpen(T), NEW i \in 1 .. h, m[i].t = "Node", m[i].trx = T.start, Stands(m, i, h)
      PROVE  (\E r \in T.rces : r.id = m[i].rceid) \/ m[i].rceid \in T.deferred
  <2>1. i \in 1 .. g
    BY <1>3 DEF Harmless
  <2>2. l[i] = m[i] /\ Stands(l, i, g)
    BY <1>3, <2>1, StoodBefore DEF Agree
  <2> QED
    BY <1>3, <2>1, <2>2 DEF SessOK
<1> QED
  BY <1>1, <1>2, <1>3 DEF SessOK

\* Undo information stays in the log.
LEMMA InfoStays ==
    ASSUME NEW l, NEW m, NEW g \in Nat, NEW h \in Nat, g <= h, Agree(l, m, g), NEW id
    PROVE  /\ InfoAt(l, g, id) => InfoAt(m, h, id)
           /\ InfoAt(m, h, id) => InfoAt(l, g, id) \/ \E k \in (g + 1) .. h : m[k].t = "UndoInfo" /\ m[k].rceid = id
<1>1. \A i \in 1 .. g : l[i] = m[i] /\ i \in 1 .. h
  BY DEF Agree
<1>2. \A i \in 1 .. h : i \in 1 .. g \/ i \in (g + 1) .. h
  OBVIOUS
<1>3. ASSUME InfoAt(l, g, id) PROVE InfoAt(m, h, id)
  BY <1>1, <1>3 DEF InfoAt
<1>4. ASSUME InfoAt(m, h, id) PROVE InfoAt(l, g, id) \/ \E k \in (g + 1) .. h : m[k].t = "UndoInfo" /\ m[k].rceid = id
  <2>1. PICK j \in 1 .. h : m[j].t = "UndoInfo" /\ m[j].rceid = id
    BY <1>4 DEF InfoAt
  <2>2. CASE j \in 1 .. g
    BY <1>1, <2>1, <2>2 DEF InfoAt
  <2>3. CASE j \in (g + 1) .. h
    BY <2>1, <2>3
  <2> QED
    BY <1>2, <2>2, <2>3
<1> QED
  BY <1>3, <1>4

\* What page p owes stays covered.
LEMMA CoveredKept ==
    ASSUME NEW l, NEW m, NEW p, NEW t, NEW u, NEW U, NEW V, NEW W, NEW X,
           Covered(l, p, t, U, W), W \subseteq X, \A j \in W : m[j] = l[j],
           \A i \in 1 .. Len(m) : Owes(m, p, i) /\ m[i].after <= u =>
              \/ i \in 1 .. Len(l) /\ l[i] = m[i] /\ l[i].after <= t /\ (l[i].rceid \in U => l[i].rceid \in V)
              \/ m[i].rceid \in V
              \/ \E j \in X : Covers(m, j, i)
    PROVE  Covered(m, p, u, V, X)
<1> SUFFICES ASSUME NEW i \in 1 .. Len(m), Owes(m, p, i), m[i].after <= u
             PROVE  m[i].rceid \in V \/ \E j \in X : Covers(m, j, i)
  BY DEF Covered
<1>1. CASE i \in 1 .. Len(l) /\ l[i] = m[i] /\ l[i].after <= t /\ (l[i].rceid \in U => l[i].rceid \in V)
  <2>1. Owes(l, p, i)
    BY <1>1 DEF Owes
  <2>2. CASE l[i].rceid \in U
    BY <1>1, <2>2
  <2>3. CASE \E j \in W : Covers(l, j, i)
    <3>1. PICK j \in W : Covers(l, j, i)
      BY <2>3
    <3>2. j \in X /\ m[j] = l[j]
      OBVIOUS
    <3> QED
      BY <1>1, <3>1, <3>2 DEF Covers
  <2> QED
    BY <1>1, <2>1, <2>2, <2>3 DEF Covered
<1> QED
  BY <1>1

\* The image of a page stays one if the records of its changes stay.
LEMMA ImageKept ==
    ASSUME NEW l, NEW m, NEW pg, NEW p, ImageOK(l, pg, p),
           \A i : LET Has(x) == i \in UpTo(x, pg.dbtime) /\ x[i].t \in {"Node", "Undo"} /\ PageOf[x[i].node] = p
                  IN  (Has(l) <=> Has(m)) /\ (Has(l) => l[i] = m[i])
    PROVE  ImageOK(m, pg, p)
<1> SUFFICES ASSUME NEW n \in Node, PageOf[n] = p PROVE Shows(m, n, UpTo(m, pg.dbtime), pg.img[n])
  BY DEF ImageOK
<1>1. PICK D, E, v : D = UpTo(l, pg.dbtime) /\ E = UpTo(m, pg.dbtime) /\ v = pg.img[n]
  OBVIOUS
<1>2. Shows(l, n, D, v)
  BY <1>1 DEF ImageOK
<1>3. \A i : (i \in D /\ NodeOn(l, n, i)) <=> (i \in E /\ NodeOn(m, n, i))
  BY <1>1 DEF NodeOn
<1>4. \A i \in D : NodeOn(l, n, i) => l[i].val = m[i].val
  BY <1>1 DEF NodeOn
<1> QED
  BY <1>1, <1>2, <1>3, <1>4, ShowsSame

\* Up to time v log m has the records about page p that log l has up to u, and
\* record k after them.
RecUpTo(l, t, p, i) == i \in UpTo(l, t) /\ l[i].t \in {"Node", "Undo"} /\ PageOf[l[i].node] = p
OneMore(l, m, u, v, p, k) ==
    \A i : /\ RecUpTo(m, v, p, i) <=> (RecUpTo(l, u, p, i) \/ i = k)
           /\ RecUpTo(l, u, p, i) => l[i] = m[i] /\ i < k

\* A record makes its change to a page.
LEMMA ImageChanged ==
    ASSUME NEW l, NEW m, NEW pg, NEW q, NEW p, NEW k, ImageOK(l, pg, p),
           k \in UpTo(m, q.dbtime), m[k].t \in {"Node", "Undo"}, UpTo(l, pg.dbtime) \subseteq Nat, UpTo(m, q.dbtime) \subseteq Nat,
           OneMore(l, m, pg.dbtime, q.dbtime, p, k),
           q.img[m[k].node] = m[k].val, \A n \in Node : PageOf[n] = p /\ n # m[k].node => q.img[n] = pg.img[n]
    PROVE  ImageOK(m, q, p)
<1> SUFFICES ASSUME NEW n \in Node, PageOf[n] = p PROVE Shows(m, n, UpTo(m, q.dbtime), q.img[n])
  BY DEF ImageOK
<1>1. PICK D, E, v : D = UpTo(l, pg.dbtime) /\ E = UpTo(m, q.dbtime) /\ v = pg.img[n]
  OBVIOUS
<1>2. Shows(l, n, D, v)
  BY <1>1 DEF ImageOK
<1>3. CASE n = m[k].node
  <2>1. NodeOn(m, n, k) /\ k \in E /\ m[k].val = q.img[n]
    BY <1>1, <1>3 DEF NodeOn
  <2>2. ASSUME NEW j \in E, NodeOn(m, n, j) PROVE j <= k
    <3>1. j = k \/ j < k
      BY <1>1, <2>2 DEF NodeOn, OneMore, RecUpTo
    <3>2. j \in Nat /\ k \in Nat
      BY <1>1
    <3> QED
      BY <3>1, <3>2
  <2> QED
    BY <1>1, <2>1, <2>2 DEF Shows
<1>4. CASE n # m[k].node
  <2>1. \A i : (i \in D /\ NodeOn(l, n, i)) <=> (i \in E /\ NodeOn(m, n, i))
    BY <1>1, <1>4 DEF NodeOn, OneMore, RecUpTo
  <2>2. \A i \in D : NodeOn(l, n, i) => l[i].val = m[i].val
    BY <1>1 DEF NodeOn, OneMore, RecUpTo
  <2>3. q.img[n] = v
    BY <1>1, <1>4
  <2> QED
    BY <1>1, <1>2, <2>1, <2>2, <2>3, ShowsSame
<1> QED
  BY <1>3, <1>4

\* Transactions stay open or what stands of them is committed; what stands of
\* those that began before c is committed; new changes are of open transactions.
Stay(m, L, g, h, A, B) ==
    \A s \in Session : IsOpen(A[s]) =>
        \/ IsOpen(B[s]) /\ B[s].start = A[s].start
        \/ \A i \in 1 .. g : m[i].t = "Node" /\ m[i].trx = A[s].start /\ Stands(m, i, h) => CommittedBy(m, L, m[i].trx, h)
Past(m, L, g, h, c) ==
    \A i \in 1 .. g : m[i].t = "Node" /\ m[i].trx < c /\ Stands(m, i, h) => CommittedBy(m, L, m[i].trx, h)
Join(m, g, h, B, d) ==
    \A k \in (g + 1) .. h : m[k].t = "Node" => (\E s \in Session : IsOpen(B[s]) /\ B[s].start = m[k].trx) \/ m[k].trx < d

\* What stands stays accounted for.
LEMMA ResolvedStays ==
    ASSUME NEW l, NEW m, NEW g \in Nat, NEW h \in Nat, g <= h, Agree(l, m, g), NEW K, NEW L, K \subseteq L,
           NEW A, NEW B, NEW c \in Nat, NEW d \in Nat, ResolvedAt(l, K, g, A, c), \A i \in 1 .. g : m[i].trx \in Nat,
           Stay(m, L, g, h, A, B), c <= d \/ Past(m, L, g, h, c), Join(m, g, h, B, d)
    PROVE  ResolvedAt(m, L, h, B, d)
<1> SUFFICES ASSUME NEW i \in 1 .. h, m[i].t = "Node", Stands(m, i, h)
             PROVE  \/ CommittedBy(m, L, m[i].trx, h)
                    \/ \E s \in Session : IsOpen(B[s]) /\ B[s].start = m[i].trx
                    \/ m[i].trx < d
  BY DEF ResolvedAt
<1>1. CASE i \in (g + 1) .. h
  BY <1>1 DEF Join
<1>2. CASE i \in 1 .. g
  <2>1. l[i] = m[i] /\ Stands(l, i, g)
    BY <1>2, StoodBefore DEF Agree
  <2>2. CASE CommittedBy(l, K, l[i].trx, g)
    <3>1. CommittedBy(m, L, m[i].trx, g)
      BY <2>1, <2>2, CommittedSame
    <3> QED
      BY <3>1, CommittedLater
  <2>3. CASE \E s \in Session : IsOpen(A[s]) /\ A[s].start = l[i].trx
    <3>1. PICK s \in Session : IsOpen(A[s]) /\ A[s].start = m[i].trx
      BY <2>1, <2>3
    <3>2. CASE IsOpen(B[s]) /\ B[s].start = A[s].start
      BY <3>1, <3>2
    <3>3. CASE \A j \in 1 .. g : m[j].t = "Node" /\ m[j].trx = A[s].start /\ Stands(m, j, h) => CommittedBy(m, L, m[j].trx, h)
      BY <1>2, <3>1, <3>3
    <3> QED
      BY <3>1, <3>2, <3>3 DEF Stay
  <2>4. CASE l[i].trx < c
    <3>1. m[i].trx \in Nat /\ m[i].trx < c
      BY <1>2, <2>1, <2>4
    <3>2. CASE c <= d
      BY <3>1, <3>2
    <3>3. CASE \A j \in 1 .. g : m[j].t = "Node" /\ m[j].trx < c /\ Stands(m, j, h) => CommittedBy(m, L, m[j].trx, h)
      BY <1>2, <3>1, <3>3
    <3> QED
      BY <3>2, <3>3 DEF Past
  <2> QED
    BY <1>2, <2>1, <2>2, <2>3, <2>4 DEF ResolvedAt
<1> QED
  BY <1>1, <1>2

\* Outside of redo nothing that began before the checkpoint is open.
LEMMA PassedFrom ==
    ASSUME NEW l, Len(l) \in Nat, NEW K, NEW A, NEW c \in Nat, ResolvedAt(l, K, Len(l), A, 0), \A i \in 1 .. Len(l) : l[i].trx \in Nat,
           \A s \in Session : IsOpen(A[s]) => c <= A[s].start
    PROVE  PassedAt(l, K, c)
<1> SUFFICES ASSUME NEW i \in 1 .. Len(l), l[i].t = "Node", l[i].trx < c, Stands(l, i, Len(l))
             PROVE  CommittedBy(l, K, l[i].trx, Len(l))
  BY DEF PassedAt
<1>1. l[i].trx \in Nat
  OBVIOUS
<1>2. ~(l[i].trx < 0)
  BY <1>1
<1>3. ~\E s \in Session : IsOpen(A[s]) /\ A[s].start = l[i].trx
  BY <1>1
<1> QED
  BY <1>2, <1>3 DEF ResolvedAt

-----------------------------------------------------------------------------
(* The state before a step *)

\* Positions and numbers.
LEMMA Numbers ==
    ASSUME RecInv
    PROVE  /\ LogTypes /\ PageTypes /\ SessTypes /\ Bounds /\ Len(log) \in Nat /\ Horizon \in Nat /\ Horizon <= Len(log)
           /\ \A i \in 1 .. Horizon : i \in Idx
           /\ \A i \in Idx : i \in Nat /\ i \in 1 .. Len(log) /\ log[i].trx \in Nat /\ log[i].after \in Nat /\ log[i].s \in Nat
           /\ mode # "redo" => Horizon = Len(log)
           /\ mode = "redo" => Horizon = redo
<1>1. LogTypes /\ PageTypes /\ SessTypes /\ Bounds
  BY DEF RecInv, Types, LogInv
<1>2. Len(log) \in Nat /\ Horizon \in Nat /\ Horizon <= Len(log)
  BY <1>1 DEF LogTypes, Bounds, Horizon
<1>3. \A i \in Idx : i \in Nat /\ i \in 1 .. Len(log)
  BY <1>2 DEF Idx
<1>4. \A i \in Idx : log[i].trx \in Nat /\ log[i].after \in Nat /\ log[i].s \in Nat
  BY <1>1, OfLog
<1>5. \A i \in 1 .. Horizon : i \in Idx
  BY <1>2 DEF Idx
<1>6. /\ mode # "redo" => Horizon = Len(log)
      /\ mode = "redo" => Horizon = redo
  BY DEF Horizon
<1> QED
  BY <1>1, <1>2, <1>3, <1>4, <1>5, <1>6

\* Changes have rceids of their own.
LEMMA Unique == ASSUME RecInv, LogOK PROVE UniqueIds(log, Len(log))
<1> SUFFICES ASSUME NEW i \in Idx, NEW j \in Idx, log[i].t = "Node", log[j].t = "Node", log[i].rceid = log[j].rceid PROVE i = j
  BY DEF UniqueIds, Idx
<1>1. log[i].rceid = log[i].after /\ log[j].rceid = log[j].after
  BY DEF LogOK, RecOK, NodeOK
<1>2. i \in Nat /\ j \in Nat /\ log[i].after \in Nat /\ log[j].after \in Nat
  BY Numbers
<1>3. PageRec(i) /\ PageRec(j)
  BY DEF PageRec
<1>4. (i < j => log[i].after < log[j].after) /\ (j < i => log[j].after < log[i].after)
  BY <1>3 DEF RecInv, LogInv, Order
<1>5. PICK a \in Nat, b \in Nat : a = log[i].after /\ b = log[j].after
  BY <1>2
<1>6. a = b
  BY <1>1, <1>5
<1>7. ~(i < j) /\ ~(j < i)
  BY <1>4, <1>5, <1>6
<1> QED
  BY <1>2, <1>7

\* A version has an rceid of its own.
LEMMA VersionUnique ==
    ASSUME RecInv, LogOK, Versions, NEW s \in Session, NEW v \in Session, NEW r \in sess[s].rces, NEW q \in sess[v].rces,
           r.id = q.id
    PROVE  s = v /\ r = q
<1>1. PICK i \in 1 .. Horizon : VersionAt(log, Horizon, s, sess[s].start, r, i)
  BY DEF Versions, SessOK
<1>2. PICK j \in 1 .. Horizon : VersionAt(log, Horizon, v, sess[v].start, q, j)
  BY DEF Versions, SessOK
<1>3. i = j
  <2>1. i \in 1 .. Len(log) /\ j \in 1 .. Len(log)
    BY Numbers
  <2> QED
    BY <1>1, <1>2, <2>1, Unique DEF VersionAt, UniqueIds
<1>4. s = v /\ r.node = q.node /\ r.oper = q.oper
  BY <1>1, <1>2, <1>3 DEF VersionAt
<1>5. r.before = q.before
  <2>1. /\ Shows(log, r.node, 1 .. (i - 1), r.before) /\ Shows(log, r.node, 1 .. (i - 1), q.before)
        /\ 1 .. (i - 1) \in SUBSET Nat
    BY <1>1, <1>2, <1>3, <1>4 DEF VersionAt
  <2> QED
    BY <2>1, ShowsOne
<1>6. r \in RCE /\ q \in RCE
  BY OfSess DEF RecInv, Types
<1> QED
  BY <1>4, <1>5, <1>6 DEF RCE

\* An open transaction is not committed.
LEMMA OpenNotCommitted ==
    ASSUME RecInv, LogOK, KeptTrx, NEW s \in Session, Open(s), NEW h \in 0 .. Horizon
    PROVE  ~CommittedBy(log, kept, sess[s].start, h)
<1>1. /\ sess[s].start \in Idx /\ log[sess[s].start].s = s /\ chk.lgpos <= sess[s].start
      /\ \A k \in Idx : sess[s].start < k /\ k <= Horizon => ~Cuts(k, s)
  BY DEF RecInv, SessInv, OpenTrx
<1>2. sess[s].start \in Nat /\ chk.lgpos \in Nat
  BY <1>1, Numbers DEF LogTypes
<1>3. sess[s].start \notin kept
  BY <1>1, <1>2 DEF KeptTrx
<1>4. ASSUME NEW c \in 1 .. h, log[c].t = "Commit0", log[c].trx = sess[s].start PROVE FALSE
  <2>1. c \in Idx /\ c \in Nat /\ c <= Horizon
    BY Numbers
  <2>2. Begins(log, c)
    BY <1>4, <2>1 DEF LogOK, RecOK, CommitOK, EndOK
  <2>3. sess[s].start < c /\ log[c].s = s
    BY <1>1, <1>2, <1>4, <2>1, <2>2 DEF Begins
  <2> QED
    BY <1>1, <1>4, <2>1, <2>3 DEF Cuts
<1> QED
  BY <1>3, <1>4 DEF CommittedBy

\* Positions and numbers after a step.
LEMMA NumbersNext ==
    ASSUME RecInv'
    PROVE  /\ LogTypes' /\ PageTypes' /\ SessTypes' /\ Bounds' /\ Len(log') \in Nat /\ Horizon' \in Nat /\ Horizon' <= Len(log')
           /\ \A i \in 1 .. Horizon' : i \in Idx'
           /\ \A i \in Idx' : i \in Nat /\ i \in 1 .. Len(log') /\ log'[i].trx \in Nat /\ log'[i].after \in Nat /\ log'[i].s \in Nat
           /\ mode' # "redo" => Horizon' = Len(log')
           /\ mode' = "redo" => Horizon' = redo'
           /\ chk'.lgpos \in Nat /\ Skipped' \in Nat
<1>1. LogTypes' /\ PageTypes' /\ SessTypes' /\ Bounds'
  BY DEF RecInv, Types, LogInv
<1>2. Len(log') \in Nat /\ Horizon' \in Nat /\ Horizon' <= Len(log')
  BY <1>1 DEF LogTypes, Bounds, Horizon
<1>3. \A i \in Idx' : i \in Nat /\ i \in 1 .. Len(log')
  BY <1>2 DEF Idx
<1>4. \A i \in Idx' : log'[i].trx \in Nat /\ log'[i].after \in Nat /\ log'[i].s \in Nat
  BY <1>1, OfLogNext
<1>5. \A i \in 1 .. Horizon' : i \in Idx'
  BY <1>2 DEF Idx
<1>6. /\ mode' # "redo" => Horizon' = Len(log')
      /\ mode' = "redo" => Horizon' = redo'
  BY DEF Horizon
<1>7. chk'.lgpos \in Nat /\ Skipped' \in Nat
  BY <1>1 DEF LogTypes, Skipped
<1> QED
  BY <1>1, <1>2, <1>3, <1>4, <1>5, <1>6, <1>7

\* A step that leaves log, sessions and mode alone.
Still ==
    /\ mode' = mode /\ log' = log /\ sess' = sess /\ redo' = redo /\ kept' = kept
    /\ durable <= durable' /\ waypoint <= waypoint' /\ chk.lgpos <= chk'.lgpos

\* What such a step leaves of the records.
LEMMA StillSame ==
    ASSUME RecInv, RecInv', Still
    PROVE  Idx' = Idx /\ Horizon' = Horizon /\ Surviving \subseteq Surviving' /\ chk.lgpos \in Nat /\ Skipped \in Nat /\ Skipped <= Skipped'
<1>1. Idx' = Idx /\ Horizon' = Horizon
  BY DEF Still, Idx, Horizon
<1>2. /\ durable \in Nat /\ durable' \in Nat /\ waypoint \in Nat /\ waypoint' \in Nat
      /\ chk.lgpos \in Nat /\ chk'.lgpos \in Nat
  BY Numbers, NumbersNext DEF LogTypes
<1>3. \A j \in Idx : Survives(j) => Survives(j)'
  BY <1>2, Numbers DEF Still, Survives
<1>4. Surviving \subseteq Surviving'
  BY <1>1, <1>3 DEF Surviving
<1>5. Skipped \in Nat /\ Skipped <= Skipped'
  BY <1>2 DEF Skipped, Still
<1> QED
  BY <1>1, <1>2, <1>4, <1>5

\* The checkpoint moves past transactions that are not open.
LEMMA StillPassed ==
    ASSUME RecInv, RecInv', Still, Resolved, Passed
    PROVE  Passed'
<1> SUFFICES ASSUME NEW i \in Idx, log[i].t = "Node", log[i].trx < chk'.lgpos, Stands(log, i, Len(log))
             PROVE  CommittedBy(log, kept, log[i].trx, Len(log))
  BY DEF Passed, PassedAt, Still, Idx
<1>1. /\ Len(log) \in Nat /\ Horizon \in Nat /\ Horizon <= Len(log) /\ i \in Nat /\ i \in 1 .. Len(log) /\ log[i].trx \in Nat
      /\ chk'.lgpos \in Nat /\ chk.lgpos \in Nat /\ Bounds' /\ LogTypes
  BY Numbers, NumbersNext DEF LogTypes
<1>2. CASE log[i].trx < chk.lgpos
  BY <1>1, <1>2 DEF Passed, PassedAt
<1>3. \A s \in Session : Open(s) => sess[s].start \in Nat /\ chk'.lgpos <= sess[s].start
  <2>1. \A s \in Session : sess[s].start \in Nat
    BY Numbers, OfSess
  <2>2. \A s \in Session : Open(s)' => chk'.lgpos <= sess'[s].start
    BY DEF RecInv, SessInv, OpenTrx
  <2> QED
    BY <2>1, <2>2 DEF Still, Open
<1>4. CASE ~(log[i].trx < chk.lgpos) /\ i <= Horizon
  <2>1. Stands(log, i, Horizon) /\ i \in 1 .. Horizon
    BY <1>1, <1>4 DEF Stands
  <2>2. ~(\E s \in Session : IsOpen(sess[s]) /\ sess[s].start = log[i].trx)
    BY <1>1, <1>3 DEF IsOpen, Open
  <2>3. ~(log[i].trx < Skipped)
    BY <1>1, <1>4 DEF Skipped
  <2>4. CommittedBy(log, kept, log[i].trx, Horizon)
    BY <2>1, <2>2, <2>3 DEF Resolved, ResolvedAt
  <2> QED
    BY <1>1, <2>4, CommittedLater
<1>5. CASE ~(log[i].trx < chk.lgpos) /\ ~(i <= Horizon)
  <2>1. mode = "redo" /\ Horizon = redo /\ redo < i /\ redo \in Nat
    BY <1>1, <1>5, Numbers
  <2>2. mode' = "redo" /\ redo' = redo
    BY <2>1 DEF Still
  <2>3. log[i].trx <= redo
    BY <1>1, <2>1, <2>2 DEF Bounds
  <2>4. PageRec(i)
    BY DEF PageRec
  <2>5. IF sess[log[i].s].afterBT THEN Open(log[i].s) /\ sess[log[i].s].start = log[i].trx ELSE log[i].trx < chk.lgpos
    BY <2>1, <2>3, <2>4 DEF RecInv, SessInv, InRedo
  <2>6. log[i].s \in Session
    BY <1>1, OfLog DEF TrxType, NodeType
  <2> QED
    BY <1>1, <1>3, <1>5, <2>5, <2>6
<1> QED
  BY <1>2, <1>4, <1>5

\* The log and the transactions in such a step.
LEMMA StillTrx ==
    ASSUME RecInv, RecInv', Still, LogOK, TrxState
    PROVE  LogOK' /\ TrxState'
<1>0. Resolved /\ Passed /\ KeptTrx
  BY DEF TrxState
<1>1. LogOK'
  BY DEF LogOK, Still, Idx
<1>2. Passed'
  BY <1>0, StillPassed
<1>3. KeptTrx'
  <2>1. chk.lgpos \in Nat /\ chk'.lgpos \in Nat /\ chk.lgpos <= chk'.lgpos
    BY StillSame, NumbersNext DEF Still
  <2> QED
    BY <1>0, <2>1 DEF KeptTrx, Still
<1>4. Resolved'
  <2>1. Horizon' = Horizon /\ Skipped \in Nat /\ Skipped' \in Nat /\ Skipped <= Skipped' /\ log' = log /\ sess' = sess /\ kept' = kept
    BY StillSame, NumbersNext DEF Still
  <2>2. \A i \in 1 .. Horizon : log[i].trx \in Nat
    BY Numbers
  <2>3. PICK d \in Nat : d = Skipped'
    BY <2>1
  <2>4. ResolvedAt(log, kept, Horizon, sess, d)
    BY <1>0, <2>1, <2>2, <2>3 DEF Resolved, ResolvedAt
  <2> QED
    BY <2>1, <2>3, <2>4 DEF Resolved
<1> QED
  BY <1>1, <1>2, <1>3, <1>4 DEF TrxState

\* The sessions in such a step, if no page owes more or less.
LEMMA StillSess ==
    ASSUME RecInv, RecInv', Still, SessState, \A p \in Page : buf'[p].undoInfo = buf[p].undoInfo
    PROVE  SessState'
<1>0. Horizon' = Horizon /\ Idx' = Idx /\ log' = log /\ sess' = sess /\ mode' = mode /\ redo' = redo
  BY StillSame DEF Still
<1>1. Versions' /\ Deferred' /\ Runs' /\ CommitsOwn'
  BY <1>0 DEF SessState, Versions, Deferred, Runs, CommitsOwn
<1>2. Owing'
  <2> SUFFICES ASSUME NEW s \in Session, NEW r \in sess[s].rces, NeedsUndoInfo(r)
               PROVE  r.id \in buf'[PageOf[r.node]].undoInfo \/ InfoAt(log, Horizon, r.id)
    BY <1>0 DEF Owing, OwingOK
  <2>1. r \in RCE
    BY Numbers, OfSess
  <2>2. PageOf[r.node] \in Page
    BY <2>1, Constants DEF RCE
  <2>3. r.id \in buf[PageOf[r.node]].undoInfo \/ InfoAt(log, Horizon, r.id)
    BY DEF SessState, Owing, OwingOK
  <2> QED
    BY <2>2, <2>3
<1>3. Owned'
  BY <1>0 DEF SessState, Owned
<1>4. EndInRedo'
  <2> SUFFICES ASSUME mode = "redo", NEW i \in Idx, redo < i, log[i].t \in {"Commit0", "Rollback"}, log[i].trx <= redo
               PROVE  IF sess[log[i].s].afterBT THEN Open(log[i].s) /\ sess[log[i].s].start = log[i].trx
                      ELSE log[i].trx < chk'.lgpos
    BY <1>0 DEF EndInRedo, Open
  <2>1. log[i].trx \in Nat /\ chk.lgpos \in Nat /\ chk'.lgpos \in Nat /\ chk.lgpos <= chk'.lgpos
    BY Numbers, NumbersNext, StillSame DEF Still
  <2> QED
    BY <2>1 DEF SessState, EndInRedo
<1> QED
  BY <1>1, <1>2, <1>3, <1>4 DEF SessState

\* The pages in such a step, if they stay.
LEMMA StillPages ==
    ASSUME RecInv, RecInv', Still, PageState, buf' = buf, disk' = disk
    PROVE  PageState'
<1>1. Surviving \subseteq Surviving' /\ log' = log
  BY StillSame DEF Still
<1>2. Images'
  BY <1>1 DEF PageState, Images
<1>3. DiskCovered'
  BY <1>1 DEF PageState, DiskCovered, Covered
<1>4. BufCovered'
  <2>1. \A p \in Page : Held(p) \subseteq Held(p)'
    BY <1>1 DEF Held
  <2> QED
    BY <1>1, <2>1 DEF PageState, BufCovered, Covered
<1> QED
  BY <1>2, <1>3, <1>4 DEF PageState

-----------------------------------------------------------------------------
(* Steps that leave log and sessions alone *)

\* WriteLog, AdvanceWaypoint and the checkpoint.
LEMMA QuietState ==
    ASSUME RecInv, RecInv', StateInv, WriteLog \/ AdvanceWaypoint \/ CkptTip \/ CkptSessions \/ CkptPages
    PROVE  StateInv'
<1>a. durable \in Nat /\ waypoint \in Nat /\ redo \in Nat /\ chk.lgpos \in Nat /\ Len(log) \in Nat
  BY Numbers DEF LogTypes
<1>b. durable' \in Nat /\ waypoint' \in Nat
  BY NumbersNext DEF LogTypes
<1>1. /\ durable \in Nat /\ durable' \in Nat /\ waypoint \in Nat /\ waypoint' \in Nat /\ WriteTip \in Nat
      /\ chk.lgpos \in Nat /\ Len(log) \in Nat
  BY <1>a, <1>b DEF WriteTip
<1>2. mode' = mode /\ log' = log /\ sess' = sess /\ redo' = redo /\ kept' = kept /\ buf' = buf /\ disk' = disk
  BY DEF WriteLog, AdvanceWaypoint, CkptTip, CkptSessions, CkptPages
<1>3. durable <= durable'
  <2>1. CASE WriteLog
    <3>1. PICK k \in durable + 1 .. Len(log) : durable' = k
      BY <2>1 DEF WriteLog
    <3> QED
      BY <1>1, <3>1
  <2>2. CASE ~WriteLog
    BY <1>1, <2>2 DEF AdvanceWaypoint, CkptTip, CkptSessions, CkptPages
  <2> QED
    BY <2>1, <2>2
<1>4. waypoint <= waypoint'
  BY <1>1 DEF WriteLog, AdvanceWaypoint, CkptTip, CkptSessions, CkptPages
<1>5. chk.lgpos <= chk'.lgpos
  <2>1. CASE CkptPages
    <3>1. PICK a : a = OldestBegin0(ckpt.lgpos)
      OBVIOUS
    <3>2. chk' = IF a > chk.lgpos THEN [lgpos |-> a, dbtime |-> dbtime] ELSE chk
      BY <2>1, <3>1 DEF CkptPages
    <3>3. a \in Nat
      BY <3>1, Numbers, OldestIs
    <3> QED
      BY <1>1, <3>2, <3>3
  <2>2. CASE ~CkptPages
    BY <1>1, <2>2 DEF WriteLog, AdvanceWaypoint, CkptTip, CkptSessions
  <2> QED
    BY <2>1, <2>2
<1>6. Still
  BY <1>2, <1>3, <1>4, <1>5 DEF Still
<1>7. \A p \in Page : buf'[p].undoInfo = buf[p].undoInfo
  BY <1>2
<1> QED
  BY <1>2, <1>6, <1>7, StillTrx, StillSess, StillPages DEF StateInv

\* What a page that may be written depends on survives a crash.
LEMMA FlushableSurvives ==
    ASSUME RecInv, NEW p \in Page, Flushable(p), NEW i \in Idx, i <= buf[p].modify
    PROVE  Survives(i)
<1>1. durable \in Nat /\ Len(log) \in Nat /\ waypoint \in Nat /\ redo \in Nat /\ Bounds /\ buf[p].modify \in Nat /\ i \in Nat
  BY Numbers, OfPage DEF LogTypes
<1>2. buf[p].modify < Waypoint /\ buf[p].modify < WriteTip
  BY DEF Flushable
<1>3. LosesLogs => i < waypoint
  BY <1>1, <1>2 DEF Waypoint
<1>4. mode # "redo" => i <= durable
  BY <1>1, <1>2 DEF WriteTip
<1>5. mode = "redo" => i <= durable
  BY <1>1 DEF Bounds, Idx
<1> QED
  BY <1>3, <1>4, <1>5 DEF Survives

\* A page that is written has its undo information in the log that survives.
LEMMA FlushedCovered ==
    ASSUME RecInv, PageState, NEW p \in Page, Flushable(p)
    PROVE  Covered(log, p, buf[p].pg.dbtime, {}, Surviving)
<1>1. Held(p) \cap Idx \subseteq Surviving
  <2> SUFFICES ASSUME NEW j \in 1 .. buf[p].modify, j \in Idx PROVE j \in Surviving
    BY DEF Held, Surviving
  <2>1. j <= buf[p].modify
    BY Numbers, OfPage
  <2> QED
    BY <2>1, FlushableSurvives DEF Surviving
<1>2. Covered(log, p, buf[p].pg.dbtime, {}, Held(p))
  BY DEF PageState, BufCovered, Flushable
<1>3. Held(p) \subseteq Idx
  <2>1. buf[p].modify \in Nat /\ buf[p].modify <= Horizon /\ Horizon \in Nat /\ Horizon <= Len(log) /\ Len(log) \in Nat
    BY Numbers, OfPage DEF RecInv, PageInv, BufBounds
  <2> QED
    BY <2>1 DEF Held, Surviving, Idx
<1> QED
  BY <1>1, <1>2, <1>3 DEF Covered

\* FlushPage.
LEMMA FlushPageState == ASSUME RecInv, RecInv', StateInv, NEW p \in Page, FlushPage(p) PROVE StateInv'
<1>0. PageTypes /\ PageState
  BY Numbers DEF StateInv
<1>1. Flushable(p) /\ disk' = [disk EXCEPT ![p] = buf[p].pg] /\ buf' = [buf EXCEPT ![p] = CleanBuf(buf[p].pg)]
  BY DEF FlushPage
<1>2. disk'[p] = buf[p].pg /\ buf'[p] = CleanBuf(buf[p].pg)
  BY <1>0, <1>1 DEF PageTypes
<1>3. \A q \in Page \ {p} : disk'[q] = disk[q] /\ buf'[q] = buf[q]
  BY <1>0, <1>1 DEF PageTypes
<1>4. Still
  <2>1. durable \in Nat /\ waypoint \in Nat /\ chk.lgpos \in Nat
    BY Numbers DEF LogTypes
  <2> QED
    BY <2>1 DEF FlushPage, Still
<1>5. \A q \in Page : buf'[q].undoInfo = buf[q].undoInfo
  <2>1. buf[p].undoInfo = {} /\ CleanBuf(buf[p].pg).undoInfo = {}
    BY <1>1 DEF Flushable, CleanBuf
  <2> QED
    BY <1>2, <1>3, <2>1
<1>6. Surviving \subseteq Surviving' /\ log' = log
  BY <1>4, StillSame DEF Still
<1>7. buf'[p].pg = buf[p].pg
  BY <1>2 DEF CleanBuf
<1>8. Images'
  <2> SUFFICES ASSUME NEW q \in Page PROVE ImageOK(log, disk'[q], q) /\ ImageOK(log, buf'[q].pg, q)
    BY <1>6 DEF Images
  <2> QED
    BY <1>0, <1>2, <1>3, <1>7 DEF PageState, Images
<1>9. DiskCovered'
  <2> SUFFICES ASSUME NEW q \in Page PROVE Covered(log, q, disk'[q].dbtime, {}, Surviving')
    BY <1>6 DEF DiskCovered
  <2>1. Covered(log, q, disk'[q].dbtime, {}, Surviving)
    <3>1. CASE q = p
      BY <1>0, <1>1, <1>2, <3>1, FlushedCovered
    <3>2. CASE q # p
      BY <1>0, <1>3, <3>2 DEF PageState, DiskCovered
    <3> QED
      BY <3>1, <3>2
  <2> QED
    BY <1>6, <2>1 DEF Covered
<1>10. BufCovered'
  <2> SUFFICES ASSUME NEW q \in Page PROVE Covered(log, q, buf'[q].pg.dbtime, buf'[q].undoInfo, Held(q)')
    BY <1>6 DEF BufCovered
  <2>1. CASE q = p
    <3>1. Covered(log, p, buf[p].pg.dbtime, {}, Surviving)
      BY <1>0, <1>1, FlushedCovered
    <3>2. Surviving \subseteq Held(p)'
      BY <1>6 DEF Held
    <3> QED
      BY <1>7, <2>1, <3>1, <3>2 DEF Covered
  <2>2. CASE q # p
    <3>1. Covered(log, q, buf[q].pg.dbtime, buf[q].undoInfo, Held(q))
      BY <1>0 DEF PageState, BufCovered
    <3>2. buf'[q] = buf[q]
      BY <1>3, <2>2
    <3>3. Held(q) \subseteq Held(q)'
      BY <1>6, <3>2 DEF Held
    <3> QED
      BY <3>1, <3>2, <3>3 DEF Covered
  <2> QED
    BY <2>1, <2>2
<1> QED
  BY <1>4, <1>5, <1>8, <1>9, <1>10, StillTrx, StillSess DEF StateInv, PageState

-----------------------------------------------------------------------------
(* Steps that log records *)

\* A step outside of redo, or the one that ends it.
Grow ==
    /\ mode' # "redo" /\ Horizon = Len(log) /\ Ext /\ kept' = kept /\ disk' = disk
    /\ durable <= durable' /\ waypoint <= waypoint' /\ chk.lgpos <= chk'.lgpos
Added == (Len(log) + 1) .. Len(log')

\* The records before and after such a step.
LEMMA GrowSame ==
    ASSUME RecInv, RecInv', Grow
    PROVE  /\ Len(log) \in Nat /\ Len(log') \in Nat /\ Len(log) <= Len(log') /\ Horizon = Len(log) /\ Horizon' = Len(log')
           /\ Agree(log, log', Len(log))
           /\ \A i \in Idx : i \in Idx' /\ i \in Nat /\ log'[i] = log[i]
           /\ \A k \in Idx' : k \in Nat /\ (k \in Idx \/ k \in Added)
           /\ \A k \in Added : k \in Idx' /\ k \notin Idx
           /\ Surviving \subseteq Surviving'
<1>1. Len(log) \in Nat /\ Len(log') \in Nat /\ Len(log) <= Len(log') /\ Horizon = Len(log) /\ Horizon' = Len(log')
  BY Numbers, NumbersNext DEF Grow, Ext
<1>2. \A i \in Idx : i \in Idx' /\ i \in Nat /\ log'[i] = log[i]
  BY <1>1 DEF Grow, Ext, Idx
<1>3. \A k \in Idx' : k \in Nat /\ (k \in Idx \/ k \in Added)
  BY <1>1 DEF Idx, Added
<1>4. \A k \in Added : k \in Idx' /\ k \notin Idx
  BY <1>1 DEF Idx, Added
<1>5. Agree(log, log', Len(log))
  BY <1>2 DEF Agree, Idx
<1>6. Surviving \subseteq Surviving'
  <2>1. durable \in Nat /\ waypoint \in Nat
    BY Numbers DEF LogTypes
  <2>2. durable' \in Nat /\ waypoint' \in Nat
    BY NumbersNext DEF LogTypes
  <2>3. \A j \in Idx : Survives(j) => Survives(j)'
    BY <1>2, <2>1, <2>2 DEF Grow, Survives
  <2> QED
    BY <1>2, <2>3 DEF Surviving
<1> QED
  BY <1>1, <1>2, <1>3, <1>4, <1>5, <1>6

\* What the log makes of a node, at any position.
LEMMA NetAt == ASSUME RecInv, LogOK, NEW h \in 0 .. Len(log) PROVE NetOK(log, h)
<1>1. Len(log) \in Nat
  BY Numbers
<1>2. CASE h = 0
  BY <1>2, NetNone
<1>3. CASE h # 0
  BY <1>1, <1>3 DEF LogOK, Idx
<1> QED
  BY <1>2, <1>3

\* The log after such a step.
LEMMA GrowLog ==
    ASSUME RecInv, RecInv', Grow, LogOK, \A k \in Added : RecOK(log', kept, k) /\ NetOK(log', k)
    PROVE  LogOK'
<1>0. kept' = kept
  BY DEF Grow
<1> SUFFICES ASSUME NEW k \in Idx' PROVE RecOK(log', kept, k) /\ NetOK(log', k)
  BY <1>0 DEF LogOK
<1>1. Len(log) \in Nat /\ Agree(log, log', Len(log)) /\ k \in Nat
  BY GrowSame
<1>2. CASE k \in Added
  BY <1>2
<1>3. CASE k \in Idx
  <2>1. k \in Nat \ {0} /\ k \in 0 .. Len(log)
    BY <1>1, <1>3 DEF Idx
  <2>2. Agree(log, log', k)
    BY <1>1, <2>1, AgreeLess
  <2>3. RecOK(log, kept, k) /\ NetOK(log, k)
    BY <1>3 DEF LogOK
  <2>4. RecOK(log', kept, k)
    BY <2>1, <2>2, <2>3, RecSame
  <2>5. NetOK(log', k)
    BY <2>1, <2>2, <2>3, NetSame
  <2> QED
    BY <2>4, <2>5
<1> QED
  BY <1>2, <1>3, GrowSame

\* What the log made of a node before.
LEMMA NetGrown == ASSUME RecInv, RecInv', Grow, LogOK, NEW h \in 0 .. Len(log) PROVE NetOK(log', h)
<1>1. Len(log) \in Nat /\ Agree(log, log', Len(log))
  BY GrowSame
<1>2. Agree(log, log', h) /\ h \in Nat
  BY <1>1, AgreeLess
<1>3. NetOK(log, h)
  BY NetAt
<1> QED
  BY <1>2, <1>3, NetSame

\* The log after one more record that changes no page.
LEMMA GrowOne ==
    ASSUME RecInv, RecInv', Grow, LogOK, Len(log') = Len(log) + 1, log'[Len(log) + 1].t \notin {"Node", "Undo"},
           RecOK(log', kept, Len(log) + 1)
    PROVE  LogOK'
<1>1. Len(log) \in Nat
  BY GrowSame
<1>2. PICK k : k = Len(log) + 1
  OBVIOUS
<1>3. NetOK(log', Len(log))
  BY <1>1, NetGrown
<1>4. NetOK(log', k)
  BY <1>1, <1>2, <1>3, NetPlain
<1>5. \A i \in Added : i = k
  BY <1>1, <1>2 DEF Added
<1> QED
  BY <1>2, <1>4, <1>5, GrowLog

\* The transactions after such a step.
LEMMA GrowTrx ==
    ASSUME RecInv, RecInv', Grow, TrxState,
           \A s \in Session : Open(s) =>
              \/ Open(s)' /\ sess'[s].start = sess[s].start
              \/ \A i \in Idx : log[i].t = "Node" /\ log[i].trx = sess[s].start /\ Stands(log', i, Len(log')) =>
                    CommittedBy(log', kept, log[i].trx, Len(log')),
           \A k \in Added : log'[k].t = "Node" => \E s \in Session : Open(s)' /\ sess'[s].start = log'[k].trx,
           \A k \in Added : log'[k].t = "Undo" => \E s \in Session : Open(s) /\ sess[s].start = log'[k].trx
    PROVE  TrxState'
<1>0. Resolved /\ Passed /\ KeptTrx /\ kept' = kept
  BY DEF TrxState, Grow
<1>1. /\ Len(log) \in Nat /\ Len(log') \in Nat /\ Len(log) <= Len(log') /\ Horizon = Len(log) /\ Horizon' = Len(log')
      /\ Agree(log, log', Len(log)) /\ \A i \in Idx : i \in Idx' /\ i \in Nat /\ log'[i] = log[i]
      /\ \A k \in Idx' : k \in Nat /\ (k \in Idx \/ k \in Added)
  BY GrowSame
<1>2. Skipped' = 0 /\ Skipped \in Nat /\ chk.lgpos \in Nat /\ chk'.lgpos \in Nat
  BY Numbers, NumbersNext DEF Grow, Skipped, LogTypes
<1>3. \A i \in 1 .. Len(log) : i \in Idx /\ log'[i] = log[i] /\ log'[i].trx \in Nat
  BY <1>1, Numbers DEF Idx
<1>4. Resolved'
  <2>1. \A s \in Session : IsOpen(sess[s]) =>
           \/ IsOpen(sess'[s]) /\ sess'[s].start = sess[s].start
           \/ \A i \in 1 .. Len(log) : log'[i].t = "Node" /\ log'[i].trx = sess[s].start /\ Stands(log', i, Len(log')) =>
                 CommittedBy(log', kept, log'[i].trx, Len(log'))
    BY <1>3 DEF IsOpen, Open
  <2>2. \A i \in 1 .. Len(log) : log'[i].t = "Node" /\ log'[i].trx < Skipped /\ Stands(log', i, Len(log')) =>
           CommittedBy(log', kept, log'[i].trx, Len(log'))
    <3> SUFFICES ASSUME NEW i \in 1 .. Len(log), log'[i].t = "Node", log'[i].trx < Skipped, Stands(log', i, Len(log'))
                 PROVE  CommittedBy(log', kept, log'[i].trx, Len(log'))
      OBVIOUS
    <3>1. log'[i] = log[i] /\ log'[i].trx \in Nat
      BY <1>3
    <3>2. log[i].trx < chk.lgpos
      BY <1>2, <3>1 DEF Skipped
    <3>3. Stands(log, i, Len(log))
      BY <1>1, StoodBefore
    <3>4. CommittedBy(log, kept, log[i].trx, Len(log))
      BY <1>0, <3>1, <3>2, <3>3 DEF Passed, PassedAt
    <3>5. CommittedBy(log', kept, log[i].trx, Len(log))
      BY <1>1, <3>4, CommittedSame
    <3> QED
      BY <1>1, <3>1, <3>5, CommittedLater
  <2>3. \A k \in (Len(log) + 1) .. Len(log') : log'[k].t = "Node" =>
           (\E s \in Session : IsOpen(sess'[s]) /\ sess'[s].start = log'[k].trx) \/ log'[k].trx < 0
    BY DEF IsOpen, Open, Added
  <2>4. ResolvedAt(log, kept, Len(log), sess, Skipped)
    BY <1>0, <1>1 DEF Resolved
  <2>5. ResolvedAt(log', kept, Len(log'), sess', 0)
    <3>1. PICK g \in Nat, h \in Nat, c \in Nat, d \in Nat : g = Len(log) /\ h = Len(log') /\ c = Skipped /\ d = 0
      BY <1>1, <1>2
    <3>2. g <= h /\ Agree(log, log', g) /\ kept \subseteq kept /\ \A i \in 1 .. g : log'[i].trx \in Nat
      BY <1>1, <1>3, <3>1
    <3>4. PICK l, m, A, B, K : l = log /\ m = log' /\ A = sess /\ B = sess' /\ K = kept
      OBVIOUS
    <3>5. /\ ResolvedAt(l, K, g, A, c) /\ Agree(l, m, g) /\ K \subseteq K /\ \A i \in 1 .. g : m[i].trx \in Nat
      BY <2>4, <3>1, <3>2, <3>4
    <3>6. Stay(m, K, g, h, A, B)
      BY <2>1, <3>1, <3>4 DEF Stay
    <3>7. Past(m, K, g, h, c)
      BY <2>2, <3>1, <3>4 DEF Past
    <3>8. Join(m, g, h, B, d)
      BY <2>3, <3>1, <3>4 DEF Join
    <3>9. ResolvedAt(m, K, h, B, d)
      BY <3>2, <3>5, <3>6, <3>7, <3>8, ResolvedStays
    <3>3. ResolvedAt(log', kept, h, sess', d)
      BY <3>4, <3>9
    <3> QED
      BY <3>1, <3>3
  <2> QED
    BY <1>0, <1>1, <1>2, <2>5 DEF Resolved
<1>5. Passed'
  <2>1. ResolvedAt(log', kept, Len(log'), sess', 0)
    BY <1>0, <1>1, <1>2, <1>4 DEF Resolved
  <2>2. \A i \in 1 .. Len(log') : log'[i].trx \in Nat
    BY NumbersNext DEF Idx
  <2>3. \A s \in Session : IsOpen(sess'[s]) => chk'.lgpos <= sess'[s].start
    BY DEF RecInv, SessInv, OpenTrx, Open, IsOpen
  <2>4. PassedAt(log', kept, chk'.lgpos)
    BY <1>1, <1>2, <2>1, <2>2, <2>3, PassedFrom
  <2> QED
    BY <1>0, <2>4 DEF Passed
<1>6. KeptTrx'
  <2> SUFFICES ASSUME NEW trx \in kept PROVE trx \in Nat /\ trx < chk'.lgpos /\ NoUndo(log', trx)
    BY <1>0 DEF KeptTrx
  <2>1. trx \in Nat /\ trx < chk.lgpos /\ NoUndo(log, trx)
    BY <1>0 DEF KeptTrx
  <2>2. trx < chk'.lgpos
    BY <1>2, <2>1 DEF Grow
  <2>3. ASSUME NEW k \in 1 .. Len(log'), log'[k].t = "Undo", log'[k].trx = trx PROVE FALSE
    <3>1. k \in Idx'
      BY <2>3 DEF Idx
    <3>2. CASE k \in Idx
      BY <1>1, <2>1, <2>3, <3>2 DEF NoUndo, Idx
    <3>3. CASE k \in Added
      <4>1. PICK s \in Session : Open(s) /\ sess[s].start = trx
        BY <2>3, <3>3
      <4>2. chk.lgpos <= trx
        BY <4>1 DEF RecInv, SessInv, OpenTrx
      <4> QED
        BY <1>2, <2>1, <4>2
    <3> QED
      BY <1>1, <3>1, <3>2, <3>3
  <2>4. NoUndo(log', trx)
    BY <2>3 DEF NoUndo
  <2> QED
    BY <2>1, <2>2, <2>4
<1> QED
  BY <1>4, <1>5, <1>6 DEF TrxState

\* The image of a page stays right while its records stay.
LEMMA GrowImage ==
    ASSUME RecInv, RecInv', Grow, NEW p \in Page, NEW pg, pg.dbtime \in Nat, ImageOK(log, pg, p),
           \A k \in Added : On(p, k)' => pg.dbtime < log'[k].after
    PROVE  ImageOK(log', pg, p)
<1>1. /\ \A i \in Idx : i \in Idx' /\ i \in Nat /\ log'[i] = log[i]
      /\ \A k \in Idx' : k \in Nat /\ (k \in Idx \/ k \in Added)
  BY GrowSame
<1>2. \A k \in Idx' : log'[k].after \in Nat
  BY NumbersNext
<1>3. PICK m : m = log'
  OBVIOUS
<1>4. ASSUME NEW i
      PROVE  LET Has(x) == i \in UpTo(x, pg.dbtime) /\ x[i].t \in {"Node", "Undo"} /\ PageOf[x[i].node] = p
             IN  (Has(log) <=> Has(m)) /\ (Has(log) => log[i] = m[i])
  <2>1. CASE i \in Idx
    BY <1>1, <1>3, <2>1 DEF UpTo, Idx
  <2>2. CASE i \notin Idx
    <3>1. i \notin UpTo(log, pg.dbtime)
      BY <2>2 DEF UpTo, Idx
    <3>2. ASSUME i \in UpTo(m, pg.dbtime), m[i].t \in {"Node", "Undo"}, PageOf[m[i].node] = p PROVE FALSE
      <4>1. i \in Added /\ On(p, i)' /\ log'[i].after <= pg.dbtime /\ log'[i].after \in Nat
        BY <1>1, <1>2, <1>3, <2>2, <3>2 DEF UpTo, Idx, On, PageRec
      <4> QED
        BY <4>1
    <3> QED
      BY <3>1, <3>2
  <2> QED
    BY <2>1, <2>2
<1>5. ImageOK(m, pg, p)
  BY <1>4, ImageKept
<1> QED
  BY <1>3, <1>5

\* What a page owes stays covered.
LEMMA GrowCovered ==
    ASSUME RecInv, RecInv', Grow, NEW p \in Page, NEW t \in Nat, NEW U, NEW V, NEW W \in SUBSET Idx, NEW X, W \subseteq X,
           Covered(log, p, t, U, W),
           \A k \in Added : On(p, k)' => t < log'[k].after,
           \A i \in Idx : Owes(log, p, i) /\ log[i].rceid \in U \ V => \E j \in X : Covers(log', j, i)
    PROVE  Covered(log', p, t, V, X)
<1>1. /\ \A i \in Idx : i \in Idx' /\ i \in Nat /\ log'[i] = log[i]
      /\ \A k \in Idx' : k \in Nat /\ (k \in Idx \/ k \in Added)
  BY GrowSame
<1>2. \A k \in Idx' : log'[k].after \in Nat
  BY NumbersNext
<1>3. PICK m : m = log'
  OBVIOUS
<1>4. ASSUME NEW i \in 1 .. Len(m), Owes(m, p, i), m[i].after <= t
      PROVE  \/ i \in 1 .. Len(log) /\ log[i] = m[i] /\ log[i].after <= t /\ (log[i].rceid \in U => log[i].rceid \in V)
             \/ \E j \in X : Covers(m, j, i)
  <2>1. i \in Idx'
    BY <1>3 DEF Idx
  <2>2. CASE i \in Added
    <3>1. On(p, i)' /\ log'[i].after <= t
      BY <1>3, <1>4 DEF Owes, On, PageRec
    <3> QED
      BY <1>2, <2>1, <2>2, <3>1
  <2>3. CASE i \in Idx
    <3>1. log[i] = m[i] /\ i \in 1 .. Len(log)
      BY <1>1, <1>3, <2>3 DEF Idx
    <3>2. Owes(log, p, i)
      BY <1>4, <3>1 DEF Owes
    <3> QED
      BY <1>3, <1>4, <2>3, <3>1, <3>2
  <2> QED
    BY <1>1, <2>1, <2>2, <2>3
<1>5. \A j \in W : m[j] = log[j]
  BY <1>1, <1>3
<1>6. Covered(m, p, t, V, X)
  BY <1>4, <1>5, CoveredKept
<1> QED
  BY <1>3, <1>6

\* The positions that hold what page p depends on.
LEMMA HeldIn == ASSUME RecInv, NEW p \in Page PROVE Surviving \subseteq Idx /\ Held(p) \subseteq Idx
<1>1. buf[p].modify \in Nat /\ buf[p].modify <= Horizon /\ Horizon \in Nat /\ Horizon <= Len(log) /\ Len(log) \in Nat
  BY Numbers, OfPage DEF RecInv, PageInv, BufBounds
<1> QED
  BY <1>1 DEF Held, Surviving, Idx

DiskAfter(p) == ImageOK(log', disk'[p], p) /\ Covered(log', p, disk'[p].dbtime, {}, Surviving')
BufAfter(p) == ImageOK(log', buf'[p].pg, p) /\ Covered(log', p, buf'[p].pg.dbtime, buf'[p].undoInfo, Held(p)')

\* Every page is right.
LEMMA PagesRight == ASSUME \A p \in Page : DiskAfter(p) /\ BufAfter(p) PROVE PageState'
BY DEF PageState, Images, DiskCovered, BufCovered, DiskAfter, BufAfter

\* A page on disk in such a step.
LEMMA GrowDisk ==
    ASSUME RecInv, RecInv', Grow, PageState, NEW p \in Page, \A k \in Added : On(p, k)' => disk[p].dbtime < log'[k].after
    PROVE  DiskAfter(p)
<1>1. disk' = disk /\ disk[p].dbtime \in Nat /\ Surviving \subseteq Surviving' /\ Surviving \in SUBSET Idx
  BY GrowSame, HeldIn, Numbers, OfPage DEF Grow
<1>2. ImageOK(log, disk[p], p) /\ Covered(log, p, disk[p].dbtime, {}, Surviving)
  BY DEF PageState, Images, DiskCovered
<1>3. ImageOK(log', disk[p], p)
  BY <1>1, <1>2, GrowImage
<1>4. Covered(log', p, disk[p].dbtime, {}, Surviving')
  BY <1>1, <1>2, GrowCovered
<1> QED
  BY <1>1, <1>3, <1>4 DEF DiskAfter

\* A page in the cache that such a step does not change.
LEMMA GrowBuf ==
    ASSUME RecInv, RecInv', Grow, PageState, NEW p \in Page, \A k \in Added : ~On(p, k)',
           buf'[p].pg = buf[p].pg, buf[p].modify <= buf'[p].modify,
           \A i \in Idx : Owes(log, p, i) /\ log[i].rceid \in buf[p].undoInfo \ buf'[p].undoInfo =>
              \E j \in Held(p)' : Covers(log', j, i)
    PROVE  DiskAfter(p) /\ BufAfter(p)
<1>1. DiskAfter(p)
  BY GrowDisk
<1>2. ImageOK(log, buf[p].pg, p) /\ Covered(log, p, buf[p].pg.dbtime, buf[p].undoInfo, Held(p))
  BY DEF PageState, Images, BufCovered
<1>3. buf[p].pg.dbtime \in Nat /\ buf[p].modify \in Nat /\ Held(p) \in SUBSET Idx
  BY Numbers, OfPage, HeldIn
<1>4. ImageOK(log', buf[p].pg, p)
  BY <1>2, <1>3, GrowImage
<1>5. Held(p) \subseteq Held(p)'
  <2>1. buf'[p].modify \in Nat
    BY NumbersNext DEF PageTypes, BufType
  <2>2. 1 .. buf[p].modify \subseteq 1 .. buf'[p].modify
    BY <1>3, <2>1
  <2> QED
    BY <2>2, GrowSame DEF Held
<1>6. Covered(log', p, buf[p].pg.dbtime, buf'[p].undoInfo, Held(p)')
  BY <1>2, <1>3, <1>5, GrowCovered
<1> QED
  BY <1>1, <1>4, <1>6 DEF BufAfter

-----------------------------------------------------------------------------
(* Sessions in any step that comes to new records *)

Come == (Horizon + 1) .. Horizon'
Moves == Agree(log, log', Horizon) /\ Horizon <= Horizon'

\* Versions that need undo information have it or their page owes it.
LEMMA OwingStays ==
    ASSUME RecInv, RecInv', Moves, Owing,
           \A v \in Session : \A r \in sess'[v].rces : NeedsUndoInfo(r) =>
              \/ r.id \in buf'[PageOf[r.node]].undoInfo \/ InfoAt(log', Horizon', r.id)
              \/ r \in sess[v].rces /\ r.id \notin buf[PageOf[r.node]].undoInfo
    PROVE  Owing'
<1> SUFFICES ASSUME NEW v \in Session, NEW r \in sess'[v].rces, NeedsUndoInfo(r)
             PROVE  r.id \in buf'[PageOf[r.node]].undoInfo \/ InfoAt(log', Horizon', r.id)
  BY DEF Owing, OwingOK
<1>1. CASE r \in sess[v].rces /\ r.id \notin buf[PageOf[r.node]].undoInfo
  <2>1. InfoAt(log, Horizon, r.id)
    BY <1>1 DEF Owing, OwingOK
  <2>2. Horizon \in Nat /\ Horizon' \in Nat
    BY Numbers, NumbersNext
  <2> QED
    BY <2>1, <2>2, InfoStays DEF Moves
<1> QED
  BY <1>1

\* Pages owe undo information for versions that need it.
LEMMA OwnedStays ==
    ASSUME RecInv, RecInv', Moves, Owned,
           \A p \in Page : \A id \in buf'[p].undoInfo :
              \/ /\ id \in buf[p].undoInfo
                 /\ \A k \in Come : ~(log'[k].t = "UndoInfo" /\ log'[k].rceid = id)
                 /\ \A v \in Session : \A r \in sess[v].rces : r.id = id => r \in sess'[v].rces
              \/ OwnedBy(sess', p, id) /\ ~InfoAt(log', Horizon', id)
    PROVE  Owned'
<1> SUFFICES ASSUME NEW p \in Page, NEW id \in buf'[p].undoInfo PROVE OwnedBy(sess', p, id) /\ ~InfoAt(log', Horizon', id)
  BY DEF Owned
<1>1. CASE /\ id \in buf[p].undoInfo
           /\ \A k \in Come : ~(log'[k].t = "UndoInfo" /\ log'[k].rceid = id)
           /\ \A v \in Session : \A r \in sess[v].rces : r.id = id => r \in sess'[v].rces
  <2>1. OwnedBy(sess, p, id) /\ ~InfoAt(log, Horizon, id)
    BY <1>1 DEF Owned
  <2>2. OwnedBy(sess', p, id)
    BY <1>1, <2>1 DEF OwnedBy
  <2>3. Horizon \in Nat /\ Horizon' \in Nat
    BY Numbers, NumbersNext
  <2>4. ~InfoAt(log', Horizon', id)
    BY <1>1, <2>1, <2>3, InfoStays DEF Moves, Come
  <2> QED
    BY <2>2, <2>4
<1> QED
  BY <1>1

\* A step that logs comes to what it logs.
LEMMA GrowMoves == ASSUME RecInv, RecInv', Grow PROVE Moves /\ Come = Added /\ Horizon = Len(log) /\ Horizon' = Len(log')
BY GrowSame DEF Moves, Come, Added

\* A session whose transactions nobody cuts in on.
LEMMA RunsStay ==
    ASSUME RecInv, RecInv', Grow, NEW v, NEW S, NEW T, RunsOK(log, v, S), T.st = S.st, T.start = S.start,
           \A k \in Added : ~(log'[k].t = "Begin0" /\ log'[k].s = v) /\ (log'[k].t = "Undo" => ~(S.st = "open" /\ log'[k].trx = S.start))
    PROVE  RunsOK(log', v, T)
<1>1. /\ \A i \in Idx : i \in Idx' /\ i \in Nat /\ log'[i] = log[i]
      /\ \A k \in Idx' : k \in Nat /\ (k \in Idx \/ k \in Added)
      /\ Len(log) \in Nat /\ Len(log') \in Nat /\ Len(log) <= Len(log')
  BY GrowSame
<1>2. ASSUME Rests(log, v) PROVE Rests(log', v)
  <2> SUFFICES ASSUME NEW b \in Idx', log'[b].t = "Begin0", log'[b].s = v PROVE \E e \in (b + 1) .. Len(log') : Ends(log', e, v)
    BY DEF Rests, Idx
  <2>1. b \in Idx /\ log'[b] = log[b] /\ b \in Nat
    BY <1>1
  <2>2. PICK e \in (b + 1) .. Len(log) : Ends(log, e, v)
    BY <1>2, <2>1 DEF Rests, Idx
  <2>3. e \in Idx /\ e \in (b + 1) .. Len(log')
    BY <1>1, <2>1, <2>2 DEF Idx
  <2>4. Ends(log', e, v)
    BY <1>1, <2>2, <2>3 DEF Ends, IsQuit
  <2> QED
    BY <2>3, <2>4
<1>3. ASSUME S.st = "open", NoUndo(log, S.start) PROVE NoUndo(log', S.start)
  <2> SUFFICES ASSUME NEW k \in Idx', log'[k].t = "Undo", log'[k].trx = S.start PROVE FALSE
    BY DEF NoUndo, Idx
  <2>1. k \in Idx
    BY <1>1, <1>3
  <2> QED
    BY <1>1, <1>3, <2>1 DEF NoUndo, Idx
<1> QED
  BY <1>2, <1>3 DEF RunsOK

\* A session that commits stays in its transaction.
LEMMA OwnStays ==
    ASSUME RecInv, RecInv', Grow, NEW v, NEW S, NEW T, OwnOK(log, v, S), T.st = "committing" => S.st = "committing", T.start = S.start,
           \A k \in Added : ~IsQuit(log', k) /\ ~(log'[k].t = "Begin0" /\ log'[k].s = v)
    PROVE  OwnOK(log', v, T)
<1>1. /\ \A i \in Idx : i \in Idx' /\ i \in Nat /\ log'[i] = log[i]
      /\ \A k \in Idx' : k \in Nat /\ (k \in Idx \/ k \in Added)
      /\ Len(log) \in Nat /\ Len(log') \in Nat /\ Len(log) <= Len(log')
  BY GrowSame
<1> SUFFICES ASSUME T.st = "committing"
             PROVE  S.start \in Idx' /\ log'[S.start].t = "Begin0" /\ log'[S.start].s = v /\ InTrx(log', v, S.start)
  BY DEF OwnOK, Idx
<1>2. S.start \in Idx /\ log[S.start].t = "Begin0" /\ log[S.start].s = v /\ InTrx(log, v, S.start)
  BY DEF OwnOK, Idx
<1>3. InTrx(log', v, S.start)
  <2> SUFFICES ASSUME NEW k \in (S.start + 1) .. Len(log') PROVE ~IsQuit(log', k) /\ ~(log'[k].s = v /\ log'[k].t = "Begin0")
    BY DEF InTrx
  <2>1. S.start \in Nat /\ k \in Idx' /\ (k \in Idx => k \in (S.start + 1) .. Len(log))
    BY <1>1, <1>2 DEF Idx
  <2>2. CASE k \in Added
    BY <2>2
  <2>3. CASE k \in Idx
    <3>1. ~IsQuit(log, k) /\ ~(log[k].s = v /\ log[k].t = "Begin0")
      BY <1>2, <2>1, <2>3 DEF InTrx
    <3> QED
      BY <1>1, <2>3, <3>1 DEF IsQuit
  <2> QED
    BY <1>1, <2>1, <2>2, <2>3
<1> QED
  BY <1>1, <1>2, <1>3

SessAfter(v) ==
    /\ SessOK(log', Horizon', v, sess'[v]) /\ OwnOK(log', v, sess'[v]) /\ sess'[v].deferred = {}
    /\ mode' = "run" => RunsOK(log', v, sess'[v])

\* Every session is right.
LEMMA SessRight == ASSUME mode' # "redo", \A v \in Session : SessAfter(v), Owing', Owned' PROVE SessState'
<1>1. Versions' /\ CommitsOwn' /\ Deferred'
  BY DEF SessAfter, Versions, CommitsOwn, Deferred
<1>2. Runs' /\ EndInRedo'
  BY DEF SessAfter, Runs, EndInRedo
<1> QED
  BY <1>1, <1>2 DEF SessState

\* A session that is left alone.
LEMMA GrowElse ==
    ASSUME RecInv, RecInv', Grow, SessState, NEW v \in Session, sess'[v] = sess[v], mode # "redo", mode' = mode,
           Harmless(log', Len(log), Len(log'), sess[v]),
           \A k \in Added : /\ ~IsQuit(log', k) /\ ~(log'[k].t = "Begin0" /\ log'[k].s = v)
                            /\ (log'[k].t = "Undo" => ~(sess[v].st = "open" /\ log'[k].trx = sess[v].start))
    PROVE  SessAfter(v)
<1>1. /\ SessOK(log, Len(log), v, sess[v]) /\ OwnOK(log, v, sess[v]) /\ sess[v].deferred = {}
      /\ mode = "run" => RunsOK(log, v, sess[v])
  BY GrowSame DEF SessState, Versions, CommitsOwn, Deferred, Runs
<1>2. SessOK(log', Len(log'), v, sess[v])
  BY <1>1, GrowSame, SessStays
<1>3. OwnOK(log', v, sess[v])
  BY <1>1, OwnStays
<1>4. mode' = "run" => RunsOK(log', v, sess[v])
  BY <1>1, RunsStay
<1> QED
  BY <1>1, <1>2, <1>3, <1>4, GrowSame DEF SessAfter

\* The pages and the sessions after a step that logs nothing.
LEMMA NothingAdded ==
    ASSUME RecInv, RecInv', Grow, log' = log
    PROVE  Added = {} /\ Come = {}
<1>1. Len(log) \in Nat /\ Come = Added
  BY GrowSame, GrowMoves
<1>2. Added = (Len(log) + 1) .. Len(log)
  BY DEF Added
<1> QED
  BY <1>1, <1>2

\* Rollback.
LEMMA RollbackState == ASSUME RecInv, RecInv', StateInv, NEW s \in Session, Rollback(s) PROVE StateInv'
<1>0. LogOK /\ PageState /\ SessState /\ TrxState /\ PageTypes /\ SessTypes
  BY Numbers DEF StateInv
<1>1. /\ UNCHANGED <<mode, log, redo, dbtime, durable, waypoint, disk, buf, chk, ckpt, acked, kept>> /\ mode # "redo"
      /\ sess[s].st = "open" /\ sess' = [sess EXCEPT ![s].st = "rolling"]
  BY DEF Rollback
<1>2. /\ sess'[s].st = "rolling" /\ sess'[s].start = sess[s].start /\ sess'[s].rces = sess[s].rces
      /\ sess'[s].deferred = sess[s].deferred /\ \A v \in Session \ {s} : sess'[v] = sess[v]
  BY <1>0, <1>1, OfSess DEF SessTypes
<1>3. Grow
  <2>1. durable \in Nat /\ waypoint \in Nat /\ chk.lgpos \in Nat /\ Len(log) \in Nat
    BY Numbers DEF LogTypes
  <2> QED
    BY <1>1, <2>1 DEF Grow, Ext, Horizon, Idx
<1>4. Added = {} /\ Come = {}
  BY <1>1, <1>3, NothingAdded
<1>5. LogOK'
  BY <1>0, <1>3, <1>4, GrowLog
<1>6. PageState'
  <2>1. \A p \in Page : buf[p].modify \in Nat
    BY <1>0, OfPage
  <2>2. \A p \in Page : DiskAfter(p) /\ BufAfter(p)
    BY <1>0, <1>1, <1>3, <1>4, <2>1, GrowBuf
  <2> QED
    BY <2>2, PagesRight
<1>7. TrxState'
  <2>1. \A v \in Session : Open(v) => Open(v)' /\ sess'[v].start = sess[v].start
    BY <1>2 DEF Open
  <2> QED
    BY <1>0, <1>3, <1>4, <2>1, GrowTrx
<1>8. \A v \in Session : sess'[v].rces = sess[v].rces
  BY <1>2
<1>9. Moves /\ Horizon = Len(log) /\ Horizon' = Len(log')
  BY <1>3, GrowMoves
<1>10. Owing'
  <2>1. \A v \in Session : \A r \in sess'[v].rces : NeedsUndoInfo(r) =>
           \/ r.id \in buf'[PageOf[r.node]].undoInfo
           \/ r \in sess[v].rces /\ r.id \notin buf[PageOf[r.node]].undoInfo
    BY <1>1, <1>8
  <2> QED
    BY <1>0, <1>9, <2>1, OwingStays DEF SessState
<1>11. Owned'
  BY <1>0, <1>1, <1>4, <1>8, <1>9, OwnedStays DEF SessState
<1>12. ASSUME NEW v \in Session PROVE SessAfter(v)
  <2>h. Harmless(log', Len(log), Len(log'), sess[v])
    BY <1>4 DEF Harmless, Added
  <2>1. CASE v # s
    <3>1. sess'[v] = sess[v]
      BY <1>2, <2>1
    <3> QED
      BY <1>0, <1>1, <1>3, <1>4, <2>h, <3>1, GrowElse
  <2>2. CASE v = s
    <3>1. SessOK(log, Len(log), s, sess[s]) /\ sess[s].deferred = {}
      BY <1>0, <1>1, <1>9 DEF SessState, Versions, Deferred
    <3>2. IsOpen(sess'[s]) /\ IsOpen(sess[s])
      BY <1>1, <1>2 DEF IsOpen
    <3>3. SessOK(log', Len(log'), s, sess'[s])
      BY <1>2, <1>3, <2>2, <2>h, <3>1, <3>2, GrowSame, SessStays
    <3>4. OwnOK(log', s, sess'[s]) /\ RunsOK(log', s, sess'[s])
      BY <1>2 DEF OwnOK, RunsOK
    <3> QED
      BY <1>2, <1>9, <2>2, <3>1, <3>3, <3>4 DEF SessAfter
  <2> QED
    BY <2>1, <2>2
<1>13. SessState'
  BY <1>1, <1>10, <1>11, <1>12, SessRight
<1> QED
  BY <1>5, <1>6, <1>7, <1>13 DEF StateInv

\* The end of a transaction frees its pages of the undo information they owe.
LEMMA CommittedInfo ==
    ASSUME PageTypes, NEW s, NEW lgpos \in Nat, NEW p \in Page
    PROVE  /\ CommittedBufs(s, lgpos)[p].undoInfo = buf[p].undoInfo \ {r.id : r \in sess[s].rces}
           /\ CommittedBufs(s, lgpos)[p].undoInfo # buf[p].undoInfo => CommittedBufs(s, lgpos)[p].modify = Later(buf[p].modify, lgpos)
<1>1. PICK b : b = buf[p] /\ b \in BufType(p)
  BY DEF PageTypes
<1>2. PICK Ids : Ids = {r.id : r \in sess[s].rces}
  OBVIOUS
<1>3. CommittedBufs(s, lgpos)[p] =
        IF b.undoInfo \cap Ids = {} THEN b ELSE [b EXCEPT !.undoInfo = @ \ Ids, !.modify = Later(@, lgpos)]
  BY <1>1, <1>2 DEF CommittedBufs
<1>4. [b EXCEPT !.undoInfo = @ \ Ids, !.modify = Later(@, lgpos)] =
        [pg |-> b.pg, dirty |-> b.dirty, modify |-> Later(b.modify, lgpos), begin0 |-> b.begin0,
         undoInfo |-> b.undoInfo \ Ids]
  <2>0. b = [pg |-> b.pg, dirty |-> b.dirty, modify |-> b.modify, begin0 |-> b.begin0, undoInfo |-> b.undoInfo]
    BY <1>1 DEF BufType
  <2>1. PICK c : c = [b EXCEPT !.undoInfo = @ \ Ids]
    OBVIOUS
  <2>2. c = [pg |-> b.pg, dirty |-> b.dirty, modify |-> b.modify, begin0 |-> b.begin0, undoInfo |-> b.undoInfo \ Ids]
    BY <2>0, <2>1
  <2>3. [c EXCEPT !.modify = Later(@, lgpos)] =
          [pg |-> b.pg, dirty |-> b.dirty, modify |-> Later(b.modify, lgpos), begin0 |-> b.begin0,
           undoInfo |-> b.undoInfo \ Ids]
    BY <2>2
  <2> QED
    BY <2>1, <2>2, <2>3
<1>5. CASE b.undoInfo \cap Ids = {}
  <2>1. CommittedBufs(s, lgpos)[p] = b /\ b.undoInfo \ Ids = b.undoInfo
    BY <1>3, <1>5
  <2> QED
    BY <1>1, <1>2, <2>1
<1>6. CASE b.undoInfo \cap Ids # {}
  <2>1. PICK c : c = CommittedBufs(s, lgpos)[p]
    OBVIOUS
  <2>2. c = [pg |-> b.pg, dirty |-> b.dirty, modify |-> Later(b.modify, lgpos), begin0 |-> b.begin0,
             undoInfo |-> b.undoInfo \ Ids]
    BY <1>3, <1>4, <1>6, <2>1
  <2>3. c.undoInfo = b.undoInfo \ Ids /\ c.modify = Later(b.modify, lgpos)
    BY <2>2
  <2> QED
    BY <1>1, <1>2, <2>1, <2>3
<1> QED
  BY <1>5, <1>6

\* A commit record covers the changes of its transaction.
LEMMA CommitCovers ==
    ASSUME RecInv, LogOK, NEW c \in Idx, log[c].t = "Commit0", NEW i \in Idx, log[i].t = "Node", log[i].trx = log[c].trx
    PROVE  Covers(log, c, i) /\ i < c
<1>1. Begins(log, c)
  BY DEF LogOK, RecOK, CommitOK, EndOK
<1>2. /\ log[i].trx \in Idx /\ log[i].trx < i /\ log[log[i].trx].s = log[i].s
      /\ \A k \in Idx : log[i].trx < k /\ k < i => ~Cuts(k, log[i].s)
  BY DEF RecInv, LogInv, OfTrx, PageRec
<1>3. log[c].s = log[i].s
  BY <1>1, <1>2 DEF Begins
<1>4. c \in Nat /\ i \in Nat /\ log[i].trx \in Nat
  BY Numbers
<1>5. log[i].trx < c
  BY <1>1, <1>4 DEF Begins
<1>6. Cuts(c, log[i].s)
  BY <1>3 DEF Cuts
<1>7. ~(c < i) /\ c # i
  BY <1>2, <1>5, <1>6
<1> QED
  BY <1>4, <1>7 DEF Covers

\* The version of a change.
LEMMA VersionOf ==
    ASSUME RecInv, LogOK, Versions, NEW s \in Session, NEW r \in sess[s].rces, NEW i \in Idx, log[i].t = "Node", log[i].rceid = r.id
    PROVE  VersionAt(log, Horizon, s, sess[s].start, r, i) /\ i <= Horizon
<1>1. PICK j \in 1 .. Horizon : VersionAt(log, Horizon, s, sess[s].start, r, j)
  BY DEF Versions, SessOK
<1>2. j \in 1 .. Len(log) /\ i \in 1 .. Len(log) /\ Horizon \in Nat
  BY Numbers
<1>3. i = j
  BY <1>1, <1>2, Unique DEF UniqueIds, VersionAt
<1> QED
  BY <1>1, <1>2, <1>3

\* EndCommit.
LEMMA EndCommitState ==
    ASSUME RecInv, RecInv', StateInv, NEW s \in Session, NEW lazy \in BOOLEAN, EndCommit(s, lazy) PROVE StateInv'
<1>0. LogOK /\ PageState /\ SessState /\ TrxState /\ PageTypes /\ SessTypes /\ Versions /\ Commits
  BY Numbers DEF StateInv, SessState, RecInv, SessInv
<1>1. PICK c \in Nat : c = sess[s].commit /\ c \in Idx /\ log[c].t = "Commit0" /\ log[c].trx = sess[s].start
  BY <1>0, OfSess DEF Commits, EndCommit
<1>2. /\ UNCHANGED <<mode, log, redo, dbtime, durable, waypoint, disk, chk, ckpt, kept>>
      /\ sess[s].st = "committing" /\ buf' = CommittedBufs(s, c) /\ sess' = [sess EXCEPT ![s] = NewSession]
  BY <1>1 DEF EndCommit
<1>3. mode # "redo"
  BY <1>2 DEF RecInv, SessInv, RedoOpen
<1>4. sess'[s] = NewSession /\ \A v \in Session \ {s} : sess'[v] = sess[v]
  BY <1>0, <1>2 DEF SessTypes
<1>5. Grow
  <2>1. durable \in Nat /\ waypoint \in Nat /\ chk.lgpos \in Nat /\ Len(log) \in Nat
    BY Numbers DEF LogTypes
  <2> QED
    BY <1>2, <1>3, <2>1 DEF Grow, Ext, Horizon, Idx
<1>6. Added = {} /\ Come = {} /\ Moves /\ Horizon = Len(log) /\ Horizon' = Len(log')
  BY <1>2, <1>5, NothingAdded, GrowMoves
<1>7. LogOK'
  BY <1>0, <1>5, <1>6, GrowLog
<1>8. PICK Ids : Ids = {r.id : r \in sess[s].rces}
  OBVIOUS
<1>9. \A p \in Page : buf'[p].undoInfo = buf[p].undoInfo \ Ids
  BY <1>0, <1>1, <1>2, <1>8, CommittedInfo
<1>10. PageState'
  <2>1. ASSUME NEW p \in Page PROVE DiskAfter(p) /\ BufAfter(p)
    <3>1. buf'[p].pg = buf[p].pg /\ buf'[p].modify \in {buf[p].modify, Later(buf[p].modify, c)}
      BY <1>0, <1>1, <1>2, CommittedType
    <3>2. buf[p].modify \in Nat
      BY <1>0, OfPage
    <3>3. buf[p].modify <= buf'[p].modify
      BY <1>1, <3>1, <3>2 DEF Later
    <3>4. ASSUME NEW i \in Idx, Owes(log, p, i), log[i].rceid \in buf[p].undoInfo \ buf'[p].undoInfo
          PROVE  \E j \in Held(p)' : Covers(log', j, i)
      <4>1. PICK r \in sess[s].rces : r.id = log[i].rceid
        BY <1>8, <1>9, <3>4
      <4>2. log[i].trx = sess[s].start
        BY <1>0, <3>4, <4>1, VersionOf DEF VersionAt, Owes
      <4>3. Covers(log, c, i)
        BY <1>0, <1>1, <3>4, <4>2, CommitCovers DEF Owes
      <4>4. buf'[p].modify = Later(buf[p].modify, c)
        BY <1>0, <1>1, <1>2, <3>4, CommittedInfo
      <4>5. c \in 1 .. buf'[p].modify
        <5>1. c \in Nat /\ 1 <= c
          BY <1>1, Numbers DEF Idx
        <5> QED
          BY <3>2, <4>4, <5>1 DEF Later
      <4> QED
        BY <1>2, <4>3, <4>5 DEF Held
    <3> QED
      BY <1>0, <1>5, <1>6, <3>1, <3>3, <3>4, GrowBuf
  <2> QED
    BY <2>1, PagesRight
<1>11. TrxState'
  <2>1. \A v \in Session : Open(v) => Open(v)' /\ sess'[v].start = sess[v].start
    BY <1>2, <1>4 DEF Open
  <2> QED
    BY <1>0, <1>5, <1>6, <2>1, GrowTrx
<1>12. NewSession.rces = {} /\ NewSession.st = "idle" /\ NewSession.deferred = {}
  BY NewSessType
<1>13. Owing'
  <2>1. ASSUME NEW v \in Session, NEW r \in sess'[v].rces, NeedsUndoInfo(r)
        PROVE  r.id \in buf'[PageOf[r.node]].undoInfo \/ (r \in sess[v].rces /\ r.id \notin buf[PageOf[r.node]].undoInfo)
    <3>1. v # s /\ r \in sess[v].rces
      BY <1>4, <1>12, <2>1
    <3>2. r.id \notin Ids
      BY <1>0, <1>8, <3>1, VersionUnique
    <3>3. PageOf[r.node] \in Page
      <4>1. r \in RCE
        BY <1>0, <3>1, OfSess
      <4> QED
        BY <4>1, Constants DEF RCE
    <3> QED
      BY <1>9, <3>1, <3>2, <3>3
  <2> QED
    BY <1>0, <1>6, <2>1, OwingStays DEF SessState
<1>14. Owned'
  <2>1. ASSUME NEW p \in Page, NEW id \in buf'[p].undoInfo
        PROVE  id \in buf[p].undoInfo /\ \A v \in Session : \A r \in sess[v].rces : r.id = id => r \in sess'[v].rces
    <3>1. id \in buf[p].undoInfo /\ id \notin Ids
      BY <1>9
    <3>2. ASSUME NEW v \in Session, NEW r \in sess[v].rces, r.id = id PROVE r \in sess'[v].rces
      BY <1>4, <1>8, <3>1, <3>2
    <3> QED
      BY <3>1, <3>2
  <2> QED
    BY <1>0, <1>6, <2>1, OwnedStays DEF SessState
<1>15. ASSUME NEW v \in Session PROVE SessAfter(v)
  <2>1. CASE v # s
    <3>1. sess'[v] = sess[v]
      BY <1>4, <2>1
    <3>2. Harmless(log', Len(log), Len(log'), sess[v])
      BY <1>6 DEF Harmless, Added
    <3> QED
      BY <1>0, <1>2, <1>3, <1>5, <1>6, <3>1, <3>2, GrowElse
  <2>2. CASE v = s
    <3>1. sess'[s].st = "idle" /\ sess'[s].rces = {} /\ sess'[s].deferred = {}
      BY <1>4, <1>12
    <3>2. SessOK(log', Horizon', s, sess'[s]) /\ OwnOK(log', s, sess'[s])
      BY <3>1 DEF SessOK, OwnOK, IsOpen
    <3>3. mode' = "run" => RunsOK(log', s, sess'[s])
      BY <1>0, <1>2, <3>1 DEF SessState, Runs, RunsOK
    <3> QED
      BY <2>2, <3>1, <3>2, <3>3 DEF SessAfter
  <2> QED
    BY <2>1, <2>2
<1>16. SessState'
  BY <1>2, <1>3, <1>13, <1>14, <1>15, SessRight
<1> QED
  BY <1>7, <1>10, <1>11, <1>16 DEF StateInv

-----------------------------------------------------------------------------
(* Steps that log one record that changes no page *)

\* What such a step does to the log.
LEMMA LoggedGrow ==
    ASSUME RecInv, RecInv', NEW r, Logged(r), kept' = kept, disk' = disk, chk.lgpos <= chk'.lgpos
    PROVE  /\ Grow /\ Len(log) \in Nat /\ Len(log') = Len(log) + 1 /\ log'[Len(log) + 1] = r
           /\ \A k \in Added : k = Len(log) + 1 /\ log'[k] = r
           /\ \A p \in Page : \A k \in Added : ~On(p, k)'
           /\ \A S : Harmless(log', Len(log), Len(log'), S)
<1>1. /\ Plain /\ Len(log') = Len(log) + 1 /\ log'[Len(log) + 1] = r /\ Horizon = Len(log)
      /\ \A i \in Idx' : Horizon < i => i = Len(log) + 1
  BY NumbersNext, LoggedPlain
<1>2. Grow
  BY <1>1 DEF Grow, Logged, Plain, Advances
<1>3. Len(log) \in Nat
  BY Numbers
<1>4. \A k \in Added : k = Len(log) + 1 /\ log'[k] = r
  BY <1>1, <1>3 DEF Added
<1>5. \A p \in Page : \A k \in Added : ~On(p, k)'
  BY <1>4 DEF On, PageRec, Logged
<1>6. \A S : Harmless(log', Len(log), Len(log'), S)
  BY <1>4 DEF Harmless, Added, Logged
<1> QED
  BY <1>1, <1>2, <1>3, <1>4, <1>5, <1>6

\* The pages stay right.
LEMMA LoggedPages ==
    ASSUME RecInv, RecInv', NEW r, Logged(r), kept' = kept, disk' = disk, chk.lgpos <= chk'.lgpos, PageState, buf' = buf
    PROVE  PageState'
<1>1. \A p \in Page : buf[p].modify \in Nat
  BY Numbers, OfPage
<1>2. \A p \in Page : DiskAfter(p) /\ BufAfter(p)
  BY <1>1, LoggedGrow, GrowBuf
<1> QED
  BY <1>2, PagesRight

\* And so does what they owe.
LEMMA LoggedOwes ==
    ASSUME RecInv, RecInv', NEW r, Logged(r), kept' = kept, disk' = disk, chk.lgpos <= chk'.lgpos, SessState, buf' = buf,
           \A v \in Session : sess'[v].rces = sess[v].rces, r.t # "UndoInfo"
    PROVE  Owing' /\ Owned'
<1>0. Owing /\ Owned
  BY DEF SessState
<1>1. Grow /\ \A k \in Added : log'[k] = r
  BY LoggedGrow
<1>2. Moves /\ \A k \in Come : log'[k] = r
  BY <1>1, GrowMoves
<1>3. Owing'
  <2>1. \A v \in Session : \A q \in sess'[v].rces : NeedsUndoInfo(q) =>
           \/ q.id \in buf'[PageOf[q.node]].undoInfo
           \/ q \in sess[v].rces /\ q.id \notin buf[PageOf[q.node]].undoInfo
    OBVIOUS
  <2> QED
    BY <1>0, <1>2, <2>1, OwingStays
<1>4. Owned'
  <2>1. \A p \in Page : \A id \in buf'[p].undoInfo :
           /\ id \in buf[p].undoInfo
           /\ \A k \in Come : ~(log'[k].t = "UndoInfo" /\ log'[k].rceid = id)
           /\ \A v \in Session : \A q \in sess[v].rces : q.id = id => q \in sess'[v].rces
    BY <1>2
  <2> QED
    BY <1>0, <1>2, <2>1, OwnedStays
<1> QED
  BY <1>3, <1>4

\* The end of an open transaction.
LEMMA EndOpen ==
    ASSUME RecInv, RecInv', Grow, Len(log') = Len(log) + 1, NEW s \in Session, Open(s), NEW k, k = Len(log) + 1,
           log'[k].trx = sess[s].start, log'[k].s = s
    PROVE  EndOK(log', k)
<1>1. /\ sess[s].start \in Idx /\ log[sess[s].start].t = "Begin0" /\ log[sess[s].start].s = s
      /\ \A j \in Idx : sess[s].start < j /\ j <= Horizon => ~Cuts(j, s)
  BY DEF RecInv, SessInv, OpenTrx
<1>2. Len(log) \in Nat /\ Horizon = Len(log) /\ \A i \in Idx : i \in Nat /\ log'[i] = log[i]
  BY GrowSame
<1>3. Begins(log', k)
  <2>1. sess[s].start \in 1 .. (k - 1)
    BY <1>1, <1>2 DEF Idx
  <2> QED
    BY <1>1, <1>2, <2>1 DEF Begins
<1>4. ASSUME NEW j \in (sess[s].start + 1) .. (k - 1) PROVE ~CutsIn(log', j, s)
  <2>1. j \in Idx /\ sess[s].start < j /\ j <= Horizon
    BY <1>1, <1>2 DEF Idx
  <2> QED
    BY <1>1, <1>2, <2>1 DEF Cuts, CutsIn, Ends, IsQuit
<1> QED
  BY <1>3, <1>4 DEF EndOK

\* Sessions rest after it.
LEMMA RestsAfter ==
    ASSUME RecInv, RecInv', Grow, Len(log') = Len(log) + 1, NEW v, Ends(log', Len(log) + 1, v), log'[Len(log) + 1].t # "Begin0"
    PROVE  Rests(log', v)
<1>1. Len(log) \in Nat /\ Len(log') = Len(log) + 1
  BY GrowSame
<1> SUFFICES ASSUME NEW b \in 1 .. Len(log'), log'[b].t = "Begin0" PROVE \E e \in (b + 1) .. Len(log') : Ends(log', e, v)
  BY DEF Rests
<1>2. b # Len(log) + 1
  OBVIOUS
<1>3. Len(log) + 1 \in (b + 1) .. Len(log')
  BY <1>1, <1>2
<1> QED
  BY <1>3

\* LogCommit.
LEMMA LogCommitState == ASSUME RecInv, RecInv', StateInv, NEW s \in Session, LogCommit(s) PROVE StateInv'
<1>0. LogOK /\ PageState /\ SessState /\ TrxState /\ PageTypes /\ SessTypes
  BY Numbers DEF StateInv
<1>n. Len(log) \in Nat /\ durable \in Nat /\ waypoint \in Nat /\ chk.lgpos \in Nat /\ sess[s].start \in Nat /\ s \in Nat
  <2>1. sess[s].start \in Nat
    BY <1>0, OfSess
  <2> QED
    BY <2>1, Numbers, Constants DEF LogTypes
<1>1. PICK r : r = Rec("Commit0", s, sess[s].start)
  OBVIOUS
<1>2. r \in LRec /\ r.t = "Commit0" /\ r.s = s /\ r.trx = sess[s].start
  BY <1>n, <1>1, RecIsRec
<1>3. Logged(r) /\ kept' = kept /\ disk' = disk /\ buf' = buf /\ chk.lgpos <= chk'.lgpos /\ mode = "run" /\ mode' = mode /\ sess[s].st = "open"
  BY <1>1, <1>2, <1>n DEF LogCommit, Logged
<1>4. /\ sess'[s].st = "committing" /\ sess'[s].start = sess[s].start /\ sess'[s].rces = sess[s].rces
      /\ sess'[s].deferred = sess[s].deferred /\ \A v \in Session \ {s} : sess'[v] = sess[v]
  <2>1. PICK k : k = Len(log) + 1
    OBVIOUS
  <2>2. sess' = [sess EXCEPT ![s].st = "committing", ![s].commit = k]
    BY <2>1 DEF LogCommit
  <2>3. PICK a : a = [sess EXCEPT ![s].st = "committing"]
    OBVIOUS
  <2>4. /\ a[s] = [st |-> "committing", start |-> sess[s].start, commit |-> sess[s].commit, rces |-> sess[s].rces,
                   afterBT |-> sess[s].afterBT, deferred |-> sess[s].deferred]
        /\ DOMAIN a = Session /\ \A v \in Session : v # s => a[v] = sess[v]
    BY <1>0, <2>3, OfSess DEF SessTypes
  <2>5. sess' = [a EXCEPT ![s].commit = k]
    BY <2>2, <2>3
  <2> QED
    BY <2>4, <2>5
<1>5. /\ Grow /\ Len(log') = Len(log) + 1 /\ log'[Len(log) + 1] = r /\ \A k \in Added : k = Len(log) + 1 /\ log'[k] = r
      /\ \A S : Harmless(log', Len(log), Len(log'), S)
  BY <1>3, LoggedGrow
<1>6. PICK k \in Nat : k = Len(log) + 1 /\ log'[k] = r /\ k \in 1 .. Len(log') /\ k - 1 = Len(log)
  BY <1>5, <1>n
<1>7. Open(s)
  BY <1>3 DEF Open
<1>8. CommitOK(log', k)
  <2>1. EndOK(log', k)
    BY <1>2, <1>5, <1>6, <1>7, EndOpen
  <2>2. NoUndo(log, sess[s].start)
    BY <1>0, <1>3 DEF SessState, Runs, RunsOK
  <2>3. \A j \in 1 .. (k - 1) : ~(log'[j].t = "Undo" /\ log'[j].trx = log'[k].trx)
    BY <1>2, <1>5, <1>6, <2>2, GrowSame DEF NoUndo, Idx
  <2> QED
    BY <2>1, <2>3 DEF CommitOK
<1>9. LogOK'
  <2>1. RecOK(log', kept, k)
    BY <1>2, <1>6, <1>8 DEF RecOK, IsQuit
  <2> QED
    BY <1>0, <1>2, <1>5, <1>6, <2>1, GrowOne
<1>10. PageState'
  BY <1>0, <1>3, LoggedPages
<1>11. TrxState'
  <2>1. CommittedBy(log', kept, sess[s].start, Len(log'))
    BY <1>2, <1>6 DEF CommittedBy
  <2>2. \A v \in Session : Open(v) =>
           \/ Open(v)' /\ sess'[v].start = sess[v].start
           \/ \A i \in Idx : log[i].t = "Node" /\ log[i].trx = sess[v].start /\ Stands(log', i, Len(log')) =>
                 CommittedBy(log', kept, log[i].trx, Len(log'))
    BY <1>4, <2>1 DEF Open
  <2> QED
    BY <1>0, <1>2, <1>5, <2>2, GrowTrx
<1>12. Owing' /\ Owned'
  BY <1>0, <1>2, <1>3, <1>4, LoggedOwes
<1>13. ASSUME NEW v \in Session PROVE SessAfter(v)
  <2>1. CASE v # s
    <3>1. sess'[v] = sess[v]
      BY <1>4, <2>1
    <3> QED
      BY <1>0, <1>2, <1>3, <1>5, <3>1, GrowElse DEF IsQuit
  <2>2. CASE v = s
    <3>1. SessOK(log, Len(log), s, sess[s]) /\ sess[s].deferred = {}
      BY <1>0, <1>3, <1>5, GrowSame DEF SessState, Versions, Deferred
    <3>2. ~IsOpen(sess'[s])
      BY <1>4 DEF IsOpen
    <3>3. SessOK(log', Len(log'), s, sess'[s])
      BY <1>4, <1>5, <3>1, <3>2, GrowSame, SessStays
    <3>4. RunsOK(log', s, sess'[s])
      <4>1. Ends(log', Len(log) + 1, s)
        BY <1>2, <1>5 DEF Ends
      <4> QED
        BY <1>2, <1>4, <1>5, <4>1, RestsAfter DEF RunsOK
    <3>5. OwnOK(log', s, sess'[s])
      <4>1. EndOK(log', k)
        BY <1>8 DEF CommitOK
      <4>2. Begins(log', k) /\ log'[k].trx = sess[s].start /\ log'[k].s = s
        BY <1>2, <1>6, <4>1 DEF EndOK
      <4>3. sess[s].start \in 1 .. Len(log') /\ log'[sess[s].start].t = "Begin0" /\ log'[sess[s].start].s = s
        BY <1>5, <1>6, <1>n, <4>2 DEF Begins
      <4>4. InTrx(log', s, sess[s].start)
        <5> SUFFICES ASSUME NEW j \in (sess[s].start + 1) .. Len(log') PROVE ~IsQuit(log', j) /\ ~(log'[j].s = s /\ log'[j].t = "Begin0")
          BY DEF InTrx
        <5>1. CASE j = k
          BY <1>2, <1>6, <5>1 DEF IsQuit
        <5>2. CASE j # k
          <6>1. j \in (sess[s].start + 1) .. (k - 1)
            BY <1>5, <1>6, <1>n, <5>2
          <6> QED
            BY <4>1, <4>2, <6>1 DEF EndOK, CutsIn, Ends
        <5> QED
          BY <5>1, <5>2
      <4> QED
        BY <1>4, <4>3, <4>4 DEF OwnOK
    <3> QED
      BY <1>4, <1>5, <2>2, <3>1, <3>3, <3>4, <3>5, GrowSame DEF SessAfter
  <2> QED
    BY <2>1, <2>2
<1>14. SessState'
  BY <1>3, <1>12, <1>13, SessRight
<1> QED
  BY <1>9, <1>10, <1>11, <1>14 DEF StateInv

\* EndRollback: nothing of the transaction stands.
LEMMA EndRollbackState == ASSUME RecInv, RecInv', StateInv, NEW s \in Session, EndRollback(s) PROVE StateInv'
<1>0. LogOK /\ PageState /\ SessState /\ TrxState /\ PageTypes /\ SessTypes
  BY Numbers DEF StateInv
<1>n. Len(log) \in Nat /\ durable \in Nat /\ waypoint \in Nat /\ chk.lgpos \in Nat /\ sess[s].start \in Nat /\ s \in Nat
  <2>1. sess[s].start \in Nat
    BY <1>0, OfSess
  <2> QED
    BY <2>1, Numbers, Constants DEF LogTypes
<1>1. PICK r : r = Rec("Rollback", s, sess[s].start)
  OBVIOUS
<1>2. r \in LRec /\ r.t = "Rollback" /\ r.s = s /\ r.trx = sess[s].start
  BY <1>n, <1>1, RecIsRec
<1>3. /\ Logged(r) /\ kept' = kept /\ disk' = disk /\ buf' = buf /\ chk.lgpos <= chk'.lgpos /\ mode # "redo" /\ mode' = mode
      /\ sess[s].st = "rolling" /\ sess[s].rces = {} /\ sess' = [sess EXCEPT ![s] = NewSession]
  BY <1>1, <1>2, <1>n DEF EndRollback, Logged
<1>4. sess'[s] = NewSession /\ \A v \in Session \ {s} : sess'[v] = sess[v]
  BY <1>0, <1>3 DEF SessTypes
<1>5. sess'[s].st = "idle" /\ sess'[s].rces = {} /\ sess'[s].deferred = {}
  BY <1>4, NewSessType
<1>6. /\ Grow /\ Len(log') = Len(log) + 1 /\ log'[Len(log) + 1] = r /\ \A k \in Added : k = Len(log) + 1 /\ log'[k] = r
      /\ \A S : Harmless(log', Len(log), Len(log'), S)
  BY <1>3, LoggedGrow
<1>7. PICK k \in Nat : k = Len(log) + 1 /\ log'[k] = r /\ k \in 1 .. Len(log') /\ k - 1 = Len(log)
  BY <1>6, <1>n
<1>8. Open(s) /\ IsOpen(sess[s])
  BY <1>3 DEF Open, IsOpen
<1>9. \A i \in Idx : log[i].t = "Node" /\ log[i].trx = sess[s].start => ~Stands(log, i, Len(log))
  BY <1>0, <1>3, <1>6, <1>8, GrowSame DEF SessState, Versions, SessOK, Deferred, Idx
<1>10. RollbackOK(log', k)
  <2>1. EndOK(log', k)
    BY <1>2, <1>6, <1>7, <1>8, EndOpen
  <2>2. ASSUME NEW i \in 1 .. (k - 1), log'[i].t = "Node", log'[i].trx = log'[k].trx PROVE ~Stands(log', i, k - 1)
    <3>1. i \in Idx /\ i \in 1 .. Len(log) /\ log'[i] = log[i] /\ Agree(log, log', Len(log))
      BY <1>6, <1>7, GrowSame DEF Idx
    <3>2. ~Stands(log, i, Len(log))
      BY <1>2, <1>7, <1>9, <2>2, <3>1
    <3>3. ~Stands(log', i, Len(log))
      BY <1>n, <3>1, <3>2, StandsSame
    <3> QED
      BY <1>7, <3>3
  <2> QED
    BY <2>1, <2>2 DEF RollbackOK
<1>11. LogOK'
  <2>1. RecOK(log', kept, k)
    BY <1>2, <1>7, <1>10 DEF RecOK, IsQuit
  <2> QED
    BY <1>0, <1>2, <1>6, <1>7, <2>1, GrowOne
<1>12. PageState'
  BY <1>0, <1>3, LoggedPages
<1>13. TrxState'
  <2>1. ASSUME NEW i \in Idx, log[i].t = "Node", log[i].trx = sess[s].start, Stands(log', i, Len(log')) PROVE FALSE
    <3>1. Stands(log, i, Len(log))
      BY <1>6, <2>1, GrowSame, StoodBefore DEF Idx
    <3> QED
      BY <1>9, <2>1, <3>1
  <2>2. \A v \in Session : Open(v) =>
           \/ Open(v)' /\ sess'[v].start = sess[v].start
           \/ \A i \in Idx : log[i].t = "Node" /\ log[i].trx = sess[v].start /\ Stands(log', i, Len(log')) =>
                 CommittedBy(log', kept, log[i].trx, Len(log'))
    BY <1>4, <2>1 DEF Open
  <2> QED
    BY <1>0, <1>2, <1>6, <2>2, GrowTrx
<1>14. Owing' /\ Owned'
  <2>1. \A v \in Session : sess'[v].rces = sess[v].rces
    BY <1>3, <1>4, <1>5
  <2> QED
    BY <1>0, <1>2, <1>3, <2>1, LoggedOwes
<1>15. ASSUME NEW v \in Session PROVE SessAfter(v)
  <2>1. CASE v # s
    <3>1. sess'[v] = sess[v]
      BY <1>4, <2>1
    <3> QED
      BY <1>0, <1>2, <1>3, <1>6, <3>1, GrowElse DEF IsQuit
  <2>2. CASE v = s
    <3>1. SessOK(log', Horizon', s, sess'[s]) /\ OwnOK(log', s, sess'[s])
      BY <1>5 DEF SessOK, OwnOK, IsOpen
    <3>2. RunsOK(log', s, sess'[s])
      <4>1. Ends(log', Len(log) + 1, s)
        BY <1>2, <1>6 DEF Ends
      <4> QED
        BY <1>2, <1>5, <1>6, <4>1, RestsAfter DEF RunsOK
    <3> QED
      BY <1>5, <2>2, <3>1, <3>2 DEF SessAfter
  <2> QED
    BY <2>1, <2>2
<1>16. SessState'
  BY <1>3, <1>14, <1>15, SessRight
<1> QED
  BY <1>11, <1>12, <1>13, <1>16 DEF StateInv

\* The transaction of a session with versions.
LEMMA VersionTrx ==
    ASSUME RecInv, SessState, NEW s \in Session, sess[s].st # "idle", mode # "redo"
    PROVE  /\ sess[s].start \in Idx /\ log[sess[s].start].t = "Begin0" /\ log[sess[s].start].s = s
           /\ InTrx(log, s, sess[s].start)
<1>1. CASE sess[s].st = "committing"
  BY <1>1 DEF SessState, CommitsOwn, OwnOK, Idx
<1>2. CASE Open(s)
  <2>1. /\ sess[s].start \in Idx /\ log[sess[s].start].t = "Begin0" /\ log[sess[s].start].s = s
        /\ \A k \in Idx : sess[s].start < k /\ k <= Horizon => ~Cuts(k, s)
    BY <1>2 DEF RecInv, SessInv, OpenTrx
  <2>2. Horizon = Len(log) /\ Len(log) \in Nat
    BY Numbers
  <2>3. ASSUME NEW k \in (sess[s].start + 1) .. Len(log) PROVE ~IsQuit(log, k) /\ ~(log[k].s = s /\ log[k].t = "Begin0")
    <3>1. k \in Idx /\ sess[s].start < k /\ k <= Horizon
      BY <2>1, <2>2 DEF Idx
    <3> QED
      BY <2>1, <3>1 DEF Cuts, IsQuit
  <2> QED
    BY <2>1, <2>3 DEF InTrx
<1>3. sess[s].st \in {"idle", "open", "committing", "rolling"}
  BY Numbers, OfSess
<1> QED
  BY <1>1, <1>2, <1>3 DEF Open

\* An UndoInfo record of a version that its page owed.
LEMMA InfoRight ==
    ASSUME RecInv, RecInv', Grow, LogOK, SessState, mode # "redo", NEW s \in Session, NEW rce \in sess[s].rces,
           NEW p \in Page, rce.id \in buf[p].undoInfo, NEW k \in Nat, k = Len(log) + 1,
           log'[k].t = "UndoInfo", log'[k].s = s, log'[k].trx = sess[s].start, log'[k].rceid = rce.id,
           log'[k].node = rce.node, log'[k].oper = rce.oper, log'[k].val = rce.before
    PROVE  InfoOK(log', k) /\ p = PageOf[rce.node] /\ NeedsUndoInfo(rce)
<1>0. Versions /\ Owned
  BY DEF SessState
<1>1. /\ Len(log) \in Nat /\ Horizon = Len(log) /\ Agree(log, log', Len(log)) /\ k - 1 = Len(log)
      /\ \A i \in Idx : i \in Nat /\ log'[i] = log[i]
  BY GrowSame
<1>2. PICK i \in 1 .. Horizon : VersionAt(log, Horizon, s, sess[s].start, rce, i)
  BY <1>0 DEF Versions, SessOK
<1>3. i \in Idx /\ i \in 1 .. (k - 1) /\ i \in Nat
  BY <1>1, <1>2 DEF Idx
<1>4. About(log', i, k)
  <2>1. log'[i] = log[i]
    BY <1>1, <1>3
  <2>2. PICK g \in Nat : g = i - 1 /\ g \in 0 .. Len(log)
    BY <1>1, <1>3
  <2>3. Agree(log, log', g)
    BY <1>1, <2>2, AgreeLess
  <2>4. Shows(log, rce.node, 1 .. g, rce.before)
    BY <1>2, <2>2 DEF VersionAt
  <2>5. Shows(log', rce.node, 1 .. g, rce.before)
    BY <2>3, <2>4, ShowsAgree
  <2>6. Stands(log, i, Len(log))
    BY <1>1, <1>2 DEF VersionAt
  <2>7. Stands(log', i, Len(log))
    BY <1>1, <1>2, <2>6, StandsSame
  <2>8. log[i].t = "Node" /\ log[i].rceid = rce.id /\ log[i].s = s /\ log[i].trx = sess[s].start
        /\ log[i].node = rce.node /\ log[i].oper = rce.oper
    BY <1>2 DEF VersionAt
  <2> QED
    BY <1>1, <2>1, <2>2, <2>5, <2>7, <2>8 DEF About
<1>5. sess[s].st # "idle"
  BY <1>0 DEF Versions, SessOK
<1>6. /\ sess[s].start \in Idx /\ log[sess[s].start].t = "Begin0" /\ log[sess[s].start].s = s
      /\ InTrx(log, s, sess[s].start)
  BY <1>5, VersionTrx
<1>7. Begins(log', k)
  <2>1. sess[s].start \in 1 .. (k - 1)
    BY <1>1, <1>6 DEF Idx
  <2> QED
    BY <1>1, <1>6, <2>1 DEF Begins
<1>8. ASSUME NEW j \in (sess[s].start + 1) .. (k - 1) PROVE ~IsQuit(log', j) /\ ~(log'[j].s = s /\ log'[j].t = "Begin0")
  <2>1. j \in (sess[s].start + 1) .. Len(log) /\ j \in Idx
    BY <1>1, <1>6 DEF Idx
  <2> QED
    BY <1>1, <1>6, <2>1 DEF InTrx, IsQuit
<1>9. p = PageOf[rce.node] /\ NeedsUndoInfo(rce)
  <2>a. PICK v \in Session : \E q \in sess[v].rces : q.id = rce.id /\ NeedsUndoInfo(q) /\ PageOf[q.node] = p
    BY <1>0 DEF Owned, OwnedBy
  <2>1. PICK q \in sess[v].rces : q.id = rce.id /\ NeedsUndoInfo(q) /\ PageOf[q.node] = p
    BY <2>a
  <2>2. q = rce
    BY <1>0, <2>1, VersionUnique
  <2> QED
    BY <2>1, <2>2
<1>10. InfoOK(log', k)
  BY <1>3, <1>4, <1>7, <1>8, <1>9 DEF InfoOK, NeedsUndoInfo
<1> QED
  BY <1>9, <1>10

\* LogUndoInfo.
LEMMA LogUndoInfoState == ASSUME RecInv, RecInv', StateInv, NEW p \in Page, LogUndoInfo(p) PROVE StateInv'
<1>0. LogOK /\ PageState /\ SessState /\ TrxState /\ PageTypes /\ SessTypes /\ Versions /\ Owing /\ Owned
  BY Numbers DEF StateInv, SessState
<1>a. PICK s \in Session : \E rce \in sess[s].rces :
        /\ mode \in {"run", "undo"} /\ rce.id \in buf[p].undoInfo
        /\ log' = Append(log, NodeRec("UndoInfo", s, sess[s].start, rce, rce.before, 0, 0))
        /\ buf' = [buf EXCEPT ![p] = WithoutUndoInfo(@, rce.id, Len(log) + 1)]
        /\ UNCHANGED <<mode, durable, waypoint, disk, sess, dbtime, chk, ckpt, redo, acked, kept>>
  BY DEF LogUndoInfo
<1>1. PICK rce \in sess[s].rces :
        /\ mode \in {"run", "undo"} /\ rce.id \in buf[p].undoInfo
        /\ log' = Append(log, NodeRec("UndoInfo", s, sess[s].start, rce, rce.before, 0, 0))
        /\ buf' = [buf EXCEPT ![p] = WithoutUndoInfo(@, rce.id, Len(log) + 1)]
        /\ UNCHANGED <<mode, durable, waypoint, disk, sess, dbtime, chk, ckpt, redo, acked, kept>>
  BY <1>a
<1>n. /\ Len(log) \in Nat /\ durable \in Nat /\ waypoint \in Nat /\ chk.lgpos \in Nat /\ sess[s].start \in Nat
      /\ rce \in RCE /\ rce.before \in Value
  <2>1. sess[s].start \in Nat /\ rce \in RCE
    BY <1>0, OfSess
  <2> QED
    BY <2>1, Numbers DEF LogTypes, RCE, Value
<1>2. PICK r : r = NodeRec("UndoInfo", s, sess[s].start, rce, rce.before, 0, 0)
  OBVIOUS
<1>3. /\ r \in LRec /\ r.t = "UndoInfo" /\ r.s = s /\ r.trx = sess[s].start /\ r.node = rce.node /\ r.rceid = rce.id
      /\ r.oper = rce.oper /\ r.val = rce.before
  BY <1>n, <1>2, NodeRecIsRec, SMTT(30) DEF NodeType
<1>4. Logged(r) /\ kept' = kept /\ disk' = disk /\ chk.lgpos <= chk'.lgpos /\ mode # "redo" /\ mode' = mode /\ sess' = sess
  BY <1>1, <1>2, <1>3, <1>n DEF Logged
<1>5. /\ Grow /\ Len(log') = Len(log) + 1 /\ log'[Len(log) + 1] = r /\ \A k \in Added : k = Len(log) + 1 /\ log'[k] = r
      /\ \A S : Harmless(log', Len(log), Len(log'), S)
      /\ \A q \in Page : \A k \in Added : ~On(q, k)'
  BY <1>4, LoggedGrow
<1>6. PICK k \in Nat : k = Len(log) + 1 /\ log'[k] = r /\ k \in 1 .. Len(log') /\ k - 1 = Len(log)
  BY <1>5, <1>n
<1>7. InfoOK(log', k) /\ p = PageOf[rce.node] /\ NeedsUndoInfo(rce)
  BY <1>0, <1>1, <1>3, <1>4, <1>5, <1>6, InfoRight
<1>8. PICK b : b = WithoutUndoInfo(buf[p], rce.id, k)
  OBVIOUS
<1>9. b \in BufType(p) /\ b.pg = buf[p].pg /\ b.modify = Later(buf[p].modify, k) /\ b.undoInfo = buf[p].undoInfo \ {rce.id}
  <2>1. buf[p] \in BufType(p)
    BY <1>0, OfPage
  <2> QED
    BY <1>6, <1>8, <2>1, WithoutType
<1>10. buf'[p] = b /\ \A q \in Page \ {p} : buf'[q] = buf[q]
  <2>1. buf' = [buf EXCEPT ![p] = b]
    BY <1>1, <1>6, <1>8
  <2> QED
    BY <1>0, <1>4, <1>9, <2>1, BufSet
<1>11. LogOK'
  <2>1. RecOK(log', kept, k)
    BY <1>3, <1>6, <1>7 DEF RecOK, IsQuit
  <2> QED
    BY <1>0, <1>3, <1>5, <1>6, <2>1, GrowOne
<1>12. PageState'
  <2>1. ASSUME NEW q \in Page PROVE DiskAfter(q) /\ BufAfter(q)
    <3>0. buf[q].modify \in Nat
      BY <1>0, OfPage
    <3>1. CASE q # p
      <4>1. buf'[q] = buf[q]
        BY <1>10, <3>1
      <4> QED
        BY <1>0, <1>5, <3>0, <4>1, GrowBuf
    <3>2. CASE q = p
      <4>1. buf'[q].pg = buf[q].pg /\ buf'[q].modify = Later(buf[q].modify, k)
        BY <1>9, <1>10, <3>2
      <4>2. buf[q].modify <= buf'[q].modify /\ k \in 1 .. buf'[q].modify
        BY <1>6, <3>0, <4>1 DEF Later
      <4>3. ASSUME NEW i \in Idx, Owes(log, q, i), log[i].rceid \in buf[q].undoInfo \ buf'[q].undoInfo
            PROVE  \E j \in Held(q)' : Covers(log', j, i)
        <5>1. log[i].rceid = rce.id
          BY <1>9, <1>10, <3>2, <4>3
        <5>2. log[i].trx = sess[s].start
          BY <1>0, <4>3, <5>1, VersionOf DEF VersionAt, Owes
        <5>3. log'[i] = log[i] /\ i < k
          BY <1>5, <1>6, GrowSame DEF Idx
        <5>4. Covers(log', k, i)
          BY <1>3, <1>6, <5>1, <5>2, <5>3 DEF Covers
        <5> QED
          BY <4>2, <5>4 DEF Held
      <4> QED
        BY <1>0, <1>5, <4>1, <4>2, <4>3, GrowBuf
    <3> QED
      BY <3>1, <3>2
  <2> QED
    BY <2>1, PagesRight
<1>13. TrxState'
  <2>1. \A v \in Session : Open(v) => Open(v)' /\ sess'[v].start = sess[v].start
    BY <1>4 DEF Open
  <2> QED
    BY <1>0, <1>3, <1>5, <2>1, GrowTrx
<1>14. Moves /\ Come = Added /\ Horizon = Len(log) /\ Horizon' = Len(log')
  BY <1>5, GrowMoves
<1>15. Owing'
  <2>1. InfoAt(log', Horizon', rce.id)
    BY <1>3, <1>6, <1>14 DEF InfoAt
  <2>2. ASSUME NEW v \in Session, NEW q \in sess'[v].rces, NeedsUndoInfo(q)
        PROVE  \/ q.id \in buf'[PageOf[q.node]].undoInfo \/ InfoAt(log', Horizon', q.id)
               \/ q \in sess[v].rces /\ q.id \notin buf[PageOf[q.node]].undoInfo
    <3>1. q \in sess[v].rces /\ PageOf[q.node] \in Page
      <4>1. q \in sess[v].rces
        BY <1>4
      <4>2. q \in RCE
        BY <1>0, <4>1, OfSess
      <4> QED
        BY <4>1, <4>2, Constants DEF RCE
    <3>2. CASE q.id = rce.id
      BY <2>1, <3>2
    <3>3. CASE q.id # rce.id
      BY <1>9, <1>10, <3>1, <3>3
    <3> QED
      BY <3>2, <3>3
  <2> QED
    BY <1>0, <1>14, <2>2, OwingStays
<1>16. Owned'
  <2>1. ASSUME NEW q \in Page, NEW id \in buf'[q].undoInfo
        PROVE  /\ id \in buf[q].undoInfo
               /\ \A j \in Come : ~(log'[j].t = "UndoInfo" /\ log'[j].rceid = id)
               /\ \A v \in Session : \A x \in sess[v].rces : x.id = id => x \in sess'[v].rces
    <3>1. id \in buf[q].undoInfo
      BY <1>9, <1>10
    <3>2. id # rce.id
      <4>1. CASE q = p
        BY <1>9, <1>10, <4>1
      <4>2. CASE q # p
        <5>a. PICK v \in Session : \E x \in sess[v].rces : x.id = id /\ PageOf[x.node] = q
          BY <1>0, <3>1 DEF Owned, OwnedBy
        <5>1. PICK x \in sess[v].rces : x.id = id /\ PageOf[x.node] = q
          BY <5>a
        <5> QED
          BY <1>0, <1>7, <4>2, <5>1, VersionUnique
      <4> QED
        BY <4>1, <4>2
    <3> QED
      BY <1>3, <1>4, <1>5, <1>14, <3>1, <3>2
  <2> QED
    BY <1>0, <1>14, <2>1, OwnedStays
<1>17. \A v \in Session : SessAfter(v)
  BY <1>0, <1>3, <1>4, <1>5, GrowElse DEF IsQuit
<1>18. SessState'
  BY <1>4, <1>15, <1>16, <1>17, SessRight
<1> QED
  BY <1>11, <1>12, <1>13, <1>18 DEF StateInv

\* BeginUndo: nothing waits for its undo information any more.
LEMMA BeginUndoState == ASSUME RecInv, RecInv', StateInv, BeginUndo PROVE StateInv'
<1>0. LogOK /\ PageState /\ SessState /\ TrxState /\ PageTypes /\ SessTypes
  BY Numbers DEF StateInv
<1>n. Len(log) \in Nat /\ durable \in Nat /\ waypoint \in Nat /\ chk.lgpos \in Nat
  BY Numbers DEF LogTypes
<1>1. PICK r : r = Rec("RecoveryUndo", 0, 0)
  OBVIOUS
<1>2. r \in LRec /\ r.t = "RecoveryUndo" /\ r.s = 0 /\ r.trx = 0
  BY <1>1, RecIsRec
<1>3. /\ Logged(r) /\ kept' = kept /\ disk' = disk /\ buf' = buf /\ chk.lgpos <= chk'.lgpos
      /\ mode = "redo" /\ redo = Len(log) /\ mode' = "undo" /\ sess' = sess
  BY <1>1, <1>2, <1>n DEF BeginUndo, Logged
<1>4. /\ Grow /\ Len(log') = Len(log) + 1 /\ log'[Len(log) + 1] = r /\ \A k \in Added : k = Len(log) + 1 /\ log'[k] = r
      /\ \A S : Harmless(log', Len(log), Len(log'), S)
  BY <1>3, LoggedGrow
<1>5. LogOK'
  <2>1. RecOK(log', kept, Len(log) + 1)
    BY <1>2, <1>4 DEF RecOK, IsQuit
  <2> QED
    BY <1>0, <1>2, <1>4, <2>1, GrowOne
<1>6. PageState'
  BY <1>0, <1>3, LoggedPages
<1>7. TrxState'
  <2>1. \A v \in Session : Open(v) => Open(v)' /\ sess'[v].start = sess[v].start
    BY <1>3 DEF Open
  <2> QED
    BY <1>0, <1>2, <1>4, <2>1, GrowTrx
<1>8. Owing' /\ Owned'
  <2>1. \A v \in Session : sess'[v].rces = sess[v].rces
    BY <1>3
  <2> QED
    BY <1>0, <1>2, <1>3, <2>1, LoggedOwes
<1>9. ASSUME NEW v \in Session PROVE SessAfter(v)
  <2>1. SessOK(log, Len(log), v, sess[v]) /\ OwnOK(log, v, sess[v]) /\ DeferOK(log, Len(log), v, sess[v])
    BY <1>0, <1>3, <1>4, GrowSame DEF SessState, Versions, CommitsOwn, Deferred
  <2>2. sess[v].deferred = {}
    <3>1. ~ \E j \in (Len(log) + 1) .. Len(log) : TRUE
      BY <1>n
    <3> QED
      BY <2>1, <3>1 DEF DeferOK
  <2>3. SessOK(log', Len(log'), v, sess[v])
    BY <1>4, <2>1, GrowSame, SessStays
  <2>4. OwnOK(log', v, sess[v])
    BY <1>2, <1>4, <2>1, OwnStays DEF IsQuit
  <2> QED
    BY <1>3, <1>4, <2>2, <2>3, <2>4, GrowSame DEF SessAfter
<1>10. SessState'
  BY <1>3, <1>8, <1>9, SessRight
<1> QED
  BY <1>5, <1>6, <1>7, <1>10 DEF StateInv

\* RecoveryQuit: what stands is committed.
LEMMA QuitState == ASSUME RecInv, RecInv', StateInv, RecoveryQuitKeep \/ RecoveryQuitDetach PROVE StateInv'
<1>0. LogOK /\ PageState /\ SessState /\ TrxState /\ PageTypes /\ SessTypes /\ Resolved
  BY Numbers DEF StateInv, TrxState
<1>n. Len(log) \in Nat /\ durable \in Nat /\ waypoint \in Nat /\ chk.lgpos \in Nat /\ Bounds
  BY Numbers DEF LogTypes
<1>1. PICK r : /\ log' = Append(log, r)
               /\ \/ RecoveryQuitKeep /\ r = Rec("QuitKeep", 0, 0)
                  \/ RecoveryQuitDetach /\ r = Rec("QuitDetach", 0, 0)
  BY DEF RecoveryQuitKeep, RecoveryQuitDetach
<1>2. r \in LRec /\ r.t \in {"QuitKeep", "QuitDetach"}
  BY <1>1, RecIsRec
<1>a. /\ kept' = kept /\ disk' = disk /\ buf' = buf /\ dbtime' = dbtime /\ sess' = sess
      /\ mode = "undo" /\ mode' = "run" /\ \A s \in Session : sess[s].st = "idle"
  BY DEF RecoveryQuitKeep, RecoveryQuitDetach
<1>b. durable <= durable' /\ waypoint <= waypoint' /\ chk.lgpos <= chk'.lgpos
  <2>1. CASE RecoveryQuitKeep
    BY <1>n, <2>1 DEF RecoveryQuitKeep
  <2>2. CASE RecoveryQuitDetach
    <3>1. durable' = Len(log) + 1 /\ waypoint' = Later(waypoint, Len(log) + 1) /\ chk'.lgpos = Len(log) + 1
      BY <2>2 DEF RecoveryQuitDetach
    <3>2. durable <= Len(log) + 1 /\ chk.lgpos <= Len(log) + 1
      BY <1>n DEF Bounds
    <3> QED
      BY <1>n, <3>1, <3>2 DEF Later
  <2> QED
    BY <2>1, <2>2
<1>3. Logged(r)
  BY <1>1, <1>2, <1>a, <1>b DEF Logged
<1>4. /\ Grow /\ Len(log') = Len(log) + 1 /\ log'[Len(log) + 1] = r /\ \A k \in Added : k = Len(log) + 1 /\ log'[k] = r
      /\ \A S : Harmless(log', Len(log), Len(log'), S)
  BY <1>3, <1>a, <1>b, LoggedGrow
<1>5. PICK k \in Nat : k = Len(log) + 1 /\ log'[k] = r /\ k \in 1 .. Len(log') /\ k - 1 = Len(log)
  BY <1>4, <1>n
<1>6. QuitOK(log', kept, k)
  <2> SUFFICES ASSUME NEW i \in 1 .. Len(log), log'[i].t = "Node", Stands(log', i, Len(log))
               PROVE  CommittedBy(log', kept, log'[i].trx, Len(log))
    BY <1>5 DEF QuitOK
  <2>1. Agree(log, log', Len(log)) /\ log'[i] = log[i] /\ Horizon = Len(log)
    BY <1>4, GrowSame DEF Idx
  <2>2. Stands(log, i, Len(log))
    BY <1>n, <2>1, StandsSame
  <2>3. log[i].trx \in Nat /\ Skipped = 0
    BY <1>a, Numbers DEF Idx, Skipped
  <2>4. CommittedBy(log, kept, log[i].trx, Len(log))
    BY <1>0, <1>a, <2>1, <2>2, <2>3 DEF Resolved, ResolvedAt, IsOpen
  <2> QED
    BY <1>n, <2>1, <2>4, CommittedSame
<1>7. LogOK'
  <2>1. RecOK(log', kept, k)
    BY <1>2, <1>5, <1>6 DEF RecOK, IsQuit
  <2> QED
    BY <1>0, <1>2, <1>4, <1>5, <2>1, GrowOne
<1>8. PageState'
  BY <1>0, <1>3, <1>a, <1>b, LoggedPages
<1>9. TrxState'
  <2>1. \A v \in Session : Open(v) => Open(v)' /\ sess'[v].start = sess[v].start
    BY <1>a DEF Open
  <2> QED
    BY <1>0, <1>2, <1>4, <2>1, GrowTrx
<1>10. Owing' /\ Owned'
  <2>1. \A v \in Session : sess'[v].rces = sess[v].rces
    BY <1>a
  <2> QED
    BY <1>0, <1>2, <1>3, <1>a, <1>b, <2>1, LoggedOwes
<1>11. ASSUME NEW v \in Session PROVE SessAfter(v)
  <2>1. SessOK(log, Len(log), v, sess[v]) /\ sess[v].deferred = {} /\ sess[v].st = "idle"
    BY <1>0, <1>4, <1>a, GrowSame DEF SessState, Versions, Deferred
  <2>2. SessOK(log', Len(log'), v, sess[v])
    BY <1>4, <2>1, GrowSame, SessStays
  <2>3. OwnOK(log', v, sess[v])
    BY <2>1 DEF OwnOK
  <2>4. Ends(log', Len(log) + 1, v)
    BY <1>2, <1>4 DEF Ends, IsQuit
  <2>5. RunsOK(log', v, sess[v])
    BY <1>2, <1>4, <2>1, <2>4, RestsAfter DEF RunsOK
  <2> QED
    BY <1>4, <1>a, <2>1, <2>2, <2>3, <2>5, GrowSame DEF SessAfter
<1>12. SessState'
  BY <1>a, <1>10, <1>11, SessRight
<1> QED
  BY <1>7, <1>8, <1>9, <1>12 DEF StateInv

-----------------------------------------------------------------------------
(* Steps that log a change of a page *)

\* What such a step does to the log.
LEMMA ChangesGrow ==
    ASSUME RecInv, RecInv', NEW s \in Session, NEW p \in Page, NEW k \in Nat, Changes(s, p, k), kept' = kept
    PROVE  /\ Grow /\ Len(log) \in Nat /\ k = Len(log') /\ k \in Added /\ k \in Idx' /\ mode # "redo" /\ mode' = mode
           /\ \A j \in Added \ {k} : j = Len(log) + 1 /\ k = Len(log) + 2 /\ log'[j].t \notin {"Node", "Undo"}
           /\ dbtime \in Nat /\ (\A q \in Page : disk[q].dbtime <= dbtime /\ buf[q].pg.dbtime <= dbtime)
           /\ log'[k].after = dbtime + 1
           /\ \A q \in Page : \A j \in Added : On(q, j)' => q = p /\ j = k
<1>1. /\ mode # "redo" /\ Ext /\ k = Len(log') /\ k \in {Len(log) + 1, Len(log) + 2} /\ On(p, k)'
      /\ log'[k].after = dbtime + 1 /\ (k = Len(log) + 2 => log'[Len(log) + 1].after = 0)
      /\ UNCHANGED <<mode, durable, waypoint, disk, chk, ckpt, redo, acked>>
  BY DEF Changes
<1>2. Len(log) \in Nat /\ durable \in Nat /\ waypoint \in Nat /\ chk.lgpos \in Nat /\ dbtime \in Nat /\ Horizon = Len(log)
  BY <1>1, Numbers DEF LogTypes
<1>3. Grow
  BY <1>1, <1>2 DEF Grow
<1>4. k \in Added /\ k \in Idx'
  BY <1>1, <1>2 DEF Added, Idx
<1>5. ASSUME NEW j \in Added \ {k} PROVE j = Len(log) + 1 /\ k = Len(log) + 2 /\ log'[j].t \notin {"Node", "Undo"}
  <2>1. j = Len(log) + 1 /\ k = Len(log) + 2
    BY <1>1, <1>2 DEF Added
  <2>2. j \in Idx' /\ log'[j].after = 0
    BY <1>1, <1>3, <2>1, GrowSame
  <2>3. LogTypes'
    BY NumbersNext
  <2>4. log'[j].t \in {"Node", "Undo"} => log'[j].after > 0
    BY <2>2, <2>3, OfLogNext
  <2> QED
    BY <2>1, <2>2, <2>4
<1>6. ASSUME NEW q \in Page PROVE disk[q].dbtime <= dbtime /\ buf[q].pg.dbtime <= dbtime
  <2>1. buf[q].pg.dbtime <= dbtime
    BY <1>1, CacheBehind DEF RecInv, LogInv, PageInv
  <2>2. disk[q].dbtime <= buf[q].pg.dbtime
    BY DEF RecInv, PageInv, Stamps
  <2>3. disk[q].dbtime \in Nat /\ buf[q].pg.dbtime \in Nat
    BY Numbers, OfPage
  <2> QED
    BY <1>2, <2>1, <2>2, <2>3
<1>7. \A q \in Page : \A j \in Added : On(q, j)' => q = p /\ j = k
  BY <1>1, <1>5 DEF On, PageRec
<1> QED
  BY <1>1, <1>2, <1>3, <1>4, <1>5, <1>6, <1>7

\* Outside of redo a page shows what the log makes of its nodes.
LEMMA ImageShows ==
    ASSUME RecInv, PageState, mode # "redo", NEW n \in Node
    PROVE  Shows(log, n, 1 .. Len(log), buf[PageOf[n]].pg.img[n])
<1>1. PICK p \in Page : p = PageOf[n]
  BY Constants
<1>2. Shows(log, n, UpTo(log, buf[p].pg.dbtime), buf[p].pg.img[n])
  BY <1>1 DEF PageState, Images, ImageOK
<1>3. Horizon = Len(log) /\ Len(log) \in Nat
  BY Numbers
<1>4. ASSUME NEW i, NodeOn(log, n, i) PROVE i \in UpTo(log, buf[p].pg.dbtime) <=> i \in 1 .. Len(log)
  <2>1. ASSUME i \in 1 .. Len(log) PROVE log[i].after <= buf[p].pg.dbtime
    <3>1. i \in Idx /\ i <= Horizon /\ On(p, i)
      BY <1>1, <1>3, <1>4, <2>1 DEF Idx, On, PageRec, NodeOn
    <3> QED
      BY <3>1 DEF RecInv, PageInv, Caught
  <2> QED
    BY <2>1 DEF UpTo
<1>5. \A i : (i \in UpTo(log, buf[p].pg.dbtime) /\ NodeOn(log, n, i)) <=> (i \in 1 .. Len(log) /\ NodeOn(log, n, i))
  BY <1>4
<1>6. Shows(log, n, 1 .. Len(log), buf[p].pg.img[n])
  BY <1>2, <1>5, ShowsSame
<1> QED
  BY <1>1, <1>6

\* It shows it still to the record that changes the page.
LEMMA ChangesShows ==
    ASSUME RecInv, RecInv', NEW s \in Session, NEW p \in Page, NEW k \in Nat, Changes(s, p, k), kept' = kept,
           NEW n, NEW v, Shows(log, n, 1 .. Len(log), v)
    PROVE  Shows(log', n, 1 .. (k - 1), v)
<1>1. /\ Grow /\ Len(log) \in Nat /\ k = Len(log')
      /\ \A j \in Added \ {k} : log'[j].t \notin {"Node", "Undo"}
  BY ChangesGrow
<1>2. Len(log) < k
  BY <1>1, ChangesGrow DEF Added
<1>3. /\ \A i \in Idx : i \in Idx' /\ i \in Nat /\ log'[i] = log[i]
      /\ \A j \in Idx' : j \in Nat /\ (j \in Idx \/ j \in Added)
  BY <1>1, GrowSame
<1>4. PICK m : m = log'
  OBVIOUS
<1>5. ASSUME NEW i PROVE (i \in 1 .. Len(log) /\ NodeOn(log, n, i)) <=> (i \in 1 .. (k - 1) /\ NodeOn(m, n, i))
  <2>1. CASE i \in Idx
    <3>1. i \in 1 .. Len(log) /\ i \in 1 .. (k - 1) /\ m[i] = log[i]
      BY <1>1, <1>2, <1>3, <1>4, <2>1 DEF Idx
    <3> QED
      BY <3>1 DEF NodeOn
  <2>2. CASE i \notin Idx
    <3>1. i \notin 1 .. Len(log)
      BY <2>2 DEF Idx
    <3>2. ASSUME i \in 1 .. (k - 1) PROVE ~NodeOn(m, n, i)
      <4>1. i \in Idx' /\ i # k
        BY <1>1, <3>2 DEF Idx
      <4>2. i \in Added \ {k}
        BY <1>3, <2>2, <4>1
      <4> QED
        BY <1>1, <1>4, <4>2 DEF NodeOn
    <3> QED
      BY <3>1, <3>2
  <2> QED
    BY <2>1, <2>2
<1>6. \A i \in 1 .. Len(log) : NodeOn(log, n, i) => log[i].val = m[i].val
  BY <1>3, <1>4 DEF Idx
<1>7. Shows(m, n, 1 .. (k - 1), v)
  BY <1>5, <1>6, ShowsSame
<1> QED
  BY <1>4, <1>7

\* The pages after it.
LEMMA ChangesPages ==
    ASSUME RecInv, RecInv', PageState, NEW s \in Session, NEW p \in Page, NEW k \in Nat, Changes(s, p, k), kept' = kept,
           NEW n \in Node, log'[k].node = n, p = PageOf[n],
           buf'[p].pg.img = Written(buf[p].pg.img, n, log'[k].val),
           \A i \in Idx : Owes(log, p, i) /\ log[i].rceid \in buf[p].undoInfo \ buf'[p].undoInfo =>
              \E j \in Held(p)' : Covers(log', j, i),
           Owes(log', p, k) => log'[k].rceid \in buf'[p].undoInfo
    PROVE  PageState'
<1>1. /\ Grow /\ Len(log) \in Nat /\ k = Len(log') /\ k \in Added /\ k \in Idx' /\ mode # "redo"
      /\ \A j \in Added \ {k} : log'[j].t \notin {"Node", "Undo"}
      /\ dbtime \in Nat /\ (\A q \in Page : disk[q].dbtime <= dbtime /\ buf[q].pg.dbtime <= dbtime)
      /\ log'[k].after = dbtime + 1
      /\ \A q \in Page : \A j \in Added : On(q, j)' => q = p /\ j = k
  BY ChangesGrow
<1>2. /\ buf'[p].pg.dbtime = dbtime + 1 /\ buf'[p].modify = Later(buf[p].modify, k) /\ On(p, k)'
      /\ \A q \in Page : q # p => buf'[q] = buf[q]
  BY DEF Changes
<1>3. \A q \in Page : disk[q].dbtime \in Nat /\ buf[q].pg.dbtime \in Nat /\ buf[q].modify \in Nat
  BY Numbers, OfPage
<1>4. /\ \A i \in Idx : i \in Idx' /\ i \in Nat /\ log'[i] = log[i]
      /\ \A j \in Idx' : j \in Nat /\ (j \in Idx \/ j \in Added)
      /\ \A j \in Added : j \notin Idx /\ j \in Idx'
      /\ Horizon = Len(log) /\ Surviving \subseteq Surviving'
  BY <1>1, GrowSame
<1>5. \A i \in Idx : On(p, i) => log[i].after <= buf[p].pg.dbtime
  <2>1. \A i \in Idx : i <= Horizon
    BY <1>1, <1>4 DEF Idx
  <2> QED
    BY <2>1 DEF RecInv, PageInv, Caught
<1>6. \A i \in Idx' : log'[i].after \in Nat
  BY NumbersNext
<1>7. PICK m : m = log'
  OBVIOUS
<1>8. PICK q : q = buf'[p].pg
  OBVIOUS
<1>9. PICK pg : pg = buf[p].pg
  OBVIOUS
<1>10. ImageOK(m, q, p)
  <2>1. ImageOK(log, pg, p)
    BY <1>9 DEF PageState, Images
  <2>2. k \in UpTo(m, q.dbtime) /\ m[k].t \in {"Node", "Undo"}
    BY <1>1, <1>2, <1>7, <1>8 DEF UpTo, On, PageRec, Idx
  <2>3. UpTo(log, pg.dbtime) \subseteq Nat /\ UpTo(m, q.dbtime) \subseteq Nat
    BY DEF UpTo
  <2>4. ASSUME NEW i
        PROVE  LET Has(x, t) == i \in UpTo(x, t) /\ x[i].t \in {"Node", "Undo"} /\ PageOf[x[i].node] = p
               IN  /\ Has(m, q.dbtime) <=> (Has(log, pg.dbtime) \/ i = k)
                   /\ Has(log, pg.dbtime) => log[i] = m[i] /\ i < k
    <3>1. CASE i \in Idx
      <4>1. log[i] = m[i] /\ i < k /\ i # k /\ i \in 1 .. Len(log) /\ i \in 1 .. Len(m)
        <5>1. i \in Nat /\ Len(log) < k
          BY <1>1, <1>4, <3>1 DEF Added
        <5> QED
          BY <1>1, <1>4, <1>7, <3>1, <5>1 DEF Idx
      <4>2. ASSUME log[i].t \in {"Node", "Undo"}, PageOf[log[i].node] = p
            PROVE  log[i].after <= pg.dbtime /\ log[i].after <= q.dbtime
        <5>1. log[i].after <= buf[p].pg.dbtime /\ log[i].after \in Nat
          BY <1>5, <3>1, <4>2, Numbers DEF On, PageRec
        <5> QED
          BY <1>1, <1>2, <1>3, <1>8, <1>9, <5>1
      <4>3. (i \in UpTo(m, q.dbtime) <=> m[i].after <= q.dbtime) /\ (i \in UpTo(log, pg.dbtime) <=> log[i].after <= pg.dbtime)
        BY <4>1 DEF UpTo
      <4> QED
        BY <4>1, <4>2, <4>3
    <3>2. CASE i \notin Idx
      <4>1. i \notin UpTo(log, pg.dbtime)
        BY <3>2 DEF UpTo, Idx
      <4>2. CASE i = k
        BY <1>2, <1>7, <2>2, <4>1, <4>2 DEF On, PageRec
      <4>3. ASSUME i # k, i \in UpTo(m, q.dbtime), m[i].t \in {"Node", "Undo"} PROVE FALSE
        <5>1. i \in Idx'
          BY <1>7, <4>3 DEF UpTo, Idx
        <5>2. i \in Added \ {k}
          BY <1>4, <3>2, <4>3, <5>1
        <5> QED
          BY <1>1, <1>7, <4>3, <5>2
      <4> QED
        BY <4>1, <4>2, <4>3
    <3> QED
      BY <3>1, <3>2
  <2>5. q.img[m[k].node] = m[k].val /\ \A x \in Node : PageOf[x] = p /\ x # m[k].node => q.img[x] = pg.img[x]
    <3>1. pg.img \in [{x \in Node : PageOf[x] = p} -> Value]
      <4>1. pg \in PageImage(p)
        BY <1>9, Numbers, OfPage
      <4> QED
        BY <4>1 DEF PageImage, Value
    <3>2. q.img = [pg.img EXCEPT ![n] = m[k].val]
      BY <1>7, <1>8, <1>9 DEF Written
    <3> QED
      BY <1>7, <3>1, <3>2
  <2>6. OneMore(log, m, pg.dbtime, q.dbtime, p, k)
    BY <2>4 DEF OneMore, RecUpTo
  <2> QED
    BY <2>1, <2>2, <2>3, <2>5, <2>6, ImageChanged
<1>11. Held(p) \subseteq Held(p)' /\ Held(p) \subseteq Idx
  <2>1. 1 .. buf[p].modify \subseteq 1 .. buf'[p].modify
    BY <1>2, <1>3 DEF Later
  <2> QED
    BY <1>4, <2>1, HeldIn DEF Held
<1>12. Covered(m, p, q.dbtime, buf'[p].undoInfo, Held(p)')
  <2>1. Covered(log, p, pg.dbtime, buf[p].undoInfo, Held(p))
    BY <1>9 DEF PageState, BufCovered
  <2>2. \A j \in Held(p) : m[j] = log[j]
    BY <1>4, <1>7, <1>11
  <2>3. ASSUME NEW i \in 1 .. Len(m), Owes(m, p, i), m[i].after <= q.dbtime
        PROVE  \/ /\ i \in 1 .. Len(log) /\ log[i] = m[i] /\ log[i].after <= pg.dbtime
                  /\ log[i].rceid \in buf[p].undoInfo => log[i].rceid \in buf'[p].undoInfo
               \/ m[i].rceid \in buf'[p].undoInfo
               \/ \E j \in Held(p)' : Covers(m, j, i)
    <3>1. i \in Idx'
      BY <1>7 DEF Idx
    <3>2. CASE i \in Idx
      <4>1. log[i] = m[i] /\ i \in 1 .. Len(log)
        BY <1>4, <1>7, <3>2 DEF Idx
      <4>2. Owes(log, p, i) /\ On(p, i)
        BY <2>3, <4>1 DEF Owes, On, PageRec
      <4> QED
        BY <1>5, <1>7, <1>9, <3>2, <4>1, <4>2
    <3>3. CASE i \in Added
      <4>1. i = k
        BY <1>1, <1>7, <2>3, <3>3 DEF Owes
      <4> QED
        BY <1>7, <2>3, <4>1
    <3> QED
      BY <1>4, <3>1, <3>2, <3>3
  <2> QED
    BY <1>11, <2>1, <2>2, <2>3, CoveredKept
<1>13. ASSUME NEW x \in Page PROVE DiskAfter(x) /\ BufAfter(x)
  <2>1. CASE x # p
    BY <1>1, <1>2, <1>3, <2>1, GrowBuf
  <2>2. CASE x = p
    <3>1. DiskAfter(p)
      <4>1. \A j \in Added : On(p, j)' => disk[p].dbtime < log'[j].after
        BY <1>1, <1>3
      <4> QED
        BY <1>1, <4>1, GrowDisk
    <3>2. BufAfter(p)
      BY <1>7, <1>8, <1>10, <1>12 DEF BufAfter
    <3> QED
      BY <2>2, <3>1, <3>2
  <2> QED
    BY <2>1, <2>2
<1> QED
  BY <1>13, PagesRight

\* The undo information in the log is of changes that the counter has seen.
LEMMA InfoOld ==
    ASSUME RecInv, LogOK, mode # "redo", NEW id, InfoAt(log, Len(log), id)
    PROVE  id \in Nat /\ id <= dbtime
<1>1. PICK j \in Idx : log[j].t = "UndoInfo" /\ log[j].rceid = id
  BY DEF InfoAt, Idx
<1>2. PICK i \in 1 .. (j - 1) : About(log, i, j)
  BY <1>1 DEF LogOK, RecOK, InfoOK
<1>3. log[i].t = "Node" /\ log[i].rceid = id
  BY <1>1, <1>2 DEF About
<1>4. i \in Idx /\ i <= Horizon
  BY <1>1, <1>2, Numbers DEF Idx
<1>5. log[i].rceid = log[i].after
  BY <1>3, <1>4 DEF LogOK, RecOK, NodeOK
<1>6. log[i].after <= dbtime /\ log[i].after \in Nat
  BY <1>4, Numbers DEF RecInv, LogInv, SeenTimes
<1> QED
  BY <1>3, <1>5, <1>6

\* Open transactions are of one session each.
LEMMA OpenOnce ==
    ASSUME RecInv, NEW s \in Session, NEW v \in Session, Open(s), Open(v), sess[s].start = sess[v].start
    PROVE  s = v
BY DEF RecInv, SessInv, OpenTrx

\* What stands on a node that nobody else has locked is committed.
LEMMA NotLocked ==
    ASSUME RecInv, LogOK, SessState, TrxState, mode # "redo", NEW s \in Session, NEW n, ~Locked(n, s),
           NEW i \in Idx, StandsOn(log, n, i, Len(log)), Open(s) => log[i].trx # sess[s].start
    PROVE  CommittedBy(log, kept, log[i].trx, Len(log))
<1>0. Horizon = Len(log) /\ Skipped = 0 /\ log[i].trx \in Nat /\ i \in 1 .. Len(log) /\ Versions /\ Deferred
  BY Numbers DEF Skipped, SessState
<1>1. ASSUME NEW v \in Session, IsOpen(sess[v]), sess[v].start = log[i].trx PROVE FALSE
  <2>1. v # s
    BY <1>1 DEF Open, IsOpen
  <2>2. log[i].t = "Node" /\ log[i].node = n /\ Stands(log, i, Len(log))
    BY DEF StandsOn
  <2>3. sess[v].deferred = {} /\ SessOK(log, Len(log), v, sess[v])
    BY <1>0 DEF Versions, Deferred
  <2>4. PICK r \in sess[v].rces : r.id = log[i].rceid
    BY <1>0, <1>1, <2>2, <2>3 DEF SessOK
  <2>5. r.node = n
    BY <1>0, <2>2, <2>4, VersionOf DEF VersionAt
  <2> QED
    BY <2>1, <2>4, <2>5 DEF Locked
<1>2. ResolvedAt(log, kept, Len(log), sess, 0)
  BY <1>0 DEF TrxState, Resolved
<1> QED
  BY <1>0, <1>1, <1>2 DEF ResolvedAt, StandsOn

\* The record that an update logs before its own is its Begin0.
LEMMA UpdateBegins ==
    ASSUME NEW s \in Session, NEW p, NEW n, NEW k \in Nat, NEW r, NEW val, NEW j, Len(log) \in Nat,
           Changes(s, p, k), UpdatesTo(s, n, p, k, r, val), j = Len(log) + 1, k = Len(log) + 2
    PROVE  sess[s].st = "idle" /\ log'[j].t = "Begin0" /\ log'[j].s = s
<1>1. k # Len(log) + 1
  OBVIOUS
<1>2. sess[s].st = "idle"
  BY <1>1 DEF UpdatesTo
<1>3. ~Open(s)
  BY <1>2 DEF Open
<1>4. log'[Len(log) + 1].t = "Begin0" /\ log'[Len(log) + 1].s = s
  BY <1>3 DEF Changes
<1> QED
  BY <1>2, <1>4

\* The records of an update are in order.
LEMMA UpdateLog ==
    ASSUME RecInv, RecInv', StateInv, NEW s \in Session, NEW n \in Node, NEW k \in Nat, NEW r, NEW val,
           Changes(s, PageOf[n], k), UpdatesTo(s, n, PageOf[n], k, r, val), kept' = kept, ~Locked(n, s)
    PROVE  LogOK' /\ Shows(log', n, 1 .. (k - 1), r.before)
<1>0. LogOK /\ PageState /\ SessState /\ TrxState /\ Runs
  BY DEF StateInv, SessState
<1>1. PICK p \in Page : p = PageOf[n]
  BY Constants
<1>2. /\ Grow /\ Len(log) \in Nat /\ k = Len(log') /\ k \in Added /\ k \in Idx' /\ mode # "redo"
      /\ \A j \in Added \ {k} : j = Len(log) + 1 /\ k = Len(log) + 2 /\ log'[j].t \notin {"Node", "Undo"}
      /\ log'[k].after = dbtime + 1
  BY <1>1, ChangesGrow
<1>3. /\ log'[k].t = "Node" /\ log'[k].node = n /\ log'[k].rceid = r.id /\ log'[k].oper = r.oper /\ log'[k].val = val
      /\ val \in Value /\ r.id = dbtime + 1 /\ r.before = buf[p].pg.img[n] /\ (r.oper = "Insert" => r.before = NoRec)
      /\ mode = "run" /\ (sess[s].st # "idle" => sess[s].st = "open" /\ k = Len(log) + 1)
  BY <1>1 DEF UpdatesTo
<1>4. /\ log'[k].s = s /\ log'[k].trx = sess'[s].start
      /\ \/ /\ sess[s].st = "idle" /\ k = Len(log) + 2 /\ sess'[s].start = Len(log) + 1
            /\ log'[Len(log) + 1].t = "Begin0" /\ log'[Len(log) + 1].s = s
         \/ Open(s) /\ sess'[s].start = sess[s].start
  BY DEF Changes
<1>5. /\ \A i \in Idx : i \in Idx' /\ i \in Nat /\ log'[i] = log[i]
      /\ \A j \in Idx' : j \in Nat /\ (j \in Idx \/ j \in Added)
      /\ Agree(log, log', Len(log)) /\ Horizon = Len(log)
  BY <1>2, GrowSame
<1>6. Shows(log', n, 1 .. (k - 1), r.before)
  <2>1. Shows(log, n, 1 .. Len(log), r.before)
    BY <1>0, <1>1, <1>2, <1>3, ImageShows
  <2> QED
    BY <1>1, <2>1, ChangesShows
<1>7. PICK h \in Nat : h = k - 1 /\ Len(log) <= h
  BY <1>2 DEF Added
<1>8. NodeOK(log', kept, k)
  <2>1. ASSUME NEW i \in 1 .. h, StandsOn(log', n, i, h), log'[i].trx # log'[k].trx
        PROVE  CommittedBy(log', kept, log'[i].trx, h)
    <3>1. i \in Idx' /\ i # k
      BY <1>2, <1>7 DEF Idx
    <3>2. i \notin Added
      BY <1>2, <2>1, <3>1 DEF StandsOn
    <3>3. i \in Idx /\ i \in 1 .. Len(log) /\ log'[i] = log[i]
      BY <1>5, <3>1, <3>2 DEF Idx
    <3>4. Stands(log, i, Len(log))
      BY <1>2, <1>5, <1>7, <2>1, <3>3, StoodBefore DEF StandsOn
    <3>5. StandsOn(log, n, i, Len(log))
      BY <2>1, <3>3, <3>4 DEF StandsOn
    <3>6. Open(s) => log[i].trx # sess[s].start
      BY <1>4, <2>1, <3>3 DEF Open
    <3>7. CommittedBy(log, kept, log[i].trx, Len(log))
      BY <1>0, <1>2, <3>3, <3>5, <3>6, NotLocked
    <3>8. CommittedBy(log', kept, log[i].trx, Len(log))
      BY <1>2, <1>5, <3>7, CommittedSame
    <3> QED
      BY <1>2, <1>7, <3>3, <3>8, CommittedLater
  <2> QED
    BY <1>2, <1>3, <1>6, <1>7, <2>1 DEF NodeOK
<1>9. NetOK(log', h)
  <2>1. NetOK(log', Len(log))
    BY <1>0, <1>2, NetGrown
  <2>2. CASE h = Len(log)
    BY <2>1, <2>2
  <2>3. CASE h # Len(log)
    <3>1. h \in Added \ {k}
      BY <1>2, <1>7, <2>3 DEF Added
    <3>2. h = Len(log) + 1 /\ log'[h].t \notin {"Node", "Undo"}
      BY <1>2, <3>1
    <3> QED
      BY <1>2, <2>1, <3>2, NetPlain
  <2> QED
    BY <2>2, <2>3
<1>10. NetOK(log', k)
  <2>1. k = h + 1 /\ log'[k].val \in Value
    BY <1>3, <1>7
  <2> QED
    BY <1>3, <1>9, <2>1, NetNode
<1>11. RecOK(log', kept, k)
  BY <1>3, <1>8 DEF RecOK, IsQuit
<1>12. ASSUME NEW j \in Added \ {k} PROVE RecOK(log', kept, j) /\ NetOK(log', j)
  <2>1. j = Len(log) + 1 /\ j = h /\ j - 1 = Len(log)
    BY <1>2, <1>7
  <2>2. sess[s].st = "idle" /\ log'[j].t = "Begin0" /\ log'[j].s = s
    BY <1>2, UpdateBegins
  <2>3. Rests(log, s)
    BY <1>0, <1>3, <2>2 DEF Runs, RunsOK
  <2>4. BeginOK(log', j)
    <3> SUFFICES ASSUME NEW b \in 1 .. Len(log), log'[b].t = "Begin0", log'[b].s = s
                 PROVE  \E e \in (b + 1) .. Len(log) : Ends(log', e, s)
      BY <2>1, <2>2 DEF BeginOK
    <3>1. log'[b] = log[b]
      BY <1>5 DEF Idx
    <3>2. PICK e \in (b + 1) .. Len(log) : Ends(log, e, s)
      BY <2>3, <3>1 DEF Rests
    <3>3. e \in Idx
      BY <1>2, <3>2 DEF Idx
    <3>4. Ends(log', e, s)
      BY <1>5, <3>2, <3>3 DEF Ends, IsQuit
    <3> QED
      BY <3>2, <3>4
  <2>5. RecOK(log', kept, j)
    BY <2>2, <2>4 DEF RecOK, IsQuit
  <2> QED
    BY <1>9, <2>1, <2>5
<1>13. LogOK'
  BY <1>0, <1>2, <1>10, <1>11, <1>12, GrowLog
<1> QED
  BY <1>6, <1>13

\* Update.
LEMMA UpdateState ==
    ASSUME RecInv, RecInv', StateInv, NEW s \in Session, NEW n \in Node, NEW delete \in BOOLEAN, Update(s, n, delete)
    PROVE  StateInv'
<1>0. LogOK /\ PageState /\ SessState /\ TrxState /\ PageTypes /\ SessTypes /\ Versions /\ Owing /\ Owned /\ Runs /\ Deferred
  BY Numbers DEF StateInv, SessState
<1>a. Types
  BY SMTT(30) DEF RecInv
<1>b. kept' = kept /\ ~Locked(n, s)
  BY DEF Update
<1>p. PICK p \in Page : p = PageOf[n]
  BY Constants
<1>k. PICK k \in Nat : Changes(s, p, k) /\ \E r, val : UpdatesTo(s, n, p, k, r, val)
  BY <1>a, <1>p, UpdateDoes
<1>r. PICK r, val : UpdatesTo(s, n, p, k, r, val)
  BY <1>k
<1>1. /\ Grow /\ Len(log) \in Nat /\ k = Len(log') /\ k \in Added /\ k \in Idx' /\ mode # "redo" /\ mode' = mode
      /\ \A j \in Added \ {k} : j = Len(log) + 1 /\ k = Len(log) + 2 /\ log'[j].t \notin {"Node", "Undo"}
      /\ log'[k].after = dbtime + 1 /\ dbtime \in Nat
  BY <1>b, <1>k, ChangesGrow
<1>2. /\ log'[k].t = "Node" /\ log'[k].node = n /\ log'[k].rceid = r.id /\ log'[k].oper = r.oper /\ log'[k].val = val
      /\ val \in Value /\ r.id = dbtime + 1 /\ r.node = n /\ r.before = buf[p].pg.img[n]
      /\ mode = "run" /\ sess'[s].st = "open" /\ (sess[s].st # "idle" => sess[s].st = "open" /\ k = Len(log) + 1)
      /\ sess'[s].rces = sess[s].rces \cup {r} /\ sess'[s].deferred = sess[s].deferred
      /\ buf'[p].pg.img = Written(buf[p].pg.img, n, val)
      /\ buf'[p].undoInfo = buf[p].undoInfo \cup (IF NeedsUndoInfo(r) THEN {r.id} ELSE {})
  BY <1>r DEF UpdatesTo
<1>3. /\ log'[k].s = s /\ log'[k].trx = sess'[s].start
      /\ \/ /\ sess[s].st = "idle" /\ k = Len(log) + 2 /\ sess'[s].start = Len(log) + 1
            /\ log'[Len(log) + 1].t = "Begin0" /\ log'[Len(log) + 1].s = s
         \/ Open(s) /\ sess'[s].start = sess[s].start
      /\ \A v \in Session : v # s => sess'[v] = sess[v]
      /\ \A q \in Page : q # p => buf'[q] = buf[q]
  BY <1>k DEF Changes
<1>4. /\ \A i \in Idx : i \in Idx' /\ i \in Nat /\ log'[i] = log[i]
      /\ \A j \in Idx' : j \in Nat /\ (j \in Idx \/ j \in Added)
      /\ Agree(log, log', Len(log)) /\ Horizon = Len(log) /\ Horizon' = Len(log')
      /\ Moves /\ Come = Added
  BY <1>1, GrowSame, GrowMoves
<1>5. LogOK' /\ Shows(log', n, 1 .. (k - 1), r.before)
  BY <1>b, <1>k, <1>p, <1>r, UpdateLog
<1>6. PageState'
  <2>1. buf[p].undoInfo \ buf'[p].undoInfo = {}
    BY <1>2
  <2>2. Owes(log', p, k) => log'[k].rceid \in buf'[p].undoInfo
    BY <1>2 DEF Owes, NeedsUndoInfo
  <2> QED
    BY <1>0, <1>2, <1>b, <1>k, <1>p, <2>1, <2>2, ChangesPages
<1>c. \A j \in Added \ {k} : log'[j].t = "Begin0" /\ log'[j].s = s
  BY <1>1, <1>k, <1>r, UpdateBegins
<1>7. \A j \in Added : log'[j].t \notin {"Undo", "UndoInfo"} /\ ~IsQuit(log', j)
  BY <1>2, <1>c DEF IsQuit
<1>8. \A v \in Session : Open(v) => Open(v)' /\ sess'[v].start = sess[v].start
  BY <1>2, <1>3 DEF Open
<1>9. Open(s)'
  BY <1>2 DEF Open
<1>10. TrxState'
  <2>1. \A j \in Added : log'[j].t = "Node" => \E v \in Session : Open(v)' /\ sess'[v].start = log'[j].trx
    BY <1>1, <1>3, <1>9
  <2> QED
    BY <1>0, <1>1, <1>7, <1>8, <2>1, GrowTrx
<1>11. \A q \in Page : buf[q].undoInfo \subseteq buf'[q].undoInfo
  BY <1>2, <1>3
<1>12. Owing'
  <2>1. ASSUME NEW v \in Session, NEW x \in sess'[v].rces, NeedsUndoInfo(x)
        PROVE  \/ x.id \in buf'[PageOf[x.node]].undoInfo
               \/ x \in sess[v].rces /\ x.id \notin buf[PageOf[x.node]].undoInfo
    <3>1. CASE x \in sess[v].rces
      <4>1. x \in RCE
        BY <1>0, <3>1, OfSess
      <4>2. PageOf[x.node] \in Page
        BY <4>1, Constants DEF RCE
      <4> QED
        BY <1>11, <3>1, <4>2
    <3>2. CASE x \notin sess[v].rces
      <4>1. x = r /\ v = s
        BY <1>2, <1>3, <2>1, <3>2
      <4> QED
        BY <1>2, <1>p, <2>1, <4>1
    <3> QED
      BY <3>1, <3>2
  <2> QED
    BY <1>0, <1>4, <2>1, OwingStays
<1>13. Owned'
  <2>1. ~InfoAt(log', Horizon', r.id)
    <3>1. ~InfoAt(log, Len(log), r.id)
      BY <1>0, <1>1, <1>2, InfoOld
    <3>2. PICK g \in Nat, h \in Nat : g = Len(log) /\ h = Len(log') /\ g <= h
      BY <1>1, GrowSame
    <3>3. ~InfoAt(log', h, r.id)
      BY <1>4, <1>7, <3>1, <3>2, InfoStays DEF Added
    <3> QED
      BY <1>4, <3>2, <3>3
  <2>2. ASSUME NEW q \in Page, NEW id \in buf'[q].undoInfo
        PROVE  \/ /\ id \in buf[q].undoInfo
                  /\ \A j \in Come : ~(log'[j].t = "UndoInfo" /\ log'[j].rceid = id)
                  /\ \A v \in Session : \A x \in sess[v].rces : x.id = id => x \in sess'[v].rces
               \/ OwnedBy(sess', q, id) /\ ~InfoAt(log', Horizon', id)
    <3>1. CASE id \in buf[q].undoInfo
      BY <1>2, <1>3, <1>4, <1>7, <3>1
    <3>2. CASE id \notin buf[q].undoInfo
      <4>1. q = p /\ id = r.id /\ NeedsUndoInfo(r)
        BY <1>2, <1>3, <2>2, <3>2
      <4>2. OwnedBy(sess', q, id)
        BY <1>2, <1>p, <4>1 DEF OwnedBy
      <4> QED
        BY <2>1, <4>1, <4>2
    <3> QED
      BY <3>1, <3>2
  <2> QED
    BY <1>0, <1>4, <2>2, OwnedStays
<1>14. ASSUME NEW i \in Idx, log[i].t \in {"Node", "Undo"}, log[i].trx = sess'[s].start PROVE Open(s) /\ log[i].trx = sess[s].start
  <2>1. log[i].trx \in Idx
    BY <1>14 DEF RecInv, LogInv, OfTrx, PageRec
  <2>2. Len(log) + 1 \notin Idx
    BY <1>1 DEF Idx
  <2> QED
    BY <1>3, <1>14, <2>1, <2>2
<1>15. ASSUME NEW v \in Session PROVE SessAfter(v)
  <2>1. CASE v # s
    <3>1. sess'[v] = sess[v]
      BY <1>3, <2>1
    <3>2. ~(IsOpen(sess[v]) /\ sess'[s].start = sess[v].start)
      <4> SUFFICES ASSUME Open(v), sess'[s].start = sess[v].start PROVE FALSE
        BY DEF IsOpen, Open
      <4>1. sess[v].start \in Idx
        BY DEF RecInv, SessInv, OpenTrx
      <4>2. Len(log) + 1 \notin Idx
        BY <1>1 DEF Idx
      <4> QED
        BY <1>3, <2>1, <4>1, <4>2, OpenOnce
    <3>3. Harmless(log', Len(log), Len(log'), sess[v])
      BY <1>1, <1>3, <1>7, <3>2 DEF Harmless, Added
    <3>4. \A j \in Added : ~(log'[j].t = "Begin0" /\ log'[j].s = v)
      BY <1>2, <1>3, <1>c, <2>1
    <3> QED
      BY <1>0, <1>1, <1>7, <3>1, <3>3, <3>4, GrowElse
  <2>2. CASE v = s
    <3>1. SessOK(log, Len(log), s, sess[s]) /\ sess[s].deferred = {} /\ RunsOK(log, s, sess[s])
      BY <1>0, <1>2, <1>4 DEF Versions, Deferred, Runs
    <3>2. ASSUME NEW x \in sess'[s].rces PROVE \E i \in 1 .. k : VersionAt(log', k, s, sess'[s].start, x, i)
      <4>1. CASE x \in sess[s].rces
        <5>1. sess[s].st # "idle"
          BY <3>1, <4>1 DEF SessOK
        <5>2. sess'[s].start = sess[s].start
          BY <1>3, <5>1
        <5>3. PICK i \in 1 .. Len(log) : VersionAt(log, Len(log), s, sess[s].start, x, i)
          BY <3>1, <4>1 DEF SessOK
        <5>4. \A j \in (Len(log) + 1) .. k : ~(log'[j].t = "Undo" /\ log'[j].rceid = x.id)
          BY <1>1, <1>7 DEF Added
        <5>5. PICK g \in Nat : g = Len(log) /\ g <= k /\ i \in 1 .. k
          BY <1>1, <5>3, GrowSame
        <5>6. VersionAt(log', k, s, sess[s].start, x, i)
          BY <1>4, <5>3, <5>4, <5>5, VersionKept
        <5> QED
          BY <5>2, <5>5, <5>6
      <4>2. CASE x \notin sess[s].rces
        <5>1. x = r
          BY <1>2, <3>2, <4>2
        <5>2. Stands(log', k, k)
          BY DEF Stands
        <5>3. k \in 1 .. k
          BY <1>1 DEF Idx
        <5> QED
          BY <1>2, <1>3, <1>5, <5>1, <5>2, <5>3 DEF VersionAt
      <4> QED
        BY <4>1, <4>2
    <3>3. ASSUME NEW i \in 1 .. k, log'[i].t = "Node", log'[i].trx = sess'[s].start, Stands(log', i, k)
          PROVE  \E x \in sess'[s].rces : x.id = log'[i].rceid
      <4>1. i \in Idx'
        BY <1>1 DEF Idx
      <4>2. CASE i = k
        BY <1>2, <4>2
      <4>3. CASE i # k
        <5>1. i \in Idx
          BY <1>1, <1>4, <3>3, <4>1, <4>3
        <5>2. log'[i] = log[i] /\ i \in 1 .. Len(log)
          BY <1>4, <5>1 DEF Idx
        <5>3. Open(s) /\ log[i].trx = sess[s].start
          BY <1>14, <3>3, <5>1, <5>2
        <5>4. Stands(log, i, Len(log))
          BY <1>1, <1>4, <3>3, <5>2, GrowSame, StoodBefore
        <5>5. \E x \in sess[s].rces : x.id = log[i].rceid
          BY <3>1, <3>3, <5>2, <5>3, <5>4 DEF SessOK, Open, IsOpen
        <5> QED
          BY <1>2, <5>2, <5>5
      <4> QED
        BY <4>2, <4>3
    <3>4. SessOK(log', k, s, sess'[s])
      BY <1>2, <3>2, <3>3 DEF SessOK
    <3>5. RunsOK(log', s, sess'[s])
      <4>1. ASSUME NEW j \in Idx', log'[j].t = "Undo", log'[j].trx = sess'[s].start PROVE FALSE
        <5>1. j \in Idx /\ log'[j] = log[j]
          BY <1>4, <1>7, <4>1
        <5>2. Open(s) /\ log[j].trx = sess[s].start
          BY <1>14, <4>1, <5>1
        <5>3. sess[s].st = "open"
          BY <1>2, <5>2 DEF Open
        <5> QED
          BY <3>1, <4>1, <5>1, <5>2, <5>3 DEF RunsOK, NoUndo, Idx
      <4> QED
        BY <1>2, <4>1 DEF RunsOK, NoUndo, Idx
    <3>6. OwnOK(log', s, sess'[s])
      BY <1>2 DEF OwnOK
    <3> QED
      BY <1>1, <1>2, <1>4, <2>2, <3>1, <3>4, <3>5, <3>6 DEF SessAfter
  <2> QED
    BY <2>1, <2>2
<1>16. SessState'
  BY <1>1, <1>12, <1>13, <1>15, SessRight
<1> QED
  BY <1>5, <1>6, <1>10, <1>16 DEF StateInv

\* Of a transaction that is open, the newest version is of the last change that stands on its node.
LEMMA NewestLast ==
    ASSUME RecInv, LogOK, SessState, TrxState, mode # "redo", NEW s \in Session, sess[s].st = "rolling", sess[s].rces # {},
           NEW r, r = Newest(s), NEW i \in Idx, VersionAt(log, Len(log), s, sess[s].start, r, i),
           NEW j \in Idx, i < j, StandsOn(log, r.node, j, Len(log))
    PROVE  FALSE
<1>0. /\ Horizon = Len(log) /\ Len(log) \in Nat /\ Versions /\ Deferred /\ KeptTrx /\ SessTypes
      /\ i \in Nat /\ j \in Nat /\ log[i].after \in Nat /\ log[j].after \in Nat /\ i \in 1 .. Len(log) /\ j \in 1 .. Len(log)
  BY Numbers DEF SessState, TrxState
<1>1. /\ r \in sess[s].rces /\ r.id \in Nat /\ \A q \in sess[s].rces : q.id \in Nat /\ q.id <= r.id
  <2>1. PICK top \in Nat : \A q \in sess[s].rces : q.id <= top
    BY <1>0 DEF SessTypes
  <2>2. \A q \in sess[s].rces : q.id \in Nat
    BY <1>0, OfSess DEF RCE
  <2>3. \E x \in sess[s].rces : \A q \in sess[s].rces : q.id <= x.id
    <3>1. PICK T : T = {top - q.id : q \in sess[s].rces}
      OBVIOUS
    <3>2. T \in SUBSET Nat /\ T # {}
      BY <2>1, <2>2, <3>1
    <3>3. PICK y \in T : \A z \in T : y <= z
      BY <3>2, LeastNat
    <3>4. PICK x \in sess[s].rces : y = top - x.id
      BY <3>1
    <3>5. ASSUME NEW q \in sess[s].rces PROVE q.id <= x.id
      <4>1. top - q.id \in T
        BY <3>1
      <4> QED
        BY <2>1, <2>2, <3>3, <3>4, <4>1
    <3> QED
      BY <3>5
  <2> QED
    BY <2>2, <2>3 DEF Newest
<1>2. /\ log[i].t = "Node" /\ log[i].rceid = r.id /\ log[i].trx = sess[s].start /\ log[i].node = r.node
      /\ log[j].t = "Node" /\ log[j].node = r.node /\ Stands(log, j, Len(log)) /\ Stands(log, i, Len(log))
  BY DEF VersionAt, StandsOn
<1>3. NodeOK(log, kept, i) /\ NodeOK(log, kept, j)
  BY <1>2 DEF LogOK, RecOK
<1>4. log[i].rceid = log[i].after /\ log[j].rceid = log[j].after
  BY <1>3 DEF NodeOK
<1>5. log[i].after < log[j].after
  BY <1>2 DEF RecInv, LogInv, Order, PageRec
<1>6. Open(s) /\ IsOpen(sess[s])
  BY DEF Open, IsOpen
<1>7. CASE log[j].trx = sess[s].start
  <2>1. SessOK(log, Len(log), s, sess[s]) /\ sess[s].deferred = {}
    BY <1>0 DEF Versions, Deferred
  <2>2. PICK q \in sess[s].rces : q.id = log[j].rceid
    BY <1>0, <1>2, <1>6, <1>7, <2>1 DEF SessOK
  <2> QED
    BY <1>0, <1>1, <1>2, <1>4, <1>5, <2>2
<1>8. CASE log[j].trx # sess[s].start
  <2>1. PICK h \in Nat : h = j - 1 /\ h <= Len(log) /\ i \in 1 .. h
    BY <1>0
  <2>2. Stands(log, i, h)
    BY <1>0, <1>2, <2>1 DEF Stands
  <2>3. StandsOn(log, log[j].node, i, h)
    BY <1>2, <2>2 DEF StandsOn
  <2>4. CommittedBy(log, kept, log[i].trx, h)
    BY <1>2, <1>3, <1>8, <2>1, <2>3 DEF NodeOK
  <2>5. h \in 0 .. Horizon
    BY <1>0, <2>1
  <2> QED
    BY <1>0, <1>2, <1>6, <2>4, <2>5, OpenNotCommitted
<1> QED
  BY <1>7, <1>8

\* The records of an undo are in order.
LEMMA UndoLog ==
    ASSUME RecInv, RecInv', StateInv, NEW s \in Session, NEW p \in Page, NEW k \in Nat, NEW r,
           Changes(s, p, k), UndoesTo(s, p, k, r), kept' = kept
    PROVE  LogOK'
<1>0. LogOK /\ SessState /\ TrxState /\ Versions /\ Owing /\ SessTypes
  BY Numbers DEF StateInv, SessState
<1>1. /\ Grow /\ Len(log) \in Nat /\ k = Len(log') /\ k \in Added /\ k \in Idx' /\ mode # "redo"
      /\ \A j \in Added \ {k} : j = Len(log) + 1 /\ k = Len(log) + 2 /\ log'[j].t \notin {"Node", "Undo"}
  BY ChangesGrow
<1>2. /\ log'[k].t = "Undo" /\ log'[k].node = r.node /\ log'[k].rceid = r.id /\ log'[k].oper = r.oper /\ log'[k].val = r.before
      /\ r = Newest(s) /\ sess[s].rces # {} /\ sess[s].st = "rolling" /\ p = PageOf[r.node]
  BY DEF UndoesTo
<1>3. log'[k].s = s /\ log'[k].trx = sess[s].start
  BY <1>2 DEF Changes, Open
<1>4. r \in sess[s].rces /\ r \in RCE /\ r.before \in Value
  BY <1>0, <1>2, NewestIs
<1>5. /\ \A i \in Idx : i \in Idx' /\ i \in Nat /\ log'[i] = log[i]
      /\ \A j \in Idx' : j \in Nat /\ (j \in Idx \/ j \in Added)
      /\ Agree(log, log', Len(log)) /\ Horizon = Len(log)
  BY <1>1, GrowSame
<1>6. PICK h \in Nat : h = k - 1 /\ Len(log) <= h /\ k = h + 1
  BY <1>1 DEF Added
<1>7. PICK i \in 1 .. Len(log) : VersionAt(log, Len(log), s, sess[s].start, r, i)
  BY <1>0, <1>4, <1>5 DEF Versions, SessOK
<1>8. /\ log[i].t = "Node" /\ log[i].rceid = r.id /\ log[i].s = s /\ log[i].trx = sess[s].start
      /\ log[i].node = r.node /\ log[i].oper = r.oper /\ Stands(log, i, Len(log)) /\ Shows(log, r.node, 1 .. (i - 1), r.before)
  BY <1>7 DEF VersionAt
<1>9. i \in Idx /\ i \in Nat /\ log'[i] = log[i] /\ i \in 1 .. h
  BY <1>1, <1>5, <1>6, <1>7 DEF Idx
<1>10. \A j \in 1 .. h : (j \in Idx \/ (j \in Added \ {k} /\ j = Len(log) + 1 /\ j = h /\ log'[j].t \notin {"Node", "Undo"})) /\ j \in Idx' /\ j # k
  <2> SUFFICES ASSUME NEW j \in 1 .. h, j \notin Idx PROVE j \in Added \ {k}
    BY <1>1, <1>6 DEF Idx
  <2>1. j \in Idx' /\ j # k
    BY <1>1, <1>6 DEF Idx
  <2> QED
    BY <1>5, <2>1
<1>11. About(log', i, k)
  <2>1. Stands(log', i, h)
    <3> SUFFICES ASSUME NEW j \in 1 .. h, i < j, log'[j].t = "Undo", log'[j].rceid = log'[i].rceid PROVE FALSE
      BY DEF Stands
    <3>1. j \in Idx
      BY <1>10
    <3> QED
      BY <1>5, <1>8, <1>9, <3>1 DEF Stands, Idx
  <2>2. PICK g \in Nat : g = i - 1 /\ g \in 0 .. Len(log)
    BY <1>1, <1>9, <1>7
  <2>3. Agree(log, log', g)
    BY <1>1, <1>5, <2>2, AgreeLess
  <2>4. Shows(log', r.node, 1 .. (i - 1), r.before)
    BY <1>8, <2>2, <2>3, ShowsAgree
  <2> QED
    BY <1>2, <1>3, <1>6, <1>8, <1>9, <2>1, <2>4 DEF About
<1>12. ASSUME NEW j \in (i + 1) .. h, StandsOn(log', r.node, j, h) PROVE FALSE
  <2>1. j \in 1 .. h /\ i < j
    BY <1>9
  <2>2. j \in Idx
    BY <1>10, <1>12, <2>1 DEF StandsOn
  <2>3. j \in 1 .. Len(log) /\ log'[j] = log[j]
    BY <1>5, <2>2 DEF Idx
  <2>4. Stands(log, j, Len(log))
    BY <1>1, <1>5, <1>6, <1>12, <2>3, StoodBefore DEF StandsOn
  <2>5. StandsOn(log, r.node, j, Len(log))
    BY <1>12, <2>3, <2>4 DEF StandsOn
  <2> QED
    BY <1>0, <1>1, <1>2, <1>7, <1>9, <2>1, <2>2, <2>5, NewestLast
<1>13. ASSUME r.oper # "Insert" PROVE \E j \in (i + 1) .. h : log'[j].t = "UndoInfo" /\ log'[j].rceid = r.id
  <2>1. CASE r.id \in buf[p].undoInfo
    <3>1. PICK j \in Nat : k = Len(log) + 2 /\ j = Len(log) + 1 /\ log'[j].t = "UndoInfo" /\ log'[j].rceid = r.id
      BY <2>1 DEF UndoesTo
    <3> QED
      BY <1>1, <1>6, <1>7, <3>1
  <2>2. CASE r.id \notin buf[p].undoInfo
    <3>1. InfoAt(log, Len(log), r.id)
      BY <1>0, <1>2, <1>4, <1>5, <1>13, <2>2 DEF Owing, OwingOK, NeedsUndoInfo
    <3>2. PICK j \in 1 .. Len(log) : log[j].t = "UndoInfo" /\ log[j].rceid = r.id
      BY <3>1 DEF InfoAt
    <3>3. PICK x \in 1 .. (j - 1) : About(log, x, j)
      BY <1>0, <3>2 DEF LogOK, RecOK, InfoOK, Idx
    <3>4. log[x].t = "Node" /\ log[x].rceid = r.id /\ x \in 1 .. Len(log)
      BY <1>1, <3>2, <3>3 DEF About
    <3>5. x = i
      BY <1>0, <1>7, <1>8, <3>4, Unique DEF UniqueIds
    <3> QED
      BY <1>1, <1>5, <1>6, <1>9, <3>2, <3>3, <3>5 DEF Idx
  <2> QED
    BY <2>1, <2>2
<1>14. UndoOK(log', k)
  BY <1>2, <1>6, <1>9, <1>11, <1>12, <1>13 DEF UndoOK
<1>15. UniqueIds(log', h)
  <2> SUFFICES ASSUME NEW x \in 1 .. h, NEW y \in 1 .. h, log'[x].t = "Node", log'[y].t = "Node", log'[x].rceid = log'[y].rceid PROVE x = y
    BY DEF UniqueIds
  <2>1. x \in Idx /\ y \in Idx
    BY <1>10
  <2> QED
    BY <1>0, <1>5, <2>1, Unique DEF UniqueIds, Idx
<1>16. \A j \in 0 .. Len(log) : NetOK(log', j)
  BY <1>0, <1>1, NetGrown
<1>17. ASSUME NEW j \in 0 .. h PROVE NetOK(log', j)
  <2>1. CASE j <= Len(log)
    BY <1>1, <1>16, <2>1
  <2>2. CASE ~(j <= Len(log))
    <3>1. j \in 1 .. h /\ j \notin Idx
      BY <1>1, <2>2 DEF Idx
    <3>2. j = Len(log) + 1 /\ log'[j].t \notin {"Node", "Undo"}
      BY <1>10, <3>1
    <3>3. NetOK(log', Len(log))
      BY <1>1, <1>16
    <3> QED
      BY <1>1, <3>2, <3>3, NetPlain
  <2> QED
    BY <2>1, <2>2
<1>18. ASSUME NEW j \in 1 .. k, log'[j].t = "Undo" PROVE UndoOK(log', j)
  <2>1. CASE j = k
    BY <1>14, <2>1
  <2>2. CASE j # k
    <3>1. j \in 1 .. h
      BY <1>6, <2>2
    <3>2. j \in Idx
      BY <1>10, <1>18, <3>1
    <3>3. UndoOK(log, j)
      BY <1>0, <1>5, <1>18, <3>2 DEF LogOK, RecOK
    <3>4. j \in Nat \ {0} /\ j \in 0 .. Len(log)
      BY <1>1, <3>2 DEF Idx
    <3>5. Agree(log, log', j)
      BY <1>1, <1>5, <3>4, AgreeLess
    <3> QED
      BY <3>3, <3>4, <3>5, UndoSame
  <2> QED
    BY <2>1, <2>2
<1>19. NetOK(log', k)
  BY <1>2, <1>4, <1>6, <1>15, <1>17, <1>18, NetUndo
<1>20. RecOK(log', kept, k)
  BY <1>2, <1>14 DEF RecOK, IsQuit
<1>21. ASSUME NEW j \in Added \ {k} PROVE RecOK(log', kept, j) /\ NetOK(log', j)
  <2>1. j = Len(log) + 1 /\ k = Len(log) + 2 /\ j \in Nat
    BY <1>1, <1>21
  <2>2. r.id \in buf[p].undoInfo
    <3>1. k # Len(log) + 1
      BY <1>1, <2>1
    <3> QED
      BY <3>1 DEF UndoesTo
  <2>3. /\ log'[j].t = "UndoInfo" /\ log'[j].s = s /\ log'[j].trx = sess[s].start
        /\ log'[j].node = r.node /\ log'[j].rceid = r.id /\ log'[j].oper = r.oper /\ log'[j].val = r.before
    BY <2>1, <2>2 DEF UndoesTo
  <2>4. InfoOK(log', j)
    BY <1>0, <1>1, <1>4, <2>1, <2>2, <2>3, InfoRight
  <2>5. RecOK(log', kept, j)
    BY <2>3, <2>4 DEF RecOK, IsQuit
  <2>6. j \in 0 .. h
    BY <1>6, <2>1
  <2> QED
    BY <1>17, <2>5, <2>6
<1> QED
  BY <1>0, <1>1, <1>19, <1>20, <1>21, GrowLog

\* What an undo leaves of the sessions' versions and of what the pages owe.
LEMMA UndoOwes ==
    ASSUME RecInv, RecInv', StateInv, NEW s \in Session, NEW p \in Page, NEW k \in Nat, NEW r,
           Changes(s, p, k), UndoesTo(s, p, k, r), kept' = kept
    PROVE  Owing' /\ Owned' /\ PageState'
<1>0. LogOK /\ PageState /\ SessState /\ Versions /\ Owing /\ Owned /\ SessTypes /\ PageTypes
  BY Numbers DEF StateInv, SessState
<1>1. /\ Grow /\ Len(log) \in Nat /\ k = Len(log') /\ k \in Added /\ k \in Idx' /\ mode # "redo"
      /\ \A j \in Added \ {k} : j = Len(log) + 1 /\ k = Len(log) + 2
  BY ChangesGrow
<1>2. /\ log'[k].t = "Undo" /\ log'[k].node = r.node /\ log'[k].rceid = r.id /\ log'[k].val = r.before
      /\ r = Newest(s) /\ sess[s].rces # {} /\ p = PageOf[r.node]
      /\ sess'[s].rces = sess[s].rces \ {r} /\ buf'[p].pg.img = Written(buf[p].pg.img, r.node, r.before)
      /\ buf'[p].undoInfo = buf[p].undoInfo \ {r.id}
  BY DEF UndoesTo
<1>3. /\ \A v \in Session : v # s => sess'[v] = sess[v]
      /\ \A q \in Page : q # p => buf'[q] = buf[q]
      /\ buf'[p].modify = Later(buf[p].modify, k)
  BY DEF Changes
<1>4. r \in sess[s].rces /\ r \in RCE /\ r.node \in Node
  BY <1>0, <1>2, NewestIs
<1>5. /\ \A i \in Idx : i \in Idx' /\ i \in Nat /\ log'[i] = log[i]
      /\ Horizon = Len(log) /\ Horizon' = Len(log') /\ Moves /\ Come = Added
  BY <1>1, GrowSame, GrowMoves
<1>6. ASSUME r.id \in buf[p].undoInfo
      PROVE  \E j \in 1 .. k : j = Len(log) + 1 /\ log'[j].t = "UndoInfo" /\ log'[j].rceid = r.id /\ log'[j].trx = sess[s].start
  <2>1. PICK j \in Nat : k = Len(log) + 2 /\ j = Len(log) + 1 /\ log'[j].t = "UndoInfo" /\ log'[j].rceid = r.id /\ log'[j].trx = sess[s].start
    BY <1>6 DEF UndoesTo
  <2> QED
    BY <1>1, <2>1
<1>7. ASSUME NEW j \in Added, log'[j].t = "UndoInfo" PROVE log'[j].rceid = r.id /\ j # k
  <2>1. j # k /\ j = Len(log) + 1 /\ k = Len(log) + 2
    BY <1>1, <1>2, <1>7
  <2>2. k # Len(log) + 1
    BY <1>1, <2>1
  <2>3. r.id \in buf[p].undoInfo
    BY <2>2 DEF UndoesTo
  <2> QED
    BY <1>6, <2>1, <2>3
<1>8. Owing'
  <2>1. ASSUME NEW v \in Session, NEW x \in sess'[v].rces, NeedsUndoInfo(x)
        PROVE  \/ x.id \in buf'[PageOf[x.node]].undoInfo \/ InfoAt(log', Horizon', x.id)
               \/ x \in sess[v].rces /\ x.id \notin buf[PageOf[x.node]].undoInfo
    <3>1. x \in sess[v].rces
      BY <1>2, <1>3, <2>1
    <3>2. x \in RCE /\ PageOf[x.node] \in Page
      BY <1>0, <3>1, OfSess, Constants DEF RCE
    <3>3. CASE PageOf[x.node] # p
      BY <1>3, <3>1, <3>2, <3>3
    <3>4. CASE PageOf[x.node] = p /\ x.id # r.id
      BY <1>2, <3>1, <3>4
    <3>5. CASE PageOf[x.node] = p /\ x.id = r.id /\ r.id \in buf[p].undoInfo
      BY <1>1, <1>5, <1>6, <3>5 DEF InfoAt
    <3> QED
      BY <3>1, <3>3, <3>4, <3>5
  <2> QED
    BY <1>0, <1>5, <2>1, OwingStays
<1>9. Owned'
  <2>1. ASSUME NEW q \in Page, NEW id \in buf'[q].undoInfo
        PROVE  /\ id \in buf[q].undoInfo
               /\ \A j \in Come : ~(log'[j].t = "UndoInfo" /\ log'[j].rceid = id)
               /\ \A v \in Session : \A x \in sess[v].rces : x.id = id => x \in sess'[v].rces
    <3>1. id \in buf[q].undoInfo
      BY <1>2, <1>3, <2>1
    <3>2. id # r.id
      <4>1. CASE q = p
        BY <1>2, <2>1, <4>1
      <4>2. CASE q # p
        <5>1. OwnedBy(sess, q, id)
          BY <1>0, <3>1 DEF Owned
        <5>2. PICK v \in Session : \E x \in sess[v].rces : x.id = id /\ PageOf[x.node] = q
          BY <5>1 DEF OwnedBy
        <5>3. PICK x \in sess[v].rces : x.id = id /\ PageOf[x.node] = q
          BY <5>2
        <5>4. r.id = x.id => r = x
          BY <1>0, <1>4, VersionUnique
        <5> QED
          BY <1>2, <4>2, <5>3, <5>4
      <4> QED
        BY <4>1, <4>2
    <3> QED
      BY <1>2, <1>3, <1>5, <1>7, <3>1, <3>2
  <2> QED
    BY <1>0, <1>5, <2>1, OwnedStays
<1>10. PageState'
  <2>1. ASSUME NEW i \in Idx, Owes(log, p, i), log[i].rceid \in buf[p].undoInfo \ buf'[p].undoInfo
        PROVE  \E j \in Held(p)' : Covers(log', j, i)
    <3>1. log[i].rceid = r.id /\ r.id \in buf[p].undoInfo /\ log[i].t = "Node"
      BY <1>2, <2>1 DEF Owes
    <3>2. PICK j \in 1 .. k : j = Len(log) + 1 /\ log'[j].t = "UndoInfo" /\ log'[j].rceid = r.id /\ log'[j].trx = sess[s].start
      BY <1>6, <3>1
    <3>3. log[i].trx = sess[s].start
      BY <1>0, <1>4, <3>1, VersionOf DEF VersionAt
    <3>4. i < j
      BY <1>1, <3>2 DEF Idx
    <3>5. Covers(log', j, i)
      BY <1>5, <3>1, <3>2, <3>3, <3>4 DEF Covers
    <3>6. buf[p].modify \in Nat
      BY <1>0, OfPage
    <3>7. j \in 1 .. buf'[p].modify
      BY <1>3, <3>2, <3>6 DEF Later
    <3> QED
      BY <3>5, <3>7 DEF Held
  <2>2. ~Owes(log', p, k)
    BY <1>2 DEF Owes
  <2> QED
    BY <1>0, <1>2, <1>4, <2>1, <2>2, ChangesPages, ZenonT(40)
<1> QED
  BY <1>8, <1>9, <1>10

\* UndoNewest.
LEMMA UndoNewestState == ASSUME RecInv, RecInv', StateInv, NEW s \in Session, UndoNewest(s) PROVE StateInv'
<1>0. LogOK /\ PageState /\ SessState /\ TrxState /\ Versions /\ Deferred /\ SessTypes
  BY Numbers DEF StateInv, SessState
<1>a. Types
  BY DEF RecInv
<1>b. kept' = kept
  BY DEF UndoNewest
<1>p. PICK p \in Page : \E k \in Nat : Changes(s, p, k) /\ \E r : UndoesTo(s, p, k, r)
  BY <1>a, UndoNewestDoes
<1>k. PICK k \in Nat : Changes(s, p, k) /\ \E r : UndoesTo(s, p, k, r)
  BY <1>p
<1>r. PICK r : UndoesTo(s, p, k, r)
  BY <1>k
<1>1. /\ Grow /\ Len(log) \in Nat /\ k = Len(log') /\ k \in Added /\ k \in Idx' /\ mode # "redo" /\ mode' = mode
      /\ \A j \in Added \ {k} : j = Len(log) + 1 /\ k = Len(log) + 2 /\ log'[j].t \notin {"Node", "Undo"}
  BY <1>b, <1>k, ChangesGrow
<1>2. /\ log'[k].t = "Undo" /\ log'[k].rceid = r.id /\ r = Newest(s) /\ sess[s].rces # {} /\ sess[s].st = "rolling"
      /\ sess'[s].st = "rolling" /\ sess'[s].rces = sess[s].rces \ {r} /\ sess'[s].deferred = sess[s].deferred
  BY <1>r DEF UndoesTo
<1>3. /\ log'[k].s = s /\ log'[k].trx = sess[s].start /\ sess'[s].start = sess[s].start
      /\ \A v \in Session : v # s => sess'[v] = sess[v]
  BY <1>2, <1>k DEF Changes, Open
<1>4. r \in sess[s].rces
  BY <1>0, <1>2, NewestIs
<1>5. /\ \A i \in Idx : i \in Idx' /\ i \in Nat /\ log'[i] = log[i]
      /\ \A j \in Idx' : j \in Nat /\ (j \in Idx \/ j \in Added)
      /\ Agree(log, log', Len(log)) /\ Horizon = Len(log) /\ Horizon' = Len(log') /\ Len(log') \in Nat /\ Len(log) <= Len(log')
  BY <1>1, GrowSame
<1>6. LogOK'
  BY <1>b, <1>k, <1>r, UndoLog
<1>7. Owing' /\ Owned' /\ PageState'
  BY <1>b, <1>k, <1>r, UndoOwes
<1>8. Open(s) /\ Open(s)'
  BY <1>2 DEF Open
<1>9. \A j \in Added \ {k} : log'[j].t = "UndoInfo"
  <2> SUFFICES ASSUME NEW j \in Added \ {k} PROVE log'[j].t = "UndoInfo"
    OBVIOUS
  <2>1. j = Len(log) + 1 /\ k = Len(log) + 2
    BY <1>1
  <2>2. k # Len(log) + 1
    BY <1>1, <2>1
  <2> QED
    BY <1>r, <2>1, <2>2 DEF UndoesTo
<1>10. \A j \in Added : log'[j].t \in {"Undo", "UndoInfo"} /\ ~IsQuit(log', j) /\ (log'[j].t = "Undo" => j = k)
  BY <1>2, <1>9 DEF IsQuit
<1>11. TrxState'
  <2>1. \A v \in Session : Open(v) => Open(v)' /\ sess'[v].start = sess[v].start
    BY <1>3, <1>8 DEF Open
  <2>2. \A j \in Added : log'[j].t = "Undo" => \E v \in Session : Open(v) /\ sess[v].start = log'[j].trx
    BY <1>3, <1>8, <1>10
  <2> QED
    BY <1>0, <1>1, <1>10, <2>1, <2>2, GrowTrx
<1>12. ASSUME NEW v \in Session PROVE SessAfter(v)
  <2>1. CASE v # s
    <3>1. sess'[v] = sess[v]
      BY <1>3, <2>1
    <3>2. \A x \in sess[v].rces : r.id # x.id
      BY <1>0, <1>4, <2>1, VersionUnique
    <3>3. Harmless(log', Len(log), Len(log'), sess[v])
      BY <1>2, <1>10, <3>2 DEF Harmless, Added
    <3>4. ~(sess[v].st = "open" /\ sess[s].start = sess[v].start)
      BY <1>8, <2>1, OpenOnce DEF Open
    <3>5. \A j \in Added : /\ ~IsQuit(log', j) /\ ~(log'[j].t = "Begin0" /\ log'[j].s = v)
                           /\ (log'[j].t = "Undo" => ~(sess[v].st = "open" /\ log'[j].trx = sess[v].start))
      BY <1>3, <1>10, <3>4
    <3> QED
      BY <1>0, <1>1, <3>1, <3>3, <3>5, GrowElse
  <2>2. CASE v = s
    <3>1. SessOK(log, Len(log), s, sess[s]) /\ sess[s].deferred = {}
      BY <1>0, <1>1, <1>5 DEF Versions, Deferred
    <3>2. ASSUME NEW x \in sess'[s].rces PROVE \E i \in 1 .. k : VersionAt(log', k, s, sess'[s].start, x, i)
      <4>1. x \in sess[s].rces /\ x # r
        BY <1>2, <3>2
      <4>2. x.id # r.id
        BY <1>0, <1>4, <4>1, VersionUnique
      <4>3. PICK i \in 1 .. Len(log) : VersionAt(log, Len(log), s, sess[s].start, x, i)
        BY <3>1, <4>1 DEF SessOK
      <4>4. \A j \in (Len(log) + 1) .. k : ~(log'[j].t = "Undo" /\ log'[j].rceid = x.id)
        BY <1>1, <1>2, <1>10, <4>2 DEF Added
      <4>5. i \in 1 .. k
        BY <1>1, <1>5, <4>3
      <4>6. VersionAt(log', k, s, sess[s].start, x, i)
        BY <1>1, <1>5, <4>3, <4>4, VersionKept
      <4> QED
        BY <1>3, <4>5, <4>6
    <3>3. ASSUME NEW i \in 1 .. k, log'[i].t = "Node", log'[i].trx = sess'[s].start, Stands(log', i, k)
          PROVE  \E x \in sess'[s].rces : x.id = log'[i].rceid
      <4>1. i \in Idx' /\ i # k
        BY <1>1, <1>2, <3>3 DEF Idx
      <4>2. i \in Idx
        BY <1>5, <1>10, <3>3, <4>1
      <4>3. log'[i] = log[i] /\ i \in 1 .. Len(log)
        BY <1>5, <4>2 DEF Idx
      <4>4. Stands(log, i, Len(log))
        BY <1>1, <1>5, <3>3, <4>3, StoodBefore
      <4>5. PICK x \in sess[s].rces : x.id = log[i].rceid
        BY <1>2, <1>3, <3>1, <3>3, <4>3, <4>4 DEF SessOK, IsOpen
      <4>6. x # r
        <5>1. i < k /\ k \in 1 .. k
          BY <1>1, <4>1
        <5> QED
          BY <1>2, <3>3, <4>3, <4>5, <5>1 DEF Stands
      <4> QED
        BY <1>2, <4>3, <4>5, <4>6
    <3>4. SessOK(log', k, s, sess'[s])
      BY <1>2, <3>2, <3>3 DEF SessOK
    <3>5. RunsOK(log', s, sess'[s]) /\ OwnOK(log', s, sess'[s])
      BY <1>2 DEF RunsOK, OwnOK
    <3> QED
      BY <1>1, <1>2, <1>5, <2>2, <3>1, <3>4, <3>5 DEF SessAfter
  <2> QED
    BY <2>1, <2>2
<1>13. SessState'
  BY <1>1, <1>7, <1>12, SessRight
<1> QED
  BY <1>6, <1>7, <1>11, <1>13 DEF StateInv

-----------------------------------------------------------------------------
(* Redo: the log stays, and the sessions come to the next record. *)

Replays == RedoStep /\ kept' = kept
SessNow(v) == SessOK(log, redo + 1, v, sess'[v]) /\ DeferOK(log, redo + 1, v, sess'[v])

\* What a step of redo leaves alone.
LEMMA ReplaysSame ==
    ASSUME RecInv, RecInv', Replays
    PROVE  /\ log' = log /\ kept' = kept /\ chk' = chk /\ mode = "redo" /\ mode' = "redo" /\ redo \in Nat /\ redo' = redo + 1
           /\ Idx' = Idx /\ redo + 1 \in Idx /\ redo + 1 <= Len(log) /\ Horizon = redo /\ Horizon' = redo + 1
           /\ Come = {redo + 1} /\ Moves /\ Surviving' = Surviving /\ Skipped = chk.lgpos /\ Skipped' = chk.lgpos /\ chk.lgpos \in Nat
           /\ Agree(log, log, redo)
<1>1. LogTypes /\ LogTypes' /\ Len(log) \in Nat /\ redo \in Nat
  BY Numbers, NumbersNext DEF LogTypes
<1>2. Horizon = redo /\ Horizon' = redo + 1 /\ Idx' = Idx /\ redo + 1 \in Idx
  BY <1>1, RedoPlain DEF Replays
<1>3. Come = {redo + 1} /\ Moves /\ Agree(log, log, redo)
  BY <1>1, <1>2 DEF Come, Moves, Agree, Replays, RedoStep
<1>4. Surviving' = Surviving
  BY <1>2 DEF Surviving, Survives, Replays, RedoStep
<1> QED
  BY <1>1, <1>2, <1>3, <1>4 DEF Replays, RedoStep, Skipped, LogTypes, Idx

\* A transaction that ends in the rest of the log is open, or redo passes it by.
LEMMA ReplaysEnds ==
    ASSUME RecInv, RecInv', LogOK, EndInRedo, Replays, NEW S \in SUBSET Session, RedoSess(S)
    PROVE  EndInRedo'
<1>n. redo \in Nat /\ Len(log) \in Nat /\ redo + 1 \in Idx /\ mode = "redo" /\ Idx' = Idx /\ LogTypes
  BY ReplaysSame, Numbers
<1>1. ASSUME NEW i \in Idx, redo + 1 < i, log[i].t \in {"Commit0", "Rollback"}, log[i].trx <= redo + 1, NEW s, s = log[i].s
      PROVE  IF sess'[s].afterBT THEN Open(s)' /\ sess'[s].start = log[i].trx ELSE log[i].trx < chk.lgpos
  <2>1. s = log[i].s
    BY <1>1
  <2>2. s \in Session /\ log[i].trx \in Nat /\ i \in Nat
    BY <1>1, <1>n, <2>1, OfLog DEF TrxType, Idx
  <2>e. EndOK(log, i)
    BY <1>1 DEF LogOK, RecOK, CommitOK, RollbackOK
  <2>3. /\ log[i].trx \in Idx /\ log[log[i].trx].t = "Begin0" /\ log[log[i].trx].s = s
        /\ \A k \in Idx : log[i].trx < k /\ k < i => ~Cuts(k, s)
    <3>1. log[i].trx \in Idx /\ log[log[i].trx].t = "Begin0" /\ log[log[i].trx].s = s
      BY <1>n, <2>1, <2>2, <2>e DEF EndOK, Begins, Idx
    <3>2. ASSUME NEW k \in Idx, log[i].trx < k, k < i PROVE ~Cuts(k, s)
      <4>1. k \in (log[i].trx + 1) .. (i - 1)
        BY <1>n, <2>2, <3>2 DEF Idx
      <4>2. ~CutsIn(log, k, s)
        BY <2>1, <2>e, <4>1 DEF EndOK
      <4> QED
        BY <4>2 DEF CutsIn, Ends, IsQuit, Cuts
    <3> QED
      BY <3>1, <3>2
  <2>4. CASE log[i].trx <= redo
    <3>1. ~Cuts(redo + 1, s)
      BY <1>1, <1>n, <2>2, <2>3, <2>4
    <3>2. s \notin S
      BY <3>1 DEF RedoSess, Cuts
    <3>3. SessSame(s)
      BY <2>2, <3>2 DEF RedoSess
    <3>4. IF sess[s].afterBT THEN Open(s) /\ sess[s].start = log[i].trx ELSE log[i].trx < chk.lgpos
      BY <1>1, <1>n, <2>1, <2>2, <2>4 DEF EndInRedo
    <3> QED
      BY <3>3, <3>4 DEF SessSame, Open
  <2>5. CASE ~(log[i].trx <= redo)
    <3>1. log[i].trx = redo + 1
      BY <1>1, <1>n, <2>2, <2>5
    <3>2. Cuts(redo + 1, s) /\ log[redo + 1].t = "Begin0" /\ log[redo + 1].s = s
      BY <2>3, <3>1 DEF Cuts
    <3>3. s \in S
      BY <2>2, <3>2 DEF RedoSess
    <3>4. sess'[s].st = "open" /\ sess'[s].start = redo + 1 /\ sess'[s].afterBT = TRUE
      BY <3>2, <3>3 DEF RedoSess
    <3> QED
      BY <3>1, <3>4 DEF Open
  <2> QED
    BY <2>4, <2>5
<1> SUFFICES ASSUME NEW i \in Idx', redo' < i, log'[i].t \in {"Commit0", "Rollback"}, log'[i].trx <= redo'
             PROVE  IF sess'[log'[i].s].afterBT
                      THEN sess'[log'[i].s].st \in {"open", "rolling"} /\ sess'[log'[i].s].start = log'[i].trx
                      ELSE log'[i].trx < chk'.lgpos
  BY DEF EndInRedo, Open
<1>2. PICK s : s = log[i].s
  OBVIOUS
<1>3. log' = log /\ chk' = chk /\ redo' = redo + 1 /\ i \in Idx
  BY ReplaysSame
<1>4. IF sess'[s].afterBT THEN Open(s)' /\ sess'[s].start = log[i].trx ELSE log[i].trx < chk.lgpos
  BY <1>1, <1>2, <1>3
<1> QED
  BY <1>2, <1>3, <1>4 DEF Open

\* The sessions are as they should be, part by part.
LEMMA ReplaysSess ==
    ASSUME RecInv, RecInv', Replays, \A v \in Session : SessNow(v), Owing', Owned', EndInRedo'
    PROVE  SessState'
<1>1. log' = log /\ mode' = "redo" /\ redo' = redo + 1 /\ Horizon' = redo + 1
  BY ReplaysSame
<1>2. Versions' /\ Deferred'
  BY <1>1 DEF SessNow, Versions, Deferred
<1>3. CommitsOwn' /\ Runs'
  BY <1>1 DEF RecInv, SessInv, RedoOpen, CommitsOwn, OwnOK, Runs
<1> QED
  BY <1>2, <1>3 DEF SessState

\* The record that redo comes to disturbs no version but those of its own session.
LEMMA ReplaysElse ==
    ASSUME RecInv, RecInv', Replays, LogOK, SessState, NEW v \in Session, sess'[v] = sess[v],
           \/ sess[v].st = "idle" \/ log[redo + 1].s # v
           \/ log[redo + 1].t \notin {"Node", "Undo", "UndoInfo", "Commit0"}
    PROVE  SessNow(v)
<1>0. /\ redo \in Nat /\ Horizon = redo /\ redo + 1 \in Idx /\ mode = "redo" /\ Agree(log, log, redo) /\ Len(log) \in Nat
      /\ redo + 1 <= Len(log) /\ LogTypes /\ Versions
  BY ReplaysSame, Numbers DEF SessState
<1>k. PICK k \in Nat : k = redo + 1 /\ k \in Idx /\ k \in 1 .. Len(log)
  BY <1>0 DEF Idx
<1>1. SessOK(log, redo, v, sess[v]) /\ DeferOK(log, redo, v, sess[v])
  BY <1>0 DEF SessState, Versions, Deferred
<1>2. ASSUME log[k].t = "Undo", NEW r \in sess[v].rces, r.id = log[k].rceid PROVE FALSE
  <2>1. PICK i \in 1 .. redo : VersionAt(log, redo, v, sess[v].start, r, i)
    BY <1>1 DEF SessOK
  <2>2. PICK j \in 1 .. (k - 1) : About(log, j, k)
    BY <1>2, <1>k DEF LogOK, RecOK, UndoOK
  <2>3. i \in 1 .. Len(log) /\ j \in 1 .. Len(log) /\ log[i].t = "Node" /\ log[j].t = "Node" /\ log[i].rceid = log[j].rceid
    BY <1>0, <1>2, <1>k, <2>1, <2>2 DEF VersionAt, About
  <2>4. i = j
    BY <2>3, Unique DEF UniqueIds
  <2>5. log[k].s = v
    BY <2>1, <2>2, <2>4 DEF VersionAt, About
  <2>6. sess[v].st # "idle"
    BY <1>1 DEF SessOK
  <2> QED
    BY <1>2, <1>k, <2>5, <2>6
<1>3. ASSUME log[k].t = "Node", Open(v), log[k].trx = sess[v].start PROVE FALSE
  <2>1. log[log[k].trx].s = log[k].s
    BY <1>3, <1>k DEF RecInv, LogInv, OfTrx, PageRec
  <2>2. log[sess[v].start].s = v
    BY <1>3 DEF RecInv, SessInv, OpenTrx
  <2> QED
    BY <1>3, <1>k, <2>1, <2>2 DEF Open
<1>4. ASSUME log[k].t = "UndoInfo", log[k].rceid \in sess[v].deferred PROVE FALSE
  <2>1. PICK i \in 1 .. redo : log[i].t = "Node" /\ log[i].rceid = log[k].rceid /\ log[i].s = v
    BY <1>1, <1>4 DEF DeferOK
  <2>2. PICK j \in 1 .. (k - 1) : About(log, j, k)
    BY <1>4, <1>k DEF LogOK, RecOK, InfoOK
  <2>3. i \in 1 .. Len(log) /\ j \in 1 .. Len(log) /\ log[j].t = "Node" /\ log[i].rceid = log[j].rceid
    BY <1>0, <1>k, <2>1, <2>2 DEF About
  <2>4. i = j
    BY <2>1, <2>3, Unique DEF UniqueIds
  <2>5. log[k].s = v /\ IsOpen(sess[v])
    BY <1>1, <1>4, <2>1, <2>2, <2>4 DEF About, DeferOK
  <2> QED
    BY <1>4, <1>k, <2>5 DEF IsOpen
<1>5. ASSUME log[k].t = "Commit0", Open(v), log[k].trx = sess[v].start PROVE FALSE
  <2>1. log[log[k].trx].s = log[k].s
    BY <1>5, <1>k DEF LogOK, RecOK, CommitOK, EndOK, Begins
  <2>2. log[sess[v].start].s = v
    BY <1>5 DEF RecInv, SessInv, OpenTrx
  <2> QED
    BY <1>5, <1>k, <2>1, <2>2 DEF Open
<1>6. SessOK(log, k, v, sess[v])
  <2>1. Harmless(log, redo, k, sess[v])
    BY <1>0, <1>2, <1>3, <1>k DEF Harmless, Open, IsOpen
  <2> QED
    BY <1>0, <1>1, <1>k, <2>1, SessStays
<1>7. DeferOK(log, k, v, sess[v])
  <2> SUFFICES ASSUME NEW id \in sess[v].deferred
               PROVE  /\ IsOpen(sess[v]) /\ ~InfoAt(log, k, id)
                      /\ \E i \in 1 .. k : log[i].t = "Node" /\ log[i].rceid = id /\ log[i].s = v /\ log[i].trx = sess[v].start
                      /\ \E j \in (k + 1) .. Len(log) :
                            log[j].trx = sess[v].start /\ (log[j].t = "Commit0" \/ (log[j].t = "UndoInfo" /\ log[j].rceid = id))
    BY DEF DeferOK
  <2>1. IsOpen(sess[v]) /\ ~InfoAt(log, redo, id)
    BY <1>1 DEF DeferOK
  <2>2. PICK i \in 1 .. redo : log[i].t = "Node" /\ log[i].rceid = id /\ log[i].s = v /\ log[i].trx = sess[v].start
    BY <1>1 DEF DeferOK
  <2>3. PICK j \in (redo + 1) .. Len(log) :
            log[j].trx = sess[v].start /\ (log[j].t = "Commit0" \/ (log[j].t = "UndoInfo" /\ log[j].rceid = id))
    BY <1>1 DEF DeferOK
  <2>4. j # k
    BY <1>4, <1>5, <2>1, <2>3 DEF Open, IsOpen
  <2>5. ~InfoAt(log, k, id)
    BY <1>0, <1>4, <1>k, <2>1 DEF InfoAt
  <2>6. j \in (k + 1) .. Len(log) /\ i \in 1 .. k
    BY <1>0, <1>k, <2>2, <2>3, <2>4
  <2> QED
    BY <2>1, <2>2, <2>3, <2>5, <2>6
<1> QED
  BY <1>6, <1>7, <1>k DEF SessNow

\* The transactions stay open or are committed, and the change that redo comes to is of an open one.
LEMMA ReplaysTrx ==
    ASSUME RecInv, RecInv', Replays, LogOK, TrxState,
           \A s \in Session : Open(s) =>
              \/ Open(s)' /\ sess'[s].start = sess[s].start
              \/ \A i \in 1 .. redo : log[i].t = "Node" /\ log[i].trx = sess[s].start /\ Stands(log, i, redo + 1) =>
                    CommittedBy(log, kept, log[i].trx, redo + 1),
           log[redo + 1].t = "Node" =>
              (\E s \in Session : Open(s)' /\ sess'[s].start = log[redo + 1].trx) \/ log[redo + 1].trx < chk.lgpos
    PROVE  LogOK' /\ TrxState'
<1>0. /\ log' = log /\ kept' = kept /\ chk' = chk /\ redo \in Nat /\ Horizon = redo /\ Horizon' = redo + 1 /\ Idx' = Idx
      /\ Skipped = chk.lgpos /\ Skipped' = chk.lgpos /\ chk.lgpos \in Nat /\ Agree(log, log, redo) /\ redo + 1 <= Len(log) /\ Len(log) \in Nat
  BY ReplaysSame, Numbers
<1>1. LogOK'
  BY <1>0 DEF LogOK
<1>2. Passed' /\ KeptTrx'
  BY <1>0 DEF TrxState, Passed, KeptTrx
<1>3. PICK k \in Nat : k = redo + 1 /\ redo <= k
  BY <1>0
<1>4. ResolvedAt(log, kept, redo, sess, chk.lgpos)
  BY <1>0 DEF TrxState, Resolved
<1>5. \A i \in 1 .. redo : log[i].trx \in Nat
  BY <1>0, Numbers
<1>6. Stay(log, kept, redo, k, sess, sess')
  BY <1>3 DEF Stay, Open, IsOpen
<1>7. Join(log, redo, k, sess', chk.lgpos)
  <2> SUFFICES ASSUME NEW j \in (redo + 1) .. k, log[j].t = "Node"
               PROVE  (\E s \in Session : IsOpen(sess'[s]) /\ sess'[s].start = log[j].trx) \/ log[j].trx < chk.lgpos
    BY DEF Join
  <2>1. j = redo + 1
    BY <1>0, <1>3
  <2> QED
    BY <2>1 DEF Open, IsOpen
<1>8. ResolvedAt(log, kept, k, sess', chk.lgpos)
  BY <1>0, <1>3, <1>4, <1>5, <1>6, <1>7, ResolvedStays
<1>9. Resolved'
  BY <1>0, <1>3, <1>8 DEF Resolved
<1> QED
  BY <1>1, <1>2, <1>9 DEF TrxState

\* The pages keep their images, and lose no undo information that is not in the log.
LEMMA ReplaysPages ==
    ASSUME RecInv, RecInv', Replays, PageState, disk' = disk,
           \A p \in Page : buf'[p].pg = buf[p].pg /\ buf[p].modify <= buf'[p].modify,
           \A p \in Page : \A i \in Idx : Owes(log, p, i) /\ log[i].rceid \in buf[p].undoInfo \ buf'[p].undoInfo =>
              \E j \in Held(p)' : Covers(log, j, i)
    PROVE  PageState'
<1>0. log' = log /\ Idx' = Idx /\ Surviving' = Surviving
  BY ReplaysSame
<1>1. Images'
  BY <1>0 DEF PageState, Images
<1>2. DiskCovered'
  BY <1>0 DEF PageState, DiskCovered
<1>3. ASSUME NEW p \in Page PROVE Covered(log, p, buf[p].pg.dbtime, buf'[p].undoInfo, Held(p)')
  <2>1. Covered(log, p, buf[p].pg.dbtime, buf[p].undoInfo, Held(p))
    BY DEF PageState, BufCovered
  <2>2. buf[p].modify \in Nat
    BY Numbers, OfPage
  <2>4. buf'[p].modify \in Nat
    <3>1. PageTypes'
      BY NumbersNext
    <3> QED
      BY <3>1 DEF PageTypes, BufType
  <2>3. Held(p) \subseteq Held(p)'
    BY <1>0, <2>2, <2>4 DEF Held
  <2> QED
    BY <2>1, <2>3, CoveredKept DEF Idx
<1>4. BufCovered'
  BY <1>0, <1>3 DEF BufCovered
<1> QED
  BY <1>1, <1>2, <1>4 DEF PageState

\* A version with the rceid of an Undo or UndoInfo record is what the record is about.
LEMMA AboutVersion ==
    ASSUME RecInv, LogOK, Versions, NEW k \in Idx, log[k].t \in {"Undo", "UndoInfo"},
           NEW v \in Session, NEW r \in sess[v].rces, r.id = log[k].rceid
    PROVE  /\ log[k].s = v /\ log[k].trx = sess[v].start /\ log[k].node = r.node /\ log[k].oper = r.oper
           /\ log[k].val = r.before /\ sess[v].st # "idle"
<1>1. PICK j \in 1 .. (k - 1) : About(log, j, k)
  BY DEF LogOK, RecOK, UndoOK, InfoOK
<1>2. j \in Idx /\ j \in Nat
  BY <1>1, Numbers DEF Idx
<1>3. log[j].t = "Node" /\ log[j].rceid = r.id
  BY <1>1 DEF About
<1>4. VersionAt(log, Horizon, v, sess[v].start, r, j)
  BY <1>2, <1>3, VersionOf
<1>5. Shows(log, r.node, 1 .. (j - 1), r.before) /\ Shows(log, r.node, 1 .. (j - 1), log[k].val)
  BY <1>1, <1>4 DEF About, VersionAt
<1>6. log[k].val = r.before
  <2>1. 1 .. (j - 1) \in SUBSET Nat
    BY <1>2
  <2> QED
    BY <1>5, <2>1, ShowsOne
<1>7. sess[v].st # "idle"
  BY DEF Versions, SessOK
<1> QED
  BY <1>1, <1>4, <1>6, <1>7 DEF About, VersionAt

\* The pages owe what they owed, to the same versions.
LEMMA ReplaysOwes ==
    ASSUME RecInv, RecInv', Replays, SessState, \A p \in Page : buf'[p].undoInfo = buf[p].undoInfo,
           \A v \in Session : sess'[v].rces = sess[v].rces,
           log[redo + 1].t = "UndoInfo" => \A p \in Page : log[redo + 1].rceid \notin buf[p].undoInfo
    PROVE  Owing' /\ Owned'
<1>0. Owing /\ Owned /\ Moves /\ Come = {redo + 1} /\ log' = log /\ SessTypes
  BY ReplaysSame, Numbers DEF SessState
<1>1. Owing'
  <2>1. ASSUME NEW v \in Session, NEW x \in sess'[v].rces, NeedsUndoInfo(x)
        PROVE  \/ x.id \in buf'[PageOf[x.node]].undoInfo
               \/ x \in sess[v].rces /\ x.id \notin buf[PageOf[x.node]].undoInfo
    <3>1. x \in sess[v].rces
      BY <2>1
    <3>2. x \in RCE
      BY <1>0, <3>1, OfSess
    <3>3. PageOf[x.node] \in Page
      BY <3>2, Constants DEF RCE
    <3> QED
      BY <3>1, <3>3
  <2> QED
    BY <1>0, <2>1, OwingStays
<1>2. Owned'
  <2>1. ASSUME NEW q \in Page, NEW id \in buf'[q].undoInfo
        PROVE  /\ id \in buf[q].undoInfo
               /\ \A j \in Come : ~(log'[j].t = "UndoInfo" /\ log'[j].rceid = id)
               /\ \A v \in Session : \A x \in sess[v].rces : x.id = id => x \in sess'[v].rces
    BY <1>0, <2>1
  <2> QED
    BY <1>0, <2>1, OwnedStays
<1> QED
  BY <1>1, <1>2

\* The sessions that redo knows of are idle or open.
LEMMA RedoIdle ==
    ASSUME RecInv, mode = "redo", NEW s \in Session, ~Open(s) PROVE sess[s].st = "idle"
<1>1. sess[s].st # "committing"
  BY DEF RecInv, SessInv, RedoOpen
<1>2. sess[s].st \in {"idle", "open", "committing", "rolling"}
  BY Numbers, OfSess
<1> QED
  BY <1>1, <1>2 DEF Open

\* RedoBegin.
LEMMA RedoBeginState == ASSUME RecInv, RecInv', StateInv, RedoBegin PROVE StateInv'
<1>0. LogOK /\ PageState /\ SessState /\ TrxState /\ Versions /\ SessTypes /\ EndInRedo /\ Len(log) \in Nat
  BY Numbers DEF StateInv, SessState
<1>1. /\ ToRedo({"Begin0"}) /\ redo' = redo + 1
      /\ UNCHANGED <<mode, log, durable, waypoint, disk, buf, dbtime, chk, ckpt, acked, kept>>
      /\ sess' = [sess EXCEPT ![NextRec.s] = [NewSession EXCEPT !.st = "open", !.start = redo + 1, !.afterBT = TRUE]]
  BY DEF RedoBegin
<1>2. /\ NextRec = log[redo + 1] /\ NextRec.t \in {"Begin0"} /\ redo \in Nat /\ mode = "redo"
      /\ NextRec.t \in TrxType => NextRec.s \in Session
  BY <1>1, RedoRec
<1>3. NextRec.t = "Begin0" /\ NextRec.s \in Session
  BY <1>2 DEF TrxType
<1>4. PICK s \in Session : s = NextRec.s /\ log[redo + 1].t = "Begin0" /\ log[redo + 1].s = s
  BY <1>2, <1>3
<1>5. PICK u : u = [NewSession EXCEPT !.st = "open", !.start = redo + 1, !.afterBT = TRUE]
  OBVIOUS
<1>6. u.rces = {} /\ u.st = "open" /\ u.start = redo + 1 /\ u.afterBT = TRUE /\ u.deferred = {}
  <2>1. redo + 1 \in Nat
    BY <1>2
  <2> QED
    BY <1>5, <2>1, BegunType
<1>7. sess' = [sess EXCEPT ![s] = u]
  BY <1>1, <1>4, <1>5, Zenon
<1>9. sess'[s] = u /\ \A v \in Session : v # s => sess'[v] = sess[v]
  BY <1>0, <1>7 DEF SessTypes
<1>10. Replays
  BY <1>1, RedoTakes DEF Replays
<1>11. redo + 1 \in Idx /\ Horizon = redo
  BY <1>10, ReplaysSame
<1>12. ~Open(s)
  <2> SUFFICES ASSUME Open(s) PROVE FALSE
    OBVIOUS
  <2>1. /\ sess[s].start \in Idx /\ sess[s].start <= redo
        /\ log[sess[s].start].t = "Begin0" /\ log[sess[s].start].s = s
        /\ \A k \in Idx : sess[s].start < k /\ k <= redo => ~Cuts(k, s)
    BY <1>11 DEF RecInv, SessInv, OpenTrx
  <2>2. BeginOK(log, redo + 1)
    BY <1>0, <1>4, <1>11 DEF LogOK, RecOK
  <2>3. sess[s].start \in 1 .. ((redo + 1) - 1)
    BY <1>2, <2>1 DEF Idx
  <2>4. PICK e \in (sess[s].start + 1) .. ((redo + 1) - 1) : Ends(log, e, s)
    BY <1>4, <2>1, <2>2, <2>3 DEF BeginOK
  <2>5. e \in Idx /\ sess[s].start < e /\ e <= redo
    BY <1>0, <1>2, <1>11, <2>1, <2>4 DEF Idx
  <2> QED
    BY <2>1, <2>4, <2>5 DEF Ends, IsQuit, Cuts
<1>13. sess[s].st = "idle" /\ sess[s].rces = {}
  <2>1. sess[s].st = "idle"
    BY <1>2, <1>12, RedoIdle
  <2> QED
    BY <1>0, <2>1 DEF Versions, SessOK
<1>14. RedoSess({s})
  <2>1. \A v \in Session \ {s} : SessSame(v) /\ ~Cuts(redo + 1, v)
    BY <1>4, <1>9 DEF SessSame, Cuts
  <2> QED
    BY <1>4, <1>6, <1>9, <2>1 DEF RedoSess
<1>15. Owing' /\ Owned'
  <2>1. \A v \in Session : sess'[v].rces = sess[v].rces
    BY <1>6, <1>9, <1>13
  <2> QED
    BY <1>0, <1>1, <1>4, <1>10, <2>1, ReplaysOwes
<1>16. ASSUME NEW v \in Session PROVE SessNow(v)
  <2>1. CASE v # s
    BY <1>0, <1>4, <1>9, <1>10, <2>1, ReplaysElse
  <2>2. CASE v = s
    <3>1. ASSUME NEW i \in 1 .. (redo + 1), log[i].t = "Node", log[i].trx = redo + 1 PROVE FALSE
      <4>1. i \in Idx /\ i \in Nat
        BY <1>0, <1>2, <1>11 DEF Idx
      <4>2. log[i].trx < i
        BY <3>1, <4>1 DEF RecInv, LogInv, OfTrx, PageRec
      <4> QED
        BY <1>2, <3>1, <4>1, <4>2
    <3> QED
      BY <1>6, <1>9, <2>2, <3>1 DEF SessNow, SessOK, DeferOK
  <2> QED
    BY <2>1, <2>2
<1>17. EndInRedo'
  <2>1. {s} \in SUBSET Session
    OBVIOUS
  <2> QED
    BY <1>0, <1>10, <1>14, <2>1, ReplaysEnds
<1>18. SessState'
  BY <1>10, <1>15, <1>16, <1>17, ReplaysSess
<1>19. LogOK' /\ TrxState'
  <2>1. \A v \in Session : Open(v) => Open(v)' /\ sess'[v].start = sess[v].start
    BY <1>9, <1>12 DEF Open
  <2> QED
    BY <1>0, <1>4, <1>10, <2>1, ReplaysTrx
<1>20. PageState'
  <2>1. \A p \in Page : buf[p].modify \in Nat
    BY Numbers, OfPage
  <2> QED
    BY <1>0, <1>1, <1>10, <2>1, ReplaysPages
<1> QED
  BY <1>18, <1>19, <1>20 DEF StateInv

\* RedoRecoveryUndo.
LEMMA RedoRecoveryUndoState == ASSUME RecInv, RecInv', StateInv, RedoRecoveryUndo PROVE StateInv'
<1>0. LogOK /\ PageState /\ SessState /\ TrxState /\ EndInRedo
  BY DEF StateInv, SessState
<1>1. /\ ToRedo({"RecoveryUndo"}) /\ redo' = redo + 1
      /\ UNCHANGED <<mode, log, durable, waypoint, disk, buf, sess, dbtime, chk, ckpt, acked, kept>>
  BY DEF RedoRecoveryUndo
<1>2. log[redo + 1].t = "RecoveryUndo"
  BY <1>1 DEF ToRedo, NextRec
<1>3. Replays
  BY <1>1, RedoTakes DEF Replays
<1>4. RedoSess({})
  BY <1>1, <1>2 DEF RedoSess, SessSame, Cuts
<1>5. Owing' /\ Owned'
  BY <1>0, <1>1, <1>2, <1>3, ReplaysOwes
<1>6. \A v \in Session : SessNow(v)
  BY <1>0, <1>1, <1>2, <1>3, ReplaysElse
<1>7. EndInRedo'
  <2>1. {} \in SUBSET Session
    OBVIOUS
  <2> QED
    BY <1>0, <1>3, <1>4, <2>1, ReplaysEnds
<1>8. SessState'
  BY <1>3, <1>5, <1>6, <1>7, ReplaysSess
<1>9. LogOK' /\ TrxState'
  <2>1. \A v \in Session : Open(v) => Open(v)' /\ sess'[v].start = sess[v].start
    BY <1>1 DEF Open
  <2> QED
    BY <1>0, <1>2, <1>3, <2>1, ReplaysTrx
<1>10. PageState'
  <2>1. \A p \in Page : buf[p].modify \in Nat
    BY Numbers, OfPage
  <2> QED
    BY <1>0, <1>1, <1>3, <2>1, ReplaysPages
<1> QED
  BY <1>8, <1>9, <1>10 DEF StateInv

\* RedoSkip.
LEMMA RedoSkipState == ASSUME RecInv, RecInv', StateInv, RedoSkip PROVE StateInv'
<1> DEFINE types == {"Node", "UndoInfo", "Undo", "Commit0", "Rollback"}
<1>0. /\ LogOK /\ PageState /\ SessState /\ TrxState /\ Versions /\ Owned /\ LogTypes /\ EndInRedo /\ RedoOpen /\ InRedo /\ Commits
      /\ Len(log) \in Nat
  BY Numbers DEF StateInv, SessState, RecInv, SessInv
<1>1. /\ ToRedo(types) /\ redo' = redo + 1 /\ ~sess[NextRec.s].afterBT /\ dbtime' = Later(dbtime, NextRec.after)
      /\ UNCHANGED <<mode, log, durable, waypoint, disk, buf, sess, chk, ckpt, acked, kept>>
  BY DEF RedoSkip, DbtimeSeen
<1>2. /\ mode = "redo" /\ ckpt.pc = "none" /\ redo \in Nat /\ redo < Len(log) /\ redo + 1 \in Idx
      /\ NextRec = log[redo + 1] /\ NextRec.t \in types /\ NextRec.after \in Nat
      /\ NextRec.t \in TrxType => NextRec.s \in Session
  BY <1>1, RedoRec
<1>3. NextRec.s \in Session
  BY <1>2 DEF TrxType, NodeType
<1>4. PICK s \in Session : s = log[redo + 1].s /\ ~sess[s].afterBT
  BY <1>1, <1>2, <1>3
<1>5. Replays
  <2>1. dbtime \in Nat
    BY <1>0 DEF LogTypes
  <2>2. dbtime <= dbtime' /\ NextRec.after <= dbtime'
    BY <1>1, <1>2, <2>1 DEF Later
  <2> QED
    BY <1>1, <1>2, <2>2 DEF RedoStep, Replays
<1>7. sess[s].st = "idle" /\ sess[s].start <= Len(log)
  <2>1. ~Open(s) /\ sess[s].start <= Len(log)
    BY <1>0, <1>2, <1>4 DEF RedoOpen, Commits
  <2> QED
    BY <1>2, <2>1, RedoIdle
<1>8. PICK S : S = IF log[redo + 1].t \in {"Commit0", "Rollback"} THEN {s} ELSE {}
  OBVIOUS
<1>9. S \in SUBSET Session /\ RedoSess(S)
  <2>1. S \in SUBSET Session
    BY <1>8
  <2>2. \A v \in Session \ S : SessSame(v) /\ ~Cuts(redo + 1, v)
    BY <1>1, <1>2, <1>4, <1>8 DEF SessSame, Cuts
  <2>3. \A v \in S : log[redo + 1].t # "Begin0" /\ Cuts(redo + 1, v) /\ sess'[v].st = "idle" /\ sess'[v].start <= Len(log)
    BY <1>1, <1>2, <1>4, <1>7, <1>8 DEF Cuts
  <2> QED
    BY <2>1, <2>2, <2>3 DEF RedoSess
<1>10. Owing' /\ Owned'
  <2>1. ASSUME log[redo + 1].t = "UndoInfo", NEW p \in Page, log[redo + 1].rceid \in buf[p].undoInfo PROVE FALSE
    <3>1. OwnedBy(sess, p, log[redo + 1].rceid)
      BY <1>0, <2>1 DEF Owned
    <3>2. PICK v \in Session : \E x \in sess[v].rces : x.id = log[redo + 1].rceid
      BY <3>1 DEF OwnedBy
    <3>3. PICK x \in sess[v].rces : x.id = log[redo + 1].rceid
      BY <3>2
    <3>4. log[redo + 1].s = v /\ sess[v].st # "idle"
      BY <1>0, <1>2, <2>1, <3>3, AboutVersion
    <3> QED
      BY <1>4, <1>7, <3>4
  <2> QED
    BY <1>0, <1>1, <1>5, <2>1, ReplaysOwes
<1>11. \A v \in Session : SessNow(v)
  <2>1. \A v \in Session : sess[v].st = "idle" \/ log[redo + 1].s # v
    BY <1>4, <1>7
  <2> QED
    BY <1>0, <1>1, <1>5, <2>1, ReplaysElse
<1>12. EndInRedo'
  BY <1>0, <1>5, <1>9, ReplaysEnds
<1>13. SessState'
  BY <1>5, <1>10, <1>11, <1>12, ReplaysSess
<1>14. LogOK' /\ TrxState'
  <2>1. \A v \in Session : Open(v) => Open(v)' /\ sess'[v].start = sess[v].start
    BY <1>1 DEF Open
  <2>2. ASSUME log[redo + 1].t = "Node" PROVE log[redo + 1].trx < chk.lgpos
    <3>1. PageRec(redo + 1)
      BY <2>2 DEF PageRec
    <3>2. log[redo + 1].trx \in Nat
      BY <1>2, Numbers
    <3>3. log[redo + 1].trx < redo + 1
      BY <1>2, <3>1 DEF RecInv, LogInv, OfTrx
    <3>4. log[redo + 1].trx <= redo /\ redo < redo + 1
      BY <1>2, <3>2, <3>3
    <3> QED
      BY <1>0, <1>2, <1>4, <3>1, <3>4 DEF InRedo
  <2> QED
    BY <1>0, <1>5, <2>1, <2>2, ReplaysTrx
<1>15. PageState'
  <2>1. \A p \in Page : buf[p].modify \in Nat
    BY Numbers, OfPage
  <2> QED
    BY <1>0, <1>1, <1>5, <2>1, ReplaysPages
<1> QED
  BY <1>13, <1>14, <1>15 DEF StateInv

\* RedoEndTrx.
LEMMA RedoEndTrxState == ASSUME RecInv, RecInv', StateInv, RedoEndTrx PROVE StateInv'
<1>0. /\ LogOK /\ PageState /\ SessState /\ TrxState /\ Versions /\ Owing /\ Owned /\ PageTypes /\ SessTypes /\ EndInRedo
      /\ Len(log) \in Nat
  BY Numbers DEF StateInv, SessState
<1>1. /\ ToRedo({"Commit0", "Rollback"}) /\ redo' = redo + 1 /\ sess[NextRec.s].afterBT
      /\ UNCHANGED <<mode, log, durable, waypoint, disk, dbtime, chk, ckpt, acked, kept>>
      /\ buf' = CommittedBufs(NextRec.s, IF NextRec.t = "Commit0" THEN redo + 1 ELSE NoLgpos)
      /\ sess' = [sess EXCEPT ![NextRec.s] = [NewSession EXCEPT !.afterBT = TRUE]]
  BY DEF RedoEndTrx
<1>2. /\ NextRec = log[redo + 1] /\ NextRec.t \in {"Commit0", "Rollback"} /\ redo \in Nat /\ mode = "redo"
      /\ NextRec.t \in TrxType => NextRec.s \in Session
  BY <1>1, RedoRec
<1>3. NextRec.s \in Session
  BY <1>2 DEF TrxType
<1>s. PICK s \in Session : s = NextRec.s
  BY <1>3
<1>k. PICK k \in Nat : k = redo + 1
  BY <1>2
<1>4. log[k].t \in {"Commit0", "Rollback"} /\ log[k].s = s /\ sess[s].afterBT
  BY <1>1, <1>2, <1>s, <1>k
<1>5. PICK c \in Nat : buf' = CommittedBufs(s, c) /\ (log[k].t = "Commit0" => c = k)
  <2>1. NoLgpos \in Nat
    BY DEF NoLgpos
  <2> QED
    BY <1>1, <1>2, <1>k, <1>s, <2>1
<1>6. PICK u : /\ u = [NewSession EXCEPT !.afterBT = TRUE] /\ u.rces = {} /\ u.st = "idle" /\ u.start = 0 /\ u.deferred = {}
  BY NewSessType
<1>7. sess' = [sess EXCEPT ![s] = u]
  BY <1>1, <1>s, <1>6, Zenon
<1>9. sess'[s] = u /\ \A v \in Session : v # s => sess'[v] = sess[v]
  BY <1>0, <1>7 DEF SessTypes
<1>10. Replays
  BY <1>1, RedoTakes DEF Replays
<1>11. /\ k \in Idx /\ Horizon = redo /\ log' = log /\ Moves /\ Come = {k} /\ redo < k /\ k - 1 = redo
  BY <1>2, <1>10, <1>k, ReplaysSame
<1>12. EndOK(log, k)
  BY <1>0, <1>4, <1>11 DEF LogOK, RecOK, CommitOK, RollbackOK
<1>13. Open(s) /\ sess[s].start = log[k].trx
  <2>1. log[k].trx <= redo
    BY <1>2, <1>11, <1>12 DEF EndOK, Begins
  <2> QED
    BY <1>0, <1>2, <1>4, <1>11, <2>1 DEF EndInRedo
<1>14. ASSUME log[k].t = "Rollback", NEW i \in 1 .. redo, log[i].t = "Node", log[i].trx = sess[s].start, Stands(log, i, redo) PROVE FALSE
  <2>1. RollbackOK(log, k)
    BY <1>0, <1>11, <1>14 DEF LogOK, RecOK
  <2> QED
    BY <1>11, <1>13, <1>14, <2>1 DEF RollbackOK
<1>15. ASSUME log[k].t = "Rollback", NEW r \in sess[s].rces PROVE FALSE
  <2>1. PICK i \in 1 .. redo : VersionAt(log, redo, s, sess[s].start, r, i)
    BY <1>0, <1>11, <1>15 DEF Versions, SessOK
  <2> QED
    BY <1>14, <1>15, <2>1 DEF VersionAt
<1>16. RedoSess({s})
  <2>1. \A v \in Session \ {s} : SessSame(v) /\ ~Cuts(k, v)
    BY <1>4, <1>9 DEF SessSame, Cuts
  <2>2. Cuts(k, s) /\ log[k].t # "Begin0"
    BY <1>4 DEF Cuts
  <2>3. 0 <= Len(log)
    BY <1>0
  <2> QED
    BY <1>6, <1>9, <1>k, <2>1, <2>2, <2>3 DEF RedoSess
<1>17. PICK Ids : Ids = {r.id : r \in sess[s].rces}
  OBVIOUS
<1>18. \A p \in Page : buf'[p].undoInfo = buf[p].undoInfo \ Ids
  BY <1>0, <1>5, <1>17, CommittedInfo
<1>19. ASSUME NEW v \in Session, v # s, NEW x \in sess[v].rces PROVE x.id \notin Ids
  BY <1>0, <1>17, <1>19, VersionUnique
<1>20. Owing'
  <2>1. ASSUME NEW v \in Session, NEW x \in sess'[v].rces, NeedsUndoInfo(x)
        PROVE  \/ x.id \in buf'[PageOf[x.node]].undoInfo
               \/ x \in sess[v].rces /\ x.id \notin buf[PageOf[x.node]].undoInfo
    <3>1. v # s /\ x \in sess[v].rces
      BY <1>6, <1>9, <2>1
    <3>2. x \in RCE
      BY <1>0, <3>1, OfSess
    <3>3. PageOf[x.node] \in Page
      BY <3>2, Constants DEF RCE
    <3>4. x.id \notin Ids
      BY <1>19, <3>1
    <3> QED
      BY <1>18, <3>1, <3>3, <3>4
  <2> QED
    BY <1>0, <1>11, <2>1, OwingStays
<1>21. Owned'
  <2>1. ASSUME NEW q \in Page, NEW id \in buf'[q].undoInfo
        PROVE  /\ id \in buf[q].undoInfo
               /\ \A j \in Come : ~(log'[j].t = "UndoInfo" /\ log'[j].rceid = id)
               /\ \A v \in Session : \A x \in sess[v].rces : x.id = id => x \in sess'[v].rces
    <3>1. id \in buf[q].undoInfo /\ id \notin Ids
      BY <1>18, <2>1
    <3>2. \A j \in Come : ~(log'[j].t = "UndoInfo" /\ log'[j].rceid = id)
      BY <1>4, <1>11
    <3>3. \A v \in Session : \A x \in sess[v].rces : x.id = id => x \in sess'[v].rces
      BY <1>9, <1>17, <3>1
    <3> QED
      BY <3>1, <3>2, <3>3
  <2> QED
    BY <1>0, <1>11, <2>1, OwnedStays
<1>22. ASSUME NEW v \in Session PROVE SessNow(v)
  <2>1. CASE v # s
    BY <1>0, <1>4, <1>9, <1>10, <1>k, <2>1, ReplaysElse
  <2>2. CASE v = s
    BY <1>6, <1>9, <2>2 DEF SessNow, SessOK, DeferOK, IsOpen
  <2> QED
    BY <2>1, <2>2
<1>23. EndInRedo'
  <2>1. {s} \in SUBSET Session
    OBVIOUS
  <2> QED
    BY <1>0, <1>10, <1>16, <2>1, ReplaysEnds
<1>24. SessState'
  BY <1>10, <1>20, <1>21, <1>22, <1>23, ReplaysSess
<1>25. LogOK' /\ TrxState'
  <2>1. ASSUME NEW i \in 1 .. redo, log[i].t = "Node", log[i].trx = sess[s].start, Stands(log, i, k)
        PROVE  CommittedBy(log, kept, log[i].trx, k)
    <3>1. CASE log[k].t = "Commit0"
      <4>1. k \in 1 .. k
        BY <1>k, <1>2
      <4> QED
        BY <1>13, <2>1, <3>1, <4>1 DEF CommittedBy
    <3>2. CASE log[k].t = "Rollback"
      <4>1. Stands(log, i, redo)
        BY <1>2, <1>k, <2>1 DEF Stands
      <4> QED
        BY <1>14, <2>1, <3>2, <4>1
    <3> QED
      BY <1>4, <3>1, <3>2
  <2>2. ASSUME NEW v \in Session, Open(v)
        PROVE  \/ Open(v)' /\ sess'[v].start = sess[v].start
               \/ \A i \in 1 .. redo : log[i].t = "Node" /\ log[i].trx = sess[v].start /\ Stands(log, i, redo + 1) =>
                     CommittedBy(log, kept, log[i].trx, redo + 1)
    <3>1. CASE v = s
      BY <1>k, <2>1, <3>1
    <3>2. CASE v # s
      BY <1>9, <2>2, <3>2 DEF Open
    <3> QED
      BY <3>1, <3>2
  <2> QED
    BY <1>0, <1>4, <1>10, <1>k, <2>2, ReplaysTrx
<1>26. PageState'
  <2>1. ASSUME NEW p \in Page PROVE buf'[p].pg = buf[p].pg /\ buf[p].modify <= buf'[p].modify
    <3>1. buf'[p].pg = buf[p].pg /\ buf'[p].modify \in {buf[p].modify, Later(buf[p].modify, c)}
      BY <1>0, <1>5, CommittedType
    <3>2. buf[p].modify \in Nat
      BY <1>0, OfPage
    <3> QED
      BY <3>1, <3>2 DEF Later
  <2>2. ASSUME NEW p \in Page, NEW i \in Idx, Owes(log, p, i), log[i].rceid \in buf[p].undoInfo \ buf'[p].undoInfo
        PROVE  \E j \in Held(p)' : Covers(log, j, i)
    <3>1. PICK r \in sess[s].rces : r.id = log[i].rceid
      BY <1>17, <1>18, <2>2
    <3>2. log[k].t = "Commit0"
      BY <1>4, <1>15, <3>1
    <3>3. log[i].trx = sess[s].start /\ log[i].t = "Node"
      BY <1>0, <2>2, <3>1, VersionOf DEF VersionAt, Owes
    <3>4. Covers(log, k, i)
      BY <1>0, <1>11, <1>13, <3>2, <3>3, CommitCovers
    <3>5. buf'[p].modify = Later(buf[p].modify, k)
      BY <1>0, <1>5, <2>2, <3>2, CommittedInfo
    <3>6. buf[p].modify \in Nat
      BY <1>0, OfPage
    <3>7. k \in 1 .. buf'[p].modify
      BY <1>2, <1>k, <3>5, <3>6 DEF Later
    <3> QED
      BY <3>4, <3>7 DEF Held
  <2>3. disk' = disk
    BY <1>1
  <2> QED
    BY <1>0, <1>10, <2>1, <2>2, <2>3, ReplaysPages
<1> QED
  BY <1>24, <1>25, <1>26 DEF StateInv

\* The pages that a replayed detach writes need nothing that can be lost.
LEMMA QuitCovered ==
    ASSUME RecInv, RecInv', Replays, PageState, NEW p \in Page, buf[p].undoInfo = {}, log[redo + 1].t = "QuitDetach"
    PROVE  Covered(log, p, buf[p].pg.dbtime, {}, Surviving)
<1>0. /\ LogTypes /\ Bounds /\ redo \in Nat /\ redo + 1 \in Idx /\ mode = "redo" /\ Horizon = redo
      /\ Len(log) \in Nat
  BY ReplaysSame, Numbers
<1>1. buf[p].modify \in Nat /\ buf[p].modify <= redo /\ durable \in Nat /\ waypoint \in Nat
  BY <1>0, Numbers, OfPage DEF RecInv, PageInv, BufBounds, LogTypes
<1>2. redo + 1 <= waypoint /\ durable = Len(log) /\ redo + 1 <= Len(log)
  BY <1>0 DEF Bounds, Idx
<1>3. Held(p) \subseteq Surviving
  <2> SUFFICES ASSUME NEW j \in 1 .. buf[p].modify PROVE j \in Surviving
    BY DEF Held
  <2> QED
    BY <1>0, <1>1, <1>2 DEF Surviving, Survives, Idx
<1>4. Covered(log, p, buf[p].pg.dbtime, {}, Held(p))
  BY DEF PageState, BufCovered
<1> QED
  BY <1>3, <1>4 DEF Covered

\* RedoQuit.
LEMMA RedoQuitState == ASSUME RecInv, RecInv', StateInv, RedoQuit PROVE StateInv'
<1>0. /\ LogOK /\ PageState /\ SessState /\ TrxState /\ Versions /\ Owned /\ SessTypes /\ EndInRedo /\ KeptTrx
      /\ Len(log) \in Nat
  BY Numbers DEF StateInv, SessState, TrxState
<1>1. /\ ToRedo({"QuitKeep", "QuitDetach"}) /\ redo' = redo + 1
      /\ UNCHANGED <<mode, log, durable, waypoint, dbtime, chk, ckpt, acked, kept>>
      /\ sess' = [s \in Session |-> NewSession]
  BY DEF RedoQuit
<1>2. /\ NextRec = log[redo + 1] /\ NextRec.t \in {"QuitKeep", "QuitDetach"} /\ redo \in Nat /\ mode = "redo" /\ redo + 1 \in Idx
  BY <1>1, RedoRec
<1>k. PICK k \in Nat : k = redo + 1 /\ k \in Idx /\ log[k].t \in {"QuitKeep", "QuitDetach"} /\ k - 1 = redo
  BY <1>2
<1>3. Replays
  BY <1>1, RedoTakes DEF Replays
<1>4. /\ Horizon = redo /\ log' = log /\ Surviving' = Surviving
  BY <1>3, ReplaysSame
<1>5. \A v \in Session : sess'[v].st = "idle" /\ sess'[v].start = 0 /\ sess'[v].rces = {} /\ sess'[v].deferred = {}
  BY <1>1, NewSessType
<1>6. RedoSess(Session)
  <2>1. \A v \in Session : Cuts(redo + 1, v) /\ log[redo + 1].t # "Begin0"
    BY <1>2 DEF Cuts
  <2>3. 0 <= Len(log)
    BY <1>0
  <2> QED
    BY <1>5, <2>1, <2>3 DEF RedoSess
<1>7. ASSUME NEW i \in 1 .. redo, log[i].t = "Node", Stands(log, i, redo) PROVE CommittedBy(log, kept, log[i].trx, redo)
  <2>1. QuitOK(log, kept, k)
    BY <1>0, <1>k DEF LogOK, RecOK, IsQuit
  <2> QED
    BY <1>k, <1>7, <2>1 DEF QuitOK
<1>8. ASSUME NEW v \in Session, NEW r \in sess[v].rces PROVE FALSE
  <2>1. SessOK(log, redo, v, sess[v])
    BY <1>0, <1>4 DEF Versions
  <2>2. Open(v)
    BY <1>2, <1>8, <2>1, RedoIdle DEF SessOK
  <2>3. PICK i \in 1 .. redo : VersionAt(log, redo, v, sess[v].start, r, i)
    BY <1>8, <2>1 DEF SessOK
  <2>4. CommittedBy(log, kept, sess[v].start, redo)
    BY <1>7, <2>3 DEF VersionAt
  <2>5. redo \in 0 .. Horizon
    BY <1>2, <1>4
  <2> QED
    BY <1>0, <2>2, <2>4, <2>5, OpenNotCommitted
<1>9. \A v \in Session : sess[v].rces = {}
  BY <1>8
<1>10. \A p \in Page : buf[p].undoInfo = {}
  BY <1>0, <1>9 DEF Owned, OwnedBy
<1>11. \A p \in Page : buf'[p].undoInfo = {}
  <2>1. CASE NextRec.t = "QuitDetach"
    <3>1. \A p \in Page : buf'[p] = CleanBuf(buf[p].pg)
      BY <2>1 DEF RedoQuit
    <3>2. \A p \in Page : buf[p].pg \in PageImage(p)
      BY Numbers, OfPage
    <3>3. \A p \in Page : CleanBuf(buf[p].pg).undoInfo = {}
      BY <3>2, CleanType
    <3> QED
      BY <3>1, <3>3
  <2>2. CASE NextRec.t # "QuitDetach"
    BY <1>10, <2>2 DEF RedoQuit
  <2> QED
    BY <2>1, <2>2
<1>12. Owing' /\ Owned'
  <2>1. \A p \in Page : buf'[p].undoInfo = buf[p].undoInfo
    BY <1>10, <1>11
  <2>2. \A v \in Session : sess'[v].rces = sess[v].rces
    BY <1>5, <1>9
  <2> QED
    BY <1>0, <1>3, <1>10, <2>1, <2>2, ReplaysOwes
<1>13. \A v \in Session : SessNow(v)
  BY <1>5 DEF SessNow, SessOK, DeferOK, IsOpen
<1>14. EndInRedo'
  <2>1. Session \in SUBSET Session
    OBVIOUS
  <2> QED
    BY <1>0, <1>3, <1>6, <2>1, ReplaysEnds
<1>15. SessState'
  BY <1>3, <1>12, <1>13, <1>14, ReplaysSess
<1>16. LogOK' /\ TrxState'
  <2>1. ASSUME NEW i \in 1 .. redo, log[i].t = "Node", Stands(log, i, k)
        PROVE  CommittedBy(log, kept, log[i].trx, k)
    <3>1. Stands(log, i, redo)
      BY <1>2, <1>k, <2>1 DEF Stands
    <3>2. CommittedBy(log, kept, log[i].trx, redo)
      BY <1>7, <2>1, <3>1
    <3>3. redo <= k
      BY <1>2, <1>k
    <3> QED
      BY <1>2, <3>2, <3>3, CommittedLater
  <2> QED
    BY <1>0, <1>2, <1>3, <1>k, <2>1, ReplaysTrx
<1>17. PageState'
  <2>1. CASE NextRec.t = "QuitDetach"
    <3>1. \A p \in Page : disk'[p] = buf[p].pg /\ buf'[p] = CleanBuf(buf[p].pg)
      BY <2>1 DEF RedoQuit
    <3>2. \A p \in Page : buf'[p].pg = buf[p].pg
      BY <3>1, CleanFields
    <3>3. \A p \in Page : Covered(log, p, buf[p].pg.dbtime, {}, Surviving)
      BY <1>0, <1>2, <1>3, <1>10, <2>1, QuitCovered
    <3>4. Images'
      <4> SUFFICES ASSUME NEW p \in Page PROVE ImageOK(log, disk'[p], p) /\ ImageOK(log, buf'[p].pg, p)
        BY <1>4 DEF Images
      <4> QED
        BY <1>0, <3>1, <3>2 DEF PageState, Images
    <3>5. DiskCovered'
      <4> SUFFICES ASSUME NEW p \in Page PROVE Covered(log, p, disk'[p].dbtime, {}, Surviving)
        BY <1>4 DEF DiskCovered
      <4> QED
        BY <3>1, <3>3
    <3>6. BufCovered'
      <4> SUFFICES ASSUME NEW p \in Page PROVE Covered(log, p, buf'[p].pg.dbtime, buf'[p].undoInfo, Held(p)')
        BY <1>4 DEF BufCovered
      <4>1. Surviving \subseteq Held(p)'
        BY <1>4 DEF Held
      <4>2. Covered(log, p, buf[p].pg.dbtime, {}, Surviving)
        BY <3>3
      <4> QED
        BY <1>11, <3>2, <4>1, <4>2 DEF Covered
    <3> QED
      BY <3>4, <3>5, <3>6 DEF PageState
  <2>2. CASE NextRec.t # "QuitDetach"
    <3>1. disk' = disk /\ buf' = buf
      BY <2>2 DEF RedoQuit
    <3>2. \A p \in Page : buf[p].modify \in Nat
      BY Numbers, OfPage
    <3> QED
      BY <1>0, <1>3, <3>1, <3>2, ReplaysPages
  <2> QED
    BY <2>1, <2>2
<1> QED
  BY <1>15, <1>16, <1>17 DEF StateInv

\* The changes that page p has are those that redo has passed.
LEMMA CaughtUp ==
    ASSUME RecInv, RecInv', Replays, NEW p \in Page, On(p, redo + 1), buf[p].pg.dbtime < log[redo + 1].after, NEW i \in Idx, On(p, i)
    PROVE  /\ log[i].after <= buf[p].pg.dbtime <=> i < redo + 1
           /\ log[i].after <= log[redo + 1].after <=> (i < redo + 1 \/ i = redo + 1)
<1>0. redo \in Nat /\ redo + 1 \in Idx /\ Horizon = redo
  BY ReplaysSame
<1>1. i \in Nat /\ log[i].after \in Nat /\ log[redo + 1].after \in Nat /\ buf[p].pg.dbtime \in Nat
  BY <1>0, Numbers, OfPage
<1>2. PageRec(i) /\ PageRec(redo + 1)
  BY DEF On
<1>3. i < redo + 1 => log[i].after < log[redo + 1].after
  BY <1>0, <1>2 DEF RecInv, LogInv, Order
<1>4. redo + 1 < i => log[redo + 1].after < log[i].after
  BY <1>0, <1>2 DEF RecInv, LogInv, Order
<1>5. i <= redo => log[i].after <= buf[p].pg.dbtime
  BY <1>0 DEF RecInv, PageInv, Caught
<1>6. i = redo + 1 => log[i].after = log[redo + 1].after
  OBVIOUS
<1>7. i < redo + 1 \/ i = redo + 1 \/ redo + 1 < i
  BY <1>0, <1>1
<1>8. i < redo + 1 <=> i <= redo
  BY <1>0, <1>1
<1>9. CASE i < redo + 1
  BY <1>0, <1>1, <1>3, <1>5, <1>8, <1>9
<1>10. CASE i = redo + 1
  BY <1>0, <1>1, <1>6, <1>10
<1>11. CASE redo + 1 < i
  BY <1>0, <1>1, <1>4, <1>11
<1> QED
  BY <1>7, <1>9, <1>10, <1>11

\* What a node's page shows is what the records before the next one show.
LEMMA ReplaysShows ==
    ASSUME RecInv, RecInv', Replays, PageState, NEW p \in Page, On(p, redo + 1), buf[p].pg.dbtime < log[redo + 1].after,
           NEW n \in Node, PageOf[n] = p
    PROVE  Shows(log, n, 1 .. redo, buf[p].pg.img[n])
<1>0. redo \in Nat /\ redo + 1 \in Idx /\ Len(log) \in Nat /\ redo + 1 <= Len(log)
  BY ReplaysSame, Numbers
<1>1. PICK t : t = buf[p].pg.dbtime
  OBVIOUS
<1>2. Shows(log, n, UpTo(log, t), buf[p].pg.img[n])
  BY <1>1 DEF PageState, Images, ImageOK
<1>3. ASSUME NEW i PROVE (i \in UpTo(log, t) /\ NodeOn(log, n, i)) <=> (i \in 1 .. redo /\ NodeOn(log, n, i))
  <2>1. CASE i \in Idx /\ NodeOn(log, n, i)
    <3>1. On(p, i)
      BY <2>1 DEF NodeOn, On, PageRec
    <3>2. log[i].after <= t <=> i < redo + 1
      BY <1>1, <2>1, <3>1, CaughtUp
    <3>3. i \in 1 .. Len(log) /\ i \in Nat /\ 1 <= i
      BY <1>0, <2>1 DEF Idx
    <3>4. i \in 1 .. redo <=> i < redo + 1
      BY <1>0, <3>3
    <3> QED
      BY <2>1, <3>2, <3>3, <3>4 DEF UpTo
  <2>2. CASE i \notin Idx
    BY <1>0, <2>2 DEF UpTo, Idx
  <2> QED
    BY <2>1, <2>2
<1> QED
  BY <1>2, <1>3, ShowsSame

\* A page on which the next record is redone.
LEMMA ReplaysChange ==
    ASSUME RecInv, RecInv', Replays, PageState, disk' = disk, NEW p \in Page, On(p, redo + 1),
           buf[p].pg.dbtime < log[redo + 1].after, buf'[p].pg.dbtime = log[redo + 1].after,
           buf'[p].pg.img = Written(buf[p].pg.img, log[redo + 1].node, log[redo + 1].val),
           buf[p].modify <= buf'[p].modify, buf[p].undoInfo \subseteq buf'[p].undoInfo,
           \A q \in Page : q # p => buf'[q] = buf[q],
           Owes(log, p, redo + 1) => log[redo + 1].rceid \in buf'[p].undoInfo
    PROVE  PageState'
<1>0. /\ redo \in Nat /\ Len(log) \in Nat /\ log' = log /\ Surviving' = Surviving /\ Idx' = Idx
      /\ LogTypes /\ PageTypes
  BY ReplaysSame, Numbers
<1>k. PICK k \in Nat : k = redo + 1 /\ k \in Idx
  BY <1>0, ReplaysSame
<1>1. PICK q : q = buf'[p].pg
  OBVIOUS
<1>2. PICK pg : pg = buf[p].pg
  OBVIOUS
<1>3. q.dbtime = log[k].after /\ pg.dbtime = buf[p].pg.dbtime
  BY <1>1, <1>2, <1>k
<1>4. log[k].t \in {"Node", "Undo"} /\ PageOf[log[k].node] = p /\ log[k].node \in Node
  BY <1>0, <1>k, OfLog DEF On, PageRec, NodeType
<1>5. ASSUME NEW i \in Idx, log[i].t \in {"Node", "Undo"}, PageOf[log[i].node] = p
      PROVE  /\ i \in UpTo(log, pg.dbtime) <=> i < k
             /\ i \in UpTo(log, q.dbtime) <=> (i < k \/ i = k)
  <2>1. On(p, i)
    BY <1>5 DEF On, PageRec
  <2>2. log[i].after <= pg.dbtime <=> i < k
    BY <1>3, <1>5, <1>k, <2>1, CaughtUp
  <2>3. log[i].after <= q.dbtime <=> (i < k \/ i = k)
    BY <1>3, <1>5, <1>k, <2>1, CaughtUp
  <2> QED
    BY <1>5, <2>2, <2>3 DEF UpTo, Idx
<1>6. ImageOK(log, q, p)
  <2>1. ImageOK(log, pg, p)
    BY <1>2 DEF PageState, Images
  <2>2. k \in UpTo(log, q.dbtime)
    BY <1>4, <1>5, <1>k
  <2>3. UpTo(log, pg.dbtime) \subseteq Nat /\ UpTo(log, q.dbtime) \subseteq Nat
    BY DEF UpTo
  <2>4. ASSUME NEW i
        PROVE  LET Has(x, t) == i \in UpTo(x, t) /\ x[i].t \in {"Node", "Undo"} /\ PageOf[x[i].node] = p
               IN  /\ Has(log, q.dbtime) <=> (Has(log, pg.dbtime) \/ i = k)
                   /\ Has(log, pg.dbtime) => log[i] = log[i] /\ i < k
    <3>1. CASE i \in Idx
      BY <1>4, <1>5, <3>1
    <3>2. CASE i \notin Idx
      <4>1. i \notin UpTo(log, pg.dbtime) /\ i \notin UpTo(log, q.dbtime) /\ i # k
        BY <1>k, <3>2 DEF UpTo, Idx
      <4> QED
        BY <4>1
    <3> QED
      BY <3>1, <3>2
  <2>5. q.img[log[k].node] = log[k].val /\ \A x \in Node : PageOf[x] = p /\ x # log[k].node => q.img[x] = pg.img[x]
    <3>1. pg.img \in [{x \in Node : PageOf[x] = p} -> Value]
      <4>1. pg \in PageImage(p)
        BY <1>0, <1>2, OfPage
      <4> QED
        BY <4>1 DEF PageImage, Value
    <3>2. q.img = [pg.img EXCEPT ![log[k].node] = log[k].val]
      BY <1>1, <1>2, <1>k DEF Written
    <3> QED
      BY <1>4, <3>1, <3>2
  <2>6. OneMore(log, log, pg.dbtime, q.dbtime, p, k)
    BY <2>4 DEF OneMore, RecUpTo
  <2> QED
    BY <1>4, <2>1, <2>2, <2>3, <2>5, <2>6, ImageChanged
<1>7. Held(p) \subseteq Held(p)' /\ Held(p) \subseteq Idx
  <2>1. buf[p].modify \in Nat
    BY <1>0, OfPage
  <2>2. buf'[p].modify \in Nat
    <3>1. PageTypes'
      BY NumbersNext
    <3> QED
      BY <3>1 DEF PageTypes, BufType
  <2>3. 1 .. buf[p].modify \subseteq 1 .. buf'[p].modify
    BY <2>1, <2>2
  <2> QED
    BY <1>0, <2>3, HeldIn DEF Held
<1>8. Covered(log, p, q.dbtime, buf'[p].undoInfo, Held(p)')
  <2>1. Covered(log, p, pg.dbtime, buf[p].undoInfo, Held(p))
    BY <1>2 DEF PageState, BufCovered
  <2>2. ASSUME NEW i \in 1 .. Len(log), Owes(log, p, i), log[i].after <= q.dbtime
        PROVE  \/ /\ i \in 1 .. Len(log) /\ log[i] = log[i] /\ log[i].after <= pg.dbtime
                  /\ log[i].rceid \in buf[p].undoInfo => log[i].rceid \in buf'[p].undoInfo
               \/ log[i].rceid \in buf'[p].undoInfo
               \/ \E j \in Held(p)' : Covers(log, j, i)
    <3>1. i \in Idx /\ log[i].t = "Node" /\ PageOf[log[i].node] = p
      BY <2>2 DEF Idx, Owes
    <3>2. i \in UpTo(log, q.dbtime)
      BY <2>2 DEF UpTo
    <3>3. i < k \/ i = k
      BY <1>5, <3>1, <3>2
    <3>4. CASE i = k
      BY <1>k, <2>2, <3>4
    <3>5. CASE i < k
      <4>1. i \in UpTo(log, pg.dbtime)
        BY <1>5, <3>1, <3>5
      <4>2. log[i].after <= pg.dbtime
        BY <4>1 DEF UpTo
      <4> QED
        BY <4>2
    <3> QED
      BY <3>3, <3>4, <3>5
  <2> QED
    BY <1>7, <2>1, <2>2, CoveredKept
<1>9. Images'
  <2> SUFFICES ASSUME NEW x \in Page PROVE ImageOK(log, disk[x], x) /\ ImageOK(log, buf'[x].pg, x)
    BY <1>0 DEF Images
  <2>1. ImageOK(log, disk[x], x) /\ ImageOK(log, buf[x].pg, x)
    BY DEF PageState, Images
  <2> QED
    BY <1>1, <1>6, <2>1
<1>10. DiskCovered'
  BY <1>0 DEF PageState, DiskCovered
<1>11. BufCovered'
  <2> SUFFICES ASSUME NEW x \in Page PROVE Covered(log, x, buf'[x].pg.dbtime, buf'[x].undoInfo, Held(x)')
    BY <1>0 DEF BufCovered
  <2>1. CASE x = p
    BY <1>1, <1>8, <2>1
  <2>2. CASE x # p
    <3>1. buf'[x] = buf[x]
      BY <2>2
    <3>2. Held(x)' = Held(x)
      BY <1>0, <3>1 DEF Held
    <3>3. Covered(log, x, buf[x].pg.dbtime, buf[x].undoInfo, Held(x))
      BY DEF PageState, BufCovered
    <3> QED
      BY <3>1, <3>2, <3>3
  <2> QED
    BY <2>1, <2>2
<1> QED
  BY <1>9, <1>10, <1>11 DEF PageState

Waits(l, h, s, start, id) ==
    /\ ~InfoAt(l, h, id)
    /\ \E i \in 1 .. h : l[i].t = "Node" /\ l[i].rceid = id /\ l[i].s = s /\ l[i].trx = start
    /\ \E j \in (h + 1) .. Len(l) :
          l[j].trx = start /\ (l[j].t = "Commit0" \/ (l[j].t = "UndoInfo" /\ l[j].rceid = id))

\* A version waits until its undo information comes, or its commit.
LEMMA WaitsStill ==
    ASSUME NEW l, Len(l) \in Nat, NEW h \in Nat, NEW k, k = h + 1, NEW s, NEW S, DeferOK(l, h, s, S), NEW id \in S.deferred,
           ~(l[k].t = "UndoInfo" /\ l[k].rceid = id), ~(l[k].t = "Commit0" /\ l[k].trx = S.start)
    PROVE  Waits(l, k, s, S.start, id)
<1>1. Waits(l, h, s, S.start, id)
  BY DEF DeferOK, Waits
<1>2. ~InfoAt(l, k, id)
  BY <1>1 DEF Waits, InfoAt
<1>3. PICK i \in 1 .. h : l[i].t = "Node" /\ l[i].rceid = id /\ l[i].s = s /\ l[i].trx = S.start
  BY <1>1 DEF Waits
<1>4. PICK j \in (h + 1) .. Len(l) : l[j].trx = S.start /\ (l[j].t = "Commit0" \/ (l[j].t = "UndoInfo" /\ l[j].rceid = id))
  BY <1>1 DEF Waits
<1>5. j # k
  BY <1>4
<1>6. j \in (k + 1) .. Len(l) /\ i \in 1 .. k
  BY <1>3, <1>4, <1>5
<1> QED
  BY <1>2, <1>3, <1>4, <1>6 DEF Waits

\* A session whose waiting versions all still wait.
LEMMA DeferFrom ==
    ASSUME NEW l, NEW k, NEW s, NEW S, IsOpen(S) \/ S.deferred = {}, \A id \in S.deferred : Waits(l, k, s, S.start, id)
    PROVE  DeferOK(l, k, s, S)
BY DEF Waits, DeferOK

\* The record that redo comes to, of a session that redo knows of.
LEMMA NextOfOpen ==
    ASSUME RecInv, LogOK, SessState, mode = "redo", redo + 1 \in Idx, NEW s \in Session, log[redo + 1].s = s,
           log[redo + 1].t = "UndoInfo", Open(s)
    PROVE  sess[s].start = log[redo + 1].trx
<1>0. redo \in Nat /\ Horizon = redo /\ Len(log) \in Nat /\ LogTypes
  BY Numbers DEF LogTypes
<1>k. PICK k \in Nat : k = redo + 1 /\ k \in Idx /\ k - 1 = redo
  BY <1>0
<1>1. /\ sess[s].start \in Idx /\ sess[s].start <= redo
      /\ log[sess[s].start].t = "Begin0" /\ log[sess[s].start].s = s
      /\ \A j \in Idx : sess[s].start < j /\ j <= redo => ~Cuts(j, s)
  BY <1>0 DEF RecInv, SessInv, OpenTrx
<1>2. InfoOK(log, k)
  BY <1>k DEF LogOK, RecOK
<1>3. /\ log[k].trx \in 1 .. redo /\ log[log[k].trx].t = "Begin0" /\ log[log[k].trx].s = s
      /\ \A j \in (log[k].trx + 1) .. redo : ~(log[j].s = s /\ log[j].t = "Begin0")
  BY <1>2, <1>k DEF InfoOK, Begins
<1>4. sess[s].start \in Nat /\ log[k].trx \in Nat /\ log[k].trx \in Idx
  BY <1>0, <1>1, <1>3, <1>k DEF Idx
<1>5. ~(log[k].trx < sess[s].start)
  <2> SUFFICES ASSUME log[k].trx < sess[s].start PROVE FALSE
    OBVIOUS
  <2>1. sess[s].start \in (log[k].trx + 1) .. redo
    BY <1>0, <1>1, <1>4
  <2> QED
    BY <1>1, <1>3, <2>1
<1>6. ~(sess[s].start < log[k].trx)
  <2> SUFFICES ASSUME sess[s].start < log[k].trx PROVE FALSE
    OBVIOUS
  <2>1. log[k].trx <= redo
    BY <1>0, <1>3
  <2> QED
    BY <1>1, <1>3, <1>4, <2>1 DEF Cuts
<1> QED
  BY <1>4, <1>5, <1>6, <1>k

\* Session s has versions R and waiting versions D after the step, and all else is as it was.
Holds(s, R, D) ==
    /\ sess'[s].rces = R /\ sess'[s].deferred = D
    /\ \A v \in Session : SessSame(v) /\ (v # s => sess'[v] = sess[v])

\* A version more.
LEMMA HoldsMore ==
    ASSUME SessTypes, NEW s \in Session, NEW r \in RCE, sess' = [sess EXCEPT ![s].rces = @ \cup {r}]
    PROVE  Holds(s, sess[s].rces \cup {r}, sess[s].deferred)
<1>1. PICK R \in SUBSET RCE : R = sess[s].rces \cup {r}
  BY OfSess
<1>2. PICK top \in Nat : \A q \in R : q.id <= top
  BY <1>1, TopOneMore
<1>3. sess' = [sess EXCEPT ![s].rces = R]
  BY <1>1
<1> QED
  BY <1>1, <1>2, <1>3, SetRces, ZenonT(40) DEF SessSame, Holds

\* One more that waits.
LEMMA HoldsWaiting ==
    ASSUME SessTypes, NEW s \in Session, NEW id \in Nat, sess' = [sess EXCEPT ![s].deferred = @ \cup {id}]
    PROVE  Holds(s, sess[s].rces, sess[s].deferred \cup {id})
<1>1. sess[s] = [st |-> sess[s].st, start |-> sess[s].start, commit |-> sess[s].commit,
                 rces |-> sess[s].rces, afterBT |-> sess[s].afterBT, deferred |-> sess[s].deferred]
  BY OfSess
<1>2. PICK D : D = sess[s].deferred \cup {id}
  OBVIOUS
<1>3. PICK u : u = [st |-> sess[s].st, start |-> sess[s].start, commit |-> sess[s].commit, rces |-> sess[s].rces,
                    afterBT |-> sess[s].afterBT, deferred |-> D]
  OBVIOUS
<1>4. [sess[s] EXCEPT !.deferred = @ \cup {id}] = u
  BY <1>1, <1>2, <1>3
<1>5. sess' = [sess EXCEPT ![s] = u]
  BY <1>4
<1>6. sess'[s] = u /\ \A v \in Session : v # s => sess'[v] = sess[v]
  BY <1>5 DEF SessTypes
<1>7. u.st = sess[s].st /\ u.start = sess[s].start /\ u.afterBT = sess[s].afterBT /\ u.rces = sess[s].rces /\ u.deferred = D
  BY <1>3
<1> QED
  BY <1>2, <1>6, <1>7 DEF SessSame, Holds

\* The change of record k is redone on page p, or is there; r is its version.
NodeRedone(s, p, k, r) ==
    /\ Replays /\ disk' = disk /\ k = redo + 1
    /\ log[k].t = "Node" /\ log[k].s = s /\ Open(s) /\ sess[s].start = log[k].trx /\ On(p, k)
    /\ log[k].rceid = r.id /\ log[k].node = r.node /\ log[k].oper = r.oper /\ r \in RCE
    /\ r.before = IF r.oper = "Insert" THEN NoRec ELSE buf[p].pg.img[r.node]
    /\ \/ /\ buf[p].pg.dbtime < log[k].after
          /\ Holds(s, sess[s].rces \cup {r}, sess[s].deferred)
          /\ buf'[p].pg.dbtime = log[k].after /\ buf'[p].pg.img = Written(buf[p].pg.img, log[k].node, log[k].val)
          /\ buf[p].modify <= buf'[p].modify
          /\ buf'[p].undoInfo = buf[p].undoInfo \cup (IF NeedsUndoInfo(r) THEN {r.id} ELSE {})
          /\ \A q \in Page : q # p => buf'[q] = buf[q]
       \/ /\ log[k].after <= disk[p].dbtime /\ buf' = buf
          /\ \/ ~NeedsUndoInfo(r) /\ Holds(s, sess[s].rces \cup {r}, sess[s].deferred)
             \/ NeedsUndoInfo(r) /\ Holds(s, sess[s].rces, sess[s].deferred \cup {r.id})

\* RedoNode does that.
LEMMA RedoNodeDoes ==
    ASSUME RecInv, RedoNode PROVE \E s \in Session : \E p \in Page : \E k \in Nat : \E r : NodeRedone(s, p, k, r)
<1>0. Types /\ LogTypes /\ PageTypes /\ SessTypes
  BY SMTT(30) DEF RecInv, Types
<1> DEFINE g == NextRec
           z == PageOf[g.node]
           rce == [id |-> g.rceid, node |-> g.node, oper |-> g.oper,
                   before |-> IF g.oper = "Insert" THEN NoRec ELSE buf[z].pg.img[g.node]]
           b == Changed(buf[z], g.node, g.val, g.after, redo + 1, sess[g.s].start)
<1>1. /\ ToRedo({"Node"}) /\ sess[g.s].afterBT /\ DbtimeSeen(g) /\ redo' = redo + 1
      /\ UNCHANGED <<mode, log, durable, waypoint, disk, chk, ckpt, acked, kept>>
      /\ \/ /\ RedoNeeded(g)
            /\ sess' = [sess EXCEPT ![g.s].rces = @ \cup {rce}]
            /\ buf' = [buf EXCEPT ![z] =
                         IF NeedsUndoInfo(rce) THEN [b EXCEPT !.undoInfo = @ \cup {rce.id}] ELSE b]
         \/ /\ ~RedoNeeded(g)
            /\ sess' = IF NeedsUndoInfo(rce)
                         THEN [sess EXCEPT ![g.s].deferred = @ \cup {g.rceid}]
                         ELSE [sess EXCEPT ![g.s].rces = @ \cup {rce}]
            /\ UNCHANGED buf
  BY DEF RedoNode
<1>2. /\ mode = "redo" /\ redo \in Nat /\ redo + 1 \in Idx /\ g = log[redo + 1] /\ g.t \in {"Node"}
      /\ g.after \in Nat /\ g.rceid \in Nat /\ g.val \in Value
      /\ g.t \in TrxType => g.s \in Session
      /\ g.t \in NodeType => g.node \in Node /\ PageOf[g.node] \in Page /\ g.oper \in Oper
  BY <1>1, RedoRec
<1>3. g.s \in Session /\ g.node \in Node /\ z \in Page /\ g.oper \in Oper
  BY <1>2 DEF TrxType, NodeType
<1>4. rce \in RCE
  <2>1. buf[z].pg.img[g.node] \in Value
    BY <1>0, <1>3, OfNode
  <2>2. (IF g.oper = "Insert" THEN NoRec ELSE buf[z].pg.img[g.node]) \in Value
    BY <2>1 DEF Value
  <2> QED
    BY <1>2, <1>3, <2>2 DEF RCE, Value, Oper
<1>5. RedoStep /\ PageRec(redo + 1)
  <2>1. ToRedo({"Node"}) /\ DbtimeSeen(NextRec)
    BY <1>1
  <2> QED
    BY <1>1, <2>1, RedoSees, SMTT(30)
<1>s. PICK s \in Session : s = g.s
  BY <1>3
<1>p. PICK p \in Page : p = z
  BY <1>3
<1>k. PICK k \in Nat : k = redo + 1
  BY <1>2
<1>r. PICK r \in RCE : r = rce
  BY <1>4
<1>6. /\ Open(s) /\ sess[s].start = log[k].trx /\ log[k].trx \in Nat /\ On(p, k)
      /\ log[k].after <= buf[p].pg.dbtime => log[k].after <= disk[p].dbtime
  <2>1. sess[log[redo + 1].s].afterBT /\ p = PageOf[log[redo + 1].node]
    BY <1>1, <1>2, <1>p, ZenonT(40)
  <2> QED
    BY <1>2, <1>5, <1>k, <1>s, <2>1, RedoCondition, SMTT(30)
<1>7. /\ log[k].t = "Node" /\ log[k].s = s /\ log[k] = g
      /\ log[k].rceid = r.id /\ log[k].node = r.node /\ log[k].oper = r.oper
      /\ r.before = IF r.oper = "Insert" THEN NoRec ELSE buf[p].pg.img[r.node]
  BY <1>2, <1>k, <1>p, <1>r, <1>s
<1>8. Replays /\ disk' = disk
  BY <1>1, <1>5 DEF Replays
<1>9. buf[p].pg.dbtime \in Nat /\ buf[p].modify \in Nat /\ buf[p] \in BufType(p)
  BY <1>0, OfPage
<1>10. CASE RedoNeeded(g)
  <2>1. PICK d : d = b
    OBVIOUS
  <2>2. ChangedTo(d, p, buf[p], g.after, k, log[k].trx) /\ WrittenTo(d, buf[p], g.node, g.val)
    BY <1>2, <1>3, <1>6, <1>9, <1>k, <1>p, <1>s, <2>1, ChangedType, ZenonT(60)
  <2>3. PICK c : c = IF NeedsUndoInfo(rce) THEN [d EXCEPT !.undoInfo = @ \cup {rce.id}] ELSE d
    OBVIOUS
  <2>4. /\ c \in BufType(p) /\ c.pg = d.pg /\ c.modify = d.modify
        /\ c.undoInfo = d.undoInfo \cup (IF NeedsUndoInfo(r) THEN {r.id} ELSE {})
    <3>1. CASE NeedsUndoInfo(r)
      <4>1. d \in BufType(p) /\ r.id \in Nat
        BY <1>2, <1>7, <2>2 DEF ChangedTo
      <4>2. PICK e : e = [d EXCEPT !.undoInfo = @ \cup {r.id}]
        OBVIOUS
      <4>3. e \in BufType(p) /\ e.pg = d.pg /\ e.modify = d.modify /\ e.undoInfo = d.undoInfo \cup {r.id}
        BY <4>1, <4>2, MoreUndoInfo
      <4>4. c = e
        BY <1>r, <2>3, <3>1, <4>2
      <4> QED
        BY <3>1, <4>3, <4>4
    <3>2. CASE ~NeedsUndoInfo(r)
      <4>1. c = d
        BY <1>r, <2>3, <3>2
      <4>2. d \in BufType(p)
        BY <2>2 DEF ChangedTo
      <4> QED
        BY <3>2, <4>1, <4>2
    <3> QED
      BY <3>1, <3>2
  <2>5. buf' = [buf EXCEPT ![p] = c]
    BY <1>1, <1>10, <1>p, <2>1, <2>3, Zenon
  <2>6. buf'[p] = c /\ \A q \in Page : q # p => buf'[q] = buf[q]
    BY <1>0, <1>8, <2>4, <2>5, BufSet
  <2>7. buf[p].pg.dbtime < log[k].after
    <3>1. g.after > buf[p].pg.dbtime
      BY <1>10, <1>p DEF RedoNeeded
    <3> QED
      BY <1>2, <1>7, <1>9, <3>1
  <2>8. Holds(s, sess[s].rces \cup {r}, sess[s].deferred)
    <3>1. sess' = [sess EXCEPT ![s].rces = @ \cup {r}]
      BY <1>1, <1>10, <1>r, <1>s
    <3> QED
      BY <1>0, <3>1, HoldsMore
  <2>9. buf'[p].pg.dbtime = log[k].after /\ buf'[p].pg.img = Written(buf[p].pg.img, log[k].node, log[k].val)
    BY <1>7, <2>2, <2>4, <2>6 DEF ChangedTo, WrittenTo
  <2>10. buf[p].modify <= buf'[p].modify
    BY <1>9, <1>k, <2>2, <2>4, <2>6 DEF ChangedTo, Later
  <2>11. buf'[p].undoInfo = buf[p].undoInfo \cup (IF NeedsUndoInfo(r) THEN {r.id} ELSE {})
    BY <2>2, <2>4, <2>6 DEF WrittenTo
  <2>12. NodeRedone(s, p, k, r)
    <3> HIDE DEF g, z, rce, b
    <3> QED
      BY <1>6, <1>7, <1>8, <1>k, <2>6, <2>7, <2>8, <2>9, <2>10, <2>11 DEF NodeRedone
  <2> QED
    BY <2>12
<1>11. CASE ~RedoNeeded(g)
  <2>1. buf' = buf
    BY <1>1, <1>11
  <2>2. log[k].after <= disk[p].dbtime
    <3>1. ~(g.after > buf[p].pg.dbtime)
      BY <1>11, <1>p DEF RedoNeeded
    <3>2. log[k].after <= buf[p].pg.dbtime
      BY <1>2, <1>7, <1>9, <3>1
    <3> QED
      BY <1>6, <3>2
  <2>3. \/ ~NeedsUndoInfo(r) /\ Holds(s, sess[s].rces \cup {r}, sess[s].deferred)
        \/ NeedsUndoInfo(r) /\ Holds(s, sess[s].rces, sess[s].deferred \cup {r.id})
    <3>1. CASE NeedsUndoInfo(r)
      <4>1. sess' = [sess EXCEPT ![s].deferred = @ \cup {r.id}]
        BY <1>1, <1>7, <1>11, <1>r, <1>s, <3>1
      <4>2. r.id \in Nat
        BY <1>2, <1>7
      <4> QED
        BY <1>0, <3>1, <4>1, <4>2, HoldsWaiting
    <3>2. CASE ~NeedsUndoInfo(r)
      <4>1. sess' = [sess EXCEPT ![s].rces = @ \cup {r}]
        BY <1>1, <1>11, <1>r, <1>s, <3>2
      <4> QED
        BY <1>0, <3>2, <4>1, HoldsMore
    <3> QED
      BY <3>1, <3>2, SMTT(30)
  <2>4. NodeRedone(s, p, k, r)
    <3> HIDE DEF g, z, rce, b
    <3> QED
      BY <1>6, <1>7, <1>8, <1>k, <2>1, <2>2, <2>3 DEF NodeRedone
  <2> QED
    BY <2>4
<1> QED
  BY <1>10, <1>11

\* The version that RedoNode makes.
LEMMA NodeVersion ==
    ASSUME RecInv, RecInv', LogOK, PageState, NEW s \in Session, NEW p \in Page, NEW k \in Nat, NEW r, NodeRedone(s, p, k, r)
    PROVE  /\ r.oper = "Insert" \/ buf[p].pg.dbtime < log[k].after => VersionAt(log, k, s, sess[s].start, r, k)
           /\ ~InfoAt(log, k, r.id) /\ k \in Idx /\ redo \in Nat /\ k = redo + 1
<1>1. /\ Replays /\ k = redo + 1 /\ log[k].t = "Node" /\ log[k].s = s /\ sess[s].start = log[k].trx /\ On(p, k)
      /\ log[k].rceid = r.id /\ log[k].node = r.node /\ log[k].oper = r.oper /\ r \in RCE
      /\ r.before = IF r.oper = "Insert" THEN NoRec ELSE buf[p].pg.img[r.node]
  BY DEF NodeRedone
<1>2. k \in Idx /\ redo \in Nat /\ Len(log) \in Nat
  BY <1>1, ReplaysSame, Numbers
<1>3. k - 1 = redo /\ k \in 1 .. Len(log)
  BY <1>1, <1>2 DEF Idx
<1>4. Stands(log, k, k)
  BY DEF Stands
<1>5. ASSUME r.oper = "Insert" PROVE Shows(log, r.node, 1 .. (k - 1), r.before)
  <2>1. NodeOK(log, kept, k)
    BY <1>1, <1>2 DEF LogOK, RecOK
  <2> QED
    BY <1>1, <1>5, <2>1 DEF NodeOK
<1>6. ASSUME r.oper # "Insert", buf[p].pg.dbtime < log[k].after PROVE Shows(log, r.node, 1 .. (k - 1), r.before)
  <2>1. r.node \in Node /\ PageOf[r.node] = p
    BY <1>1 DEF RCE, On
  <2>2. Shows(log, r.node, 1 .. redo, buf[p].pg.img[r.node])
    BY <1>1, <1>6, <2>1, ReplaysShows
  <2> QED
    BY <1>1, <1>3, <1>6, <2>2
<1>7. r.oper = "Insert" \/ buf[p].pg.dbtime < log[k].after => VersionAt(log, k, s, sess[s].start, r, k)
  BY <1>1, <1>4, <1>5, <1>6 DEF VersionAt
<1>8. ASSUME InfoAt(log, k, r.id) PROVE FALSE
  <2>1. PICK j \in 1 .. k : log[j].t = "UndoInfo" /\ log[j].rceid = r.id
    BY <1>8 DEF InfoAt
  <2>2. j \in Idx /\ j \in Nat /\ j <= k
    BY <1>2, <1>3, <2>1 DEF Idx
  <2>3. PICK i \in 1 .. (j - 1) : About(log, i, j)
    BY <2>1, <2>2 DEF LogOK, RecOK, InfoOK
  <2>4. log[i].t = "Node" /\ log[i].rceid = log[k].rceid
    BY <1>1, <2>1, <2>3 DEF About
  <2>5. i \in 1 .. Len(log) /\ i < k
    BY <1>2, <1>3, <2>2, <2>3
  <2> QED
    BY <1>1, <1>3, <2>4, <2>5, Unique DEF UniqueIds
<1> QED
  BY <1>1, <1>2, <1>7, <1>8

\* RedoNode, for the session.
LEMMA NodeSess ==
    ASSUME RecInv, RecInv', LogOK, PageState, SessState, NEW s \in Session, NEW p \in Page, NEW k \in Nat, NEW r,
           NodeRedone(s, p, k, r)
    PROVE  SessNow(s)
<1>0. Versions /\ Deferred /\ DiskCovered /\ Len(log) \in Nat
  BY Numbers DEF SessState, PageState
<1>1. /\ Replays /\ k = redo + 1 /\ log[k].t = "Node" /\ log[k].s = s /\ Open(s) /\ sess[s].start = log[k].trx /\ On(p, k)
      /\ log[k].rceid = r.id /\ log[k].node = r.node /\ log[k].oper = r.oper
  BY DEF NodeRedone
<1>2. PICK R, D : Holds(s, R, D) /\ sess[s].rces \subseteq R /\ sess[s].deferred \subseteq D /\ R \subseteq sess[s].rces \cup {r}
                  /\ (r \in R \/ r.id \in D)
                  /\ (R # sess[s].rces => r.oper = "Insert" \/ buf[p].pg.dbtime < log[k].after)
                  /\ (D # sess[s].deferred => D = sess[s].deferred \cup {r.id} /\ NeedsUndoInfo(r) /\ log[k].after <= disk[p].dbtime)
  <2>1. CASE Holds(s, sess[s].rces \cup {r}, sess[s].deferred) /\ (r.oper = "Insert" \/ buf[p].pg.dbtime < log[k].after)
    BY <2>1
  <2>2. CASE Holds(s, sess[s].rces, sess[s].deferred \cup {r.id}) /\ NeedsUndoInfo(r) /\ log[k].after <= disk[p].dbtime
    BY <2>2
  <2> QED
    BY <2>1, <2>2 DEF NodeRedone, NeedsUndoInfo
<1>3. /\ sess'[s].rces = R /\ sess'[s].deferred = D /\ sess'[s].st = sess[s].st /\ sess'[s].start = sess[s].start
  BY <1>2 DEF Holds, SessSame
<1>4. /\ r.oper = "Insert" \/ buf[p].pg.dbtime < log[k].after => VersionAt(log, k, s, sess[s].start, r, k)
      /\ ~InfoAt(log, k, r.id) /\ k \in Idx /\ redo \in Nat
  BY NodeVersion
<1>5. mode = "redo" /\ Horizon = redo /\ Agree(log, log, redo) /\ k \in 1 .. k /\ redo <= k
  BY <1>1, <1>4, ReplaysSame
<1>6. SessOK(log, redo, s, sess[s]) /\ DeferOK(log, redo, s, sess[s])
  BY <1>0, <1>5 DEF Versions, Deferred
<1>7. ASSUME NEW x \in R PROVE \E i \in 1 .. k : VersionAt(log, k, s, sess[s].start, x, i)
  <2>1. CASE x \in sess[s].rces
    <3>1. PICK i \in 1 .. redo : VersionAt(log, redo, s, sess[s].start, x, i)
      BY <1>6, <2>1 DEF SessOK
    <3>2. \A j \in (redo + 1) .. k : ~(log[j].t = "Undo" /\ log[j].rceid = x.id)
      BY <1>1, <1>4
    <3>3. VersionAt(log, k, s, sess[s].start, x, i)
      BY <1>4, <1>5, <3>1, <3>2, VersionKept
    <3>4. i \in 1 .. k
      BY <1>1, <1>4, <3>1
    <3> QED
      BY <3>3, <3>4
  <2>2. CASE x \notin sess[s].rces
    <3>1. x = r /\ R # sess[s].rces
      BY <1>2, <1>7, <2>2
    <3> QED
      BY <1>2, <1>4, <1>5, <3>1
  <2> QED
    BY <2>1, <2>2
<1>8. ASSUME NEW i \in 1 .. k, log[i].t = "Node", log[i].trx = sess[s].start, Stands(log, i, k)
      PROVE  (\E x \in R : x.id = log[i].rceid) \/ log[i].rceid \in D
  <2>1. CASE i = k
    BY <1>1, <1>2, <2>1
  <2>2. CASE i # k
    <3>1. i \in 1 .. redo
      BY <1>1, <1>4, <2>2
    <3>2. Stands(log, i, redo)
      BY <1>4, <1>5, <1>8, <3>1, StoodBefore
    <3>3. IsOpen(sess[s])
      BY <1>1 DEF Open, IsOpen
    <3>4. (\E x \in sess[s].rces : x.id = log[i].rceid) \/ log[i].rceid \in sess[s].deferred
      BY <1>6, <1>8, <3>1, <3>2, <3>3 DEF SessOK
    <3> QED
      BY <1>2, <3>4
  <2> QED
    BY <2>1, <2>2
<1>9. SessOK(log, k, s, sess'[s])
  <2>1. sess'[s].st # "idle"
    BY <1>1, <1>3 DEF Open
  <2> QED
    BY <1>3, <1>7, <1>8, <2>1 DEF SessOK
<1>10. ASSUME NEW id \in D PROVE Waits(log, k, s, sess[s].start, id)
  <2>1. CASE id \in sess[s].deferred
    BY <1>0, <1>1, <1>4, <1>6, <2>1, WaitsStill
  <2>2. CASE id \notin sess[s].deferred
    <3>1. id = r.id /\ NeedsUndoInfo(r) /\ log[k].after <= disk[p].dbtime
      BY <1>2, <1>10, <2>2
    <3>2. Owes(log, p, k)
      BY <1>1, <3>1 DEF Owes, NeedsUndoInfo, On
    <3>3. k \in 1 .. Len(log)
      BY <1>4 DEF Idx
    <3>4. PICK j \in Surviving : Covers(log, j, k)
      BY <1>0, <3>1, <3>2, <3>3 DEF DiskCovered, Covered
    <3>5. j \in (k + 1) .. Len(log)
      BY <1>0, <3>4 DEF Covers, Surviving, Idx
    <3>6. log[j].trx = sess[s].start /\ (log[j].t = "Commit0" \/ (log[j].t = "UndoInfo" /\ log[j].rceid = id))
      BY <1>1, <3>1, <3>4 DEF Covers
    <3> QED
      BY <1>1, <1>4, <1>5, <3>1, <3>5, <3>6 DEF Waits
  <2> QED
    BY <2>1, <2>2
<1>11. DeferOK(log, k, s, sess'[s])
  <2>1. IsOpen(sess'[s])
    BY <1>1, <1>3 DEF Open, IsOpen
  <2> QED
    BY <1>3, <1>10, <2>1, DeferFrom
<1> QED
  BY <1>1, <1>9, <1>11 DEF SessNow

\* RedoNode.
LEMMA RedoNodeState == ASSUME RecInv, RecInv', StateInv, RedoNode PROVE StateInv'
<1>0. LogOK /\ PageState /\ SessState /\ TrxState /\ Owing /\ Owned /\ EndInRedo /\ SessTypes /\ PageTypes
  BY Numbers DEF StateInv, SessState
<1>s. PICK s \in Session : \E p \in Page : \E k \in Nat : \E r : NodeRedone(s, p, k, r)
  BY RedoNodeDoes
<1>p. PICK p \in Page : \E k \in Nat : \E r : NodeRedone(s, p, k, r)
  BY <1>s
<1>k. PICK k \in Nat : \E r : NodeRedone(s, p, k, r)
  BY <1>p
<1>r. PICK r : NodeRedone(s, p, k, r)
  BY <1>k
<1>1. /\ Replays /\ disk' = disk /\ k = redo + 1 /\ log[k].t = "Node" /\ log[k].s = s /\ Open(s) /\ sess[s].start = log[k].trx
      /\ On(p, k) /\ log[k].rceid = r.id /\ log[k].node = r.node /\ log[k].oper = r.oper
  BY <1>r DEF NodeRedone
<1>2. \A v \in Session : SessSame(v) /\ (v # s => sess'[v] = sess[v])
  BY <1>r DEF NodeRedone, Holds
<1>3. /\ \A q \in Page : buf[q].undoInfo \subseteq buf'[q].undoInfo
      /\ \A q \in Page : \A id \in buf'[q].undoInfo \ buf[q].undoInfo : q = p /\ id = r.id /\ NeedsUndoInfo(r) /\ r \in sess'[s].rces
      /\ sess[s].rces \subseteq sess'[s].rces
      /\ \A x \in sess'[s].rces \ sess[s].rces : x = r /\ (NeedsUndoInfo(r) => r.id \in buf'[p].undoInfo)
  <2>1. CASE /\ Holds(s, sess[s].rces \cup {r}, sess[s].deferred)
             /\ buf'[p].undoInfo = buf[p].undoInfo \cup (IF NeedsUndoInfo(r) THEN {r.id} ELSE {})
             /\ \A q \in Page : q # p => buf'[q] = buf[q]
    BY <2>1 DEF Holds
  <2>2. CASE buf' = buf /\ ~NeedsUndoInfo(r) /\ Holds(s, sess[s].rces \cup {r}, sess[s].deferred)
    BY <2>2 DEF Holds
  <2>3. CASE buf' = buf /\ NeedsUndoInfo(r) /\ Holds(s, sess[s].rces, sess[s].deferred \cup {r.id})
    BY <2>3 DEF Holds
  <2> QED
    BY <1>r, <2>1, <2>2, <2>3 DEF NodeRedone
<1>4. ~InfoAt(log, k, r.id) /\ k \in Idx /\ redo \in Nat
  BY <1>0, <1>r, NodeVersion
<1>5. Moves /\ Come = {k} /\ log' = log /\ Horizon' = k
  BY <1>1, ReplaysSame
<1>6. RedoSess({})
  <2>1. \A v \in Session : ~Cuts(k, v)
    BY <1>1 DEF Cuts
  <2> QED
    BY <1>1, <1>2, <2>1 DEF RedoSess
<1>7. Owing'
  <2>1. ASSUME NEW v \in Session, NEW x \in sess'[v].rces, NeedsUndoInfo(x)
        PROVE  \/ x.id \in buf'[PageOf[x.node]].undoInfo
               \/ x \in sess[v].rces /\ x.id \notin buf[PageOf[x.node]].undoInfo
    <3>1. CASE x \in sess[v].rces
      <4>1. x \in RCE
        BY <1>0, <3>1, OfSess
      <4>2. PageOf[x.node] \in Page
        BY <4>1, Constants DEF RCE
      <4> QED
        BY <1>3, <3>1, <4>2
    <3>2. CASE x \notin sess[v].rces
      <4>1. v = s
        BY <1>2, <2>1, <3>2
      <4>2. x = r /\ (NeedsUndoInfo(r) => r.id \in buf'[p].undoInfo)
        BY <1>3, <2>1, <3>2, <4>1
      <4>3. PageOf[x.node] = p
        BY <1>1, <4>2 DEF On
      <4> QED
        BY <2>1, <4>2, <4>3
    <3> QED
      BY <3>1, <3>2
  <2> QED
    BY <1>0, <1>5, <2>1, OwingStays
<1>8. Owned'
  <2>1. ASSUME NEW q \in Page, NEW id \in buf'[q].undoInfo
        PROVE  \/ /\ id \in buf[q].undoInfo
                  /\ \A j \in Come : ~(log'[j].t = "UndoInfo" /\ log'[j].rceid = id)
                  /\ \A v \in Session : \A x \in sess[v].rces : x.id = id => x \in sess'[v].rces
               \/ OwnedBy(sess', q, id) /\ ~InfoAt(log', Horizon', id)
    <3>1. CASE id \in buf[q].undoInfo
      <4>1. \A j \in Come : ~(log'[j].t = "UndoInfo" /\ log'[j].rceid = id)
        BY <1>1, <1>5
      <4>2. \A v \in Session : sess[v].rces \subseteq sess'[v].rces
        BY <1>2, <1>3
      <4> QED
        BY <3>1, <4>1, <4>2
    <3>2. CASE id \notin buf[q].undoInfo
      <4>1. q = p /\ id = r.id /\ NeedsUndoInfo(r) /\ r \in sess'[s].rces
        BY <1>3, <2>1, <3>2
      <4>2. OwnedBy(sess', q, id)
        BY <1>1, <4>1 DEF OwnedBy, On
      <4> QED
        BY <1>4, <1>5, <4>1, <4>2
    <3> QED
      BY <3>1, <3>2
  <2> QED
    BY <1>0, <1>5, <2>1, OwnedStays
<1>9. ASSUME NEW v \in Session PROVE SessNow(v)
  <2>1. CASE v = s
    BY <1>0, <1>r, <2>1, NodeSess
  <2>2. CASE v # s
    BY <1>0, <1>1, <1>2, <2>2, ReplaysElse
  <2> QED
    BY <2>1, <2>2
<1>10. EndInRedo'
  <2>1. {} \in SUBSET Session
    OBVIOUS
  <2> QED
    BY <1>0, <1>1, <1>6, <2>1, ReplaysEnds
<1>11. SessState'
  BY <1>1, <1>7, <1>8, <1>9, <1>10, ReplaysSess
<1>12. LogOK' /\ TrxState'
  <2>1. \A v \in Session : Open(v) => Open(v)' /\ sess'[v].start = sess[v].start
    BY <1>2 DEF SessSame, Open
  <2>2. Open(s)' /\ sess'[s].start = log[redo + 1].trx
    BY <1>1, <2>1
  <2> QED
    BY <1>0, <1>1, <2>1, <2>2, ReplaysTrx
<1>13. PageState'
  <2>1. CASE buf' = buf
    <3>1. \A q \in Page : buf[q].modify \in Nat
      BY <1>0, OfPage
    <3> QED
      BY <1>0, <1>1, <2>1, <3>1, ReplaysPages
  <2>2. CASE /\ buf[p].pg.dbtime < log[k].after /\ buf'[p].pg.dbtime = log[k].after
             /\ buf'[p].pg.img = Written(buf[p].pg.img, log[k].node, log[k].val) /\ buf[p].modify <= buf'[p].modify
             /\ buf'[p].undoInfo = buf[p].undoInfo \cup (IF NeedsUndoInfo(r) THEN {r.id} ELSE {})
             /\ \A q \in Page : q # p => buf'[q] = buf[q]
    <3>1. Owes(log, p, k) => log[k].rceid \in buf'[p].undoInfo
      BY <1>1, <2>2 DEF Owes, NeedsUndoInfo
    <3>2. buf[p].undoInfo \subseteq buf'[p].undoInfo
      BY <2>2
    <3> QED
      BY <1>0, <1>1, <2>2, <3>1, <3>2, ReplaysChange
  <2> QED
    BY <1>r, <2>1, <2>2 DEF NodeRedone
<1> QED
  BY <1>11, <1>12, <1>13 DEF StateInv

Found(s, id) == {q \in sess[s].rces : q.id = id}

\* Record k undoes a change of page p, or the page has that already.
UndoRedone(s, p, k) ==
    /\ Replays /\ disk' = disk /\ k = redo + 1
    /\ log[k].t = "Undo" /\ log[k].s = s /\ Open(s) /\ sess[s].start = log[k].trx /\ On(p, k)
    /\ Holds(s, sess[s].rces \ Found(s, log[k].rceid), sess[s].deferred)
    /\ \A q \in Page : q # p => buf'[q] = buf[q]
    /\ buf'[p].undoInfo = buf[p].undoInfo \ {log[k].rceid} /\ buf[p].modify <= buf'[p].modify
    /\ \/ \E q \in Found(s, log[k].rceid) :
             /\ buf[p].pg.dbtime < log[k].after /\ buf'[p].pg.dbtime = log[k].after
             /\ buf'[p].pg.img = Written(buf[p].pg.img, log[k].node, q.before)
       \/ buf'[p].pg = buf[p].pg

\* RedoUndo does that.
LEMMA RedoUndoDoes == ASSUME RecInv, RedoUndo PROVE \E s \in Session : \E p \in Page : \E k \in Nat : UndoRedone(s, p, k)
<1>0. Types /\ LogTypes /\ PageTypes /\ SessTypes
  BY DEF RecInv, Types
<1> DEFINE g == NextRec
           z == PageOf[g.node]
           found == {q \in sess[g.s].rces : q.id = g.rceid}
           b == WithoutUndoInfo(buf[z], g.rceid, NoLgpos)
<1>1. /\ ToRedo({"Undo"}) /\ sess[g.s].afterBT /\ DbtimeSeen(g) /\ redo' = redo + 1
      /\ UNCHANGED <<mode, log, durable, waypoint, disk, chk, ckpt, acked, kept>>
      /\ IF RedoNeeded(g)
           THEN \E q \in found :
                  buf' = [buf EXCEPT ![z] = Changed(b, g.node, q.before, g.after, redo + 1, sess[g.s].start)]
           ELSE buf' = [buf EXCEPT ![z] = b]
      /\ sess' = [sess EXCEPT ![g.s].rces = @ \ found]
  BY DEF RedoUndo
<1>2. /\ mode = "redo" /\ redo \in Nat /\ redo + 1 \in Idx /\ g = log[redo + 1] /\ g.t \in {"Undo"}
      /\ g.after \in Nat /\ g.rceid \in Nat
      /\ g.t \in TrxType => g.s \in Session
      /\ g.t \in NodeType => g.node \in Node /\ PageOf[g.node] \in Page
  BY <1>1, RedoRec
<1>3. g.s \in Session /\ g.node \in Node /\ z \in Page
  BY <1>2 DEF TrxType, NodeType
<1>5. RedoStep /\ PageRec(redo + 1)
  <2>1. ToRedo({"Undo"}) /\ DbtimeSeen(NextRec)
    BY <1>1
  <2> QED
    BY <1>1, <2>1, RedoSees
<1>s. PICK s \in Session : s = g.s
  BY <1>3
<1>p. PICK p \in Page : p = z
  BY <1>3
<1>k. PICK k \in Nat : k = redo + 1
  BY <1>2
<1>6. Open(s) /\ sess[s].start = log[k].trx /\ log[k].trx \in Nat /\ On(p, k)
  <2>1. sess[log[redo + 1].s].afterBT /\ p = PageOf[log[redo + 1].node]
    BY <1>1, <1>2, <1>p
  <2> QED
    BY <1>2, <1>5, <1>k, <1>s, <2>1, RedoCondition
<1>7. log[k].t = "Undo" /\ log[k].s = s /\ log[k] = g /\ found = Found(s, log[k].rceid)
  BY <1>2, <1>k, <1>s DEF Found
<1>8. Replays /\ disk' = disk
  BY <1>1, <1>5 DEF Replays
<1>9. buf[p].pg.dbtime \in Nat /\ buf[p].modify \in Nat /\ buf[p] \in BufType(p)
  BY <1>0, OfPage
<1>10. Holds(s, sess[s].rces \ Found(s, log[k].rceid), sess[s].deferred)
  <2>1. PICK R : R = sess[s].rces \ Found(s, log[k].rceid)
    OBVIOUS
  <2>2. R \in SUBSET RCE /\ \E top \in Nat : \A q \in R : q.id <= top
    BY <1>0, <2>1, TopSubset
  <2>3. PICK top \in Nat : \A q \in R : q.id <= top
    BY <2>2
  <2>4. sess' = [sess EXCEPT ![s].rces = R]
    BY <1>1, <1>7, <1>s, <2>1
  <2>5. /\ sess'[s].st = sess[s].st /\ sess'[s].start = sess[s].start /\ sess'[s].afterBT = sess[s].afterBT
        /\ sess'[s].rces = R /\ sess'[s].deferred = sess[s].deferred
        /\ \A v \in Session : v # s => sess'[v] = sess[v]
    BY <1>0, <2>2, <2>3, <2>4, SetRces
  <2> QED
    BY <2>1, <2>5 DEF SessSame, Holds
<1>a. PICK a : /\ a = b /\ a \in BufType(p) /\ a.pg = buf[p].pg /\ a.modify = buf[p].modify
               /\ a.undoInfo = buf[p].undoInfo \ {log[k].rceid}
  <2>1. /\ b \in BufType(p) /\ b.pg = buf[p].pg /\ b.modify = Later(buf[p].modify, NoLgpos)
        /\ b.undoInfo = buf[p].undoInfo \ {g.rceid}
    <3>1. NoLgpos \in Nat
      BY DEF NoLgpos
    <3> QED
      BY <1>9, <1>p, <3>1, WithoutType
  <2>2. Later(buf[p].modify, NoLgpos) = buf[p].modify
    BY <1>9 DEF Later, NoLgpos
  <2> QED
    BY <1>7, <2>1, <2>2
<1>11. CASE RedoNeeded(g)
  <2>1. PICK q \in found : buf' = [buf EXCEPT ![z] = Changed(b, g.node, q.before, g.after, redo + 1, sess[g.s].start)]
    BY <1>1, <1>11
  <2>2. PICK c : c = Changed(a, g.node, q.before, g.after, k, log[k].trx)
    OBVIOUS
  <2>3. q.before \in Value
    <3>1. q \in RCE
      BY <1>0, <1>3, OfSess
    <3> QED
      BY <3>1 DEF RCE, Value
  <2>4. ChangedTo(c, p, a, g.after, k, log[k].trx) /\ WrittenTo(c, a, g.node, q.before)
    <3> HIDE DEF b, found, g
    <3> QED
      BY <1>2, <1>3, <1>6, <1>a, <1>p, <2>2, <2>3, ChangedType
  <2>5. buf' = [buf EXCEPT ![p] = c]
    BY <1>6, <1>a, <1>k, <1>p, <1>s, <2>1, <2>2
  <2>6. buf'[p] = c /\ \A q1 \in Page : q1 # p => buf'[q1] = buf[q1]
    BY <1>0, <1>8, <2>4, <2>5, BufSet DEF ChangedTo
  <2>7. buf[p].pg.dbtime < log[k].after
    <3>1. g.after > buf[p].pg.dbtime
      BY <1>11, <1>p DEF RedoNeeded
    <3> QED
      BY <1>2, <1>7, <1>9, <3>1
  <2>8. buf'[p].pg.dbtime = log[k].after /\ buf'[p].pg.img = Written(buf[p].pg.img, log[k].node, q.before)
    BY <1>7, <1>a, <2>4, <2>6 DEF ChangedTo, WrittenTo
  <2>9. buf[p].modify <= buf'[p].modify
    BY <1>9, <1>a, <2>4, <2>6 DEF ChangedTo, Later
  <2>10. buf'[p].undoInfo = buf[p].undoInfo \ {log[k].rceid}
    BY <1>a, <2>4, <2>6 DEF WrittenTo
  <2>11. q \in Found(s, log[k].rceid)
    BY <1>7
  <2>12. UndoRedone(s, p, k)
    <3> HIDE DEF g, z, found, b
    <3> QED
      BY <1>6, <1>7, <1>8, <1>10, <1>k, <2>6, <2>7, <2>8, <2>9, <2>10, <2>11 DEF UndoRedone
  <2> QED
    BY <2>12
<1>12. CASE ~RedoNeeded(g)
  <2>1. buf' = [buf EXCEPT ![p] = a]
    BY <1>1, <1>12, <1>a, <1>p
  <2>2. buf'[p] = a /\ \A q \in Page : q # p => buf'[q] = buf[q]
    BY <1>0, <1>8, <1>a, <2>1, BufSet
  <2>3. buf[p].modify <= buf'[p].modify
    BY <1>9, <1>a, <2>2
  <2>4. UndoRedone(s, p, k)
    <3> HIDE DEF g, z, found, b
    <3> QED
      BY <1>6, <1>7, <1>8, <1>10, <1>a, <1>k, <2>2, <2>3 DEF UndoRedone
  <2> QED
    BY <2>4
<1> QED
  BY <1>11, <1>12

\* No page owes the undo information of a change that is undone.
LEMMA UndoOwed ==
    ASSUME RecInv, LogOK, SessState, mode = "redo", NEW k \in Idx, k = redo + 1, log[k].t = "Undo", NEW p \in Page
    PROVE  log[k].rceid \notin buf[p].undoInfo
<1> SUFFICES ASSUME log[k].rceid \in buf[p].undoInfo PROVE FALSE
  OBVIOUS
<1>0. Versions /\ Owned /\ Horizon = redo /\ k \in Nat /\ redo \in Nat
  BY Numbers DEF SessState, LogTypes
<1>1. OwnedBy(sess, p, log[k].rceid) /\ ~InfoAt(log, redo, log[k].rceid)
  BY <1>0 DEF Owned
<1>2. PICK v \in Session : \E x \in sess[v].rces : x.id = log[k].rceid /\ NeedsUndoInfo(x)
  BY <1>1 DEF OwnedBy
<1>3. PICK x \in sess[v].rces : x.id = log[k].rceid /\ NeedsUndoInfo(x)
  BY <1>2
<1>4. log[k].oper = x.oper
  BY <1>0, <1>3, AboutVersion
<1>5. UndoOK(log, k)
  BY DEF LogOK, RecOK
<1>6. PICK i \in 1 .. (k - 1) : \E j \in (i + 1) .. (k - 1) : log[j].t = "UndoInfo" /\ log[j].rceid = log[k].rceid
  BY <1>3, <1>4, <1>5 DEF UndoOK, NeedsUndoInfo
<1>7. PICK j \in (i + 1) .. (k - 1) : log[j].t = "UndoInfo" /\ log[j].rceid = log[k].rceid
  BY <1>6
<1>8. j \in 1 .. redo
  BY <1>0, <1>6, <1>7
<1> QED
  BY <1>1, <1>7, <1>8 DEF InfoAt

\* RedoUndo.
LEMMA RedoUndoState == ASSUME RecInv, RecInv', StateInv, RedoUndo PROVE StateInv'
<1>0. /\ LogOK /\ PageState /\ SessState /\ TrxState /\ Versions /\ Deferred /\ Owing /\ Owned /\ EndInRedo /\ SessTypes /\ PageTypes
      /\ Len(log) \in Nat
  BY Numbers DEF StateInv, SessState
<1>s. PICK s \in Session : \E p \in Page : \E k \in Nat : UndoRedone(s, p, k)
  BY RedoUndoDoes
<1>p. PICK p \in Page : \E k \in Nat : UndoRedone(s, p, k)
  BY <1>s
<1>k. PICK k \in Nat : UndoRedone(s, p, k)
  BY <1>p
<1>1. /\ Replays /\ disk' = disk /\ k = redo + 1 /\ log[k].t = "Undo" /\ log[k].s = s /\ Open(s) /\ sess[s].start = log[k].trx
      /\ On(p, k) /\ (\A q \in Page : q # p => buf'[q] = buf[q])
      /\ buf'[p].undoInfo = buf[p].undoInfo \ {log[k].rceid} /\ buf[p].modify <= buf'[p].modify
      /\ Holds(s, sess[s].rces \ Found(s, log[k].rceid), sess[s].deferred)
  BY <1>k DEF UndoRedone
<1>2. /\ \A v \in Session : SessSame(v) /\ (v # s => sess'[v] = sess[v])
      /\ sess'[s].rces = sess[s].rces \ Found(s, log[k].rceid) /\ sess'[s].deferred = sess[s].deferred
      /\ sess'[s].st = sess[s].st /\ sess'[s].start = sess[s].start
  BY <1>1 DEF Holds, SessSame
<1>3. /\ Moves /\ Come = {k} /\ log' = log /\ Horizon = redo /\ Horizon' = k /\ k \in Idx /\ redo \in Nat /\ mode = "redo"
      /\ Agree(log, log, redo) /\ redo <= k
  BY <1>1, ReplaysSame
<1>4. \A q \in Page : log[k].rceid \notin buf[q].undoInfo
  BY <1>0, <1>1, <1>3, UndoOwed
<1>5. \A q \in Page : buf'[q].undoInfo = buf[q].undoInfo
  BY <1>1, <1>4
<1>6. RedoSess({})
  <2>1. \A v \in Session : ~Cuts(k, v)
    BY <1>1 DEF Cuts
  <2> QED
    BY <1>1, <1>2, <2>1 DEF RedoSess
<1>7. Owing'
  <2>1. ASSUME NEW v \in Session, NEW x \in sess'[v].rces, NeedsUndoInfo(x)
        PROVE  \/ x.id \in buf'[PageOf[x.node]].undoInfo
               \/ x \in sess[v].rces /\ x.id \notin buf[PageOf[x.node]].undoInfo
    <3>1. x \in sess[v].rces
      BY <1>2, <2>1
    <3>2. x \in RCE
      BY <1>0, <3>1, OfSess
    <3>3. PageOf[x.node] \in Page
      BY <3>2, Constants DEF RCE
    <3> QED
      BY <1>5, <3>1, <3>3
  <2> QED
    BY <1>0, <1>3, <2>1, OwingStays
<1>8. Owned'
  <2>1. ASSUME NEW q \in Page, NEW id \in buf'[q].undoInfo
        PROVE  /\ id \in buf[q].undoInfo
               /\ \A j \in Come : ~(log'[j].t = "UndoInfo" /\ log'[j].rceid = id)
               /\ \A v \in Session : \A x \in sess[v].rces : x.id = id => x \in sess'[v].rces
    <3>1. id \in buf[q].undoInfo /\ id # log[k].rceid
      BY <1>4, <1>5, <2>1
    <3>2. \A j \in Come : ~(log'[j].t = "UndoInfo" /\ log'[j].rceid = id)
      BY <1>1, <1>3
    <3>3. \A v \in Session : \A x \in sess[v].rces : x.id = id => x \in sess'[v].rces
      BY <1>2, <3>1 DEF Found
    <3> QED
      BY <3>1, <3>2, <3>3
  <2> QED
    BY <1>0, <1>3, <2>1, OwnedStays
<1>9. SessNow(s)
  <2>0. SessOK(log, redo, s, sess[s]) /\ DeferOK(log, redo, s, sess[s])
    BY <1>0, <1>3 DEF Versions, Deferred
  <2>1. ASSUME NEW x \in sess'[s].rces PROVE \E i \in 1 .. k : VersionAt(log, k, s, sess[s].start, x, i)
    <3>1. x \in sess[s].rces /\ x.id # log[k].rceid
      BY <1>2, <2>1 DEF Found
    <3>2. PICK i \in 1 .. redo : VersionAt(log, redo, s, sess[s].start, x, i)
      BY <2>0, <3>1 DEF SessOK
    <3>3. \A j \in (redo + 1) .. k : ~(log[j].t = "Undo" /\ log[j].rceid = x.id)
      BY <1>1, <1>3, <3>1
    <3>4. VersionAt(log, k, s, sess[s].start, x, i)
      BY <1>3, <3>2, <3>3, VersionKept
    <3>5. i \in 1 .. k
      BY <1>1, <1>3, <3>2
    <3> QED
      BY <3>4, <3>5
  <2>2. ASSUME NEW i \in 1 .. k, log[i].t = "Node", log[i].trx = sess[s].start, Stands(log, i, k)
        PROVE  (\E x \in sess'[s].rces : x.id = log[i].rceid) \/ log[i].rceid \in sess[s].deferred
    <3>1. i \in 1 .. redo /\ i < k /\ k \in 1 .. k
      <4>1. i # k
        BY <1>1, <2>2
      <4> QED
        BY <1>1, <1>3, <4>1
    <3>2. Stands(log, i, redo)
      BY <1>3, <2>2, <3>1, StoodBefore
    <3>3. IsOpen(sess[s])
      BY <1>1 DEF Open, IsOpen
    <3>4. (\E x \in sess[s].rces : x.id = log[i].rceid) \/ log[i].rceid \in sess[s].deferred
      BY <2>0, <2>2, <3>1, <3>2, <3>3 DEF SessOK
    <3>5. log[i].rceid # log[k].rceid
      BY <1>1, <2>2, <3>1 DEF Stands
    <3> QED
      BY <1>2, <3>4, <3>5 DEF Found
  <2>3. SessOK(log, k, s, sess'[s])
    <3>1. sess'[s].st # "idle"
      BY <1>1, <1>2 DEF Open
    <3> QED
      BY <1>2, <2>1, <2>2, <3>1 DEF SessOK
  <2>4. \A id \in sess[s].deferred : Waits(log, k, s, sess[s].start, id)
    BY <1>0, <1>1, <1>3, <2>0, WaitsStill
  <2>5. DeferOK(log, k, s, sess'[s])
    <3>1. IsOpen(sess'[s])
      BY <1>1, <1>2 DEF Open, IsOpen
    <3> QED
      BY <1>2, <2>4, <3>1, DeferFrom
  <2> QED
    BY <1>1, <2>3, <2>5 DEF SessNow
<1>10. ASSUME NEW v \in Session PROVE SessNow(v)
  <2>1. CASE v = s
    BY <1>9, <2>1
  <2>2. CASE v # s
    BY <1>0, <1>1, <1>2, <2>2, ReplaysElse
  <2> QED
    BY <2>1, <2>2
<1>11. EndInRedo'
  <2>1. {} \in SUBSET Session
    OBVIOUS
  <2> QED
    BY <1>0, <1>1, <1>6, <2>1, ReplaysEnds
<1>12. SessState'
  BY <1>1, <1>7, <1>8, <1>10, <1>11, ReplaysSess
<1>13. LogOK' /\ TrxState'
  <2>1. \A v \in Session : Open(v) => Open(v)' /\ sess'[v].start = sess[v].start
    BY <1>2 DEF SessSame, Open
  <2> QED
    BY <1>0, <1>1, <2>1, ReplaysTrx
<1>14. PageState'
  <2>1. CASE buf'[p].pg = buf[p].pg
    <3>1. \A q \in Page : buf'[q].pg = buf[q].pg /\ buf[q].modify <= buf'[q].modify
      <4>1. \A q \in Page : buf[q].modify \in Nat
        BY <1>0, OfPage
      <4> QED
        BY <1>1, <2>1, <4>1
    <3> QED
      BY <1>0, <1>1, <1>5, <3>1, ReplaysPages
  <2>2. ASSUME NEW q \in Found(s, log[k].rceid), buf[p].pg.dbtime < log[k].after, buf'[p].pg.dbtime = log[k].after,
               buf'[p].pg.img = Written(buf[p].pg.img, log[k].node, q.before)
        PROVE  PageState'
    <3>1. q \in sess[s].rces /\ q.id = log[k].rceid
      BY DEF Found
    <3>2. q.before = log[k].val
      BY <1>0, <1>1, <1>3, <3>1, AboutVersion
    <3>3. ~Owes(log, p, k)
      BY <1>1 DEF Owes
    <3> QED
      BY <1>0, <1>1, <1>5, <2>2, <3>2, <3>3, ReplaysChange
  <2> QED
    BY <1>k, <2>1, <2>2 DEF UndoRedone
<1> QED
  BY <1>12, <1>13, <1>14 DEF StateInv

\* Record k brings undo information: version r is made unless it is there, and its page owes it no more.
InfoRedone(s, p, k, r) ==
    /\ Replays /\ disk' = disk /\ k = redo + 1
    /\ log[k].t = "UndoInfo" /\ log[k].s = s /\ p = PageOf[log[k].node]
    /\ r.id = log[k].rceid /\ r.node = log[k].node /\ r.oper = log[k].oper /\ r.before = log[k].val
    /\ \/ ~Open(s) /\ sess' = sess /\ buf' = buf
       \/ /\ Open(s)
          /\ Holds(s, IF Found(s, r.id) # {} THEN sess[s].rces ELSE sess[s].rces \cup {r}, sess[s].deferred \ {r.id})
          /\ \A q \in Page : q # p => buf'[q] = buf[q]
          /\ buf'[p].pg = buf[p].pg /\ buf'[p].undoInfo = buf[p].undoInfo \ {r.id} /\ buf[p].modify <= buf'[p].modify
          /\ r.id \in buf[p].undoInfo => k <= buf'[p].modify

\* The sessions after the undo information came.
LEMMA HoldsInfo ==
    ASSUME SessTypes, NEW s \in Session, NEW c, NEW kn \in BOOLEAN, NEW id,
           sess' = [sess EXCEPT ![s].deferred = @ \ {id}, ![s].rces = IF kn THEN @ ELSE @ \cup {c}]
    PROVE  Holds(s, IF kn THEN sess[s].rces ELSE sess[s].rces \cup {c}, sess[s].deferred \ {id})
<1>1. /\ sess[s] = [st |-> sess[s].st, start |-> sess[s].start, commit |-> sess[s].commit,
                    rces |-> sess[s].rces, afterBT |-> sess[s].afterBT, deferred |-> sess[s].deferred]
      /\ sess \in [Session -> SessType]
  BY OfSess DEF SessTypes
<1>2. PICK D : D = sess[s].deferred \ {id}
  OBVIOUS
<1>3. PICK R : R = IF kn THEN sess[s].rces ELSE sess[s].rces \cup {c}
  OBVIOUS
<1>4. PICK u : u = [st |-> sess[s].st, start |-> sess[s].start, commit |-> sess[s].commit, rces |-> R,
                    afterBT |-> sess[s].afterBT, deferred |-> D]
  OBVIOUS
<1>5. PICK s1 : s1 = [sess EXCEPT ![s].deferred = @ \ {id}]
  OBVIOUS
<1>6. PICK u1 : u1 = [sess[s] EXCEPT !.deferred = D]
  OBVIOUS
<1>7. u1 = [st |-> sess[s].st, start |-> sess[s].start, commit |-> sess[s].commit,
            rces |-> sess[s].rces, afterBT |-> sess[s].afterBT, deferred |-> D]
  BY <1>1, <1>6
<1>8. s1 = [sess EXCEPT ![s] = u1]
  BY <1>2, <1>5, <1>6
<1>9. s1[s] = u1
  BY <1>1, <1>8
<1>10. sess' = [s1 EXCEPT ![s].rces = IF kn THEN @ ELSE @ \cup {c}]
  BY <1>5
<1>11. u1.rces = sess[s].rces
  BY <1>7
<1>12. sess' = [s1 EXCEPT ![s].rces = R]
  <2>1. (IF kn THEN s1[s].rces ELSE s1[s].rces \cup {c}) = R
    BY <1>3, <1>9, <1>11
  <2> QED
    BY <1>10, <2>1
<1>13. [u1 EXCEPT !.rces = R] = u
  BY <1>4, <1>7
<1>14. sess' = [s1 EXCEPT ![s] = u]
  BY <1>9, <1>12, <1>13
<1>15. sess' = [sess EXCEPT ![s] = u]
  BY <1>1, <1>8, <1>14
<1>16. sess'[s] = u /\ \A v \in Session : v # s => sess'[v] = sess[v]
  BY <1>1, <1>15
<1>17. u.st = sess[s].st /\ u.start = sess[s].start /\ u.afterBT = sess[s].afterBT /\ u.rces = R /\ u.deferred = D
  BY <1>4
<1>18. Holds(s, R, D)
  BY <1>16, <1>17 DEF SessSame, Holds
<1> QED
  BY <1>2, <1>3, <1>18

\* RedoUndoInfo does that.
LEMMA RedoUndoInfoDoes ==
    ASSUME RecInv, RedoUndoInfo PROVE \E s \in Session : \E p \in Page : \E k \in Nat : \E r : InfoRedone(s, p, k, r)
<1>0. Types /\ LogTypes /\ PageTypes /\ SessTypes
  BY DEF RecInv, Types
<1> DEFINE g == NextRec
           known == \E q \in sess[g.s].rces : q.id = g.rceid
           rce == [id |-> g.rceid, node |-> g.node, oper |-> g.oper, before |-> g.val]
<1>1. /\ ToRedo({"UndoInfo"}) /\ redo' = redo + 1
      /\ UNCHANGED <<mode, log, durable, waypoint, disk, dbtime, chk, ckpt, acked, kept>>
      /\ IF ~Open(g.s) THEN UNCHANGED <<sess, buf>>
         ELSE /\ sess' = [sess EXCEPT ![g.s].deferred = @ \ {g.rceid}, ![g.s].rces = IF known THEN @ ELSE @ \cup {rce}]
              /\ buf' = IF g.rceid \in buf[PageOf[g.node]].undoInfo
                          THEN [buf EXCEPT ![PageOf[g.node]] = WithoutUndoInfo(@, g.rceid, redo + 1)]
                          ELSE buf
  BY DEF RedoUndoInfo
<1>2. /\ redo \in Nat /\ g = log[redo + 1] /\ g.t \in {"UndoInfo"}
      /\ g.t \in TrxType => g.s \in Session
      /\ g.t \in NodeType => g.node \in Node /\ PageOf[g.node] \in Page /\ g.oper \in Oper
  BY <1>1, RedoRec
<1>3. g.s \in Session /\ g.node \in Node /\ PageOf[g.node] \in Page
  BY <1>2 DEF TrxType, NodeType
<1>s. PICK s \in Session : s = g.s
  BY <1>3
<1>p. PICK p \in Page : p = PageOf[g.node]
  BY <1>3
<1>k. PICK k \in Nat : k = redo + 1
  BY <1>2
<1>r. PICK r : r = rce
  OBVIOUS
<1>4. /\ log[k].t = "UndoInfo" /\ log[k].s = s /\ p = PageOf[log[k].node]
      /\ r.id = log[k].rceid /\ r.node = log[k].node /\ r.oper = log[k].oper /\ r.before = log[k].val
      /\ r.id = g.rceid
  BY <1>2, <1>k, <1>p, <1>r, <1>s
<1>5. Replays /\ disk' = disk
  BY <1>1, RedoTakes DEF Replays
<1>6. CASE ~Open(s)
  <2>1. sess' = sess /\ buf' = buf
    BY <1>1, <1>6, <1>s
  <2>2. InfoRedone(s, p, k, r)
    <3> HIDE DEF g, known, rce
    <3> QED
      BY <1>4, <1>5, <1>6, <1>k, <2>1 DEF InfoRedone
  <2> QED
    BY <2>2
<1>7. CASE Open(s)
  <2>0. buf[p] \in BufType(p) /\ buf[p].modify \in Nat
    BY <1>0, OfPage
  <2>1. PICK kn \in BOOLEAN : kn = known
    OBVIOUS
  <2>2. kn <=> Found(s, r.id) # {}
    BY <1>4, <1>s, <2>1 DEF Found
  <2>3. sess' = [sess EXCEPT ![s].deferred = @ \ {r.id}, ![s].rces = IF kn THEN @ ELSE @ \cup {r}]
    BY <1>1, <1>4, <1>7, <1>r, <1>s, <2>1
  <2>4. Holds(s, IF Found(s, r.id) # {} THEN sess[s].rces ELSE sess[s].rces \cup {r}, sess[s].deferred \ {r.id})
    <3> HIDE DEF g, known, rce
    <3>1. Holds(s, IF kn THEN sess[s].rces ELSE sess[s].rces \cup {r}, sess[s].deferred \ {r.id})
      BY <1>0, <2>3, HoldsInfo
    <3> QED
      BY <2>2, <3>1
  <2>5. /\ \A q \in Page : q # p => buf'[q] = buf[q]
        /\ buf'[p].pg = buf[p].pg /\ buf'[p].undoInfo = buf[p].undoInfo \ {r.id} /\ buf[p].modify <= buf'[p].modify
        /\ r.id \in buf[p].undoInfo => k <= buf'[p].modify
    <3>1. CASE r.id \in buf[p].undoInfo
      <4>1. PICK b : b = WithoutUndoInfo(buf[p], r.id, k)
        OBVIOUS
      <4>2. b \in BufType(p) /\ b.pg = buf[p].pg /\ b.modify = Later(buf[p].modify, k) /\ b.undoInfo = buf[p].undoInfo \ {r.id}
        BY <2>0, <4>1, WithoutType
      <4>3. buf' = [buf EXCEPT ![p] = b]
        BY <1>1, <1>4, <1>7, <1>k, <1>p, <1>s, <3>1, <4>1
      <4>4. buf'[p] = b /\ \A q \in Page : q # p => buf'[q] = buf[q]
        BY <1>0, <1>5, <4>2, <4>3, BufSet
      <4> QED
        BY <2>0, <4>2, <4>4 DEF Later
    <3>2. CASE r.id \notin buf[p].undoInfo
      <4>1. buf' = buf
        BY <1>1, <1>4, <1>7, <1>p, <1>s, <3>2, SMTT(30)
      <4> QED
        BY <2>0, <3>2, <4>1
    <3> QED
      BY <3>1, <3>2
  <2>6. InfoRedone(s, p, k, r)
    <3> HIDE DEF g, known, rce
    <3> QED
      BY <1>4, <1>5, <1>7, <1>k, <2>4, <2>5 DEF InfoRedone
  <2> QED
    BY <2>6
<1> QED
  BY <1>6, <1>7

\* RedoUndoInfo, for the session.
LEMMA InfoSess ==
    ASSUME RecInv, RecInv', LogOK, SessState, NEW s \in Session, NEW p \in Page, NEW k \in Nat, NEW r,
           InfoRedone(s, p, k, r), Open(s)
    PROVE  SessNow(s)
<1>0. Versions /\ Deferred /\ Len(log) \in Nat
  BY Numbers DEF SessState
<1>1. /\ Replays /\ k = redo + 1 /\ log[k].t = "UndoInfo" /\ log[k].s = s
      /\ r.id = log[k].rceid /\ r.node = log[k].node /\ r.oper = log[k].oper /\ r.before = log[k].val
      /\ Holds(s, IF Found(s, r.id) # {} THEN sess[s].rces ELSE sess[s].rces \cup {r}, sess[s].deferred \ {r.id})
  BY DEF InfoRedone
<1>2. /\ k \in Idx /\ redo \in Nat /\ mode = "redo" /\ Horizon = redo /\ Agree(log, log, redo) /\ redo <= k
  BY <1>1, ReplaysSame
<1>3. /\ sess'[s].deferred = sess[s].deferred \ {r.id} /\ sess'[s].st = sess[s].st /\ sess'[s].start = sess[s].start
      /\ sess[s].rces \subseteq sess'[s].rces /\ sess'[s].rces \subseteq sess[s].rces \cup {r}
      /\ \E x \in sess'[s].rces : x.id = r.id
  BY <1>1 DEF Holds, SessSame, Found
<1>4. sess[s].start = log[k].trx
  BY <1>0, <1>1, <1>2, NextOfOpen
<1>5. SessOK(log, redo, s, sess[s]) /\ DeferOK(log, redo, s, sess[s])
  BY <1>0, <1>2 DEF Versions, Deferred
<1>6. \E i \in 1 .. k : VersionAt(log, k, s, sess[s].start, r, i)
  <2>1. PICK i \in 1 .. (k - 1) : About(log, i, k)
    BY <1>1, <1>2 DEF LogOK, RecOK, InfoOK
  <2>2. Stands(log, i, k)
    <3>1. Stands(log, i, k - 1)
      BY <2>1 DEF About
    <3> SUFFICES ASSUME NEW j \in 1 .. k, i < j PROVE ~(log[j].t = "Undo" /\ log[j].rceid = log[i].rceid)
      BY DEF Stands
    <3>2. CASE j = k
      BY <1>1, <3>2
    <3>3. CASE j # k
      <4>1. j \in 1 .. (k - 1)
        BY <3>3
      <4> QED
        BY <3>1, <4>1 DEF Stands
    <3> QED
      BY <3>2, <3>3
  <2>3. VersionAt(log, k, s, sess[s].start, r, i)
    BY <1>1, <1>4, <2>1, <2>2 DEF VersionAt, About
  <2>4. i \in 1 .. k
    BY <2>1
  <2> QED
    BY <2>3, <2>4
<1>7. ASSUME NEW x \in sess'[s].rces PROVE \E i \in 1 .. k : VersionAt(log, k, s, sess[s].start, x, i)
  <2>1. CASE x \in sess[s].rces
    <3>1. PICK i \in 1 .. redo : VersionAt(log, redo, s, sess[s].start, x, i)
      BY <1>5, <2>1 DEF SessOK
    <3>2. \A j \in (redo + 1) .. k : ~(log[j].t = "Undo" /\ log[j].rceid = x.id)
      BY <1>1, <1>2
    <3>3. VersionAt(log, k, s, sess[s].start, x, i)
      BY <1>2, <3>1, <3>2, VersionKept
    <3>4. i \in 1 .. k
      BY <1>1, <1>2, <3>1
    <3> QED
      BY <3>3, <3>4
  <2>2. CASE x \notin sess[s].rces
    <3>1. x = r
      BY <1>3, <1>7, <2>2
    <3> QED
      BY <1>6, <3>1
  <2> QED
    BY <2>1, <2>2
<1>8. ASSUME NEW i \in 1 .. k, log[i].t = "Node", log[i].trx = sess[s].start, Stands(log, i, k)
      PROVE  (\E x \in sess'[s].rces : x.id = log[i].rceid) \/ log[i].rceid \in sess'[s].deferred
  <2>1. i \in 1 .. redo
    <3>1. i # k
      BY <1>1, <1>8
    <3> QED
      BY <1>1, <1>2, <3>1
  <2>2. Stands(log, i, redo)
    BY <1>2, <1>8, <2>1, StoodBefore
  <2>3. IsOpen(sess[s])
    BY DEF Open, IsOpen
  <2>4. (\E x \in sess[s].rces : x.id = log[i].rceid) \/ log[i].rceid \in sess[s].deferred
    BY <1>5, <1>8, <2>1, <2>2, <2>3 DEF SessOK
  <2> QED
    BY <1>3, <2>4
<1>9. SessOK(log, k, s, sess'[s])
  <2>1. sess'[s].st # "idle"
    BY <1>3 DEF Open
  <2> QED
    BY <1>3, <1>7, <1>8, <2>1 DEF SessOK
<1>10. ASSUME NEW id \in sess'[s].deferred PROVE Waits(log, k, s, sess[s].start, id)
  <2>1. id \in sess[s].deferred /\ id # log[k].rceid
    BY <1>1, <1>3, <1>10
  <2> QED
    BY <1>0, <1>1, <1>2, <1>5, <2>1, WaitsStill
<1>11. DeferOK(log, k, s, sess'[s])
  <2>1. IsOpen(sess'[s])
    BY <1>3 DEF Open, IsOpen
  <2> QED
    BY <1>3, <1>10, <2>1, DeferFrom
<1> QED
  BY <1>1, <1>9, <1>11 DEF SessNow

\* RedoUndoInfo of a session with an open transaction: what the pages owe.
LEMMA InfoOwes ==
    ASSUME RecInv, RecInv', StateInv, NEW s \in Session, NEW p \in Page, NEW k \in Nat, NEW r, InfoRedone(s, p, k, r), Open(s)
    PROVE  Owing' /\ Owned' /\ PageState'
<1>0. LogOK /\ PageState /\ SessState /\ Versions /\ Owing /\ Owned /\ SessTypes /\ PageTypes /\ Len(log) \in Nat
  BY Numbers, SMTT(30) DEF StateInv, SessState
<1>1. /\ Replays /\ disk' = disk /\ k = redo + 1 /\ log[k].t = "UndoInfo" /\ log[k].s = s /\ p = PageOf[log[k].node]
      /\ r.id = log[k].rceid /\ r.node = log[k].node
      /\ Holds(s, IF Found(s, r.id) # {} THEN sess[s].rces ELSE sess[s].rces \cup {r}, sess[s].deferred \ {r.id})
      /\ \A q \in Page : q # p => buf'[q] = buf[q]
      /\ buf'[p].pg = buf[p].pg /\ buf'[p].undoInfo = buf[p].undoInfo \ {r.id} /\ buf[p].modify <= buf'[p].modify
      /\ r.id \in buf[p].undoInfo => k <= buf'[p].modify
  BY ZenonT(40) DEF InfoRedone
<1>2. /\ k \in Idx /\ redo \in Nat /\ Moves /\ Come = {k} /\ log' = log /\ Horizon' = k /\ k \in 1 .. k
  BY <1>1, ReplaysSame DEF Idx
<1>3. \A v \in Session : sess[v].rces \subseteq sess'[v].rces /\ sess'[v].rces \subseteq sess[v].rces \cup {r}
  BY <1>1 DEF Holds, SessSame, Found
<1>4. InfoAt(log, k, r.id)
  BY <1>1, <1>2 DEF InfoAt
<1>5. Owing'
  <2>1. ASSUME NEW v \in Session, NEW x \in sess'[v].rces, NeedsUndoInfo(x)
        PROVE  \/ x.id \in buf'[PageOf[x.node]].undoInfo \/ InfoAt(log', Horizon', x.id)
               \/ x \in sess[v].rces /\ x.id \notin buf[PageOf[x.node]].undoInfo
    <3>1. CASE x.id = r.id
      BY <1>2, <1>4, <3>1
    <3>2. CASE x.id # r.id
      <4>1. x \in sess[v].rces
        BY <1>3, <2>1, <3>2
      <4>2. x \in RCE
        BY <1>0, <4>1, OfSess
      <4>3. PageOf[x.node] \in Page
        BY <4>2, Constants DEF RCE
      <4>4. x.id \in buf[PageOf[x.node]].undoInfo => x.id \in buf'[PageOf[x.node]].undoInfo
        BY <1>1, <3>2, <4>3
      <4> QED
        BY <4>1, <4>4
    <3> QED
      BY <3>1, <3>2
  <2> QED
    BY <1>0, <1>2, <2>1, OwingStays
<1>6. Owned'
  <2>1. ASSUME NEW q \in Page, NEW id \in buf'[q].undoInfo
        PROVE  /\ id \in buf[q].undoInfo
               /\ \A j \in Come : ~(log'[j].t = "UndoInfo" /\ log'[j].rceid = id)
               /\ \A v \in Session : \A x \in sess[v].rces : x.id = id => x \in sess'[v].rces
    <3>1. id \in buf[q].undoInfo
      BY <1>1, <2>1, SMTT(30)
    <3>2. id # r.id
      <4>1. CASE q = p
        BY <1>1, <2>1, <4>1
      <4>2. CASE q # p
        <5> SUFFICES ASSUME id = r.id PROVE FALSE
          OBVIOUS
        <5>1. OwnedBy(sess, q, id)
          BY <1>0, <3>1 DEF Owned
        <5>2. PICK v \in Session : \E x \in sess[v].rces : x.id = id /\ PageOf[x.node] = q
          BY <5>1 DEF OwnedBy
        <5>3. PICK x \in sess[v].rces : x.id = id /\ PageOf[x.node] = q
          BY <5>2, SMTT(30)
        <5>4. log[k].node = x.node
          BY <1>0, <1>1, <1>2, <5>3, AboutVersion, SMTT(30)
        <5> QED
          BY <1>1, <4>2, <5>3, <5>4
      <4> QED
        BY <4>1, <4>2
    <3>3. \A j \in Come : ~(log'[j].t = "UndoInfo" /\ log'[j].rceid = id)
      BY <1>1, <1>2, <3>2, SMTT(30)
    <3> QED
      BY <1>3, <3>1, <3>3
  <2> QED
    BY <1>0, <1>2, <2>1, OwnedStays
<1>7. PageState'
  <2>1. ASSUME NEW q \in Page, NEW i \in Idx, Owes(log, q, i), log[i].rceid \in buf[q].undoInfo \ buf'[q].undoInfo
        PROVE  \E j \in Held(q)' : Covers(log, j, i)
    <3>1. q = p /\ log[i].rceid = r.id /\ r.id \in buf[p].undoInfo /\ log[i].t = "Node"
      BY <1>1, <2>1, SMTT(30) DEF Owes
    <3>2. PICK j \in 1 .. (k - 1) : About(log, j, k)
      BY <1>0, <1>1, <1>2, SMTT(30) DEF LogOK, RecOK, InfoOK
    <3>3. log[j].t = "Node" /\ log[j].rceid = log[i].rceid /\ log[j].trx = log[k].trx
      BY <1>1, <3>1, <3>2 DEF About
    <3>4. j \in 1 .. Len(log) /\ i \in 1 .. Len(log) /\ j < k
      BY <1>0, <1>2, <3>2 DEF Idx
    <3>5. i = j
      BY <1>0, <3>1, <3>3, <3>4, Unique, SMTT(30) DEF UniqueIds
    <3>6. Covers(log, k, i)
      BY <1>1, <3>1, <3>3, <3>4, <3>5 DEF Covers
    <3>7. buf'[p].modify \in Nat
      <4>1. PageTypes'
        BY NumbersNext, SMTT(30)
      <4> QED
        BY <4>1 DEF PageTypes, BufType
    <3>8. k \in 1 .. buf'[p].modify
      BY <1>1, <1>2, <3>1, <3>7
    <3> QED
      BY <3>1, <3>6, <3>8, SMTT(30) DEF Held
  <2>2. \A q \in Page : buf'[q].pg = buf[q].pg /\ buf[q].modify <= buf'[q].modify
    <3>1. \A q \in Page : buf[q].modify \in Nat
      BY <1>0, OfPage
    <3> QED
      BY <1>1, <3>1
  <2> QED
    BY <1>0, <1>1, <2>1, <2>2, ReplaysPages, ZenonT(40)
<1> QED
  BY <1>5, <1>6, <1>7

\* RedoUndoInfo.
LEMMA RedoUndoInfoState == ASSUME RecInv, RecInv', StateInv, RedoUndoInfo PROVE StateInv'
<1>0. LogOK /\ PageState /\ SessState /\ TrxState /\ Versions /\ Owned /\ EndInRedo /\ PageTypes
  BY Numbers DEF StateInv, SessState
<1>s. PICK s \in Session : \E p \in Page : \E k \in Nat : \E r : InfoRedone(s, p, k, r)
  BY RedoUndoInfoDoes
<1>p. PICK p \in Page : \E k \in Nat : \E r : InfoRedone(s, p, k, r)
  BY <1>s
<1>k. PICK k \in Nat : \E r : InfoRedone(s, p, k, r)
  BY <1>p
<1>r. PICK r : InfoRedone(s, p, k, r)
  BY <1>k
<1>1. /\ Replays /\ disk' = disk /\ k = redo + 1 /\ log[k].t = "UndoInfo" /\ log[k].s = s
      /\ ~Open(s) => sess' = sess /\ buf' = buf
      /\ \A v \in Session : SessSame(v) /\ (v # s => sess'[v] = sess[v])
  BY <1>r DEF InfoRedone, Holds, SessSame
<1>2. k \in Idx /\ mode = "redo"
  BY <1>1, ReplaysSame
<1>3. RedoSess({})
  <2>1. \A v \in Session : ~Cuts(k, v)
    BY <1>1 DEF Cuts
  <2> QED
    BY <1>1, <2>1 DEF RedoSess
<1>4. ~Open(s) => sess[s].st = "idle"
  BY <1>2, RedoIdle
<1>5. Owing' /\ Owned' /\ PageState'
  <2>1. CASE Open(s)
    BY <1>r, <2>1, InfoOwes
  <2>2. CASE ~Open(s)
    <3>1. ASSUME NEW q \in Page, log[k].rceid \in buf[q].undoInfo PROVE FALSE
      <4>1. OwnedBy(sess, q, log[k].rceid)
        BY <1>0, <3>1 DEF Owned
      <4>2. PICK v \in Session : \E x \in sess[v].rces : x.id = log[k].rceid
        BY <4>1 DEF OwnedBy
      <4>3. PICK x \in sess[v].rces : x.id = log[k].rceid
        BY <4>2
      <4>4. log[k].s = v /\ sess[v].st # "idle"
        BY <1>0, <1>1, <1>2, <4>3, AboutVersion
      <4> QED
        BY <1>1, <1>4, <2>2, <4>4
    <3>2. Owing' /\ Owned'
      BY <1>0, <1>1, <2>2, <3>1, ReplaysOwes
    <3>3. \A q \in Page : buf[q].modify \in Nat
      BY <1>0, OfPage
    <3>4. PageState'
      BY <1>0, <1>1, <2>2, <3>3, ReplaysPages
    <3> QED
      BY <3>2, <3>4
  <2> QED
    BY <2>1, <2>2
<1>6. ASSUME NEW v \in Session PROVE SessNow(v)
  <2>1. CASE v = s /\ Open(s)
    BY <1>0, <1>r, <2>1, InfoSess
  <2>2. CASE v # s
    BY <1>0, <1>1, <2>2, ReplaysElse
  <2>3. CASE v = s /\ ~Open(s)
    BY <1>0, <1>1, <1>4, <2>3, ReplaysElse
  <2> QED
    BY <2>1, <2>2, <2>3
<1>7. EndInRedo'
  <2>1. {} \in SUBSET Session
    OBVIOUS
  <2> QED
    BY <1>0, <1>1, <1>3, <2>1, ReplaysEnds
<1>8. SessState'
  BY <1>1, <1>5, <1>6, <1>7, ReplaysSess
<1>9. LogOK' /\ TrxState'
  <2>1. \A v \in Session : Open(v) => Open(v)' /\ sess'[v].start = sess[v].start
    BY <1>1 DEF SessSame, Open
  <2> QED
    BY <1>0, <1>1, <2>1, ReplaysTrx
<1> QED
  BY <1>5, <1>8, <1>9 DEF StateInv

-----------------------------------------------------------------------------
(* Crash *)

\* The commits that a crash takes from the log, of transactions that redo passes by.
Lost(k) == {j \in (k + 1) .. Len(log) : log[j].t = "Commit0" /\ log[j].trx < chk.lgpos}
CrashedTo(k) == CrashTo(k) /\ kept' = kept \cup {log[j].trx : j \in Lost(k)}

\* Crash does that.
LEMMA CrashLoses == ASSUME RecInv, Crash PROVE \E k : CrashedTo(k)
<1>1. PICK k : CrashTo(k)
  BY CrashDoes
<1>2. PICK j : /\ durable' = j
               /\ kept' = kept \cup {log[i].trx : i \in {h \in j + 1 .. Len(log) : log[h].t = "Commit0" /\ log[h].trx < chk.lgpos}}
  BY DEF Crash
<1>3. j = k
  BY <1>1, <1>2 DEF CrashTo
<1>4. CrashedTo(k)
  BY <1>1, <1>2, <1>3 DEF CrashedTo, Lost
<1> QED
  BY <1>4

\* What is left of the log is as it was.
LEMMA CrashPrefix ==
    ASSUME RecInv, NEW k, CrashTo(k)
    PROVE  /\ k \in Nat /\ Len(log) \in Nat /\ k <= Len(log) /\ Len(log') = k /\ Agree(log, log', k)
           /\ chk.lgpos \in Nat /\ 1 <= chk.lgpos /\ chk.lgpos <= k + 1
           /\ \A i \in 1 .. k : i \in Idx /\ i \in Idx'
           /\ \A i \in Idx : i <= k => i \in 1 .. k
<1>1. k \in Nat /\ Len(log) \in Nat /\ durable \in Nat /\ durable <= Len(log) /\ chk.lgpos \in Nat /\ 1 <= chk.lgpos
  BY Numbers DEF CrashTo, LogTypes, Bounds
<1>2. k <= Len(log) /\ Len(log') = k /\ chk.lgpos <= k + 1
  BY <1>1 DEF CrashTo
<1>3. \A i \in 1 .. k : i \in Idx /\ i \in Idx' /\ i <= k
  BY <1>1, <1>2 DEF Idx
<1>4. \A i \in Idx : i <= k => i \in 1 .. k
  BY <1>1 DEF Idx
<1>5. \A i \in 1 .. k : log[i] = log'[i]
  BY <1>3 DEF CrashTo
<1> QED
  BY <1>1, <1>2, <1>3, <1>4, <1>5 DEF Agree

\* Every change that a page has on disk is in the part of the log that survives.
LEMMA DiskSurvives ==
    ASSUME RecInv, NEW p \in Page, NEW i \in Idx, On(p, i), log[i].after <= disk[p].dbtime
    PROVE  Survives(i)
<1>0. LogTypes /\ PageTypes /\ Order /\ WriteAhead /\ Len(log) \in Nat
  BY Numbers DEF RecInv, LogInv, PageInv
<1>1. log[i].after \in Nat /\ log[i].after > 0 /\ i \in Nat
  BY <1>0, OfLog DEF On, PageRec, Idx
<1>2. disk[p].dbtime \in Nat
  BY <1>0, OfPage
<1>3. PICK w \in Idx : Survives(w) /\ ChangedBy(p, disk[p].dbtime, w)
  BY <1>0, <1>1, <1>2 DEF WriteAhead, Idx
<1>4. PageRec(w) /\ log[w].after = disk[p].dbtime /\ w \in Nat
  BY <1>3 DEF ChangedBy, PageRec, Idx
<1>5. i <= w
  BY <1>0, <1>1, <1>2, <1>4 DEF Order, On
<1>6. durable \in Nat /\ waypoint \in Nat
  BY <1>0 DEF LogTypes
<1> QED
  BY <1>1, <1>3, <1>4, <1>5, <1>6 DEF Survives

\* Crash and the log.
LEMMA CrashedLog ==
    ASSUME RecInv, LogOK, NEW k, CrashedTo(k)
    PROVE  LogOK'
<1>1. k \in Nat /\ Len(log') = k /\ Agree(log, log', k) /\ \A i \in 1 .. k : i \in Idx
  BY CrashPrefix DEF CrashedTo
<1>2. kept \subseteq kept'
  BY DEF CrashedTo
<1>3. ASSUME NEW i \in 1 .. k PROVE RecOK(log', kept', i) /\ NetOK(log', i)
  <2>1. i \in Nat \ {0} /\ i \in Nat /\ i \in 0 .. k
    BY <1>1
  <2>2. Agree(log, log', i)
    BY <1>1, <2>1, AgreeLess
  <2>3. RecOK(log, kept, i) /\ NetOK(log, i)
    BY <1>1 DEF LogOK
  <2>4. RecOK(log', kept', i)
    BY <1>2, <2>1, <2>2, <2>3, RecSame
  <2>5. NetOK(log', i)
    BY <2>1, <2>2, <2>3, NetSame
  <2> QED
    BY <2>4, <2>5
<1>4. Idx' = 1 .. k
  BY <1>1 DEF Idx
<1> QED
  BY <1>3, <1>4 DEF LogOK

\* Crash and the pages: redo starts from the pages on disk, whose changes are
\* all in the log that is left, with their undo information.
LEMMA CrashedPages ==
    ASSUME RecInv, PageState, NEW k, CrashedTo(k)
    PROVE  PageState'
<1>0. CrashTo(k) /\ LogTypes /\ PageTypes
  BY Numbers DEF CrashedTo
<1>1. /\ k \in Nat /\ Len(log) \in Nat /\ k <= Len(log) /\ Len(log') = k
      /\ \A i \in 1 .. k : i \in Idx /\ i \in Idx'
      /\ \A i \in Idx : i <= k => i \in 1 .. k
  BY <1>0, CrashPrefix
<1>2. /\ \A i \in Idx' : i \in Idx /\ log'[i] = log[i] /\ i \in Nat /\ i <= k
      /\ \A i \in Idx : Survives(i) => i \in Idx' /\ log'[i] = log[i] /\ Survives(i)'
  BY <1>0, CrashLog
<1>3. ASSUME NEW p \in Page
      PROVE  disk'[p] = disk[p] /\ buf'[p].pg = disk[p] /\ buf'[p].undoInfo = {}
  <2>1. buf'[p] = CleanBuf(disk[p]) /\ disk'[p] = disk[p] /\ disk[p] \in PageImage(p)
    BY <1>0, OfPage DEF CrashTo
  <2> QED
    BY <2>1, CleanType, ZenonT(40)
<1>4. PICK X : X = Surviving'
  OBVIOUS
<1>5. Surviving \subseteq X /\ \A j \in Surviving : log'[j] = log[j]
  BY <1>2, <1>4 DEF Surviving
<1>6. ASSUME NEW p \in Page PROVE ImageOK(log', disk[p], p)
  <2>1. ImageOK(log, disk[p], p)
    BY DEF PageState, Images
  <2>2. PICK t : t = disk[p].dbtime
    OBVIOUS
  <2>3. PICK m : m = log'
    OBVIOUS
  <2> DEFINE Has(x, i) == i \in UpTo(x, t) /\ x[i].t \in {"Node", "Undo"} /\ PageOf[x[i].node] = p
  <2>4. ASSUME NEW i, Has(log, i) PROVE Has(m, i) /\ log[i] = m[i]
    <3>1. i \in Idx /\ On(p, i) /\ log[i].after <= disk[p].dbtime
      BY <2>2, <2>4 DEF UpTo, Idx, On, PageRec
    <3>2. Survives(i)
      BY <3>1, DiskSurvives
    <3>3. i \in Idx' /\ m[i] = log[i]
      BY <1>2, <2>3, <3>1, <3>2
    <3>4. i \in 1 .. Len(m)
      BY <2>3, <3>3 DEF Idx
    <3> QED
      BY <2>4, <3>3, <3>4 DEF UpTo
  <2>5. ASSUME NEW i, Has(m, i) PROVE Has(log, i)
    <3>1. i \in Idx'
      BY <2>3, <2>5 DEF UpTo, Idx
    <3>2. i \in Idx /\ m[i] = log[i]
      BY <1>2, <2>3, <3>1
    <3> QED
      BY <2>5, <3>2 DEF UpTo, Idx
  <2>6. \A i : LET H(x) == i \in UpTo(x, disk[p].dbtime) /\ x[i].t \in {"Node", "Undo"} /\ PageOf[x[i].node] = p
               IN  (H(log) <=> H(m)) /\ (H(log) => log[i] = m[i])
    BY <2>2, <2>4, <2>5
  <2> HIDE DEF Has
  <2>7. ImageOK(m, disk[p], p)
    BY <2>1, <2>6, ImageKept
  <2> QED
    BY <2>3, <2>7
<1>7. ASSUME NEW p \in Page PROVE Covered(log', p, disk[p].dbtime, {}, X)
  <2>1. PICK m : m = log'
    OBVIOUS
  <2>2. Covered(log, p, disk[p].dbtime, {}, Surviving)
    BY DEF PageState, DiskCovered
  <2>3. \A i \in 1 .. Len(m) : i \in 1 .. Len(log) /\ log[i] = m[i]
    BY <1>2, <2>1 DEF Idx
  <2>4. \A i \in 1 .. Len(m) : Owes(m, p, i) /\ m[i].after <= disk[p].dbtime =>
          i \in 1 .. Len(log) /\ log[i] = m[i] /\ log[i].after <= disk[p].dbtime
    BY <2>3
  <2>5. \A j \in Surviving : m[j] = log[j]
    BY <1>5, <2>1
  <2>6. Covered(m, p, disk[p].dbtime, {}, X)
    BY <1>5, <2>2, <2>4, <2>5, CoveredKept
  <2> QED
    BY <2>1, <2>6
<1>8. Images'
  <2> SUFFICES ASSUME NEW p \in Page PROVE ImageOK(log', disk'[p], p) /\ ImageOK(log', buf'[p].pg, p)
    BY DEF Images
  <2> QED
    BY <1>3, <1>6
<1>9. DiskCovered'
  <2> SUFFICES ASSUME NEW p \in Page PROVE Covered(log', p, disk'[p].dbtime, {}, Surviving')
    BY DEF DiskCovered
  <2> QED
    BY <1>3, <1>4, <1>7
<1>10. BufCovered'
  <2> SUFFICES ASSUME NEW p \in Page PROVE Covered(log', p, buf'[p].pg.dbtime, buf'[p].undoInfo, Held(p)')
    BY DEF BufCovered
  <2>1. PICK Y : Y = Held(p)'
    OBVIOUS
  <2>2. X \subseteq Y
    BY <1>4, <2>1 DEF Held
  <2>3. Covered(log', p, disk[p].dbtime, {}, Y)
    BY <1>7, <2>2 DEF Covered
  <2> QED
    BY <1>3, <2>1, <2>3
<1> QED
  BY <1>8, <1>9, <1>10 DEF PageState

\* Crash and the sessions: there are none.
LEMMA CrashedSess ==
    ASSUME RecInv, RecInv', NEW k, CrashedTo(k)
    PROVE  SessState'
<1>0. CrashTo(k) /\ LogTypes /\ PageTypes /\ chk.lgpos \in Nat /\ mode' = "redo" /\ redo' = chk.lgpos - 1 /\ chk' = chk
  BY Numbers DEF CrashedTo, CrashTo, LogTypes
<1>1. \A i \in Idx' : i \in Idx /\ log'[i] = log[i]
  BY <1>0, CrashLog
<1>2. ASSUME NEW v \in Session
      PROVE  sess'[v].st = "idle" /\ sess'[v].rces = {} /\ sess'[v].deferred = {} /\ sess'[v].afterBT = FALSE
  <2>1. sess'[v] = NewSession
    BY <1>0 DEF CrashTo
  <2> QED
    BY <2>1, NewSessType
<1>3. ASSUME NEW p \in Page PROVE buf'[p].undoInfo = {}
  <2>1. buf'[p] = CleanBuf(disk[p]) /\ disk[p] \in PageImage(p)
    BY <1>0, OfPage DEF CrashTo
  <2>2. CleanBuf(disk[p]).undoInfo = {}
    BY <2>1, CleanType
  <2> QED
    BY <2>1, <2>2
<1>4. Versions'
  BY <1>2 DEF Versions, SessOK, IsOpen
<1>5. Owing' /\ Owned'
  BY <1>2, <1>3 DEF Owing, OwingOK, Owned
<1>6. Deferred' /\ Runs' /\ CommitsOwn'
  BY <1>0, <1>2 DEF Deferred, DeferOK, Runs, CommitsOwn, OwnOK
<1>7. EndInRedo'
  <2> SUFFICES ASSUME NEW i \in Idx', log'[i].t \in {"Commit0", "Rollback"}, log'[i].trx <= redo'
               PROVE  ~sess'[log'[i].s].afterBT /\ log'[i].trx < chk'.lgpos
    BY DEF EndInRedo
  <2>1. i \in Idx /\ log'[i] = log[i]
    BY <1>1
  <2>2. log[i].s \in Session /\ log[i].trx \in Nat
    BY <1>0, <2>1, OfLog DEF TrxType
  <2>3. log'[i].trx < chk'.lgpos
    BY <1>0, <2>1, <2>2
  <2> QED
    BY <1>2, <2>1, <2>2, <2>3
<1> QED
  BY <1>4, <1>5, <1>6, <1>7 DEF SessState

\* Crash and the transactions: one that redo passes by is on disk as a whole,
\* and was committed, or undone.
LEMMA CrashedTrx ==
    ASSUME RecInv, RecInv', LogOK, TrxState, NEW k, CrashedTo(k)
    PROVE  TrxState'
<1>0. CrashTo(k) /\ LogTypes /\ chk' = chk /\ mode' = "redo" /\ redo' = chk.lgpos - 1
      /\ kept' = kept \cup {log[j].trx : j \in Lost(k)}
  BY Numbers DEF CrashedTo, CrashTo
<1>1. /\ k \in Nat /\ Len(log) \in Nat /\ k <= Len(log) /\ Len(log') = k
      /\ chk.lgpos \in Nat /\ 1 <= chk.lgpos /\ chk.lgpos <= k + 1
      /\ \A i \in 1 .. k : i \in Idx /\ i \in Idx'
      /\ \A i \in Idx : i <= k => i \in 1 .. k
  BY <1>0, CrashPrefix
<1>2. /\ \A i \in Idx' : i \in Idx /\ log'[i] = log[i] /\ i \in Nat /\ i <= k
      /\ \A i \in Idx : Survives(i) => i \in Idx' /\ log'[i] = log[i]
      /\ Horizon' = chk.lgpos - 1
  BY <1>0, CrashLog
<1>m. PICK m : m = log'
  OBVIOUS
<1>3. \A i \in 1 .. k : m[i] = log[i] /\ i \in Nat /\ i \in Idx /\ i <= k
  BY <1>1, <1>2, <1>m
<1>4. Resolved'
  <2>1. Skipped' = chk.lgpos
    BY <1>0 DEF Skipped
  <2>2. ASSUME NEW i \in 1 .. (chk.lgpos - 1), m[i].t = "Node" PROVE m[i].trx < chk.lgpos
    <3>1. i \in 1 .. k /\ i < chk.lgpos /\ i \in Nat
      BY <1>1
    <3>2. i \in Idx /\ PageRec(i) /\ m[i] = log[i]
      BY <1>3, <2>2, <3>1 DEF PageRec
    <3>3. log[i].trx < i /\ log[i].trx \in Nat
      BY <1>0, <3>2, OfLog DEF RecInv, LogInv, OfTrx
    <3> QED
      BY <1>1, <3>1, <3>2, <3>3
  <2>3. \A K, A : ResolvedAt(m, K, chk.lgpos - 1, A, chk.lgpos)
    BY <2>2 DEF ResolvedAt
  <2> QED
    BY <1>2, <1>m, <2>1, <2>3 DEF Resolved
<1>5. Passed'
  <2>1. ASSUME NEW i \in 1 .. k, m[i].t = "Node", m[i].trx < chk.lgpos, Stands(m, i, k)
        PROVE  CommittedBy(m, kept', m[i].trx, k)
    <3>1. i \in Idx /\ i \in Nat /\ i <= k /\ m[i] = log[i]
      BY <1>3
    <3>2. ASSUME NEW u \in 1 .. Len(log), i < u, log[u].t = "Undo", log[u].rceid = log[i].rceid PROVE FALSE
      <4>1. u \in Idx
        BY DEF Idx
      <4>2. CASE u \in 1 .. k
        BY <1>3, <2>1, <3>1, <3>2, <4>2 DEF Stands
      <4>3. CASE ~(u \in 1 .. k)
        <5>1. UndoOK(log, u)
          BY <3>2, <4>1 DEF LogOK, RecOK
        <5>2. PICK j \in 1 .. (u - 1) : About(log, j, u)
          BY <5>1 DEF UndoOK
        <5>3. log[j].t = "Node" /\ log[j].rceid = log[i].rceid /\ log[j].trx = log[u].trx
          BY <3>2, <5>2 DEF About
        <5>4. j \in 1 .. Len(log) /\ i \in 1 .. Len(log)
          BY <1>1, <3>1 DEF Idx
        <5>5. j = i
          BY <2>1, <3>1, <5>3, <5>4, Unique DEF UniqueIds
        <5>6. log[u].trx < chk.lgpos
          BY <2>1, <3>1, <5>3, <5>5
        <5>7. log[u].node \in Node
          BY <1>0, <3>2, <4>1, OfLog DEF NodeType
        <5>8. PICK p \in Page : On(p, u)
          BY <3>2, <5>7, Constants DEF On, PageRec
        <5>9. log[u].after <= disk[p].dbtime
          BY <4>1, <5>6, <5>8 DEF RecInv, PageInv, ChkSafe
        <5>10. Survives(u)
          BY <4>1, <5>8, <5>9, DiskSurvives
        <5>11. u \in Idx'
          BY <1>2, <4>1, <5>10
        <5>12. u <= k
          BY <1>2, <5>11
        <5> QED
          BY <1>1, <4>1, <4>3, <5>12
      <4> QED
        BY <4>2, <4>3
    <3>3. Stands(log, i, Len(log))
      BY <3>2 DEF Stands
    <3>4. CommittedBy(log, kept, log[i].trx, Len(log))
      BY <2>1, <3>1, <3>3 DEF TrxState, Passed, PassedAt, Idx
    <3>5. CASE log[i].trx \in kept
      BY <1>0, <3>1, <3>5 DEF CommittedBy
    <3>6. ASSUME NEW c \in 1 .. Len(log), log[c].t = "Commit0", log[c].trx = log[i].trx
          PROVE  CommittedBy(m, kept', m[i].trx, k)
      <4>1. CASE c \in 1 .. k
        BY <1>3, <3>1, <3>6, <4>1 DEF CommittedBy
      <4>2. CASE ~(c \in 1 .. k)
        <5>1. c \in (k + 1) .. Len(log)
          BY <1>1, <4>2
        <5>2. c \in Lost(k)
          BY <2>1, <3>1, <3>6, <5>1 DEF Lost
        <5>3. log[i].trx \in kept'
          BY <1>0, <3>6, <5>2
        <5> QED
          BY <3>1, <5>3 DEF CommittedBy
      <4> QED
        BY <4>1, <4>2
    <3> QED
      BY <3>4, <3>5, <3>6 DEF CommittedBy
  <2>2. PassedAt(m, kept', chk.lgpos)
    BY <1>1, <1>m, <2>1 DEF PassedAt
  <2> QED
    BY <1>0, <1>m, <2>2 DEF Passed
<1>6. KeptTrx'
  <2>1. ASSUME NEW trx \in kept' PROVE trx \in Nat /\ trx < chk.lgpos /\ \A u \in 1 .. k : ~(m[u].t = "Undo" /\ m[u].trx = trx)
    <3>1. CASE trx \in kept
      <4>1. trx \in Nat /\ trx < chk.lgpos /\ \A u \in 1 .. Len(log) : ~(log[u].t = "Undo" /\ log[u].trx = trx)
        BY <3>1 DEF TrxState, KeptTrx, NoUndo
      <4> QED
        BY <1>3, <4>1 DEF Idx
    <3>2. CASE trx \notin kept
      <4>1. PICK j \in Lost(k) : trx = log[j].trx
        BY <1>0, <2>1, <3>2
      <4>2. j \in (k + 1) .. Len(log) /\ log[j].t = "Commit0" /\ log[j].trx < chk.lgpos
        BY <4>1 DEF Lost
      <4>3. j \in Idx /\ k < j /\ j \in Nat
        BY <1>1, <4>2 DEF Idx
      <4>4. CommitOK(log, j)
        BY <4>2, <4>3 DEF LogOK, RecOK
      <4>5. \A u \in 1 .. k : u \in 1 .. (j - 1)
        BY <1>1, <4>3
      <4>6. \A u \in 1 .. k : ~(log[u].t = "Undo" /\ log[u].trx = trx)
        BY <4>1, <4>4, <4>5 DEF CommitOK
      <4>7. trx \in Nat
        BY <1>0, <4>1, <4>3, OfLog
      <4> QED
        BY <1>3, <4>1, <4>2, <4>6, <4>7
    <3> QED
      BY <3>1, <3>2
  <2>2. \A trx \in kept' : NoUndo(m, trx)
    BY <1>1, <1>m, <2>1 DEF NoUndo
  <2> QED
    BY <1>0, <1>m, <2>1, <2>2 DEF KeptTrx
<1> QED
  BY <1>4, <1>5, <1>6 DEF TrxState

\* Crash.
LEMMA CrashState == ASSUME RecInv, RecInv', StateInv, Crash PROVE StateInv'
<1>1. PICK k : CrashedTo(k)
  BY CrashLoses
<1>2. LogOK'
  BY <1>1, CrashedLog DEF StateInv
<1>3. PageState'
  BY <1>1, CrashedPages DEF StateInv
<1>4. SessState'
  BY <1>1, CrashedSess
<1>5. TrxState'
  BY <1>1, CrashedTrx DEF StateInv
<1> QED
  BY <1>2, <1>3, <1>4, <1>5 DEF StateInv

-----------------------------------------------------------------------------
(* Every step *)

\* The initial state.
LEMMA InitState == ASSUME Init PROVE StateInv
<1>1. Len(log) = 0 /\ Idx = {} /\ mode = "run" /\ kept = {} /\ 1 .. Len(log) = {}
  BY DEF Init, Idx
<1>2. Horizon = 0 /\ 1 .. Horizon = {}
  BY <1>1 DEF Horizon
<1>3. \A v \in Session : sess[v].st = "idle" /\ sess[v].rces = {} /\ sess[v].deferred = {}
  BY NewSessType DEF Init
<1>4. \A p \in Page : disk[p] \in PageImage(p) /\ disk[p].dbtime = 0
  BY DEF Init, PageImage, NoRec
<1>5. ASSUME NEW p \in Page PROVE buf[p].pg = disk[p] /\ buf[p].undoInfo = {}
  <2>1. buf[p] = CleanBuf(disk[p]) /\ disk[p] \in PageImage(p)
    BY <1>4 DEF Init
  <2>2. CleanBuf(disk[p]).undoInfo = {} /\ CleanBuf(disk[p]).pg = disk[p]
    BY <2>1, CleanType, ZenonT(40)
  <2> QED
    BY <2>1, <2>2
<1>6. \A time : UpTo(log, time) = {}
  BY <1>1 DEF UpTo
<1>7. Images
  <2> SUFFICES ASSUME NEW p \in Page, NEW n \in Node, PageOf[n] = p
               PROVE  Shows(log, n, {}, disk[p].img[n])
    BY <1>5, <1>6 DEF Images, ImageOK
  <2>1. disk[p].img[n] = Initially(n)
    BY DEF Init, Initially
  <2> QED
    BY <2>1 DEF Shows
<1>8. PageState
  BY <1>1, <1>7 DEF PageState, DiskCovered, BufCovered, Covered
<1>9. Versions /\ Owing /\ Owned
  BY <1>3, <1>5 DEF Versions, SessOK, IsOpen, Owing, OwingOK, Owned
<1>10. Deferred /\ CommitsOwn /\ EndInRedo
  BY <1>1, <1>3 DEF Deferred, CommitsOwn, OwnOK, EndInRedo
<1>11. Runs
  BY <1>1, <1>3 DEF Runs, RunsOK, Rests
<1>12. TrxState
  BY <1>1, <1>2 DEF TrxState, Resolved, ResolvedAt, Passed, PassedAt, KeptTrx
<1> QED
  BY <1>1, <1>8, <1>9, <1>10, <1>11, <1>12 DEF StateInv, LogOK, SessState

\* A step of a transaction.
LEMMA TransactionsState == ASSUME RecInv, RecInv', StateInv, Transactions PROVE StateInv'
<1>1. PICK s \in Session :
        \/ \E n \in Node, delete \in BOOLEAN : Update(s, n, delete)
        \/ LogCommit(s)
        \/ \E lazy \in BOOLEAN : EndCommit(s, lazy)
        \/ Rollback(s)
        \/ UndoNewest(s)
        \/ EndRollback(s)
  BY Zenon DEF Transactions
<1>2. ASSUME NEW n \in Node, NEW delete \in BOOLEAN, Update(s, n, delete) PROVE StateInv'
  BY <1>2, UpdateState
<1>3. ASSUME NEW lazy \in BOOLEAN, EndCommit(s, lazy) PROVE StateInv'
  BY <1>3, EndCommitState
<1>4. LogCommit(s) => StateInv'
  BY LogCommitState
<1>5. Rollback(s) => StateInv'
  BY RollbackState
<1>6. UndoNewest(s) => StateInv'
  BY UndoNewestState
<1>7. EndRollback(s) => StateInv'
  BY EndRollbackState
<1> QED
  BY <1>1, <1>2, <1>3, <1>4, <1>5, <1>6, <1>7, Zenon

\* A step of redo.
LEMMA RedoState == ASSUME RecInv, RecInv', StateInv, Redo PROVE StateInv'
<1>1. RedoBegin \/ RedoSkip \/ RedoNode \/ RedoUndoInfo \/ RedoUndo \/ RedoEndTrx \/ RedoRecoveryUndo \/ RedoQuit
  BY Zenon DEF Redo
<1> QED
  BY <1>1, RedoBeginState, RedoSkipState, RedoNodeState, RedoUndoInfoState, RedoUndoState, RedoEndTrxState,
     RedoRecoveryUndoState, RedoQuitState

\* No step at all.
LEMMA StutterState == ASSUME RecInv, RecInv', StateInv, UNCHANGED vars PROVE StateInv'
<1>1. /\ mode' = mode /\ log' = log /\ durable' = durable /\ waypoint' = waypoint /\ disk' = disk /\ buf' = buf
      /\ sess' = sess /\ chk' = chk /\ redo' = redo /\ kept' = kept
  BY DEF vars
<1>2. durable \in Nat /\ waypoint \in Nat /\ chk.lgpos \in Nat
  BY Numbers DEF LogTypes
<1>3. Still
  BY <1>1, <1>2 DEF Still
<1>4. LogOK' /\ TrxState'
  BY <1>3, StillTrx DEF StateInv
<1>5. SessState'
  BY <1>1, <1>3, StillSess DEF StateInv
<1>6. PageState'
  BY <1>1, <1>3, StillPages DEF StateInv
<1> QED
  BY <1>4, <1>5, <1>6 DEF StateInv

\* Every step keeps both invariants.
LEMMA StateNext == RecInv /\ StateInv /\ [Next]_vars => RecInv' /\ StateInv'
<1> SUFFICES ASSUME RecInv, StateInv, [Next]_vars PROVE RecInv' /\ StateInv'
  OBVIOUS
<1>0. RecInv'
  BY NextKeeps
<1>1. Transactions => StateInv'
  BY <1>0, TransactionsState
<1>2. WriteLog \/ AdvanceWaypoint \/ CkptTip \/ CkptSessions \/ CkptPages => StateInv'
  BY <1>0, QuietState
<1>3. Checkpointing => CkptTip \/ CkptSessions \/ CkptPages
  BY Zenon DEF Checkpointing
<1>4. Caching => StateInv'
  <2> SUFFICES ASSUME Caching PROVE StateInv'
    OBVIOUS
  <2>1. PICK p \in Page : LogUndoInfo(p) \/ FlushPage(p)
    BY Zenon DEF Caching
  <2>2. LogUndoInfo(p) => StateInv'
    BY <1>0, LogUndoInfoState
  <2>3. FlushPage(p) => StateInv'
    BY <1>0, FlushPageState
  <2> QED
    BY <2>1, <2>2, <2>3
<1>5. Crash => StateInv'
  BY <1>0, CrashState
<1>6. Redo => StateInv'
  BY <1>0, RedoState
<1>7. BeginUndo => StateInv'
  BY <1>0, BeginUndoState
<1>8. Quit => StateInv'
  BY <1>0, QuitState DEF Quit
<1>9. UNCHANGED vars => StateInv'
  BY <1>0, StutterState
<1> QED
  BY <1>0, <1>1, <1>2, <1>3, <1>4, <1>5, <1>6, <1>7, <1>8, <1>9, Zenon DEF Next

-----------------------------------------------------------------------------
(* What follows *)

\* An Undo record that redo comes to finds its version: the page made it, or
\* the UndoInfo record before it did.
LEMMA FindsVersion == ASSUME RecInv, StateInv PROVE UndoFindsVersion
<1>0. LogOK /\ Versions /\ Deferred
  BY DEF StateInv, SessState
<1> SUFFICES ASSUME ToRedo({"Undo"}), sess[NextRec.s].afterBT
             PROVE  \E r \in sess[NextRec.s].rces : r.id = NextRec.rceid
  BY DEF UndoFindsVersion
<1>1. mode = "redo" /\ redo \in Nat /\ redo + 1 \in Idx /\ NextRec = log[redo + 1] /\ NextRec.t \in {"Undo"}
  BY RedoRec DEF RecInv, Types
<1>2. PICK k \in Nat : k = redo + 1 /\ k \in Idx /\ NextRec = log[k] /\ log[k].t = "Undo" /\ k - 1 = redo
  BY <1>1
<1>3. PageRec(k) /\ log[k].s \in Session /\ log[k].trx \in Nat /\ log[k].trx < k /\ Len(log) \in Nat /\ Horizon = redo
  <2>1. PageRec(k) /\ log[k].s \in Session /\ log[k].trx \in Nat
    BY <1>2, OfLog, Numbers DEF PageRec, TrxType, NodeType
  <2> QED
    BY <1>1, <1>2, <2>1, Numbers DEF RecInv, LogInv, OfTrx
<1>4. PICK s \in Session : s = log[k].s
  BY <1>3
<1>5. Open(s) /\ sess[s].start = log[k].trx
  <2>1. log[k].trx <= redo /\ redo < k
    BY <1>1, <1>2, <1>3
  <2> QED
    BY <1>1, <1>2, <1>3, <1>4, <2>1 DEF RecInv, SessInv, InRedo
<1>6. UndoOK(log, k)
  BY <1>0, <1>2 DEF LogOK, RecOK
<1>7. PICK i \in 1 .. (k - 1) :
        /\ About(log, i, k)
        /\ log[k].oper # "Insert" => \E j \in (i + 1) .. (k - 1) : log[j].t = "UndoInfo" /\ log[j].rceid = log[k].rceid
  BY <1>6 DEF UndoOK
<1>8. /\ i \in 1 .. redo /\ i \in Nat /\ log[i].t = "Node" /\ log[i].rceid = log[k].rceid /\ log[i].trx = sess[s].start
      /\ log[i].oper = log[k].oper /\ Stands(log, i, redo)
  BY <1>1, <1>2, <1>5, <1>7 DEF About
<1>9. (\E r \in sess[s].rces : r.id = log[k].rceid) \/ log[k].rceid \in sess[s].deferred
  <2>1. SessOK(log, redo, s, sess[s]) /\ IsOpen(sess[s])
    BY <1>0, <1>3, <1>5 DEF Versions, Open, IsOpen
  <2> QED
    BY <1>8, <2>1 DEF SessOK
<1>10. ASSUME log[k].rceid \in sess[s].deferred PROVE FALSE
  <2>1. DeferOK(log, redo, s, sess[s])
    BY <1>0, <1>1 DEF Deferred
  <2>2. /\ ~InfoAt(log, redo, log[k].rceid)
        /\ \E j \in (redo + 1) .. Len(log) :
              log[j].trx = sess[s].start /\ (log[j].t = "Commit0" \/ (log[j].t = "UndoInfo" /\ log[j].rceid = log[k].rceid))
    BY <1>10, <2>1 DEF DeferOK
  <2>3. log[k].oper = "Insert"
    <3> SUFFICES ASSUME log[k].oper # "Insert" PROVE FALSE
      OBVIOUS
    <3>1. PICK j \in (i + 1) .. (k - 1) : log[j].t = "UndoInfo" /\ log[j].rceid = log[k].rceid
      BY <1>7
    <3>2. j \in 1 .. redo
      BY <1>1, <1>2, <1>8
    <3> QED
      BY <2>2, <3>1, <3>2 DEF InfoAt
  <2>4. PICK j \in (redo + 1) .. Len(log) :
              log[j].trx = sess[s].start /\ (log[j].t = "Commit0" \/ (log[j].t = "UndoInfo" /\ log[j].rceid = log[k].rceid))
    BY <2>2
  <2>5. j \in Idx /\ j \in Nat /\ k <= j
    BY <1>1, <1>2, <1>3 DEF Idx
  <2>6. CASE log[j].t = "Commit0"
    <3>1. k \in 1 .. (j - 1)
      BY <1>1, <1>2, <2>5, <2>6
    <3>2. CommitOK(log, j)
      BY <1>0, <2>5, <2>6 DEF LogOK, RecOK
    <3> QED
      BY <1>2, <1>5, <2>4, <3>1, <3>2 DEF CommitOK
  <2>7. CASE log[j].t = "UndoInfo" /\ log[j].rceid = log[k].rceid
    <3>1. InfoOK(log, j)
      BY <1>0, <2>5, <2>7 DEF LogOK, RecOK
    <3>2. PICK h \in 1 .. (j - 1) : About(log, h, j)
      BY <3>1 DEF InfoOK
    <3>3. log[h].t = "Node" /\ log[h].rceid = log[i].rceid /\ log[h].oper = log[j].oper
      BY <1>8, <2>7, <3>2 DEF About
    <3>4. h \in 1 .. Len(log) /\ i \in 1 .. Len(log)
      BY <1>1, <1>2, <1>3, <1>8, <2>5 DEF Idx
    <3>5. h = i
      BY <1>0, <1>8, <3>3, <3>4, Unique DEF UniqueIds
    <3> QED
      BY <1>8, <2>3, <3>1, <3>3, <3>5 DEF InfoOK
  <2> QED
    BY <2>4, <2>6, <2>7
<1> QED
  BY <1>2, <1>4, <1>9, <1>10

\* A change of a committed transaction is never undone.
LEMMA CommittedStands ==
    ASSUME RecInv, StateInv, NEW i \in Idx, log[i].t = "Node", CommittedBy(log, kept, log[i].trx, Len(log))
    PROVE  Stands(log, i, Len(log))
<1>0. LogOK /\ KeptTrx /\ LogTypes /\ OfTrx /\ Len(log) \in Nat
  BY Numbers DEF StateInv, TrxState, RecInv, LogInv
<1> SUFFICES ASSUME NEW u \in 1 .. Len(log), i < u, log[u].t = "Undo", log[u].rceid = log[i].rceid PROVE FALSE
  BY DEF Stands
<1>1. u \in Idx /\ u \in Nat /\ i \in Nat /\ i \in 1 .. Len(log)
  BY DEF Idx
<1>2. UndoOK(log, u)
  BY <1>0, <1>1 DEF LogOK, RecOK
<1>3. PICK j \in 1 .. (u - 1) : About(log, j, u)
  BY <1>2 DEF UndoOK
<1>4. log[j].t = "Node" /\ log[j].rceid = log[i].rceid /\ log[j].trx = log[u].trx /\ j \in 1 .. Len(log)
  BY <1>0, <1>1, <1>3 DEF About
<1>5. log[u].trx = log[i].trx
  BY <1>0, <1>1, <1>4, Unique DEF UniqueIds
<1>6. CASE log[i].trx \in kept
  BY <1>0, <1>5, <1>6 DEF KeptTrx, NoUndo
<1>7. ASSUME NEW c \in 1 .. Len(log), log[c].t = "Commit0", log[c].trx = log[i].trx PROVE FALSE
  <2>1. c \in Idx /\ c \in Nat
    BY DEF Idx
  <2>2. CommitOK(log, c)
    BY <1>0, <1>7, <2>1 DEF LogOK, RecOK
  <2>3. ~(u < c)
    <3> SUFFICES ASSUME u < c PROVE FALSE
      OBVIOUS
    <3>1. u \in 1 .. (c - 1)
      BY <1>1, <2>1
    <3> QED
      BY <1>5, <1>7, <2>2, <3>1 DEF CommitOK
  <2>4. c < u
    BY <1>1, <1>7, <2>1, <2>3
  <2>5. log[c].trx < c /\ log[log[c].trx].s = log[c].s
    BY <2>1, <2>2 DEF CommitOK, EndOK, Begins
  <2>6. log[log[u].trx].s = log[u].s /\ \A k \in Idx : log[u].trx < k /\ k < u => ~Cuts(k, log[u].s)
    BY <1>0, <1>1 DEF OfTrx, PageRec
  <2>7. ~Cuts(c, log[u].s) /\ log[c].s = log[u].s
    BY <1>5, <1>7, <2>1, <2>4, <2>5, <2>6
  <2> QED
    BY <1>7, <2>7 DEF Cuts
<1> QED
  BY <1>6, <1>7 DEF CommittedBy

\* The records that count for a node.
Writes(n) == {i \in 1 .. Len(log) : /\ log[i].t = "Node"
                                    /\ log[i].node = n
                                    /\ Committed(log[i].trx)}

\* The value of a node is what the changes that stand make of it, when these
\* are the committed ones.
LEMMA ValueIs ==
    ASSUME RecInv, NEW n, NEW h \in Nat, NEW v, Nets(log, n, h, v),
           \A i : i \in Writes(n) <=> (i \in 1 .. h /\ StandsOn(log, n, i, h))
    PROVE  ValueUnder(Committed, n) = v
<1>1. ValueUnder(Committed, n) = IF Writes(n) # {} THEN log[Max(Writes(n))].val ELSE IF n \in Loaded THEN 0 ELSE NoRec
  BY DEF ValueUnder, Writes
<1>2. CASE \E i \in 1 .. h : StandsOn(log, n, i, h) /\ log[i].val = v /\ \A j \in 1 .. h : StandsOn(log, n, j, h) => j <= i
  <2>1. PICK i \in 1 .. h : StandsOn(log, n, i, h) /\ log[i].val = v /\ \A j \in 1 .. h : StandsOn(log, n, j, h) => j <= i
    BY <1>2
  <2>2. PICK W \in SUBSET Nat : W = Writes(n)
    <3>1. Len(log) \in Nat
      BY Numbers
    <3>2. Writes(n) \subseteq Nat
      BY <3>1 DEF Writes
    <3> QED
      BY <3>2
  <2>3. i \in W /\ i \in Nat /\ \A j \in W : j <= i
    BY <2>1, <2>2
  <2>4. \A j \in W : i >= j
    BY <2>2, <2>3
  <2>5. Max(W) \in W /\ \A j \in W : Max(W) >= j
    BY <2>3, <2>4, Zenon DEF Max
  <2>6. Max(W) = i
    BY <2>2, <2>3, <2>5
  <2> QED
    BY <1>1, <2>1, <2>2, <2>3, <2>6
<1>3. CASE (\A j \in 1 .. h : ~StandsOn(log, n, j, h)) /\ v = Initially(n)
  <2>1. Writes(n) = {}
    BY <1>3
  <2> QED
    BY <1>1, <1>3, <2>1 DEF Initially
<1> QED
  BY <1>2, <1>3 DEF Nets

\* The versions of open transactions on a node.
PendingOn(n) == {r \in UNION {sess[s].rces : s \in {u \in Session : Open(u)}} : r.node = n}

\* Whose they are.
LEMMA PendingOf ==
    ASSUME RecInv, StateInv, mode = "run", NEW n, NEW r \in PendingOn(n)
    PROVE  \E s \in Session : /\ Open(s) /\ r \in sess[s].rces /\ r.node = n /\ r.id \in Nat
                              /\ \E i \in 1 .. Len(log) : VersionAt(log, Len(log), s, sess[s].start, r, i)
<1>0. Versions /\ Horizon = Len(log) /\ SessTypes
  BY Numbers DEF StateInv, SessState
<1>1. PICK s \in Session : Open(s) /\ r \in sess[s].rces /\ r.node = n
  BY DEF PendingOn
<1>2. SessOK(log, Len(log), s, sess[s])
  BY <1>0 DEF Versions
<1>3. r \in RCE
  BY <1>0, <1>1, OfSess
<1>4. r.id \in Nat
  BY <1>3 DEF RCE
<1> QED
  BY <1>1, <1>2, <1>4 DEF SessOK

\* A change that stands is committed, or has such a version.
LEMMA StandsFor ==
    ASSUME RecInv, StateInv, mode = "run", NEW n, NEW i \in 1 .. Len(log), StandsOn(log, n, i, Len(log))
    PROVE  CommittedBy(log, kept, log[i].trx, Len(log)) \/ \E r \in PendingOn(n) : r.id = log[i].rceid
<1>0. LogOK /\ Versions /\ Deferred /\ Resolved /\ Horizon = Len(log) /\ i \in Idx /\ log[i].trx \in Nat /\ Skipped = 0
  BY Numbers DEF StateInv, SessState, TrxState, Idx, Skipped
<1>1. log[i].t = "Node" /\ log[i].node = n /\ Stands(log, i, Len(log))
  BY DEF StandsOn
<1> SUFFICES ASSUME ~CommittedBy(log, kept, log[i].trx, Len(log)) PROVE \E r \in PendingOn(n) : r.id = log[i].rceid
  OBVIOUS
<1>2. ~(log[i].trx < 0)
  BY <1>0
<1>3. PICK s \in Session : IsOpen(sess[s]) /\ sess[s].start = log[i].trx
  BY <1>0, <1>1, <1>2 DEF Resolved, ResolvedAt
<1>4. SessOK(log, Len(log), s, sess[s]) /\ sess[s].deferred = {} /\ Open(s)
  BY <1>0, <1>3 DEF Versions, Deferred, IsOpen, Open
<1>5. PICK r \in sess[s].rces : r.id = log[i].rceid
  BY <1>1, <1>3, <1>4 DEF SessOK
<1>6. VersionAt(log, Horizon, s, sess[s].start, r, i)
  BY <1>0, <1>1, <1>5, VersionOf
<1>7. r.node = n
  BY <1>1, <1>6 DEF VersionAt
<1>8. r \in PendingOn(n)
  BY <1>4, <1>5, <1>7 DEF PendingOn
<1> QED
  BY <1>5, <1>8

\* The records that count are those of the committed transactions.
LEMMA WritesAre ==
    ASSUME NEW n, NEW i
    PROVE  i \in Writes(n) <=> /\ i \in 1 .. Len(log) /\ log[i].t = "Node" /\ log[i].node = n
                               /\ CommittedBy(log, kept, log[i].trx, Len(log))
BY DEF Writes, Committed, LogCommitted, CommittedBy

\* A node without versions of open transactions.
LEMMA SettledNode ==
    ASSUME RecInv, StateInv, mode = "run", NEW n \in Node, PendingOn(n) = {}
    PROVE  buf[PageOf[n]].pg.img[n] = ValueUnder(Committed, n)
<1>0. LogOK /\ PageState /\ Len(log) \in Nat /\ Len(log) \in 0 .. Len(log) /\ 1 .. Len(log) \in SUBSET Nat
  BY Numbers DEF StateInv
<1>1. NetOK(log, Len(log))
  BY <1>0, NetAt
<1>2. PICK v \in Value : Shows(log, n, 1 .. Len(log), v) /\ Nets(log, n, Len(log), v)
  BY <1>1 DEF NetOK
<1>3. Shows(log, n, 1 .. Len(log), buf[PageOf[n]].pg.img[n])
  BY <1>0, ImageShows
<1>4. buf[PageOf[n]].pg.img[n] = v
  BY <1>0, <1>2, <1>3, ShowsOne
<1>5. ASSUME NEW i PROVE i \in Writes(n) <=> (i \in 1 .. Len(log) /\ StandsOn(log, n, i, Len(log)))
  <2>1. ASSUME i \in Writes(n) PROVE i \in 1 .. Len(log) /\ StandsOn(log, n, i, Len(log))
    <3>1. i \in 1 .. Len(log) /\ i \in Idx /\ log[i].t = "Node" /\ log[i].node = n /\ CommittedBy(log, kept, log[i].trx, Len(log))
      BY <2>1, WritesAre DEF Idx
    <3>2. Stands(log, i, Len(log))
      BY <3>1, CommittedStands
    <3> QED
      BY <3>1, <3>2 DEF StandsOn
  <2>2. ASSUME i \in 1 .. Len(log), StandsOn(log, n, i, Len(log)) PROVE i \in Writes(n)
    <3>1. CommittedBy(log, kept, log[i].trx, Len(log))
      BY <2>2, StandsFor
    <3> QED
      BY <2>2, <3>1, WritesAre DEF StandsOn
  <2> QED
    BY <2>1, <2>2
<1>6. ValueUnder(Committed, n) = v
  BY <1>0, <1>2, <1>5, ValueIs
<1> QED
  BY <1>4, <1>6

\* Before the first change of an open transaction that stands, the changes
\* that stood were the committed ones.
LEMMA PendingFirst ==
    ASSUME RecInv, StateInv, mode = "run", NEW n \in Node, NEW s \in Session, Open(s), NEW r \in sess[s].rces, r.node = n,
           NEW i \in 1 .. Len(log), VersionAt(log, Len(log), s, sess[s].start, r, i), NEW h \in Nat, h = i - 1,
           \A q \in PendingOn(n) : r.id <= q.id, NEW j
    PROVE  j \in Writes(n) <=> (j \in 1 .. h /\ StandsOn(log, n, j, h))
<1>0. /\ LogOK /\ KeptTrx /\ Versions /\ LogTypes /\ Order /\ Len(log) \in Nat /\ Horizon = Len(log)
      /\ i \in Idx /\ i \in Nat /\ h <= Len(log) /\ h \in 0 .. Len(log)
  BY Numbers DEF StateInv, SessState, TrxState, RecInv, LogInv, Idx
<1>1. /\ log[i].t = "Node" /\ log[i].rceid = r.id /\ log[i].trx = sess[s].start /\ log[i].node = n
      /\ Stands(log, i, Len(log))
  BY DEF VersionAt
<1>2. ASSUME NEW g \in 0 .. Len(log) PROVE ~CommittedBy(log, kept, log[i].trx, g)
  BY <1>0, <1>1, OpenNotCommitted
<1>3. ASSUME j \in Writes(n) PROVE j \in 1 .. h /\ StandsOn(log, n, j, h)
  <2>1. j \in Idx /\ j \in Nat /\ j \in 1 .. Len(log) /\ log[j].t = "Node" /\ log[j].node = n
        /\ CommittedBy(log, kept, log[j].trx, Len(log))
    BY <1>3, WritesAre DEF Idx
  <2>2. Stands(log, j, Len(log))
    BY <2>1, CommittedStands
  <2>3. log[j].trx # log[i].trx
    <3>1. Len(log) \in 0 .. Len(log)
      BY <1>0
    <3> QED
      BY <1>2, <2>1, <3>1
  <2>4. ~(i < j)
    <3> SUFFICES ASSUME i < j PROVE FALSE
      OBVIOUS
    <3>1. NodeOK(log, kept, j)
      BY <1>0, <2>1 DEF LogOK, RecOK
    <3>2. i \in 1 .. (j - 1) /\ j - 1 \in 0 .. Len(log)
      BY <1>0, <2>1
    <3>3. \A k \in 1 .. (j - 1) : k \in 1 .. Len(log)
      BY <1>0, <2>1
    <3>4. StandsOn(log, log[j].node, i, j - 1)
      BY <1>1, <2>1, <3>3 DEF StandsOn, Stands
    <3>5. CommittedBy(log, kept, log[i].trx, j - 1)
      BY <2>3, <3>1, <3>2, <3>4 DEF NodeOK
    <3> QED
      BY <1>2, <3>2, <3>5
  <2>5. j \in 1 .. h
    BY <1>0, <2>1, <2>3, <2>4
  <2>6. \A k \in 1 .. h : k \in 1 .. Len(log)
    BY <1>0
  <2>7. StandsOn(log, n, j, h)
    BY <2>1, <2>2, <2>6 DEF StandsOn, Stands
  <2> QED
    BY <2>5, <2>7
<1>4. ASSUME j \in 1 .. h, StandsOn(log, n, j, h) PROVE j \in Writes(n)
  <2>1. j \in Idx /\ j \in Nat /\ j < i /\ j \in 1 .. Len(log) /\ log[j].t = "Node" /\ log[j].node = n /\ Stands(log, j, h)
    BY <1>0, <1>4 DEF StandsOn, Idx
  <2>2. NodeOK(log, kept, i) /\ NodeOK(log, kept, j)
    BY <1>0, <1>1, <2>1 DEF LogOK, RecOK
  <2>3. CASE log[j].trx # log[i].trx
    <3>1. CommittedBy(log, kept, log[j].trx, h)
      <4>1. \A x \in 1 .. h : StandsOn(log, n, x, h) /\ log[x].trx # log[i].trx => CommittedBy(log, kept, log[x].trx, h)
        BY <1>1, <2>2 DEF NodeOK
      <4> QED
        BY <1>4, <2>3, <4>1
    <3>2. CommittedBy(log, kept, log[j].trx, Len(log))
      BY <1>0, <3>1, CommittedLater
    <3> QED
      BY <2>1, <3>2, WritesAre
  <2>4. CASE log[j].trx = log[i].trx
    <3>1. ASSUME Stands(log, j, Len(log)) PROVE FALSE
      <4>1. StandsOn(log, n, j, Len(log))
        BY <2>1, <3>1 DEF StandsOn
      <4>2. Len(log) \in 0 .. Len(log)
        BY <1>0
      <4>3. PICK q \in PendingOn(n) : q.id = log[j].rceid
        BY <1>2, <2>1, <2>4, <4>1, <4>2, StandsFor
      <4>4. log[j].rceid = log[j].after /\ log[i].rceid = log[i].after
        BY <2>2 DEF NodeOK
      <4>5. log[j].after < log[i].after
        BY <1>0, <1>1, <2>1 DEF Order, PageRec
      <4>6. log[j].after \in Nat /\ log[i].after \in Nat
        BY <1>0, <2>1, OfLog
      <4>7. r.id <= q.id
        BY <4>3
      <4> QED
        BY <1>1, <4>3, <4>4, <4>5, <4>6, <4>7
    <3>2. ASSUME ~Stands(log, j, Len(log)) PROVE FALSE
      <4>1. PICK u \in 1 .. Len(log) : j < u /\ log[u].t = "Undo" /\ log[u].rceid = log[j].rceid
        BY <3>2 DEF Stands
      <4>2. u \in Idx /\ u \in Nat
        BY DEF Idx
      <4>3. i < u
        <5>1. ~(u \in 1 .. h)
          BY <2>1, <4>1 DEF Stands
        <5> QED
          BY <1>0, <1>1, <4>1, <4>2, <5>1
      <4>4. UndoOK(log, u)
        BY <1>0, <4>1, <4>2 DEF LogOK, RecOK
      <4>5. PICK x \in 1 .. (u - 1) : About(log, x, u) /\ \A y \in (x + 1) .. (u - 1) : ~StandsOn(log, log[u].node, y, u - 1)
        BY <4>4 DEF UndoOK
      <4>6. log[x].t = "Node" /\ log[x].rceid = log[j].rceid /\ log[x].node = log[u].node /\ x \in 1 .. Len(log)
        BY <1>0, <4>1, <4>2, <4>5 DEF About
      <4>7. x = j
        BY <1>0, <2>1, <4>6, Unique DEF UniqueIds
      <4>8. i \in (x + 1) .. (u - 1)
        BY <1>0, <2>1, <4>2, <4>3, <4>7
      <4>9. \A k \in 1 .. (u - 1) : k \in 1 .. Len(log)
        BY <1>0, <4>2 DEF Idx
      <4>10. StandsOn(log, n, i, u - 1)
        BY <1>1, <4>9 DEF StandsOn, Stands
      <4> QED
        BY <2>1, <4>5, <4>6, <4>7, <4>8, <4>10
    <3> QED
      BY <3>1, <3>2
  <2> QED
    BY <2>3, <2>4
<1> QED
  BY <1>3, <1>4

\* A node with versions of an open transaction.
LEMMA ChangedNode ==
    ASSUME RecInv, StateInv, mode = "run", NEW n \in Node, PendingOn(n) # {}
    PROVE  \E r \in PendingOn(n) : (\A q \in PendingOn(n) : r.id <= q.id) /\ r.before = ValueUnder(Committed, n)
<1>0. LogOK /\ Len(log) \in Nat
  BY Numbers DEF StateInv
<1>1. \A r \in PendingOn(n) : r.id \in Nat
  BY PendingOf
<1>2. PICK T : T = {r.id : r \in PendingOn(n)}
  OBVIOUS
<1>3. T \in SUBSET Nat /\ T # {}
  BY <1>1, <1>2
<1>4. PICK x \in T : \A y \in T : x <= y
  BY <1>3, LeastNat
<1>5. PICK r \in PendingOn(n) : r.id = x
  BY <1>2, <1>4
<1>6. \A q \in PendingOn(n) : r.id <= q.id
  BY <1>2, <1>4, <1>5
<1>7. PICK s \in Session : /\ Open(s) /\ r \in sess[s].rces /\ r.node = n
                           /\ \E i \in 1 .. Len(log) : VersionAt(log, Len(log), s, sess[s].start, r, i)
  BY <1>5, PendingOf
<1>8. PICK i \in 1 .. Len(log) : VersionAt(log, Len(log), s, sess[s].start, r, i)
  BY <1>7
<1>9. PICK h \in Nat : h = i - 1 /\ h \in 0 .. Len(log) /\ 1 .. h \in SUBSET Nat
  BY <1>0
<1>10. NetOK(log, h)
  BY <1>0, <1>9, NetAt
<1>11. PICK v \in Value : Shows(log, n, 1 .. h, v) /\ Nets(log, n, h, v)
  BY <1>10 DEF NetOK
<1>12. Shows(log, n, 1 .. h, r.before)
  BY <1>7, <1>8, <1>9 DEF VersionAt
<1>13. r.before = v
  BY <1>9, <1>11, <1>12, ShowsOne
<1>14. \A j : j \in Writes(n) <=> (j \in 1 .. h /\ StandsOn(log, n, j, h))
  BY <1>6, <1>7, <1>8, <1>9, PendingFirst
<1>15. ValueUnder(Committed, n) = v
  BY <1>9, <1>11, <1>14, ValueIs
<1> QED
  BY <1>6, <1>13, <1>15

\* The database is what the committed transactions made of it.
LEMMA StateRight == ASSUME RecInv, StateInv PROVE RecoveredState
<1> SUFFICES ASSUME mode = "run", NEW n \in Node
             PROVE  IF PendingOn(n) = {} THEN buf[PageOf[n]].pg.img[n] = ValueUnder(Committed, n)
                    ELSE \E r \in PendingOn(n) : /\ \A q \in PendingOn(n) : r.id <= q.id
                                                 /\ r.before = ValueUnder(Committed, n)
  BY DEF RecoveredState, StateUnder, PendingOn
<1> QED
  BY SettledNode, ChangedNode

-----------------------------------------------------------------------------
(* Theorems *)

\* Both invariants hold in every state.
LEMMA StateAlways == Spec => [](RecInv /\ StateInv)
<1>1. Init => RecInv /\ StateInv
  BY InitRec, InitState
<1>2. RecInv /\ StateInv /\ [Next]_vars => RecInv' /\ StateInv'
  BY StateNext
<1> QED
  BY <1>1, <1>2, PTL DEF Spec

\* What redo relies on, together.
LEMMA SoundNow == ASSUME RecInv, StateInv PROVE RecoverySound
<1>1. NoDeferredAtUndo
  BY DEF NoDeferredAtUndo, StateInv, SessState, Deferred
<1>2. TypeOK /\ RedoDbtimeMatches /\ DbtimeAdvances
  BY RecTypes, RecRedo, RecDbtime
<1>3. UndoFindsVersion
  BY FindsVersion
<1>4. WriteAhead
  BY DEF RecInv, PageInv
<1> QED
  BY <1>1, <1>2, <1>3, <1>4 DEF RecoverySound

\* Through any number of crashes, redo finds what it relies on: pages with the
\* dbtime that the records were logged for, a version for every Undo record
\* that it applies (the Assert of VERRedoPhysicalUndo), no version that still
\* waits for its undo information when redo is over (AssertNoDeferredRceid),
\* a dbtime counter ahead of the pages, and the log of all that is on disk.
THEOREM RecoverySoundAlways == Spec => []RecoverySound
<1>1. Spec => [](RecInv /\ StateInv)
  BY StateAlways
<1>2. RecInv /\ StateInv => RecoverySound
  BY SoundNow
<1> QED
  BY <1>1, <1>2, PTL

\* Outside of recovery every node holds what the committed transactions made
\* of it, less the changes of the open ones: recovery brings back every
\* committed change and takes away every other, whatever pages were on disk
\* and wherever the checkpoint was, and however often recovery itself crashed.
THEOREM RecoveredStateAlways == Spec => []RecoveredState
<1>1. Spec => [](RecInv /\ StateInv)
  BY StateAlways
<1>2. RecInv /\ StateInv => RecoveredState
  BY StateRight
<1> QED
  BY <1>1, <1>2, PTL
=============================================================================
