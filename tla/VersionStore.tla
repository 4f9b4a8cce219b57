---------------------------- MODULE VersionStore ----------------------------
(***************************************************************************)
(* The version store (ver.cxx, ver.hxx) with the transactions that drive   *)
(* it (dir.cxx, pib.hxx) and the tree operations that create versions      *)
(* (bt.cxx, node.cxx).                                                     *)
(*                                                                         *)
(* Every versioned operation on a node leaves a revision control entry     *)
(* (RCE) on the node's chain.  The page always holds the newest data; a    *)
(* reader looks past the entries it must not see and finds the image that  *)
(* was committed before it began.  Versions are made before the page is    *)
(* latched, a commit reaches the entries of the transaction one by one, a  *)
(* rollback undoes them one by one, and cleanup removes entries behind     *)
(* everybody's back.  Each of these is a step of its own here; what the    *)
(* code does under one page latch or one hash chain lock is one step.      *)
(*                                                                         *)
(* Abstractions.  A node is a bookmark of a unique tree and holds a number *)
(* (Insert and Replace set it, Delta adds to it).  The version bit of a    *)
(* node is left out: it only saves lookups of empty chains.  Transaction   *)
(* numbers do not wrap.  The commit record's way to the log comes before   *)
(* the steps of commit modelled here.                                      *)
(***************************************************************************)
EXTENDS Integers, Sequences, FiniteSets, FiniteSetsExt

CONSTANTS
    Session,      \* the sessions (PIBs)
    Node,         \* the bookmarks
    Data,         \* the numbers that Insert and Replace write
    DeltaBy,      \* the numbers that Delta adds
    Ops,          \* what sessions and background work do in this instance
    trxMax,       \* greater than every transaction number
    trxLast,      \* bound: the last transaction number that is drawn
    levelMax,     \* bound: the deepest transaction level
    rceidMax,     \* bound: the number of RCEs that are ever made
    QuietClean    \* TRUE: no transaction begins between the moment cleanup
                  \* finds that there is none and the end of that cleaning

Opers == {"PreInsert", "Insert", "Replace", "FlagDelete", "Delta", "ReadLock", "WriteLock"}

ASSUME VersionStoreAssumption ==
    /\ trxMax \in Nat /\ trxLast \in 0..(trxMax - 1) /\ levelMax \in Nat \ {0} /\ rceidMax \in Nat
    /\ Ops \subseteq (Opers \ {"PreInsert"}) \cup {"ReadOnly", "CreateIndex", "Expunge", "Clean"}
    /\ Data \subseteq Int /\ DeltaBy \subseteq Int
    /\ QuietClean \in BOOLEAN
    /\ IsFiniteSet(Session)

VARIABLES
    trxNewest,    \* INST::m_trxNewest
    level,        \* PIB::Level()
    trxBegin0,    \* PIB::trxBegin0, trxMax outside a transaction
    trxCommit0,   \* PIB::trxCommit0
    pc,           \* where a session is inside an operation
    local,        \* the id of its RCE under way, or the commit number it drew
    rce,          \* the RCEs that are not nullified
    rceidLast,    \* the RCE ids given out
    page,         \* the nodes on their pages
    clean,        \* the cleanup thread (ErrVERIRCEClean)
    indexLock     \* g_crefVERCreateIndexLock > 0

session == <<level, trxBegin0, trxCommit0, pc, local>>
store == <<rce, rceidLast>>
vars == <<trxNewest, session, store, page, clean, indexLock>>

TRXID_INCR == 4
trxPrecommit == -1

-----------------------------------------------------------------------------
(* Revision control entries *)

Chain(n) == {r \in rce : r.node = n}
Newest(R) == CHOOSE r \in R : \A q \in R : q.id <= r.id
Oldest(R) == CHOOSE r \in R : \A q \in R : q.id >= r.id

\* Slip: a reader does not wait while a commit number is being published.
TrxCommittedNoWait(r) ==
    IF r.full THEN r.trx
    ELSE IF trxCommit0[r.sess] # trxPrecommit THEN trxCommit0[r.sess] ELSE trxMax

\* An RCE shows the number in its session's PIB until the commit copies the
\* number into it.  While the PIB says trxPrecommit the caller waits: it gets the
\* number that the session has drawn, or, if it has yet to draw one, a number
\* beyond every transaction there is now.
TrxCommitted(r) ==
    IF r.full THEN r.trx
    ELSE IF trxCommit0[r.sess] # trxPrecommit THEN trxCommit0[r.sess]
    ELSE IF pc[r.sess] = "drawn" THEN local[r.sess]
    ELSE trxMax

\* Nobody has to wait for a number on this chain.
Settled(n) == \A r \in Chain(n) : r.full \/ trxCommit0[r.sess] # trxPrecommit

\* A reader is given by the set of sessions it is, {s} or {} for nobody in
\* particular, and by the number with which it began.
FActiveNotByMe(r, me, begin) ==
    \/ TrxCommitted(r) = trxMax /\ r.sess \notin me
    \/ TrxCommitted(r) # trxMax /\ TrxCommitted(r) > begin

\* The entries of a node that a reader looks at: from the newest back to the first
\* that had committed when it began.
Walk(n, begin) == {r \in Chain(n) : \A q \in Chain(n) : q.id >= r.id => TrxCommitted(q) > begin}

Commute == {"ReadLock", "Delta"}

\* Slip: what others have done below a version of our own is not looked at.
WriteConflictTopOnly(s, n, oper) ==
    LET top == Newest(Chain(n)) IN
    /\ Chain(n) # {}
    /\ FActiveNotByMe(top, {s}, trxBegin0[s])
    /\ oper \in Commute => \E r \in Walk(n, trxBegin0[s]) : r.oper # oper

FVERIWriteConflict(s, n, oper) ==
    LET top == Newest(Chain(n))
        active(r) == FActiveNotByMe(r, {s}, trxBegin0[s])
    IN
    /\ Chain(n) # {}
    /\ IF active(top)
       THEN oper \in Commute => \E r \in Walk(n, trxBegin0[s]) : r.oper # oper
       ELSE top.oper # oper /\ top.oper \in Commute /\ \E r \in Chain(n) : active(r)

NewRCE(s, n, oper, id, image) ==
    [id |-> id, node |-> n, oper |-> oper, sess |-> s, level |-> level[s],
     begin0 |-> trxBegin0[s], full |-> FALSE, trx |-> trxMax,
     image |-> image, delta |-> 0, rolled |-> FALSE]

ChangeRCE(r, q) == rce' = (rce \ {r}) \cup {q}

\* The RCEs on the session's list; those of its current level come first.
OfSession(s) == {r \in rce : r.sess = s /\ ~r.full}
OfLevel(s) == {r \in OfSession(s) : r.level = level[s]}

-----------------------------------------------------------------------------
(* Reading *)

Changes == {"Insert", "Replace", "FlagDelete", "PreInsert"}

\* The changes that a reader who began then must not see.
Unseen(n, begin) == {r \in Walk(n, begin) : ~r.rolled /\ r.oper \in Changes}

\* ErrVERAccessNode and ErrNDVisibleToCursor: the oldest change that must not be
\* seen says whether there is a node; the oldest replace, what it holds.  If all
\* of them are deltas, locks or rolled back, the newest version decides, and there
\* an insert hides the node even if it is rolled back.
AccessNode(me, begin, n) ==
    LET db == IF page[n].st = "live" THEN {page[n].data} ELSE {}
        top == Newest(Chain(n))
        unseen == Unseen(n, begin)
        last == IF unseen = {} THEN top ELSE Oldest(unseen)
        replaced == {r \in unseen : r.oper = "Replace"}
    IN  IF \/ Chain(n) = {}
           \/ TrxCommitted(top) = trxMax /\ top.sess \in me
           \/ TrxCommitted(top) < begin
        THEN db
        ELSE IF last.oper = "Insert" THEN {}
        ELSE IF last.rolled \/ last.oper \notin {"Replace", "FlagDelete"} THEN db
        ELSE IF replaced = {} THEN {page[n].data}
        ELSE {Oldest(replaced).image}

\* Takes back the active changes of others.  The walk goes from the newest to the
\* oldest and starts again from zero at every replace by somebody else.
DeltaVERGetDelta(me, begin, n) ==
    LET foreign == {r \in Chain(n) : FActiveNotByMe(r, me, begin)}
        deltas == {r \in foreign : r.oper = "Delta" /\ \A q \in foreign : q.oper = "Replace" => r.id < q.id}
    IN  MapThenSumSet(LAMBDA r : -r.delta, deltas)

\* What a reader finds in a node: {} if it sees no such node, {v} otherwise.
ReadAs(me, begin, n) == {v + DeltaVERGetDelta(me, begin, n) : v \in AccessNode(me, begin, n)}
Read(s, n) == ReadAs({s}, trxBegin0[s], n)

-----------------------------------------------------------------------------

absent == [st |-> "absent", data |-> 0]

\* Page cleanup has the page of the node write-latched while the node is "checked"
\* and "expunged"; who wants the page waits.
Latchable(n) == page[n].st \notin {"checked", "expunged"}

TypeOK ==
    /\ trxNewest \in Nat
    /\ level \in [Session -> 0..levelMax]
    /\ trxBegin0 \in [Session -> 0..trxMax]
    /\ trxCommit0 \in [Session -> trxPrecommit..trxMax]
    /\ pc \in [Session -> {"idle", "node", "precommit", "drawn", "stamp", "rollback", "expunge", "nullify"}]
    /\ local \in [Session -> Nat]
    /\ rceidLast \in 0..rceidMax
    /\ rce \subseteq [id : 1..rceidLast, node : Node, oper : Opers, sess : Session,
                      level : 0..levelMax, begin0 : 0..trxMax, full : BOOLEAN,
                      trx : 0..trxMax, image : Int, delta : Int, rolled : BOOLEAN]
    /\ page \in [Node -> [st : {"absent", "live", "deleted", "checked", "expunged"}, data : Int]]
    /\ clean \in [pc : {"idle", "scan", "nullify"}, oldest : 0..trxMax, id : Nat]
    /\ indexLock \in BOOLEAN

Init ==
    /\ trxNewest = 0
    /\ level = [s \in Session |-> 0]
    /\ trxBegin0 = [s \in Session |-> trxMax]
    /\ trxCommit0 = [s \in Session |-> trxMax]
    /\ pc = [s \in Session |-> "idle"]
    /\ local = [s \in Session |-> 0]
    /\ rce = {} /\ rceidLast = 0
    /\ page \in [Node -> {absent, [st |-> "live", data |-> 0]}]
    /\ clean = [pc |-> "idle", oldest |-> 0, id |-> 0]
    /\ indexLock = FALSE

Idle(s) == pc[s] = "idle"
InTrx(s) == Idle(s) /\ level[s] > 0

\* A transaction that only reads begins between two numbers.
FReadOnlyTrx(s) == trxBegin0[s] % TRXID_INCR # 0
MayWrite(s) == InTrx(s) /\ ~FReadOnlyTrx(s)

TrxOldest == Min({trxBegin0[s] : s \in Session} \cup {trxMax})

-----------------------------------------------------------------------------
(* Transactions *)

\* Bound: every transaction that is open, and this one, can still draw a number.
NumbersLeft ==
    trxNewest + TRXID_INCR * (2 + Cardinality({s \in Session : level[s] > 0 /\ pc[s] \notin {"drawn", "stamp"}})) <= trxLast

PIBSetTrxBegin0(s, begin) ==
    /\ Idle(s) /\ level[s] = 0
    /\ NumbersLeft
    /\ QuietClean => ~(clean.pc = "nullify" /\ clean.oldest = trxMax)
    /\ trxBegin0' = [trxBegin0 EXCEPT ![s] = begin]
    /\ trxCommit0' = [trxCommit0 EXCEPT ![s] = trxMax]
    /\ level' = [level EXCEPT ![s] = 1]
    /\ UNCHANGED <<pc, local, store, page, clean, indexLock>>

Begin(s) ==
    /\ PIBSetTrxBegin0(s, trxNewest + TRXID_INCR)
    /\ trxNewest' = trxNewest + TRXID_INCR

BeginReadOnly(s) ==
    /\ "ReadOnly" \in Ops
    /\ PIBSetTrxBegin0(s, trxNewest + TRXID_INCR \div 2)
    /\ UNCHANGED trxNewest

BeginNested(s) ==
    /\ InTrx(s) /\ level[s] < levelMax
    /\ level' = [level EXCEPT ![s] = @ + 1]
    /\ UNCHANGED <<trxNewest, trxBegin0, trxCommit0, pc, local, store, page, clean, indexLock>>

VERICommitTransactionToLevelGreaterThan0(s) ==
    /\ InTrx(s) /\ level[s] > 1
    /\ rce' = (rce \ OfLevel(s)) \cup {[r EXCEPT !.level = @ - 1] : r \in OfLevel(s)}
    /\ level' = [level EXCEPT ![s] = @ - 1]
    /\ UNCHANGED <<trxNewest, trxBegin0, trxCommit0, pc, local, rceidLast, page, clean, indexLock>>

\* The session leaves the list of transactions.  Nobody looks at its trxCommit0
\* until the next Begin sets it to trxMax, so it is set here.
PIBResetTrxBegin0(s) ==
    /\ level' = [level EXCEPT ![s] = 0]
    /\ trxBegin0' = [trxBegin0 EXCEPT ![s] = trxMax]
    /\ trxCommit0' = [trxCommit0 EXCEPT ![s] = trxMax]

CommitWithoutRCE(s) ==
    /\ InTrx(s) /\ level[s] = 1
    /\ OfSession(s) = {}
    /\ PIBResetTrxBegin0(s)
    /\ UNCHANGED <<trxNewest, pc, local, store, page, clean, indexLock>>

SetPrecommit(s) ==
    /\ InTrx(s) /\ level[s] = 1
    /\ OfSession(s) # {}
    /\ trxCommit0' = [trxCommit0 EXCEPT ![s] = trxPrecommit]
    /\ pc' = [pc EXCEPT ![s] = "precommit"]
    /\ UNCHANGED <<trxNewest, level, trxBegin0, local, store, page, clean, indexLock>>

DrawCommit0(s) ==
    /\ pc[s] = "precommit"
    /\ trxNewest' = trxNewest + TRXID_INCR
    /\ local' = [local EXCEPT ![s] = trxNewest + TRXID_INCR]
    /\ pc' = [pc EXCEPT ![s] = "drawn"]
    /\ UNCHANGED <<level, trxBegin0, trxCommit0, store, page, clean, indexLock>>

PublishCommit0(s) ==
    /\ pc[s] = "drawn"
    /\ trxCommit0' = [trxCommit0 EXCEPT ![s] = local[s]]
    /\ local' = [local EXCEPT ![s] = 0]
    /\ pc' = [pc EXCEPT ![s] = "stamp"]
    /\ UNCHANGED <<trxNewest, level, trxBegin0, store, page, clean, indexLock>>

VERICommitOneRCEToLevel0(s) ==
    /\ pc[s] = "stamp" /\ OfSession(s) # {}
    /\ LET r == Newest(OfSession(s))
       IN  ChangeRCE(r, [r EXCEPT !.full = TRUE, !.trx = trxCommit0[s], !.level = 0])
    /\ UNCHANGED <<trxNewest, session, rceidLast, page, clean, indexLock>>

EndCommit(s) ==
    /\ pc[s] = "stamp" /\ OfSession(s) = {}
    /\ PIBResetTrxBegin0(s)
    /\ pc' = [pc EXCEPT ![s] = "idle"]
    /\ UNCHANGED <<trxNewest, local, store, page, clean, indexLock>>

-----------------------------------------------------------------------------
(* Changing nodes *)

\* A version for s on n, unless another transaction is in the way.
ErrVERModify(s, n, oper, image) ==
    /\ MayWrite(s)
    /\ rceidLast < rceidMax
    /\ Settled(n)
    /\ ~FVERIWriteConflict(s, n, oper)
    /\ rce' = rce \cup {NewRCE(s, n, oper, rceidLast + 1, image)}
    /\ rceidLast' = rceidLast + 1

\* ErrBTReplace makes the version while it holds the page's write latch.
Replace(s, n) ==
    /\ "Replace" \in Ops /\ Latchable(n)
    /\ ErrVERModify(s, n, "Replace", page[n].data)
    /\ Read(s, n) # {}
    /\ \E v \in Data : page' = [page EXCEPT ![n].data = v]
    /\ UNCHANGED <<trxNewest, session, clean, indexLock>>

\* The others make it before they latch the page.
VersionFirst(s, n, oper) ==
    /\ ErrVERModify(s, n, oper, 0)
    /\ local' = [local EXCEPT ![s] = rceidLast + 1]
    /\ pc' = [pc EXCEPT ![s] = "node"]
    /\ UNCHANGED <<trxNewest, level, trxBegin0, trxCommit0, page, clean, indexLock>>

BeginFlagDelete(s, n) ==
    /\ "FlagDelete" \in Ops
    /\ VersionFirst(s, n, "FlagDelete")
    /\ Read(s, n) # {}

BeginDelta(s, n) ==
    /\ "Delta" \in Ops
    /\ VersionFirst(s, n, "Delta")
    /\ Read(s, n) # {}

BeginInsert(s, n) ==
    /\ "Insert" \in Ops
    /\ VersionFirst(s, n, "PreInsert")

Lock(s, n, oper) ==
    /\ oper \in Ops /\ Latchable(n)
    /\ ErrVERModify(s, n, oper, 0)
    /\ Read(s, n) # {}
    /\ UNCHANGED <<trxNewest, session, page, clean, indexLock>>

Underway(s) == CHOOSE r \in OfSession(s) : r.id = local[s]
AtNode(s, oper) == pc[s] = "node" /\ Underway(s).oper = oper

EndNode(s) ==
    /\ pc' = [pc EXCEPT ![s] = "idle"]
    /\ local' = [local EXCEPT ![s] = 0]
    /\ UNCHANGED <<trxNewest, level, trxBegin0, trxCommit0, clean, indexLock>>

ErrNDFlagDelete(s) ==
    /\ AtNode(s, "FlagDelete") /\ Latchable(Underway(s).node)
    /\ page' = [page EXCEPT ![Underway(s).node].st = "deleted"]
    /\ EndNode(s) /\ UNCHANGED store

\* The version gets its number together with the page.
ErrNDDelta(s) ==
    /\ AtNode(s, "Delta") /\ Latchable(Underway(s).node)
    /\ \E d \in DeltaBy :
          /\ page' = [page EXCEPT ![Underway(s).node].data = @ + d]
          /\ ChangeRCE(Underway(s), [Underway(s) EXCEPT !.delta = d])
    /\ EndNode(s) /\ UNCHANGED rceidLast

ErrNDInsert(s) ==
    LET n == Underway(s).node IN
    /\ AtNode(s, "PreInsert")
    /\ page[n].st = "absent"
    /\ \E v \in Data : page' = [page EXCEPT ![n] = [st |-> "live", data |-> v]]
    /\ ChangeRCE(Underway(s), [Underway(s) EXCEPT !.oper = "Insert"])
    /\ EndNode(s) /\ UNCHANGED rceidLast

\* A deleted node is still there: a second version keeps its data.
ErrNDFlagInsertAndReplaceData(s) ==
    LET r == Underway(s) n == r.node IN
    /\ AtNode(s, "PreInsert")
    /\ page[n].st = "deleted"
    /\ rceidLast < rceidMax
    /\ Settled(n) /\ ~FVERIWriteConflict(s, n, "Replace")
    /\ \E v \in Data : page' = [page EXCEPT ![n] = [st |-> "live", data |-> v]]
    /\ rce' = (rce \ {r}) \cup {[r EXCEPT !.oper = "Insert"], NewRCE(s, n, "Replace", rceidLast + 1, page[n].data)}
    /\ rceidLast' = rceidLast + 1
    /\ EndNode(s)

\* An operation that cannot go on (a duplicate key, an error on the way to the
\* page) takes its version back.
VERNullifyFailedDMLRCE(s) ==
    /\ pc[s] = "node"
    /\ rce' = rce \ {Underway(s)}
    /\ EndNode(s) /\ UNCHANGED <<rceidLast, page>>

-----------------------------------------------------------------------------
(* Rollback *)

StartRollback(s) ==
    /\ InTrx(s)
    /\ pc' = [pc EXCEPT ![s] = "rollback"]
    /\ UNCHANGED <<trxNewest, level, trxBegin0, trxCommit0, local, store, page, clean, indexLock>>

ToUndo(s) == {r \in OfLevel(s) : ~r.rolled}

\* The node after the change is undone.
Undone(r) ==
    LET p == page[r.node] IN
    CASE r.oper = "Replace" -> [p EXCEPT !.data = r.image]
      [] r.oper = "Insert" -> [p EXCEPT !.st = "deleted"]
      [] r.oper = "FlagDelete" -> [p EXCEPT !.st = "live"]
      [] r.oper = "Delta" -> [p EXCEPT !.data = @ - r.delta]
      [] r.oper \in {"ReadLock", "WriteLock"} -> p

\* A version that a concurrent create-index may be looking at stays, flagged.
VERINullifyRolledBackRCE(r) ==
    IF indexLock /\ r.oper \in {"Insert", "Replace", "FlagDelete"}
    THEN ChangeRCE(r, [r EXCEPT !.rolled = TRUE])
    ELSE rce' = rce \ {r}

\* The page and its version change under one write latch.
ErrVERITryUndoLoggedOper(s) ==
    /\ pc[s] = "rollback" /\ ToUndo(s) # {}
    /\ LET r == Newest(ToUndo(s)) IN
          /\ Latchable(r.node)
          /\ page' = [page EXCEPT ![r.node] = Undone(r)]
          /\ VERINullifyRolledBackRCE(r)
    /\ UNCHANGED <<trxNewest, session, rceidLast, clean, indexLock>>

\* The second pass waits for the create-index to finish.
NullifyKeptRCE(s) ==
    /\ pc[s] = "rollback" /\ ToUndo(s) = {} /\ OfLevel(s) # {}
    /\ ~indexLock
    /\ VERINullifyRolledBackRCE(Newest(OfLevel(s)))
    /\ UNCHANGED <<trxNewest, session, rceidLast, page, clean, indexLock>>

EndRollback(s) ==
    /\ pc[s] = "rollback" /\ OfLevel(s) = {}
    /\ pc' = [pc EXCEPT ![s] = "idle"]
    /\ IF level[s] = 1
       THEN PIBResetTrxBegin0(s)
       ELSE level' = [level EXCEPT ![s] = @ - 1] /\ UNCHANGED <<trxBegin0, trxCommit0>>
    /\ UNCHANGED <<trxNewest, local, store, page, clean, indexLock>>

CreateIndexLock ==
    /\ "CreateIndex" \in Ops
    /\ indexLock' = ~indexLock
    /\ UNCHANGED <<trxNewest, session, store, page, clean>>

-----------------------------------------------------------------------------
(* Cleanup *)

FVERActive(n) == \E r \in Chain(n) : TrxCommitted(r) > TrxOldest

\* Page cleanup inside some transaction, under the write latch of the page: a
\* deleted node is looked at and found to have no active version ...
ErrBTISPCDeleteNodes(s, n) ==
    /\ "Expunge" \in Ops
    /\ InTrx(s)
    /\ page[n].st = "deleted"
    /\ Settled(n) /\ ~FVERActive(n)
    /\ page' = [page EXCEPT ![n].st = "checked"]
    /\ pc' = [pc EXCEPT ![s] = "expunge"]
    /\ UNCHANGED <<trxNewest, level, trxBegin0, trxCommit0, local, store, clean, indexLock>>

\* ... it leaves the page, whatever versions it has been given since (when several
\* sessions are at this, it does not matter here which has which node) ...
ErrNDDelete(s, n) ==
    /\ pc[s] = "expunge" /\ page[n].st = "checked"
    /\ page' = [page EXCEPT ![n] = [st |-> "expunged", data |-> 0]]
    /\ pc' = [pc EXCEPT ![s] = "nullify"]
    /\ UNCHANGED <<trxNewest, level, trxBegin0, trxCommit0, local, store, clean, indexLock>>

\* ... and with it go those that nobody needs.
VERNullifyInactiveVersionsOnBM(s, n) ==
    /\ pc[s] = "nullify" /\ page[n].st = "expunged"
    /\ Settled(n)
    /\ rce' = {r \in rce : r.node = n => TrxCommitted(r) >= TrxOldest}
    /\ page' = [page EXCEPT ![n] = absent]
    /\ pc' = [pc EXCEPT ![s] = "idle"]
    /\ UNCHANGED <<trxNewest, level, trxBegin0, trxCommit0, local, rceidLast, clean, indexLock>>

StartClean ==
    /\ "Clean" \in Ops
    /\ clean.pc = "idle" /\ rce # {}
    /\ clean' = [pc |-> "scan", oldest |-> TrxOldest, id |-> 0]
    /\ UNCHANGED <<trxNewest, session, store, page, indexLock>>

StopClean == clean' = [pc |-> "idle", oldest |-> 0, id |-> 0]

\* Slip: an RCE counts as cleanable when nobody began before it was made.
ScanByBegin ==
    /\ clean.pc = "scan"
    /\ IF rce = {} \/ ~Oldest(rce).full \/ Oldest(rce).begin0 > TrxOldest
       THEN StopClean
       ELSE clean' = [pc |-> "nullify", oldest |-> TrxOldest, id |-> Oldest(rce).id]
    /\ UNCHANGED <<trxNewest, session, store, page, indexLock>>

\* From the oldest RCE on, up to the first that cannot be cleaned.  The cached
\* oldest transaction is read again if there was none, and once more if it is in
\* the way.
ErrVERIRCEClean ==
    LET r == Oldest(rce)
        oldest1 == IF clean.oldest = trxMax THEN TrxOldest ELSE clean.oldest
        oldest2 == IF r.trx < oldest1 THEN oldest1 ELSE TrxOldest
    IN
    /\ clean.pc = "scan"
    /\ IF rce = {} \/ ~r.full \/ r.trx >= oldest2
       THEN StopClean
       ELSE clean' = [pc |-> "nullify", oldest |-> oldest2, id |-> r.id]
    /\ UNCHANGED <<trxNewest, session, store, page, indexLock>>

\* The RCE goes, unless page cleanup was faster, and with it the RCEs that follow
\* it on its node, up to the first that is not old enough or needs more work.
ErrPrepareToDeallocate ==
    LET this == {r \in rce : r.id = clean.id}
        next == {q \in rce : \E r \in this : q.node = r.node /\ q.id > r.id}
        stop == {q \in next : ~q.full \/ q.trx >= clean.oldest \/ q.oper \in {"FlagDelete", "Delta"}}
        along == {q \in next : \A p \in stop : q.id < p.id}
    IN
    /\ clean.pc = "nullify"
    /\ rce' = rce \ (this \cup along)
    /\ clean' = [clean EXCEPT !.pc = "scan", !.id = 0]
    /\ UNCHANGED <<trxNewest, session, rceidLast, page, indexLock>>

-----------------------------------------------------------------------------

TransactionStep(s) ==
    \/ Begin(s) \/ BeginReadOnly(s) \/ BeginNested(s)
    \/ VERICommitTransactionToLevelGreaterThan0(s)
    \/ CommitWithoutRCE(s) \/ SetPrecommit(s) \/ DrawCommit0(s) \/ PublishCommit0(s)
    \/ VERICommitOneRCEToLevel0(s) \/ EndCommit(s)

NodeStep(s) ==
    \/ \E n \in Node :
          \/ Replace(s, n) \/ BeginFlagDelete(s, n) \/ BeginDelta(s, n) \/ BeginInsert(s, n)
          \/ \E oper \in {"ReadLock", "WriteLock"} : Lock(s, n, oper)
          \/ ErrBTISPCDeleteNodes(s, n) \/ ErrNDDelete(s, n) \/ VERNullifyInactiveVersionsOnBM(s, n)
    \/ ErrNDFlagDelete(s) \/ ErrNDDelta(s) \/ ErrNDInsert(s)
    \/ ErrNDFlagInsertAndReplaceData(s) \/ VERNullifyFailedDMLRCE(s)

RollbackStep(s) ==
    \/ StartRollback(s) \/ ErrVERITryUndoLoggedOper(s)
    \/ NullifyKeptRCE(s) \/ EndRollback(s)

Next ==
    \/ \E s \in Session : TransactionStep(s) \/ NodeStep(s) \/ RollbackStep(s)
    \/ CreateIndexLock
    \/ StartClean \/ ErrVERIRCEClean \/ ErrPrepareToDeallocate

Spec == Init /\ [][Next]_vars

-----------------------------------------------------------------------------
(* Properties *)

\* First updater wins: when a transaction has made a version on a node, every
\* older version there by another transaction had committed before it began,
\* unless both are deltas or read locks (FVERIWriteConflict, asked before any RCE
\* enters a chain).
FirstUpdaterWins ==
    \A r, q \in rce :
        r.node = q.node /\ r.id < q.id /\ r.begin0 # q.begin0 /\ ~({r.oper, q.oper} \subseteq Commute)
        => TrxCommitted(r) < q.begin0

\* The versions of every node are well formed, and the first updater won.
VersionsSound == TypeOK /\ FirstUpdaterWins

\* Version cleanup and page cleanup nullify a committed RCE only when it had
\* committed before every open transaction began ("We only clean up the RCEs that
\* has a commit timestamp older that the oldest XactBegin of any user"); and when
\* page cleanup takes a node away, every version it has is as old, but for those of
\* inserts that wait for the page (bt.cxx:13305).
CleansOnlyOld ==
    [][/\ \A r \in rce : r.full /\ (\A q \in rce' : q.id # r.id) => r.trx < TrxOldest
       /\ \A n \in Node : page[n].st = "checked" /\ page'[n].st = "expunged" =>
            \A r \in Chain(n) : r.oper = "PreInsert" \/ TrxCommitted(r) < TrxOldest]_vars

\* "when a transaction begins, it sees the database as it was": cleanup takes no
\* version away that changes what an open transaction reads.
CleanupInvisible ==
    [][clean' # clean => \A s \in Session, n \in Node : InTrx(s) => Read(s, n)' = Read(s, n)]_vars

\* "we can only do this modification if all the active RCE's in the chain are of
\* this type": a delta and a read lock meet on a chain only if one had committed
\* before the other's transaction began.
CommuteAlike ==
    \A r, q \in rce :
        r.node = q.node /\ r.id < q.id /\ r.begin0 # q.begin0 /\ {r.oper, q.oper} = Commute
        => TrxCommitted(r) < q.begin0

\* What an open transaction reads does not change while another session undoes
\* its changes and nullifies their versions ("if the RCE was rolled back, then
\* it's just as if the node was unversioned").
RollbackInvisible ==
    [][\A s, t \in Session, n \in Node :
           s # t /\ pc[s] = "rollback" /\ (OfSession(s) # OfSession(s)') /\ InTrx(t)
           => Read(t, n)' = Read(t, n)]_vars

-----------------------------------------------------------------------------
(* Refinement *)

\* What s had on n at level l: its own changes above that level taken back.
ReadAtLevel(s, n, l) ==
    LET above == {r \in OfSession(s) : r.node = n /\ r.level > l /\ ~r.rolled /\ r.oper \notin {"PreInsert", "ReadLock", "WriteLock"}}
        replaced == {r \in above : r.oper = "Replace"}
        before == IF replaced = {} THEN above ELSE {r \in above : r.id < Oldest(replaced).id}
        data == IF replaced = {} THEN page[n].data + DeltaVERGetDelta({s}, trxBegin0[s], n) ELSE Oldest(replaced).image
    IN  IF above = {} THEN Read(s, n)
        ELSE IF Oldest(above).oper = "Insert" THEN {}
        ELSE {data - MapThenSumSet(LAMBDA r : r.delta, before)}

\* A transaction begins to see a commit when the number is drawn, and a rollback
\* takes effect for its session when it starts.
OpenLevels(s) ==
    CASE level[s] = 0 \/ pc[s] \in {"drawn", "stamp"} -> 0
      [] pc[s] = "rollback" -> IF level[s] = 1 THEN 0 ELSE level[s]
      [] OTHER -> level[s] + 1

SI == INSTANCE SnapshotIsolation WITH
    committed <- [n \in Node |-> ReadAs({}, trxNewest + TRXID_INCR \div 2, n)],
    view <- [s \in Session |-> [i \in 1..OpenLevels(s) |-> [n \in Node |-> ReadAtLevel(s, n, i - 1)]]]

\* The version store implements snapshot isolation: at every moment each open
\* transaction reads the database as it was when the transaction began, with its
\* own changes on top, whatever commits, rollbacks and cleanups are half done.
ImplementsSI == SI!Spec
=============================================================================
