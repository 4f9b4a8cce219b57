------------------------- MODULE VersionStore_proofs -------------------------
(***************************************************************************)
(* Proofs about the version store, for every number of sessions, nodes,    *)
(* levels and RCEs: the first updater of a node wins, and cleanup takes    *)
(* only what every open transaction can see.                               *)
(*                                                                         *)
(* The argument is about numbers.  A number that an RCE shows as its       *)
(* commit is drawn after the number with which its transaction began; no   *)
(* open transaction began with it; and two RCEs of one transaction always  *)
(* show the same one, also while the commit copies it into them one by     *)
(* one.                                                                    *)
(***************************************************************************)
EXTENDS VersionStore, TLAPS, FiniteSetTheorems, WellFoundedInduction

-----------------------------------------------------------------------------
(* The inductive invariant *)

Waiting == {"idle", "node", "rollback", "expunge", "nullify"}

\* What a session has drawn fits the step of commit at which it is.
SessionInv(s) ==
    /\ level[s] = 0 <=> trxBegin0[s] = trxMax
    /\ level[s] = 0 => pc[s] = "idle"
    /\ pc[s] \in Waiting => trxCommit0[s] = trxMax
    /\ pc[s] \in {"precommit", "drawn"} => trxCommit0[s] = trxPrecommit
    /\ pc[s] \notin Waiting => level[s] = 1
    /\ pc[s] = "drawn" => trxBegin0[s] < local[s] /\ local[s] <= trxNewest
    /\ pc[s] = "stamp" => trxBegin0[s] < trxCommit0[s] /\ trxCommit0[s] <= trxNewest
    /\ level[s] > 0 => trxBegin0[s] <= trxNewest + TRXID_INCR \div 2
    /\ level[s] > 0 /\ ~FReadOnlyTrx(s) => trxBegin0[s] <= trxNewest

\* Two transactions that write began with different numbers.
BeginsDiffer ==
    \A s, t \in Session : s # t /\ level[s] > 0 /\ level[t] > 0 /\ ~FReadOnlyTrx(s) => trxBegin0[s] # trxBegin0[t]

\* The transactions that have yet to draw a commit number, and room for them all.
ToDraw == {s \in Session : level[s] > 0 /\ pc[s] \notin {"drawn", "stamp"}}
NumbersInv ==
    /\ trxNewest % TRXID_INCR = 0
    /\ trxNewest + TRXID_INCR * Cardinality(ToDraw) <= trxLast

\* An RCE against the sessions.
RowInv(r) ==
    /\ r.begin0 <= trxNewest /\ r.begin0 % TRXID_INCR = 0
    /\ r.begin0 < TrxCommitted(r)
    /\ TrxCommitted(r) <= trxNewest \/ TrxCommitted(r) = trxMax
    /\ r.full => r.trx <= trxNewest
    /\ ~r.full => /\ level[r.sess] > 0
                  /\ r.begin0 = trxBegin0[r.sess]
                  /\ r.level \in 1..level[r.sess]
    /\ \A s \in Session : level[s] > 0 => TrxCommitted(r) # trxBegin0[s]
    /\ \A s \in Session : level[s] > 0 /\ r.begin0 = trxBegin0[s] => r.sess = s /\ (r.full => pc[s] = "stamp")
    /\ r.oper = "PreInsert" => ~r.full /\ pc[r.sess] = "node" /\ r.id = local[r.sess]

\* Two RCEs against each other.
IdsDiffer == \A r, q \in rce : r.id = q.id => r = q
OneCommit == \A r, q \in rce : r.begin0 = q.begin0 => TrxCommitted(r) = TrxCommitted(q)

\* A session on its way to a page has its RCE.
NodeInv == \A s \in Session : pc[s] = "node" => \E r \in OfSession(s) : r.id = local[s]

\* Cleanup holds a transaction number that is not beyond an open transaction, and
\* an RCE that had committed before it.
CleanInv ==
    /\ clean.id <= rceidLast
    /\ clean.oldest # trxMax => clean.oldest <= trxNewest + TRXID_INCR \div 2
    /\ clean.pc = "scan" => clean.oldest = trxMax \/ \A s \in Session : clean.oldest <= trxBegin0[s]
    /\ clean.pc = "nullify" =>
          /\ QuietClean \/ clean.oldest # trxMax => \A s \in Session : clean.oldest <= trxBegin0[s]
          /\ \A r \in rce : r.id = clean.id => r.full /\ r.trx < clean.oldest

IInv ==
    /\ TypeOK
    /\ (\A s \in Session : SessionInv(s)) /\ BeginsDiffer /\ NumbersInv
    /\ (\A r \in rce : RowInv(r)) /\ IdsDiffer /\ OneCommit /\ FirstUpdaterWins
    /\ NodeInv /\ CleanInv

-----------------------------------------------------------------------------
(* Least and greatest elements *)

\* A set of natural numbers that is not empty has a least element.
LEMMA LeastNat ==
    ASSUME NEW S, S \subseteq Nat, S # {}
    PROVE  \E x \in S : \A y \in S : x <= y
<1> DEFINE lt == OpToRel(<, Nat)
<1>1. IsWellFoundedOn(lt, Nat)
  BY NatLessThanWellFounded
<1>2. \A x, y \in Nat : x < y => <<x, y>> \in lt
  BY DEF OpToRel
<1> HIDE DEF lt
<1>3. \E x \in S : \A y \in S : ~(<<y, x>> \in lt)
  BY <1>1, WFMin
<1>4. PICK x \in S : \A y \in S : ~(<<y, x>> \in lt)
  BY <1>3
<1>5. ASSUME NEW y \in S
      PROVE  x <= y
  <2>1. x \in Nat /\ y \in Nat
    OBVIOUS
  <2>2. ~(y < x)
    BY <2>1, <1>2, <1>4
  <2> QED
    BY <2>1, <2>2
<1> QED
  BY <1>5

\* A set of RCEs that is not empty has a newest and an oldest element, and these
\* are what Newest and Oldest choose.
LEMMA NewestIs ==
    ASSUME NEW R, NEW m \in Nat, R # {}, \A r \in R : r.id \in 1..m
    PROVE  Newest(R) \in R /\ \A q \in R : q.id <= Newest(R).id
<1> DEFINE D == {m - r.id : r \in R}
<1>1. D \subseteq Nat /\ D # {}
  OBVIOUS
<1>2. PICK d \in D : \A e \in D : d <= e
  BY <1>1, LeastNat
<1>3. PICK r \in R : d = m - r.id
  BY <1>2
<1>4. ASSUME NEW q \in R
      PROVE  q.id <= r.id
  <2>1. m - q.id \in D
    OBVIOUS
  <2>2. m - r.id <= m - q.id
    BY <2>1, <1>2, <1>3
  <2> QED
    BY <2>2
<1>5. \E x \in R : \A q \in R : q.id <= x.id
  BY <1>4
<1> QED
  BY <1>5 DEF Newest

\* The oldest of some RCEs is one of them, and none of them is older.
LEMMA OldestIs ==
    ASSUME NEW R, NEW m \in Nat, R # {}, \A r \in R : r.id \in 1..m
    PROVE  Oldest(R) \in R /\ \A q \in R : q.id >= Oldest(R).id
<1> DEFINE D == {r.id : r \in R}
<1>1. D \subseteq Nat /\ D # {}
  OBVIOUS
<1>2. PICK d \in D : \A e \in D : d <= e
  BY <1>1, LeastNat
<1>3. PICK r \in R : d = r.id
  BY <1>2
<1>4. \A q \in R : q.id >= r.id
  BY <1>2, <1>3
<1>5. \E x \in R : \A q \in R : q.id >= x.id
  BY <1>4
<1> QED
  BY <1>5 DEF Oldest

\* TrxOldest is the least number with which an open transaction began, trxMax if
\* there is none.
LEMMA TrxOldestIs ==
    ASSUME TypeOK
    PROVE  /\ TrxOldest \in 0..trxMax
           /\ \A s \in Session : TrxOldest <= trxBegin0[s]
           /\ TrxOldest = trxMax \/ \E s \in Session : TrxOldest = trxBegin0[s]
<1> DEFINE B == {trxBegin0[s] : s \in Session} \cup {trxMax}
<1>1. trxMax \in Nat /\ \A s \in Session : trxBegin0[s] \in 0..trxMax
  BY VersionStoreAssumption DEF TypeOK
<1>2. B \subseteq Nat /\ B # {} /\ \A b \in B : b \in 0..trxMax
  BY <1>1
<1>3. \E x \in B : \A y \in B : x <= y
  BY <1>2, LeastNat
<1>4. TrxOldest \in B /\ \A y \in B : TrxOldest <= y
  BY <1>3 DEF TrxOldest, Min
<1> QED
  BY <1>2, <1>4

-----------------------------------------------------------------------------
(* Types, and what the numbers are *)

RCEs(last) ==
    [id : 1..last, node : Node, oper : Opers, sess : Session, level : 0..levelMax, begin0 : 0..trxMax,
     full : BOOLEAN, trx : 0..trxMax, image : Int, delta : Int, rolled : BOOLEAN]

\* The fields of an RCE.
LEMMA RowType ==
    ASSUME TypeOK, NEW r \in rce
    PROVE  /\ r \in RCEs(rceidLast)
           /\ r.id \in 1..rceidLast /\ r.id \in Nat /\ r.node \in Node /\ r.oper \in Opers /\ r.sess \in Session
           /\ r.level \in 0..levelMax /\ r.begin0 \in 0..trxMax /\ r.full \in BOOLEAN
           /\ r.trx \in 0..trxMax /\ r.image \in Int /\ r.delta \in Int /\ r.rolled \in BOOLEAN
<1>1. r \in RCEs(rceidLast)
  BY DEF TypeOK, RCEs
<1>2. rceidLast \in Nat
  BY VersionStoreAssumption DEF TypeOK
<1>3. /\ r.id \in 1..rceidLast /\ r.node \in Node /\ r.oper \in Opers /\ r.sess \in Session
      /\ r.level \in 0..levelMax /\ r.begin0 \in 0..trxMax /\ r.full \in BOOLEAN
      /\ r.trx \in 0..trxMax /\ r.image \in Int /\ r.delta \in Int /\ r.rolled \in BOOLEAN
  BY <1>1 DEF RCEs
<1> QED
  BY <1>1, <1>2, <1>3

\* Everything about one session.
LEMMA SessionType ==
    ASSUME TypeOK, NEW s \in Session
    PROVE  /\ trxNewest \in Nat /\ trxMax \in Nat /\ trxLast \in Nat /\ trxLast < trxMax
           /\ level[s] \in Nat /\ level[s] \in 0..levelMax /\ levelMax \in Nat
           /\ trxBegin0[s] \in Nat /\ trxBegin0[s] \in 0..trxMax
           /\ trxCommit0[s] \in Int /\ trxCommit0[s] \in -1..trxMax /\ local[s] \in Nat
           /\ pc[s] \in {"idle", "node", "precommit", "drawn", "stamp", "rollback", "expunge", "nullify"}
BY VersionStoreAssumption DEF TypeOK, trxPrecommit

\* The sessions that have still to draw a number for their commit are finitely many.
LEMMA ToDrawType ==
    /\ IsFiniteSet(ToDraw) /\ Cardinality(ToDraw) \in Nat
    /\ IsFiniteSet(ToDraw)' /\ Cardinality(ToDraw)' \in Nat
<1>1. IsFiniteSet(Session)
  BY VersionStoreAssumption
<1>2. ToDraw \in SUBSET Session /\ ToDraw' \in SUBSET Session
  BY DEF ToDraw
<1>3. IsFiniteSet(ToDraw) /\ IsFiniteSet(ToDraw')
  BY <1>1, <1>2, FS_Subset
<1> QED
  BY <1>3, FS_CardinalityType

\* Numbers that are drawn stay below trxMax.
LEMMA NewestBelowMax ==
    ASSUME TypeOK, NumbersInv
    PROVE  trxNewest <= trxLast /\ trxNewest < trxMax /\ trxNewest \in Nat /\ trxLast \in Nat /\ trxMax \in Nat
<1>1. trxNewest \in Nat /\ trxMax \in Nat /\ trxLast \in Nat /\ trxLast < trxMax
  BY VersionStoreAssumption DEF TypeOK
<1>2. trxNewest + 4 * Cardinality(ToDraw) <= trxLast
  BY DEF NumbersInv, TRXID_INCR
<1>3. Cardinality(ToDraw) \in Nat
  BY ToDrawType
<1> QED
  BY <1>1, <1>2, <1>3

\* What an RCE shows.
LEMMA CommittedType ==
    ASSUME IInv, NEW r \in rce
    PROVE  TrxCommitted(r) \in Nat /\ TrxCommitted(r) \in 0..trxMax
<1>1. r.full \in BOOLEAN /\ r.trx \in 0..trxMax /\ r.sess \in Session
  BY RowType DEF IInv
<1>2. trxMax \in Nat /\ trxNewest < trxMax /\ trxNewest \in Nat
  BY NewestBelowMax DEF IInv
<1>3. trxCommit0[r.sess] \in -1..trxMax /\ local[r.sess] \in Nat
  BY <1>1, SessionType DEF IInv
<1>4. pc[r.sess] = "drawn" => local[r.sess] <= trxNewest
  BY <1>1 DEF IInv, SessionInv
<1> QED
  BY <1>1, <1>2, <1>3, <1>4 DEF TrxCommitted, trxPrecommit

\* The versions that FVERIWriteConflict lets pass: what stands on the chain had
\* committed before the session began, unless it is its own or commutes with
\* the new version.
LEMMA ConflictFree ==
    ASSUME IInv, NEW s \in Session, level[s] > 0, NEW n \in Node, NEW oper,
           ~FVERIWriteConflict(s, n, oper), NEW r \in Chain(n), r.begin0 # trxBegin0[s],
           ~({r.oper, oper} \subseteq Commute)
    PROVE  TrxCommitted(r) < trxBegin0[s]
<1> DEFINE top == Newest(Chain(n))
           active(q) == FActiveNotByMe(q, {s}, trxBegin0[s])
<1>1. Chain(n) \subseteq rce /\ Chain(n) # {} /\ r \in rce /\ r.node = n
  BY DEF Chain
<1>2. rceidLast \in Nat /\ \A q \in Chain(n) : q.id \in 1..rceidLast
  BY <1>1, RowType, VersionStoreAssumption DEF IInv, TypeOK
<1>3. top \in Chain(n) /\ \A q \in Chain(n) : q.id <= top.id
  BY <1>1, <1>2, NewestIs
<1>4. PICK t \in Chain(n) : t = top
  BY <1>3
<1>5. trxBegin0[s] \in Nat /\ trxBegin0[s] < trxMax /\ trxMax \in Nat
  <2>1. trxBegin0[s] \in 0..trxMax /\ trxBegin0[s] \in Nat /\ level[s] \in Nat /\ trxMax \in Nat
    BY SessionType DEF IInv
  <2>2. level[s] = 0 <=> trxBegin0[s] = trxMax
    BY DEF IInv, SessionInv
  <2> QED
    BY <2>1, <2>2
<1>6. ASSUME NEW q \in Chain(n)
      PROVE  /\ q \in rce /\ q.node = n /\ TrxCommitted(q) \in Nat /\ TrxCommitted(q) <= trxMax
             /\ q.begin0 \in Nat /\ q.begin0 < TrxCommitted(q) /\ TrxCommitted(q) # trxBegin0[s]
             /\ q.id \in Nat
  <2>1. q \in rce /\ q.node = n
    BY DEF Chain
  <2>2. q.begin0 < TrxCommitted(q) /\ TrxCommitted(q) # trxBegin0[s]
    BY <2>1 DEF IInv, RowInv
  <2>3. TrxCommitted(q) \in Nat /\ TrxCommitted(q) \in 0..trxMax
    BY <2>1, CommittedType
  <2>4. q.begin0 \in 0..trxMax /\ q.id \in Nat
    BY <2>1, RowType DEF IInv
  <2> QED
    BY <2>1, <2>2, <2>3, <2>4
\* Of the session's own versions only the begin number matters here.
<1>7. ASSUME NEW q \in Chain(n), TrxCommitted(q) = trxMax, q.sess = s
      PROVE  q.begin0 = trxBegin0[s]
  <2>1. q \in rce
    BY <1>6
  <2>2. trxNewest < trxMax /\ trxNewest \in Nat
    BY NewestBelowMax DEF IInv
  <2>3. RowInv(q)
    BY <2>1 DEF IInv
  <2>4. q.full => q.trx <= trxNewest /\ TrxCommitted(q) = q.trx
    BY <2>3 DEF RowInv, TrxCommitted
  <2>5. q.trx \in 0..trxMax /\ q.full \in BOOLEAN
    BY <2>1, RowType DEF IInv
  <2>6. ASSUME q.full
        PROVE  FALSE
    <3>1. q.trx <= trxNewest /\ TrxCommitted(q) = q.trx
      BY <2>4, <2>6
    <3> QED
      BY <3>1, <2>2, <2>5, <1>7
  <2>7. ~q.full => q.begin0 = trxBegin0[q.sess]
    BY <2>3 DEF RowInv
  <2> QED
    BY <2>6, <2>7, <1>1, <1>7
\* A version below one of another kind shows no later number than that one.
<1>8. ASSUME NEW q \in Chain(n), r.id <= q.id, ~({r.oper, q.oper} \subseteq Commute) \/ r.id = q.id
      PROVE  (TrxCommitted(r) = TrxCommitted(q) /\ r.begin0 = q.begin0) \/ TrxCommitted(r) < q.begin0
  <2>1. q \in rce /\ q.node = n /\ q.id \in Nat /\ r.id \in Nat
    BY <1>6, <1>1
  <2>2. CASE r.id = q.id
    <3>1. r = q
      BY <2>1, <2>2, <1>1 DEF IInv, IdsDiffer
    <3> QED
      BY <3>1
  <2>3. CASE r.begin0 = q.begin0
    BY <2>1, <2>3, <1>1 DEF IInv, OneCommit
  <2>4. CASE r.id < q.id /\ r.begin0 # q.begin0 /\ ~({r.oper, q.oper} \subseteq Commute)
    BY <2>1, <2>4, <1>1 DEF IInv, FirstUpdaterWins
  <2>5. r.id = q.id \/ r.id < q.id
    BY <2>1, <1>8
  <2> QED
    BY <2>2, <2>3, <2>4, <2>5, <1>8
<1>9. CASE active(top)
  <2>1. oper \in Commute /\ \A q \in Walk(n, trxBegin0[s]) : q.oper = oper
    BY <1>9, <1>1 DEF FVERIWriteConflict
  <2>2. r.oper \notin Commute
    BY <2>1
  <2>3. r \notin Walk(n, trxBegin0[s])
    BY <2>1, <2>2
  <2>4. PICK q \in Chain(n) : q.id >= r.id /\ ~(TrxCommitted(q) > trxBegin0[s])
    BY <2>3 DEF Walk
  <2>5. TrxCommitted(q) < trxBegin0[s] /\ q.begin0 < TrxCommitted(q) /\ q.begin0 \in Nat /\ TrxCommitted(q) \in Nat
    BY <2>4, <1>5, <1>6
  <2>6. r.id <= q.id
    BY <2>4, <1>6
  <2>7. (TrxCommitted(r) = TrxCommitted(q) /\ r.begin0 = q.begin0) \/ TrxCommitted(r) < q.begin0
    BY <2>2, <2>6, <1>8
  <2> QED
    BY <2>5, <2>7, <1>5, <1>6
<1>10. CASE ~active(top) /\ ~active(r)
  <2>1. ~(TrxCommitted(r) = trxMax /\ r.sess \notin {s}) /\ ~(TrxCommitted(r) # trxMax /\ TrxCommitted(r) > trxBegin0[s])
    BY <1>10 DEF FActiveNotByMe
  <2>2. TrxCommitted(r) # trxMax
    BY <2>1, <1>7
  <2> QED
    BY <2>1, <2>2, <1>5, <1>6
<1>11. CASE ~active(top) /\ active(r)
  <2>1. ~(top.oper # oper /\ top.oper \in Commute)
    BY <1>11, <1>1 DEF FVERIWriteConflict
  <2>2. ~({r.oper, t.oper} \subseteq Commute)
    BY <2>1, <1>4
  <2>3. r.id <= t.id
    BY <1>3, <1>4
  <2>4. (TrxCommitted(r) = TrxCommitted(t) /\ r.begin0 = t.begin0) \/ TrxCommitted(r) < t.begin0
    BY <2>2, <2>3, <1>8
  <2>5. ~active(t)
    BY <1>11, <1>4
  <2>6. ~(TrxCommitted(t) = trxMax /\ t.sess \notin {s}) /\ ~(TrxCommitted(t) # trxMax /\ TrxCommitted(t) > trxBegin0[s])
    BY <2>5 DEF FActiveNotByMe
  <2>7. CASE TrxCommitted(t) = trxMax
    <3>1. t.begin0 = trxBegin0[s]
      BY <2>6, <2>7, <1>7
    <3> QED
      BY <3>1, <2>4
  <2>8. CASE TrxCommitted(t) # trxMax
    <3>1. TrxCommitted(t) < trxBegin0[s] /\ t.begin0 < TrxCommitted(t) /\ t.begin0 \in Nat /\ TrxCommitted(t) \in Nat
      BY <2>6, <2>8, <1>5, <1>6
    <3> QED
      BY <3>1, <2>4, <1>5, <1>6
  <2> QED
    BY <2>7, <2>8
<1> QED
  BY <1>9, <1>10, <1>11

-----------------------------------------------------------------------------
(* Steps: what sessions and RCEs may do to each other *)

\* A transaction goes on, ends, or begins with a number beyond those drawn.
SessionStep(t) ==
    \/ level'[t] = 0 /\ trxBegin0'[t] = trxMax
    \/ /\ level[t] > 0 /\ level'[t] > 0 /\ trxBegin0'[t] = trxBegin0[t]
       /\ pc[t] = "stamp" => pc'[t] = "stamp"
    \/ /\ trxNewest + 2 <= trxBegin0'[t] /\ trxBegin0'[t] < trxMax
       /\ QuietClean => ~(clean.pc = "nullify" /\ clean.oldest = trxMax)

\* q is what becomes of r: it shows the same number.
RowStep(q, r) ==
    /\ q.id = r.id /\ q.node = r.node /\ q.sess = r.sess /\ q.begin0 = r.begin0
    /\ q.oper = r.oper \/ {q.oper, r.oper} \cap Commute = {}
    /\ TrxCommitted(q)' = TrxCommitted(r)
    /\ r.full => q.full /\ q.trx = r.trx
    /\ q.full => q.trx <= trxNewest /\ (r.full \/ pc'[r.sess] = "stamp")
    /\ ~q.full => /\ level'[r.sess] > 0 /\ trxBegin0'[r.sess] = trxBegin0[r.sess]
                  /\ q.level \in 1..level'[r.sess]
    /\ q.oper = "PreInsert" => ~q.full /\ pc'[r.sess] = "node" /\ q.id = local'[r.sess]

\* q is made by s.
RowNew(q, s) ==
    /\ q.id = rceidLast + 1 /\ q.sess = s /\ q.begin0 = trxBegin0[s] /\ ~q.full
    /\ TrxCommitted(q)' = trxMax
    /\ level[s] > 0 /\ level'[s] > 0 /\ trxBegin0'[s] = trxBegin0[s] /\ q.level \in 1..level'[s]
    /\ ~FReadOnlyTrx(s) /\ pc[s] \in Waiting
    /\ \A t \in Session : level'[t] > 0 => level[t] > 0 /\ trxBegin0'[t] = trxBegin0[t]
    /\ q.oper = "PreInsert" => pc'[s] = "node" /\ q.id = local'[s]
    /\ \A r \in Chain(q.node) :
          r.begin0 # q.begin0 /\ ~({r.oper, q.oper} \subseteq Commute) => TrxCommitted(r) < q.begin0

RowsStep == \A q \in rce' : (\E r \in rce : RowStep(q, r)) \/ (\E s \in Session : RowNew(q, s))

\* An RCE that has a past fits the sessions again.
LEMMA RowKept ==
    ASSUME IInv, TypeOK', trxNewest <= trxNewest', \A t \in Session : SessionStep(t),
           NEW q \in rce', NEW r \in rce, RowStep(q, r)
    PROVE  RowInv(q)'
<1>1. /\ r.begin0 <= trxNewest /\ r.begin0 % TRXID_INCR = 0 /\ r.begin0 < TrxCommitted(r)
      /\ TrxCommitted(r) <= trxNewest \/ TrxCommitted(r) = trxMax
      /\ ~r.full => r.begin0 = trxBegin0[r.sess]
      /\ \A s \in Session : level[s] > 0 => TrxCommitted(r) # trxBegin0[s]
      /\ \A s \in Session : level[s] > 0 /\ r.begin0 = trxBegin0[s] => r.sess = s /\ (r.full => pc[s] = "stamp")
  BY DEF IInv, RowInv
<1>2. /\ r.begin0 \in Nat /\ r.sess \in Session /\ r.trx \in Nat /\ r.full \in BOOLEAN
      /\ TrxCommitted(r) \in Nat /\ TrxCommitted(r) <= trxMax /\ trxMax \in Nat
  <2>1. r.begin0 \in 0..trxMax /\ r.sess \in Session /\ r.trx \in 0..trxMax /\ r.full \in BOOLEAN
    BY RowType DEF IInv
  <2>2. TrxCommitted(r) \in Nat /\ TrxCommitted(r) \in 0..trxMax
    BY CommittedType
  <2>3. trxMax \in Nat
    BY VersionStoreAssumption
  <2> QED
    BY <2>1, <2>2, <2>3
<1>3. trxNewest \in Nat /\ trxNewest' \in Nat /\ trxNewest < trxMax
  BY NewestBelowMax DEF IInv, TypeOK
<1>4. ASSUME NEW t \in Session
      PROVE  trxBegin0[t] \in Nat /\ level[t] \in Nat /\ trxBegin0'[t] \in Nat /\ level'[t] \in Nat
  <2>1. trxBegin0[t] \in Nat /\ level[t] \in Nat
    BY SessionType DEF IInv
  <2>2. trxBegin0'[t] \in 0..trxMax /\ level'[t] \in 0..levelMax
    BY DEF TypeOK
  <2> QED
    BY <2>1, <2>2, VersionStoreAssumption
<1>5. q.trx \in Nat /\ q.full \in BOOLEAN
  <2>1. q \in RCEs(rceidLast')
    BY DEF TypeOK, RCEs
  <2>2. q.trx \in 0..trxMax /\ q.full \in BOOLEAN
    BY <2>1 DEF RCEs
  <2> QED
    BY <2>2, <1>2
<1>6. q.begin0 <= trxNewest' /\ q.begin0 % TRXID_INCR = 0
  BY <1>1, <1>2, <1>3 DEF RowStep
<1>7. /\ q.begin0 < TrxCommitted(q)'
      /\ TrxCommitted(q)' <= trxNewest' \/ TrxCommitted(q)' = trxMax
  BY <1>1, <1>2, <1>3 DEF RowStep
<1>8. q.full => q.trx <= trxNewest'
  BY <1>3, <1>5 DEF RowStep
<1>9. ~q.full => /\ level'[q.sess] > 0 /\ q.begin0 = trxBegin0'[q.sess]
                 /\ q.level \in 1..level'[q.sess]
  <2>1. ~q.full => ~r.full
    BY DEF RowStep
  <2> QED
    BY <2>1, <1>1 DEF RowStep
<1>10. ASSUME NEW s \in Session, level'[s] > 0
       PROVE  TrxCommitted(q)' # trxBegin0'[s]
  <2>1. \/ level[s] > 0 /\ trxBegin0'[s] = trxBegin0[s]
        \/ trxNewest + 2 <= trxBegin0'[s] /\ trxBegin0'[s] < trxMax
    BY <1>4, <1>10 DEF SessionStep
  <2>2. TrxCommitted(q)' = TrxCommitted(r)
    BY DEF RowStep
  <2> QED
    BY <2>1, <2>2, <1>1, <1>2, <1>3, <1>4
<1>11. ASSUME NEW s \in Session, level'[s] > 0, q.begin0 = trxBegin0'[s]
       PROVE  q.sess = s /\ (q.full => pc'[s] = "stamp")
  <2>1. q.sess = r.sess /\ q.begin0 = r.begin0
    BY DEF RowStep
  <2>2. level[s] > 0 /\ trxBegin0'[s] = trxBegin0[s] /\ (pc[s] = "stamp" => pc'[s] = "stamp")
    BY <2>1, <1>1, <1>2, <1>3, <1>4, <1>11 DEF SessionStep
  <2>3. r.sess = s /\ (r.full => pc[s] = "stamp")
    BY <2>1, <2>2, <1>1, <1>11
  <2>4. q.full => r.full \/ pc'[r.sess] = "stamp"
    BY DEF RowStep
  <2> QED
    BY <2>1, <2>2, <2>3, <2>4
<1>12. q.oper = "PreInsert" => ~q.full /\ pc'[q.sess] = "node" /\ q.id = local'[q.sess]
  BY DEF RowStep
<1> QED
  BY <1>6, <1>7, <1>8, <1>9, <1>10, <1>11, <1>12 DEF RowInv

\* So does a new one.
LEMMA RowMade ==
    ASSUME IInv, TypeOK', trxNewest' = trxNewest, NEW q \in rce', NEW s \in Session, RowNew(q, s)
    PROVE  RowInv(q)' /\ trxBegin0[s] < trxMax /\ trxBegin0[s] \in Nat
<1>1. trxNewest \in Nat /\ trxNewest < trxMax /\ trxMax \in Nat
  BY NewestBelowMax DEF IInv
<1>2. trxBegin0[s] \in Nat /\ trxBegin0[s] <= trxNewest
  <2>1. trxBegin0[s] \in Nat
    BY SessionType DEF IInv
  <2>2. level[s] > 0 /\ ~FReadOnlyTrx(s) => trxBegin0[s] <= trxNewest
    BY DEF IInv, SessionInv
  <2> QED
    BY <2>1, <2>2 DEF RowNew
<1>3. ASSUME NEW t \in Session, level'[t] > 0
      PROVE  level[t] > 0 /\ trxBegin0'[t] = trxBegin0[t] /\ trxBegin0[t] \in Nat /\ trxBegin0[t] < trxMax
  <2>1. level[t] > 0 /\ trxBegin0'[t] = trxBegin0[t]
    BY <1>3 DEF RowNew
  <2>2. level[t] \in Nat /\ trxBegin0[t] \in 0..trxMax /\ trxBegin0[t] \in Nat
    BY SessionType DEF IInv
  <2>3. level[t] = 0 <=> trxBegin0[t] = trxMax
    BY DEF IInv, SessionInv
  <2> QED
    BY <2>1, <2>2, <2>3, <1>1
<1>4. /\ q.sess = s /\ q.begin0 = trxBegin0[s] /\ ~q.full /\ TrxCommitted(q)' = trxMax
      /\ level[s] > 0 /\ level'[s] > 0 /\ trxBegin0'[s] = trxBegin0[s] /\ q.level \in 1..level'[s] /\ ~FReadOnlyTrx(s)
      /\ q.oper = "PreInsert" => pc'[s] = "node" /\ q.id = local'[s]
  BY DEF RowNew
<1>5. ASSUME NEW t \in Session, level'[t] > 0
      PROVE  TrxCommitted(q)' # trxBegin0'[t]
  BY <1>1, <1>3, <1>4, <1>5
<1>6. ASSUME NEW t \in Session, level'[t] > 0, q.begin0 = trxBegin0'[t]
      PROVE  q.sess = t
  <2>1. level[t] > 0 /\ trxBegin0[t] = trxBegin0[s]
    BY <1>3, <1>4, <1>6
  <2> QED
    BY <2>1, <1>4 DEF IInv, BeginsDiffer
<1>7. q.begin0 <= trxNewest' /\ q.begin0 < TrxCommitted(q)'
  BY <1>1, <1>2, <1>4
<1>8. q.begin0 % TRXID_INCR = 0
  BY <1>4 DEF FReadOnlyTrx
<1> QED
  BY <1>1, <1>2, <1>4, <1>5, <1>6, <1>7, <1>8 DEF RowInv

\* The pairs of a step without a new number: both have a past, or one is new.
LEMMA RowsKept ==
    ASSUME IInv, TypeOK', IdsDiffer', trxNewest <= trxNewest', \A t \in Session : SessionStep(t),
           RowsStep, (\E q \in rce' : \E s \in Session : RowNew(q, s)) => trxNewest' = trxNewest
    PROVE  (\A q \in rce' : RowInv(q)') /\ OneCommit' /\ FirstUpdaterWins'
<1>1. ASSUME NEW q \in rce'
      PROVE  RowInv(q)'
  <2>1. CASE \E r \in rce : RowStep(q, r)
    BY <2>1, RowKept
  <2>2. CASE \E s \in Session : RowNew(q, s)
    BY <2>2, RowMade
  <2> QED
    BY <2>1, <2>2 DEF RowsStep
\* A new version and an old one of the same transaction.
<1>2. ASSUME NEW q \in rce', NEW s \in Session, RowNew(q, s), NEW p \in rce', NEW r \in rce, RowStep(p, r),
             p.begin0 = q.begin0
      PROVE  TrxCommitted(p)' = TrxCommitted(q)'
  <2>1. r.begin0 = trxBegin0[s] /\ level[s] > 0 /\ pc[s] \in Waiting
    BY <1>2 DEF RowNew, RowStep
  <2>2. r.sess = s /\ (r.full => pc[s] = "stamp")
    BY <2>1 DEF IInv, RowInv
  <2>3. r.full \in BOOLEAN
    BY RowType DEF IInv
  <2>4. ~r.full
    BY <2>1, <2>2, <2>3 DEF Waiting
  <2>5. trxCommit0[s] = trxMax /\ trxMax \in Nat
    BY <2>1, VersionStoreAssumption DEF IInv, SessionInv
  <2>6. TrxCommitted(r) = trxMax
    BY <2>2, <2>4, <2>5 DEF TrxCommitted, trxPrecommit
  <2> QED
    BY <2>6, <1>2 DEF RowNew, RowStep
<1>3. ASSUME NEW p \in rce', NEW q \in rce', p.begin0 = q.begin0
      PROVE  TrxCommitted(p)' = TrxCommitted(q)'
  <2>1. CASE (\E r \in rce : RowStep(p, r)) /\ (\E r \in rce : RowStep(q, r))
    <3>1. PICK r \in rce : RowStep(p, r)
      BY <2>1
    <3>2. PICK u \in rce : RowStep(q, u)
      BY <2>1
    <3>3. r.begin0 = u.begin0 /\ TrxCommitted(p)' = TrxCommitted(r) /\ TrxCommitted(q)' = TrxCommitted(u)
      BY <3>1, <3>2, <1>3 DEF RowStep
    <3> QED
      BY <3>3 DEF IInv, OneCommit
  <2>2. CASE (\E s \in Session : RowNew(q, s)) /\ (\E r \in rce : RowStep(p, r))
    BY <2>2, <1>2, <1>3
  <2>3. CASE (\E s \in Session : RowNew(p, s)) /\ (\E r \in rce : RowStep(q, r))
    BY <2>3, <1>2, <1>3
  <2>4. CASE (\E s \in Session : RowNew(p, s)) /\ (\E s \in Session : RowNew(q, s))
    BY <2>4 DEF RowNew
  <2> QED
    BY <2>1, <2>2, <2>3, <2>4 DEF RowsStep
<1>4. ASSUME NEW p \in rce', NEW q \in rce', p.node = q.node, p.id < q.id, p.begin0 # q.begin0,
             ~({p.oper, q.oper} \subseteq Commute)
      PROVE  TrxCommitted(p)' < q.begin0
  <2>1. CASE (\E r \in rce : RowStep(p, r)) /\ (\E r \in rce : RowStep(q, r))
    <3>1. PICK r \in rce : RowStep(p, r)
      BY <2>1
    <3>2. PICK u \in rce : RowStep(q, u)
      BY <2>1
    <3>3. /\ r.node = u.node /\ r.id < u.id /\ r.begin0 # u.begin0 /\ q.begin0 = u.begin0
          /\ TrxCommitted(p)' = TrxCommitted(r)
      BY <3>1, <3>2, <1>4 DEF RowStep
    <3>4. ~({r.oper, u.oper} \subseteq Commute)
      BY <3>1, <3>2, <1>4 DEF RowStep
    <3> QED
      BY <3>3, <3>4 DEF IInv, FirstUpdaterWins
  <2>2. CASE (\E s \in Session : RowNew(q, s)) /\ (\E r \in rce : RowStep(p, r))
    <3>1. PICK s \in Session : RowNew(q, s)
      BY <2>2
    <3>2. PICK r \in rce : RowStep(p, r)
      BY <2>2
    <3>3. r \in Chain(q.node) /\ r.begin0 # q.begin0 /\ ~({r.oper, q.oper} \subseteq Commute)
      BY <3>2, <1>4 DEF RowStep, Chain
    <3>4. TrxCommitted(r) < q.begin0
      BY <3>1, <3>3 DEF RowNew
    <3> QED
      BY <3>2, <3>4 DEF RowStep
  <2>3. CASE (\E s \in Session : RowNew(p, s)) /\ (\E r \in rce : RowStep(q, r))
    <3>1. p.id = rceidLast + 1
      BY <2>3 DEF RowNew
    <3>2. PICK u \in rce : RowStep(q, u)
      BY <2>3
    <3>3. q.id = u.id /\ u.id \in 1..rceidLast /\ rceidLast \in Nat
      BY <3>2, RowType, VersionStoreAssumption DEF IInv, TypeOK, RowStep
    <3> QED
      BY <3>1, <3>3, <1>4
  <2>4. CASE (\E s \in Session : RowNew(p, s)) /\ (\E s \in Session : RowNew(q, s))
    <3>1. p.id = rceidLast + 1 /\ q.id = rceidLast + 1
      BY <2>4 DEF RowNew
    <3>2. rceidLast \in Nat
      BY VersionStoreAssumption DEF IInv, TypeOK
    <3> QED
      BY <3>1, <3>2, <1>4
  <2> QED
    BY <2>1, <2>2, <2>3, <2>4 DEF RowsStep
<1>5. OneCommit'
  BY <1>3 DEF OneCommit
<1>6. FirstUpdaterWins'
  BY <1>4 DEF FirstUpdaterWins
<1> QED
  BY <1>1, <1>5, <1>6

\* Cleanup is not disturbed by what sessions do.
LEMMA CleanKept ==
    ASSUME IInv, TypeOK', UNCHANGED clean, trxNewest <= trxNewest', rceidLast <= rceidLast',
           \A t \in Session : SessionStep(t), RowsStep
    PROVE  CleanInv'
<1>1. /\ clean.id \in Nat /\ clean.oldest \in Nat /\ clean.oldest <= trxMax /\ trxMax \in Nat
      /\ trxNewest \in Nat /\ trxNewest' \in Nat /\ rceidLast \in Nat /\ rceidLast' \in Nat
  <2>1. clean \in [pc : {"idle", "scan", "nullify"}, oldest : 0..trxMax, id : Nat]
    BY DEF IInv, TypeOK
  <2>2. clean.id \in Nat /\ clean.oldest \in 0..trxMax
    BY <2>1
  <2>3. trxNewest \in Nat /\ trxNewest' \in Nat /\ rceidLast \in 0..rceidMax /\ rceidLast' \in 0..rceidMax
    BY DEF IInv, TypeOK
  <2> QED
    BY <2>2, <2>3, VersionStoreAssumption
<1>2. /\ clean.id <= rceidLast
      /\ clean.oldest # trxMax => clean.oldest <= trxNewest + 2
      /\ clean.pc = "scan" => clean.oldest = trxMax \/ \A s \in Session : clean.oldest <= trxBegin0[s]
      /\ clean.pc = "nullify" =>
            /\ QuietClean \/ clean.oldest # trxMax => \A s \in Session : clean.oldest <= trxBegin0[s]
            /\ \A r \in rce : r.id = clean.id => r.full /\ r.trx < clean.oldest
  <2>1. TRXID_INCR \div 2 = 2
    BY DEF TRXID_INCR
  <2> QED
    BY <2>1 DEF IInv, CleanInv
<1>3. clean.id <= rceidLast' /\ (clean.oldest # trxMax => clean.oldest <= trxNewest' + 2)
  BY <1>1, <1>2
<1>4. ASSUME NEW t \in Session, clean.oldest <= trxBegin0[t],
             clean.oldest # trxMax \/ (QuietClean /\ clean.pc = "nullify")
      PROVE  clean.oldest <= trxBegin0'[t]
  <2>1. trxBegin0[t] \in Nat /\ trxBegin0'[t] \in Nat
    <3>1. trxBegin0[t] \in 0..trxMax /\ trxBegin0'[t] \in 0..trxMax
      BY DEF IInv, TypeOK
    <3> QED
      BY <3>1, <1>1
  <2> QED
    BY <2>1, <1>1, <1>2, <1>4 DEF SessionStep
<1>5. ASSUME clean.pc = "scan", clean.oldest # trxMax, NEW t \in Session
      PROVE  clean.oldest <= trxBegin0'[t]
  <2>1. clean.oldest <= trxBegin0[t]
    BY <1>2, <1>5
  <2>2. clean.oldest # trxMax \/ (QuietClean /\ clean.pc = "nullify")
    BY <1>5
  <2> QED
    BY <2>1, <2>2, <1>4
<1>6. ASSUME clean.pc = "nullify", QuietClean \/ clean.oldest # trxMax, NEW t \in Session
      PROVE  clean.oldest <= trxBegin0'[t]
  <2>1. clean.oldest <= trxBegin0[t]
    BY <1>2, <1>6
  <2>2. clean.oldest # trxMax \/ (QuietClean /\ clean.pc = "nullify")
    BY <1>6
  <2> QED
    BY <2>1, <2>2, <1>4
<1>7. ASSUME clean.pc = "nullify", NEW q \in rce', q.id = clean.id
      PROVE  q.full /\ q.trx < clean.oldest
  <2>1. CASE \E r \in rce : RowStep(q, r)
    BY <2>1, <1>2, <1>7 DEF RowStep
  <2>2. CASE \E s \in Session : RowNew(q, s)
    <3>1. q.id = rceidLast + 1
      BY <2>2 DEF RowNew
    <3> QED
      BY <3>1, <1>1, <1>2, <1>7
  <2> QED
    BY <2>1, <2>2 DEF RowsStep
<1>8. TRXID_INCR \div 2 = 2 /\ clean' = clean
  BY DEF TRXID_INCR
<1> QED
  BY <1>3, <1>5, <1>6, <1>7, <1>8 DEF CleanInv

-----------------------------------------------------------------------------
(* The sessions *)

SessionsInv == (\A s \in Session : SessionInv(s)) /\ BeginsDiffer /\ NumbersInv

\* A session that is not committing goes from one thing to another.
SessionsMove ==
    /\ UNCHANGED <<trxNewest, level, trxBegin0, trxCommit0>>
    /\ \A t \in Session : \/ pc'[t] = pc[t] /\ local'[t] = local[t]
                          \/ pc[t] \in Waiting /\ pc'[t] \in Waiting /\ level[t] > 0

\* An operation that only moves sessions keeps what is known of each of them.
LEMMA MoveKept ==
    ASSUME IInv, SessionsMove
    PROVE  SessionsInv' /\ \A t \in Session : SessionStep(t)
<1>1. UNCHANGED <<trxNewest, level, trxBegin0, trxCommit0>>
  BY DEF SessionsMove
<1>2. ASSUME NEW t \in Session
      PROVE  SessionInv(t)' /\ SessionStep(t)
  <2>1. level[t] \in Nat /\ (level[t] = 0 <=> trxBegin0[t] = trxMax)
    BY SessionType DEF IInv, SessionInv
  <2>2. SessionInv(t)
    BY DEF IInv
  <2>3. CASE pc'[t] = pc[t] /\ local'[t] = local[t]
    <3>1. SessionInv(t)'
      BY <1>1, <2>2, <2>3 DEF SessionInv, FReadOnlyTrx
    <3> QED
      BY <3>1, <1>1, <2>1, <2>3 DEF SessionStep
  <2>4. CASE pc[t] \in Waiting /\ pc'[t] \in Waiting /\ level[t] > 0
    <3>1. SessionInv(t)'
      BY <1>1, <2>1, <2>2, <2>4 DEF SessionInv, FReadOnlyTrx, Waiting
    <3>2. pc[t] # "stamp"
      BY <2>4 DEF Waiting
    <3> QED
      BY <3>1, <3>2, <1>1, <2>4 DEF SessionStep
  <2> QED
    BY <2>3, <2>4 DEF SessionsMove
<1>3. BeginsDiffer'
  BY <1>1 DEF IInv, BeginsDiffer, FReadOnlyTrx
<1>4. ToDraw' = ToDraw
  BY <1>1 DEF ToDraw, SessionsMove, Waiting
<1>5. NumbersInv'
  BY <1>1, <1>4 DEF IInv, NumbersInv
<1> QED
  BY <1>2, <1>3, <1>5 DEF SessionsInv

\* Then no number changes.
LEMMA MoveShows ==
    ASSUME IInv, SessionsMove, NEW q, q.sess \in Session
    PROVE  TrxCommitted(q)' = TrxCommitted(q)
<1>1. trxCommit0' = trxCommit0
  BY DEF SessionsMove
<1>2. CASE pc'[q.sess] = pc[q.sess] /\ local'[q.sess] = local[q.sess]
  BY <1>1, <1>2 DEF TrxCommitted
<1>3. CASE pc[q.sess] \in Waiting
  <2>1. trxCommit0[q.sess] = trxMax /\ trxMax \in Nat
    BY <1>3, VersionStoreAssumption DEF IInv, SessionInv
  <2>2. trxMax # trxPrecommit
    BY <2>1 DEF trxPrecommit
  <2> QED
    BY <1>1, <2>1, <2>2 DEF TrxCommitted
<1> QED
  BY <1>2, <1>3 DEF SessionsMove

\* An RCE that is left as it is.
LEMMA SameRow ==
    ASSUME IInv, SessionsMove, NEW r \in rce, r.oper = "PreInsert" => pc'[r.sess] = "node" /\ local'[r.sess] = local[r.sess]
    PROVE  RowStep(r, r)
<1>1. r.sess \in Session /\ r.oper \in Opers /\ r.full \in BOOLEAN /\ r.level \in 0..levelMax
  BY RowType DEF IInv
<1>2. TrxCommitted(r)' = TrxCommitted(r)
  BY <1>1, MoveShows
<1>3. /\ r.full => r.trx <= trxNewest
      /\ ~r.full => level[r.sess] > 0 /\ r.level \in 1..level[r.sess]
      /\ r.oper = "PreInsert" => ~r.full /\ r.id = local[r.sess]
  BY DEF IInv, RowInv
<1>4. level' = level /\ trxBegin0' = trxBegin0
  BY DEF SessionsMove
<1> QED
  BY <1>1, <1>2, <1>3, <1>4 DEF RowStep

\* The rows and cleanup after such a step, put together.
LEMMA MoveSteps ==
    ASSUME IInv, SessionsMove, TypeOK', UNCHANGED clean, rceidLast <= rceidLast', IdsDiffer', RowsStep, NodeInv'
    PROVE  IInv'
<1>1. trxNewest' = trxNewest /\ trxNewest \in Nat
  BY DEF SessionsMove, IInv, TypeOK
<1>2. SessionsInv' /\ \A t \in Session : SessionStep(t)
  BY MoveKept
<1>3. trxNewest <= trxNewest'
  BY <1>1
<1>4. (\A q \in rce' : RowInv(q)') /\ OneCommit' /\ FirstUpdaterWins'
  BY <1>1, <1>2, <1>3, RowsKept
<1>5. CleanInv'
  BY <1>2, <1>3, CleanKept
<1> QED
  BY <1>2, <1>4, <1>5 DEF IInv, SessionsInv

-----------------------------------------------------------------------------
(* Sets of RCEs *)

\* An RCE stays one when more ids are given out.
LEMMA RCEsGrow ==
    ASSUME NEW m \in Nat, NEW k \in Nat, m <= k
    PROVE  RCEs(m) \subseteq RCEs(k)
<1> SUFFICES ASSUME NEW r \in RCEs(m) PROVE r \in RCEs(k)
  OBVIOUS
<1>1. r.id \in 1..m
  BY DEF RCEs
<1>2. r.id \in 1..k
  BY <1>1
<1> QED
  BY <1>2 DEF RCEs

\* The set of RCEs, and the bound on their ids.
LEMMA RceType ==
    ASSUME TypeOK
    PROVE  rce \subseteq RCEs(rceidLast) /\ rceidLast \in Nat /\ rceidLast <= rceidMax /\ rceidMax \in Nat
BY VersionStoreAssumption DEF TypeOK, RCEs

\* A new RCE has the type of one.
LEMMA NewRCEType ==
    ASSUME TypeOK, NEW s \in Session, NEW n \in Node, NEW oper \in Opers, NEW image \in Int
    PROVE  NewRCE(s, n, oper, rceidLast + 1, image) \in RCEs(rceidLast + 1)
<1>1. level[s] \in 0..levelMax /\ trxBegin0[s] \in 0..trxMax /\ trxMax \in 0..trxMax
  BY SessionType DEF TypeOK
<1>2. rceidLast + 1 \in 1..(rceidLast + 1)
  BY RceType
<1> QED
  BY <1>1, <1>2 DEF NewRCE, RCEs

\* No version is added.
LEMMA RowsLess ==
    ASSUME IInv, SessionsMove, rce' \subseteq rce,
           \A r \in rce' : r.oper = "PreInsert" => pc'[r.sess] = "node" /\ local'[r.sess] = local[r.sess]
    PROVE  IdsDiffer' /\ RowsStep /\ rce' \subseteq RCEs(rceidLast)
<1>1. IdsDiffer'
  BY DEF IInv, IdsDiffer
<1>2. \A q \in rce' : q \in rce /\ RowStep(q, q)
  BY SameRow
<1>3. RowsStep
  BY <1>2 DEF RowsStep
<1>4. rce \subseteq RCEs(rceidLast)
  BY RceType DEF IInv
<1> QED
  BY <1>1, <1>3, <1>4

\* One is changed.
LEMMA RowsSwap ==
    ASSUME IInv, SessionsMove, NEW r \in rce, NEW q \in RCEs(rceidLast), rce' = (rce \ {r}) \cup {q},
           RowStep(q, r),
           \A p \in rce \ {r} : p.oper = "PreInsert" => pc'[p.sess] = "node" /\ local'[p.sess] = local[p.sess]
    PROVE  IdsDiffer' /\ RowsStep /\ rce' \subseteq RCEs(rceidLast)
<1>1. q.id = r.id
  BY DEF RowStep
<1>2. IdsDiffer'
  BY <1>1 DEF IInv, IdsDiffer
<1>3. \A p \in rce \ {r} : RowStep(p, p)
  BY SameRow
<1>4. RowsStep
  BY <1>3 DEF RowsStep
<1>5. rce \subseteq RCEs(rceidLast)
  BY RceType DEF IInv
<1> QED
  BY <1>2, <1>4, <1>5

\* One is made, after FVERIWriteConflict has said no.
LEMMA MadeRow ==
    ASSUME IInv, SessionsMove, NEW s \in Session, NEW n \in Node, NEW oper \in Opers, NEW image \in Int,
           level[s] > 0, ~FReadOnlyTrx(s), pc[s] \in Waiting, ~FVERIWriteConflict(s, n, oper),
           oper = "PreInsert" => pc'[s] = "node" /\ local'[s] = rceidLast + 1, NEW q,
           q = NewRCE(s, n, oper, rceidLast + 1, image)
    PROVE  RowNew(q, s)
<1>1. /\ q.id = rceidLast + 1 /\ q.node = n /\ q.oper = oper /\ q.sess = s /\ q.level = level[s]
      /\ q.begin0 = trxBegin0[s] /\ q.full = FALSE
  BY DEF NewRCE
<1>2. level' = level /\ trxBegin0' = trxBegin0
  BY DEF SessionsMove
<1>3. TrxCommitted(q)' = trxMax
  <2>1. TrxCommitted(q)' = TrxCommitted(q)
    BY <1>1, MoveShows
  <2>2. trxCommit0[s] = trxMax /\ trxMax \in Nat
    BY VersionStoreAssumption DEF IInv, SessionInv
  <2> QED
    BY <2>1, <2>2, <1>1 DEF TrxCommitted, trxPrecommit
<1>4. level[s] \in Nat
  BY SessionType DEF IInv
<1>5. q.level \in 1..level'[s]
  BY <1>1, <1>2, <1>4
<1>6. ASSUME NEW r \in Chain(n), r.begin0 # q.begin0, ~({r.oper, q.oper} \subseteq Commute)
      PROVE  TrxCommitted(r) < q.begin0
  BY <1>1, <1>6, ConflictFree
<1>7. \A r \in Chain(q.node) : r.begin0 # q.begin0 /\ ~({r.oper, q.oper} \subseteq Commute) => TrxCommitted(r) < q.begin0
  BY <1>1, <1>6
<1> QED
  BY <1>1, <1>2, <1>3, <1>5, <1>7 DEF RowNew

\* A new RCE that met no conflict keeps the order of the RCEs and that the first updater wins.
LEMMA RowsAdd ==
    ASSUME IInv, SessionsMove, NEW s \in Session, NEW n \in Node, NEW oper \in Opers, NEW image \in Int,
           ErrVERModify(s, n, oper, image), oper = "PreInsert" => pc'[s] = "node" /\ local'[s] = rceidLast + 1,
           \A t \in Session \ {s} : pc'[t] = pc[t] /\ local'[t] = local[t]
    PROVE  /\ IdsDiffer' /\ RowsStep /\ rce' \subseteq RCEs(rceidLast')
           /\ rceidLast' = rceidLast + 1 /\ rceidLast' \in 0..rceidMax /\ rceidLast <= rceidLast'
           /\ NewRCE(s, n, oper, rceidLast + 1, image) \in rce'
<1> DEFINE q == NewRCE(s, n, oper, rceidLast + 1, image)
<1>1. rce \subseteq RCEs(rceidLast) /\ rceidLast \in Nat /\ rceidLast <= rceidMax /\ rceidMax \in Nat
  BY RceType DEF IInv
<1>2. /\ pc[s] = "idle" /\ level[s] > 0 /\ ~FReadOnlyTrx(s) /\ ~FVERIWriteConflict(s, n, oper)
      /\ rceidLast < rceidMax /\ rce' = rce \cup {q} /\ rceidLast' = rceidLast + 1
  BY DEF ErrVERModify, MayWrite, InTrx, Idle
<1>3. q \in RCEs(rceidLast + 1) /\ q.id = rceidLast + 1
  <2>1. q \in RCEs(rceidLast + 1)
    BY NewRCEType DEF IInv
  <2>2. q.id = rceidLast + 1
    BY DEF NewRCE
  <2> QED
    BY <2>1, <2>2
<1>4. pc[s] \in Waiting
  BY <1>2 DEF Waiting
<1>5. RowNew(q, s)
  BY <1>2, <1>4, MadeRow
<1> HIDE DEF q
<1>6. ASSUME NEW r \in rce
      PROVE  RowStep(r, r) /\ r.id # q.id
  <2>1. r.sess \in Session /\ r.id \in 1..rceidLast
    BY RowType DEF IInv
  <2>2. r.oper = "PreInsert" => pc[r.sess] = "node"
    BY DEF IInv, RowInv
  <2>3. r.oper = "PreInsert" => pc'[r.sess] = "node" /\ local'[r.sess] = local[r.sess]
    BY <2>1, <2>2, <1>2
  <2>4. RowStep(r, r)
    BY <2>3, SameRow
  <2> QED
    BY <2>1, <2>4, <1>1, <1>3
<1>7. RowsStep
  BY <1>2, <1>5, <1>6 DEF RowsStep
<1>8. IdsDiffer'
  BY <1>2, <1>6 DEF IInv, IdsDiffer
<1>9. RCEs(rceidLast) \subseteq RCEs(rceidLast + 1)
  BY <1>1, RCEsGrow
<1> QED
  BY <1>1, <1>2, <1>3, <1>7, <1>8, <1>9 DEF q

\* The RCE of a session on its way to a page.
LEMMA UnderwayIs ==
    ASSUME IInv, NEW s \in Session, pc[s] = "node"
    PROVE  /\ Underway(s) \in rce /\ Underway(s).sess = s /\ ~Underway(s).full /\ Underway(s).id = local[s]
           /\ \A r \in rce : r.id = local[s] => r = Underway(s)
<1>1. \E r \in OfSession(s) : r.id = local[s]
  BY DEF IInv, NodeInv
<1>2. Underway(s) \in OfSession(s) /\ Underway(s).id = local[s]
  BY <1>1 DEF Underway
<1>3. Underway(s) \in rce /\ Underway(s).sess = s /\ ~Underway(s).full
  BY <1>2 DEF OfSession
<1> QED
  BY <1>2, <1>3 DEF IInv, IdsDiffer

-----------------------------------------------------------------------------
(* Changing nodes *)

\* The types of what such a step changes, but for the RCEs.
LEMMA MoveType ==
    ASSUME TypeOK, SessionsMove, UNCHANGED <<clean, indexLock>>,
           pc' \in [Session -> {"idle", "node", "precommit", "drawn", "stamp", "rollback", "expunge", "nullify"}],
           local' \in [Session -> Nat], rce' \subseteq RCEs(rceidLast'), rceidLast' \in 0..rceidMax,
           page' \in [Node -> [st : {"absent", "live", "deleted", "checked", "expunged"}, data : Int]]
    PROVE  TypeOK'
BY DEF TypeOK, SessionsMove, RCEs

\* A version that is made while the page is latched.
LEMMA ModifyKept ==
    ASSUME IInv, NEW s \in Session, NEW n \in Node, NEW oper \in Opers \ {"PreInsert"}, NEW image \in Int,
           ErrVERModify(s, n, oper, image), UNCHANGED <<trxNewest, session, clean, indexLock>>,
           page' \in [Node -> [st : {"absent", "live", "deleted", "checked", "expunged"}, data : Int]]
    PROVE  IInv'
<1>1. /\ trxNewest' = trxNewest /\ level' = level /\ trxBegin0' = trxBegin0 /\ trxCommit0' = trxCommit0
      /\ pc' = pc /\ local' = local /\ clean' = clean /\ indexLock' = indexLock
  BY DEF session
<1>2. SessionsMove
  BY <1>1 DEF SessionsMove
<1>3. oper = "PreInsert" => pc'[s] = "node" /\ local'[s] = rceidLast + 1
  OBVIOUS
<1>4. /\ IdsDiffer' /\ RowsStep /\ rce' \subseteq RCEs(rceidLast')
      /\ rceidLast' = rceidLast + 1 /\ rceidLast' \in 0..rceidMax /\ rceidLast <= rceidLast'
      /\ NewRCE(s, n, oper, rceidLast + 1, image) \in rce'
  BY <1>1, <1>2, <1>3, RowsAdd
<1>5. TypeOK
  BY DEF IInv
<1>6. TypeOK'
  BY <1>1, <1>2, <1>4, <1>5, MoveType DEF TypeOK
<1>7. rce \subseteq rce'
  BY DEF ErrVERModify
<1>8. NodeInv'
  BY <1>1, <1>7 DEF IInv, NodeInv, OfSession
<1> QED
  BY <1>1, <1>2, <1>4, <1>6, <1>8, MoveSteps

\* A replace.
LEMMA ReplaceKept ==
    ASSUME IInv, NEW s \in Session, NEW n \in Node, Replace(s, n)
    PROVE  IInv'
<1>1. page \in [Node -> [st : {"absent", "live", "deleted", "checked", "expunged"}, data : Int]] /\ Data \subseteq Int
  BY VersionStoreAssumption DEF IInv, TypeOK
<1>2. page[n].data \in Int
  BY <1>1
<1>3. PICK v \in Data : page' = [page EXCEPT ![n].data = v]
  BY DEF Replace
<1>4. page' \in [Node -> [st : {"absent", "live", "deleted", "checked", "expunged"}, data : Int]]
  BY <1>1, <1>3
<1>5. ErrVERModify(s, n, "Replace", page[n].data) /\ UNCHANGED <<trxNewest, session, clean, indexLock>>
  BY DEF Replace
<1>6. "Replace" \in Opers \ {"PreInsert"}
  BY DEF Opers
<1> QED
  BY <1>2, <1>4, <1>5, <1>6, ModifyKept

\* A read lock or a write lock.
LEMMA LockKept ==
    ASSUME IInv, NEW s \in Session, NEW n \in Node, NEW oper \in {"ReadLock", "WriteLock"}, Lock(s, n, oper)
    PROVE  IInv'
<1>1. page' \in [Node -> [st : {"absent", "live", "deleted", "checked", "expunged"}, data : Int]]
  BY DEF Lock, IInv, TypeOK
<1>2. ErrVERModify(s, n, oper, 0) /\ UNCHANGED <<trxNewest, session, clean, indexLock>>
  BY DEF Lock
<1>3. oper \in Opers \ {"PreInsert"} /\ 0 \in Int
  BY DEF Opers
<1> QED
  BY <1>1, <1>2, <1>3, ModifyKept

\* A version that is made before the page is latched.
LEMMA VersionFirstKept ==
    ASSUME IInv, NEW s \in Session, NEW n \in Node, NEW oper \in Opers, VersionFirst(s, n, oper)
    PROVE  IInv'
<1>1. /\ trxNewest' = trxNewest /\ level' = level /\ trxBegin0' = trxBegin0 /\ trxCommit0' = trxCommit0
      /\ pc' = [pc EXCEPT ![s] = "node"] /\ local' = [local EXCEPT ![s] = rceidLast + 1]
      /\ clean' = clean /\ indexLock' = indexLock /\ page' = page
      /\ ErrVERModify(s, n, oper, 0)
  BY DEF VersionFirst
<1>2. pc[s] = "idle" /\ level[s] > 0
  BY <1>1 DEF ErrVERModify, MayWrite, InTrx, Idle
<1>3. /\ pc \in [Session -> {"idle", "node", "precommit", "drawn", "stamp", "rollback", "expunge", "nullify"}]
      /\ local \in [Session -> Nat] /\ rceidLast \in Nat /\ TypeOK
  BY VersionStoreAssumption DEF IInv, TypeOK
<1>4. /\ pc'[s] = "node" /\ local'[s] = rceidLast + 1
      /\ \A t \in Session \ {s} : pc'[t] = pc[t] /\ local'[t] = local[t]
  BY <1>1, <1>3
<1>5. SessionsMove
  BY <1>1, <1>2, <1>4 DEF SessionsMove, Waiting
<1>6. /\ IdsDiffer' /\ RowsStep /\ rce' \subseteq RCEs(rceidLast')
      /\ rceidLast' = rceidLast + 1 /\ rceidLast' \in 0..rceidMax /\ rceidLast <= rceidLast'
      /\ NewRCE(s, n, oper, rceidLast + 1, 0) \in rce'
  BY <1>1, <1>4, <1>5, RowsAdd
<1>7. /\ pc' \in [Session -> {"idle", "node", "precommit", "drawn", "stamp", "rollback", "expunge", "nullify"}]
      /\ local' \in [Session -> Nat]
      /\ page' \in [Node -> [st : {"absent", "live", "deleted", "checked", "expunged"}, data : Int]]
  BY <1>1, <1>3 DEF TypeOK
<1>8. TypeOK'
  BY <1>1, <1>3, <1>5, <1>6, <1>7, MoveType
<1>9. ASSUME NEW t \in Session, pc'[t] = "node"
      PROVE  \E r \in rce' : r.sess = t /\ ~r.full /\ r.id = local'[t]
  <2>1. CASE t = s
    <3>1. PICK q \in rce' : q = NewRCE(s, n, oper, rceidLast + 1, 0)
      BY <1>6
    <3>2. q.sess = s /\ q.full = FALSE /\ q.id = rceidLast + 1
      BY <3>1 DEF NewRCE
    <3> QED
      BY <3>2, <2>1, <1>4
  <2>2. CASE t # s
    <3>1. pc[t] = "node" /\ local'[t] = local[t]
      BY <2>2, <1>4, <1>9
    <3>2. PICK r \in rce : r.sess = t /\ ~r.full /\ r.id = local[t]
      BY <3>1 DEF IInv, NodeInv, OfSession
    <3>3. r \in rce'
      BY <1>1 DEF ErrVERModify
    <3> QED
      BY <3>1, <3>2, <3>3
  <2> QED
    BY <2>1, <2>2
<1>10. NodeInv'
  BY <1>9 DEF NodeInv, OfSession
<1> QED
  BY <1>1, <1>5, <1>6, <1>8, <1>10, MoveSteps

\* A session comes back from the page.
LEMMA EndNodeMoves ==
    ASSUME IInv, NEW s \in Session, pc[s] = "node", EndNode(s)
    PROVE  /\ SessionsMove /\ UNCHANGED <<clean, indexLock>>
           /\ pc' \in [Session -> {"idle", "node", "precommit", "drawn", "stamp", "rollback", "expunge", "nullify"}]
           /\ local' \in [Session -> Nat]
           /\ \A p \in rce \ {Underway(s)} :
                 p.oper = "PreInsert" => pc'[p.sess] = "node" /\ local'[p.sess] = local[p.sess]
           /\ rce \ {Underway(s)} \subseteq rce' => NodeInv'
<1>1. /\ UNCHANGED <<trxNewest, level, trxBegin0, trxCommit0>> /\ UNCHANGED <<clean, indexLock>>
      /\ pc' = [pc EXCEPT ![s] = "idle"] /\ local' = [local EXCEPT ![s] = 0]
  BY DEF EndNode
<1>2. /\ pc \in [Session -> {"idle", "node", "precommit", "drawn", "stamp", "rollback", "expunge", "nullify"}]
      /\ local \in [Session -> Nat]
  BY DEF IInv, TypeOK
<1>3. pc'[s] = "idle" /\ \A t \in Session \ {s} : pc'[t] = pc[t] /\ local'[t] = local[t]
  BY <1>1, <1>2
<1>4. level[s] > 0
  <2>1. level[s] \in Nat /\ (level[s] = 0 => pc[s] = "idle")
    BY SessionType DEF IInv, SessionInv
  <2> QED
    BY <2>1
<1>5. SessionsMove
  BY <1>1, <1>3, <1>4 DEF SessionsMove, Waiting
<1>6. /\ Underway(s) \in rce /\ Underway(s).sess = s /\ ~Underway(s).full /\ Underway(s).id = local[s]
      /\ \A r \in rce : r.id = local[s] => r = Underway(s)
  BY UnderwayIs
<1>7. ASSUME NEW p \in rce \ {Underway(s)}, p.oper = "PreInsert"
      PROVE  pc'[p.sess] = "node" /\ local'[p.sess] = local[p.sess]
  <2>1. pc[p.sess] = "node" /\ p.id = local[p.sess] /\ p.sess \in Session
    BY <1>7, RowType DEF IInv, RowInv
  <2>2. p.sess # s
    BY <2>1, <1>6
  <2> QED
    BY <2>1, <2>2, <1>3
<1>8. ASSUME rce \ {Underway(s)} \subseteq rce'
      PROVE  NodeInv'
  <2>1. ASSUME NEW t \in Session, pc'[t] = "node"
        PROVE  \E r \in rce' : r.sess = t /\ ~r.full /\ r.id = local'[t]
    <3>1. t # s /\ pc[t] = "node" /\ local'[t] = local[t]
      BY <2>1, <1>3
    <3>2. PICK r \in rce : r.sess = t /\ ~r.full /\ r.id = local[t]
      BY <3>1 DEF IInv, NodeInv, OfSession
    <3>3. r \in rce'
      BY <3>1, <3>2, <1>6, <1>8
    <3> QED
      BY <3>1, <3>2, <3>3
  <2> QED
    BY <2>1 DEF NodeInv, OfSession
<1>9. /\ pc' \in [Session -> {"idle", "node", "precommit", "drawn", "stamp", "rollback", "expunge", "nullify"}]
      /\ local' \in [Session -> Nat]
  BY <1>1, <1>2
<1> QED
  BY <1>1, <1>5, <1>7, <1>8, <1>9

\* The version that was made first is not changed, gone, or changed with the page.
LEMMA EndNodeKept ==
    ASSUME IInv, NEW s \in Session, pc[s] = "node", EndNode(s), UNCHANGED rceidLast,
           page' \in [Node -> [st : {"absent", "live", "deleted", "checked", "expunged"}, data : Int]],
           \/ rce' = rce /\ Underway(s).oper # "PreInsert"
           \/ rce' = rce \ {Underway(s)}
           \/ \E q \in RCEs(rceidLast) : RowStep(q, Underway(s)) /\ rce' = (rce \ {Underway(s)}) \cup {q}
    PROVE  IInv'
<1>1. /\ SessionsMove /\ UNCHANGED <<clean, indexLock>>
      /\ pc' \in [Session -> {"idle", "node", "precommit", "drawn", "stamp", "rollback", "expunge", "nullify"}]
      /\ local' \in [Session -> Nat]
      /\ \A p \in rce \ {Underway(s)} :
            p.oper = "PreInsert" => pc'[p.sess] = "node" /\ local'[p.sess] = local[p.sess]
      /\ rce \ {Underway(s)} \subseteq rce' => NodeInv'
  BY EndNodeMoves
<1>2. /\ Underway(s) \in rce /\ Underway(s).sess = s /\ ~Underway(s).full /\ Underway(s).id = local[s]
      /\ \A r \in rce : r.id = local[s] => r = Underway(s)
  BY UnderwayIs
<1>3. IdsDiffer' /\ RowsStep /\ rce' \subseteq RCEs(rceidLast)
  <2>1. CASE rce' = rce /\ Underway(s).oper # "PreInsert"
    <3>1. \A r \in rce' : r.oper = "PreInsert" => pc'[r.sess] = "node" /\ local'[r.sess] = local[r.sess]
      BY <2>1, <1>1
    <3>2. rce' \subseteq rce
      BY <2>1
    <3> QED
      BY <3>1, <3>2, <1>1, RowsLess
  <2>2. CASE rce' = rce \ {Underway(s)}
    <3>1. \A r \in rce' : r.oper = "PreInsert" => pc'[r.sess] = "node" /\ local'[r.sess] = local[r.sess]
      BY <2>2, <1>1
    <3>2. rce' \subseteq rce
      BY <2>2
    <3> QED
      BY <3>1, <3>2, <1>1, RowsLess
  <2>3. CASE \E q \in RCEs(rceidLast) : RowStep(q, Underway(s)) /\ rce' = (rce \ {Underway(s)}) \cup {q}
    <3>1. PICK q \in RCEs(rceidLast) : RowStep(q, Underway(s)) /\ rce' = (rce \ {Underway(s)}) \cup {q}
      BY <2>3
    <3>2. PICK r \in rce : r = Underway(s)
      BY <1>2
    <3>3. RowStep(q, r) /\ rce' = (rce \ {r}) \cup {q}
      BY <3>1, <3>2
    <3>4. \A p \in rce \ {r} : p.oper = "PreInsert" => pc'[p.sess] = "node" /\ local'[p.sess] = local[p.sess]
      BY <3>2, <1>1
    <3> QED
      BY <3>3, <3>4, <1>1, RowsSwap
  <2> QED
    BY <2>1, <2>2, <2>3
<1>4. rce \ {Underway(s)} \subseteq rce'
  OBVIOUS
<1>5. NodeInv'
  BY <1>1, <1>4
<1>6. rceidLast' = rceidLast /\ rceidLast \in 0..rceidMax /\ TypeOK /\ rceidLast \in Nat
  BY VersionStoreAssumption DEF IInv, TypeOK
<1>7. rceidLast' \in 0..rceidMax /\ rceidLast <= rceidLast' /\ rce' \subseteq RCEs(rceidLast')
  BY <1>3, <1>6
<1>8. TypeOK'
  BY <1>1, <1>6, <1>7, MoveType
<1> QED
  BY <1>1, <1>3, <1>5, <1>7, <1>8, MoveSteps

\* A change of the version that leaves its number alone.
LEMMA UnderwayStep ==
    ASSUME IInv, NEW s \in Session, pc[s] = "node", EndNode(s), NEW q,
           q.id = Underway(s).id, q.node = Underway(s).node, q.sess = Underway(s).sess,
           q.begin0 = Underway(s).begin0, q.full = FALSE, q.level = Underway(s).level,
           q.oper = Underway(s).oper \/ {q.oper, Underway(s).oper} \cap Commute = {}, q.oper # "PreInsert"
    PROVE  RowStep(q, Underway(s))
<1>1. /\ SessionsMove /\ UNCHANGED <<clean, indexLock>>
      /\ pc' \in [Session -> {"idle", "node", "precommit", "drawn", "stamp", "rollback", "expunge", "nullify"}]
      /\ local' \in [Session -> Nat]
      /\ \A p \in rce \ {Underway(s)} :
            p.oper = "PreInsert" => pc'[p.sess] = "node" /\ local'[p.sess] = local[p.sess]
      /\ rce \ {Underway(s)} \subseteq rce' => NodeInv'
  BY EndNodeMoves
<1>2. /\ Underway(s) \in rce /\ Underway(s).sess = s /\ ~Underway(s).full /\ Underway(s).id = local[s]
      /\ \A r \in rce : r.id = local[s] => r = Underway(s)
  BY UnderwayIs
<1>3. PICK r \in rce : r = Underway(s)
  BY <1>2
<1>4. TrxCommitted(q)' = TrxCommitted(q)
  BY <1>1, <1>2, MoveShows
<1>5. TrxCommitted(q) = TrxCommitted(r)
  BY <1>2, <1>3 DEF TrxCommitted
<1>6. level' = level /\ trxBegin0' = trxBegin0
  BY <1>1 DEF SessionsMove
<1>7. ~r.full /\ level[r.sess] > 0 /\ r.level \in 1..level[r.sess]
  BY <1>2, <1>3 DEF IInv, RowInv
<1>8. RowStep(q, r)
  BY <1>3, <1>4, <1>5, <1>6, <1>7 DEF RowStep
<1> QED
  BY <1>3, <1>8

\* A session inside an operation on a node has made the RCE of it.
LEMMA NodeStart ==
    ASSUME IInv, NEW s \in Session, pc[s] = "node"
    PROVE  \E r \in rce : /\ r = Underway(s) /\ r.node \in Node /\ r.sess = s /\ r.full = FALSE /\ r.id = local[s]
                          /\ r \in RCEs(rceidLast) /\ r.delta \in Int /\ r.begin0 = trxBegin0[s]
                          /\ level[s] > 0 /\ ~FReadOnlyTrx(s)
<1>1. /\ Underway(s) \in rce /\ Underway(s).sess = s /\ ~Underway(s).full /\ Underway(s).id = local[s]
      /\ \A r \in rce : r.id = local[s] => r = Underway(s)
  BY UnderwayIs
<1>2. PICK r \in rce : r = Underway(s)
  BY <1>1
<1>3. r \in RCEs(rceidLast) /\ r.full \in BOOLEAN /\ r.node \in Node /\ r.delta \in Int
  BY RowType DEF IInv
<1>4. r.begin0 = trxBegin0[s] /\ level[s] > 0 /\ r.begin0 % TRXID_INCR = 0
  BY <1>1, <1>2 DEF IInv, RowInv
<1>5. ~FReadOnlyTrx(s)
  BY <1>4 DEF FReadOnlyTrx
<1> QED
  BY <1>1, <1>2, <1>3, <1>4, <1>5

\* The node is flagged deleted.
LEMMA FlagDeleteKept ==
    ASSUME IInv, NEW s \in Session, ErrNDFlagDelete(s)
    PROVE  IInv'
<1>1. /\ pc[s] = "node" /\ Underway(s).oper = "FlagDelete" /\ EndNode(s) /\ rce' = rce /\ rceidLast' = rceidLast
      /\ page' = [page EXCEPT ![Underway(s).node].st = "deleted"]
  BY DEF ErrNDFlagDelete, AtNode, store
<1>2. page' \in [Node -> [st : {"absent", "live", "deleted", "checked", "expunged"}, data : Int]]
  BY <1>1 DEF IInv, TypeOK
<1> QED
  BY <1>1, <1>2, EndNodeKept

\* The delta is added to the node.
LEMMA DeltaKept ==
    ASSUME IInv, NEW s \in Session, ErrNDDelta(s)
    PROVE  IInv'
<1>1. pc[s] = "node" /\ Underway(s).oper = "Delta" /\ EndNode(s) /\ rceidLast' = rceidLast
  BY DEF ErrNDDelta, AtNode
<1>2. PICK r \in rce : /\ r = Underway(s) /\ r.node \in Node /\ r.sess = s /\ r.full = FALSE /\ r.id = local[s]
                       /\ r \in RCEs(rceidLast) /\ r.delta \in Int /\ r.begin0 = trxBegin0[s]
                       /\ level[s] > 0 /\ ~FReadOnlyTrx(s)
  BY <1>1, NodeStart
<1>3. PICK d \in DeltaBy : /\ page' = [page EXCEPT ![r.node].data = @ + d]
                           /\ rce' = (rce \ {r}) \cup {[r EXCEPT !.delta = d]}
  BY <1>2 DEF ErrNDDelta, ChangeRCE
<1>4. page \in [Node -> [st : {"absent", "live", "deleted", "checked", "expunged"}, data : Int]] /\ d \in Int
  BY VersionStoreAssumption DEF IInv, TypeOK
<1>5. page' \in [Node -> [st : {"absent", "live", "deleted", "checked", "expunged"}, data : Int]]
  <2>1. page[r.node].data \in Int
    BY <1>2, <1>4
  <2>2. page[r.node].data + d \in Int
    BY <2>1, <1>4
  <2> QED
    BY <2>2, <1>2, <1>3, <1>4
<1>6. PICK q : q = [r EXCEPT !.delta = d]
  OBVIOUS
<1>7. q \in RCEs(rceidLast)
  BY <1>2, <1>4, <1>6 DEF RCEs
<1>8. /\ q.id = r.id /\ q.node = r.node /\ q.sess = r.sess /\ q.begin0 = r.begin0 /\ q.full = FALSE
      /\ q.level = r.level /\ q.oper = r.oper
  BY <1>2, <1>6 DEF RCEs
<1>9. RowStep(q, Underway(s))
  BY <1>1, <1>2, <1>8, UnderwayStep
<1>10. \E x \in RCEs(rceidLast) : RowStep(x, Underway(s)) /\ rce' = (rce \ {Underway(s)}) \cup {x}
  BY <1>2, <1>3, <1>6, <1>7, <1>9
<1> QED
  BY <1>1, <1>5, <1>10, EndNodeKept

\* The node is inserted.
LEMMA InsertKept ==
    ASSUME IInv, NEW s \in Session, ErrNDInsert(s)
    PROVE  IInv'
<1>1. pc[s] = "node" /\ Underway(s).oper = "PreInsert" /\ EndNode(s) /\ rceidLast' = rceidLast
  BY DEF ErrNDInsert, AtNode
<1>2. PICK r \in rce : /\ r = Underway(s) /\ r.node \in Node /\ r.sess = s /\ r.full = FALSE /\ r.id = local[s]
                       /\ r \in RCEs(rceidLast) /\ r.delta \in Int /\ r.begin0 = trxBegin0[s]
                       /\ level[s] > 0 /\ ~FReadOnlyTrx(s)
  BY <1>1, NodeStart
<1>3. rce' = (rce \ {r}) \cup {[r EXCEPT !.oper = "Insert"]}
  BY <1>2 DEF ErrNDInsert, ChangeRCE
<1>4. page \in [Node -> [st : {"absent", "live", "deleted", "checked", "expunged"}, data : Int]] /\ Data \subseteq Int
  BY VersionStoreAssumption DEF IInv, TypeOK
<1>5. page' \in [Node -> [st : {"absent", "live", "deleted", "checked", "expunged"}, data : Int]]
  BY <1>2, <1>4 DEF ErrNDInsert
<1>6. PICK q : q = [r EXCEPT !.oper = "Insert"]
  OBVIOUS
<1>7. q \in RCEs(rceidLast)
  BY <1>2, <1>6 DEF RCEs, Opers
<1>8. /\ q.id = r.id /\ q.node = r.node /\ q.sess = r.sess /\ q.begin0 = r.begin0 /\ q.full = FALSE
      /\ q.level = r.level /\ q.oper = "Insert"
  BY <1>2, <1>6 DEF RCEs
<1>9. {q.oper, Underway(s).oper} \cap Commute = {} /\ q.oper # "PreInsert"
  BY <1>1, <1>8 DEF Commute
<1>10. RowStep(q, Underway(s))
  BY <1>1, <1>2, <1>8, <1>9, UnderwayStep
<1>11. \E x \in RCEs(rceidLast) : RowStep(x, Underway(s)) /\ rce' = (rce \ {Underway(s)}) \cup {x}
  BY <1>2, <1>3, <1>6, <1>7, <1>10
<1> QED
  BY <1>1, <1>5, <1>11, EndNodeKept

\* The operation fails and its RCE is nullified.
LEMMA NullifyFailedKept ==
    ASSUME IInv, NEW s \in Session, VERNullifyFailedDMLRCE(s)
    PROVE  IInv'
<1>1. /\ pc[s] = "node" /\ EndNode(s) /\ rce' = rce \ {Underway(s)} /\ rceidLast' = rceidLast /\ page' = page
  BY DEF VERNullifyFailedDMLRCE
<1>2. page' \in [Node -> [st : {"absent", "live", "deleted", "checked", "expunged"}, data : Int]]
  BY <1>1 DEF IInv, TypeOK
<1> QED
  BY <1>1, <1>2, EndNodeKept

\* A node that was flagged deleted is inserted again.
LEMMA FlagInsertKept ==
    ASSUME IInv, NEW s \in Session, ErrNDFlagInsertAndReplaceData(s)
    PROVE  IInv'
<1>1. pc[s] = "node" /\ Underway(s).oper = "PreInsert" /\ EndNode(s) /\ rceidLast < rceidMax /\ rceidLast' = rceidLast + 1
  BY DEF ErrNDFlagInsertAndReplaceData, AtNode
<1>2. PICK r \in rce : /\ r = Underway(s) /\ r.node \in Node /\ r.sess = s /\ r.full = FALSE /\ r.id = local[s]
                       /\ r \in RCEs(rceidLast) /\ r.delta \in Int /\ r.begin0 = trxBegin0[s]
                       /\ level[s] > 0 /\ ~FReadOnlyTrx(s)
  BY <1>1, NodeStart
<1> DEFINE n == r.node
           new == NewRCE(s, n, "Replace", rceidLast + 1, page[n].data)
<1>3. /\ rce' = (rce \ {r}) \cup {[r EXCEPT !.oper = "Insert"], new}
      /\ ~FVERIWriteConflict(s, n, "Replace")
  BY <1>2 DEF ErrNDFlagInsertAndReplaceData
<1>4. page \in [Node -> [st : {"absent", "live", "deleted", "checked", "expunged"}, data : Int]] /\ Data \subseteq Int
  BY VersionStoreAssumption DEF IInv, TypeOK
<1>5. page' \in [Node -> [st : {"absent", "live", "deleted", "checked", "expunged"}, data : Int]]
  BY <1>2, <1>4 DEF ErrNDFlagInsertAndReplaceData
<1>6. /\ SessionsMove /\ UNCHANGED <<clean, indexLock>>
      /\ pc' \in [Session -> {"idle", "node", "precommit", "drawn", "stamp", "rollback", "expunge", "nullify"}]
      /\ local' \in [Session -> Nat]
      /\ \A p \in rce \ {Underway(s)} :
            p.oper = "PreInsert" => pc'[p.sess] = "node" /\ local'[p.sess] = local[p.sess]
      /\ rce \ {Underway(s)} \subseteq rce' => NodeInv'
  BY <1>1, EndNodeMoves
<1>7. PICK q : q = [r EXCEPT !.oper = "Insert"]
  OBVIOUS
<1>8. q \in RCEs(rceidLast)
  BY <1>2, <1>7 DEF RCEs, Opers
<1>9. /\ q.id = r.id /\ q.node = r.node /\ q.sess = r.sess /\ q.begin0 = r.begin0 /\ q.full = FALSE
      /\ q.level = r.level /\ q.oper = "Insert"
  BY <1>2, <1>7 DEF RCEs
<1>10. {q.oper, Underway(s).oper} \cap Commute = {} /\ q.oper # "PreInsert"
  BY <1>1, <1>9 DEF Commute
<1>11. RowStep(q, r)
  <2>1. RowStep(q, Underway(s))
    BY <1>1, <1>2, <1>9, <1>10, UnderwayStep
  <2> QED
    BY <2>1, <1>2
<1>12. n \in Node /\ page[n].data \in Int /\ "Replace" \in Opers /\ pc[s] \in Waiting
  BY <1>1, <1>2, <1>4 DEF Opers, Waiting
<1>13. RowNew(new, s)
  BY <1>2, <1>3, <1>6, <1>12, MadeRow
<1>14. new \in RCEs(rceidLast + 1)
  BY <1>12, NewRCEType DEF IInv
<1>15. new.id = rceidLast + 1
  BY DEF NewRCE
<1> HIDE DEF n, new
<1>16. rce \subseteq RCEs(rceidLast) /\ rceidLast \in Nat /\ rceidLast <= rceidMax /\ rceidMax \in Nat
  BY RceType DEF IInv
<1>17. RCEs(rceidLast) \subseteq RCEs(rceidLast + 1)
  BY <1>16, RCEsGrow
<1>18. rce' \subseteq RCEs(rceidLast') /\ rceidLast' \in 0..rceidMax /\ rceidLast <= rceidLast'
  BY <1>1, <1>3, <1>7, <1>8, <1>14, <1>16, <1>17
<1>19. ASSUME NEW p \in rce \ {r}
       PROVE  RowStep(p, p) /\ p.id # r.id /\ p.id \in 1..rceidLast
  <2>1. p.oper = "PreInsert" => pc'[p.sess] = "node" /\ local'[p.sess] = local[p.sess]
    BY <1>2, <1>6
  <2>2. RowStep(p, p)
    BY <2>1, <1>6, SameRow
  <2>3. p.id # r.id
    BY DEF IInv, IdsDiffer
  <2> QED
    BY <2>2, <2>3, RowType DEF IInv
<1>20. r.id \in 1..rceidLast
  BY RowType DEF IInv
<1>21. IdsDiffer'
  <2>1. ASSUME NEW x \in rce', NEW y \in rce', x.id = y.id
        PROVE  x = y
    <3>1. x \in rce \ {r} \/ x = q \/ x = new
      BY <1>3, <1>7
    <3>2. y \in rce \ {r} \/ y = q \/ y = new
      BY <1>3, <1>7
    <3>3. CASE x \in rce \ {r} /\ y \in rce \ {r}
      BY <3>3, <2>1 DEF IInv, IdsDiffer
    <3>4. CASE x = new \/ y = new
      BY <3>1, <3>2, <3>4, <2>1, <1>9, <1>15, <1>16, <1>19, <1>20
    <3>5. CASE x # new /\ y # new /\ (x = q \/ y = q)
      BY <3>1, <3>2, <3>5, <2>1, <1>9, <1>19
    <3> QED
      BY <3>1, <3>2, <3>3, <3>4, <3>5
  <2> QED
    BY <2>1 DEF IdsDiffer
<1>22. RowsStep
  BY <1>3, <1>7, <1>11, <1>13, <1>19 DEF RowsStep
<1>23. NodeInv'
  BY <1>2, <1>3, <1>6
<1>24. TypeOK'
  BY <1>5, <1>6, <1>18, MoveType DEF IInv
<1> QED
  BY <1>6, <1>18, <1>21, <1>22, <1>23, <1>24, MoveSteps

-----------------------------------------------------------------------------
(* Steps with sessions as they are *)

\* Sessions stay where they are, and so does every version on its way to a page.
LEMMA StillKept ==
    ASSUME IInv, UNCHANGED <<trxNewest, session, rceidLast, clean>>, indexLock' \in BOOLEAN,
           page' \in [Node -> [st : {"absent", "live", "deleted", "checked", "expunged"}, data : Int]],
           IdsDiffer', RowsStep, rce' \subseteq RCEs(rceidLast),
           \A r \in rce : pc[r.sess] = "node" => r \in rce'
    PROVE  IInv'
<1>1. /\ trxNewest' = trxNewest /\ level' = level /\ trxBegin0' = trxBegin0 /\ trxCommit0' = trxCommit0
      /\ pc' = pc /\ local' = local /\ clean' = clean /\ rceidLast' = rceidLast
  BY DEF session
<1>2. SessionsMove
  BY <1>1 DEF SessionsMove
<1>3. NodeInv'
  BY <1>1 DEF IInv, NodeInv, OfSession
<1>4. rceidLast \in Nat
  BY RceType DEF IInv
<1>5. TypeOK'
  BY <1>1 DEF IInv, TypeOK, RCEs
<1> QED
  BY <1>1, <1>2, <1>3, <1>4, <1>5, MoveSteps

\* Fewer versions.
LEMMA LessKept ==
    ASSUME IInv, UNCHANGED <<trxNewest, session, rceidLast, clean>>, indexLock' \in BOOLEAN,
           page' \in [Node -> [st : {"absent", "live", "deleted", "checked", "expunged"}, data : Int]],
           rce' \subseteq rce, \A r \in rce : pc[r.sess] = "node" => r \in rce'
    PROVE  IInv'
<1>1. /\ trxNewest' = trxNewest /\ level' = level /\ trxBegin0' = trxBegin0 /\ trxCommit0' = trxCommit0
      /\ pc' = pc /\ local' = local
  BY DEF session
<1>2. SessionsMove
  BY <1>1 DEF SessionsMove
<1>3. \A r \in rce' : r.oper = "PreInsert" => pc'[r.sess] = "node" /\ local'[r.sess] = local[r.sess]
  BY <1>1 DEF IInv, RowInv
<1>4. IdsDiffer' /\ RowsStep /\ rce' \subseteq RCEs(rceidLast)
  BY <1>2, <1>3, RowsLess
<1> QED
  BY <1>4, StillKept

\* One version changes.
LEMMA SwapKept ==
    ASSUME IInv, UNCHANGED <<trxNewest, session, rceidLast, clean>>, indexLock' \in BOOLEAN,
           page' \in [Node -> [st : {"absent", "live", "deleted", "checked", "expunged"}, data : Int]],
           NEW r \in rce, pc[r.sess] # "node", NEW q \in RCEs(rceidLast), RowStep(q, r),
           rce' = (rce \ {r}) \cup {q}
    PROVE  IInv'
<1>1. /\ trxNewest' = trxNewest /\ level' = level /\ trxBegin0' = trxBegin0 /\ trxCommit0' = trxCommit0
      /\ pc' = pc /\ local' = local
  BY DEF session
<1>2. SessionsMove
  BY <1>1 DEF SessionsMove
<1>3. \A p \in rce \ {r} : p.oper = "PreInsert" => pc'[p.sess] = "node" /\ local'[p.sess] = local[p.sess]
  BY <1>1 DEF IInv, RowInv
<1>4. IdsDiffer' /\ RowsStep /\ rce' \subseteq RCEs(rceidLast)
  BY <1>2, <1>3, RowsSwap
<1>5. \A p \in rce : pc[p.sess] = "node" => p \in rce'
  OBVIOUS
<1> QED
  BY <1>4, <1>5, StillKept

-----------------------------------------------------------------------------
(* Rollback and commit of one version *)

\* What an undo makes of a page.
LEMMA UndoneType ==
    ASSUME IInv, NEW r \in rce, r.oper # "PreInsert"
    PROVE  /\ Undone(r) \in [st : {"absent", "live", "deleted", "checked", "expunged"}, data : Int]
           /\ [page EXCEPT ![r.node] = Undone(r)] \in [Node -> [st : {"absent", "live", "deleted", "checked", "expunged"}, data : Int]]
<1>1. r.node \in Node /\ r.image \in Int /\ r.delta \in Int /\ r.oper \in Opers
  BY RowType DEF IInv
<1>2. page \in [Node -> [st : {"absent", "live", "deleted", "checked", "expunged"}, data : Int]]
  BY DEF IInv, TypeOK
<1>3. PICK p \in [st : {"absent", "live", "deleted", "checked", "expunged"}, data : Int] : p = page[r.node]
  BY <1>1, <1>2
<1>4. p.data - r.delta \in Int
  BY <1>1
<1>5. Undone(r) \in [st : {"absent", "live", "deleted", "checked", "expunged"}, data : Int]
  <2>1. CASE r.oper = "Replace"
    <3>1. Undone(r) = [p EXCEPT !.data = r.image]
      BY <2>1, <1>3 DEF Undone
    <3> QED
      BY <3>1, <1>1
  <2>2. CASE r.oper = "Insert"
    <3>1. Undone(r) = [p EXCEPT !.st = "deleted"]
      BY <2>2, <1>3 DEF Undone
    <3> QED
      BY <3>1
  <2>3. CASE r.oper = "FlagDelete"
    <3>1. Undone(r) = [p EXCEPT !.st = "live"]
      BY <2>3, <1>3 DEF Undone
    <3> QED
      BY <3>1
  <2>4. CASE r.oper = "Delta"
    <3>1. Undone(r) = [p EXCEPT !.data = p.data - r.delta]
      BY <2>4, <1>3 DEF Undone
    <3> QED
      BY <3>1, <1>4
  <2>5. CASE r.oper \in {"ReadLock", "WriteLock"}
    <3>1. Undone(r) = p
      BY <2>5, <1>3 DEF Undone
    <3> QED
      BY <3>1
  <2> QED
    BY <2>1, <2>2, <2>3, <2>4, <2>5, <1>1 DEF Opers
<1> QED
  BY <1>1, <1>2, <1>5

\* A version that is undone goes or is flagged.
LEMMA NullifyKept ==
    ASSUME IInv, UNCHANGED <<trxNewest, session, rceidLast, clean, indexLock>>,
           page' \in [Node -> [st : {"absent", "live", "deleted", "checked", "expunged"}, data : Int]],
           NEW r \in rce, ~r.full, pc[r.sess] = "rollback", VERINullifyRolledBackRCE(r)
    PROVE  IInv'
<1>0. indexLock' \in BOOLEAN
  BY DEF IInv, TypeOK
<1>1. CASE rce' = rce \ {r}
  <2>1. rce' \subseteq rce /\ \A p \in rce : pc[p.sess] = "node" => p \in rce'
    BY <1>1
  <2> QED
    BY <2>1, <1>0, LessKept
<1>2. CASE rce' = (rce \ {r}) \cup {[r EXCEPT !.rolled = TRUE]}
  <2>1. PICK q : q = [r EXCEPT !.rolled = TRUE]
    OBVIOUS
  <2>2. r \in RCEs(rceidLast) /\ r.sess \in Session /\ r.full \in BOOLEAN /\ r.oper \in Opers
    BY RowType DEF IInv
  <2>3. q \in RCEs(rceidLast)
    BY <2>1, <2>2 DEF RCEs
  <2>4. /\ q.id = r.id /\ q.node = r.node /\ q.sess = r.sess /\ q.begin0 = r.begin0 /\ q.full = r.full
        /\ q.level = r.level /\ q.oper = r.oper /\ q.trx = r.trx
    BY <2>1, <2>2 DEF RCEs
  <2>5. /\ trxNewest' = trxNewest /\ level' = level /\ trxBegin0' = trxBegin0 /\ trxCommit0' = trxCommit0
        /\ pc' = pc /\ local' = local
    BY DEF session
  <2>6. TrxCommitted(q)' = TrxCommitted(r)
    BY <2>4, <2>5 DEF TrxCommitted
  <2>7. level[r.sess] > 0 /\ r.level \in 1..level[r.sess] /\ r.oper # "PreInsert"
    BY DEF IInv, RowInv
  <2>8. RowStep(q, r)
    BY <2>4, <2>5, <2>6, <2>7 DEF RowStep
  <2>9. rce' = (rce \ {r}) \cup {q} /\ pc[r.sess] # "node"
    BY <2>1, <1>2
  <2> QED
    BY <2>3, <2>8, <2>9, <1>0, SwapKept
<1> QED
  BY <1>1, <1>2 DEF VERINullifyRolledBackRCE, ChangeRCE

\* The newest of some of a session's versions.
LEMMA NewestOf ==
    ASSUME IInv, NEW R, R \subseteq rce, R # {}
    PROVE  Newest(R) \in R
<1>1. rceidLast \in Nat /\ \A r \in R : r.id \in 1..rceidLast
  BY RowType, RceType DEF IInv
<1> QED
  BY <1>1, NewestIs

\* Rollback undoes one operation.
LEMMA UndoKept ==
    ASSUME IInv, NEW s \in Session, ErrVERITryUndoLoggedOper(s)
    PROVE  IInv'
<1>1. pc[s] = "rollback" /\ ToUndo(s) # {} /\ UNCHANGED <<trxNewest, session, rceidLast, clean, indexLock>>
  BY DEF ErrVERITryUndoLoggedOper
<1>2. ToUndo(s) \subseteq rce
  BY DEF ToUndo, OfLevel, OfSession
<1>3. PICK r \in ToUndo(s) : r = Newest(ToUndo(s))
  BY <1>1, <1>2, NewestOf
<1>4. r \in rce /\ r.sess = s /\ ~r.full
  BY DEF ToUndo, OfLevel, OfSession
<1>5. page' = [page EXCEPT ![r.node] = Undone(r)] /\ VERINullifyRolledBackRCE(r)
  BY <1>3 DEF ErrVERITryUndoLoggedOper
<1>6. r.oper # "PreInsert"
  BY <1>1, <1>4 DEF IInv, RowInv
<1>7. /\ Undone(r) \in [st : {"absent", "live", "deleted", "checked", "expunged"}, data : Int]
      /\ [page EXCEPT ![r.node] = Undone(r)] \in [Node -> [st : {"absent", "live", "deleted", "checked", "expunged"}, data : Int]]
  BY <1>4, <1>6, UndoneType
<1>8. page' \in [Node -> [st : {"absent", "live", "deleted", "checked", "expunged"}, data : Int]]
  BY <1>5, <1>7
<1>9. pc[r.sess] = "rollback"
  BY <1>1, <1>4
<1> QED
  BY <1>1, <1>4, <1>5, <1>8, <1>9, NullifyKept

\* An RCE that rollback kept for create-index is nullified.
LEMMA KeptNullifiedKept ==
    ASSUME IInv, NEW s \in Session, NullifyKeptRCE(s)
    PROVE  IInv'
<1>1. pc[s] = "rollback" /\ OfLevel(s) # {} /\ UNCHANGED <<trxNewest, session, rceidLast, page, clean, indexLock>>
  BY DEF NullifyKeptRCE
<1>2. OfLevel(s) \subseteq rce
  BY DEF OfLevel, OfSession
<1>3. PICK r \in OfLevel(s) : r = Newest(OfLevel(s))
  BY <1>1, <1>2, NewestOf
<1>4. r \in rce /\ r.sess = s /\ ~r.full
  BY DEF OfLevel, OfSession
<1>5. VERINullifyRolledBackRCE(r)
  BY <1>3 DEF NullifyKeptRCE
<1>6. page' \in [Node -> [st : {"absent", "live", "deleted", "checked", "expunged"}, data : Int]]
  BY <1>1 DEF IInv, TypeOK
<1>7. pc[r.sess] = "rollback" /\ UNCHANGED <<trxNewest, session, rceidLast, clean, indexLock>>
  BY <1>1, <1>4
<1> QED
  BY <1>4, <1>5, <1>6, <1>7, NullifyKept

\* The commit copies the number that the version has shown before.
LEMMA CommitOneKept ==
    ASSUME IInv, NEW s \in Session, VERICommitOneRCEToLevel0(s)
    PROVE  IInv'
<1>1. pc[s] = "stamp" /\ OfSession(s) # {} /\ UNCHANGED <<trxNewest, session, rceidLast, page, clean, indexLock>>
  BY DEF VERICommitOneRCEToLevel0
<1>2. OfSession(s) \subseteq rce
  BY DEF OfSession
<1>3. PICK r \in OfSession(s) : r = Newest(OfSession(s))
  BY <1>1, <1>2, NewestOf
<1>4. r \in rce /\ r.sess = s /\ ~r.full
  BY DEF OfSession
<1>5. PICK q : q = [r EXCEPT !.full = TRUE, !.trx = trxCommit0[s], !.level = 0]
  OBVIOUS
<1>6. rce' = (rce \ {r}) \cup {q}
  BY <1>3, <1>5 DEF VERICommitOneRCEToLevel0, ChangeRCE
<1>7. trxBegin0[s] < trxCommit0[s] /\ trxCommit0[s] <= trxNewest
  BY <1>1 DEF IInv, SessionInv
<1>8. trxBegin0[s] \in Nat /\ trxCommit0[s] \in -1..trxMax /\ trxMax \in Nat /\ levelMax \in Nat
  BY SessionType DEF IInv
<1>9. trxCommit0[s] \in 0..trxMax /\ trxCommit0[s] # trxPrecommit /\ 0 \in 0..levelMax
  BY <1>7, <1>8 DEF trxPrecommit
<1>10. r \in RCEs(rceidLast) /\ r.full \in BOOLEAN /\ r.oper \in Opers
  BY <1>4, RowType DEF IInv
<1>11. q \in RCEs(rceidLast)
  BY <1>5, <1>9, <1>10 DEF RCEs
<1>12. /\ q.id = r.id /\ q.node = r.node /\ q.sess = r.sess /\ q.begin0 = r.begin0 /\ q.full = TRUE
       /\ q.oper = r.oper /\ q.trx = trxCommit0[s]
  BY <1>5, <1>10 DEF RCEs
<1>13. /\ trxNewest' = trxNewest /\ level' = level /\ trxBegin0' = trxBegin0 /\ trxCommit0' = trxCommit0
       /\ pc' = pc /\ local' = local
  BY <1>1 DEF session
<1>14. TrxCommitted(q)' = trxCommit0[s]
  BY <1>12 DEF TrxCommitted
<1>15. TrxCommitted(r) = trxCommit0[s]
  BY <1>4, <1>9 DEF TrxCommitted
<1>16. r.oper # "PreInsert"
  BY <1>1, <1>4 DEF IInv, RowInv
<1>17. RowStep(q, r)
  BY <1>1, <1>4, <1>7, <1>12, <1>13, <1>14, <1>15, <1>16 DEF RowStep
<1>18. indexLock' \in BOOLEAN /\ page' \in [Node -> [st : {"absent", "live", "deleted", "checked", "expunged"}, data : Int]]
  BY <1>1 DEF IInv, TypeOK
<1>19. pc[r.sess] # "node" /\ UNCHANGED <<trxNewest, session, rceidLast, clean>>
  BY <1>1, <1>4
<1> QED
  BY <1>4, <1>6, <1>11, <1>17, <1>18, <1>19, SwapKept

-----------------------------------------------------------------------------
(* Cleanup *)

\* A create-index starts or ends.
LEMMA CreateIndexKept ==
    ASSUME IInv, CreateIndexLock
    PROVE  IInv'
<1>1. UNCHANGED <<trxNewest, session, rceidLast, clean>> /\ rce' = rce /\ page' = page /\ indexLock' = ~indexLock
  BY DEF CreateIndexLock, store
<1>2. indexLock' \in BOOLEAN /\ page' \in [Node -> [st : {"absent", "live", "deleted", "checked", "expunged"}, data : Int]]
  BY <1>1 DEF IInv, TypeOK
<1> QED
  BY <1>1, <1>2, LessKept

\* What page cleanup takes had committed before every open transaction began.
LEMMA ExpungedOld ==
    ASSUME IInv, NEW r \in rce, pc[r.sess] = "node"
    PROVE  r.full \/ TrxCommitted(r) >= TrxOldest
<1>1. r.sess \in Session /\ r.full \in BOOLEAN
  BY RowType DEF IInv
<1>2. trxCommit0[r.sess] = trxMax /\ trxMax \in Nat
  BY <1>1, VersionStoreAssumption DEF IInv, SessionInv, Waiting
<1>3. /\ TrxOldest \in 0..trxMax
      /\ \A s \in Session : TrxOldest <= trxBegin0[s]
      /\ TrxOldest = trxMax \/ \E s \in Session : TrxOldest = trxBegin0[s]
  BY TrxOldestIs DEF IInv
<1>4. ~r.full => TrxCommitted(r) = trxMax
  BY <1>2 DEF TrxCommitted, trxPrecommit
<1> QED
  BY <1>1, <1>2, <1>3, <1>4

\* A session in a transaction goes into page cleanup, on in it, or out of it.
LEMMA ExpungeMoves ==
    ASSUME IInv, NEW s \in Session, InTrx(s) \/ pc[s] \in {"expunge", "nullify"},
           NEW to \in {"idle", "expunge", "nullify"}, pc' = [pc EXCEPT ![s] = to],
           UNCHANGED <<trxNewest, level, trxBegin0, trxCommit0, local, rceidLast, clean, indexLock>>,
           rce' \subseteq rce, \A r \in rce : pc[r.sess] = "node" /\ ~r.full => r \in rce',
           page' \in [Node -> [st : {"absent", "live", "deleted", "checked", "expunged"}, data : Int]]
    PROVE  IInv'
<1>1. /\ trxNewest' = trxNewest /\ level' = level /\ trxBegin0' = trxBegin0 /\ trxCommit0' = trxCommit0
      /\ local' = local /\ rceidLast' = rceidLast /\ clean' = clean /\ indexLock' = indexLock
  OBVIOUS
<1>2. pc \in [Session -> {"idle", "node", "precommit", "drawn", "stamp", "rollback", "expunge", "nullify"}]
  BY DEF IInv, TypeOK
<1>3. pc'[s] = to /\ \A t \in Session \ {s} : pc'[t] = pc[t]
  BY <1>2
<1>4. pc[s] \in Waiting /\ pc[s] # "node" /\ pc'[s] \in Waiting /\ pc'[s] # "node"
  BY <1>3 DEF InTrx, Idle, Waiting
<1>5. level[s] > 0
  <2>1. level[s] \in Nat /\ (level[s] = 0 => pc[s] = "idle")
    BY SessionType DEF IInv, SessionInv
  <2> QED
    BY <2>1 DEF InTrx
<1>6. SessionsMove
  BY <1>1, <1>3, <1>4, <1>5 DEF SessionsMove
<1>7. ASSUME NEW r \in rce', r.oper = "PreInsert"
      PROVE  pc'[r.sess] = "node" /\ local'[r.sess] = local[r.sess]
  <2>1. r \in rce /\ r.sess \in Session
    BY RowType DEF IInv
  <2>2. pc[r.sess] = "node"
    BY <2>1, <1>7 DEF IInv, RowInv
  <2> QED
    BY <2>1, <2>2, <1>1, <1>3, <1>4
<1>8. IdsDiffer' /\ RowsStep /\ rce' \subseteq RCEs(rceidLast)
  BY <1>6, <1>7, RowsLess
<1>9. NodeInv'
  <2>1. ASSUME NEW t \in Session, pc'[t] = "node"
        PROVE  \E r \in rce' : r.sess = t /\ ~r.full /\ r.id = local'[t]
    <3>1. pc[t] = "node"
      BY <2>1, <1>3, <1>4
    <3>2. PICK r \in rce : r.sess = t /\ ~r.full /\ r.id = local[t]
      BY <3>1 DEF IInv, NodeInv, OfSession
    <3>3. r \in rce'
      BY <3>1, <3>2
    <3> QED
      BY <3>2, <3>3, <1>1
  <2> QED
    BY <2>1 DEF NodeInv, OfSession
<1>10. pc' \in [Session -> {"idle", "node", "precommit", "drawn", "stamp", "rollback", "expunge", "nullify"}]
  BY <1>2
<1>11. rceidLast' \in 0..rceidMax /\ rceidLast <= rceidLast' /\ rceidLast \in Nat
  BY <1>1, RceType DEF IInv, TypeOK
<1>12. TypeOK'
  BY <1>1, <1>6, <1>8, <1>10, <1>11, MoveType DEF IInv, TypeOK
<1> QED
  BY <1>1, <1>6, <1>8, <1>9, <1>11, <1>12, MoveSteps

\* Page cleanup looks at a deleted node, and takes it from its page.
LEMMA DeleteNodeKept ==
    ASSUME IInv, NEW s \in Session, NEW n \in Node, ErrBTISPCDeleteNodes(s, n) \/ ErrNDDelete(s, n)
    PROVE  IInv'
<1>1. /\ UNCHANGED <<trxNewest, level, trxBegin0, trxCommit0, local, rceidLast, clean, indexLock>>
      /\ rce' = rce
  BY DEF ErrBTISPCDeleteNodes, ErrNDDelete, store
<1>2. InTrx(s) \/ pc[s] \in {"expunge", "nullify"}
  BY DEF ErrBTISPCDeleteNodes, ErrNDDelete
<1>3. PICK to \in {"idle", "expunge", "nullify"} : pc' = [pc EXCEPT ![s] = to]
  BY DEF ErrBTISPCDeleteNodes, ErrNDDelete
<1>4. page \in [Node -> [st : {"absent", "live", "deleted", "checked", "expunged"}, data : Int]]
  BY DEF IInv, TypeOK
<1>5. page' \in [Node -> [st : {"absent", "live", "deleted", "checked", "expunged"}, data : Int]]
  BY <1>4 DEF ErrBTISPCDeleteNodes, ErrNDDelete
<1>6. rce' \subseteq rce /\ \A r \in rce : pc[r.sess] = "node" /\ ~r.full => r \in rce'
  BY <1>1
<1> QED
  BY <1>1, <1>2, <1>3, <1>5, <1>6, ExpungeMoves

\* The versions of the node that nobody needs go.
LEMMA ExpungeKept ==
    ASSUME IInv, NEW s \in Session, NEW n \in Node, VERNullifyInactiveVersionsOnBM(s, n)
    PROVE  IInv'
<1>1. /\ UNCHANGED <<trxNewest, level, trxBegin0, trxCommit0, local, rceidLast, clean, indexLock>>
      /\ rce' = {r \in rce : r.node = n => TrxCommitted(r) >= TrxOldest}
      /\ page' = [page EXCEPT ![n] = absent]
  BY DEF VERNullifyInactiveVersionsOnBM
<1>2. pc[s] \in {"expunge", "nullify"}
  BY DEF VERNullifyInactiveVersionsOnBM
<1>3. PICK to \in {"idle", "expunge", "nullify"} : pc' = [pc EXCEPT ![s] = to]
  BY DEF VERNullifyInactiveVersionsOnBM
<1>4. page' \in [Node -> [st : {"absent", "live", "deleted", "checked", "expunged"}, data : Int]]
  BY <1>1 DEF IInv, TypeOK, absent
\* Only versions of open transactions are ever on their way to a page.
<1>5. ASSUME NEW r \in rce, pc[r.sess] = "node", ~r.full
      PROVE  r \in rce'
  <2>1. TrxCommitted(r) >= TrxOldest
    BY <1>5, ExpungedOld
  <2> QED
    BY <2>1, <1>1
<1>6. rce' \subseteq rce
  BY <1>1
<1> QED
  BY <1>1, <1>2, <1>3, <1>4, <1>5, <1>6, ExpungeMoves

\* A step of the cleanup thread.
LEMMA CleanStepKept ==
    ASSUME IInv, UNCHANGED <<trxNewest, session, rceidLast, page, indexLock>>, rce' \subseteq rce,
           clean' \in [pc : {"idle", "scan", "nullify"}, oldest : 0..trxMax, id : Nat], CleanInv',
           \A r \in rce : r \notin rce' => r.full
    PROVE  IInv'
<1>1. /\ trxNewest' = trxNewest /\ level' = level /\ trxBegin0' = trxBegin0 /\ trxCommit0' = trxCommit0
      /\ pc' = pc /\ local' = local /\ rceidLast' = rceidLast /\ page' = page /\ indexLock' = indexLock
  BY DEF session
<1>2. SessionsMove
  BY <1>1 DEF SessionsMove
<1>3. \A r \in rce' : r.oper = "PreInsert" => pc'[r.sess] = "node" /\ local'[r.sess] = local[r.sess]
  BY <1>1 DEF IInv, RowInv
<1>4. IdsDiffer' /\ RowsStep /\ rce' \subseteq RCEs(rceidLast)
  BY <1>2, <1>3, RowsLess
<1>5. TypeOK'
  BY <1>1, <1>4 DEF IInv, TypeOK, RCEs
<1>6. SessionsInv' /\ \A t \in Session : SessionStep(t)
  BY <1>2, MoveKept
<1>7. trxNewest <= trxNewest'
  BY <1>1 DEF IInv, TypeOK
<1>8. (\A q \in rce' : RowInv(q)') /\ OneCommit' /\ FirstUpdaterWins'
  BY <1>1, <1>4, <1>5, <1>6, <1>7, RowsKept
<1>9. NodeInv'
  <2>1. ASSUME NEW t \in Session, pc[t] = "node"
        PROVE  \E r \in rce' : r.sess = t /\ ~r.full /\ r.id = local[t]
    <3>1. PICK r \in rce : r.sess = t /\ ~r.full /\ r.id = local[t]
      BY <2>1 DEF IInv, NodeInv, OfSession
    <3> QED
      BY <3>1
  <2> QED
    BY <2>1, <1>1 DEF NodeInv, OfSession
<1> QED
  BY <1>4, <1>5, <1>6, <1>8, <1>9 DEF IInv, SessionsInv

\* TrxOldest is not beyond a transaction that may begin next.
LEMMA TrxOldestBound ==
    ASSUME IInv
    PROVE  /\ TrxOldest \in 0..trxMax /\ \A s \in Session : TrxOldest <= trxBegin0[s]
           /\ TrxOldest # trxMax => TrxOldest <= trxNewest + 2
<1>1. /\ TrxOldest \in 0..trxMax
      /\ \A s \in Session : TrxOldest <= trxBegin0[s]
      /\ TrxOldest = trxMax \/ \E s \in Session : TrxOldest = trxBegin0[s]
  BY TrxOldestIs DEF IInv
<1>2. ASSUME NEW s \in Session, trxBegin0[s] # trxMax
      PROVE  trxBegin0[s] <= trxNewest + 2
  <2>1. level[s] \in Nat /\ (level[s] = 0 <=> trxBegin0[s] = trxMax)
    BY SessionType DEF IInv, SessionInv
  <2>2. level[s] > 0 => trxBegin0[s] <= trxNewest + TRXID_INCR \div 2
    BY DEF IInv, SessionInv
  <2>3. TRXID_INCR \div 2 = 2
    BY DEF TRXID_INCR
  <2> QED
    BY <2>1, <2>2, <2>3, <1>2
<1> QED
  BY <1>1, <1>2

\* A cleanup starts.
LEMMA StartCleanKept ==
    ASSUME IInv, StartClean
    PROVE  IInv'
<1>1. /\ clean' = [pc |-> "scan", oldest |-> TrxOldest, id |-> 0] /\ rce' = rce
      /\ UNCHANGED <<trxNewest, session, rceidLast, page, indexLock>>
  BY DEF StartClean, store
<1>2. /\ TrxOldest \in 0..trxMax /\ \A s \in Session : TrxOldest <= trxBegin0[s]
      /\ TrxOldest # trxMax => TrxOldest <= trxNewest + 2
  BY TrxOldestBound
<1>3. clean' \in [pc : {"idle", "scan", "nullify"}, oldest : 0..trxMax, id : Nat]
  BY <1>1, <1>2
<1>4. trxBegin0' = trxBegin0 /\ trxNewest' = trxNewest /\ rceidLast' = rceidLast /\ rceidLast \in Nat
  BY <1>1, RceType DEF IInv, session
<1>5. clean'.pc = "scan" /\ clean'.oldest = TrxOldest /\ clean'.id = 0 /\ TRXID_INCR \div 2 = 2
  BY <1>1 DEF TRXID_INCR
<1>6. CleanInv'
  BY <1>2, <1>4, <1>5 DEF CleanInv
<1> QED
  BY <1>1, <1>3, <1>6, CleanStepKept

\* A cleanup nullifies an RCE, or stops.
LEMMA CleanKeptByScan ==
    ASSUME IInv, ErrVERIRCEClean
    PROVE  IInv'
<1> DEFINE r == Oldest(rce)
           oldest1 == IF clean.oldest = trxMax THEN TrxOldest ELSE clean.oldest
           oldest2 == IF r.trx < oldest1 THEN oldest1 ELSE TrxOldest
<1>1. /\ UNCHANGED <<trxNewest, session, rceidLast, page, indexLock>> /\ rce' = rce /\ clean.pc = "scan"
      /\ IF rce = {} \/ ~r.full \/ r.trx >= oldest2
         THEN StopClean
         ELSE clean' = [pc |-> "nullify", oldest |-> oldest2, id |-> r.id]
  BY DEF ErrVERIRCEClean, store
<1>2. /\ TrxOldest \in 0..trxMax /\ \A s \in Session : TrxOldest <= trxBegin0[s]
      /\ TrxOldest # trxMax => TrxOldest <= trxNewest + 2
  BY TrxOldestBound
<1>3. /\ trxBegin0' = trxBegin0 /\ trxNewest' = trxNewest /\ rceidLast' = rceidLast /\ rceidLast \in Nat
      /\ trxMax \in Nat /\ TRXID_INCR \div 2 = 2
  BY <1>1, RceType, VersionStoreAssumption DEF IInv, session, TRXID_INCR
<1>4. CASE StopClean
  <2>1. clean' = [pc |-> "idle", oldest |-> 0, id |-> 0]
    BY <1>4 DEF StopClean
  <2>2. clean' \in [pc : {"idle", "scan", "nullify"}, oldest : 0..trxMax, id : Nat]
    BY <2>1, <1>3
  <2>3. clean'.pc = "idle" /\ clean'.oldest = 0 /\ clean'.id = 0
    BY <2>1
  <2>4. trxNewest \in Nat
    BY DEF IInv, TypeOK
  <2>5. CleanInv'
    BY <2>3, <2>4, <1>3 DEF CleanInv
  <2> QED
    BY <2>2, <2>5, <1>1, CleanStepKept
<1>5. CASE rce # {} /\ r.full /\ ~(r.trx >= oldest2) /\ clean' = [pc |-> "nullify", oldest |-> oldest2, id |-> r.id]
  <2>1. r \in rce
    <3>1. \A q \in rce : q.id \in 1..rceidLast
      BY RowType DEF IInv
    <3> QED
      BY <3>1, <1>3, <1>5, OldestIs
  <2>2. PICK q \in rce : q = r
    BY <2>1
  <2>3. q.id \in 1..rceidLast /\ q.trx \in 0..trxMax
    BY RowType DEF IInv
  <2>4. /\ clean.oldest \in 0..trxMax
        /\ clean.oldest # trxMax => clean.oldest <= trxNewest + 2
        /\ clean.oldest = trxMax \/ \A s \in Session : clean.oldest <= trxBegin0[s]
    <3>1. clean \in [pc : {"idle", "scan", "nullify"}, oldest : 0..trxMax, id : Nat]
      BY DEF IInv, TypeOK
    <3> QED
      BY <3>1, <1>1, <1>3 DEF IInv, CleanInv
  <2>5. /\ oldest2 \in 0..trxMax /\ (oldest2 # trxMax => oldest2 <= trxNewest + 2)
        /\ \A s \in Session : oldest2 <= trxBegin0[s]
    BY <2>4, <1>2
  <2>6. q.full /\ q.trx < oldest2
    BY <2>2, <2>3, <2>5, <1>3, <1>5
  <2>7. clean'.pc = "nullify" /\ clean'.oldest = oldest2 /\ clean'.id = q.id
    BY <2>2, <1>5
  <2>8. clean' \in [pc : {"idle", "scan", "nullify"}, oldest : 0..trxMax, id : Nat]
    <3>1. r.id \in Nat
      BY <2>2, <2>3, <1>3
    <3> QED
      BY <3>1, <2>5, <1>5
  <2> HIDE DEF oldest2
  <2>9. \A p \in rce' : p.id = clean'.id => p.full /\ p.trx < clean'.oldest
    BY <2>6, <2>7, <1>1 DEF IInv, IdsDiffer
  <2>10. CleanInv'
    BY <2>3, <2>5, <2>7, <2>9, <1>3 DEF CleanInv
  <2> QED
    BY <2>8, <2>10, <1>1, CleanStepKept
<1> QED
  BY <1>1, <1>4, <1>5

\* The RCEs that ErrPrepareToDeallocate takes are committed and old enough.
LEMMA Deallocated ==
    ASSUME IInv, ErrPrepareToDeallocate, NEW r \in rce, r \notin rce'
    PROVE  r.full /\ r.trx < clean.oldest
<1> DEFINE this == {q \in rce : q.id = clean.id}
           next == {q \in rce : \E p \in this : q.node = p.node /\ q.id > p.id}
           stop == {q \in next : ~q.full \/ q.trx >= clean.oldest \/ q.oper \in {"FlagDelete", "Delta"}}
           along == {q \in next : \A p \in stop : q.id < p.id}
<1>1. rce' = rce \ (this \cup along) /\ clean.pc = "nullify"
  BY DEF ErrPrepareToDeallocate
<1>2. r.id \in Nat /\ r.trx \in 0..trxMax /\ r.full \in BOOLEAN /\ trxMax \in Nat
  BY RowType, VersionStoreAssumption DEF IInv
<1>3. clean.oldest \in 0..trxMax
  <2>1. clean \in [pc : {"idle", "scan", "nullify"}, oldest : 0..trxMax, id : Nat]
    BY DEF IInv, TypeOK
  <2> QED
    BY <2>1
<1>4. CASE r \in this
  BY <1>1, <1>4 DEF IInv, CleanInv
<1>5. CASE r \in along
  <2>1. r \notin stop
    BY <1>2, <1>5
  <2>2. ~(~r.full \/ r.trx >= clean.oldest)
    BY <2>1, <1>5
  <2> QED
    BY <2>2, <1>2, <1>3
<1> QED
  BY <1>1, <1>4, <1>5

\* A cleanup deletes the node of an RCE.
LEMMA DeallocateKept ==
    ASSUME IInv, ErrPrepareToDeallocate
    PROVE  IInv'
<1>1. /\ rce' \subseteq rce /\ clean.pc = "nullify" /\ clean' = [clean EXCEPT !.pc = "scan", !.id = 0]
      /\ UNCHANGED <<trxNewest, session, rceidLast, page, indexLock>>
  BY DEF ErrPrepareToDeallocate
<1>2. \A r \in rce : r \notin rce' => r.full
  BY Deallocated
<1>3. clean \in [pc : {"idle", "scan", "nullify"}, oldest : 0..trxMax, id : Nat]
  BY DEF IInv, TypeOK
<1>4. clean' \in [pc : {"idle", "scan", "nullify"}, oldest : 0..trxMax, id : Nat]
  BY <1>1, <1>3
<1>5. clean'.pc = "scan" /\ clean'.oldest = clean.oldest /\ clean'.id = 0
  BY <1>1, <1>3
<1>6. /\ trxBegin0' = trxBegin0 /\ trxNewest' = trxNewest /\ rceidLast' = rceidLast /\ rceidLast \in Nat
      /\ QuietClean \in BOOLEAN
  BY <1>1, RceType, VersionStoreAssumption DEF IInv, session
\* Without QuietClean a transaction may have begun since there was none.
<1>7. clean.oldest = trxMax \/ \A s \in Session : clean.oldest <= trxBegin0[s]
  BY <1>1 DEF IInv, CleanInv
<1>8. CleanInv'
  BY <1>1, <1>5, <1>6, <1>7 DEF IInv, CleanInv
<1> QED
  BY <1>1, <1>2, <1>4, <1>8, CleanStepKept

-----------------------------------------------------------------------------
(* Transactions *)

\* All sessions but s are left alone.
Others(s) ==
    \A t \in Session \ {s} :
        /\ level'[t] = level[t] /\ trxBegin0'[t] = trxBegin0[t] /\ trxCommit0'[t] = trxCommit0[t]
        /\ pc'[t] = pc[t] /\ local'[t] = local[t]

\* An operation of one session keeps what is known of every other.
LEMMA OtherSession ==
    ASSUME IInv, NEW s \in Session, Others(s), NEW t \in Session \ {s},
           trxNewest' \in Nat, trxNewest <= trxNewest'
    PROVE  SessionInv(t)' /\ SessionStep(t)
<1>1. /\ level'[t] = level[t] /\ trxBegin0'[t] = trxBegin0[t] /\ trxCommit0'[t] = trxCommit0[t]
      /\ pc'[t] = pc[t] /\ local'[t] = local[t]
  BY DEF Others
<1>2. /\ trxNewest \in Nat /\ trxMax \in Nat /\ trxLast \in Nat /\ trxLast < trxMax
      /\ level[t] \in Nat /\ level[t] \in 0..levelMax /\ levelMax \in Nat
      /\ trxBegin0[t] \in Nat /\ trxBegin0[t] \in 0..trxMax
      /\ trxCommit0[t] \in Int /\ trxCommit0[t] \in -1..trxMax /\ local[t] \in Nat
      /\ pc[t] \in {"idle", "node", "precommit", "drawn", "stamp", "rollback", "expunge", "nullify"}
  BY SessionType DEF IInv
<1>3. SessionInv(t)
  BY DEF IInv
<1>4. /\ (level[t] = 0 <=> trxBegin0[t] = trxMax)
      /\ level[t] > 0 => trxBegin0[t] <= trxNewest + 2
      /\ level[t] > 0 /\ ~FReadOnlyTrx(t) => trxBegin0[t] <= trxNewest
      /\ pc[t] = "drawn" => trxBegin0[t] < local[t] /\ local[t] <= trxNewest
      /\ pc[t] = "stamp" => trxBegin0[t] < trxCommit0[t] /\ trxCommit0[t] <= trxNewest
  <2>1. TRXID_INCR \div 2 = 2
    BY DEF TRXID_INCR
  <2> QED
    BY <2>1, <1>3 DEF SessionInv
<1>5. /\ level[t] > 0 => trxBegin0[t] <= trxNewest' + 2
      /\ level[t] > 0 /\ ~FReadOnlyTrx(t) => trxBegin0[t] <= trxNewest'
      /\ pc[t] = "drawn" => trxBegin0[t] < local[t] /\ local[t] <= trxNewest'
      /\ pc[t] = "stamp" => trxBegin0[t] < trxCommit0[t] /\ trxCommit0[t] <= trxNewest'
  BY <1>2, <1>4
<1>6. SessionInv(t)'
  <2>1. TRXID_INCR \div 2 = 2 /\ FReadOnlyTrx(t)' = FReadOnlyTrx(t)
    BY <1>1 DEF TRXID_INCR, FReadOnlyTrx
  <2> QED
    BY <2>1, <1>1, <1>3, <1>5 DEF SessionInv
<1>7. SessionStep(t)
  BY <1>1, <1>2, <1>4 DEF SessionStep
<1> QED
  BY <1>6, <1>7

\* An RCE that the step does not concern.
LEMMA OtherRow ==
    ASSUME IInv, NEW s \in Session, Others(s), NEW r \in rce, r.full \/ r.sess # s
    PROVE  RowStep(r, r)
<1>1. r.full \in BOOLEAN /\ r.sess \in Session
  BY RowType DEF IInv
<1>2. /\ r.full => r.trx <= trxNewest
      /\ ~r.full => level[r.sess] > 0 /\ r.level \in 1..level[r.sess]
      /\ r.oper = "PreInsert" => ~r.full /\ pc[r.sess] = "node" /\ r.id = local[r.sess]
  BY DEF IInv, RowInv
<1>3. CASE r.full
  <2>1. TrxCommitted(r)' = TrxCommitted(r)
    BY <1>3 DEF TrxCommitted
  <2> QED
    BY <2>1, <1>2, <1>3 DEF RowStep
<1>4. CASE ~r.full
  <2>1. r.sess # s
    BY <1>4
  <2>2. /\ level'[r.sess] = level[r.sess] /\ trxBegin0'[r.sess] = trxBegin0[r.sess]
        /\ trxCommit0'[r.sess] = trxCommit0[r.sess] /\ pc'[r.sess] = pc[r.sess] /\ local'[r.sess] = local[r.sess]
    BY <2>1, <1>1 DEF Others
  <2>3. TrxCommitted(r)' = TrxCommitted(r)
    BY <2>2 DEF TrxCommitted
  <2> QED
    BY <2>2, <2>3, <1>2, <1>4 DEF RowStep
<1> QED
  BY <1>1, <1>3, <1>4

\* A step of a transaction that draws no commit number.
LEMMA TrxSteps ==
    ASSUME IInv, TypeOK', NEW s \in Session, Others(s), SessionInv(s)', SessionStep(s), BeginsDiffer', NumbersInv',
           trxNewest <= trxNewest', UNCHANGED <<clean, rceidLast>>, IdsDiffer',
           \A q \in rce' : \E r \in rce : RowStep(q, r), NodeInv'
    PROVE  IInv'
<1>1. trxNewest' \in Nat /\ rceidLast' = rceidLast /\ rceidLast \in Nat
  BY RceType DEF IInv, TypeOK
<1>2. \A t \in Session : SessionInv(t)' /\ SessionStep(t)
  BY <1>1, OtherSession
<1>3. RowsStep
  BY DEF RowsStep
<1>4. ASSUME NEW q \in rce', NEW t \in Session, RowNew(q, t)
      PROVE  FALSE
  <2>1. PICK r \in rce : RowStep(q, r)
    OBVIOUS
  <2>2. r.id \in 1..rceidLast
    BY RowType DEF IInv
  <2> QED
    BY <2>1, <2>2, <1>1, <1>4 DEF RowStep, RowNew
<1>5. (\E q \in rce' : \E t \in Session : RowNew(q, t)) => trxNewest' = trxNewest
  BY <1>4
<1>6. (\A q \in rce' : RowInv(q)') /\ OneCommit' /\ FirstUpdaterWins'
  BY <1>2, <1>3, <1>5, RowsKept
<1>7. rceidLast <= rceidLast'
  BY <1>1
<1>8. CleanInv'
  BY <1>2, <1>3, <1>7, CleanKept
<1> QED
  BY <1>2, <1>6, <1>8 DEF IInv

\* Numbers of open transactions still differ when no transaction begins.
LEMMA NoNewBegin ==
    ASSUME IInv, \A t \in Session : level'[t] > 0 => level[t] > 0 /\ trxBegin0'[t] = trxBegin0[t]
    PROVE  BeginsDiffer'
BY DEF IInv, BeginsDiffer, FReadOnlyTrx

\* The bound on the numbers is kept when none is drawn.
LEMMA NoNewDraw ==
    ASSUME IInv, trxNewest' = trxNewest, ToDraw' \subseteq ToDraw
    PROVE  NumbersInv'
<1>1. /\ IsFiniteSet(ToDraw) /\ Cardinality(ToDraw) \in Nat
      /\ IsFiniteSet(ToDraw)' /\ Cardinality(ToDraw)' \in Nat
  BY ToDrawType
<1>2. ToDraw' \in SUBSET ToDraw
  OBVIOUS
<1>3. Cardinality(ToDraw') <= Cardinality(ToDraw)
  BY <1>1, <1>2, FS_Subset
<1>4. trxNewest \in Nat /\ trxLast \in Nat
  BY VersionStoreAssumption DEF IInv, TypeOK
<1>5. trxNewest % 4 = 0 /\ trxNewest + 4 * Cardinality(ToDraw) <= trxLast
  BY DEF IInv, NumbersInv, TRXID_INCR
<1>6. trxNewest + 4 * Cardinality(ToDraw') <= trxLast
  BY <1>1, <1>3, <1>4, <1>5
<1> QED
  BY <1>5, <1>6 DEF NumbersInv, TRXID_INCR

\* Operations on nodes keep their RCEs when no RCE changes.
LEMMA NodesLeft ==
    ASSUME IInv, rce' = rce, \A t \in Session : pc'[t] = "node" => pc[t] = "node" /\ local'[t] = local[t]
    PROVE  NodeInv'
BY DEF IInv, NodeInv, OfSession

\* A transaction begins, with a number beyond all that were drawn.
LEMMA BeginsKept ==
    ASSUME IInv, NEW s \in Session, NEW b, PIBSetTrxBegin0(s, b),
           \/ b = trxNewest + TRXID_INCR /\ trxNewest' = trxNewest + TRXID_INCR
           \/ b = trxNewest + TRXID_INCR \div 2 /\ trxNewest' = trxNewest
    PROVE  IInv'
<1>1. /\ pc[s] = "idle" /\ level[s] = 0 /\ NumbersLeft
      /\ QuietClean => ~(clean.pc = "nullify" /\ clean.oldest = trxMax)
      /\ trxBegin0' = [trxBegin0 EXCEPT ![s] = b] /\ trxCommit0' = [trxCommit0 EXCEPT ![s] = trxMax]
      /\ level' = [level EXCEPT ![s] = 1]
      /\ pc' = pc /\ local' = local /\ rce' = rce /\ rceidLast' = rceidLast
      /\ page' = page /\ clean' = clean /\ indexLock' = indexLock
  BY DEF PIBSetTrxBegin0, Idle, store
<1>2. /\ trxNewest \in Nat /\ trxMax \in Nat /\ trxLast \in Nat /\ trxLast < trxMax /\ levelMax \in Nat /\ levelMax > 0
      /\ level \in [Session -> 0..levelMax] /\ trxBegin0 \in [Session -> 0..trxMax]
      /\ trxCommit0 \in [Session -> trxPrecommit..trxMax]
  BY VersionStoreAssumption DEF IInv, TypeOK
<1>3. /\ \/ b = trxNewest + 4 /\ trxNewest' = trxNewest + 4
         \/ b = trxNewest + 2 /\ trxNewest' = trxNewest
      /\ trxNewest % 4 = 0
  BY DEF TRXID_INCR, IInv, NumbersInv
<1>4. /\ IsFiniteSet(ToDraw) /\ Cardinality(ToDraw) \in Nat
      /\ IsFiniteSet(ToDraw)' /\ Cardinality(ToDraw)' \in Nat
  BY ToDrawType
<1>5. trxNewest + 4 * (2 + Cardinality(ToDraw)) <= trxLast
  BY <1>1 DEF NumbersLeft, ToDraw, TRXID_INCR
<1>6. b \in Nat /\ b < trxMax /\ trxNewest + 2 <= b /\ trxNewest' \in Nat /\ trxNewest <= trxNewest' /\ trxNewest' % 4 = 0
      /\ b <= trxNewest' + 2 /\ (b % 4 = 0 => b <= trxNewest')
  BY <1>2, <1>3, <1>4, <1>5
<1>7. level'[s] = 1 /\ trxBegin0'[s] = b /\ trxCommit0'[s] = trxMax /\ pc'[s] = "idle"
  BY <1>1, <1>2
<1>8. Others(s)
  BY <1>1, <1>2 DEF Others
<1>9. TypeOK'
  <2>1. level' \in [Session -> 0..levelMax] /\ trxBegin0' \in [Session -> 0..trxMax]
    BY <1>1, <1>2, <1>6
  <2>2. trxCommit0' \in [Session -> trxPrecommit..trxMax]
    BY <1>1, <1>2 DEF trxPrecommit
  <2> QED
    BY <2>1, <2>2, <1>1, <1>6 DEF IInv, TypeOK
<1>10. SessionInv(s)'
  <2>1. TRXID_INCR \div 2 = 2 /\ (~FReadOnlyTrx(s)' => b % 4 = 0)
    BY <1>7 DEF TRXID_INCR, FReadOnlyTrx
  <2> QED
    BY <2>1, <1>6, <1>7, <1>2 DEF SessionInv, Waiting
<1>11. SessionStep(s)
  BY <1>1, <1>6, <1>7 DEF SessionStep
<1>12. BeginsDiffer'
  <2>1. ASSUME NEW u \in Session, NEW t \in Session, u # t, level'[u] > 0, level'[t] > 0, ~FReadOnlyTrx(u)'
        PROVE  trxBegin0'[u] # trxBegin0'[t]
    <3>1. CASE u # s /\ t # s
      BY <3>1, <2>1, <1>8 DEF Others, IInv, BeginsDiffer, FReadOnlyTrx
    <3>2. CASE u = s
      <4>1. b % 4 = 0 /\ level[t] > 0 /\ trxBegin0'[t] = trxBegin0[t]
        BY <3>2, <2>1, <1>7, <1>8 DEF Others, FReadOnlyTrx, TRXID_INCR
      <4>2. trxBegin0[t] <= trxNewest + 2 /\ trxBegin0[t] \in Nat
        <5>1. level[t] > 0 => trxBegin0[t] <= trxNewest + TRXID_INCR \div 2
          BY DEF IInv, SessionInv
        <5>2. TRXID_INCR \div 2 = 2 /\ trxBegin0[t] \in Nat
          BY SessionType DEF TRXID_INCR, IInv
        <5> QED
          BY <5>1, <5>2, <4>1
      <4>3. b = trxNewest + 4
        BY <4>1, <1>2, <1>3
      <4> QED
        BY <4>1, <4>2, <4>3, <3>2, <1>2, <1>7
    <3>3. CASE t = s
      <4>1. level[u] > 0 /\ trxBegin0'[u] = trxBegin0[u] /\ ~FReadOnlyTrx(u)
        BY <3>3, <2>1, <1>8 DEF Others, FReadOnlyTrx
      <4>2. trxBegin0[u] <= trxNewest
        BY <4>1 DEF IInv, SessionInv
      <4>3. trxBegin0[u] \in Nat
        BY SessionType DEF IInv
      <4> QED
        BY <4>1, <4>2, <4>3, <3>3, <1>2, <1>6, <1>7
    <3> QED
      BY <3>1, <3>2, <3>3
  <2> QED
    BY <2>1 DEF BeginsDiffer
<1>13. NumbersInv'
  <2>1. ToDraw' \in SUBSET (ToDraw \cup {s})
    BY <1>1, <1>8 DEF ToDraw, Others
  <2>2. s \notin ToDraw
    BY <1>1 DEF ToDraw
  <2>3. IsFiniteSet(ToDraw \cup {s}) /\ Cardinality(ToDraw \cup {s}) = Cardinality(ToDraw) + 1
    BY <2>2, <1>4, FS_AddElement
  <2>4. Cardinality(ToDraw') <= Cardinality(ToDraw) + 1
    BY <2>1, <2>3, FS_Subset
  <2>5. trxNewest' + 4 * Cardinality(ToDraw') <= trxLast
    BY <2>4, <1>2, <1>3, <1>4, <1>5
  <2> QED
    BY <2>5, <1>6 DEF NumbersInv, TRXID_INCR
<1>14. \A r \in rce : RowStep(r, r)
  <2>1. ASSUME NEW r \in rce
        PROVE  r.full \/ r.sess # s
    <3>1. ~r.full => level[r.sess] > 0
      BY DEF IInv, RowInv
    <3> QED
      BY <3>1, <1>1
  <2> QED
    BY <2>1, <1>8, OtherRow
<1>15. IdsDiffer' /\ \A q \in rce' : \E r \in rce : RowStep(q, r)
  BY <1>1, <1>14 DEF IInv, IdsDiffer
<1>16. NodeInv'
  BY <1>1, NodesLeft
<1> QED
  BY <1>1, <1>6, <1>8, <1>9, <1>10, <1>11, <1>12, <1>13, <1>15, <1>16, TrxSteps

\* A transaction begins.
LEMMA BeginKept ==
    ASSUME IInv, NEW s \in Session, Begin(s) \/ BeginReadOnly(s)
    PROVE  IInv'
<1>1. CASE Begin(s)
  <2>1. PICK b : b = trxNewest + TRXID_INCR
    OBVIOUS
  <2>2. PIBSetTrxBegin0(s, b) /\ trxNewest' = trxNewest + TRXID_INCR
    BY <2>1, <1>1 DEF Begin
  <2> QED
    BY <2>1, <2>2, BeginsKept
<1>2. CASE BeginReadOnly(s)
  <2>1. PICK b : b = trxNewest + TRXID_INCR \div 2
    OBVIOUS
  <2>2. PIBSetTrxBegin0(s, b) /\ trxNewest' = trxNewest
    BY <2>1, <1>2 DEF BeginReadOnly
  <2> QED
    BY <2>1, <2>2, BeginsKept
<1> QED
  BY <1>1, <1>2

\* A transaction ends when none of its versions is left on its list.
LEMMA EndsKept ==
    ASSUME IInv, NEW s \in Session, \A r \in rce : r.full \/ r.sess # s, PIBResetTrxBegin0(s),
           pc[s] # "node", pc' = [pc EXCEPT ![s] = "idle"],
           UNCHANGED <<trxNewest, local, store, page, clean, indexLock>>
    PROVE  IInv'
<1>1. /\ trxBegin0' = [trxBegin0 EXCEPT ![s] = trxMax] /\ trxCommit0' = [trxCommit0 EXCEPT ![s] = trxMax]
      /\ level' = [level EXCEPT ![s] = 0]
      /\ trxNewest' = trxNewest /\ local' = local /\ rce' = rce /\ rceidLast' = rceidLast
      /\ page' = page /\ clean' = clean /\ indexLock' = indexLock
  BY DEF PIBResetTrxBegin0, store
<1>2. /\ trxNewest \in Nat /\ trxMax \in Nat /\ levelMax \in Nat
      /\ level \in [Session -> 0..levelMax] /\ trxBegin0 \in [Session -> 0..trxMax]
      /\ trxCommit0 \in [Session -> trxPrecommit..trxMax]
      /\ pc \in [Session -> {"idle", "node", "precommit", "drawn", "stamp", "rollback", "expunge", "nullify"}]
  BY VersionStoreAssumption DEF IInv, TypeOK
<1>3. level'[s] = 0 /\ trxBegin0'[s] = trxMax /\ trxCommit0'[s] = trxMax /\ pc'[s] = "idle"
  BY <1>1, <1>2
<1>4. Others(s)
  BY <1>1, <1>2 DEF Others
<1>5. TypeOK'
  <2>1. /\ level' \in [Session -> 0..levelMax] /\ trxBegin0' \in [Session -> 0..trxMax]
        /\ pc' \in [Session -> {"idle", "node", "precommit", "drawn", "stamp", "rollback", "expunge", "nullify"}]
    BY <1>1, <1>2
  <2>2. trxCommit0' \in [Session -> trxPrecommit..trxMax]
    BY <1>1, <1>2 DEF trxPrecommit
  <2> QED
    BY <2>1, <2>2, <1>1 DEF IInv, TypeOK
<1>6. SessionInv(s)'
  BY <1>3 DEF SessionInv, Waiting
<1>7. SessionStep(s)
  BY <1>3 DEF SessionStep
<1>8. BeginsDiffer'
  <2>1. \A t \in Session : level'[t] > 0 => level[t] > 0 /\ trxBegin0'[t] = trxBegin0[t]
    BY <1>3, <1>4 DEF Others
  <2> QED
    BY <2>1, NoNewBegin
<1>9. NumbersInv'
  <2>1. ToDraw' \subseteq ToDraw
    BY <1>3, <1>4 DEF ToDraw, Others
  <2> QED
    BY <2>1, <1>1, NoNewDraw
<1>10. \A r \in rce : RowStep(r, r)
  BY <1>4, OtherRow
<1>11. IdsDiffer' /\ \A q \in rce' : \E r \in rce : RowStep(q, r)
  BY <1>1, <1>10 DEF IInv, IdsDiffer
<1>12. NodeInv'
  <2>1. \A t \in Session : pc'[t] = "node" => pc[t] = "node" /\ local'[t] = local[t]
    BY <1>3, <1>4 DEF Others
  <2> QED
    BY <2>1, <1>1, NodesLeft
<1>13. trxNewest <= trxNewest'
  BY <1>1, <1>2
<1> QED
  BY <1>1, <1>4, <1>5, <1>6, <1>7, <1>8, <1>9, <1>11, <1>12, <1>13, TrxSteps

\* A commit ends.
LEMMA CommitEndsKept ==
    ASSUME IInv, NEW s \in Session, CommitWithoutRCE(s) \/ EndCommit(s)
    PROVE  IInv'
<1>0. pc \in [Session -> {"idle", "node", "precommit", "drawn", "stamp", "rollback", "expunge", "nullify"}]
  BY DEF IInv, TypeOK
<1>1. /\ OfSession(s) = {} /\ PIBResetTrxBegin0(s) /\ pc[s] # "node"
      /\ UNCHANGED <<trxNewest, local, store, page, clean, indexLock>>
  BY DEF CommitWithoutRCE, EndCommit, InTrx, Idle
<1>2. pc' = [pc EXCEPT ![s] = "idle"]
  BY <1>0 DEF CommitWithoutRCE, EndCommit, InTrx, Idle
<1>3. \A r \in rce : r.full \/ r.sess # s
  BY <1>1 DEF OfSession
<1> QED
  BY <1>1, <1>2, <1>3, EndsKept

\* A rollback starts.
LEMMA StartRollbackKept ==
    ASSUME IInv, NEW s \in Session, StartRollback(s)
    PROVE  IInv'
<1>1. /\ pc[s] = "idle" /\ level[s] > 0 /\ pc' = [pc EXCEPT ![s] = "rollback"]
      /\ trxNewest' = trxNewest /\ level' = level /\ trxBegin0' = trxBegin0 /\ trxCommit0' = trxCommit0
      /\ local' = local /\ rce' = rce /\ rceidLast' = rceidLast
      /\ page' = page /\ clean' = clean /\ indexLock' = indexLock
  BY DEF StartRollback, InTrx, Idle, store
<1>2. pc \in [Session -> {"idle", "node", "precommit", "drawn", "stamp", "rollback", "expunge", "nullify"}]
  BY DEF IInv, TypeOK
<1>3. pc'[s] = "rollback" /\ \A t \in Session \ {s} : pc'[t] = pc[t]
  BY <1>1, <1>2
<1>4. SessionsMove
  BY <1>1, <1>3 DEF SessionsMove, Waiting
<1>5. TypeOK'
  BY <1>1, <1>2 DEF IInv, TypeOK
<1>6. \A r \in rce' : r.oper = "PreInsert" => pc'[r.sess] = "node" /\ local'[r.sess] = local[r.sess]
  <2>1. ASSUME NEW r \in rce, r.oper = "PreInsert"
        PROVE  pc'[r.sess] = "node"
    <3>1. pc[r.sess] = "node" /\ r.sess \in Session
      BY <2>1, RowType DEF IInv, RowInv
    <3> QED
      BY <3>1, <1>1, <1>3
  <2> QED
    BY <2>1, <1>1
<1>7. rce' \subseteq rce
  BY <1>1
<1>8. IdsDiffer' /\ RowsStep /\ rce' \subseteq RCEs(rceidLast)
  BY <1>4, <1>6, <1>7, RowsLess
<1>9. NodeInv'
  <2>1. \A t \in Session : pc'[t] = "node" => pc[t] = "node" /\ local'[t] = local[t]
    BY <1>1, <1>3
  <2> QED
    BY <2>1, <1>1, NodesLeft
<1>10. rceidLast <= rceidLast'
  BY <1>1, RceType DEF IInv
<1> QED
  BY <1>1, <1>4, <1>5, <1>8, <1>9, <1>10, MoveSteps

\* The level of an open transaction changes, and with it its versions.
LEMMA LevelKept ==
    ASSUME IInv, NEW s \in Session, NEW l \in 1..levelMax, level' = [level EXCEPT ![s] = l],
           level[s] > 0, pc[s] \in {"idle", "rollback"}, pc' = [pc EXCEPT ![s] = "idle"],
           UNCHANGED <<trxNewest, trxBegin0, trxCommit0, local, rceidLast, page, clean, indexLock>>,
           IdsDiffer', rce' \subseteq RCEs(rceidLast),
           \A r \in rce : r.full \/ r.sess # s => r \in rce',
           \A q \in rce' : \E r \in rce :
               /\ r.sess = s /\ ~r.full => q.level \in 1..l
               /\ q = r \/ (/\ r.sess = s /\ ~r.full
                            /\ q.id = r.id /\ q.node = r.node /\ q.sess = r.sess /\ q.begin0 = r.begin0
                            /\ q.full = r.full /\ q.trx = r.trx /\ q.oper = r.oper)
    PROVE  IInv'
<1>1. /\ trxNewest' = trxNewest /\ trxBegin0' = trxBegin0 /\ trxCommit0' = trxCommit0 /\ local' = local
      /\ rceidLast' = rceidLast /\ page' = page /\ clean' = clean /\ indexLock' = indexLock
  OBVIOUS
<1>2. /\ trxNewest \in Nat /\ trxMax \in Nat /\ levelMax \in Nat /\ level \in [Session -> 0..levelMax]
      /\ pc \in [Session -> {"idle", "node", "precommit", "drawn", "stamp", "rollback", "expunge", "nullify"}]
  BY VersionStoreAssumption DEF IInv, TypeOK
<1>3. level'[s] = l /\ l > 0 /\ pc'[s] = "idle" /\ pc[s] # "node"
  BY <1>2
<1>4. Others(s)
  BY <1>1, <1>2 DEF Others
<1>5. TypeOK'
  <2>1. /\ level' \in [Session -> 0..levelMax]
        /\ pc' \in [Session -> {"idle", "node", "precommit", "drawn", "stamp", "rollback", "expunge", "nullify"}]
    BY <1>2
  <2> QED
    BY <2>1, <1>1 DEF IInv, TypeOK, RCEs
<1>6. SessionInv(s)'
  <2>1. SessionInv(s) /\ level[s] # 0
    BY <1>2 DEF IInv
  <2>2. l # 0
    BY <1>2
  <2> QED
    BY <2>1, <2>2, <1>1, <1>3 DEF SessionInv, Waiting, FReadOnlyTrx
<1>7. SessionStep(s)
  BY <1>1, <1>3 DEF SessionStep
<1>8. BeginsDiffer'
  <2>1. \A t \in Session : level'[t] > 0 => level[t] > 0 /\ trxBegin0'[t] = trxBegin0[t]
    BY <1>3, <1>4 DEF Others
  <2> QED
    BY <2>1, NoNewBegin
<1>9. NumbersInv'
  <2>1. ToDraw' \subseteq ToDraw
    BY <1>3, <1>4 DEF ToDraw, Others
  <2> QED
    BY <2>1, <1>1, NoNewDraw
<1>10. ASSUME NEW q \in rce'
       PROVE  \E r \in rce : RowStep(q, r)
  <2>1. PICK r \in rce :
               /\ r.sess = s /\ ~r.full => q.level \in 1..l
               /\ q = r \/ (/\ r.sess = s /\ ~r.full
                            /\ q.id = r.id /\ q.node = r.node /\ q.sess = r.sess /\ q.begin0 = r.begin0
                            /\ q.full = r.full /\ q.trx = r.trx /\ q.oper = r.oper)
    OBVIOUS
  <2>2. CASE r.full \/ r.sess # s
    <3>1. q = r
      BY <2>1, <2>2
    <3>2. RowStep(r, r)
      BY <2>2, <1>4, OtherRow
    <3> QED
      BY <3>1, <3>2
  <2>3. CASE ~(r.full \/ r.sess # s)
    <3>1. /\ q.id = r.id /\ q.node = r.node /\ q.sess = r.sess /\ q.begin0 = r.begin0
          /\ q.full = r.full /\ q.trx = r.trx /\ q.oper = r.oper
      BY <2>1
    <3>2. r.oper # "PreInsert"
      BY <2>3, <1>3 DEF IInv, RowInv
    <3>3. trxCommit0[s] = trxMax /\ trxMax # trxPrecommit
      BY <1>2 DEF IInv, SessionInv, Waiting, trxPrecommit
    <3>4. TrxCommitted(r) = trxMax
      BY <2>3, <3>3 DEF TrxCommitted
    <3>5. TrxCommitted(q)' = trxMax
      BY <2>3, <3>1, <3>3, <1>1 DEF TrxCommitted
    <3>6. q.level \in 1..l
      BY <2>1, <2>3
    <3>7. RowStep(q, r)
      BY <2>3, <3>1, <3>2, <3>4, <3>5, <3>6, <1>1, <1>3 DEF RowStep
    <3> QED
      BY <3>7
  <2> QED
    BY <2>2, <2>3
<1>11. NodeInv'
  <2>1. ASSUME NEW t \in Session, pc'[t] = "node"
        PROVE  \E r \in rce' : r.sess = t /\ ~r.full /\ r.id = local'[t]
    <3>1. t # s /\ pc[t] = "node" /\ local'[t] = local[t]
      BY <2>1, <1>3, <1>4 DEF Others
    <3>2. PICK r \in rce : r.sess = t /\ ~r.full /\ r.id = local[t]
      BY <3>1 DEF IInv, NodeInv, OfSession
    <3> QED
      BY <3>1, <3>2
  <2> QED
    BY <2>1 DEF NodeInv, OfSession
<1>12. trxNewest <= trxNewest'
  BY <1>1, <1>2
<1> QED
  BY <1>1, <1>4, <1>5, <1>6, <1>7, <1>8, <1>9, <1>10, <1>11, <1>12, TrxSteps

\* A nested transaction begins.
LEMMA BeginNestedKept ==
    ASSUME IInv, NEW s \in Session, BeginNested(s)
    PROVE  IInv'
<1>1. /\ pc[s] = "idle" /\ level[s] > 0 /\ level[s] < levelMax /\ level' = [level EXCEPT ![s] = level[s] + 1]
      /\ UNCHANGED <<trxNewest, trxBegin0, trxCommit0, local, rceidLast, page, clean, indexLock>>
      /\ rce' = rce /\ pc' = pc
  BY DEF BeginNested, InTrx, Idle, store
<1>2. /\ level[s] \in Nat /\ levelMax \in Nat
      /\ pc \in [Session -> {"idle", "node", "precommit", "drawn", "stamp", "rollback", "expunge", "nullify"}]
  BY SessionType DEF IInv, TypeOK
<1>3. PICK l \in 1..levelMax : l = level[s] + 1
  BY <1>1, <1>2
<1>4. level' = [level EXCEPT ![s] = l] /\ pc[s] \in {"idle", "rollback"} /\ pc' = [pc EXCEPT ![s] = "idle"]
  BY <1>1, <1>2, <1>3
<1>5. rce' \subseteq RCEs(rceidLast) /\ IdsDiffer'
  BY <1>1, RceType DEF IInv, IdsDiffer
<1>6. \A r \in rce : r.full \/ r.sess # s => r \in rce'
  BY <1>1
<1>7. ASSUME NEW r \in rce', r.sess = s /\ ~r.full
      PROVE  r.level \in 1..l
  <2>1. r.level \in 1..level[s]
    BY <1>1, <1>7 DEF IInv, RowInv
  <2> QED
    BY <2>1, <1>2, <1>3
<1>8. \A q \in rce' : \E r \in rce :
               /\ r.sess = s /\ ~r.full => q.level \in 1..l
               /\ q = r \/ (/\ r.sess = s /\ ~r.full
                            /\ q.id = r.id /\ q.node = r.node /\ q.sess = r.sess /\ q.begin0 = r.begin0
                            /\ q.full = r.full /\ q.trx = r.trx /\ q.oper = r.oper)
  BY <1>1, <1>7
<1>9. level[s] > 0 /\ UNCHANGED <<trxNewest, trxBegin0, trxCommit0, local, rceidLast, page, clean, indexLock>>
  BY <1>1
<1> QED
  BY <1>4, <1>5, <1>6, <1>8, <1>9, LevelKept

\* A nested transaction commits into its parent.
LEMMA CommitNestedKept ==
    ASSUME IInv, NEW s \in Session, VERICommitTransactionToLevelGreaterThan0(s)
    PROVE  IInv'
<1>1. /\ pc[s] = "idle" /\ level[s] > 1 /\ level' = [level EXCEPT ![s] = level[s] - 1]
      /\ UNCHANGED <<trxNewest, trxBegin0, trxCommit0, local, rceidLast, page, clean, indexLock>>
      /\ rce' = (rce \ OfLevel(s)) \cup {[r EXCEPT !.level = r.level - 1] : r \in OfLevel(s)} /\ pc' = pc
  BY DEF VERICommitTransactionToLevelGreaterThan0, InTrx, Idle
<1>2. /\ level[s] \in Nat /\ level[s] <= levelMax /\ levelMax \in Nat
      /\ pc \in [Session -> {"idle", "node", "precommit", "drawn", "stamp", "rollback", "expunge", "nullify"}]
  BY SessionType DEF IInv, TypeOK
<1>3. PICK l \in 1..levelMax : l = level[s] - 1
  BY <1>1, <1>2
<1>4. level' = [level EXCEPT ![s] = l] /\ pc[s] \in {"idle", "rollback"} /\ pc' = [pc EXCEPT ![s] = "idle"] /\ level[s] > 0
  BY <1>1, <1>2, <1>3
<1>5. ASSUME NEW r \in OfLevel(s), NEW q, q = [r EXCEPT !.level = r.level - 1]
      PROVE  /\ r \in rce /\ r.sess = s /\ ~r.full /\ q \in RCEs(rceidLast) /\ q.level \in 1..l
             /\ q.id = r.id /\ q.node = r.node /\ q.sess = r.sess /\ q.begin0 = r.begin0
             /\ q.full = r.full /\ q.trx = r.trx /\ q.oper = r.oper
  <2>1. r \in rce /\ r.sess = s /\ ~r.full /\ r.level = level[s]
    BY DEF OfLevel, OfSession
  <2>2. r \in RCEs(rceidLast)
    BY <2>1, RowType DEF IInv
  <2>3. r.level - 1 \in 0..levelMax /\ r.level - 1 \in 1..l
    BY <2>1, <1>1, <1>2, <1>3
  <2>4. q \in RCEs(rceidLast)
    BY <2>2, <2>3, <1>5 DEF RCEs
  <2>5. /\ q.id = r.id /\ q.node = r.node /\ q.sess = r.sess /\ q.begin0 = r.begin0
        /\ q.full = r.full /\ q.trx = r.trx /\ q.oper = r.oper /\ q.level = r.level - 1
    BY <2>2, <1>5 DEF RCEs
  <2> QED
    BY <2>1, <2>3, <2>4, <2>5
<1>6. ASSUME NEW r \in rce \ OfLevel(s), r.sess = s /\ ~r.full
      PROVE  r.level \in 1..l
  <2>1. r.level \in 1..level[s]
    BY <1>6 DEF IInv, RowInv
  <2>2. r.level # level[s]
    BY <1>6 DEF OfLevel, OfSession
  <2> QED
    BY <2>1, <2>2, <1>2, <1>3
<1>7. ASSUME NEW q \in rce'
      PROVE  \/ q \in rce \ OfLevel(s)
             \/ \E r \in OfLevel(s) : q = [r EXCEPT !.level = r.level - 1]
  BY <1>1
<1>8. rce' \subseteq RCEs(rceidLast)
  <2>1. rce \subseteq RCEs(rceidLast)
    BY RceType DEF IInv
  <2> QED
    BY <2>1, <1>5, <1>7
<1>9. ASSUME NEW q \in rce'
      PROVE  \E r \in rce :
               /\ r.sess = s /\ ~r.full => q.level \in 1..l
               /\ q = r \/ (/\ r.sess = s /\ ~r.full
                            /\ q.id = r.id /\ q.node = r.node /\ q.sess = r.sess /\ q.begin0 = r.begin0
                            /\ q.full = r.full /\ q.trx = r.trx /\ q.oper = r.oper)
  <2>1. CASE q \in rce \ OfLevel(s)
    BY <2>1, <1>6
  <2>2. CASE \E r \in OfLevel(s) : q = [r EXCEPT !.level = r.level - 1]
    BY <2>2, <1>5
  <2> QED
    BY <2>1, <2>2, <1>7
<1>10. \A r \in rce : r.full \/ r.sess # s => r \in rce'
  BY <1>1 DEF OfLevel, OfSession
<1>11. IdsDiffer'
  <2>1. ASSUME NEW x \in rce', NEW y \in rce', x.id = y.id
        PROVE  x = y
    <3>1. CASE x \in rce \ OfLevel(s) /\ y \in rce \ OfLevel(s)
      BY <3>1, <2>1 DEF IInv, IdsDiffer
    <3>2. CASE x \in rce \ OfLevel(s) /\ \E r \in OfLevel(s) : y = [r EXCEPT !.level = r.level - 1]
      <4>1. PICK r \in OfLevel(s) : y = [r EXCEPT !.level = r.level - 1]
        BY <3>2
      <4>2. r \in rce /\ y.id = r.id
        BY <4>1, <1>5
      <4> QED
        BY <3>2, <4>2, <2>1 DEF IInv, IdsDiffer
    <3>3. CASE y \in rce \ OfLevel(s) /\ \E r \in OfLevel(s) : x = [r EXCEPT !.level = r.level - 1]
      <4>1. PICK r \in OfLevel(s) : x = [r EXCEPT !.level = r.level - 1]
        BY <3>3
      <4>2. r \in rce /\ x.id = r.id
        BY <4>1, <1>5
      <4> QED
        BY <3>3, <4>2, <2>1 DEF IInv, IdsDiffer
    <3>4. CASE /\ \E r \in OfLevel(s) : x = [r EXCEPT !.level = r.level - 1]
               /\ \E r \in OfLevel(s) : y = [r EXCEPT !.level = r.level - 1]
      <4>1. PICK r \in OfLevel(s) : x = [r EXCEPT !.level = r.level - 1]
        BY <3>4
      <4>2. PICK u \in OfLevel(s) : y = [u EXCEPT !.level = u.level - 1]
        BY <3>4
      <4>3. r \in rce /\ x.id = r.id /\ u \in rce /\ y.id = u.id
        BY <4>1, <4>2, <1>5
      <4>4. r = u
        BY <4>3, <2>1 DEF IInv, IdsDiffer
      <4> QED
        BY <4>1, <4>2, <4>4
    <3> QED
      BY <3>1, <3>2, <3>3, <3>4, <1>7
  <2> QED
    BY <2>1 DEF IdsDiffer
<1> QED
  BY <1>1, <1>3, <1>4, <1>8, <1>9, <1>10, <1>11, LevelKept

\* A level is rolled back when none of its versions is left.
LEMMA EndRollbackKept ==
    ASSUME IInv, NEW s \in Session, EndRollback(s)
    PROVE  IInv'
<1>1. /\ pc[s] = "rollback" /\ OfLevel(s) = {} /\ pc' = [pc EXCEPT ![s] = "idle"]
      /\ UNCHANGED <<trxNewest, local, store, page, clean, indexLock>> /\ rce' = rce /\ rceidLast' = rceidLast
  BY DEF EndRollback, store
<1>2. level[s] \in Nat /\ level[s] \in 0..levelMax /\ levelMax \in Nat
  BY SessionType DEF IInv
<1>3. level[s] > 0
  BY <1>1, <1>2 DEF IInv, SessionInv
<1>4. ASSUME NEW r \in rce, ~r.full, r.sess = s
      PROVE  r.level \in 1..(level[s] - 1)
  <2>1. r.level \in 1..level[s]
    BY <1>4 DEF IInv, RowInv
  <2>2. r.level # level[s]
    BY <1>1, <1>4 DEF OfLevel, OfSession
  <2> QED
    BY <2>1, <2>2, <1>2
<1>5. CASE level[s] = 1
  <2>1. PIBResetTrxBegin0(s)
    BY <1>5 DEF EndRollback
  <2>2. ASSUME NEW r \in rce
        PROVE  r.full \/ r.sess # s
    <3>1. ~r.full /\ r.sess = s => r.level \in 1..0
      BY <1>4, <1>5
    <3> QED
      BY <3>1
  <2>3. pc[s] # "node"
    BY <1>1
  <2> QED
    BY <2>1, <2>2, <2>3, <1>1, EndsKept
<1>6. CASE level[s] # 1
  <2>1. level' = [level EXCEPT ![s] = level[s] - 1] /\ UNCHANGED <<trxBegin0, trxCommit0>>
    BY <1>6 DEF EndRollback
  <2>2. PICK l \in 1..levelMax : l = level[s] - 1
    BY <1>2, <1>3, <1>6
  <2>3. level' = [level EXCEPT ![s] = l] /\ pc[s] \in {"idle", "rollback"}
    BY <2>1, <2>2, <1>1
  <2>4. rce' \subseteq RCEs(rceidLast) /\ IdsDiffer'
    BY <1>1, RceType DEF IInv, IdsDiffer
  <2>5. \A r \in rce : r.full \/ r.sess # s => r \in rce'
    BY <1>1
  <2>6. \A q \in rce' : \E r \in rce :
               /\ r.sess = s /\ ~r.full => q.level \in 1..l
               /\ q = r \/ (/\ r.sess = s /\ ~r.full
                            /\ q.id = r.id /\ q.node = r.node /\ q.sess = r.sess /\ q.begin0 = r.begin0
                            /\ q.full = r.full /\ q.trx = r.trx /\ q.oper = r.oper)
    BY <2>2, <1>1, <1>4
  <2>7. UNCHANGED <<trxNewest, trxBegin0, trxCommit0, local, rceidLast, page, clean, indexLock>>
    BY <2>1, <1>1
  <2>8. pc' = [pc EXCEPT ![s] = "idle"]
    BY <1>1
  <2> QED
    BY <2>3, <2>4, <2>5, <2>6, <2>7, <2>8, <1>3, LevelKept
<1> QED
  BY <1>5, <1>6

\* The number is announced, and published when it is drawn: what the versions show
\* does not change.
LEMMA PrecommitKept ==
    ASSUME IInv, NEW s \in Session, SetPrecommit(s) \/ PublishCommit0(s)
    PROVE  IInv'
<1>1. /\ trxNewest' = trxNewest /\ level' = level /\ trxBegin0' = trxBegin0
      /\ rce' = rce /\ rceidLast' = rceidLast /\ page' = page /\ clean' = clean /\ indexLock' = indexLock
  BY DEF SetPrecommit, PublishCommit0, store
<1>2. /\ trxNewest \in Nat /\ trxMax \in Nat /\ trxNewest < trxMax
      /\ level[s] \in Nat /\ trxBegin0[s] \in Nat /\ local[s] \in Nat
      /\ trxCommit0 \in [Session -> trxPrecommit..trxMax] /\ local \in [Session -> Nat]
      /\ pc \in [Session -> {"idle", "node", "precommit", "drawn", "stamp", "rollback", "expunge", "nullify"}]
  BY NewestBelowMax, SessionType DEF IInv, TypeOK
<1>3. SessionInv(s)
  BY DEF IInv
<1>4. /\ \/ /\ pc[s] = "idle" /\ level[s] = 1 /\ pc'[s] = "precommit" /\ trxCommit0'[s] = trxPrecommit
            /\ trxCommit0[s] = trxMax
         \/ /\ pc[s] = "drawn" /\ pc'[s] = "stamp" /\ trxCommit0'[s] = local[s]
            /\ trxCommit0[s] = trxPrecommit /\ trxBegin0[s] < local[s] /\ local[s] <= trxNewest /\ level[s] = 1
      /\ trxPrecommit = -1
  BY <1>2, <1>3 DEF SetPrecommit, PublishCommit0, InTrx, Idle, SessionInv, Waiting, trxPrecommit
<1>5. Others(s)
  BY <1>1, <1>2 DEF Others, SetPrecommit, PublishCommit0
<1>6. TypeOK'
  <2>1. trxCommit0'[s] \in trxPrecommit..trxMax
    BY <1>2, <1>4
  <2>2. trxCommit0' \in [Session -> trxPrecommit..trxMax]
    BY <2>1, <1>2 DEF SetPrecommit, PublishCommit0
  <2>3. /\ pc' \in [Session -> {"idle", "node", "precommit", "drawn", "stamp", "rollback", "expunge", "nullify"}]
        /\ local' \in [Session -> Nat]
    BY <1>2 DEF SetPrecommit, PublishCommit0
  <2> QED
    BY <2>2, <2>3, <1>1 DEF IInv, TypeOK
<1>7. SessionInv(s)'
  BY <1>1, <1>3, <1>4 DEF SessionInv, Waiting, FReadOnlyTrx
<1>8. SessionStep(s)
  BY <1>1, <1>2, <1>4 DEF SessionStep
<1>9. BeginsDiffer' /\ NumbersInv'
  <2>1. ToDraw' \subseteq ToDraw
    BY <1>1, <1>4, <1>5 DEF ToDraw, Others
  <2>2. NumbersInv'
    BY <2>1, <1>1, NoNewDraw
  <2>3. BeginsDiffer'
    BY <1>1, NoNewBegin
  <2> QED
    BY <2>2, <2>3
<1>10. ASSUME NEW r \in rce
       PROVE  RowStep(r, r)
  <2>1. CASE r.full \/ r.sess # s
    BY <2>1, <1>5, OtherRow
  <2>2. CASE ~(r.full \/ r.sess # s)
    <3>1. TrxCommitted(r)' = TrxCommitted(r)
      BY <2>2, <1>2, <1>4 DEF TrxCommitted
    <3>2. level[r.sess] > 0 /\ r.level \in 1..level[r.sess] /\ r.oper # "PreInsert"
      BY <2>2, <1>4 DEF IInv, RowInv
    <3> QED
      BY <2>2, <3>1, <3>2, <1>1 DEF RowStep
  <2> QED
    BY <2>1, <2>2
<1>11. IdsDiffer' /\ \A q \in rce' : \E r \in rce : RowStep(q, r)
  BY <1>1, <1>10 DEF IInv, IdsDiffer
<1>12. NodeInv'
  <2>1. \A t \in Session : pc'[t] = "node" => pc[t] = "node" /\ local'[t] = local[t]
    BY <1>4, <1>5 DEF Others
  <2> QED
    BY <2>1, <1>1, NodesLeft
<1>13. trxNewest <= trxNewest'
  BY <1>1, <1>2
<1> QED
  BY <1>1, <1>5, <1>6, <1>7, <1>8, <1>9, <1>11, <1>12, <1>13, TrxSteps

\* A commit number is drawn.  From now on the versions of the session show it, all
\* of them; it is beyond everything anybody has begun with.
LEMMA DrawKept ==
    ASSUME IInv, NEW s \in Session, DrawCommit0(s)
    PROVE  IInv'
<1>1. /\ pc[s] = "precommit" /\ pc' = [pc EXCEPT ![s] = "drawn"] /\ local' = [local EXCEPT ![s] = trxNewest + 4]
      /\ trxNewest' = trxNewest + 4 /\ level' = level /\ trxBegin0' = trxBegin0 /\ trxCommit0' = trxCommit0
      /\ rce' = rce /\ rceidLast' = rceidLast /\ page' = page /\ clean' = clean /\ indexLock' = indexLock
  BY DEF DrawCommit0, store, TRXID_INCR
<1>2. /\ trxNewest \in Nat /\ trxMax \in Nat /\ trxLast \in Nat /\ trxLast < trxMax
      /\ level[s] \in Nat /\ trxBegin0[s] \in Nat
      /\ local \in [Session -> Nat] /\ rceidLast \in Nat
      /\ pc \in [Session -> {"idle", "node", "precommit", "drawn", "stamp", "rollback", "expunge", "nullify"}]
  BY NewestBelowMax, SessionType, RceType DEF IInv, TypeOK
<1>3. SessionInv(s)
  BY DEF IInv
<1>4. level[s] = 1 /\ trxCommit0[s] = trxPrecommit /\ trxPrecommit = -1 /\ trxBegin0[s] <= trxNewest + 2
  BY <1>1, <1>2, <1>3 DEF SessionInv, Waiting, trxPrecommit, TRXID_INCR
<1>5. pc'[s] = "drawn" /\ local'[s] = trxNewest + 4
  BY <1>1, <1>2
<1>6. Others(s)
  BY <1>1, <1>2 DEF Others
<1>7. NumbersInv' /\ trxNewest' < trxMax
  <2>1. s \in ToDraw /\ ToDraw' = ToDraw \ {s}
    <3>1. \A t \in Session \ {s} : pc'[t] = pc[t]
      BY <1>6 DEF Others
    <3> QED
      BY <3>1, <1>1, <1>4, <1>5 DEF ToDraw
  <2>2. /\ IsFiniteSet(ToDraw) /\ Cardinality(ToDraw) \in Nat
        /\ IsFiniteSet(ToDraw)' /\ Cardinality(ToDraw)' \in Nat
    BY ToDrawType
  <2>3. Cardinality(ToDraw') = Cardinality(ToDraw) - 1
    BY <2>1, <2>2, FS_RemoveElement
  <2>4. trxNewest % 4 = 0 /\ trxNewest + 4 * Cardinality(ToDraw) <= trxLast
    BY DEF IInv, NumbersInv, TRXID_INCR
  <2>5. trxNewest' % 4 = 0 /\ trxNewest' + 4 * Cardinality(ToDraw') <= trxLast /\ trxNewest' <= trxLast
    BY <2>2, <2>3, <2>4, <1>1, <1>2
  <2> QED
    BY <2>5, <1>1, <1>2 DEF NumbersInv, TRXID_INCR
<1>8. TypeOK'
  <2>1. /\ pc' \in [Session -> {"idle", "node", "precommit", "drawn", "stamp", "rollback", "expunge", "nullify"}]
        /\ local' \in [Session -> Nat] /\ trxNewest' \in Nat
    BY <1>1, <1>2
  <2> QED
    BY <2>1, <1>1 DEF IInv, TypeOK
<1>9. trxNewest <= trxNewest' /\ trxNewest' \in Nat
  BY <1>1, <1>2
<1>10. ASSUME NEW t \in Session
       PROVE  SessionInv(t)' /\ SessionStep(t)
  <2>1. CASE t # s
    BY <2>1, <1>6, <1>9, OtherSession
  <2>2. CASE t = s
    <3>1. level[s] > 0 /\ ~FReadOnlyTrx(s) => trxBegin0[s] <= trxNewest
      BY <1>3 DEF SessionInv
    <3>2. TRXID_INCR \div 2 = 2 /\ FReadOnlyTrx(s)' = FReadOnlyTrx(s) /\ (level[s] = 0 <=> trxBegin0[s] = trxMax)
      BY <1>1, <1>3 DEF TRXID_INCR, FReadOnlyTrx, SessionInv
    <3>3. SessionInv(s)'
      BY <3>1, <3>2, <1>1, <1>2, <1>4, <1>5 DEF SessionInv, Waiting
    <3>4. SessionStep(s)
      BY <1>1, <1>2, <1>4, <1>5 DEF SessionStep
    <3> QED
      BY <2>2, <3>3, <3>4
  <2> QED
    BY <2>1, <2>2
<1>11. BeginsDiffer'
  BY <1>1, NoNewBegin
\* What a version shows afterwards.
<1>12. ASSUME NEW r \in rce
       PROVE  IF ~r.full /\ r.sess = s THEN TrxCommitted(r) = trxMax /\ TrxCommitted(r)' = trxNewest + 4
              ELSE TrxCommitted(r)' = TrxCommitted(r)
  <2>1. r.full \in BOOLEAN /\ r.sess \in Session
    BY RowType DEF IInv
  <2>2. CASE ~r.full /\ r.sess = s
    BY <2>2, <1>1, <1>4, <1>5 DEF TrxCommitted
  <2>3. CASE r.full \/ r.sess # s
    <3>1. RowStep(r, r)
      BY <2>3, <1>6, OtherRow
    <3>2. TrxCommitted(r)' = TrxCommitted(r)
      BY <3>1 DEF RowStep
    <3> QED
      BY <3>2, <2>1, <2>3
  <2> QED
    BY <2>1, <2>2, <2>3
<1>13. ASSUME NEW r \in rce
       PROVE  RowInv(r)'
  <2>1. CASE r.full \/ r.sess # s
    <3>1. RowStep(r, r)
      BY <2>1, <1>6, OtherRow
    <3>2. \A t \in Session : SessionStep(t)
      BY <1>10
    <3>3. r \in rce'
      BY <1>1
    <3> QED
      BY <3>1, <3>2, <3>3, <1>8, <1>9, RowKept
  <2>2. CASE ~r.full /\ r.sess = s
    <3>1. TrxCommitted(r)' = trxNewest'
      BY <2>2, <1>1, <1>12
    <3>2. /\ r.begin0 <= trxNewest /\ r.begin0 % TRXID_INCR = 0 /\ level[s] > 0 /\ r.begin0 = trxBegin0[s]
          /\ r.level \in 1..level[s]
          /\ \A t \in Session : level[t] > 0 /\ r.begin0 = trxBegin0[t] => r.sess = t
          /\ r.oper # "PreInsert"
      BY <2>2, <1>1 DEF IInv, RowInv
    <3>3. r.begin0 < trxNewest' /\ r.begin0 <= trxNewest'
      BY <3>2, <1>1, <1>2
    <3>4. ASSUME NEW t \in Session, level'[t] > 0
          PROVE  trxNewest' # trxBegin0'[t]
      <4>1. level[t] > 0 => trxBegin0[t] <= trxNewest + TRXID_INCR \div 2
        BY DEF IInv, SessionInv
      <4>2. TRXID_INCR \div 2 = 2 /\ trxBegin0[t] \in Nat
        BY SessionType DEF IInv, TRXID_INCR
      <4> QED
        BY <4>1, <4>2, <3>4, <1>1, <1>2
    <3> QED
      BY <2>2, <3>1, <3>2, <3>3, <3>4, <1>1, <1>9 DEF RowInv
  <2>3. r.full \in BOOLEAN
    BY RowType DEF IInv
  <2> QED
    BY <2>1, <2>2, <2>3
<1>14. ASSUME NEW r \in rce, NEW q \in rce, r.begin0 = q.begin0
       PROVE  TrxCommitted(r)' = TrxCommitted(q)'
  <2>1. ASSUME NEW x \in rce, NEW y \in rce, x.begin0 = y.begin0, ~x.full, x.sess = s
        PROVE  ~y.full /\ y.sess = s
    <3>1. level[s] > 0 /\ y.begin0 = trxBegin0[s]
      BY <2>1 DEF IInv, RowInv
    <3>2. y.sess = s /\ (y.full => pc[s] = "stamp")
      BY <3>1 DEF IInv, RowInv
    <3> QED
      BY <3>2, <1>1
  <2>2. TrxCommitted(r) = TrxCommitted(q)
    BY <1>14 DEF IInv, OneCommit
  <2>3. CASE ~r.full /\ r.sess = s
    BY <2>1, <2>3, <1>12, <1>14
  <2>4. CASE ~q.full /\ q.sess = s
    BY <2>1, <2>4, <1>12, <1>14
  <2>5. CASE ~(~r.full /\ r.sess = s) /\ ~(~q.full /\ q.sess = s)
    BY <2>2, <2>5, <1>12
  <2> QED
    BY <2>3, <2>4, <2>5
<1>15. OneCommit'
  BY <1>1, <1>14 DEF OneCommit
<1>16. ASSUME NEW r \in rce, NEW q \in rce, r.node = q.node, r.id < q.id, r.begin0 # q.begin0,
              ~({r.oper, q.oper} \subseteq Commute)
       PROVE  TrxCommitted(r)' < q.begin0
  <2>1. TrxCommitted(r) < q.begin0
    BY <1>16 DEF IInv, FirstUpdaterWins
  <2>2. q.begin0 <= trxNewest /\ q.begin0 \in Nat /\ trxNewest < trxMax
    <3>1. q.begin0 <= trxNewest /\ q.begin0 \in 0..trxMax
      BY RowType DEF IInv, RowInv
    <3> QED
      BY <3>1, NewestBelowMax DEF IInv
  <2>3. TrxCommitted(r) # trxMax
    BY <2>1, <2>2, <1>2
  <2> QED
    BY <2>1, <2>3, <1>12
<1>17. FirstUpdaterWins'
  BY <1>1, <1>16 DEF FirstUpdaterWins
<1>18. IdsDiffer'
  BY <1>1 DEF IInv, IdsDiffer
<1>19. NodeInv'
  <2>1. \A t \in Session : pc'[t] = "node" => pc[t] = "node" /\ local'[t] = local[t]
    BY <1>5, <1>6 DEF Others
  <2> QED
    BY <2>1, <1>1, NodesLeft
<1>20. CleanInv'
  <2>1. /\ clean.id <= rceidLast
        /\ clean.oldest # trxMax => clean.oldest <= trxNewest + 2
        /\ clean.pc = "scan" => clean.oldest = trxMax \/ \A t \in Session : clean.oldest <= trxBegin0[t]
        /\ clean.pc = "nullify" =>
              /\ QuietClean \/ clean.oldest # trxMax => \A t \in Session : clean.oldest <= trxBegin0[t]
              /\ \A r \in rce : r.id = clean.id => r.full /\ r.trx < clean.oldest
    BY DEF IInv, CleanInv, TRXID_INCR
  <2>2. clean.oldest \in 0..trxMax
    <3>1. clean \in [pc : {"idle", "scan", "nullify"}, oldest : 0..trxMax, id : Nat]
      BY DEF IInv, TypeOK
    <3> QED
      BY <3>1
  <2>3. clean.oldest # trxMax => clean.oldest <= trxNewest' + 2
    BY <2>1, <2>2, <1>1, <1>2
  <2> QED
    BY <2>1, <2>3, <1>1 DEF CleanInv, TRXID_INCR
<1>21. \A r \in rce' : RowInv(r)'
  BY <1>1, <1>13
<1> QED
  BY <1>7, <1>8, <1>10, <1>11, <1>15, <1>17, <1>18, <1>19, <1>20, <1>21 DEF IInv

-----------------------------------------------------------------------------
(* The theorems *)

\* The invariant holds initially.
LEMMA InitInv ==
    ASSUME Init
    PROVE  IInv
<1>1. /\ trxMax \in Nat /\ trxLast \in Nat /\ trxLast < trxMax /\ levelMax \in Nat /\ rceidMax \in Nat
      /\ IsFiniteSet(Session) /\ QuietClean \in BOOLEAN
  BY VersionStoreAssumption
<1>2. page \in [Node -> [st : {"absent", "live", "deleted", "checked", "expunged"}, data : Int]]
  BY DEF Init, absent
<1>3. clean = [pc |-> "idle", oldest |-> 0, id |-> 0] /\ rce = {} /\ rceidLast = 0 /\ trxNewest = 0
  BY DEF Init
<1>4. ASSUME NEW s \in Session
      PROVE  level[s] = 0 /\ trxBegin0[s] = trxMax /\ trxCommit0[s] = trxMax /\ pc[s] = "idle" /\ local[s] = 0
  BY DEF Init
<1>5. TypeOK
  <2>1. /\ level \in [Session -> 0..levelMax] /\ trxBegin0 \in [Session -> 0..trxMax]
        /\ local \in [Session -> Nat]
        /\ pc \in [Session -> {"idle", "node", "precommit", "drawn", "stamp", "rollback", "expunge", "nullify"}]
    BY <1>1 DEF Init
  <2>2. trxCommit0 \in [Session -> trxPrecommit..trxMax]
    BY <1>1 DEF Init, trxPrecommit
  <2>3. clean \in [pc : {"idle", "scan", "nullify"}, oldest : 0..trxMax, id : Nat]
    BY <1>1, <1>3
  <2>4. indexLock \in BOOLEAN
    BY DEF Init
  <2> QED
    BY <2>1, <2>2, <2>3, <2>4, <1>1, <1>2, <1>3 DEF TypeOK
<1>6. \A s \in Session : SessionInv(s)
  BY <1>4 DEF SessionInv, Waiting
<1>7. BeginsDiffer
  BY <1>4 DEF BeginsDiffer
<1>8. NumbersInv
  <2>1. ToDraw = {}
    BY <1>4 DEF ToDraw
  <2>2. Cardinality(ToDraw) = 0
    BY <2>1, FS_EmptySet
  <2> QED
    BY <2>2, <1>1, <1>3 DEF NumbersInv, TRXID_INCR
<1>9. (\A r \in rce : RowInv(r)) /\ IdsDiffer /\ OneCommit /\ FirstUpdaterWins
  BY <1>3 DEF IdsDiffer, OneCommit, FirstUpdaterWins
<1>10. NodeInv
  BY <1>4 DEF NodeInv
<1>11. CleanInv
  <2>1. clean.pc = "idle" /\ clean.oldest = 0 /\ clean.id = 0
    BY <1>3
  <2> QED
    BY <2>1, <1>3 DEF CleanInv, TRXID_INCR
<1> QED
  BY <1>5, <1>6, <1>7, <1>8, <1>9, <1>10, <1>11 DEF IInv

\* Every step keeps the invariant.
LEMMA NextKept ==
    ASSUME IInv, [Next]_vars
    PROVE  IInv'
<1>1. CASE UNCHANGED vars
  <2>1. UNCHANGED <<trxNewest, session, rceidLast, clean>> /\ rce' = rce /\ page' = page /\ indexLock' = indexLock
    BY <1>1 DEF vars, store
  <2>2. indexLock' \in BOOLEAN /\ page' \in [Node -> [st : {"absent", "live", "deleted", "checked", "expunged"}, data : Int]]
    BY <2>1 DEF IInv, TypeOK
  <2> QED
    BY <2>1, <2>2, LessKept
<1>2. ASSUME NEW s \in Session, TransactionStep(s)
      PROVE  IInv'
  <2>1. CASE Begin(s) \/ BeginReadOnly(s)
    BY <2>1, BeginKept
  <2>2. CASE BeginNested(s)
    BY <2>2, BeginNestedKept
  <2>3. CASE VERICommitTransactionToLevelGreaterThan0(s)
    BY <2>3, CommitNestedKept
  <2>4. CASE CommitWithoutRCE(s) \/ EndCommit(s)
    BY <2>4, CommitEndsKept
  <2>5. CASE SetPrecommit(s) \/ PublishCommit0(s)
    BY <2>5, PrecommitKept
  <2>6. CASE DrawCommit0(s)
    BY <2>6, DrawKept
  <2>7. CASE VERICommitOneRCEToLevel0(s)
    BY <2>7, CommitOneKept
  <2> QED
    BY <2>1, <2>2, <2>3, <2>4, <2>5, <2>6, <2>7, <1>2 DEF TransactionStep
<1>3. ASSUME NEW s \in Session, NodeStep(s)
      PROVE  IInv'
  <2>1. ASSUME NEW n \in Node, Replace(s, n)
        PROVE  IInv'
    BY <2>1, ReplaceKept
  <2>2. ASSUME NEW n \in Node, BeginFlagDelete(s, n) \/ BeginDelta(s, n) \/ BeginInsert(s, n)
        PROVE  IInv'
    <3>1. PICK oper \in Opers : VersionFirst(s, n, oper)
      BY <2>2 DEF BeginFlagDelete, BeginDelta, BeginInsert, Opers
    <3> QED
      BY <3>1, VersionFirstKept
  <2>3. ASSUME NEW n \in Node, NEW oper \in {"ReadLock", "WriteLock"}, Lock(s, n, oper)
        PROVE  IInv'
    BY <2>3, LockKept
  <2>4. ASSUME NEW n \in Node, ErrBTISPCDeleteNodes(s, n) \/ ErrNDDelete(s, n) \/ VERNullifyInactiveVersionsOnBM(s, n)
        PROVE  IInv'
    BY <2>4, DeleteNodeKept, ExpungeKept
  <2>5. CASE ErrNDFlagDelete(s)
    BY <2>5, FlagDeleteKept
  <2>6. CASE ErrNDDelta(s)
    BY <2>6, DeltaKept
  <2>7. CASE ErrNDInsert(s)
    BY <2>7, InsertKept
  <2>8. CASE ErrNDFlagInsertAndReplaceData(s)
    BY <2>8, FlagInsertKept
  <2>9. CASE VERNullifyFailedDMLRCE(s)
    BY <2>9, NullifyFailedKept
  <2> QED
    BY <2>1, <2>2, <2>3, <2>4, <2>5, <2>6, <2>7, <2>8, <2>9, <1>3 DEF NodeStep
<1>4. ASSUME NEW s \in Session, RollbackStep(s)
      PROVE  IInv'
  <2>1. CASE StartRollback(s)
    BY <2>1, StartRollbackKept
  <2>2. CASE ErrVERITryUndoLoggedOper(s)
    BY <2>2, UndoKept
  <2>3. CASE NullifyKeptRCE(s)
    BY <2>3, KeptNullifiedKept
  <2>4. CASE EndRollback(s)
    BY <2>4, EndRollbackKept
  <2> QED
    BY <2>1, <2>2, <2>3, <2>4, <1>4 DEF RollbackStep
<1>5. CASE CreateIndexLock
  BY <1>5, CreateIndexKept
<1>6. CASE StartClean
  BY <1>6, StartCleanKept
<1>7. CASE ErrVERIRCEClean
  BY <1>7, CleanKeptByScan
<1>8. CASE ErrPrepareToDeallocate
  BY <1>8, DeallocateKept
<1> QED
  BY <1>1, <1>2, <1>3, <1>4, <1>5, <1>6, <1>7, <1>8 DEF Next

\* The invariant holds in every state that the version store reaches: sessions,
\* RCEs and cleanup agree on the numbers that were drawn.
THEOREM VersionInvariant == Spec => []IInv
<1>1. Init => IInv
  BY InitInv
<1>2. IInv /\ [Next]_vars => IInv'
  BY NextKept
<1> QED
  BY <1>1, <1>2, PTL DEF Spec

\* FVERIWriteConflict does its duty, with any number of sessions, nodes, levels and
\* versions: the versions are well formed, and when a transaction has made a
\* version on a node, every older one there by another transaction had committed
\* before it began, unless both are deltas or read locks.
THEOREM FirstUpdaterAlwaysWins == Spec => []VersionsSound
<1>1. IInv => VersionsSound
  BY DEF IInv, VersionsSound
<1> QED
  BY <1>1, VersionInvariant, PTL

-----------------------------------------------------------------------------
(* What cleanup takes *)

\* A committed RCE is found again under its id after every step but cleanup.
LEMMA FullStays ==
    ASSUME IInv, [Next]_vars, NEW r \in rce, r.full, \A q \in rce' : q.id # r.id
    PROVE  ErrPrepareToDeallocate \/ \E s \in Session, n \in Node : VERNullifyInactiveVersionsOnBM(s, n)
<1>1. r \notin rce' /\ r \in rce
  OBVIOUS
<1>2. ASSUME NEW x \in rce, ~x.full, rce \ {x} \subseteq rce'
      PROVE  FALSE
  BY <1>1, <1>2
<1>3. ASSUME rce \subseteq rce'
      PROVE  FALSE
  BY <1>1, <1>3
<1>4. ASSUME NEW s \in Session, TransactionStep(s)
      PROVE  FALSE
  <2>1. CASE VERICommitTransactionToLevelGreaterThan0(s)
    BY <2>1, <1>1 DEF VERICommitTransactionToLevelGreaterThan0, OfLevel, OfSession
  <2>2. CASE VERICommitOneRCEToLevel0(s)
    <3>1. OfSession(s) \subseteq rce /\ OfSession(s) # {}
      BY <2>2 DEF OfSession, VERICommitOneRCEToLevel0
    <3>2. PICK x \in OfSession(s) : x = Newest(OfSession(s))
      BY <3>1, NewestOf
    <3>3. x \in rce /\ ~x.full
      BY DEF OfSession
    <3>4. rce \ {x} \subseteq rce'
      BY <3>2, <2>2 DEF VERICommitOneRCEToLevel0, ChangeRCE
    <3> QED
      BY <3>3, <3>4, <1>2
  <2>3. CASE rce' = rce
    BY <2>3, <1>3
  <2> QED
    BY <2>1, <2>2, <2>3, <1>4 DEF TransactionStep, Begin, BeginReadOnly, PIBSetTrxBegin0, BeginNested, CommitWithoutRCE,
       SetPrecommit, DrawCommit0, PublishCommit0, EndCommit, store
<1>5. ASSUME NEW s \in Session, NodeStep(s), ~\E n \in Node : VERNullifyInactiveVersionsOnBM(s, n)
      PROVE  FALSE
  <2>1. ASSUME NEW n \in Node, NEW oper, NEW image, ErrVERModify(s, n, oper, image)
        PROVE  FALSE
    BY <2>1, <1>3 DEF ErrVERModify
  <2>2. CASE \E n \in Node : Replace(s, n) \/ BeginFlagDelete(s, n) \/ BeginDelta(s, n) \/ BeginInsert(s, n)
    BY <2>1, <2>2 DEF Replace, BeginFlagDelete, BeginDelta, BeginInsert, VersionFirst
  <2>3. CASE \E n \in Node, oper \in {"ReadLock", "WriteLock"} : Lock(s, n, oper)
    BY <2>1, <2>3 DEF Lock
  <2>4. CASE pc[s] = "node" /\ rce \ {Underway(s)} \subseteq rce'
    <3>1. /\ Underway(s) \in rce /\ Underway(s).sess = s /\ ~Underway(s).full /\ Underway(s).id = local[s]
          /\ \A x \in rce : x.id = local[s] => x = Underway(s)
      BY <2>4, UnderwayIs
    <3> QED
      BY <3>1, <2>4, <1>2
  <2>5. \/ \E n \in Node : Replace(s, n) \/ BeginFlagDelete(s, n) \/ BeginDelta(s, n) \/ BeginInsert(s, n)
        \/ \E n \in Node, oper \in {"ReadLock", "WriteLock"} : Lock(s, n, oper)
        \/ \E n \in Node : ErrBTISPCDeleteNodes(s, n) \/ ErrNDDelete(s, n)
        \/ \/ ErrNDFlagDelete(s) \/ ErrNDDelta(s) \/ ErrNDInsert(s)
           \/ ErrNDFlagInsertAndReplaceData(s) \/ VERNullifyFailedDMLRCE(s)
    BY <1>5 DEF NodeStep
  <2>7. CASE \E n \in Node : ErrBTISPCDeleteNodes(s, n) \/ ErrNDDelete(s, n)
    BY <2>7, <1>3 DEF ErrBTISPCDeleteNodes, ErrNDDelete, store
  <2>6. CASE \/ ErrNDFlagDelete(s) \/ ErrNDDelta(s) \/ ErrNDInsert(s)
             \/ ErrNDFlagInsertAndReplaceData(s) \/ VERNullifyFailedDMLRCE(s)
    <3>1. pc[s] = "node" /\ rce \ {Underway(s)} \subseteq rce'
      BY <2>6 DEF ErrNDFlagDelete, ErrNDDelta, ErrNDInsert, ErrNDFlagInsertAndReplaceData, VERNullifyFailedDMLRCE,
         AtNode, ChangeRCE, store
    <3> QED
      BY <3>1, <2>4
  <2> QED
    BY <2>2, <2>3, <2>5, <2>6, <2>7
<1>6. ASSUME NEW s \in Session, RollbackStep(s)
      PROVE  FALSE
  <2>1. ASSUME NEW R, R \subseteq OfLevel(s), R # {}, VERINullifyRolledBackRCE(Newest(R))
        PROVE  FALSE
    <3>1. R \subseteq rce
      BY <2>1 DEF OfLevel, OfSession
    <3>2. PICK x \in R : x = Newest(R)
      BY <2>1, <3>1, NewestOf
    <3>3. x \in rce /\ ~x.full
      BY <2>1 DEF OfLevel, OfSession
    <3>4. rce \ {x} \subseteq rce'
      BY <2>1, <3>2 DEF VERINullifyRolledBackRCE, ChangeRCE
    <3> QED
      BY <3>3, <3>4, <1>2
  <2>2. CASE ErrVERITryUndoLoggedOper(s)
    <3>1. ToUndo(s) \subseteq OfLevel(s)
      BY DEF ToUndo
    <3>2. ToUndo(s) # {} /\ VERINullifyRolledBackRCE(Newest(ToUndo(s)))
      BY <2>2 DEF ErrVERITryUndoLoggedOper
    <3> QED
      BY <3>1, <3>2, <2>1
  <2>3. CASE NullifyKeptRCE(s)
    BY <2>1, <2>3 DEF NullifyKeptRCE
  <2>4. CASE StartRollback(s) \/ EndRollback(s)
    BY <2>4, <1>3 DEF StartRollback, EndRollback, store
  <2> QED
    BY <2>2, <2>3, <2>4, <1>6 DEF RollbackStep
<1>7. CASE UNCHANGED vars \/ CreateIndexLock \/ StartClean \/ ErrVERIRCEClean
  BY <1>7, <1>3 DEF vars, CreateIndexLock, StartClean, ErrVERIRCEClean, store
<1> QED
  BY <1>4, <1>5, <1>6, <1>7 DEF Next

\* Cleanup has no transaction to compare with: it goes by the trxMax that it read
\* when none was open (CbucketVERIClean's call of ErrVERIRCEClean).
FreeHand == clean.pc = "nullify" /\ clean.oldest = trxMax

\* What the code ensures of CleansOnlyOld, with the race of the first finding let in:
\* a committed RCE that is younger than an open transaction is nullified only by a
\* version cleanup that still works with the trxMax it has read.
TakesOnlyOld ==
    [][\A r \in rce : r.full /\ (\A q \in rce' : q.id # r.id) => r.trx < TrxOldest \/ FreeHand]_vars

\* Version cleanup and page cleanup nullify a committed RCE only when it had
\* committed before every open transaction began (ErrVERIRCEClean, ErrPrepareToDeallocate,
\* VERNullifyInactiveVersionsOnBM), with any number of sessions that begin at any time; the
\* one exception is a cleanup that has found no transaction open, the window that
\* the run vs_clean_race shows.  Page cleanup never is in that window.
THEOREM CleanupTakesOnlyOld == Spec => TakesOnlyOld
<1> DEFINE Old == \A r \in rce : r.full /\ (\A q \in rce' : q.id # r.id) => r.trx < TrxOldest \/ FreeHand
<1>1. ASSUME IInv, [Next]_vars, NEW r \in rce, r.full, \A q \in rce' : q.id # r.id, ~FreeHand
      PROVE  r.trx < TrxOldest
  <2>1. /\ TrxOldest \in 0..trxMax
        /\ \A s \in Session : TrxOldest <= trxBegin0[s]
        /\ TrxOldest = trxMax \/ \E s \in Session : TrxOldest = trxBegin0[s]
    BY <1>1, TrxOldestIs DEF IInv
  <2>2. r.trx \in 0..trxMax /\ trxMax \in Nat
    BY <1>1, RowType, VersionStoreAssumption DEF IInv
  <2>3. CASE ErrPrepareToDeallocate
    <3>1. r \notin rce'
      BY <1>1
    <3>2. r.trx < clean.oldest
      BY <2>3, <3>1, <1>1, Deallocated
    <3>3. clean.oldest \in 0..trxMax /\ \A s \in Session : clean.oldest <= trxBegin0[s]
      <4>1. clean \in [pc : {"idle", "scan", "nullify"}, oldest : 0..trxMax, id : Nat]
        BY <1>1 DEF IInv, TypeOK
      <4>2. clean.pc = "nullify"
        BY <2>3 DEF ErrPrepareToDeallocate
      <4>3. clean.oldest # trxMax
        BY <1>1, <4>2 DEF FreeHand
      <4>4. \A s \in Session : clean.oldest <= trxBegin0[s]
        BY <4>2, <4>3, <1>1 DEF IInv, CleanInv
      <4> QED
        BY <4>1, <4>4
    <3>4. clean.oldest <= TrxOldest
      BY <2>1, <2>2, <3>3
    <3> QED
      BY <2>1, <2>2, <3>2, <3>3, <3>4
  <2>4. CASE \E s \in Session, n \in Node : VERNullifyInactiveVersionsOnBM(s, n)
    <3>1. ~(TrxCommitted(r) >= TrxOldest)
      BY <2>4, <1>1 DEF VERNullifyInactiveVersionsOnBM
    <3>2. TrxCommitted(r) = r.trx
      BY <1>1 DEF TrxCommitted
    <3> QED
      BY <2>1, <2>2, <3>1, <3>2
  <2> QED
    BY <2>3, <2>4, <1>1, FullStays
<1>2. IInv /\ [Next]_vars => Old
  BY <1>1
<1>3. IInv /\ [Next]_vars => [Old]_vars
  BY <1>2
<1> QED
  BY <1>3, VersionInvariant, PTL DEF Spec, TakesOnlyOld

=============================================================================
