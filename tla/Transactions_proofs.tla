------------------------ MODULE Transactions_proofs ------------------------
(***************************************************************************)
(* Proofs about TrxOldest and TrxNumber as MCTransactions uses them, for   *)
(* any sets of sessions and callers, any number of processors and words of *)
(* any size: the oldest transaction that is returned was the oldest at     *)
(* some moment of the call, and the order of numbers survives wraparound.  *)
(***************************************************************************)
EXTENDS MCTransactions, WellFoundedInduction, SequenceTheorems, TLAPS

\* A nonempty set of naturals has a least element.
LEMMA LeastNat == ASSUME NEW T \in SUBSET Nat, T # {} PROVE \E x \in T : \A y \in T : x <= y
<1>1. PICK R : R = OpToRel(<, Nat)
  OBVIOUS
<1>2. IsWellFoundedOn(R, Nat)
  BY <1>1, NatLessThanWellFounded
<1>3. PICK x \in T : \A y \in T : ~(<<y, x>> \in R)
  BY <1>2, WFMin
<1>4. \A y \in T : y < x => <<y, x>> \in R
  BY <1>1 DEF OpToRel
<1>5. \A y \in T : ~(y < x)
  BY <1>3, <1>4, Zenon
<1> QED
  BY <1>5

\* A sequence without one of its elements.
LEMMA OneLess ==
    ASSUME NEW S, NEW l \in Seq(S), NEW b \in 1..Len(l),
           NEW m, m = SubSeq(l, 1, b - 1) \o SubSeq(l, b + 1, Len(l))
    PROVE  /\ m \in Seq(S) /\ Len(m) = Len(l) - 1
           /\ \A c \in 1..(Len(l) - 1) : m[c] = IF c < b THEN l[c] ELSE l[c + 1]
<1>a. /\ SubSeq(l, 1, b - 1) \in Seq(S) /\ Len(SubSeq(l, 1, b - 1)) = b - 1
      /\ \A c \in 1..(b - 1) : SubSeq(l, 1, b - 1)[c] = l[c]
  OBVIOUS
<1>b. /\ SubSeq(l, b + 1, Len(l)) \in Seq(S)
      /\ Len(SubSeq(l, b + 1, Len(l))) = Len(l) - b
      /\ \A c \in 1..(Len(l) - b) : SubSeq(l, b + 1, Len(l))[c] = l[b + c]
  OBVIOUS
<1>1. PICK p : p \in Seq(S) /\ p = SubSeq(l, 1, b - 1) /\ Len(p) = b - 1 /\ \A c \in 1..(b - 1) : p[c] = l[c]
  BY <1>a, Zenon
<1>2. PICK q :
        /\ q \in Seq(S) /\ q = SubSeq(l, b + 1, Len(l))
        /\ Len(q) = Len(l) - b
        /\ \A c \in 1..(Len(l) - b) : q[c] = l[b + c]
  BY <1>b, Zenon
<1>3. m = p \o q
  BY <1>1, <1>2
<1>4. /\ p \o q \in Seq(S)
      /\ Len(p \o q) = Len(p) + Len(q)
      /\ \A c \in 1..(Len(p) + Len(q)) : (p \o q)[c] = IF c <= Len(p) THEN p[c] ELSE q[c - Len(p)]
  <2>1. p \in Seq(S) /\ q \in Seq(S)
    BY <1>1, <1>2, Zenon
  <2> QED
    BY <2>1, ConcatProperties
<1>c. Len(p) = b - 1 /\ Len(q) = Len(l) - b
  BY <1>1, <1>2, Zenon
<1>5. m \in Seq(S) /\ Len(m) = Len(l) - 1
  <2>1. m \in Seq(S) /\ Len(m) = Len(p) + Len(q)
    BY <1>3, <1>4, Zenon
  <2>2. (b - 1) + (Len(l) - b) = Len(l) - 1
    OBVIOUS
  <2> QED
    BY <1>c, <2>1, <2>2, Zenon
<1>6. \A c \in 1..(b - 1) : m[c] = l[c]
  <2>1. TAKE c \in 1..(b - 1)
  <2>2. c \in 1..(Len(p) + Len(q)) /\ c <= Len(p)
    BY <1>c
  <2>3. m[c] = p[c]
    BY <1>3, <1>4, <2>2
  <2> QED
    BY <1>1, <2>3
<1>7. \A c \in b..(Len(l) - 1) : m[c] = l[c + 1]
  <2>1. TAKE c \in b..(Len(l) - 1)
  <2>2. c \in 1..(Len(p) + Len(q)) /\ ~(c <= Len(p)) /\ Len(p) = b - 1
    BY <1>c
  <2>3. m[c] = q[c - (b - 1)]
    BY <1>3, <1>4, <2>2
  <2>4. c - (b - 1) \in 1..(Len(l) - b) /\ b + (c - (b - 1)) = c + 1
    OBVIOUS
  <2> QED
    BY <1>2, <2>3, <2>4
<1>8. \A c \in 1..(Len(l) - 1) : m[c] = IF c < b THEN l[c] ELSE l[c + 1]
  <2>1. TAKE c \in 1..(Len(l) - 1)
  <2>2. CASE c < b
    <3>1. c \in 1..(b - 1)
      BY <2>2
    <3> QED
      BY <1>6, <2>2, <3>1
  <2>3. CASE ~(c < b)
    <3>1. c \in b..(Len(l) - 1)
      BY <2>3
    <3> QED
      BY <1>7, <2>3, <3>1
  <2> QED
    BY <2>2, <2>3
<1> QED
  BY <1>5, <1>8

-----------------------------------------------------------------------------
(* The oldest transaction *)

\* A session inside of the lock of its list.
Locking == {"drawn", "listing", "leaving"}

OldestTypes ==
    /\ toNewest \in 0..trxLast /\ toNewest % 4 = 0
    /\ trxBegin0 \in [TrxSession -> 0..trxInfinite]
    /\ ppls \in [TrxSession -> TO!Proc]
    /\ toList \in [TO!Proc -> Seq(TrxSession)]
    /\ writer \in [TO!Proc -> TrxSession \cup {none}]
    /\ toPc \in [TrxSession -> {"out", "drawn", "listing", "in", "leaving"}]
    /\ stale \in BOOLEAN
    /\ cached \in 0..trxInfinite
    /\ crit \in Caller \cup {none}
    /\ call \in [Caller -> {"idle", "enter", "lock", "read"}]
    /\ locked \in 0..cProcs

\* Who owns which lock: a list is locked by a writer or by the updater, never by both.
OldestLocks ==
    /\ \A s \in TrxSession : toPc[s] \in Locking => writer[ppls[s]] = s
    /\ \A p \in TO!Proc : writer[p] # none =>
          writer[p] \in TrxSession /\ ppls[writer[p]] = p /\ toPc[writer[p]] \in Locking /\ p >= locked
    /\ \A c \in Caller : crit = c <=> call[c] \in {"enter", "lock"}
    /\ locked > 0 => \E c \in Caller : call[c] = "lock"

\* The lists hold the sessions that are in, each once, in the list it chose.
OldestLists ==
    /\ \A p \in TO!Proc : \A i \in 1..Len(toList[p]) :
          toList[p][i] \in TrxSession /\ ppls[toList[p][i]] = p /\ toPc[toList[p][i]] \in {"in", "leaving"}
    /\ \A s \in TrxSession : toPc[s] \in {"in", "leaving"} =>
          \E i \in 1..Len(toList[ppls[s]]) : toList[ppls[s]][i] = s
    /\ \A p \in TO!Proc : \A i, j \in 1..Len(toList[p]) : toList[p][i] = toList[p][j] => i = j

\* Numbers grow along a list and on to the session that is about to enter it, and
\* the cache is not ahead of any of them nor of those that are drawn next.
OldestNumbers ==
    /\ \A s \in TrxSession : toPc[s] # "out" => trxBegin0[s] <= toNewest + 2
    /\ \A p \in TO!Proc : \A i, j \in 1..Len(toList[p]) :
          i < j => trxBegin0[toList[p][i]] <= trxBegin0[toList[p][j]]
    /\ \A s \in TrxSession : toPc[s] \in {"drawn", "listing"} =>
          \A i \in 1..Len(toList[ppls[s]]) : trxBegin0[toList[ppls[s]][i]] <= trxBegin0[s]
    /\ cached # trxInfinite =>
          cached <= toNewest + 2 /\ \A s \in TrxSession : toPc[s] # "out" => cached <= trxBegin0[s]

\* Before the first transaction of a list changes somebody has seen to an update,
\* which cannot end before the change is made.
OldestPending ==
    /\ \A s \in TrxSession : toPc[s] = "listing" /\ Len(toList[ppls[s]]) = 0 => TO!Pending
    /\ \A s \in TrxSession : toPc[s] = "leaving" /\ toList[ppls[s]][1] = s => TO!Pending
    /\ TO!CacheExact

\* The value in the cache may be returned by those who are about to return it.
OldestSeen ==
    /\ seen \in [Caller -> SUBSET (0..trxInfinite)]
    /\ \A c \in Caller : call[c] = "read" => cached \in seen[c]

OldestCore == OldestTypes /\ OldestLocks /\ OldestLists /\ OldestNumbers /\ OldestPending

OldestInv == OldestCore /\ OldestSeen

-----------------------------------------------------------------------------
\* The minimum exists and is the only one.
LEMMA MinimumIs ==
    ASSUME NEW T \in SUBSET (0..trxInfinite)
    PROVE  TO!Minimum(T) \in T \cup {trxInfinite} /\ \A u \in T : TO!Minimum(T) <= u
<1>1. \E x \in T \cup {trxInfinite} : \A u \in T : x <= u
  <2>1. CASE T = {}
    BY <2>1
  <2>2. CASE T # {}
    <3>1. T \in SUBSET Nat
      BY TransactionsAssumption
    <3>2. PICK x \in T : \A u \in T : x <= u
      BY <2>2, <3>1, LeastNat
    <3> QED
      BY <3>2
  <2> QED
    BY <2>1, <2>2
<1> QED
  BY <1>1 DEF TO!Minimum

\* What is in the set, or trxMax, and below everything in it is its minimum.
LEMMA MinimumOnly ==
    ASSUME NEW T \in SUBSET (0..trxInfinite), NEW x \in T \cup {trxInfinite}, \A u \in T : x <= u
    PROVE  TO!Minimum(T) = x
<1>1. TO!Minimum(T) \in T \cup {trxInfinite} /\ \A u \in T : TO!Minimum(T) <= u
  BY MinimumIs
<1>2. PICK m : m = TO!Minimum(T)
  OBVIOUS
<1>3. m \in T \cup {trxInfinite} /\ \A u \in T : m <= u
  BY <1>1, <1>2
<1>4. m = x
  BY <1>3, TransactionsAssumption
<1> QED
  BY <1>2, <1>4

\* A session is on a list from its insertion to its removal.
LEMMA ListedIs ==
    ASSUME OldestTypes, OldestLists
    PROVE  TO!Listed = {s \in TrxSession : toPc[s] \in {"in", "leaving"}}
<1>1. ASSUME NEW p \in TO!Proc PROVE DOMAIN toList[p] = 1..Len(toList[p])
  BY DEF OldestTypes
<1>2. ASSUME NEW s \in TO!Listed PROVE s \in TrxSession /\ toPc[s] \in {"in", "leaving"}
  <2>1. PICK p \in TO!Proc : s \in TO!Range(toList[p])
    BY <1>2 DEF TO!Listed
  <2>2. PICK i \in 1..Len(toList[p]) : s = toList[p][i]
    BY <1>1, <2>1 DEF TO!Range
  <2> QED
    BY <2>2 DEF OldestLists
<1>3. ASSUME NEW s \in TrxSession, toPc[s] \in {"in", "leaving"} PROVE s \in TO!Listed
  <2>1. PICK i \in 1..Len(toList[ppls[s]]) : toList[ppls[s]][i] = s
    BY <1>3 DEF OldestLists
  <2>2. ppls[s] \in TO!Proc
    BY DEF OldestTypes
  <2>3. s \in TO!Range(toList[ppls[s]])
    BY <1>1, <2>1, <2>2 DEF TO!Range
  <2> QED
    BY <2>2, <2>3 DEF TO!Listed
<1> QED
  BY <1>2, <1>3

\* What the oldest transaction in the lists is.
LEMMA ExactOnly ==
    ASSUME OldestTypes, OldestLists, NEW x,
           x = trxInfinite \/ \E s \in TrxSession : toPc[s] \in {"in", "leaving"} /\ x = trxBegin0[s],
           \A s \in TrxSession : toPc[s] \in {"in", "leaving"} => x <= trxBegin0[s]
    PROVE  TO!Exact = x
<1>1. PICK T : T = {trxBegin0[s] : s \in TO!Listed}
  OBVIOUS
<1>2. TO!Listed = {s \in TrxSession : toPc[s] \in {"in", "leaving"}}
  BY ListedIs
<1>3. T \in SUBSET (0..trxInfinite)
  BY <1>1, <1>2 DEF OldestTypes
<1>4. x \in T \cup {trxInfinite} /\ \A u \in T : x <= u
  BY <1>1, <1>2
<1>5. TO!Minimum(T) = x
  BY <1>3, <1>4, MinimumOnly
<1> QED
  BY <1>1, <1>5 DEF TO!Exact

\* The exact oldest number: of a listed session, or trxMax, and below them all.
LEMMA ExactIs ==
    ASSUME OldestTypes, OldestLists
    PROVE  /\ TO!Exact \in 0..trxInfinite
           /\ TO!Exact = trxInfinite \/ \E s \in TrxSession : toPc[s] \in {"in", "leaving"} /\ TO!Exact = trxBegin0[s]
           /\ \A s \in TrxSession : toPc[s] \in {"in", "leaving"} => TO!Exact <= trxBegin0[s]
<1>1. PICK T : T = {trxBegin0[s] : s \in TO!Listed}
  OBVIOUS
<1>2. TO!Listed = {s \in TrxSession : toPc[s] \in {"in", "leaving"}}
  BY ListedIs
<1>3. T \in SUBSET (0..trxInfinite)
  BY <1>1, <1>2 DEF OldestTypes
<1>4. TO!Minimum(T) \in T \cup {trxInfinite} /\ \A u \in T : TO!Minimum(T) <= u
  BY <1>3, MinimumIs
<1>5. TO!Exact = TO!Minimum(T)
  BY <1>1 DEF TO!Exact
<1>6. TO!Exact \in T \cup {trxInfinite} /\ \A u \in T : TO!Exact <= u
  BY <1>4, <1>5
<1>7. trxInfinite \in 0..trxInfinite
  BY TransactionsAssumption
<1> QED
  BY <1>1, <1>2, <1>3, <1>6, <1>7

\* The first transaction of a list is its oldest, so that it is enough to look at
\* the first of each.
LEMMA ScannedIsExact == ASSUME OldestTypes, OldestLists, OldestNumbers PROVE TO!Scanned = TO!Exact
<1>1. PICK T : T = {trxBegin0[toList[p][1]] : p \in {p \in TO!Proc : toList[p] # <<>>}}
  OBVIOUS
<1>2. PICK x : x = TO!Exact
  OBVIOUS
<1>3. /\ x \in 0..trxInfinite
      /\ x = trxInfinite \/ \E s \in TrxSession : toPc[s] \in {"in", "leaving"} /\ x = trxBegin0[s]
      /\ \A s \in TrxSession : toPc[s] \in {"in", "leaving"} => x <= trxBegin0[s]
  BY <1>2, ExactIs
<1>4. ASSUME NEW p \in TO!Proc, toList[p] # <<>>
      PROVE  /\ 1 \in 1..Len(toList[p]) /\ toList[p][1] \in TrxSession
             /\ toPc[toList[p][1]] \in {"in", "leaving"}
  <2>1. toList[p] \in Seq(TrxSession)
    BY DEF OldestTypes
  <2>2. 1 \in 1..Len(toList[p])
    BY <1>4, <2>1
  <2> QED
    BY <2>2 DEF OldestLists
<1>5. T \in SUBSET (0..trxInfinite)
  BY <1>1, <1>4 DEF OldestTypes
<1>6. \A u \in T : x <= u
  BY <1>1, <1>3, <1>4
<1>7. x \in T \cup {trxInfinite}
  <2>1. SUFFICES ASSUME x # trxInfinite PROVE x \in T
    OBVIOUS
  <2>2. PICK s \in TrxSession : toPc[s] \in {"in", "leaving"} /\ x = trxBegin0[s]
    BY <1>3, <2>1
  <2>3. PICK p \in TO!Proc : p = ppls[s]
    BY DEF OldestTypes
  <2>4. PICK i \in 1..Len(toList[p]) : toList[p][i] = s
    BY <2>2, <2>3 DEF OldestLists
  <2>5. toList[p] \in Seq(TrxSession) /\ Len(toList[p]) \in Nat
    BY DEF OldestTypes
  <2>6. toList[p] # <<>>
    BY <2>4, <2>5
  <2>7. toList[p][1] \in TrxSession /\ toPc[toList[p][1]] \in {"in", "leaving"} /\ 1 \in 1..Len(toList[p])
    BY <1>4, <2>6
  <2>8. trxBegin0[toList[p][1]] <= trxBegin0[s]
    <3>1. CASE i = 1
      BY <2>4, <2>7, <3>1 DEF OldestTypes
    <3>2. CASE i # 1
      <4>1. 1 < i
        BY <2>4, <2>5, <3>2
      <4> QED
        BY <2>4, <2>7, <4>1 DEF OldestNumbers
    <3> QED
      BY <3>1, <3>2
  <2>9. x <= trxBegin0[toList[p][1]]
    BY <1>3, <2>7
  <2>10. trxBegin0[toList[p][1]] \in 0..trxInfinite /\ trxBegin0[s] \in 0..trxInfinite
    BY <2>7 DEF OldestTypes
  <2>11. x = trxBegin0[toList[p][1]]
    BY <1>3, <2>2, <2>8, <2>9, <2>10, TransactionsAssumption
  <2> QED
    BY <1>1, <2>6, <2>11
<1>8. TO!Minimum(T) = x
  BY <1>5, <1>6, <1>7, MinimumOnly
<1> QED
  BY <1>1, <1>2, <1>8 DEF TO!Scanned

ExactFact ==
    /\ TO!Exact \in 0..trxInfinite
    /\ TO!Exact = trxInfinite \/ \E s \in TrxSession : toPc[s] \in {"in", "leaving"} /\ TO!Exact = trxBegin0[s]
    /\ \A s \in TrxSession : toPc[s] \in {"in", "leaving"} => TO!Exact <= trxBegin0[s]

\* The same as one predicate.
LEMMA ExactNow == OldestTypes /\ OldestLists => ExactFact
BY ExactIs DEF ExactFact

\* The same of the state after a step.
LEMMA ExactNext ==
    ASSUME OldestTypes', OldestLists', NEW x \in 0..trxInfinite,
           x = trxInfinite \/ \E s \in TrxSession : toPc'[s] \in {"in", "leaving"} /\ x = trxBegin0'[s],
           \A s \in TrxSession : toPc'[s] \in {"in", "leaving"} => x <= trxBegin0'[s]
    PROVE  TO!Exact' = x
<1>1. ExactFact'
  BY ExactNow, PTL
<1>2. PICK e : e = TO!Exact'
  OBVIOUS
<1>3. /\ e \in 0..trxInfinite
      /\ e = trxInfinite \/ \E s \in TrxSession : toPc'[s] \in {"in", "leaving"} /\ e = trxBegin0'[s]
      /\ \A s \in TrxSession : toPc'[s] \in {"in", "leaving"} => e <= trxBegin0'[s]
  BY <1>1, <1>2 DEF ExactFact
<1>4. x <= e
  BY <1>3, TransactionsAssumption
<1>5. e <= x
  BY <1>3, TransactionsAssumption
<1> QED
  BY <1>2, <1>3, <1>4, <1>5, TransactionsAssumption

\* The oldest number depends on the numbers and the lists only.
LEMMA SameExact == ASSUME UNCHANGED <<trxBegin0, toList>> PROVE TO!Exact' = TO!Exact
BY DEF TO!Exact, TO!Listed, TO!Range

\* What the assumption says of the constants of TrxOldest.
LEMMA OldestConstants ==
    /\ TO!none = none /\ none \notin TrxSession /\ none \notin Caller
    /\ TO!Proc = 0..(cProcs - 1) /\ cProcs \in Nat /\ cProcs > 0
    /\ trxLast \in Nat /\ trxInfinite \in Nat /\ trxLast + 4 <= trxInfinite
BY TransactionsAssumption DEF TO!none, none, TO!Proc

\* A step that makes nothing pending that was not, and leaves lists and numbers.
LEMMA PendingKept ==
    ASSUME OldestCore, TO!Pending => TO!Pending', UNCHANGED <<trxBegin0, toList, cached>>
    PROVE  TO!CacheExact'
<1>1. TO!Exact' = TO!Exact
  BY SameExact
<1>2. ~TO!Pending => cached = TO!Exact
  BY DEF OldestCore, OldestPending, TO!CacheExact
<1> QED
  BY <1>1, <1>2 DEF TO!CacheExact

-----------------------------------------------------------------------------
(* The callers of TrxOldest *)

\* The sessions are where they were.
LEMMA CallerKeeps ==
    ASSUME OldestCore, UNCHANGED TO!session, cached' = cached, TO!Pending => TO!Pending'
    PROVE  OldestLists' /\ OldestNumbers' /\ OldestPending'
<1>1. OldestLists' /\ OldestNumbers'
  BY DEF OldestCore, OldestLists, OldestNumbers, TO!session
<1>2. TO!CacheExact'
  BY PendingKept DEF TO!session
<1>3. OldestPending'
  BY <1>2 DEF OldestCore, OldestPending, TO!session
<1> QED
  BY <1>1, <1>3

\* A caller starts an update of the cache.
LEMMA UpdateKeeps == ASSUME OldestCore, NEW c \in Caller, TO!UpdateCachedTrxOldest(c) PROVE OldestCore'
<1>1. /\ UNCHANGED TO!session /\ UNCHANGED <<stale, cached, locked>>
      /\ crit = none /\ crit' = c /\ call[c] = "idle" /\ call' = [call EXCEPT ![c] = "enter"]
  BY OldestConstants DEF TO!UpdateCachedTrxOldest
<1>2. call'[c] = "enter" /\ \A e \in Caller \ {c} : call'[e] = call[e]
  BY <1>1 DEF OldestCore, OldestTypes
<1>3. OldestTypes'
  BY <1>1 DEF OldestCore, OldestTypes, TO!session
<1>4. OldestLocks'
  <2>1. \A e \in Caller : crit' = e <=> call'[e] \in {"enter", "lock"}
    BY <1>1, <1>2, OldestConstants DEF OldestCore, OldestLocks
  <2>2. locked' > 0 => \E e \in Caller : call'[e] = "lock"
    BY <1>1, <1>2 DEF OldestCore, OldestLocks
  <2> QED
    BY <1>1, <2>1, <2>2 DEF OldestCore, OldestLocks, TO!session
<1>5. TO!Pending => TO!Pending'
  BY <1>1, <1>2 DEF TO!Pending
<1> QED
  BY <1>1, <1>3, <1>4, <1>5, CallerKeeps DEF OldestCore

\* A caller looks at the flag, and takes it down.
LEMMA TestKeeps == ASSUME OldestCore, NEW c \in Caller, TO!FTrxOldestCachedMayBeStale(c) PROVE OldestCore'
<1>1. /\ UNCHANGED TO!session /\ UNCHANGED <<cached, locked>>
      /\ call[c] = "enter" /\ stale' = FALSE
      /\ call' = [call EXCEPT ![c] = IF stale THEN "lock" ELSE "read"]
      /\ crit' = IF stale THEN crit ELSE none
  BY OldestConstants DEF TO!FTrxOldestCachedMayBeStale
<1>2. call'[c] = (IF stale THEN "lock" ELSE "read") /\ \A e \in Caller \ {c} : call'[e] = call[e]
  BY <1>1 DEF OldestCore, OldestTypes
<1>3. OldestTypes'
  BY <1>1 DEF OldestCore, OldestTypes, TO!session
<1>4. OldestLocks'
  <2>1. crit = c /\ \A e \in Caller \ {c} : call[e] \notin {"enter", "lock"}
    BY <1>1 DEF OldestCore, OldestLocks
  <2>2. \A e \in Caller : crit' = e <=> call'[e] \in {"enter", "lock"}
    BY <1>1, <1>2, <2>1, OldestConstants
  <2>3. locked' > 0 => \E e \in Caller : call'[e] = "lock"
    BY <1>1, <1>2 DEF OldestCore, OldestLocks
  <2> QED
    BY <1>1, <2>2, <2>3 DEF OldestCore, OldestLocks, TO!session
<1>5. TO!Pending => TO!Pending'
  BY <1>1, <1>2 DEF TO!Pending
<1> QED
  BY <1>1, <1>3, <1>4, <1>5, CallerKeeps DEF OldestCore

\* A caller locks one more list.
LEMMA EnterKeeps == ASSUME OldestCore, NEW c \in Caller, TO!EnterAsReader(c) PROVE OldestCore'
<1>1. /\ UNCHANGED TO!session /\ UNCHANGED <<stale, cached, crit, call>>
      /\ call[c] = "lock" /\ locked < cProcs /\ writer[locked] = none /\ locked' = locked + 1
  BY OldestConstants DEF TO!EnterAsReader
<1>2. locked \in 0..cProcs
  BY DEF OldestCore, OldestTypes
<1>3. OldestTypes'
  <2>1. locked' \in 0..cProcs
    BY <1>1, <1>2, OldestConstants
  <2> QED
    BY <1>1, <2>1 DEF OldestCore, OldestTypes, TO!session
<1>4. OldestLocks'
  <2>1. ASSUME NEW p \in TO!Proc, writer[p] # none PROVE p >= locked'
    <3>1. p >= locked /\ p # locked
      BY <1>1, <2>1 DEF OldestCore, OldestLocks
    <3> QED
      BY <1>1, <1>2, <3>1, OldestConstants
  <2> QED
    BY <1>1, <2>1 DEF OldestCore, OldestLocks, TO!session
<1>5. TO!Pending => TO!Pending'
  BY <1>1 DEF TO!Pending
<1> QED
  BY <1>1, <1>3, <1>4, <1>5, CallerKeeps DEF OldestCore

\* While all lists are locked no session is about to change one.
LEMMA NobodyLocking == ASSUME OldestCore, locked = cProcs, NEW s \in TrxSession PROVE toPc[s] \notin Locking
<1>1. SUFFICES ASSUME toPc[s] \in Locking PROVE FALSE
  OBVIOUS
<1>2. writer[ppls[s]] = s /\ ppls[s] \in TO!Proc /\ s # none
  BY <1>1, OldestConstants DEF OldestCore, OldestLocks, OldestTypes
<1>3. ppls[s] >= locked
  BY <1>2 DEF OldestCore, OldestLocks
<1> QED
  BY <1>2, <1>3, OldestConstants

\* A caller that has all the locks stores the exact value.
LEMMA SetKeeps ==
    ASSUME OldestCore, NEW c \in Caller, TO!SetTrxOldestCached(c)
    PROVE  OldestCore' /\ cached' = TO!Exact'
<1>1. /\ UNCHANGED TO!session /\ stale' = stale
      /\ call[c] = "lock" /\ locked = cProcs /\ cached' = TO!Scanned /\ locked' = 0 /\ crit' = none
      /\ call' = [call EXCEPT ![c] = "read"]
  BY OldestConstants DEF TO!SetTrxOldestCached
<1>2. call'[c] = "read" /\ \A e \in Caller \ {c} : call'[e] = call[e]
  BY <1>1 DEF OldestCore, OldestTypes
<1>3. cached' = TO!Exact
  BY <1>1, ScannedIsExact DEF OldestCore
<1>4. TO!Exact' = TO!Exact
  BY <1>1, SameExact DEF TO!session
<1>5. /\ TO!Exact \in 0..trxInfinite
      /\ TO!Exact = trxInfinite \/ \E s \in TrxSession : toPc[s] \in {"in", "leaving"} /\ TO!Exact = trxBegin0[s]
      /\ \A s \in TrxSession : toPc[s] \in {"in", "leaving"} => TO!Exact <= trxBegin0[s]
  BY ExactIs DEF OldestCore
<1>6. \A s \in TrxSession : toPc[s] \notin Locking
  BY <1>1, NobodyLocking
<1>7. OldestTypes'
  <2>1. 0 \in 0..cProcs
    BY OldestConstants
  <2> QED
    BY <1>1, <1>3, <1>5, <2>1 DEF OldestCore, OldestTypes, TO!session
<1>8. OldestLocks'
  <2>1. crit = c /\ \A e \in Caller \ {c} : call[e] \notin {"enter", "lock"}
    BY <1>1 DEF OldestCore, OldestLocks
  <2>2. \A e \in Caller : crit' = e <=> call'[e] \in {"enter", "lock"}
    BY <1>1, <1>2, <2>1, OldestConstants
  <2>3. ASSUME NEW p \in TO!Proc, writer[p] # none
        PROVE  /\ writer[p] \in TrxSession /\ ppls[writer[p]] = p
               /\ toPc[writer[p]] \in Locking /\ p >= 0
    BY <2>3, OldestConstants DEF OldestCore, OldestLocks
  <2> QED
    BY <1>1, <2>2, <2>3 DEF OldestCore, OldestLocks, TO!session
<1>9. OldestLists'
  BY <1>1 DEF OldestCore, OldestLists, TO!session
<1>10. OldestNumbers'
  <2>1. ASSUME cached' # trxInfinite
        PROVE  cached' <= toNewest + 2 /\ \A s \in TrxSession : toPc[s] # "out" => cached' <= trxBegin0[s]
    <3>1. PICK s \in TrxSession : toPc[s] \in {"in", "leaving"} /\ TO!Exact = trxBegin0[s]
      BY <1>3, <1>5, <2>1
    <3>2. trxBegin0[s] <= toNewest + 2
      BY <3>1 DEF OldestCore, OldestNumbers
    <3>3. ASSUME NEW u \in TrxSession, toPc[u] # "out" PROVE toPc[u] \in {"in", "leaving"}
      BY <1>6, <3>3 DEF OldestCore, OldestTypes, Locking
    <3> QED
      BY <1>3, <1>5, <3>1, <3>2, <3>3
  <2> QED
    BY <1>1, <2>1 DEF OldestCore, OldestNumbers, TO!session
<1>11. OldestPending'
  BY <1>1, <1>3, <1>4, <1>6 DEF OldestPending, TO!session, TO!CacheExact, Locking
<1> QED
  BY <1>3, <1>4, <1>7, <1>8, <1>9, <1>10, <1>11 DEF OldestCore

\* A caller reads the cache.
LEMMA ReadKeeps == ASSUME OldestCore, NEW c \in Caller, TO!TrxOldestCached(c) PROVE OldestCore'
<1>1. /\ UNCHANGED TO!session /\ UNCHANGED <<stale, cached, crit, locked>>
      /\ call[c] = "read" /\ call' = [call EXCEPT ![c] = "idle"]
  BY DEF TO!TrxOldestCached
<1>2. call'[c] = "idle" /\ \A e \in Caller \ {c} : call'[e] = call[e]
  BY <1>1 DEF OldestCore, OldestTypes
<1>3. OldestTypes'
  BY <1>1 DEF OldestCore, OldestTypes, TO!session
<1>4. OldestLocks'
  <2>1. \A e \in Caller : crit' = e <=> call'[e] \in {"enter", "lock"}
    BY <1>1, <1>2 DEF OldestCore, OldestLocks
  <2>2. locked' > 0 => \E e \in Caller : call'[e] = "lock"
    BY <1>1, <1>2 DEF OldestCore, OldestLocks
  <2> QED
    BY <1>1, <2>1, <2>2 DEF OldestCore, OldestLocks, TO!session
<1>5. TO!Pending => TO!Pending'
  BY <1>1, <1>2 DEF TO!Pending
<1> QED
  BY <1>1, <1>3, <1>4, <1>5, CallerKeeps DEF OldestCore

-----------------------------------------------------------------------------
(* The sessions *)

\* What a session does to its own entries.
LEMMA BeginStep ==
    ASSUME OldestCore, NEW s \in TrxSession, NEW p \in TO!Proc, NEW f \in BOOLEAN, TO!PIBSetTrxBegin0(s, p, f)
    PROVE  /\ toPc[s] = "out" /\ writer[p] = none /\ p >= locked
           /\ UNCHANGED <<toList, stale, cached, crit, call, locked>>
           /\ toNewest' \in 0..trxLast /\ toNewest' % 4 = 0 /\ toNewest <= toNewest'
           /\ trxBegin0' = [trxBegin0 EXCEPT ![s] = trxBegin0'[s]]
           /\ trxBegin0'[s] \in 0..(trxInfinite - 1)
           /\ toNewest + 2 <= trxBegin0'[s] /\ trxBegin0'[s] <= toNewest' + 2
           /\ ppls' = [ppls EXCEPT ![s] = p] /\ writer' = [writer EXCEPT ![p] = s]
           /\ toPc' = [toPc EXCEPT ![s] = "drawn"]
<1>1. /\ toPc[s] = "out" /\ writer[p] = none /\ p >= locked
      /\ UNCHANGED <<toList, stale, cached, crit, call, locked>>
      /\ ppls' = [ppls EXCEPT ![s] = p] /\ writer' = [writer EXCEPT ![p] = s]
      /\ toPc' = [toPc EXCEPT ![s] = "drawn"]
      /\ TO!Numbers(f)
      /\ trxBegin0' = [trxBegin0 EXCEPT ![s] = IF f THEN toNewest + 2 ELSE toNewest']
  BY OldestConstants DEF TO!PIBSetTrxBegin0, TO!Free, TO!Draw, TO!caller, TO!TRXID_INCR
<1>2. toNewest \in 0..trxLast /\ toNewest % 4 = 0 /\ s \in DOMAIN trxBegin0
  BY DEF OldestCore, OldestTypes
<1>3. CASE f
  <2>1. toNewest' = toNewest
    BY <1>1, <1>3 DEF TO!Numbers
  <2>2. PICK n \in Nat : n = toNewest + 2
    BY <1>2, OldestConstants
  <2>3. trxBegin0' = [trxBegin0 EXCEPT ![s] = n] /\ trxBegin0'[s] = n
    BY <1>1, <1>2, <1>3, <2>2
  <2> QED
    BY <1>1, <1>2, <2>1, <2>2, <2>3, OldestConstants
<1>4. CASE ~f
  <2>1. toNewest' = toNewest + 4 /\ toNewest + 4 <= trxLast
    BY <1>1, <1>4 DEF TO!Numbers, TO!TRXID_INCR
  <2>2. PICK n \in Nat : n = toNewest'
    BY <1>2, <2>1, OldestConstants
  <2>3. trxBegin0' = [trxBegin0 EXCEPT ![s] = n] /\ trxBegin0'[s] = n
    BY <1>1, <1>2, <1>4, <2>2
  <2> QED
    BY <1>1, <1>2, <2>1, <2>2, <2>3, OldestConstants
<1> QED
  BY <1>3, <1>4

\* A transaction takes the lock of its list and draws a number.
LEMMA BeginKeeps ==
    ASSUME OldestCore, NEW s \in TrxSession, NEW p \in TO!Proc, NEW f \in BOOLEAN, TO!PIBSetTrxBegin0(s, p, f)
    PROVE  OldestCore'
<1>1. /\ toPc[s] = "out" /\ writer[p] = none /\ p >= locked
      /\ UNCHANGED <<toList, stale, cached, crit, call, locked>>
      /\ toNewest' \in 0..trxLast /\ toNewest' % 4 = 0 /\ toNewest <= toNewest'
      /\ trxBegin0' = [trxBegin0 EXCEPT ![s] = trxBegin0'[s]]
      /\ trxBegin0'[s] \in 0..(trxInfinite - 1)
      /\ toNewest + 2 <= trxBegin0'[s] /\ trxBegin0'[s] <= toNewest' + 2
      /\ ppls' = [ppls EXCEPT ![s] = p] /\ writer' = [writer EXCEPT ![p] = s]
      /\ toPc' = [toPc EXCEPT ![s] = "drawn"]
  BY BeginStep
<1>2. OldestTypes
  BY DEF OldestCore
<1>3. /\ \A u \in TrxSession \ {s} : trxBegin0'[u] = trxBegin0[u] /\ ppls'[u] = ppls[u] /\ toPc'[u] = toPc[u]
      /\ ppls'[s] = p /\ toPc'[s] = "drawn"
      /\ writer'[p] = s /\ \A q \in TO!Proc \ {p} : writer'[q] = writer[q]
  BY <1>1, <1>2 DEF OldestTypes
<1>4. OldestTypes'
  <2>1. trxBegin0'[s] \in 0..trxInfinite
    BY <1>1, OldestConstants
  <2> QED
    BY <1>1, <1>2, <2>1 DEF OldestTypes
<1>5. \A q \in TO!Proc : \A i \in 1..Len(toList[q]) : toList[q][i] \in TrxSession \ {s}
  BY <1>1 DEF OldestCore, OldestLists
<1>6. OldestLocks'
  <2>1. ASSUME NEW u \in TrxSession, toPc'[u] \in Locking PROVE writer'[ppls'[u]] = u
    <3>1. CASE u = s
      BY <1>3, <3>1
    <3>2. CASE u # s
      <4>1. toPc[u] \in Locking /\ ppls[u] \in TO!Proc /\ writer[ppls[u]] = u /\ u # none
        BY <1>2, <1>3, <2>1, <3>2, OldestConstants DEF OldestCore, OldestLocks, OldestTypes
      <4>2. ppls[u] # p
        BY <1>1, <4>1
      <4> QED
        BY <1>3, <3>2, <4>1, <4>2
    <3> QED
      BY <3>1, <3>2
  <2>2. ASSUME NEW q \in TO!Proc, writer'[q] # none
        PROVE  /\ writer'[q] \in TrxSession /\ ppls'[writer'[q]] = q
               /\ toPc'[writer'[q]] \in Locking /\ q >= locked'
    <3>1. CASE q = p
      BY <1>1, <1>3, <3>1 DEF Locking
    <3>2. CASE q # p
      <4>1. /\ writer'[q] = writer[q] /\ writer[q] \in TrxSession /\ ppls[writer[q]] = q
            /\ toPc[writer[q]] \in Locking /\ q >= locked
        BY <1>3, <2>2, <3>2 DEF OldestCore, OldestLocks
      <4>2. writer[q] # s
        BY <1>1, <4>1 DEF Locking
      <4> QED
        BY <1>1, <1>3, <4>1, <4>2
    <3> QED
      BY <3>1, <3>2
  <2> QED
    BY <1>1, <2>1, <2>2 DEF OldestCore, OldestLocks
<1>7. OldestLists'
  <2>1. ASSUME NEW q \in TO!Proc, NEW i \in 1..Len(toList[q])
        PROVE  /\ toList[q][i] \in TrxSession /\ ppls'[toList[q][i]] = q
               /\ toPc'[toList[q][i]] \in {"in", "leaving"}
    BY <1>3, <1>5 DEF OldestCore, OldestLists
  <2>2. ASSUME NEW u \in TrxSession, toPc'[u] \in {"in", "leaving"}
        PROVE  \E i \in 1..Len(toList[ppls'[u]]) : toList[ppls'[u]][i] = u
    BY <1>3, <2>2 DEF OldestCore, OldestLists
  <2> QED
    BY <1>1, <2>1, <2>2 DEF OldestCore, OldestLists
<1>n. toNewest \in Nat /\ toNewest' \in Nat /\ trxBegin0'[s] \in Nat /\ \A u \in TrxSession : trxBegin0[u] \in Nat
  BY <1>1, <1>2, OldestConstants DEF OldestTypes
<1>8. OldestNumbers'
  <2>1. ASSUME NEW u \in TrxSession, toPc'[u] # "out" PROVE trxBegin0'[u] <= toNewest' + 2
    <3>1. CASE u = s
      BY <1>1, <3>1
    <3>2. CASE u # s
      <4>1. trxBegin0'[u] = trxBegin0[u] /\ trxBegin0[u] <= toNewest + 2
        BY <1>3, <2>1, <3>2 DEF OldestCore, OldestNumbers
      <4> QED
        BY <1>1, <1>n, <4>1
    <3> QED
      BY <3>1, <3>2
  <2>2. ASSUME NEW q \in TO!Proc, NEW i \in 1..Len(toList[q]), NEW j \in 1..Len(toList[q]), i < j
        PROVE  trxBegin0'[toList[q][i]] <= trxBegin0'[toList[q][j]]
    BY <1>3, <1>5, <2>2 DEF OldestCore, OldestNumbers
  <2>3. ASSUME NEW u \in TrxSession, toPc'[u] \in {"drawn", "listing"}, NEW i \in 1..Len(toList[ppls'[u]])
        PROVE  trxBegin0'[toList[ppls'[u]][i]] <= trxBegin0'[u]
    <3>1. CASE u = s
      <4>1. PICK v \in TrxSession \ {s} : v = toList[p][i]
        BY <1>3, <1>5, <2>3, <3>1
      <4>2. toPc[v] # "out"
        BY <1>3, <2>3, <3>1, <4>1 DEF OldestCore, OldestLists
      <4>3. trxBegin0'[v] = trxBegin0[v] /\ trxBegin0[v] <= toNewest + 2
        BY <1>3, <4>2 DEF OldestCore, OldestNumbers
      <4>4. trxBegin0'[v] <= trxBegin0'[s]
        BY <1>1, <1>n, <4>3
      <4> QED
        BY <1>3, <3>1, <4>1, <4>4
    <3>2. CASE u # s
      <4>1. ppls'[u] = ppls[u] /\ toPc'[u] = toPc[u] /\ trxBegin0'[u] = trxBegin0[u] /\ ppls[u] \in TO!Proc
        BY <1>2, <1>3, <3>2 DEF OldestTypes
      <4>2. toList[ppls[u]][i] \in TrxSession \ {s}
        BY <1>5, <2>3, <4>1
      <4> QED
        BY <1>3, <2>3, <4>1, <4>2 DEF OldestCore, OldestNumbers
    <3> QED
      BY <3>1, <3>2
  <2>4. ASSUME cached # trxInfinite
        PROVE  cached <= toNewest' + 2 /\ \A u \in TrxSession : toPc'[u] # "out" => cached <= trxBegin0'[u]
    <3>1. cached <= toNewest + 2 /\ \A u \in TrxSession : toPc[u] # "out" => cached <= trxBegin0[u]
      BY <2>4 DEF OldestCore, OldestNumbers
    <3>2. cached \in Nat
      BY <1>2, OldestConstants DEF OldestTypes
    <3>3. cached <= toNewest' + 2 /\ cached <= trxBegin0'[s]
      <4>1. toNewest <= toNewest' /\ toNewest + 2 <= trxBegin0'[s] /\ cached <= toNewest + 2
        BY <1>1, <3>1
      <4>2. PICK a \in Nat, b \in Nat, n \in Nat, k \in Nat :
              a = toNewest /\ b = toNewest' /\ n = trxBegin0'[s] /\ k = cached
        BY <1>n, <3>2
      <4>3. a <= b /\ a + 2 <= n /\ k <= a + 2
        BY <4>1, <4>2
      <4>4. k <= b + 2 /\ k <= n
        BY <4>3
      <4> QED
        BY <4>2, <4>4
    <3> QED
      BY <1>3, <3>1, <3>3
  <2> QED
    BY <1>1, <2>1, <2>2, <2>3, <2>4 DEF OldestNumbers
<1>9. TO!Exact' = TO!Exact
  <2>1. PICK x : x = TO!Exact
    OBVIOUS
  <2>2. /\ x \in 0..trxInfinite
        /\ x = trxInfinite \/ \E u \in TrxSession : toPc[u] \in {"in", "leaving"} /\ x = trxBegin0[u]
        /\ \A u \in TrxSession : toPc[u] \in {"in", "leaving"} => x <= trxBegin0[u]
    BY <2>1, ExactIs DEF OldestCore
  <2>3. \A u \in TrxSession : toPc'[u] \in {"in", "leaving"} <=> toPc[u] \in {"in", "leaving"} /\ u # s
    BY <1>1, <1>3
  <2>4. x = trxInfinite \/ \E u \in TrxSession : toPc'[u] \in {"in", "leaving"} /\ x = trxBegin0'[u]
    BY <1>1, <1>3, <2>2, <2>3
  <2>5. \A u \in TrxSession : toPc'[u] \in {"in", "leaving"} => x <= trxBegin0'[u]
    BY <1>3, <2>2, <2>3
  <2>6. TO!Exact' = x
    BY <1>4, <1>7, <2>2, <2>4, <2>5, ExactNext
  <2> QED
    BY <2>1, <2>6
<1>10. TO!Pending' <=> TO!Pending
  BY <1>1 DEF TO!Pending
<1>11. OldestPending'
  <2>1. ASSUME NEW u \in TrxSession, toPc'[u] = "listing", Len(toList[ppls'[u]]) = 0 PROVE TO!Pending
    BY <1>3, <2>1 DEF OldestCore, OldestPending
  <2>2. ASSUME NEW u \in TrxSession, toPc'[u] = "leaving", toList[ppls'[u]][1] = u PROVE TO!Pending
    BY <1>3, <2>2 DEF OldestCore, OldestPending
  <2>3. TO!CacheExact'
    BY <1>1, <1>9, <1>10 DEF OldestCore, OldestPending, TO!CacheExact
  <2> QED
    BY <1>1, <1>10, <2>1, <2>2, <2>3 DEF OldestPending
<1> QED
  BY <1>4, <1>6, <1>7, <1>8, <1>11 DEF OldestCore

\* It raises the flag if its list was empty.
LEMMA StaleKeeps == ASSUME OldestCore, NEW s \in TrxSession, TO!SetStaleForBegin(s) PROVE OldestCore'
<1>1. /\ toPc[s] = "drawn" /\ toPc' = [toPc EXCEPT ![s] = "listing"]
      /\ stale' = (stale \/ toList[ppls[s]] = <<>>)
      /\ UNCHANGED <<toNewest, trxBegin0, ppls, toList, writer, cached, crit, call, locked>>
  BY DEF TO!SetStaleForBegin, TO!caller
<1>2. OldestTypes
  BY DEF OldestCore
<1>3. toPc'[s] = "listing" /\ \A u \in TrxSession \ {s} : toPc'[u] = toPc[u]
  BY <1>1, <1>2 DEF OldestTypes
<1>4. OldestTypes'
  BY <1>1, <1>2 DEF OldestTypes
<1>5. OldestLocks'
  <2>1. \A u \in TrxSession : toPc'[u] \in Locking <=> toPc[u] \in Locking
    BY <1>1, <1>3 DEF Locking
  <2> QED
    BY <1>1, <2>1 DEF OldestCore, OldestLocks
<1>6. OldestLists'
  <2>1. \A u \in TrxSession : toPc'[u] \in {"in", "leaving"} <=> toPc[u] \in {"in", "leaving"}
    BY <1>1, <1>3
  <2> QED
    BY <1>1, <2>1 DEF OldestCore, OldestLists
<1>7. OldestNumbers'
  <2>1. \A u \in TrxSession : /\ toPc'[u] # "out" <=> toPc[u] # "out"
                              /\ toPc'[u] \in {"drawn", "listing"} <=> toPc[u] \in {"drawn", "listing"}
    BY <1>1, <1>3
  <2> QED
    BY <1>1, <2>1 DEF OldestCore, OldestNumbers
<1>8. TO!Pending => TO!Pending'
  BY <1>1 DEF TO!Pending
<1>9. OldestPending'
  <2>1. ASSUME Len(toList[ppls[s]]) = 0 PROVE TO!Pending'
    <3>1. toList[ppls[s]] \in Seq(TrxSession)
      BY <1>2 DEF OldestTypes
    <3>2. toList[ppls[s]] = <<>>
      BY <2>1, <3>1
    <3> QED
      BY <1>1, <3>2 DEF TO!Pending
  <2>2. TO!CacheExact'
    BY <1>1, <1>8, PendingKept
  <2> QED
    BY <1>1, <1>3, <1>8, <2>1, <2>2 DEF OldestCore, OldestPending
<1> QED
  BY <1>4, <1>5, <1>6, <1>7, <1>9 DEF OldestCore

\* A commit draws a number.
LEMMA CommitKeeps == ASSUME OldestCore, TO!DrawCommit0 PROVE OldestCore'
<1>1. /\ toNewest + 4 <= trxLast /\ toNewest' = toNewest + 4
      /\ UNCHANGED <<trxBegin0, ppls, toList, writer, toPc, stale, cached, crit, call, locked>>
  BY DEF TO!DrawCommit0, TO!caller, TO!TRXID_INCR
<1>2. toNewest \in 0..trxLast /\ toNewest % 4 = 0
  BY DEF OldestCore, OldestTypes
<1>3. toNewest' \in 0..trxLast /\ toNewest' % 4 = 0
  BY <1>1, <1>2, OldestConstants
<1>4. OldestTypes'
  BY <1>1, <1>3 DEF OldestCore, OldestTypes
<1>5. OldestLocks' /\ OldestLists'
  BY <1>1 DEF OldestCore, OldestLocks, OldestLists
<1>6. OldestNumbers'
  <2>1. \A n \in Nat : n <= toNewest + 2 => n <= toNewest' + 2
    BY <1>1, <1>2, OldestConstants
  <2>2. cached \in Nat /\ \A u \in TrxSession : trxBegin0[u] \in Nat
    BY OldestConstants DEF OldestCore, OldestTypes
  <2> QED
    BY <1>1, <2>1, <2>2 DEF OldestCore, OldestNumbers
<1>7. TO!Pending' <=> TO!Pending
  BY <1>1 DEF TO!Pending
<1>8. OldestPending'
  <2>1. TO!CacheExact'
    BY <1>1, <1>7, PendingKept
  <2> QED
    BY <1>1, <1>7, <2>1 DEF OldestCore, OldestPending
<1> QED
  BY <1>4, <1>5, <1>6, <1>8 DEF OldestCore

\* A transaction joins its list as the last one.
LEMMA InsertKeeps == ASSUME OldestCore, NEW s \in TrxSession, TO!InsertAsNextMost(s) PROVE OldestCore'
<1>1. /\ toPc[s] = "listing" /\ toPc' = [toPc EXCEPT ![s] = "in"]
      /\ toList' = [toList EXCEPT ![ppls[s]] = Append(@, s)]
      /\ writer' = [writer EXCEPT ![ppls[s]] = none]
      /\ UNCHANGED <<toNewest, trxBegin0, ppls, stale, cached, crit, call, locked>>
  BY OldestConstants DEF TO!InsertAsNextMost, TO!caller
<1>2. OldestTypes
  BY DEF OldestCore
<1>3. PICK p \in TO!Proc : p = ppls[s]
  BY <1>2 DEF OldestTypes
<1>4. PICK l \in Seq(TrxSession) : l = toList[p]
  BY <1>2 DEF OldestTypes
<1>5. PICK m \in Seq(TrxSession) :
        m = Append(l, s) /\ Len(m) = Len(l) + 1 /\ m[Len(l) + 1] = s /\ \A i \in 1..Len(l) : m[i] = l[i]
  <2>1. Append(l, s) \in Seq(TrxSession) /\ Len(Append(l, s)) = Len(l) + 1
        /\ Append(l, s)[Len(l) + 1] = s /\ \A i \in 1..Len(l) : Append(l, s)[i] = l[i]
    OBVIOUS
  <2> QED
    BY <2>1
<1>6. /\ toPc'[s] = "in" /\ \A u \in TrxSession \ {s} : toPc'[u] = toPc[u]
      /\ toList'[p] = m /\ \A q \in TO!Proc \ {p} : toList'[q] = toList[q]
      /\ writer'[p] = none /\ \A q \in TO!Proc \ {p} : writer'[q] = writer[q]
  BY <1>1, <1>2, <1>3, <1>4, <1>5 DEF OldestTypes
<1>7. OldestTypes'
  BY <1>1, <1>2, <1>3, <1>4, <1>5 DEF OldestTypes
<1>8. writer[p] = s /\ s # none
  BY <1>1, <1>3, OldestConstants DEF OldestCore, OldestLocks, Locking
\* Nobody else is about to change the list.
<1>9. \A u \in TrxSession \ {s} : toPc[u] \in Locking => ppls[u] # p
  BY <1>8 DEF OldestCore, OldestLocks
<1>l. Len(l) \in Nat
  BY <1>4
<1>10. OldestLocks'
  <2>1. ASSUME NEW u \in TrxSession, toPc'[u] \in Locking PROVE writer'[ppls[u]] = u
    <3>1. u # s
      BY <1>6, <2>1 DEF Locking
    <3>2. toPc[u] \in Locking /\ ppls[u] # p /\ ppls[u] \in TO!Proc
      BY <1>2, <1>6, <1>9, <2>1, <3>1 DEF OldestTypes
    <3>3. writer[ppls[u]] = u
      BY <3>2 DEF OldestCore, OldestLocks
    <3> QED
      BY <1>6, <3>2, <3>3
  <2>2. ASSUME NEW q \in TO!Proc, writer'[q] # none
        PROVE  /\ writer'[q] \in TrxSession /\ ppls[writer'[q]] = q
               /\ toPc'[writer'[q]] \in Locking /\ q >= locked
    <3>1. q # p /\ writer'[q] = writer[q]
      BY <1>6, <2>2
    <3>2. /\ writer[q] \in TrxSession /\ ppls[writer[q]] = q
          /\ toPc[writer[q]] \in Locking /\ q >= locked
      BY <2>2, <3>1 DEF OldestCore, OldestLocks
    <3>3. writer[q] # s
      BY <1>3, <3>1, <3>2
    <3> QED
      BY <1>6, <3>1, <3>2, <3>3
  <2> QED
    BY <1>1, <2>1, <2>2 DEF OldestCore, OldestLocks
<1>11. \A i \in 1..Len(l) : l[i] \in TrxSession \ {s}
  BY <1>1, <1>4 DEF OldestCore, OldestLists
<1>12. \A i \in 1..Len(m) : i \in 1..Len(l) \/ i = Len(l) + 1
  BY <1>5, <1>l
<1>13. OldestLists'
  <2>1. ASSUME NEW q \in TO!Proc, NEW i \in 1..Len(toList'[q])
        PROVE  /\ toList'[q][i] \in TrxSession /\ ppls[toList'[q][i]] = q
               /\ toPc'[toList'[q][i]] \in {"in", "leaving"}
    <3>1. CASE q # p
      <4>1. /\ toList'[q] = toList[q] /\ toList[q][i] \in TrxSession /\ ppls[toList[q][i]] = q
            /\ toPc[toList[q][i]] \in {"in", "leaving"}
        BY <1>6, <2>1, <3>1 DEF OldestCore, OldestLists
      <4> QED
        BY <1>6, <4>1
    <3>2. CASE q = p /\ i \in 1..Len(l)
      <4>1. toList'[q][i] = l[i] /\ l[i] \in TrxSession \ {s}
        BY <1>5, <1>6, <1>11, <3>2
      <4>2. ppls[l[i]] = p /\ toPc[l[i]] \in {"in", "leaving"}
        BY <1>4, <3>2 DEF OldestCore, OldestLists
      <4> QED
        BY <1>6, <3>2, <4>1, <4>2
    <3>3. CASE q = p /\ i = Len(l) + 1
      BY <1>3, <1>5, <1>6, <3>3
    <3> QED
      BY <1>6, <1>12, <2>1, <3>1, <3>2, <3>3
  <2>2. ASSUME NEW u \in TrxSession, toPc'[u] \in {"in", "leaving"}
        PROVE  \E i \in 1..Len(toList'[ppls[u]]) : toList'[ppls[u]][i] = u
    <3>1. CASE u = s
      <4>1. Len(l) + 1 \in 1..Len(m) /\ m[Len(l) + 1] = u
        BY <1>5, <1>l, <3>1
      <4> QED
        BY <1>3, <1>6, <3>1, <4>1
    <3>2. CASE u # s
      <4>1. PICK i \in 1..Len(toList[ppls[u]]) : toList[ppls[u]][i] = u
        BY <1>6, <2>2, <3>2 DEF OldestCore, OldestLists
      <4>2. CASE ppls[u] = p
        <5>1. i \in 1..Len(l) /\ i \in 1..Len(m) /\ m[i] = u
          BY <1>4, <1>5, <1>l, <4>1, <4>2
        <5> QED
          BY <1>6, <4>2, <5>1
      <4>3. CASE ppls[u] # p
        <5>1. toList'[ppls[u]] = toList[ppls[u]]
          BY <1>2, <1>6, <4>3 DEF OldestTypes
        <5> QED
          BY <4>1, <5>1
      <4> QED
        BY <4>2, <4>3
    <3> QED
      BY <3>1, <3>2
  <2>3. ASSUME NEW q \in TO!Proc, NEW i \in 1..Len(toList'[q]), NEW j \in 1..Len(toList'[q]), toList'[q][i] = toList'[q][j]
        PROVE  i = j
    <3>1. CASE q # p
      BY <1>6, <2>3, <3>1 DEF OldestCore, OldestLists
    <3>2. CASE q = p
      <4>1. i \in 1..Len(m) /\ j \in 1..Len(m) /\ m[i] = m[j]
        BY <1>6, <2>3, <3>2
      <4>2. CASE i \in 1..Len(l) /\ j \in 1..Len(l)
        <5>1. l[i] = l[j]
          BY <1>5, <4>1, <4>2
        <5> QED
          BY <1>4, <4>2, <5>1 DEF OldestCore, OldestLists
      <4>3. CASE i \in 1..Len(l) /\ j = Len(l) + 1
        BY <1>5, <1>11, <4>1, <4>3
      <4>4. CASE j \in 1..Len(l) /\ i = Len(l) + 1
        BY <1>5, <1>11, <4>1, <4>4
      <4> QED
        BY <1>12, <4>1, <4>2, <4>3, <4>4
    <3> QED
      BY <3>1, <3>2
  <2> QED
    BY <1>1, <2>1, <2>2, <2>3 DEF OldestLists
<1>14. \A i \in 1..Len(l) : trxBegin0[l[i]] <= trxBegin0[s]
  BY <1>1, <1>3, <1>4 DEF OldestCore, OldestNumbers
<1>15. OldestNumbers'
  <2>1. \A u \in TrxSession : toPc'[u] # "out" <=> toPc[u] # "out"
    BY <1>1, <1>6
  <2>2. ASSUME NEW q \in TO!Proc, NEW i \in 1..Len(toList'[q]), NEW j \in 1..Len(toList'[q]), i < j
        PROVE  trxBegin0[toList'[q][i]] <= trxBegin0[toList'[q][j]]
    <3>1. CASE q # p
      BY <1>6, <2>2, <3>1 DEF OldestCore, OldestNumbers
    <3>2. CASE q = p
      <4>1. i \in 1..Len(m) /\ j \in 1..Len(m) /\ toList'[q] = m
        BY <1>6, <2>2, <3>2
      <4>2. CASE j \in 1..Len(l)
        <5>1. i \in 1..Len(l) /\ m[i] = l[i] /\ m[j] = l[j]
          BY <1>5, <1>l, <2>2, <4>1, <4>2
        <5>2. trxBegin0[l[i]] <= trxBegin0[l[j]]
          BY <1>4, <2>2, <4>2, <5>1 DEF OldestCore, OldestNumbers
        <5> QED
          BY <4>1, <5>1, <5>2
      <4>3. CASE j = Len(l) + 1
        <5>1. i \in 1..Len(l) /\ m[i] = l[i] /\ m[j] = s
          BY <1>5, <1>l, <2>2, <4>1, <4>3
        <5> QED
          BY <1>14, <4>1, <5>1
      <4> QED
        BY <1>12, <4>1, <4>2, <4>3
    <3> QED
      BY <3>1, <3>2
  <2>3. ASSUME NEW u \in TrxSession, toPc'[u] \in {"drawn", "listing"}, NEW i \in 1..Len(toList'[ppls[u]])
        PROVE  trxBegin0[toList'[ppls[u]][i]] <= trxBegin0[u]
    <3>1. u # s
      BY <1>6, <2>3
    <3>2. toPc[u] \in {"drawn", "listing"} /\ ppls[u] # p /\ ppls[u] \in TO!Proc
      BY <1>2, <1>6, <1>9, <2>3, <3>1 DEF OldestTypes, Locking
    <3>3. toList'[ppls[u]] = toList[ppls[u]]
      BY <1>6, <3>2
    <3> QED
      BY <2>3, <3>2, <3>3 DEF OldestCore, OldestNumbers
  <2> QED
    BY <1>1, <2>1, <2>2, <2>3 DEF OldestCore, OldestNumbers
<1>16. TO!Pending' <=> TO!Pending
  BY <1>1 DEF TO!Pending
<1>17. TO!CacheExact'
  <2>1. CASE Len(l) = 0
    BY <1>1, <1>3, <1>4, <1>16, <2>1 DEF OldestCore, OldestPending, TO!CacheExact
  <2>2. CASE Len(l) # 0
    <3>1. PICK x : x = TO!Exact
      OBVIOUS
    <3>2. /\ x \in 0..trxInfinite
          /\ x = trxInfinite \/ \E u \in TrxSession : toPc[u] \in {"in", "leaving"} /\ x = trxBegin0[u]
          /\ \A u \in TrxSession : toPc[u] \in {"in", "leaving"} => x <= trxBegin0[u]
      BY <3>1, ExactIs DEF OldestCore
    <3>3. 1 \in 1..Len(l)
      BY <1>l, <2>2
    <3>4. l[1] \in TrxSession /\ toPc[l[1]] \in {"in", "leaving"} /\ trxBegin0[l[1]] <= trxBegin0[s]
      BY <1>4, <1>14, <3>3 DEF OldestCore, OldestLists
    <3>5. x <= trxBegin0[s]
      <4>1. x <= trxBegin0[l[1]] /\ trxBegin0[l[1]] \in Nat /\ trxBegin0[s] \in Nat
        BY <1>2, <3>2, <3>4, OldestConstants DEF OldestTypes
      <4> QED
        BY <3>2, <3>4, <4>1, OldestConstants
    <3>6. x = trxInfinite \/ \E u \in TrxSession : toPc'[u] \in {"in", "leaving"} /\ x = trxBegin0'[u]
      BY <1>1, <1>6, <3>2
    <3>7. \A u \in TrxSession : toPc'[u] \in {"in", "leaving"} => x <= trxBegin0'[u]
      BY <1>1, <1>6, <3>2, <3>5
    <3>8. TO!Exact' = x
      BY <1>7, <1>13, <3>2, <3>6, <3>7, ExactNext
    <3> QED
      BY <1>1, <1>16, <3>1, <3>8 DEF OldestCore, OldestPending, TO!CacheExact
  <2> QED
    BY <2>1, <2>2
<1>18. OldestPending'
  <2>1. ASSUME NEW u \in TrxSession, toPc'[u] \in Locking
        PROVE  toPc[u] = toPc'[u] /\ toList'[ppls[u]] = toList[ppls[u]]
    <3>1. u # s
      BY <1>6, <2>1 DEF Locking
    <3> QED
      BY <1>2, <1>6, <1>9, <2>1, <3>1 DEF OldestTypes
  <2>2. ASSUME NEW u \in TrxSession, toPc'[u] = "listing", Len(toList'[ppls[u]]) = 0 PROVE TO!Pending
    BY <2>1, <2>2 DEF OldestCore, OldestPending, Locking
  <2>3. ASSUME NEW u \in TrxSession, toPc'[u] = "leaving", toList'[ppls[u]][1] = u PROVE TO!Pending
    BY <2>1, <2>3 DEF OldestCore, OldestPending, Locking
  <2> QED
    BY <1>1, <1>16, <1>17, <2>2, <2>3 DEF OldestPending
<1> QED
  BY <1>7, <1>10, <1>13, <1>15, <1>18 DEF OldestCore

\* A transaction that is the first of its list raises the flag.
LEMMA ResetKeeps == ASSUME OldestCore, NEW s \in TrxSession, TO!PIBResetTrxBegin0(s) PROVE OldestCore'
<1>1. /\ toPc[s] = "in" /\ toPc' = [toPc EXCEPT ![s] = "leaving"]
      /\ writer[ppls[s]] = none /\ ppls[s] >= locked
      /\ writer' = [writer EXCEPT ![ppls[s]] = s]
      /\ stale' = (stale \/ Head(toList[ppls[s]]) = s)
      /\ UNCHANGED <<toNewest, trxBegin0, ppls, toList, cached, crit, call, locked>>
  BY OldestConstants DEF TO!PIBResetTrxBegin0, TO!Free, TO!caller
<1>2. OldestTypes
  BY DEF OldestCore
<1>3. PICK p \in TO!Proc : p = ppls[s]
  BY <1>2 DEF OldestTypes
<1>4. /\ toPc'[s] = "leaving" /\ \A u \in TrxSession \ {s} : toPc'[u] = toPc[u]
      /\ writer'[p] = s /\ \A q \in TO!Proc \ {p} : writer'[q] = writer[q]
  BY <1>1, <1>2, <1>3 DEF OldestTypes
<1>5. OldestTypes'
  BY <1>1, <1>2, <1>3 DEF OldestTypes
<1>6. OldestLocks'
  <2>1. ASSUME NEW u \in TrxSession, toPc'[u] \in Locking PROVE writer'[ppls[u]] = u
    <3>1. CASE u = s
      BY <1>3, <1>4, <3>1
    <3>2. CASE u # s
      <4>1. writer[ppls[u]] = u /\ ppls[u] \in TO!Proc /\ u # none
        BY <1>2, <1>4, <2>1, <3>2, OldestConstants DEF OldestCore, OldestLocks, OldestTypes
      <4>2. ppls[u] # p
        BY <1>1, <1>3, <4>1
      <4> QED
        BY <1>4, <4>1, <4>2
    <3> QED
      BY <3>1, <3>2
  <2>2. ASSUME NEW q \in TO!Proc, writer'[q] # none
        PROVE  /\ writer'[q] \in TrxSession /\ ppls[writer'[q]] = q
               /\ toPc'[writer'[q]] \in Locking /\ q >= locked
    <3>1. CASE q = p
      BY <1>1, <1>3, <1>4, <3>1 DEF Locking
    <3>2. CASE q # p
      <4>1. /\ writer'[q] = writer[q] /\ writer[q] \in TrxSession /\ ppls[writer[q]] = q
            /\ toPc[writer[q]] \in Locking /\ q >= locked
        BY <1>4, <2>2, <3>2 DEF OldestCore, OldestLocks
      <4>2. writer[q] # s
        BY <1>1, <4>1 DEF Locking
      <4> QED
        BY <1>4, <4>1, <4>2
    <3> QED
      BY <3>1, <3>2
  <2> QED
    BY <1>1, <2>1, <2>2 DEF OldestCore, OldestLocks
<1>7. OldestLists'
  <2>1. \A u \in TrxSession : toPc'[u] \in {"in", "leaving"} <=> toPc[u] \in {"in", "leaving"}
    BY <1>1, <1>4
  <2> QED
    BY <1>1, <2>1 DEF OldestCore, OldestLists
<1>8. OldestNumbers'
  <2>1. \A u \in TrxSession : /\ toPc'[u] # "out" <=> toPc[u] # "out"
                              /\ toPc'[u] \in {"drawn", "listing"} <=> toPc[u] \in {"drawn", "listing"}
    BY <1>1, <1>4
  <2> QED
    BY <1>1, <2>1 DEF OldestCore, OldestNumbers
<1>9. TO!Pending => TO!Pending'
  BY <1>1 DEF TO!Pending
<1>10. OldestPending'
  <2>1. ASSUME toList[ppls[s]][1] = s PROVE TO!Pending'
    <3>1. Head(toList[ppls[s]]) = toList[ppls[s]][1]
      OBVIOUS
    <3> QED
      BY <1>1, <2>1, <3>1 DEF TO!Pending
  <2>2. TO!CacheExact'
    BY <1>1, <1>9, PendingKept
  <2> QED
    BY <1>1, <1>4, <1>9, <2>1, <2>2 DEF OldestCore, OldestPending
<1> QED
  BY <1>5, <1>6, <1>7, <1>8, <1>10 DEF OldestCore

\* A transaction leaves its list.
LEMMA RemoveKeeps == ASSUME OldestCore, NEW s \in TrxSession, TO!RemoveFromList(s) PROVE OldestCore'
<1>1. /\ toPc[s] = "leaving" /\ toPc' = [toPc EXCEPT ![s] = "out"]
      /\ toList' = [toList EXCEPT ![ppls[s]] = TO!Without(@, s)]
      /\ writer' = [writer EXCEPT ![ppls[s]] = none]
      /\ trxBegin0' = [trxBegin0 EXCEPT ![s] = trxInfinite]
      /\ UNCHANGED <<toNewest, ppls, stale, cached, crit, call, locked>>
  BY OldestConstants DEF TO!RemoveFromList, TO!caller
<1>2. OldestTypes
  BY DEF OldestCore
<1>3. PICK p \in TO!Proc : p = ppls[s]
  BY <1>2 DEF OldestTypes
<1>4. PICK l \in Seq(TrxSession) : l = toList[p]
  BY <1>2 DEF OldestTypes
<1>l. Len(l) \in Nat /\ DOMAIN l = 1..Len(l)
  BY <1>4
<1>5. PICK b \in 1..Len(l) : l[b] = s /\ TO!Without(l, s) = SubSeq(l, 1, b - 1) \o SubSeq(l, b + 1, Len(l))
  <2>1. \E i \in DOMAIN l : l[i] = s
    BY <1>1, <1>3, <1>4, <1>l DEF OldestCore, OldestLists
  <2>2. PICK b : b = CHOOSE i \in DOMAIN l : l[i] = s
    OBVIOUS
  <2>3. b \in 1..Len(l) /\ l[b] = s
    BY <1>l, <2>1, <2>2
  <2>4. TO!Without(l, s) = SubSeq(l, 1, b - 1) \o SubSeq(l, b + 1, Len(l))
    BY <2>2 DEF TO!Without
  <2> QED
    BY <2>3, <2>4
<1>6. PICK m : m = SubSeq(l, 1, b - 1) \o SubSeq(l, b + 1, Len(l))
  OBVIOUS
<1>7. m \in Seq(TrxSession) /\ Len(m) = Len(l) - 1
  BY <1>6, OneLess
<1>8. \A c \in 1..(Len(l) - 1) : m[c] = IF c < b THEN l[c] ELSE l[c + 1]
  BY <1>6, OneLess
<1>9. /\ toPc'[s] = "out" /\ \A u \in TrxSession \ {s} : toPc'[u] = toPc[u]
      /\ trxBegin0'[s] = trxInfinite /\ \A u \in TrxSession \ {s} : trxBegin0'[u] = trxBegin0[u]
      /\ toList'[p] = m /\ \A q \in TO!Proc \ {p} : toList'[q] = toList[q]
      /\ writer'[p] = none /\ \A q \in TO!Proc \ {p} : writer'[q] = writer[q]
  BY <1>1, <1>2, <1>3, <1>4, <1>5, <1>6 DEF OldestTypes
<1>10. OldestTypes'
  <2>1. toList' \in [TO!Proc -> Seq(TrxSession)]
    BY <1>1, <1>2, <1>3, <1>4, <1>5, <1>6, <1>7 DEF OldestTypes
  <2>2. trxInfinite \in 0..trxInfinite
    BY OldestConstants
  <2> QED
    BY <1>1, <1>2, <1>3, <2>1, <2>2 DEF OldestTypes
<1>11. writer[p] = s /\ s # none
  BY <1>1, <1>3, OldestConstants DEF OldestCore, OldestLocks, Locking
<1>12. \A u \in TrxSession \ {s} : toPc[u] \in Locking => ppls[u] # p
  BY <1>11 DEF OldestCore, OldestLocks
<1>13. OldestLocks'
  <2>1. ASSUME NEW u \in TrxSession, toPc'[u] \in Locking PROVE writer'[ppls[u]] = u
    <3>1. u # s
      BY <1>9, <2>1 DEF Locking
    <3>2. toPc[u] \in Locking /\ ppls[u] # p /\ ppls[u] \in TO!Proc
      BY <1>2, <1>9, <1>12, <2>1, <3>1 DEF OldestTypes
    <3>3. writer[ppls[u]] = u
      BY <3>2 DEF OldestCore, OldestLocks
    <3> QED
      BY <1>9, <3>2, <3>3
  <2>2. ASSUME NEW q \in TO!Proc, writer'[q] # none
        PROVE  /\ writer'[q] \in TrxSession /\ ppls[writer'[q]] = q
               /\ toPc'[writer'[q]] \in Locking /\ q >= locked
    <3>1. q # p /\ writer'[q] = writer[q]
      BY <1>9, <2>2
    <3>2. /\ writer[q] \in TrxSession /\ ppls[writer[q]] = q
          /\ toPc[writer[q]] \in Locking /\ q >= locked
      BY <2>2, <3>1 DEF OldestCore, OldestLocks
    <3>3. writer[q] # s
      BY <1>3, <3>1, <3>2
    <3> QED
      BY <1>9, <3>1, <3>2, <3>3
  <2> QED
    BY <1>1, <2>1, <2>2 DEF OldestCore, OldestLocks
\* Where the others of the list come from and go to.
<1>14. ASSUME NEW i \in 1..Len(m)
       PROVE  \E o \in 1..Len(l) : m[i] = l[o] /\ o # b /\ o = (IF i < b THEN i ELSE i + 1)
  <2>1. i \in 1..(Len(l) - 1)
    BY <1>7, <1>l
  <2>2. CASE i < b
    <3>1. m[i] = l[i] /\ i \in 1..Len(l) /\ i # b
      BY <1>8, <1>l, <2>1, <2>2
    <3> QED
      BY <2>2, <3>1
  <2>3. CASE ~(i < b)
    <3>1. m[i] = l[i + 1] /\ i + 1 \in 1..Len(l) /\ i + 1 # b
      BY <1>8, <1>l, <2>1, <2>3
    <3> QED
      BY <2>3, <3>1
  <2> QED
    BY <2>2, <2>3
<1>15. ASSUME NEW o \in 1..Len(l), o # b PROVE \E i \in 1..Len(m) : m[i] = l[o]
  <2>1. CASE o < b
    <3>1. o \in 1..(Len(l) - 1) /\ o \in 1..Len(m)
      BY <1>7, <1>l, <2>1
    <3>2. m[o] = l[o]
      BY <1>8, <2>1, <3>1
    <3> QED
      BY <3>1, <3>2
  <2>2. CASE o > b
    <3>1. PICK i : i = o - 1
      OBVIOUS
    <3>2. i \in 1..(Len(l) - 1) /\ i \in 1..Len(m) /\ ~(i < b) /\ i + 1 = o
      BY <1>7, <1>l, <2>2, <3>1
    <3>3. m[i] = l[i + 1]
      BY <1>8, <3>2
    <3> QED
      BY <3>2, <3>3
  <2> QED
    BY <1>15, <1>l, <2>1, <2>2
<1>16. \A o \in 1..Len(l) : l[o] = s => o = b
  BY <1>4, <1>5 DEF OldestCore, OldestLists
<1>17. OldestLists'
  <2>1. ASSUME NEW q \in TO!Proc, NEW i \in 1..Len(toList'[q])
        PROVE  /\ toList'[q][i] \in TrxSession /\ ppls[toList'[q][i]] = q
               /\ toPc'[toList'[q][i]] \in {"in", "leaving"}
    <3>1. CASE q # p
      <4>1. /\ toList'[q] = toList[q] /\ toList[q][i] \in TrxSession /\ ppls[toList[q][i]] = q
            /\ toPc[toList[q][i]] \in {"in", "leaving"}
        BY <1>9, <2>1, <3>1 DEF OldestCore, OldestLists
      <4> QED
        BY <1>3, <1>9, <3>1, <4>1
    <3>2. CASE q = p
      <4>1. PICK o \in 1..Len(l) : m[i] = l[o] /\ o # b
        BY <1>9, <1>14, <2>1, <3>2
      <4>2. l[o] \in TrxSession /\ ppls[l[o]] = p /\ toPc[l[o]] \in {"in", "leaving"} /\ l[o] # s
        BY <1>4, <1>16, <4>1 DEF OldestCore, OldestLists
      <4> QED
        BY <1>9, <3>2, <4>1, <4>2
    <3> QED
      BY <3>1, <3>2
  <2>2. ASSUME NEW u \in TrxSession, toPc'[u] \in {"in", "leaving"}
        PROVE  \E i \in 1..Len(toList'[ppls[u]]) : toList'[ppls[u]][i] = u
    <3>1. u # s
      BY <1>9, <2>2
    <3>2. PICK o \in 1..Len(toList[ppls[u]]) : toList[ppls[u]][o] = u
      BY <1>9, <2>2, <3>1 DEF OldestCore, OldestLists
    <3>3. CASE ppls[u] = p
      <4>1. o \in 1..Len(l) /\ l[o] = u /\ o # b
        BY <1>4, <1>5, <3>1, <3>2, <3>3
      <4>2. PICK i \in 1..Len(m) : m[i] = l[o]
        BY <1>15, <4>1
      <4> QED
        BY <1>9, <3>3, <4>1, <4>2
    <3>4. CASE ppls[u] # p
      <4>1. toList'[ppls[u]] = toList[ppls[u]]
        BY <1>2, <1>9, <3>4 DEF OldestTypes
      <4> QED
        BY <3>2, <4>1
    <3> QED
      BY <3>3, <3>4
  <2>3. ASSUME NEW q \in TO!Proc, NEW i \in 1..Len(toList'[q]), NEW j \in 1..Len(toList'[q]), toList'[q][i] = toList'[q][j]
        PROVE  i = j
    <3>1. CASE q # p
      BY <1>9, <2>3, <3>1 DEF OldestCore, OldestLists
    <3>2. CASE q = p
      <4>1. i \in 1..Len(m) /\ j \in 1..Len(m) /\ m[i] = m[j]
        BY <1>9, <2>3, <3>2
      <4>2. PICK o \in 1..Len(l) : m[i] = l[o] /\ o # b /\ o = (IF i < b THEN i ELSE i + 1)
        BY <1>14, <4>1
      <4>3. PICK k \in 1..Len(l) : m[j] = l[k] /\ k # b /\ k = (IF j < b THEN j ELSE j + 1)
        BY <1>14, <4>1
      <4>4. o = k
        <5>1. l[o] = l[k]
          BY <4>1, <4>2, <4>3
        <5>2. \A x, y \in 1..Len(l) : l[x] = l[y] => x = y
          BY <1>4 DEF OldestCore, OldestLists
        <5> QED
          BY <5>1, <5>2
      <4> QED
        BY <1>7, <1>l, <4>1, <4>2, <4>3, <4>4
    <3> QED
      BY <3>1, <3>2
  <2> QED
    BY <1>1, <2>1, <2>2, <2>3 DEF OldestLists
<1>18. OldestNumbers'
  <2>1. ASSUME NEW u \in TrxSession, toPc'[u] # "out"
        PROVE  u # s /\ toPc[u] # "out" /\ trxBegin0'[u] = trxBegin0[u]
    BY <1>9, <2>1
  <2>2. ASSUME NEW q \in TO!Proc, NEW i \in 1..Len(toList'[q]), NEW j \in 1..Len(toList'[q]), i < j
        PROVE  trxBegin0'[toList'[q][i]] <= trxBegin0'[toList'[q][j]]
    <3>0. trxBegin0'[toList'[q][i]] = trxBegin0[toList'[q][i]] /\ trxBegin0'[toList'[q][j]] = trxBegin0[toList'[q][j]]
      <4>1. /\ toList'[q][i] \in TrxSession /\ toPc'[toList'[q][i]] \in {"in", "leaving"}
            /\ toList'[q][j] \in TrxSession /\ toPc'[toList'[q][j]] \in {"in", "leaving"}
        BY <1>17, <2>2 DEF OldestLists
      <4> QED
        BY <2>1, <4>1
    <3>1. CASE q # p
      <4>1. toList'[q] = toList[q]
        BY <1>9, <3>1
      <4>2. trxBegin0[toList[q][i]] <= trxBegin0[toList[q][j]]
        BY <2>2, <4>1 DEF OldestCore, OldestNumbers
      <4> QED
        BY <3>0, <4>1, <4>2
    <3>2. CASE q = p
      <4>1. i \in 1..Len(m) /\ j \in 1..Len(m) /\ toList'[q] = m
        BY <1>9, <2>2, <3>2
      <4>2. PICK o \in 1..Len(l) : m[i] = l[o] /\ o # b /\ o = (IF i < b THEN i ELSE i + 1)
        BY <1>14, <4>1
      <4>3. PICK k \in 1..Len(l) : m[j] = l[k] /\ k # b /\ k = (IF j < b THEN j ELSE j + 1)
        BY <1>14, <4>1
      <4>4. o < k
        BY <1>7, <1>l, <2>2, <4>1, <4>2, <4>3
      <4>5. trxBegin0[l[o]] <= trxBegin0[l[k]]
        BY <1>4, <4>4 DEF OldestCore, OldestNumbers
      <4> QED
        BY <3>0, <4>1, <4>2, <4>3, <4>5
    <3> QED
      BY <3>1, <3>2
  <2>3. ASSUME NEW u \in TrxSession, toPc'[u] \in {"drawn", "listing"}, NEW i \in 1..Len(toList'[ppls[u]])
        PROVE  trxBegin0'[toList'[ppls[u]][i]] <= trxBegin0'[u]
    <3>1. u # s /\ trxBegin0'[u] = trxBegin0[u] /\ toPc[u] = toPc'[u]
      BY <1>9, <2>3
    <3>2. ppls[u] # p /\ ppls[u] \in TO!Proc
      BY <1>2, <1>12, <2>3, <3>1 DEF OldestTypes, Locking
    <3>3. toList'[ppls[u]] = toList[ppls[u]]
      BY <1>9, <3>2
    <3>4. toList[ppls[u]][i] \in TrxSession /\ ppls[toList[ppls[u]][i]] = ppls[u]
      BY <2>3, <3>2, <3>3 DEF OldestCore, OldestLists
    <3>5. trxBegin0'[toList[ppls[u]][i]] = trxBegin0[toList[ppls[u]][i]]
      BY <1>3, <1>9, <3>2, <3>4
    <3>6. trxBegin0[toList[ppls[u]][i]] <= trxBegin0[u]
      BY <2>3, <3>1, <3>3 DEF OldestCore, OldestNumbers
    <3> QED
      BY <3>1, <3>3, <3>5, <3>6
  <2>4. \A u \in TrxSession : toPc'[u] # "out" => trxBegin0'[u] <= toNewest + 2
    BY <2>1 DEF OldestCore, OldestNumbers
  <2>5. cached # trxInfinite =>
          cached <= toNewest + 2 /\ \A u \in TrxSession : toPc'[u] # "out" => cached <= trxBegin0'[u]
    BY <2>1 DEF OldestCore, OldestNumbers
  <2> QED
    BY <1>1, <2>2, <2>3, <2>4, <2>5 DEF OldestNumbers
<1>19. TO!Pending' <=> TO!Pending
  BY <1>1 DEF TO!Pending
<1>20. TO!CacheExact'
  <2>1. CASE b = 1
    BY <1>1, <1>3, <1>4, <1>5, <1>19, <2>1 DEF OldestCore, OldestPending, TO!CacheExact
  <2>2. CASE b # 1
    <3>1. PICK x : x = TO!Exact
      OBVIOUS
    <3>2. /\ x \in 0..trxInfinite
          /\ x = trxInfinite \/ \E u \in TrxSession : toPc[u] \in {"in", "leaving"} /\ x = trxBegin0[u]
          /\ \A u \in TrxSession : toPc[u] \in {"in", "leaving"} => x <= trxBegin0[u]
      BY <3>1, ExactIs DEF OldestCore
    <3>3. 1 \in 1..Len(l) /\ 1 < b
      BY <1>l, <1>5, <2>2
    <3>4. PICK h \in TrxSession : h = l[1] /\ toPc[h] \in {"in", "leaving"} /\ h # s
      BY <1>4, <1>16, <3>3 DEF OldestCore, OldestLists
    <3>5. trxBegin0[h] <= trxBegin0[s]
      BY <1>4, <1>5, <3>3, <3>4 DEF OldestCore, OldestNumbers
    <3>6. toPc'[h] \in {"in", "leaving"} /\ trxBegin0'[h] = trxBegin0[h]
      BY <1>9, <3>4
    <3>7. x = trxInfinite \/ \E u \in TrxSession : toPc'[u] \in {"in", "leaving"} /\ x = trxBegin0'[u]
      <4>1. SUFFICES ASSUME x # trxInfinite PROVE \E u \in TrxSession : toPc'[u] \in {"in", "leaving"} /\ x = trxBegin0'[u]
        OBVIOUS
      <4>2. PICK u \in TrxSession : toPc[u] \in {"in", "leaving"} /\ x = trxBegin0[u]
        BY <3>2, <4>1
      <4>3. CASE u # s
        BY <1>9, <4>2, <4>3
      <4>4. CASE u = s
        <5>1. x <= trxBegin0[h] /\ trxBegin0[h] \in Nat /\ x \in Nat
          <6>1. x <= trxBegin0[h]
            BY <3>2, <3>4
          <6>2. trxBegin0[h] \in 0..trxInfinite
            BY <1>2 DEF OldestTypes
          <6> QED
            BY <3>2, <6>1, <6>2, OldestConstants
        <5>2. x = trxBegin0[h]
          BY <3>5, <4>2, <4>4, <5>1
        <5> QED
          BY <3>6, <5>2
      <4> QED
        BY <4>3, <4>4
    <3>8. \A u \in TrxSession : toPc'[u] \in {"in", "leaving"} => x <= trxBegin0'[u]
      BY <1>9, <3>2
    <3>9. TO!Exact' = x
      BY <1>10, <1>17, <3>2, <3>7, <3>8, ExactNext
    <3> QED
      BY <1>1, <1>19, <3>1, <3>9 DEF OldestCore, OldestPending, TO!CacheExact
  <2> QED
    BY <2>1, <2>2
<1>21. OldestPending'
  <2>1. ASSUME NEW u \in TrxSession, toPc'[u] \in Locking
        PROVE  toPc[u] = toPc'[u] /\ toList'[ppls[u]] = toList[ppls[u]]
    <3>1. u # s
      BY <1>9, <2>1 DEF Locking
    <3> QED
      BY <1>2, <1>9, <1>12, <2>1, <3>1 DEF OldestTypes
  <2>2. ASSUME NEW u \in TrxSession, toPc'[u] = "listing", Len(toList'[ppls[u]]) = 0 PROVE TO!Pending
    BY <2>1, <2>2 DEF OldestCore, OldestPending, Locking
  <2>3. ASSUME NEW u \in TrxSession, toPc'[u] = "leaving", toList'[ppls[u]][1] = u PROVE TO!Pending
    BY <2>1, <2>3 DEF OldestCore, OldestPending, Locking
  <2> QED
    BY <1>1, <1>19, <1>20, <2>2, <2>3 DEF OldestPending
<1> QED
  BY <1>10, <1>13, <1>17, <1>18, <1>21 DEF OldestCore

-----------------------------------------------------------------------------
(* The invariant *)

\* Who may return the value of the cache has seen it, or it is exact.
ReadStep == \A c \in Caller : call'[c] = "read" =>
    call[c] # "idle" /\ (cached' = TO!Exact' \/ (call[c] = "read" /\ cached' = cached))

\* Sessions change nothing of what callers have read.
LEMMA SessionReads ==
    ASSUME OldestCore, UNCHANGED TO!caller
    PROVE  ReadStep
BY DEF ReadStep, TO!caller

\* A caller comes to its read with an exact cache.
LEMMA CallerReads ==
    ASSUME OldestCore, NEW c \in Caller, TO!CallerStep(c)
    PROVE  ReadStep
<1>1. CASE TO!UpdateCachedTrxOldest(c)
  BY <1>1 DEF OldestCore, OldestTypes, TO!UpdateCachedTrxOldest, ReadStep
<1>2. CASE TO!FTrxOldestCachedMayBeStale(c)
  <2>1. /\ call[c] = "enter" /\ call' = [call EXCEPT ![c] = IF stale THEN "lock" ELSE "read"]
        /\ UNCHANGED <<trxBegin0, toList, cached>>
    BY <1>2 DEF TO!FTrxOldestCachedMayBeStale, TO!session
  <2>2. call'[c] = (IF stale THEN "lock" ELSE "read") /\ \A e \in Caller \ {c} : call'[e] = call[e]
    BY <2>1 DEF OldestCore, OldestTypes
  <2>3. ASSUME ~stale PROVE cached' = TO!Exact'
    <3>1. crit = c /\ \A e \in Caller : call[e] # "lock"
      BY <2>1 DEF OldestCore, OldestLocks
    <3>2. ~TO!Pending
      BY <2>3, <3>1 DEF TO!Pending
    <3>3. cached = TO!Exact
      BY <3>2 DEF OldestCore, OldestPending, TO!CacheExact
    <3>4. TO!Exact' = TO!Exact
      BY <2>1, SameExact
    <3> QED
      BY <2>1, <3>3, <3>4
  <2> QED
    BY <2>1, <2>2, <2>3 DEF ReadStep
<1>3. CASE TO!EnterAsReader(c)
  BY <1>3 DEF TO!EnterAsReader, ReadStep
<1>4. CASE TO!SetTrxOldestCached(c)
  <2>1. cached' = TO!Exact'
    BY <1>4, SetKeeps
  <2>2. \A e \in Caller : call'[e] = "read" => call[e] # "idle"
    BY <1>4 DEF OldestCore, OldestTypes, TO!SetTrxOldestCached
  <2> QED
    BY <2>1, <2>2 DEF ReadStep
<1>5. CASE TO!TrxOldestCached(c)
  BY <1>5 DEF OldestCore, OldestTypes, TO!TrxOldestCached, ReadStep
<1> QED
  BY <1>1, <1>2, <1>3, <1>4, <1>5 DEF TO!CallerStep

\* Every step keeps the invariant, and a read returns what was right.
LEMMA OldestStep ==
    ASSUME OldestCore, TO!Next
    PROVE  OldestCore' /\ ReadStep
<1>1. ASSUME NEW s \in TrxSession, TO!SessionStep(s) PROVE OldestCore' /\ ReadStep
  <2>1. ASSUME NEW p \in TO!Proc, NEW f \in BOOLEAN, TO!PIBSetTrxBegin0(s, p, f) PROVE OldestCore' /\ ReadStep
    <3>1. UNCHANGED TO!caller
      BY <2>1 DEF TO!PIBSetTrxBegin0
    <3> QED
      BY <2>1, <3>1, BeginKeeps, SessionReads
  <2>2. CASE TO!SetStaleForBegin(s)
    <3>1. UNCHANGED TO!caller
      BY <2>2 DEF TO!SetStaleForBegin
    <3> QED
      BY <2>2, <3>1, StaleKeeps, SessionReads
  <2>3. CASE TO!InsertAsNextMost(s)
    <3>1. UNCHANGED TO!caller
      BY <2>3 DEF TO!InsertAsNextMost
    <3> QED
      BY <2>3, <3>1, InsertKeeps, SessionReads
  <2>4. CASE TO!PIBResetTrxBegin0(s)
    <3>1. UNCHANGED TO!caller
      BY <2>4 DEF TO!PIBResetTrxBegin0
    <3> QED
      BY <2>4, <3>1, ResetKeeps, SessionReads
  <2>5. CASE TO!RemoveFromList(s)
    <3>1. UNCHANGED TO!caller
      BY <2>5 DEF TO!RemoveFromList
    <3> QED
      BY <2>5, <3>1, RemoveKeeps, SessionReads
  <2> QED
    BY <1>1, <2>1, <2>2, <2>3, <2>4, <2>5 DEF TO!SessionStep
<1>2. CASE TO!DrawCommit0
  <2>1. UNCHANGED TO!caller
    BY <1>2 DEF TO!DrawCommit0
  <2> QED
    BY <1>2, <2>1, CommitKeeps, SessionReads
<1>3. ASSUME NEW c \in Caller, TO!CallerStep(c) PROVE OldestCore' /\ ReadStep
  <2>1. ReadStep
    BY <1>3, CallerReads
  <2>2. OldestCore'
    BY <1>3, UpdateKeeps, TestKeeps, EnterKeeps, SetKeeps, ReadKeeps DEF TO!CallerStep
  <2> QED
    BY <2>1, <2>2
<1> QED
  BY <1>1, <1>2, <1>3 DEF TO!Next

\* Every step keeps the invariant with what the callers have seen.
LEMMA SeenKept == ASSUME OldestInv, TO!Next PROVE OldestInv'
<1>1. OldestCore' /\ ReadStep
  BY OldestStep DEF OldestInv
<1>2. ExactFact /\ ExactFact'
  <2>1. ExactFact
    BY ExactIs DEF ExactFact, OldestInv, OldestCore
  <2>2. OldestTypes' /\ OldestLists'
    BY <1>1 DEF OldestCore
  <2>3. ExactFact'
    BY <2>2, ExactNow, PTL
  <2> QED
    BY <2>1, <2>3
<1>3. PICK e, f : e = TO!Exact /\ f = TO!Exact' /\ e \in 0..trxInfinite /\ f \in 0..trxInfinite
  BY <1>2 DEF ExactFact
<1>4. seen' = [c \in Caller |->
        CASE call'[c] = "idle" -> {}
          [] call[c] = "idle" /\ call'[c] # "idle" -> {e}
          [] OTHER -> seen[c] \cup {f}]
  BY <1>3 DEF TO!Next, TO!Observe
<1>5. ASSUME NEW c \in Caller
      PROVE  /\ seen'[c] \in SUBSET (0..trxInfinite)
             /\ call'[c] = "read" => cached' \in seen'[c]
  <2>1. CASE call'[c] = "idle"
    BY <1>4, <2>1
  <2>2. CASE call[c] = "idle" /\ call'[c] # "idle"
    <3>1. seen'[c] = {e}
      BY <1>4, <2>2
    <3> QED
      BY <1>1, <1>3, <2>2, <3>1 DEF ReadStep
  <2>3. CASE call[c] # "idle" /\ call'[c] # "idle"
    <3>1. seen'[c] = seen[c] \cup {f}
      BY <1>4, <2>3
    <3>2. seen[c] \in SUBSET (0..trxInfinite) /\ (call[c] = "read" => cached \in seen[c])
      BY DEF OldestInv, OldestSeen
    <3> QED
      BY <1>1, <1>3, <3>1, <3>2 DEF ReadStep
  <2> QED
    BY <2>1, <2>2, <2>3
<1>6. seen' \in [Caller -> SUBSET (0..trxInfinite)]
  BY <1>4, <1>5
<1>7. OldestSeen'
  BY <1>5, <1>6 DEF OldestSeen
<1> QED
  BY <1>1, <1>7 DEF OldestInv

\* The invariant holds initially.
LEMMA OldestInit == TO!Init => OldestInv
<1>1. SUFFICES ASSUME TO!Init PROVE OldestInv
  OBVIOUS
<1>2. 0 \in TO!Proc /\ 0 \in 0..trxLast /\ 0 % 4 = 0 /\ 0 \in 0..cProcs /\ trxInfinite \in 0..trxInfinite
  BY OldestConstants
<1>3. OldestTypes
  BY <1>1, <1>2, OldestConstants DEF TO!Init, OldestTypes
<1>4. OldestLocks
  BY <1>1, OldestConstants DEF TO!Init, OldestLocks, Locking
<1>5. \A p \in TO!Proc : Len(toList[p]) = 0
  BY <1>1 DEF TO!Init
<1>6. OldestLists
  BY <1>1, <1>5 DEF TO!Init, OldestLists
<1>7. OldestNumbers
  BY <1>1, <1>5 DEF TO!Init, OldestNumbers
<1>8. OldestPending
  BY <1>1 DEF TO!Init, OldestPending, TO!CacheExact, TO!Pending
<1>9. OldestSeen
  BY <1>1 DEF TO!Init, OldestSeen
<1> QED
  BY <1>3, <1>4, <1>6, <1>7, <1>8, <1>9 DEF OldestInv, OldestCore

\* A step of another scenario keeps the invariant.
LEMMA OldestStutter == OldestInv /\ UNCHANGED to => OldestInv'
<1>1. SUFFICES ASSUME OldestInv, UNCHANGED to PROVE OldestInv'
  OBVIOUS
<1>2. OldestTypes' /\ OldestLocks' /\ OldestLists' /\ OldestNumbers' /\ OldestSeen'
  BY <1>1 DEF to, OldestInv, OldestCore, OldestTypes, OldestLocks, OldestLists, OldestNumbers, OldestSeen
<1>3. TO!Exact' = TO!Exact
  BY <1>1, SameExact DEF to
<1>4. OldestPending'
  BY <1>1, <1>3 DEF to, OldestInv, OldestCore, OldestPending, TO!CacheExact, TO!Pending
<1> QED
  BY <1>2, <1>4 DEF OldestInv, OldestCore

\* Every step of MCTransactions is one of TrxOldest or leaves its state alone.
LEMMA OldestSteps == [MCNext]_mcvars => TO!Next \/ UNCHANGED to
BY DEF MCNext, mcvars, OnBuckets

\* The invariant that the next two theorems rest on: who owns which lock, which list
\* a session is in, how numbers are ordered, that an update follows when the first
\* of a list changes, and what a caller has seen.
THEOREM OldestInvariant == MCSpec => []OldestInv
<1>1. MCInit => OldestInv
  BY OldestInit DEF MCInit
<1>2. OldestInv /\ [MCNext]_mcvars => OldestInv'
  BY OldestSteps, SeenKept, OldestStutter
<1> QED
  BY <1>1, <1>2, PTL DEF MCSpec

\* The cached oldest transaction is never ahead of a listed one, each list is in the
\* order of its numbers, and with the flag down and no update under way the cache is
\* exact, for any number of sessions, callers and processors.
THEOREM OldestAlwaysSound == MCSpec => []OldestSound
<1>1. OldestInv => OldestSound
  <2>1. SUFFICES ASSUME OldestInv PROVE TO!TypeOK /\ TO!CacheNotAhead /\ TO!ListsOrdered /\ TO!CacheExact
    BY DEF OldestSound
  <2>2. TO!TypeOK
    BY <2>1, OldestConstants DEF OldestInv, OldestCore, OldestTypes, OldestSeen, TO!TypeOK, TO!TRXID_INCR
  <2>3. TO!CacheNotAhead
    <3>1. TO!Listed = {s \in TrxSession : toPc[s] \in {"in", "leaving"}}
      BY <2>1, ListedIs DEF OldestInv, OldestCore
    <3> QED
      BY <2>1, <3>1 DEF OldestInv, OldestCore, OldestNumbers, TO!CacheNotAhead
  <2>4. TO!ListsOrdered
    <3>1. \A p \in TO!Proc : DOMAIN toList[p] = 1..Len(toList[p])
      BY <2>1 DEF OldestInv, OldestCore, OldestTypes
    <3> QED
      BY <2>1, <3>1 DEF OldestInv, OldestCore, OldestNumbers, TO!ListsOrdered
  <2> QED
    BY <2>1, <2>2, <2>3, <2>4 DEF OldestInv, OldestCore, OldestPending
<1> QED
  BY <1>1, OldestInvariant, PTL

\* TrxOldest is linearizable: what a call returns was the oldest open transaction at
\* some moment between its start and its end.
THEOREM OldestReturned == MCSpec => ReturnsOldest
<1>1. OldestInv /\ [MCNext]_mcvars
        => [\A c \in Caller : call[c] = "read" /\ call'[c] = "idle" => cached \in seen[c]]_(TO!vars)
  BY DEF OldestInv, OldestSeen
<1> QED
  BY <1>1, OldestInvariant, PTL DEF MCSpec, ReturnsOldest, TO!ReturnsOldest

-----------------------------------------------------------------------------
(* Numbers that wrap around *)

\* A number is its word and a multiple of the range.
LEMMA WordParts ==
    ASSUME NEW N \in Nat \ {0}, NEW n \in Int
    PROVE  n % N \in 0..(N - 1) /\ \E q \in Int : n = N * q + (n % N)
<1>1. n = N * (n \div N) + (n % N) /\ n % N \in 0..(N - 1)
  OBVIOUS
<1>2. n \div N \in Int
  OBVIOUS
<1> QED
  BY <1>1, <1>2

\* A multiple of N that is smaller than N is zero.
LEMMA SmallMultiple ==
    ASSUME NEW N \in Nat \ {0}, NEW e \in Int, NEW k \in Int, e = N * k, e < N, -e < N
    PROVE  e = 0
<1>1. CASE k >= 1
  <2>1. N * k >= N
    BY <1>1
  <2> QED
    BY <2>1
<1>2. CASE k <= -1
  <2>1. N * k <= -N
    BY <1>2
  <2> QED
    BY <2>1
<1> QED
  BY <1>1, <1>2

\* (LONG)x of a word of 2 * H values.
Signed(x, H) == IF x >= H THEN x - 2 * H ELSE x

\* A word read as signed differs from the counter by a multiple of the range.
LEMMA SignedWord ==
    ASSUME NEW H \in Nat \ {0}, NEW n \in Int
    PROVE  \E a \in Int : /\ a = Signed(n % (2 * H), H) /\ -H <= a /\ a < H
                          /\ \E q \in Int : a = n + (2 * H) * q
<1>1. PICK N \in Nat \ {0} : N = 2 * H
  OBVIOUS
<1>w. n % N \in 0..(N - 1) /\ \E q \in Int : n = N * q + (n % N)
  BY WordParts
<1>2. PICK x \in Int : x = n % N
  BY <1>w
<1>3. PICK q \in Int : n = N * q + x
  BY <1>w, <1>2
<1>r. 0 <= x /\ x < N
  BY <1>w, <1>2
<1>e. Signed(n % (2 * H), H) = Signed(x, H)
  BY <1>1, <1>2
<1>4. CASE x >= H
  <2>1. PICK a \in Int : a = x - N
    OBVIOUS
  <2>2. a = n + N * (-q - 1)
    BY <1>r, <1>3, <2>1
  <2>3. -q - 1 \in Int /\ -H <= a /\ a < H
    BY <1>1, <1>r, <1>4, <2>1
  <2>4. a = Signed(x, H)
    BY <1>1, <1>4, <2>1 DEF Signed
  <2> QED
    BY <1>1, <1>e, <2>2, <2>3, <2>4
<1>5. CASE ~(x >= H)
  <2>2. x = n + N * (-q)
    BY <1>r, <1>3
  <2>3. -q \in Int /\ -H <= x /\ x < H
    BY <1>1, <1>r, <1>5
  <2>4. x = Signed(x, H)
    BY <1>5 DEF Signed
  <2> QED
    BY <1>1, <1>e, <2>2, <2>3, <2>4
<1> QED
  BY <1>4, <1>5

\* The signed difference of two words is the difference of the counters as long as
\* they are less than half the range apart.
LEMMA SignedDifference ==
    ASSUME NEW H \in Nat \ {0}, NEW m \in Int, NEW n \in Int, m - n < H, n - m < H
    PROVE  Signed((Signed(m % (2 * H), H) - Signed(n % (2 * H), H)) % (2 * H), H) = m - n
<1>1. PICK N \in Nat \ {0} : N = 2 * H
  OBVIOUS
<1>a. PICK a \in Int : /\ a = Signed(m % (2 * H), H) /\ -H <= a /\ a < H
                       /\ \E q \in Int : a = m + (2 * H) * q
  BY SignedWord
<1>b. PICK b \in Int : /\ b = Signed(n % (2 * H), H) /\ -H <= b /\ b < H
                       /\ \E q \in Int : b = n + (2 * H) * q
  BY SignedWord
<1>c. PICK c \in Int : c = a - b
  BY <1>a, <1>b
<1>r. PICK r \in Int : /\ r = Signed(c % (2 * H), H) /\ -H <= r /\ r < H
                       /\ \E q \in Int : r = c + (2 * H) * q
  BY SignedWord
<1>2. PICK p \in Int : a = m + N * p
  BY <1>a, <1>1
<1>3. PICK q \in Int : b = n + N * q
  BY <1>b, <1>1
<1>4. PICK s \in Int : r = c + N * s
  BY <1>r, <1>1
<1>6. PICK f \in Int, k \in Int : f = r - (m - n) /\ k = (p - q) + s
  OBVIOUS
<1>7. f = N * k
  <2>1. PICK u \in Int, v \in Int, w \in Int : u = N * p /\ v = N * q /\ w = N * s
    OBVIOUS
  <2>2. f = (u - v) + w
    BY <1>c, <1>2, <1>3, <1>4, <1>6, <2>1
  <2>3. (N * p - N * q) + N * s = N * ((p - q) + s)
    OBVIOUS
  <2> QED
    BY <2>1, <2>2, <2>3, <1>6
<1>8. f < N /\ -f < N
  BY <1>1, <1>r, <1>6
<1>9. f = 0
  BY <1>7, <1>8, SmallMultiple
<1>10. r = m - n
  BY <1>6, <1>9
<1>11. r = Signed((Signed(m % (2 * H), H) - Signed(n % (2 * H), H)) % (2 * H), H)
  BY <1>a, <1>b, <1>c, <1>r
<1> QED
  BY <1>10, <1>11

\* Two counters less than half the range apart have different words.
LEMMA DifferentWords ==
    ASSUME NEW H \in Nat \ {0}, NEW m \in Int, NEW n \in Int, m - n < H, n - m < H, m % (2 * H) = n % (2 * H)
    PROVE  m = n
<1>1. PICK N \in Nat \ {0} : N = 2 * H
  OBVIOUS
<1>2. m % N \in 0..(N - 1) /\ \E q \in Int : m = N * q + (m % N)
  BY WordParts
<1>3. n % N \in 0..(N - 1) /\ \E q \in Int : n = N * q + (n % N)
  BY WordParts
<1>4. PICK p \in Int : m = N * p + (m % N)
  BY <1>2
<1>5. PICK q \in Int : n = N * q + (n % N)
  BY <1>3
<1>6. PICK x \in Int : x = m % N /\ x = n % N
  BY <1>1, <1>2
<1>7. PICK e \in Int, k \in Int : e = m - n /\ k = p - q
  OBVIOUS
<1>8. e = N * k
  <2>1. m = N * p + x /\ n = N * q + x
    BY <1>4, <1>5, <1>6
  <2>2. N * p - N * q = N * (p - q)
    OBVIOUS
  <2>3. PICK u \in Int, v \in Int : u = N * p /\ v = N * q
    OBVIOUS
  <2>4. e = u - v
    BY <1>7, <2>1, <2>3
  <2> QED
    BY <1>7, <2>2, <2>3, <2>4
<1>9. e < N /\ -e < N
  BY <1>1, <1>7
<1>10. e = 0
  BY <1>8, <1>9, SmallMultiple
<1> QED
  BY <1>7, <1>10

\* A word is odd or even as its counter is.
LEMMA Parity == ASSUME NEW H \in Nat \ {0}, NEW n \in Nat PROVE (n % (2 * H)) % 2 = n % 2
<1>1. PICK N \in Nat \ {0} : N = 2 * H
  OBVIOUS
<1>i. n \in Int
  OBVIOUS
<1>2. n % N \in 0..(N - 1) /\ \E q \in Int : n = N * q + (n % N)
  BY <1>i, WordParts, Zenon
<1>3. PICK q \in Int : n = N * q + (n % N)
  BY <1>2
<1>4. PICK x \in Nat, k \in Int : x = n % N /\ k = H * q
  BY <1>2
<1>5. n = 2 * k + x
  <2>1. N * q = 2 * (H * q)
    BY <1>1
  <2> QED
    BY <1>3, <1>4, <2>1
<1>6. n % 2 = x % 2
  BY <1>5
<1> QED
  BY <1>1, <1>4, <1>6

-----------------------------------------------------------------------------
(* Numbers of transactions *)

\* The counters in use are even, none is above the newest by more than a read-only
\* transaction, and any two are less than half the range apart.
TrxInv ==
    /\ tnNewest \in Nat /\ tnNewest % 4 = 0
    /\ live \in SUBSET Nat
    /\ \A n \in live : n % 2 = 0 /\ n <= tnNewest + 2
    /\ \A m, n \in live : m - n < trxHalf

\* The word of an even counter is neither trxMax nor trxPrecommit.
LEMMA TrxWord ==
    ASSUME NEW n \in Nat, n % 2 = 0
    PROVE  TN!Word(n) \in Nat /\ TN!Word(n) # TN!trxMax /\ TN!Word(n) # TN!trxPrecommit
<1>1. trxHalf \in Nat \ {0}
  BY TransactionsAssumption
<1>2. (n % (2 * trxHalf)) % 2 = n % 2
  BY <1>1, Parity, Zenon
<1>3. PICK N \in Nat \ {0} : N = 2 * trxHalf
  BY <1>1
<1>4. n % N \in 0..(N - 1)
  BY WordParts
<1>5. PICK x \in Nat : x = n % N
  BY <1>4
<1>6. x % 2 = 0
  BY <1>2, <1>3, <1>5
<1>7. x = TN!Word(n)
  BY <1>3, <1>5 DEF TN!Word
<1>8. x # 2 * trxHalf - 1 /\ x # (2 * trxHalf - 1) - 16
  BY <1>1, <1>6
<1> QED
  BY <1>7, <1>8 DEF TN!trxMax, TN!trxPrecommit

\* TrxCmp of the words of two numbers in use is the difference of their counters.
LEMMA TrxCmpIs ==
    ASSUME NEW m \in Nat, NEW n \in Nat, m % 2 = 0, n % 2 = 0, m - n < trxHalf, n - m < trxHalf
    PROVE  TN!TrxCmp(TN!Word(m), TN!Word(n)) = m - n
<1>1. trxHalf \in Nat \ {0}
  BY TransactionsAssumption
<1>i. m \in Int /\ n \in Int
  OBVIOUS
<1>2. TN!Word(m) # TN!trxMax /\ TN!Word(n) # TN!trxMax
  BY TrxWord
<1>3. CASE TN!Word(m) = TN!Word(n)
  <2>1. m % (2 * trxHalf) = n % (2 * trxHalf)
    BY <1>3 DEF TN!Word
  <2>2. m = n
    BY <1>1, <1>i, <2>1, DifferentWords, Zenon
  <2>3. TN!TrxCmp(TN!Word(m), TN!Word(n)) = 0
    BY <1>3, Zenon DEF TN!TrxCmp
  <2> QED
    BY <2>2, <2>3
<1>4. CASE TN!Word(m) # TN!Word(n)
  <2>1. TN!TrxCmp(TN!Word(m), TN!Word(n)) = TN!Difference(TN!Word(m), TN!Word(n))
    BY <1>2, <1>4, Zenon DEF TN!TrxCmp
  <2>2. Signed((Signed(m % (2 * trxHalf), trxHalf) - Signed(n % (2 * trxHalf), trxHalf)) % (2 * trxHalf), trxHalf) = m - n
    BY <1>1, <1>i, SignedDifference, Zenon
  <2>3. TN!Difference(TN!Word(m), TN!Word(n)) = m - n
    BY <2>2, Zenon DEF TN!Difference, TN!Long, TN!Word, Signed
  <2> QED
    BY <2>1, <2>3
<1> QED
  BY <1>3, <1>4

\* The invariant gives the order of the numbers and that none is special.
LEMMA TrxInvImplies == ASSUME TrxInv PROVE TN!TrxOrder /\ TN!NeverSpecial
<1>1. \A n \in live : n \in Nat /\ n % 2 = 0
  BY DEF TrxInv
<1>2. \A n \in live : TN!Word(n) # TN!trxMax /\ TN!Word(n) # TN!trxPrecommit
  BY <1>1, TrxWord
<1>3. TN!NeverSpecial
  BY <1>2 DEF TN!NeverSpecial
<1>4. ASSUME NEW m \in live, NEW n \in live
      PROVE  /\ TN!Sign(TN!TrxCmp(TN!Word(m), TN!Word(n))) = TN!Sign(m - n)
             /\ TN!TrxCmp(TN!Word(n), TN!trxMax) < 0 /\ TN!TrxCmp(TN!trxMax, TN!Word(n)) > 0
  <2>1. /\ m \in Nat /\ n \in Nat /\ m % 2 = 0 /\ n % 2 = 0
        /\ m - n < trxHalf /\ n - m < trxHalf
    BY <1>1 DEF TrxInv
  <2>2. TN!TrxCmp(TN!Word(m), TN!Word(n)) = m - n
    BY <2>1, TrxCmpIs
  <2>3. TN!TrxCmp(TN!Word(n), TN!trxMax) = -1
    BY <1>2 DEF TN!TrxCmp
  <2>4. TN!TrxCmp(TN!trxMax, TN!Word(n)) = 1
    BY <1>2 DEF TN!TrxCmp
  <2>5. TN!Sign(TN!TrxCmp(TN!Word(m), TN!Word(n))) = TN!Sign(m - n)
    BY <2>2
  <2> QED
    BY <2>3, <2>4, <2>5
<1>5. TN!TrxOrder
  BY <1>4 DEF TN!TrxOrder
<1> QED
  BY <1>3, <1>5

\* A number joins the ones in use.
LEMMA TrxAdded ==
    ASSUME TrxInv, NEW n \in Nat, n % 2 = 0, \A u \in live : n - u < trxHalf,
           \A u \in live : u <= n,
           tnNewest' \in Nat, tnNewest' % 4 = 0, tnNewest <= tnNewest', n <= tnNewest' + 2,
           live' = live \cup {n}
    PROVE  TrxInv'
<1>h. trxHalf \in Nat \ {0}
  BY TransactionsAssumption
<1>1. live' \in SUBSET Nat
  BY DEF TrxInv
<1>2. ASSUME NEW u \in live' PROVE u % 2 = 0 /\ u <= tnNewest' + 2
  <2>1. CASE u = n
    BY <2>1
  <2>2. CASE u \in live
    <3>1. u \in Nat /\ u % 2 = 0 /\ u <= tnNewest + 2 /\ tnNewest \in Nat
      BY <2>2 DEF TrxInv
    <3>2. PICK a \in Nat, b \in Nat : a = tnNewest /\ b = tnNewest'
      BY <3>1
    <3>a. a <= b
      BY <3>2
    <3>b. u \in Nat /\ u <= a + 2
      BY <3>1, <3>2
    <3>3. u <= b + 2
      BY <3>a, <3>b
    <3> QED
      BY <3>1, <3>2, <3>3
  <2> QED
    BY <2>1, <2>2
<1>3. ASSUME NEW u \in live', NEW v \in live' PROVE u - v < trxHalf
  <2>1. CASE u \in live /\ v \in live
    BY <2>1 DEF TrxInv
  <2>2. CASE u = n /\ v \in live
    BY <2>2
  <2>3. CASE u \in live /\ v = n
    <3>1. u \in Nat /\ u <= n
      BY <2>3 DEF TrxInv
    <3> QED
      BY <1>h, <2>3, <3>1
  <2>4. CASE u = n /\ v = n
    BY <1>h, <2>4
  <2> QED
    BY <2>1, <2>2, <2>3, <2>4
<1> QED
  BY <1>1, <1>2, <1>3 DEF TrxInv

\* Every step on the numbers keeps the invariant.
LEMMA TrxStep == ASSUME TrxInv, TN!TrxNext PROVE TrxInv'
<1>0. tnNewest \in Nat /\ tnNewest % 4 = 0 /\ \A u \in live : u \in Nat /\ u <= tnNewest + 2 /\ u % 2 = 0
  BY DEF TrxInv
<1>1. CASE TN!Draw
  <2>1. /\ tnNewest' = tnNewest + 4
        /\ \A u \in live : tnNewest' - u < trxHalf
        /\ live' = live \cup {tnNewest'}
    BY <1>1 DEF TN!Draw, TN!TRXID_INCR, TN!Within
  <2>2. tnNewest' \in Nat /\ tnNewest' % 4 = 0 /\ tnNewest' % 2 = 0
    BY <1>0, <2>1
  <2>3. /\ \A u \in live : u <= tnNewest' /\ tnNewest <= tnNewest' /\ tnNewest' <= tnNewest' + 2
    BY <1>0, <2>1, <2>2
  <2>4. tnNewest <= tnNewest' /\ tnNewest' <= tnNewest' + 2
    BY <1>0, <2>1, <2>2
  <2>5. \A u \in live : u <= tnNewest'
    BY <2>3
  <2> QED
    BY <2>1, <2>2, <2>4, <2>5, TrxAdded
<1>2. CASE TN!DrawReadOnly
  <2>0. TN!TRXID_INCR \div 2 = 2
    BY DEF TN!TRXID_INCR
  <2>1. /\ \A u \in live : (tnNewest + 2) - u < trxHalf
        /\ live' = live \cup {tnNewest + 2} /\ tnNewest' = tnNewest
    BY <1>2, <2>0 DEF TN!DrawReadOnly, TN!Within
  <2>2. PICK n \in Nat : n = tnNewest + 2
    BY <1>0
  <2>3. n % 2 = 0
    BY <1>0, <2>2
  <2>4. (\A u \in live : n - u < trxHalf) /\ (\A u \in live : u <= n)
    BY <1>0, <2>1, <2>2
  <2>5. tnNewest' \in Nat /\ tnNewest' % 4 = 0 /\ tnNewest <= tnNewest' /\ n <= tnNewest' + 2
    BY <1>0, <2>1, <2>2
  <2>6. live' = live \cup {n}
    BY <2>1, <2>2
  <2> QED
    BY <2>3, <2>4, <2>5, <2>6, TrxAdded
<1>3. CASE \E n \in live : TN!Drop(n)
  <2>1. live' \subseteq live /\ tnNewest' = tnNewest
    BY <1>3 DEF TN!Drop
  <2> QED
    BY <2>1 DEF TrxInv
<1> QED
  BY <1>1, <1>2, <1>3 DEF TN!TrxNext

\* The invariant holds where transactions are numbered.
TrxsInv == scenario = "trxs" => TrxInv

\* Two transactions that are in use are compared as they were drawn, across any
\* number of wraparounds, and none has a number that means something else, for any
\* width of the word.
THEOREM TrxAlwaysOrdered == MCSpec => []TrxOrder
<1>1. MCInit => TrxsInv
  <2>1. SUFFICES ASSUME MCInit, scenario = "trxs" PROVE TrxInv
    BY DEF TrxsInv
  <2>2. tnNewest = trxFirst /\ live = {}
    BY <2>1 DEF MCInit, TN!Init
  <2> QED
    BY <2>2, TransactionsAssumption DEF TrxInv
<1>2. TrxsInv /\ [MCNext]_mcvars => TrxsInv'
  <2>1. SUFFICES ASSUME TrxsInv, [MCNext]_mcvars, scenario' = "trxs" PROVE TrxInv'
    BY DEF TrxsInv
  <2>2. scenario = "trxs" /\ (TN!TrxNext \/ UNCHANGED tn)
    BY <2>1 DEF MCNext, mcvars, OnBuckets
  <2>3. TrxInv
    BY <2>1, <2>2 DEF TrxsInv
  <2>4. CASE TN!TrxNext
    BY <2>3, <2>4, TrxStep
  <2>5. CASE UNCHANGED tn
    BY <2>3, <2>5 DEF tn, TrxInv
  <2> QED
    BY <2>2, <2>4, <2>5
<1>3. TrxsInv => TrxOrder
  BY TrxInvImplies DEF TrxsInv, TrxOrder
<1> QED
  BY <1>1, <1>2, <1>3, PTL DEF MCSpec

-----------------------------------------------------------------------------
(* Versions of a node in recovery *)

\* The counters of versions are odd, none is above the last, any two are less than
\* half the range apart, and the chain has some of them, each before the older ones.
RceInv ==
    /\ rceidLast \in Nat /\ rceidLast % 2 = 1
    /\ made \in SUBSET Nat
    /\ \A n \in made : n % 2 = 1 /\ n <= rceidLast
    /\ \A m, n \in made : m - n < rceidHalf
    /\ chain \in Seq(Nat)
    /\ \A i \in 1..Len(chain) : chain[i] \in made
    /\ \A i, j \in 1..Len(chain) : i < j => chain[i] > chain[j]

\* The word of an odd counter is not rceidNull.
LEMMA RceWord == ASSUME NEW n \in Nat, n % 2 = 1 PROVE RN!Word(n) \in Nat /\ RN!Word(n) # RN!rceidNull
<1>1. rceidHalf \in Nat \ {0}
  BY TransactionsAssumption
<1>2. (n % (2 * rceidHalf)) % 2 = n % 2
  BY <1>1, Parity, Zenon
<1>3. PICK N \in Nat \ {0} : N = 2 * rceidHalf
  BY <1>1
<1>4. n % N \in 0..(N - 1)
  BY WordParts
<1>5. PICK x \in Nat : x = n % N
  BY <1>4
<1>6. x % 2 = 1
  BY <1>2, <1>3, <1>5
<1>7. x = RN!Word(n)
  BY <1>3, <1>5 DEF RN!Word
<1>8. x # 0
  BY <1>6
<1> QED
  BY <1>7, <1>8 DEF RN!rceidNull

\* RceidCmp of the words of two versions is the difference of their counters.
LEMMA RceidCmpIs ==
    ASSUME RceInv, NEW m \in made, NEW n \in made
    PROVE  /\ RN!RceidCmp(RN!Word(m), RN!Word(n)) = m - n
           /\ RN!Word(m) = RN!Word(n) => m = n
<1>1. rceidHalf \in Nat \ {0}
  BY TransactionsAssumption
<1>i. /\ m \in Int /\ n \in Int /\ m \in Nat /\ n \in Nat /\ m % 2 = 1 /\ n % 2 = 1
      /\ m - n < rceidHalf /\ n - m < rceidHalf
  <2>1. m \in Nat /\ n \in Nat
    BY DEF RceInv
  <2>2. m % 2 = 1 /\ n % 2 = 1
    BY DEF RceInv
  <2>3. m - n < rceidHalf /\ n - m < rceidHalf
    BY DEF RceInv
  <2> QED
    BY <2>1, <2>2, <2>3
<1>2. RN!Word(m) # RN!rceidNull /\ RN!Word(n) # RN!rceidNull
  BY <1>i, RceWord
<1>3. CASE RN!Word(m) = RN!Word(n)
  <2>1. m % (2 * rceidHalf) = n % (2 * rceidHalf)
    BY <1>3 DEF RN!Word
  <2>2. m = n
    BY <1>1, <1>i, <2>1, DifferentWords, Zenon
  <2>3. RN!RceidCmp(RN!Word(m), RN!Word(n)) = 0
    BY <1>3, Zenon DEF RN!RceidCmp
  <2> QED
    BY <1>i, <2>2, <2>3
<1>4. CASE RN!Word(m) # RN!Word(n)
  <2>1. RN!RceidCmp(RN!Word(m), RN!Word(n)) = RN!Difference(RN!Word(m), RN!Word(n))
    BY <1>2, <1>4, Zenon DEF RN!RceidCmp
  <2>2. Signed((Signed(m % (2 * rceidHalf), rceidHalf) - Signed(n % (2 * rceidHalf), rceidHalf)) % (2 * rceidHalf), rceidHalf) = m - n
    BY <1>1, <1>i, SignedDifference, Zenon
  <2>3. RN!Difference(RN!Word(m), RN!Word(n)) = m - n
    BY <2>2, Zenon DEF RN!Difference, RN!Long, RN!Word, Signed
  <2> QED
    BY <1>4, <2>1, <2>3
<1> QED
  BY <1>3, <1>4

\* The walk from the newest version stops at the first one that is older.
LEMMA PassedIs ==
    ASSUME RceInv, NEW n \in made
    PROVE  \E k \in 0..Len(chain) : /\ k = RN!Passed(n)
                                    /\ \A i \in 1..k : chain[i] >= n
                                    /\ k = Len(chain) \/ chain[k + 1] < n
<1>0. /\ n \in Nat /\ Len(chain) \in Nat
      /\ \A i \in 1..Len(chain) : chain[i] \in made /\ chain[i] \in Nat
  BY DEF RceInv
<1>1. \A i \in 1..Len(chain) : RN!RceidCmp(RN!Word(chain[i]), RN!Word(n)) = chain[i] - n
  BY <1>0, RceidCmpIs
<1>2. PICK T : T = {k \in 0..Len(chain) : k = Len(chain) \/ chain[k + 1] < n}
  OBVIOUS
<1>3. T \in SUBSET Nat /\ T # {}
  BY <1>0, <1>2
<1>4. PICK x \in T : \A y \in T : x <= y
  BY <1>3, LeastNat
<1>5. x \in 0..Len(chain) /\ (x = Len(chain) \/ chain[x + 1] < n)
  BY <1>2
<1>6. ASSUME NEW i \in 1..x PROVE chain[i] >= n
  <2>1. PICK j \in Nat : j = i - 1 /\ j + 1 = i /\ j \in 0..Len(chain) /\ j # Len(chain) /\ j < x
    BY <1>0, <1>5
  <2>2. j \notin T
    BY <1>4, <1>5, <2>1
  <2>3. ~(chain[i] < n)
    BY <1>2, <2>1, <2>2
  <2>4. i \in 1..Len(chain)
    BY <1>0, <1>5
  <2> QED
    BY <1>0, <2>3, <2>4
<1>7. \E k \in 0..Len(chain) :
         /\ \A i \in 1..k : RN!RceidCmp(RN!Word(chain[i]), RN!Word(n)) >= 0
         /\ k = Len(chain) \/ RN!RceidCmp(RN!Word(chain[k + 1]), RN!Word(n)) < 0
  <2>1. \A i \in 1..x : RN!RceidCmp(RN!Word(chain[i]), RN!Word(n)) >= 0
    BY <1>0, <1>1, <1>5, <1>6
  <2>2. x = Len(chain) \/ RN!RceidCmp(RN!Word(chain[x + 1]), RN!Word(n)) < 0
    <3>1. CASE x # Len(chain)
      <4>1. x + 1 \in 1..Len(chain) /\ chain[x + 1] < n
        BY <1>0, <1>5, <3>1
      <4> QED
        BY <1>0, <1>1, <4>1
    <3> QED
      BY <3>1
  <2> QED
    BY <1>5, <2>1, <2>2
<1>8. PICK k : k = RN!Passed(n)
  OBVIOUS
<1>9. /\ k \in 0..Len(chain)
      /\ \A i \in 1..k : RN!RceidCmp(RN!Word(chain[i]), RN!Word(n)) >= 0
      /\ k = Len(chain) \/ RN!RceidCmp(RN!Word(chain[k + 1]), RN!Word(n)) < 0
  BY <1>7, <1>8, Zenon DEF RN!Passed
<1>10. \A i \in 1..k : chain[i] >= n
  BY <1>0, <1>1, <1>9
<1>11. k = Len(chain) \/ chain[k + 1] < n
  <2>1. CASE k # Len(chain)
    <3>1. k + 1 \in 1..Len(chain)
      BY <1>0, <1>9, <2>1
    <3>2. RN!RceidCmp(RN!Word(chain[k + 1]), RN!Word(n)) < 0
      BY <1>9, <2>1, Zenon
    <3> QED
      BY <1>0, <1>1, <3>1, <3>2
  <2> QED
    BY <2>1
<1> QED
  BY <1>8, <1>9, <1>10, <1>11

\* m is l with z in between, after the first k.
WithOneMore(S, l, z, k, m) ==
    /\ m \in Seq(S) /\ Len(m) = Len(l) + 1
    /\ \A c \in 1..(Len(l) + 1) :
          m[c] = IF c <= k THEN l[c] ELSE IF c = k + 1 THEN z[1] ELSE l[c - 1]

\* A sequence with one more element after the first k.
LEMMA OneMore ==
    ASSUME NEW S, NEW l \in Seq(S), NEW z \in Seq(S), Len(z) = 1, NEW k \in 0..Len(l)
    PROVE  WithOneMore(S, l, z, k, SubSeq(l, 1, k) \o z \o SubSeq(l, k + 1, Len(l)))
<1>z. PICK m : m = SubSeq(l, 1, k) \o z \o SubSeq(l, k + 1, Len(l))
  OBVIOUS
<1>0. Len(l) \in Nat
  OBVIOUS
<1>a. /\ SubSeq(l, 1, k) \in Seq(S) /\ Len(SubSeq(l, 1, k)) = k
      /\ \A c \in 1..k : SubSeq(l, 1, k)[c] = l[c]
  OBVIOUS
<1>b. /\ SubSeq(l, k + 1, Len(l)) \in Seq(S)
      /\ Len(SubSeq(l, k + 1, Len(l))) = Len(l) - k
      /\ \A c \in 1..(Len(l) - k) : SubSeq(l, k + 1, Len(l))[c] = l[k + c]
  OBVIOUS
<1>1. PICK p : p \in Seq(S) /\ p = SubSeq(l, 1, k) /\ Len(p) = k /\ \A c \in 1..k : p[c] = l[c]
  BY <1>a, Zenon
<1>2. PICK q : /\ q \in Seq(S) /\ q = SubSeq(l, k + 1, Len(l)) /\ Len(q) = Len(l) - k
               /\ \A c \in 1..(Len(l) - k) : q[c] = l[k + c]
  BY <1>b, Zenon
<1>3. PICK o : o = p \o z
  OBVIOUS
<1>s. z \in Seq(S) /\ Len(z) = 1
  OBVIOUS
<1>o. /\ p \o z \in Seq(S) /\ Len(p \o z) = Len(p) + Len(z)
      /\ \A c \in 1..(Len(p) + Len(z)) :
            (p \o z)[c] = IF c <= Len(p) THEN p[c] ELSE z[c - Len(p)]
  <2>1. p \in Seq(S)
    BY <1>1, Zenon
  <2> QED
    BY <1>s, <2>1, ConcatProperties
<1>c. Len(p) = k /\ Len(q) = Len(l) - k /\ o \in Seq(S) /\ Len(o) = Len(p) + 1
  BY <1>1, <1>2, <1>3, <1>s, <1>o, Zenon
<1>4. m = o \o q
  BY <1>z, <1>1, <1>2, <1>3, Zenon
<1>m. /\ o \o q \in Seq(S) /\ Len(o \o q) = Len(o) + Len(q)
      /\ \A c \in 1..(Len(o) + Len(q)) : (o \o q)[c] = IF c <= Len(o) THEN o[c] ELSE q[c - Len(o)]
  <2>1. o \in Seq(S) /\ q \in Seq(S)
    BY <1>2, <1>c, Zenon
  <2> QED
    BY <2>1, ConcatProperties
<1>5. m \in Seq(S) /\ Len(m) = Len(l) + 1
  <2>1. m \in Seq(S) /\ Len(m) = Len(o) + Len(q)
    BY <1>4, <1>m, Zenon
  <2>2. (k + 1) + (Len(l) - k) = Len(l) + 1
    BY <1>0
  <2> QED
    BY <1>c, <2>1, <2>2, Zenon
<1>6. ASSUME NEW c \in 1..(Len(l) + 1)
      PROVE  m[c] = IF c <= k THEN l[c] ELSE IF c = k + 1 THEN z[1] ELSE l[c - 1]
  <2>0. c \in 1..(Len(o) + Len(q)) /\ Len(o) = k + 1
    BY <1>0, <1>c
  <2>1. CASE c <= k
    <3>1. c \in 1..(Len(p) + Len(z)) /\ c <= Len(o) /\ c <= Len(p) /\ c \in 1..k
      BY <1>c, <1>s, <2>0, <2>1
    <3>2. m[c] = o[c]
      BY <1>4, <1>m, <2>0, <3>1, Zenon
    <3>3. o[c] = p[c]
      BY <1>3, <1>o, <3>1, Zenon
    <3>4. p[c] = l[c]
      BY <1>1, <3>1, Zenon
    <3> QED
      BY <2>1, <3>2, <3>3, <3>4, Zenon
  <2>2. CASE c = k + 1
    <3>1. c \in 1..(Len(p) + Len(z)) /\ c <= Len(o) /\ ~(c <= Len(p)) /\ c - Len(p) = 1 /\ ~(c <= k)
      BY <1>c, <1>s, <2>0, <2>2
    <3>2. m[c] = o[c]
      BY <1>4, <1>m, <2>0, <3>1, Zenon
    <3>3. o[c] = z[1]
      BY <1>3, <1>o, <1>s, <3>1, Zenon
    <3> QED
      BY <2>2, <3>1, <3>2, <3>3, Zenon
  <2>3. CASE c > k + 1
    <3>1. ~(c <= k) /\ c # k + 1 /\ ~(c <= Len(o)) /\ c - Len(o) \in 1..(Len(l) - k) /\ k + (c - Len(o)) = c - 1
      BY <1>0, <2>0, <2>3
    <3>2. m[c] = q[c - Len(o)]
      BY <1>4, <1>m, <2>0, <3>1, Zenon
    <3>3. q[c - Len(o)] = l[c - 1]
      BY <1>2, <3>1, Zenon
    <3> QED
      BY <3>1, <3>2, <3>3, Zenon
  <2>4. c <= k \/ c = k + 1 \/ c > k + 1
    BY <1>0
  <2> QED
    BY <2>1, <2>2, <2>3, <2>4, Zenon
<1> QED
  BY <1>z, <1>5, <1>6, Zenon DEF WithOneMore

\* Inserting a version at its place keeps the chain in order.
LEMMA ChainInserted ==
    ASSUME RceInv, NEW n \in made, RN!ErrVERIInsertRCEIntoHash(n) PROVE RceInv'
<1>0. /\ n \in Nat /\ Len(chain) \in Nat /\ chain \in Seq(Nat)
      /\ \A i \in 1..Len(chain) : chain[i] \in made /\ chain[i] \in Nat
      /\ \A i, j \in 1..Len(chain) : i < j => chain[i] > chain[j]
  BY DEF RceInv
<1>1. made' = made /\ rceidLast' = rceidLast
  BY DEF RN!ErrVERIInsertRCEIntoHash
<1>2. PICK k \in 0..Len(chain) : /\ k = RN!Passed(n)
                                 /\ \A i \in 1..k : chain[i] >= n
                                 /\ k = Len(chain) \/ chain[k + 1] < n
  BY PassedIs
<1>3. chain' = IF \E i \in 1..k : RN!Word(chain[i]) = RN!Word(n)
               THEN chain ELSE SubSeq(chain, 1, k) \o <<n>> \o SubSeq(chain, k + 1, Len(chain))
  BY <1>2, Zenon DEF RN!ErrVERIInsertRCEIntoHash
<1>4. CASE chain' = chain
  BY <1>1, <1>4 DEF RceInv
<1>5. CASE \A i \in 1..k : RN!Word(chain[i]) # RN!Word(n)
  <2>1. \A i \in 1..k : i \in 1..Len(chain) /\ chain[i] # n
    BY <1>0, <1>5
  <2>2. \A i \in 1..k : i \in 1..Len(chain) /\ chain[i] > n
    BY <1>0, <1>2, <2>1
  <2>3. \A i \in (k + 1)..Len(chain) : i \in 1..Len(chain) /\ chain[i] < n
    <3>1. TAKE i \in (k + 1)..Len(chain)
    <3>2. i \in 1..Len(chain) /\ k # Len(chain) /\ k + 1 \in 1..Len(chain)
      BY <1>0
    <3>3. chain[k + 1] < n
      BY <1>2, <3>2
    <3>4. CASE i = k + 1
      BY <3>2, <3>3, <3>4
    <3>5. CASE i # k + 1
      <4>1. chain[k + 1] > chain[i]
        BY <1>0, <3>2, <3>5
      <4>2. PICK a \in Nat, b \in Nat : a = chain[k + 1] /\ b = chain[i]
        BY <1>0, <3>2
      <4>3. b < n
        BY <3>3, <4>1, <4>2, <1>0
      <4> QED
        BY <3>2, <4>2, <4>3
    <3> QED
      BY <3>4, <3>5
  <2>4. PICK m : m = SubSeq(chain, 1, k) \o <<n>> \o SubSeq(chain, k + 1, Len(chain)) /\ m = chain'
    BY <1>3, <1>5, Zenon
  <2>5. /\ m \in Seq(Nat) /\ Len(m) = Len(chain) + 1
        /\ \A c \in 1..(Len(chain) + 1) :
              m[c] = IF c <= k THEN chain[c] ELSE IF c = k + 1 THEN n ELSE chain[c - 1]
    <3>1. <<n>> \in Seq(Nat) /\ Len(<<n>>) = 1 /\ <<n>>[1] = n
      BY <1>0
    <3>2. WithOneMore(Nat, chain, <<n>>, k, m)
      BY <1>0, <2>4, <3>1, OneMore, Zenon
    <3> QED
      BY <3>1, <3>2, Zenon DEF WithOneMore
  <2>6. \A c \in 1..k : c \in 1..(Len(chain) + 1) /\ c \in 1..Len(chain) /\ m[c] = chain[c]
    BY <1>0, <2>5
  <2>7. k + 1 \in 1..(Len(chain) + 1) /\ m[k + 1] = n
    BY <1>0, <2>5
  <2>8. \A c \in (k + 2)..(Len(chain) + 1) :
           c \in 1..(Len(chain) + 1) /\ c - 1 \in (k + 1)..Len(chain) /\ c - 1 \in 1..Len(chain) /\ m[c] = chain[c - 1]
    BY <1>0, <2>5
  <2>9. \A c \in 1..Len(m) : c \in 1..k \/ c = k + 1 \/ c \in (k + 2)..(Len(chain) + 1)
    BY <1>0, <2>5
  <2>10. \A c \in 1..Len(m) : m[c] \in made
    BY <1>0, <2>6, <2>7, <2>8, <2>9, Zenon
  <2>11. ASSUME NEW i \in 1..Len(m), NEW j \in 1..Len(m), i < j PROVE m[i] > m[j]
    <3>1. CASE i \in 1..k /\ j \in 1..k
      <4>1. chain[i] > chain[j]
        BY <1>0, <2>6, <2>11, <3>1
      <4> QED
        BY <2>6, <3>1, <4>1
    <3>2. CASE i \in 1..k /\ j = k + 1
      BY <2>2, <2>6, <2>7, <3>2
    <3>3. CASE i \in 1..k /\ j \in (k + 2)..(Len(chain) + 1)
      <4>1. PICK a \in Nat, b \in Nat : a = chain[i] /\ b = chain[j - 1]
        BY <1>0, <2>6, <2>8, <3>3
      <4>2. a > n
        BY <2>2, <3>3, <4>1
      <4>3. b < n
        BY <2>3, <2>8, <3>3, <4>1
      <4>4. m[i] = a /\ m[j] = b
        BY <2>6, <2>8, <3>3, <4>1
      <4> QED
        BY <1>0, <4>2, <4>3, <4>4
    <3>4. CASE i = k + 1 /\ j \in (k + 2)..(Len(chain) + 1)
      <4>1. PICK b \in Nat : b = chain[j - 1]
        BY <1>0, <2>8, <3>4
      <4>2. b < n
        BY <2>3, <2>8, <3>4, <4>1
      <4>3. m[i] = n /\ m[j] = b
        BY <2>7, <2>8, <3>4, <4>1
      <4> QED
        BY <1>0, <4>2, <4>3
    <3>5. CASE i \in (k + 2)..(Len(chain) + 1) /\ j \in (k + 2)..(Len(chain) + 1)
      <4>1. PICK f \in 1..Len(chain), h \in 1..Len(chain) : f = i - 1 /\ h = j - 1 /\ f < h
        BY <1>0, <2>8, <2>11, <3>5
      <4>2. chain[f] > chain[h]
        BY <1>0, <4>1
      <4>3. m[i] = chain[f] /\ m[j] = chain[h]
        BY <2>8, <3>5, <4>1
      <4> QED
        BY <4>2, <4>3
    <3>6. \/ i \in 1..k /\ j \in 1..k
          \/ i \in 1..k /\ j = k + 1
          \/ i \in 1..k /\ j \in (k + 2)..(Len(chain) + 1)
          \/ i = k + 1 /\ j \in (k + 2)..(Len(chain) + 1)
          \/ i \in (k + 2)..(Len(chain) + 1) /\ j \in (k + 2)..(Len(chain) + 1)
      BY <1>0, <2>5, <2>11
    <3> QED
      BY <3>1, <3>2, <3>3, <3>4, <3>5, <3>6, Zenon
  <2> QED
    BY <1>1, <2>4, <2>5, <2>10, <2>11 DEF RceInv
<1> QED
  BY <1>3, <1>4, <1>5, Zenon

\* Taking a version out of the chain keeps the others in order.
LEMMA ChainShortened ==
    ASSUME RceInv, NEW n \in made, RN!Nullify(n) PROVE RceInv'
<1>0. /\ Len(chain) \in Nat /\ chain \in Seq(Nat)
      /\ \A i \in 1..Len(chain) : chain[i] \in made /\ chain[i] \in Nat
      /\ \A i, j \in 1..Len(chain) : i < j => chain[i] > chain[j]
  BY DEF RceInv
<1>1. made' = made \ {n} /\ rceidLast' = rceidLast
  BY DEF RN!Nullify
<1>2. DOMAIN chain = 1..Len(chain)
  BY <1>0
<1>3. PICK b \in 1..Len(chain) :
         /\ chain[b] = n
         /\ chain' = SubSeq(chain, 1, b - 1) \o SubSeq(chain, b + 1, Len(chain))
  BY <1>2, Zenon DEF RN!Nullify
<1>4. PICK m : m = SubSeq(chain, 1, b - 1) \o SubSeq(chain, b + 1, Len(chain)) /\ m = chain'
  BY <1>3, Zenon
<1>5. /\ m \in Seq(Nat) /\ Len(m) = Len(chain) - 1
      /\ \A c \in 1..(Len(chain) - 1) : m[c] = IF c < b THEN chain[c] ELSE chain[c + 1]
  <2>1. m = SubSeq(chain, 1, b - 1) \o SubSeq(chain, b + 1, Len(chain))
    BY <1>4
  <2>2. PICK T : T = Nat /\ chain \in Seq(T)
    BY <1>0, Zenon
  <2>a. chain \in Seq(T)
    BY <2>2
  <2>b. m \in Seq(T) /\ Len(m) = Len(chain) - 1
    BY <2>1, <2>a, OneLess
  <2>3. m \in Seq(Nat) /\ Len(m) = Len(chain) - 1
    BY <2>2, <2>b
  <2>4. \A c \in 1..(Len(chain) - 1) : m[c] = IF c < b THEN chain[c] ELSE chain[c + 1]
    BY <2>1, <2>a, OneLess
  <2> QED
    BY <2>3, <2>4, Zenon
<1>6. ASSUME NEW c \in 1..Len(m)
      PROVE  \E f \in 1..Len(chain) : f # b /\ m[c] = chain[f] /\ f = (IF c < b THEN c ELSE c + 1)
  <2>0. c \in 1..(Len(chain) - 1)
    BY <1>5
  <2>1. CASE c < b
    BY <1>0, <1>5, <2>0, <2>1
  <2>2. CASE ~(c < b)
    BY <1>0, <1>5, <2>0, <2>2
  <2> QED
    BY <2>1, <2>2
<1>7. ASSUME NEW c \in 1..Len(m) PROVE m[c] \in made \ {n}
  <2>1. PICK f \in 1..Len(chain) : f # b /\ m[c] = chain[f] /\ f = (IF c < b THEN c ELSE c + 1)
    BY <1>6
  <2>2. chain[f] # chain[b]
    <3>1. f < b \/ b < f
      BY <1>0, <2>1
    <3>2. chain[f] > chain[b] \/ chain[b] > chain[f]
      BY <1>0, <3>1
    <3>3. chain[f] \in Nat /\ chain[b] \in Nat
      BY <1>0
    <3> QED
      BY <3>2, <3>3
  <2> QED
    BY <1>0, <1>3, <2>1, <2>2
<1>8. ASSUME NEW i \in 1..Len(m), NEW j \in 1..Len(m), i < j PROVE m[i] > m[j]
  <2>1. PICK f \in 1..Len(chain) : f # b /\ m[i] = chain[f] /\ f = (IF i < b THEN i ELSE i + 1)
    BY <1>6
  <2>2. PICK h \in 1..Len(chain) : h # b /\ m[j] = chain[h] /\ h = (IF j < b THEN j ELSE j + 1)
    BY <1>6
  <2>3. i \in Nat /\ j \in Nat /\ b \in Nat
    BY <1>0, <1>5
  <2>4. f < h
    BY <1>8, <2>1, <2>2, <2>3
  <2> QED
    BY <1>0, <2>1, <2>2, <2>4
<1>9. /\ made' \in SUBSET Nat
      /\ \A x \in made' : x % 2 = 1 /\ x <= rceidLast'
      /\ \A x, y \in made' : x - y < rceidHalf
      /\ rceidLast' \in Nat /\ rceidLast' % 2 = 1
  BY <1>1 DEF RceInv
<1> QED
  BY <1>1, <1>4, <1>5, <1>7, <1>8, <1>9 DEF RceInv

\* A new version is the newest.
LEMMA VersionMade == ASSUME RceInv, RN!RceidLastIncrement PROVE RceInv'
<1>h. rceidHalf \in Nat \ {0}
  BY TransactionsAssumption
<1>0. /\ rceidLast \in Nat /\ rceidLast % 2 = 1 /\ made \in SUBSET Nat
      /\ \A u \in made : u \in Nat /\ u <= rceidLast /\ u % 2 = 1
  BY DEF RceInv
<1>1. /\ rceidLast' = rceidLast + 2 /\ \A u \in made : rceidLast' - u < rceidHalf
      /\ made' = made \cup {rceidLast'} /\ chain' = chain
  BY DEF RN!RceidLastIncrement, RN!RCEID_INCR, RN!Within
<1>2. PICK n \in Nat : n = rceidLast + 2
  BY <1>0
<1>3. n % 2 = 1 /\ \A u \in made : u <= n
  BY <1>0, <1>2
<1>4. rceidLast' = n /\ made' = made \cup {n} /\ \A u \in made : n - u < rceidHalf
  BY <1>1, <1>2
<1>5. \A u \in made \cup {n} : u \in Nat /\ u % 2 = 1 /\ u <= n
  BY <1>0, <1>3
<1>6. ASSUME NEW u \in made \cup {n}, NEW v \in made \cup {n} PROVE u - v < rceidHalf
  <2>1. CASE u \in made /\ v \in made
    BY <2>1 DEF RceInv
  <2>2. CASE u = n /\ v \in made
    BY <1>4, <2>2
  <2>3. CASE v = n
    <3>1. u \in Nat /\ u <= n
      BY <1>5
    <3> QED
      BY <1>h, <2>3, <3>1
  <2> QED
    BY <2>1, <2>2, <2>3
<1>7. made' \in SUBSET Nat /\ rceidLast' \in Nat /\ rceidLast' % 2 = 1
  BY <1>3, <1>4, <1>5
<1>8. (\A u \in made' : u % 2 = 1 /\ u <= rceidLast') /\ \A u, v \in made' : u - v < rceidHalf
  BY <1>4, <1>5, <1>6
<1>9. /\ chain' \in Seq(Nat) /\ \A i \in 1..Len(chain') : chain'[i] \in made'
      /\ \A i, j \in 1..Len(chain') : i < j => chain'[i] > chain'[j]
  BY <1>1, <1>4 DEF RceInv
<1> QED
  BY <1>7, <1>8, <1>9 DEF RceInv

\* The invariant holds where versions are chained.
RcesInv == scenario = "rceids" => RceInv

\* In recovery the versions of a node are in the order of their creation, each once,
\* although redo meets them in any order and some twice, and none has the null id, for
\* any width of the word.
THEOREM ChainAlwaysInOrder == MCSpec => []ChainInOrder
<1>1. MCInit => RcesInv
  <2>1. SUFFICES ASSUME MCInit, scenario = "rceids" PROVE RceInv
    BY DEF RcesInv
  <2>2. rceidLast = rceidFirst /\ made = {} /\ chain = <<>>
    BY <2>1 DEF MCInit, RN!Init
  <2>3. chain \in Seq(Nat) /\ Len(chain) = 0
    BY <2>2
  <2> QED
    BY <2>2, <2>3, TransactionsAssumption DEF RceInv
<1>2. RcesInv /\ [MCNext]_mcvars => RcesInv'
  <2>1. SUFFICES ASSUME RcesInv, [MCNext]_mcvars, scenario' = "rceids" PROVE RceInv'
    BY DEF RcesInv
  <2>2. scenario = "rceids" /\ (RN!RceNext \/ UNCHANGED tn)
    BY <2>1 DEF MCNext, mcvars, OnBuckets
  <2>3. RceInv
    BY <2>1, <2>2 DEF RcesInv
  <2>4. CASE RN!RceNext
    BY <2>3, <2>4, VersionMade, ChainInserted, ChainShortened DEF RN!RceNext
  <2>5. CASE UNCHANGED tn
    BY <2>3, <2>5 DEF tn, RceInv
  <2> QED
    BY <2>2, <2>4, <2>5
<1>3. RcesInv => ChainInOrder
  <2>1. SUFFICES ASSUME RceInv PROVE RN!ChainInOrder
    BY DEF RcesInv, ChainInOrder
  <2>2. DOMAIN chain = 1..Len(chain)
    BY <2>1 DEF RceInv
  <2>3. \A i, j \in DOMAIN chain : i < j => chain[i] > chain[j]
    BY <2>1, <2>2 DEF RceInv
  <2>4. \A n \in made : n \in Nat /\ n % 2 = 1
    BY <2>1 DEF RceInv
  <2>5. \A n \in made : RN!Word(n) # RN!rceidNull
    BY <2>4, RceWord
  <2> QED
    BY <2>3, <2>5 DEF RN!ChainInOrder
<1> QED
  BY <1>1, <1>2, <1>3, PTL DEF MCSpec

-----------------------------------------------------------------------------
(* The buckets of the version store *)
(***************************************************************************)
(* For any numbers of sessions, signallers, workers and detachers, any     *)
(* databases, any size of buckets and any quota: no RCE is lost with its   *)
(* bucket or passed by for good, whoever waits for a cleanup is told, and  *)
(* shutdown leaves nothing behind.                                         *)
(*                                                                         *)
(* The invariant says who may be where (Roles), who owns which critical    *)
(* section (Locks), what the thread that cleans knows of the bucket it     *)
(* walks along (Walk), that one cleanup at a time is asked for (Asked),    *)
(* and how far a shutdown has got (Ending).                                *)
(***************************************************************************)

Bucket == [rces : Seq(Nat), prceOldest : Nat]
RCE == [db : Db, st : {"active", "committed", "old", "null"}]
CleanLocals == [db : Db \cup {all}, b : Nat, i : Nat, fNeed : BOOLEAN,
                fSkipped : BOOLEAN, fSaved : BOOLEAN,
                at : {"off", "visit", "test", "rce", "free", "over"}]

\* Inside VERSignalCleanup, and after its compare-exchange.
Signalling == {"cas", "reset", "post", "unset", "uncas"}
Asking == {"reset", "post", "unset", "uncas"}

\* The store: TypeOK, and the types of the locals.
Types ==
    /\ TypeOK
    /\ list \in Seq(Bucket)
    /\ clean \in CleanLocals
    /\ arg \in [Session -> [db : Db \cup {none}, fConcurrent : BOOLEAN]]

Roles ==
    /\ \A s \in Session : pc[s] \in Signalling \cup {"idle", "alloc", "wait", "retry"}
    /\ \A s \in Session : pc[s] # "idle" => arg[s].db \in Db
    /\ \A s \in Signaller : pc[s] \in Signalling \cup {"idle"}
    /\ \A w \in Worker : pc[w] \in {"idle", "clean", "set", "set2"}
    /\ \A dt \in Detacher : pc[dt] \in {"idle", "clean"}
    /\ \A th \in Terminator :
          pc[th] \in {"idle", "tmterm", "clean", "verterm", "asig", "clean2", "done"}

\* A session owns m_critBucketGlobal from its failure to find room until it
\* has allocated or begins to wait; the cleaner when it is about to free the
\* bucket that it found to be the newest.
Locks ==
    /\ \A s \in Session : pc[s] \in Signalling \cup {"alloc"} => critBucket = s
    /\ critBucket \notin Session \cup {none} => critBucket = critClean /\ clean.at = "free"
    /\ critClean = none <=> clean.at = "off"
    /\ critClean # none =>
          /\ pc[critClean] \in {"clean", "clean2"}
          /\ clean.db # all <=> critClean \in Detacher

\* The cleaner is in a linked bucket, which is not the newest or is locked when
\* its end has been seen; between hdr.prceOldest and its place all is nullified
\* unless it skipped something.
Walk ==
    /\ clean.at \in {"visit", "test", "rce", "free"} => clean.b \in 1..Len(list)
    /\ clean.db = all => clean.b = 1 /\ ~clean.fSkipped
    /\ clean.at \in {"test", "rce", "free"} =>
          /\ clean.i \in list[clean.b].prceOldest..(Len(list[clean.b].rces) + 1)
          /\ ~clean.fNeed => clean.b < Len(list)
          /\ ~clean.fSkipped =>
                \A j \in list[clean.b].prceOldest..(clean.i - 1) :
                    rce[list[clean.b].rces[j]].st = "null"
    /\ clean.at = "rce" => clean.i <= Len(list[clean.b].rces)
    /\ clean.at = "free" => /\ clean.i > Len(list[clean.b].rces)
                            /\ clean.fNeed => critBucket = critClean

\* Who has asked for a cleanup, or carries one out that was asked for.
Holding(th) == pc[th] \in Asking \/ (th \in Worker /\ pc[th] = "clean")

\* One cleanup at a time is asked for, posted or carried out, and none while
\* m_fVERCleanUpWait is zero.
Asked ==
    /\ \A th, u \in Thread : Holding(th) /\ Holding(u) => th = u
    /\ queued > 0 \/ fVERCleanUpWait = 0 => \A th \in Thread : ~Holding(th)
    /\ fVERCleanUpWait = 0 => queued = 0

\* The steps of a shutdown.
Ending ==
    /\ \A th \in Terminator :
          /\ pc[th] # "idle" => \A u \in Session \cup Detacher : pc[u] = "idle"
          /\ pc[th] \in {"clean", "verterm", "asig", "clean2", "done"} =>
                ~tmUp /\ queued = 0 /\ \A w \in Worker : pc[w] = "idle"
          /\ pc[th] \in {"asig", "clean2", "done"} => fVERCleanUpWait = 2 /\ ~Open
          /\ pc[th] \in {"clean2", "done"} => \A u \in Thread : pc[u] \notin Asking
          /\ pc[th] = "done" => list = <<>>
          /\ pc[th] = "clean2" /\ critClean = th /\ clean.at = "over" => list = <<>>
    /\ \A w \in Worker : pc[w] # "set2"
    /\ fVERCleanUpWait = 2 => \E th \in Terminator : pc[th] \in {"asig", "clean2", "done"}
    /\ asig => fVERCleanUpWait = 2 /\ \A u \in Thread : pc[u] \notin Asking

IInv ==
    /\ Types /\ Roles /\ Locks /\ Walk /\ Asked /\ Ending
    /\ NoRceLost /\ SignalFollows /\ AboveExact

-----------------------------------------------------------------------------
\* What the assumption and the types say of threads.
LEMMA ThreadRoles ==
    /\ Session \subseteq Thread /\ Signaller \subseteq Thread /\ Worker \subseteq Thread
    /\ Detacher \subseteq Thread /\ Terminator \subseteq Thread
    /\ none \notin Thread /\ none \notin Db /\ all \notin Db
    /\ \A th \in Session : th \notin Signaller /\ th \notin Worker /\ th \notin Detacher /\ th \notin Terminator
    /\ \A th \in Signaller : th \notin Worker /\ th \notin Detacher /\ th \notin Terminator
    /\ \A th \in Worker : th \notin Detacher /\ th \notin Terminator
    /\ \A th \in Detacher : th \notin Terminator
    /\ \A th, u \in Terminator : th = u
    /\ \A th \in Thread : th \in Session \/ th \in Signaller \/ th \in Worker \/ th \in Detacher \/ th \in Terminator
BY BucketsAssumption DEF Thread

\* Where a thread may be, and who may own the critical sections.
LEMMA PcType ==
    ASSUME IInv
    PROVE  /\ pc \in [Thread -> {"idle", "cas", "reset", "post", "unset", "uncas", "alloc", "wait",
                          "retry", "clean", "set", "set2", "tmterm", "verterm", "asig", "clean2", "done"}]
           /\ critBucket \in Thread \cup {none}
           /\ critClean \in Thread \cup {none}
           /\ fVERCleanUpWait \in 0..2 /\ queued \in 0..1
           /\ arg \in [Session -> [db : Db \cup {none}, fConcurrent : BOOLEAN]]
BY DEF IInv, Types, TypeOK

\* The signals and flags are Booleans.
LEMMA Flags ==
    ASSUME IInv
    PROVE  /\ msig \in BOOLEAN /\ asig \in BOOLEAN /\ tmUp \in BOOLEAN
           /\ fSync \in BOOLEAN /\ fAbove \in BOOLEAN
BY DEF IInv, Types, TypeOK

\* A thread that is not a session owns m_critBucketGlobal only as the cleaner.
LEMMA ReturnsTo ==
    ASSUME IInv, NEW th \in Thread, pc[th] \in Signalling
    PROVE  /\ th \in Session => Return(th) = "alloc"
           /\ th \notin Session => Return(th) = "idle"
BY PcType, ThreadRoles DEF IInv, Roles, Locks, Return, Signalling

\* Where the end of a cleanup takes each kind of cleaner.
LEMMA EndCleanTo ==
    ASSUME IInv, NEW th \in Thread, EndClean(th)
    PROVE  /\ critClean = th /\ clean.at = "over"
           /\ \E l : Goto(th, l)
           /\ th \in Worker \/ th \in Detacher \/ th \in Terminator
           /\ th \in Worker => pc[th] = "clean" /\ pc'[th] = (IF fVERCleanUpWait = 2 THEN "set2" ELSE "set")
           /\ th \in Detacher => pc[th] = "clean" /\ pc'[th] = "idle"
           /\ th \in Terminator /\ pc[th] = "clean" => pc'[th] = "verterm"
           /\ th \in Terminator /\ pc[th] # "clean" => pc[th] = "clean2" /\ pc'[th] = "done"
<1>1. critClean = th /\ clean.at = "over" /\ pc[th] \in {"clean", "clean2"}
  BY ThreadRoles, PcType DEF EndClean, IInv, Locks
<1>2. th \in Worker \/ th \in Detacher \/ th \in Terminator
  BY <1>1, ThreadRoles, PcType DEF IInv, Roles, Signalling
<1>3. CASE th \in Worker
  <2>1. Goto(th, IF fVERCleanUpWait = 2 THEN "set2" ELSE "set")
    BY <1>3, ThreadRoles DEF EndClean
  <2>2. pc[th] = "clean"
    BY <1>1, <1>3 DEF IInv, Roles
  <2> QED
    BY <1>1, <1>3, <2>1, <2>2, ThreadRoles, PcType DEF Goto
<1>4. CASE th \in Detacher
  <2>1. Goto(th, "idle")
    BY <1>4, ThreadRoles DEF EndClean
  <2>2. pc[th] = "clean"
    BY <1>1, <1>4 DEF IInv, Roles
  <2> QED
    BY <1>1, <1>4, <2>1, <2>2, ThreadRoles, PcType DEF Goto
<1>5. CASE th \in Terminator /\ pc[th] = "clean"
  <2>1. Goto(th, "verterm")
    BY <1>5, ThreadRoles DEF EndClean
  <2> QED
    BY <1>1, <1>5, <2>1, ThreadRoles, PcType DEF Goto
<1>6. CASE th \in Terminator /\ pc[th] # "clean"
  <2>1. Goto(th, "done")
    BY <1>6, ThreadRoles DEF EndClean
  <2> QED
    BY <1>1, <1>6, <2>1, ThreadRoles, PcType DEF Goto
<1> QED
  BY <1>2, <1>3, <1>4, <1>5, <1>6

\* Every thread stays within its role.
LEMMA RolesKept == ASSUME IInv, Next PROVE Roles'
<1>1. ASSUME NEW th \in Thread, SignalStep(th) PROVE Roles'
  <2>1. CASE Signal(th)
    BY <2>1, ThreadRoles, PcType, ReturnsTo DEF Signal, IInv, Roles, Locks, Goto, Forget, NoArg, Signalling
  <2>2. CASE VERSignalCleanup(th)
    BY <2>2, ThreadRoles, PcType, ReturnsTo DEF VERSignalCleanup, IInv, Roles, Locks, Goto, Forget, NoArg, Signalling
  <2>3. CASE ResetSignal(th)
    BY <2>3, ThreadRoles, PcType, ReturnsTo DEF ResetSignal, IInv, Roles, Locks, Goto, Forget, NoArg, Signalling
  <2>4. CASE ErrTMPost(th)
    BY <2>4, ThreadRoles, PcType, ReturnsTo DEF ErrTMPost, IInv, Roles, Locks, Goto, Forget, NoArg, Signalling
  <2>5. CASE SetSignal(th)
    BY <2>5, ThreadRoles, PcType, ReturnsTo DEF SetSignal, IInv, Roles, Locks, Goto, Forget, NoArg, Signalling
  <2>6. CASE WithdrawSignal(th)
    BY <2>6, ThreadRoles, PcType, ReturnsTo DEF WithdrawSignal, IInv, Roles, Locks, Goto, Forget, NoArg, Signalling
  <2> QED
    BY <1>1, <2>1, <2>2, <2>3, <2>4, <2>5, <2>6 DEF SignalStep
<1>2. ASSUME NEW th \in Thread, CleanStep(th) PROVE Roles'
  <2>1. CASE RunTask(th)
    BY <2>1, ThreadRoles, PcType, ReturnsTo DEF RunTask, IInv, Roles, Locks, Goto, Forget, NoArg, Signalling
  <2>2. CASE Detach(th)
    BY <2>2, ThreadRoles, PcType, ReturnsTo DEF Detach, IInv, Roles, Locks, Goto, Forget, NoArg, Signalling
  <2>3. CASE VisitBucket(th)
    BY <2>3, ThreadRoles, PcType, ReturnsTo DEF VisitBucket, IInv, Roles, Locks, Goto, Forget, NoArg, Signalling
  <2>4. CASE TestRCE(th)
    BY <2>4, ThreadRoles, PcType, ReturnsTo DEF TestRCE, IInv, Roles, Locks, Goto, Forget, NoArg, Signalling
  <2>5. CASE PassRCE(th)
    BY <2>5, ThreadRoles, PcType, ReturnsTo DEF PassRCE, IInv, Roles, Locks, Goto, Forget, NoArg, Signalling
  <2>6. CASE ErrPrepareToDeallocate(th)
    BY <2>6, ThreadRoles, PcType, ReturnsTo DEF ErrPrepareToDeallocate, IInv, Roles, Locks, Goto, Forget, NoArg, Signalling
  <2>7. CASE StopOrSkip(th)
    BY <2>7, ThreadRoles, PcType, ReturnsTo DEF StopOrSkip, IInv, Roles, Locks, Goto, Forget, NoArg, Signalling
  <2>8. CASE PbucketVERIFreeAndGetNextOldestBucket(th)
    BY <2>8, ThreadRoles, PcType, ReturnsTo DEF PbucketVERIFreeAndGetNextOldestBucket, IInv, Roles, Locks, Goto, Forget, NoArg, Signalling
  <2>9. CASE EndClean(th)
    <3>1. \E l : Goto(th, l)
      BY <2>9, EndCleanTo
    <3>2. arg' = arg
      BY <2>9 DEF EndClean
    <3> QED
      BY <2>9, <3>1, <3>2, EndCleanTo, ThreadRoles, PcType DEF IInv, Roles, Goto, Signalling
  <2>10. CASE CleanPerformed(th)
    BY <2>10, ThreadRoles, PcType, ReturnsTo DEF CleanPerformed, IInv, Roles, Locks, Goto, Forget, NoArg, Signalling
  <2>11. ASSUME NEW db \in Db \cup {all}, StartClean(th, db) PROVE Roles'
    BY <2>11, ThreadRoles, PcType, ReturnsTo DEF StartClean, IInv, Roles, Locks, Goto, Forget, NoArg, Signalling
  <2> QED
    BY <1>2, <2>1, <2>2, <2>3, <2>4, <2>5, <2>6, <2>7, <2>8, <2>9, <2>10, <2>11 DEF CleanStep
<1>3. ASSUME NEW th \in Thread, TermStep(th) PROVE Roles'
  <2>1. CASE BeginTerm(th)
    BY <2>1, ThreadRoles, PcType, ReturnsTo DEF BeginTerm, IInv, Roles, Locks, Goto, Forget, NoArg, Signalling
  <2>2. CASE TMTerm(th)
    BY <2>2, ThreadRoles, PcType, ReturnsTo DEF TMTerm, IInv, Roles, Locks, Goto, Forget, NoArg, Signalling
  <2>3. CASE TooManyActiveUsers(th)
    BY <2>3, ThreadRoles, PcType, ReturnsTo DEF TooManyActiveUsers, IInv, Roles, Locks, Goto, Forget, NoArg, Signalling
  <2>4. CASE VERTerm(th)
    BY <2>4, ThreadRoles, PcType, ReturnsTo DEF VERTerm, IInv, Roles, Locks, Goto, Forget, NoArg, Signalling
  <2>5. CASE WaitCleanDone(th)
    BY <2>5, ThreadRoles, PcType, ReturnsTo DEF WaitCleanDone, IInv, Roles, Locks, Goto, Forget, NoArg, Signalling
  <2> QED
    BY <1>3, <2>1, <2>2, <2>3, <2>4, <2>5 DEF TermStep
<1>4. ASSUME NEW s \in Session, SessionStep(s) PROVE Roles'
  <2>1. CASE ErrVERIBUAllocBucket(s)
    <3>1. CASE Len(list) < cbucketMost
      BY <2>1, <3>1, ThreadRoles, PcType DEF ErrVERIBUAllocBucket, IInv, Roles, Goto, Forget, NoArg, Signalling
    <3>2. CASE ~(Len(list) < cbucketMost)
      BY <2>1, <3>2, ThreadRoles, PcType DEF ErrVERIBUAllocBucket, IInv, Roles, Goto, Signalling
    <3> QED
      BY <3>1, <3>2
  <2>2. CASE FWait(s)
    BY <2>2, ThreadRoles, PcType, ReturnsTo DEF FWait, IInv, Roles, Locks, Goto, Forget, NoArg, Signalling
  <2>3. CASE RetryAlloc(s)
    BY <2>3, ThreadRoles, PcType, ReturnsTo DEF RetryAlloc, IInv, Roles, Locks, Goto, Forget, NoArg, Signalling
  <2>4. ASSUME NEW dt \in Db, NEW f \in BOOLEAN, ErrVERICreateRCE(s, dt, f) PROVE Roles'
    <3>1. CASE Fits
      BY <2>4, <3>1 DEF ErrVERICreateRCE, IInv, Roles
    <3>2. CASE ~Fits
      BY <2>4, <3>2, ThreadRoles, PcType DEF ErrVERICreateRCE, IInv, Roles, Goto, Signalling
    <3> QED
      BY <3>1, <3>2
  <2> QED
    BY <1>4, <2>1, <2>2, <2>3, <2>4 DEF SessionStep
<1>5. ASSUME NEW r \in DOMAIN rce, Age(r) PROVE Roles'
  BY <1>5, ThreadRoles, PcType, ReturnsTo DEF Age, IInv, Roles, Locks, Goto, Forget, NoArg, Signalling
<1> QED
  BY <1>1, <1>2, <1>3, <1>4, <1>5 DEF Next

\* One cleanup at a time stays asked for.
LEMMA AskedKept == ASSUME IInv, Next PROVE Asked'
<1>1. ASSUME NEW th \in Thread, SignalStep(th) PROVE Asked'
  <2>1. CASE Signal(th)
    BY <2>1, ThreadRoles, PcType, ReturnsTo DEF Signal, Goto, Signalling, signal, IInv, Roles, Asked, Holding, Asking
  <2>2. CASE VERSignalCleanup(th)
    BY <2>2, ThreadRoles, PcType, ReturnsTo DEF VERSignalCleanup, Goto, Signalling, signal, IInv, Roles, Asked, Holding, Asking
  <2>3. CASE ResetSignal(th)
    BY <2>3, ThreadRoles, PcType, ReturnsTo DEF ResetSignal, Goto, Signalling, signal, IInv, Roles, Asked, Holding, Asking
  <2>4. CASE ErrTMPost(th)
    BY <2>4, ThreadRoles, PcType, ReturnsTo DEF ErrTMPost, Goto, Signalling, signal, IInv, Roles, Asked, Holding, Asking
  <2>5. CASE SetSignal(th)
    BY <2>5, ThreadRoles, PcType, ReturnsTo DEF SetSignal, Goto, Signalling, signal, IInv, Roles, Asked, Holding, Asking
  <2>6. CASE WithdrawSignal(th)
    BY <2>6, ThreadRoles, PcType, ReturnsTo DEF WithdrawSignal, Goto, Signalling, signal, IInv, Roles, Asked, Holding, Asking
  <2> QED
    BY <1>1, <2>1, <2>2, <2>3, <2>4, <2>5, <2>6 DEF SignalStep
<1>2. ASSUME NEW th \in Thread, CleanStep(th) PROVE Asked'
  <2>1. CASE RunTask(th)
    BY <2>1, ThreadRoles, PcType, ReturnsTo DEF RunTask, Goto, Signalling, signal, IInv, Roles, Asked, Holding, Asking
  <2>2. CASE Detach(th)
    BY <2>2, ThreadRoles, PcType, ReturnsTo DEF Detach, Goto, Signalling, signal, IInv, Roles, Asked, Holding, Asking
  <2>3. CASE VisitBucket(th)
    BY <2>3, ThreadRoles, PcType, ReturnsTo DEF VisitBucket, Goto, Signalling, signal, IInv, Roles, Asked, Holding, Asking
  <2>4. CASE TestRCE(th)
    BY <2>4, ThreadRoles, PcType, ReturnsTo DEF TestRCE, Goto, Signalling, signal, IInv, Roles, Asked, Holding, Asking
  <2>5. CASE PassRCE(th)
    BY <2>5, ThreadRoles, PcType, ReturnsTo DEF PassRCE, Goto, Signalling, signal, IInv, Roles, Asked, Holding, Asking
  <2>6. CASE ErrPrepareToDeallocate(th)
    BY <2>6, ThreadRoles, PcType, ReturnsTo DEF ErrPrepareToDeallocate, Goto, Signalling, signal, IInv, Roles, Asked, Holding, Asking
  <2>7. CASE StopOrSkip(th)
    BY <2>7, ThreadRoles, PcType, ReturnsTo DEF StopOrSkip, Goto, Signalling, signal, IInv, Roles, Asked, Holding, Asking
  <2>8. CASE PbucketVERIFreeAndGetNextOldestBucket(th)
    BY <2>8, ThreadRoles, PcType, ReturnsTo DEF PbucketVERIFreeAndGetNextOldestBucket, Goto, Signalling, signal, IInv, Roles, Asked, Holding, Asking
  <2>9. CASE EndClean(th)
    <3>1. PICK l : Goto(th, l)
      BY <2>9, EndCleanTo
    <3>2. queued' = queued /\ fVERCleanUpWait' = (IF th \in Worker /\ fVERCleanUpWait = 1 THEN 0 ELSE fVERCleanUpWait)
      BY <2>9 DEF EndClean
    <3>3. pc'[th] = l /\ \A u \in Thread \ {th} : pc'[u] = pc[u]
      BY <3>1, PcType DEF Goto
    <3> QED
      BY <2>9, <3>2, <3>3, EndCleanTo, ThreadRoles, PcType, Flags DEF IInv, Roles, Asked, Holding, Asking
  <2>10. CASE CleanPerformed(th)
    BY <2>10, ThreadRoles, PcType, ReturnsTo DEF CleanPerformed, Goto, Signalling, signal, IInv, Roles, Asked, Holding, Asking
  <2>11. ASSUME NEW db \in Db \cup {all}, StartClean(th, db) PROVE Asked'
    BY <2>11, ThreadRoles, PcType, ReturnsTo DEF StartClean, Goto, Signalling, signal, IInv, Roles, Asked, Holding, Asking
  <2> QED
    BY <1>2, <2>1, <2>2, <2>3, <2>4, <2>5, <2>6, <2>7, <2>8, <2>9, <2>10, <2>11 DEF CleanStep
<1>3. ASSUME NEW th \in Thread, TermStep(th) PROVE Asked'
  <2>1. CASE BeginTerm(th)
    BY <2>1, ThreadRoles, PcType, ReturnsTo DEF BeginTerm, Goto, Signalling, signal, IInv, Roles, Asked, Holding, Asking
  <2>2. CASE TMTerm(th)
    BY <2>2, ThreadRoles, PcType, ReturnsTo DEF TMTerm, Goto, Signalling, signal, IInv, Roles, Asked, Holding, Asking
  <2>3. CASE TooManyActiveUsers(th)
    BY <2>3, ThreadRoles, PcType, ReturnsTo DEF TooManyActiveUsers, Goto, Signalling, signal, IInv, Roles, Asked, Holding, Asking
  <2>4. CASE VERTerm(th)
    BY <2>4, ThreadRoles, PcType, ReturnsTo DEF VERTerm, Goto, Signalling, signal, IInv, Roles, Asked, Holding, Asking
  <2>5. CASE WaitCleanDone(th)
    BY <2>5, ThreadRoles, PcType, ReturnsTo DEF WaitCleanDone, Goto, Signalling, signal, IInv, Roles, Asked, Holding, Asking
  <2> QED
    BY <1>3, <2>1, <2>2, <2>3, <2>4, <2>5 DEF TermStep
<1>4. ASSUME NEW s \in Session, SessionStep(s) PROVE Asked'
  <2>1. CASE ErrVERIBUAllocBucket(s)
    <3>1. PICK l \in {"idle", "wait"} : Goto(s, l)
      BY <2>1 DEF ErrVERIBUAllocBucket
    <3>2. pc'[s] = l /\ \A u \in Thread \ {s} : pc'[u] = pc[u]
      BY <3>1, ThreadRoles, PcType DEF Goto
    <3>3. pc[s] = "alloc" /\ UNCHANGED signal
      BY <2>1 DEF ErrVERIBUAllocBucket
    <3> QED
      BY <3>1, <3>2, <3>3, ThreadRoles, PcType, Flags DEF signal, IInv, Roles, Asked, Holding, Asking
  <2>2. CASE FWait(s)
    BY <2>2, ThreadRoles, PcType, ReturnsTo DEF FWait, Goto, Signalling, signal, IInv, Roles, Asked, Holding, Asking
  <2>3. CASE RetryAlloc(s)
    BY <2>3, ThreadRoles, PcType, ReturnsTo DEF RetryAlloc, Goto, Signalling, signal, IInv, Roles, Asked, Holding, Asking
  <2>4. ASSUME NEW dt \in Db, NEW f \in BOOLEAN, ErrVERICreateRCE(s, dt, f) PROVE Asked'
    <3>1. CASE Fits
      BY <2>4, <3>1 DEF ErrVERICreateRCE, signal, locks, mode, IInv, Roles, Asked, Holding, Asking
    <3>2. CASE ~Fits
      BY <2>4, <3>2, ThreadRoles, PcType DEF ErrVERICreateRCE, Goto, signal, mode, IInv, Roles, Asked, Holding, Asking
    <3> QED
      BY <3>1, <3>2
  <2> QED
    BY <1>4, <2>1, <2>2, <2>3, <2>4 DEF SessionStep
<1>5. ASSUME NEW r \in DOMAIN rce, Age(r) PROVE Asked'
  BY <1>5, ThreadRoles, PcType, ReturnsTo DEF Age, Goto, Signalling, signal, IInv, Roles, Asked, Holding, Asking
<1> QED
  BY <1>1, <1>2, <1>3, <1>4, <1>5 DEF Next

\* Whoever asked for a cleanup, or carries it out, sets the signal in the end.
LEMMA SignalFollowsKept == ASSUME IInv, Next PROVE SignalFollows'
<1>1. ASSUME NEW th \in Thread, SignalStep(th) PROVE SignalFollows'
  <2>1. CASE Signal(th)
    BY <2>1, ThreadRoles, PcType, Flags, ReturnsTo DEF Signal, Goto, Signalling, signal, IInv, Roles, SignalFollows
  <2>2. CASE VERSignalCleanup(th)
    BY <2>2, ThreadRoles, PcType, Flags, ReturnsTo DEF VERSignalCleanup, Goto, Signalling, signal, IInv, Roles, SignalFollows
  <2>3. CASE ResetSignal(th)
    BY <2>3, ThreadRoles, PcType, Flags, ReturnsTo DEF ResetSignal, Goto, Signalling, signal, IInv, Roles, SignalFollows
  <2>4. CASE ErrTMPost(th)
    BY <2>4, ThreadRoles, PcType, Flags, ReturnsTo DEF ErrTMPost, Goto, Signalling, signal, IInv, Roles, SignalFollows
  <2>5. CASE SetSignal(th)
    BY <2>5, ThreadRoles, PcType, Flags, ReturnsTo DEF SetSignal, Goto, Signalling, signal, IInv, Roles, SignalFollows
  <2>6. CASE WithdrawSignal(th)
    BY <2>6, ThreadRoles, PcType, Flags, ReturnsTo DEF WithdrawSignal, Goto, Signalling, signal, IInv, Roles, SignalFollows
  <2> QED
    BY <1>1, <2>1, <2>2, <2>3, <2>4, <2>5, <2>6 DEF SignalStep
<1>2. ASSUME NEW th \in Thread, CleanStep(th) PROVE SignalFollows'
  <2>1. CASE RunTask(th)
    BY <2>1, ThreadRoles, PcType, Flags, ReturnsTo DEF RunTask, Goto, Signalling, signal, IInv, Roles, SignalFollows
  <2>2. CASE Detach(th)
    BY <2>2, ThreadRoles, PcType, Flags, ReturnsTo DEF Detach, Goto, Signalling, signal, IInv, Roles, SignalFollows
  <2>3. CASE VisitBucket(th)
    BY <2>3, ThreadRoles, PcType, Flags, ReturnsTo DEF VisitBucket, Goto, Signalling, signal, IInv, Roles, SignalFollows
  <2>4. CASE TestRCE(th)
    BY <2>4, ThreadRoles, PcType, Flags, ReturnsTo DEF TestRCE, Goto, Signalling, signal, IInv, Roles, SignalFollows
  <2>5. CASE PassRCE(th)
    BY <2>5, ThreadRoles, PcType, Flags, ReturnsTo DEF PassRCE, Goto, Signalling, signal, IInv, Roles, SignalFollows
  <2>6. CASE ErrPrepareToDeallocate(th)
    BY <2>6, ThreadRoles, PcType, Flags, ReturnsTo DEF ErrPrepareToDeallocate, Goto, Signalling, signal, IInv, Roles, SignalFollows
  <2>7. CASE StopOrSkip(th)
    BY <2>7, ThreadRoles, PcType, Flags, ReturnsTo DEF StopOrSkip, Goto, Signalling, signal, IInv, Roles, SignalFollows
  <2>8. CASE PbucketVERIFreeAndGetNextOldestBucket(th)
    BY <2>8, ThreadRoles, PcType, Flags, ReturnsTo DEF PbucketVERIFreeAndGetNextOldestBucket, Goto, Signalling, signal, IInv, Roles, SignalFollows
  <2>9. CASE EndClean(th)
    <3>1. PICK l : Goto(th, l)
      BY <2>9, EndCleanTo
    <3>2. queued' = queued /\ msig' = msig
      BY <2>9 DEF EndClean
    <3>3. pc'[th] = l /\ \A u \in Thread \ {th} : pc'[u] = pc[u]
      BY <3>1, PcType DEF Goto
    <3> QED
      BY <2>9, <3>2, <3>3, EndCleanTo, ThreadRoles, PcType, Flags DEF IInv, Roles, SignalFollows
  <2>10. CASE CleanPerformed(th)
    BY <2>10, ThreadRoles, PcType, Flags, ReturnsTo DEF CleanPerformed, Goto, Signalling, signal, IInv, Roles, SignalFollows
  <2>11. ASSUME NEW db \in Db \cup {all}, StartClean(th, db) PROVE SignalFollows'
    BY <2>11, ThreadRoles, PcType, Flags, ReturnsTo DEF StartClean, Goto, Signalling, signal, IInv, Roles, SignalFollows
  <2> QED
    BY <1>2, <2>1, <2>2, <2>3, <2>4, <2>5, <2>6, <2>7, <2>8, <2>9, <2>10, <2>11 DEF CleanStep
<1>3. ASSUME NEW th \in Thread, TermStep(th) PROVE SignalFollows'
  <2>1. CASE BeginTerm(th)
    BY <2>1, ThreadRoles, PcType, Flags, ReturnsTo DEF BeginTerm, Goto, Signalling, signal, IInv, Roles, SignalFollows
  <2>2. CASE TMTerm(th)
    BY <2>2, ThreadRoles, PcType, Flags, ReturnsTo DEF TMTerm, Goto, Signalling, signal, IInv, Roles, SignalFollows
  <2>3. CASE TooManyActiveUsers(th)
    BY <2>3, ThreadRoles, PcType, Flags, ReturnsTo DEF TooManyActiveUsers, Goto, Signalling, signal, IInv, Roles, SignalFollows
  <2>4. CASE VERTerm(th)
    BY <2>4, ThreadRoles, PcType, Flags, ReturnsTo DEF VERTerm, Goto, Signalling, signal, IInv, Roles, SignalFollows
  <2>5. CASE WaitCleanDone(th)
    BY <2>5, ThreadRoles, PcType, Flags, ReturnsTo DEF WaitCleanDone, Goto, Signalling, signal, IInv, Roles, SignalFollows
  <2> QED
    BY <1>3, <2>1, <2>2, <2>3, <2>4, <2>5 DEF TermStep
<1>4. ASSUME NEW s \in Session, SessionStep(s) PROVE SignalFollows'
  <2>1. CASE ErrVERIBUAllocBucket(s)
    <3>1. PICK l \in {"idle", "wait"} : Goto(s, l)
      BY <2>1 DEF ErrVERIBUAllocBucket
    <3>2. pc'[s] = l /\ \A u \in Thread \ {s} : pc'[u] = pc[u]
      BY <3>1, ThreadRoles, PcType DEF Goto
    <3>3. pc[s] = "alloc" /\ UNCHANGED signal
      BY <2>1 DEF ErrVERIBUAllocBucket
    <3> QED
      BY <3>1, <3>2, <3>3, ThreadRoles, PcType, Flags DEF signal, IInv, Roles, SignalFollows
  <2>2. CASE FWait(s)
    BY <2>2, ThreadRoles, PcType, Flags, ReturnsTo DEF FWait, Goto, Signalling, signal, IInv, Roles, SignalFollows
  <2>3. CASE RetryAlloc(s)
    BY <2>3, ThreadRoles, PcType, Flags, ReturnsTo DEF RetryAlloc, Goto, Signalling, signal, IInv, Roles, SignalFollows
  <2>4. ASSUME NEW dt \in Db, NEW f \in BOOLEAN, ErrVERICreateRCE(s, dt, f) PROVE SignalFollows'
    <3>1. CASE Fits
      BY <2>4, <3>1 DEF ErrVERICreateRCE, signal, locks, mode, IInv, Roles, SignalFollows
    <3>2. CASE ~Fits
      BY <2>4, <3>2, ThreadRoles, PcType DEF ErrVERICreateRCE, Goto, signal, mode, IInv, Roles, SignalFollows
    <3> QED
      BY <3>1, <3>2
  <2> QED
    BY <1>4, <2>1, <2>2, <2>3, <2>4 DEF SessionStep
<1>5. ASSUME NEW r \in DOMAIN rce, Age(r) PROVE SignalFollows'
  BY <1>5, ThreadRoles, PcType, Flags, ReturnsTo DEF Age, Goto, Signalling, signal, IInv, Roles, SignalFollows
<1> QED
  BY <1>1, <1>2, <1>3, <1>4, <1>5 DEF Next

\* The locals of the cleaner.
LEMMA CleanType == ASSUME IInv PROVE clean \in CleanLocals
BY DEF IInv, Types

\* The critical sections stay with who owns them.
LEMMA LocksKept == ASSUME IInv, Next PROVE Locks'
<1>1. ASSUME NEW th \in Thread, SignalStep(th) PROVE Locks'
  <2>1. CASE Signal(th)
    BY <2>1, ThreadRoles, PcType, CleanType, ReturnsTo DEF Signal, Goto, Signalling, locks, CleanLocals, IInv, Roles, Locks
  <2>2. CASE VERSignalCleanup(th)
    BY <2>2, ThreadRoles, PcType, CleanType, ReturnsTo DEF VERSignalCleanup, Goto, Signalling, locks, CleanLocals, IInv, Roles, Locks
  <2>3. CASE ResetSignal(th)
    BY <2>3, ThreadRoles, PcType, CleanType, ReturnsTo DEF ResetSignal, Goto, Signalling, locks, CleanLocals, IInv, Roles, Locks
  <2>4. CASE ErrTMPost(th)
    BY <2>4, ThreadRoles, PcType, CleanType, ReturnsTo DEF ErrTMPost, Goto, Signalling, locks, CleanLocals, IInv, Roles, Locks
  <2>5. CASE SetSignal(th)
    BY <2>5, ThreadRoles, PcType, CleanType, ReturnsTo DEF SetSignal, Goto, Signalling, locks, CleanLocals, IInv, Roles, Locks
  <2>6. CASE WithdrawSignal(th)
    BY <2>6, ThreadRoles, PcType, CleanType, ReturnsTo DEF WithdrawSignal, Goto, Signalling, locks, CleanLocals, IInv, Roles, Locks
  <2> QED
    BY <1>1, <2>1, <2>2, <2>3, <2>4, <2>5, <2>6 DEF SignalStep
<1>2. ASSUME NEW th \in Thread, CleanStep(th) PROVE Locks'
  <2>1. CASE RunTask(th)
    BY <2>1, ThreadRoles, PcType, CleanType, ReturnsTo DEF RunTask, Goto, Signalling, locks, CleanLocals, IInv, Roles, Locks
  <2>2. CASE Detach(th)
    BY <2>2, ThreadRoles, PcType, CleanType, ReturnsTo DEF Detach, Goto, Signalling, locks, CleanLocals, IInv, Roles, Locks
  <2>3. CASE VisitBucket(th)
    BY <2>3, ThreadRoles, PcType, CleanType, ReturnsTo DEF VisitBucket, Goto, Signalling, locks, CleanLocals, IInv, Roles, Locks
  <2>4. CASE TestRCE(th)
    <3>1. critClean = th /\ critClean' = th /\ pc' = pc /\ clean.at = "test"
      BY <2>4 DEF TestRCE
    <3>2. clean'.at = (IF AtEnd THEN "free" ELSE "rce") /\ clean'.db = clean.db
      BY <2>4, CleanType DEF TestRCE, CleanLocals
    <3>3. critBucket \in Session \cup {none}
      BY <3>1 DEF IInv, Locks
    <3>4. CASE AtEnd /\ clean.fNeed
      <4>1. critBucket = none /\ critBucket' = th
        BY <2>4, <3>4 DEF TestRCE
      <4> QED
        BY <3>1, <3>2, <3>4, <4>1, ThreadRoles, PcType DEF IInv, Locks
    <3>5. CASE ~(AtEnd /\ clean.fNeed)
      <4>1. critBucket' = critBucket
        BY <2>4, <3>5 DEF TestRCE
      <4> QED
        BY <3>1, <3>2, <3>3, <4>1, ThreadRoles, PcType DEF IInv, Locks
    <3> QED
      BY <3>4, <3>5
  <2>5. CASE PassRCE(th)
    BY <2>5, ThreadRoles, PcType, CleanType, ReturnsTo DEF PassRCE, Goto, Signalling, locks, CleanLocals, IInv, Roles, Locks
  <2>6. CASE ErrPrepareToDeallocate(th)
    BY <2>6, ThreadRoles, PcType, CleanType, ReturnsTo DEF ErrPrepareToDeallocate, Goto, Signalling, locks, CleanLocals, IInv, Roles, Locks
  <2>7. CASE StopOrSkip(th)
    <3>1. clean'.at \in {"test", "over"} /\ clean'.db = clean.db
      BY <2>7, CleanType DEF StopOrSkip, CleanLocals
    <3>2. critClean = th /\ clean.at = "rce" /\ UNCHANGED <<locks, pc>>
      BY <2>7 DEF StopOrSkip
    <3> QED
      BY <3>1, <3>2, ThreadRoles DEF locks, IInv, Locks
  <2>8. CASE PbucketVERIFreeAndGetNextOldestBucket(th)
    <3>1. clean'.at \in {"visit", "over"} /\ clean'.db = clean.db
      BY <2>8, CleanType DEF PbucketVERIFreeAndGetNextOldestBucket, CleanLocals
    <3>2. critClean = th /\ clean.at = "free" /\ critBucket \in {none, th} /\ critBucket' = none /\ critClean' = th /\ pc' = pc
      BY <2>8 DEF PbucketVERIFreeAndGetNextOldestBucket
    <3>3. th \notin Session
      BY <3>2, ThreadRoles, PcType DEF IInv, Locks, Roles, Signalling
    <3> QED
      BY <3>1, <3>2, <3>3, ThreadRoles DEF IInv, Locks
  <2>9. CASE EndClean(th)
    <3>1. PICK l : Goto(th, l)
      BY <2>9, EndCleanTo
    <3>2. critBucket' = critBucket /\ critClean' = none /\ clean' = Idle
      BY <2>9 DEF EndClean
    <3>3. \A u \in Thread \ {th} : pc'[u] = pc[u]
      BY <3>1, PcType DEF Goto
    <3>4. th \notin Session /\ clean'.at = "off"
      BY <2>9, <3>2, EndCleanTo, ThreadRoles DEF Idle
    <3> QED
      BY <2>9, <3>2, <3>3, <3>4, EndCleanTo, ThreadRoles, PcType DEF IInv, Roles, Locks
  <2>10. CASE CleanPerformed(th)
    BY <2>10, ThreadRoles, PcType, CleanType, ReturnsTo DEF CleanPerformed, Goto, Signalling, locks, CleanLocals, IInv, Roles, Locks
  <2>11. ASSUME NEW db \in Db \cup {all}, StartClean(th, db) PROVE Locks'
    <3>1. critBucket = none /\ critBucket' = none /\ critClean' = th /\ clean'.at # "off" /\ clean'.db = db /\ pc' = pc
      BY <2>11 DEF StartClean, Idle
    <3> QED
      BY <2>11, <3>1, ThreadRoles, PcType DEF StartClean, IInv, Locks, Roles, Signalling
  <2> QED
    BY <1>2, <2>1, <2>2, <2>3, <2>4, <2>5, <2>6, <2>7, <2>8, <2>9, <2>10, <2>11 DEF CleanStep
<1>3. ASSUME NEW th \in Thread, TermStep(th) PROVE Locks'
  <2>1. CASE BeginTerm(th)
    BY <2>1, ThreadRoles, PcType, CleanType, ReturnsTo DEF BeginTerm, Goto, Signalling, locks, CleanLocals, IInv, Roles, Locks
  <2>2. CASE TMTerm(th)
    BY <2>2, ThreadRoles, PcType, CleanType, ReturnsTo DEF TMTerm, Goto, Signalling, locks, CleanLocals, IInv, Roles, Locks
  <2>3. CASE TooManyActiveUsers(th)
    BY <2>3, ThreadRoles, PcType, CleanType, ReturnsTo DEF TooManyActiveUsers, Goto, Signalling, locks, CleanLocals, IInv, Roles, Locks
  <2>4. CASE VERTerm(th)
    BY <2>4, ThreadRoles, PcType, CleanType, ReturnsTo DEF VERTerm, Goto, Signalling, locks, CleanLocals, IInv, Roles, Locks
  <2>5. CASE WaitCleanDone(th)
    BY <2>5, ThreadRoles, PcType, CleanType, ReturnsTo DEF WaitCleanDone, Goto, Signalling, locks, CleanLocals, IInv, Roles, Locks
  <2> QED
    BY <1>3, <2>1, <2>2, <2>3, <2>4, <2>5 DEF TermStep
<1>4. ASSUME NEW s \in Session, SessionStep(s) PROVE Locks'
  <2>1. CASE ErrVERIBUAllocBucket(s)
    <3>1. PICK l \in {"idle", "wait"} : Goto(s, l)
      BY <2>1 DEF ErrVERIBUAllocBucket
    <3>2. pc'[s] = l /\ \A u \in Thread \ {s} : pc'[u] = pc[u]
      BY <3>1, ThreadRoles, PcType DEF Goto
    <3>3. pc[s] = "alloc" /\ critBucket' = none /\ critClean' = critClean /\ clean' = clean
      BY <2>1 DEF ErrVERIBUAllocBucket, Unlock
    <3> QED
      BY <3>1, <3>2, <3>3, ThreadRoles, PcType DEF IInv, Roles, Locks, Signalling
  <2>2. CASE FWait(s)
    BY <2>2, ThreadRoles, PcType, CleanType, ReturnsTo DEF FWait, Goto, Signalling, locks, CleanLocals, IInv, Roles, Locks
  <2>3. CASE RetryAlloc(s)
    BY <2>3, ThreadRoles, PcType, CleanType, ReturnsTo DEF RetryAlloc, Goto, Signalling, locks, CleanLocals, IInv, Roles, Locks
  <2>4. ASSUME NEW dt \in Db, NEW f \in BOOLEAN, ErrVERICreateRCE(s, dt, f) PROVE Locks'
    <3>1. CASE Fits
      BY <2>4, <3>1 DEF ErrVERICreateRCE, locks, IInv, Locks
    <3>2. CASE ~Fits
      BY <2>4, <3>2, ThreadRoles, PcType DEF ErrVERICreateRCE, Goto, IInv, Locks, Roles, Signalling
    <3> QED
      BY <3>1, <3>2
  <2> QED
    BY <1>4, <2>1, <2>2, <2>3, <2>4 DEF SessionStep
<1>5. ASSUME NEW r \in DOMAIN rce, Age(r) PROVE Locks'
  BY <1>5, ThreadRoles, PcType, CleanType, ReturnsTo DEF Age, Goto, Signalling, locks, CleanLocals, IInv, Roles, Locks
<1> QED
  BY <1>1, <1>2, <1>3, <1>4, <1>5 DEF Next

\* The RCEs and the list of buckets.
LEMMA RceType == ASSUME IInv PROVE rce \in Seq(RCE) /\ list \in Seq(Bucket)
BY DEF IInv, Types, TypeOK, RCE

\* The state and the database of an RCE.
LEMMA RceSt == ASSUME IInv, NEW r \in DOMAIN rce PROVE rce[r].st \in {"active", "committed", "old", "null"} /\ rce[r].db \in Db
<1>1. rce[r] \in RCE
  BY RceType
<1> QED
  BY <1>1 DEF RCE

\* The RCE that the cleaner looks at is one.
LEMMA CurrentIn == ASSUME IInv, clean.at = "rce" PROVE Current \in DOMAIN rce
<1>1. clean.b \in 1..Len(list) /\ clean.i \in list[clean.b].prceOldest..Len(list[clean.b].rces)
  BY CleanType, RceType DEF IInv, Walk, CleanLocals, Bucket
<1>2. list[clean.b].rces \in Seq(1..Len(rce)) /\ list[clean.b].prceOldest \in 1..(Len(list[clean.b].rces) + 1)
  BY <1>1, RceType DEF IInv, Types, TypeOK
<1>3. clean.i \in 1..Len(list[clean.b].rces)
  BY <1>1, <1>2
<1>4. list[clean.b].rces[clean.i] \in 1..Len(rce)
  BY <1>2, <1>3
<1> QED
  BY <1>4, RceType DEF Current

\* The list without one of its buckets.
LEMMA FreedBucket ==
    ASSUME NEW S, NEW l \in Seq(S), NEW b \in 1..Len(l), NEW m, m = SubSeq(l, 1, b - 1) \o SubSeq(l, b + 1, Len(l))
    PROVE  /\ m \in Seq(S) /\ Len(m) = Len(l) - 1
           /\ \A c \in 1..(Len(l) - 1) : m[c] = IF c < b THEN l[c] ELSE l[c + 1]
<1>a. SubSeq(l, 1, b - 1) \in Seq(S) /\ Len(SubSeq(l, 1, b - 1)) = b - 1 /\ \A c \in 1..(b - 1) : SubSeq(l, 1, b - 1)[c] = l[c]
  OBVIOUS
<1>b. /\ SubSeq(l, b + 1, Len(l)) \in Seq(S)
      /\ Len(SubSeq(l, b + 1, Len(l))) = Len(l) - b
      /\ \A c \in 1..(Len(l) - b) : SubSeq(l, b + 1, Len(l))[c] = l[b + c]
  OBVIOUS
<1>1. PICK p : p \in Seq(S) /\ p = SubSeq(l, 1, b - 1) /\ Len(p) = b - 1 /\ \A c \in 1..(b - 1) : p[c] = l[c]
  BY <1>a, Zenon
<1>2. PICK q :
        /\ q \in Seq(S) /\ q = SubSeq(l, b + 1, Len(l))
        /\ Len(q) = Len(l) - b
        /\ \A c \in 1..(Len(l) - b) : q[c] = l[b + c]
  BY <1>b, Zenon
<1>3. m = p \o q
  BY <1>1, <1>2
<1>4. /\ p \o q \in Seq(S)
      /\ Len(p \o q) = Len(p) + Len(q)
      /\ \A c \in 1..(Len(p) + Len(q)) : (p \o q)[c] = IF c <= Len(p) THEN p[c] ELSE q[c - Len(p)]
  <2>1. p \in Seq(S) /\ q \in Seq(S)
    BY <1>1, <1>2, Zenon
  <2> QED
    BY <2>1, ConcatProperties
<1>c. Len(p) = b - 1 /\ Len(q) = Len(l) - b
  BY <1>1, <1>2, Zenon
<1>5. m \in Seq(S) /\ Len(m) = Len(l) - 1
  <2>1. m \in Seq(S) /\ Len(m) = Len(p) + Len(q)
    BY <1>3, <1>4, Zenon
  <2>2. (b - 1) + (Len(l) - b) = Len(l) - 1
    OBVIOUS
  <2> QED
    BY <1>c, <2>1, <2>2, Zenon
<1>6. \A c \in 1..(b - 1) : m[c] = l[c]
  <2>1. TAKE c \in 1..(b - 1)
  <2>2. c \in 1..(Len(p) + Len(q)) /\ c <= Len(p)
    BY <1>c
  <2>3. m[c] = p[c]
    BY <1>3, <1>4, <2>2
  <2> QED
    BY <1>1, <2>3
<1>7. \A c \in b..(Len(l) - 1) : m[c] = l[c + 1]
  <2>1. TAKE c \in b..(Len(l) - 1)
  <2>2. c \in 1..(Len(p) + Len(q)) /\ ~(c <= Len(p)) /\ Len(p) = b - 1
    BY <1>c
  <2>3. m[c] = q[c - (b - 1)]
    BY <1>3, <1>4, <2>2
  <2>4. c - (b - 1) \in 1..(Len(l) - b) /\ b + (c - (b - 1)) = c + 1
    OBVIOUS
  <2> QED
    BY <1>2, <2>3, <2>4
<1>8. \A c \in 1..(Len(l) - 1) : m[c] = IF c < b THEN l[c] ELSE l[c + 1]
  <2>1. TAKE c \in 1..(Len(l) - 1)
  <2>2. CASE c < b
    <3>1. c \in 1..(b - 1)
      BY <2>2
    <3> QED
      BY <1>6, <2>2, <3>1
  <2>3. CASE ~(c < b)
    <3>1. c \in b..(Len(l) - 1)
      BY <2>3
    <3> QED
      BY <1>7, <2>3, <3>1
  <2> QED
    BY <2>2, <2>3
<1> QED
  BY <1>5, <1>8

\* A shutdown goes through its steps in order.
LEMMA EndingKept == ASSUME IInv, Next PROVE Ending'
<1>1. ASSUME NEW th \in Thread, SignalStep(th) PROVE Ending'
  <2>1. CASE Signal(th)
    BY <2>1, ThreadRoles, PcType, Flags, ReturnsTo DEF Signal, Goto, Signalling, Asking, Open, signal, locks, mode, store, IInv, Roles, Locks, Asked, Holding, Ending
  <2>2. CASE VERSignalCleanup(th)
    BY <2>2, ThreadRoles, PcType, Flags, ReturnsTo DEF VERSignalCleanup, Goto, Signalling, Asking, Open, signal, locks, mode, store, IInv, Roles, Locks, Asked, Holding, Ending
  <2>3. CASE ResetSignal(th)
    BY <2>3, ThreadRoles, PcType, Flags, ReturnsTo DEF ResetSignal, Goto, Signalling, Asking, Open, signal, locks, mode, store, IInv, Roles, Locks, Asked, Holding, Ending
  <2>4. CASE ErrTMPost(th)
    BY <2>4, ThreadRoles, PcType, Flags, ReturnsTo DEF ErrTMPost, Goto, Signalling, Asking, Open, signal, locks, mode, store, IInv, Roles, Locks, Asked, Holding, Ending
  <2>5. CASE SetSignal(th)
    BY <2>5, ThreadRoles, PcType, Flags, ReturnsTo DEF SetSignal, Goto, Signalling, Asking, Open, signal, locks, mode, store, IInv, Roles, Locks, Asked, Holding, Ending
  <2>6. CASE WithdrawSignal(th)
    BY <2>6, ThreadRoles, PcType, Flags, ReturnsTo DEF WithdrawSignal, Goto, Signalling, Asking, Open, signal, locks, mode, store, IInv, Roles, Locks, Asked, Holding, Ending
  <2> QED
    BY <1>1, <2>1, <2>2, <2>3, <2>4, <2>5, <2>6 DEF SignalStep
<1>2. ASSUME NEW th \in Thread, CleanStep(th) PROVE Ending'
  <2>1. CASE RunTask(th)
    BY <2>1, ThreadRoles, PcType, Flags, ReturnsTo DEF RunTask, Goto, Signalling, Asking, Open, signal, locks, mode, store, IInv, Roles, Locks, Asked, Holding, Ending
  <2>2. CASE Detach(th)
    BY <2>2, ThreadRoles, PcType, Flags, ReturnsTo DEF Detach, Goto, Signalling, Asking, Open, signal, locks, mode, store, IInv, Roles, Locks, Asked, Holding, Ending
  <2>3. CASE VisitBucket(th)
    BY <2>3, ThreadRoles, PcType, Flags, ReturnsTo DEF VisitBucket, Goto, Signalling, Asking, Open, signal, locks, mode, store, IInv, Roles, Locks, Asked, Holding, Ending
  <2>4. CASE TestRCE(th)
    BY <2>4, ThreadRoles, PcType, Flags, ReturnsTo DEF TestRCE, Goto, Signalling, Asking, Open, signal, locks, mode, store, IInv, Roles, Locks, Asked, Holding, Ending
  <2>5. CASE PassRCE(th)
    BY <2>5, ThreadRoles, PcType, Flags, ReturnsTo DEF PassRCE, Goto, Signalling, Asking, Open, signal, locks, mode, store, IInv, Roles, Locks, Asked, Holding, Ending
  <2>6. CASE ErrPrepareToDeallocate(th)
    BY <2>6, ThreadRoles, PcType, Flags, ReturnsTo DEF ErrPrepareToDeallocate, Goto, Signalling, Asking, Open, signal, locks, mode, store, IInv, Roles, Locks, Asked, Holding, Ending
  <2>7. CASE StopOrSkip(th)
    <3>1. critClean = th /\ clean.at = "rce" /\ UNCHANGED <<store, signal, locks, mode, pc>>
      BY <2>7 DEF StopOrSkip
    <3>2. ASSUME th \in Terminator, pc[th] = "clean2" PROVE FALSE
      <4>1. clean.db = all
        BY <3>1, <3>2, ThreadRoles DEF IInv, Locks
      <4>2. Current \in DOMAIN rce
        BY <3>1, CurrentIn
      <4>3. rce[Current].st \in {"old", "null"}
        BY <3>2, <4>2, RceType, ThreadRoles, RceSt DEF IInv, Ending, Open
      <4> QED
        BY <2>7, <4>3 DEF StopOrSkip, Cleanable
    <3> QED
      BY <3>1, <3>2, ThreadRoles DEF IInv, Ending, Open, signal, locks, mode, store
  <2>8. CASE PbucketVERIFreeAndGetNextOldestBucket(th)
    <3>1. critClean = th /\ clean.at = "free" /\ critClean' = th /\ UNCHANGED <<rce, signal, mode, pc>>
      BY <2>8 DEF PbucketVERIFreeAndGetNextOldestBucket
    <3>2. clean.b \in 1..Len(list) /\ list # <<>>
      BY <3>1, RceType DEF IInv, Walk
    <3>3. \A u \in Terminator : pc[u] # "done"
      BY <3>2 DEF IInv, Ending
    <3>4. ASSUME th \in Terminator, pc[th] = "clean2", clean'.at = "over" PROVE list' = <<>>
      <4>1. clean.b = 1 /\ ~clean.fSkipped
        BY <3>1, <3>4, ThreadRoles DEF IInv, Locks, Walk
      <4>2. list' = SubSeq(list, 1, clean.b - 1) \o SubSeq(list, clean.b + 1, Len(list))
        BY <2>8, <4>1 DEF PbucketVERIFreeAndGetNextOldestBucket
      <4>3. clean.b = Len(list)
        BY <2>8, <3>4, <4>1, CleanType DEF PbucketVERIFreeAndGetNextOldestBucket, CleanLocals
      <4>4. list' \in Seq(Bucket) /\ Len(list') = Len(list) - 1
        BY <3>2, <4>2, RceType, FreedBucket
      <4> QED
        BY <4>1, <4>3, <4>4
    <3> QED
      BY <3>1, <3>3, <3>4, ThreadRoles DEF IInv, Ending, Open, signal, mode
  <2>9. CASE EndClean(th)
    <3>1. PICK l : Goto(th, l)
      BY <2>9, EndCleanTo
    <3>2. pc'[th] = l /\ \A u \in Thread \ {th} : pc'[u] = pc[u]
      BY <3>1, PcType DEF Goto
    <3>3. UNCHANGED <<list, rce, asig, queued, tmUp>> /\ critClean' = none
      BY <2>9 DEF EndClean, store
    <3>4. CASE th \in Worker
      <4>1. pc[th] = "clean" /\ \A u \in Terminator : pc[u] \in {"idle", "tmterm"}
        BY <2>9, <3>4, EndCleanTo, ThreadRoles, PcType DEF IInv, Roles, Ending
      <4>2. fVERCleanUpWait # 2 /\ ~asig
        BY <4>1 DEF IInv, Ending
      <4>3. fVERCleanUpWait' # 2 /\ l = "set"
        BY <2>9, <3>2, <3>4, <4>2, EndCleanTo DEF EndClean
      <4> QED
        BY <3>2, <3>3, <3>4, <4>1, <4>2, <4>3, ThreadRoles, PcType, Flags DEF IInv, Ending
    <3>5. CASE th \in Detacher
      <4>1. fVERCleanUpWait' = fVERCleanUpWait /\ l = "idle"
        BY <2>9, <3>2, <3>5, EndCleanTo, ThreadRoles DEF EndClean
      <4> QED
        BY <3>2, <3>3, <3>5, <4>1, ThreadRoles, PcType DEF IInv, Ending, Asking, Open
    <3>6. CASE th \in Terminator
      <4>1. fVERCleanUpWait' = fVERCleanUpWait
        BY <2>9, <3>6, ThreadRoles DEF EndClean
      <4>2. CASE pc[th] = "clean"
        BY <2>9, <3>2, <3>3, <3>6, <4>1, <4>2, EndCleanTo, ThreadRoles, PcType DEF IInv, Ending, Asking, Open
      <4>3. CASE pc[th] # "clean"
        BY <2>9, <3>2, <3>3, <3>6, <4>1, <4>3, EndCleanTo, ThreadRoles, PcType DEF IInv, Ending, Asking, Open
      <4> QED
        BY <4>2, <4>3
    <3> QED
      BY <2>9, <3>4, <3>5, <3>6, EndCleanTo
  <2>10. CASE CleanPerformed(th)
    BY <2>10, ThreadRoles, PcType, Flags, ReturnsTo DEF CleanPerformed, Goto, Signalling, Asking, Open, signal, locks, mode, store, IInv, Roles, Locks, Asked, Holding, Ending
  <2>11. ASSUME NEW db \in Db \cup {all}, StartClean(th, db) PROVE Ending'
    BY <2>11, ThreadRoles, PcType, Flags, ReturnsTo DEF StartClean, Goto, Signalling, Asking, Open, signal, locks, mode, store, IInv, Roles, Locks, Asked, Holding, Ending
  <2> QED
    BY <1>2, <2>1, <2>2, <2>3, <2>4, <2>5, <2>6, <2>7, <2>8, <2>9, <2>10, <2>11 DEF CleanStep
<1>3. ASSUME NEW th \in Thread, TermStep(th) PROVE Ending'
  <2>1. CASE BeginTerm(th)
    BY <2>1, ThreadRoles, PcType, Flags, ReturnsTo DEF BeginTerm, Goto, Signalling, Asking, Open, signal, locks, mode, store, IInv, Roles, Locks, Asked, Holding, Ending
  <2>2. CASE TMTerm(th)
    BY <2>2, ThreadRoles, PcType, Flags, ReturnsTo DEF TMTerm, Goto, Signalling, Asking, Open, signal, locks, mode, store, IInv, Roles, Locks, Asked, Holding, Ending
  <2>3. CASE TooManyActiveUsers(th)
    BY <2>3, ThreadRoles, PcType, Flags, ReturnsTo DEF TooManyActiveUsers, Goto, Signalling, Asking, Open, signal, locks, mode, store, IInv, Roles, Locks, Asked, Holding, Ending
  <2>4. CASE VERTerm(th)
    BY <2>4, ThreadRoles, PcType, Flags, ReturnsTo DEF VERTerm, Goto, Signalling, Asking, Open, signal, locks, mode, store, IInv, Roles, Locks, Asked, Holding, Ending
  <2>5. CASE WaitCleanDone(th)
    BY <2>5, ThreadRoles, PcType, Flags, ReturnsTo DEF WaitCleanDone, Goto, Signalling, Asking, Open, signal, locks, mode, store, IInv, Roles, Locks, Asked, Holding, Ending
  <2> QED
    BY <1>3, <2>1, <2>2, <2>3, <2>4, <2>5 DEF TermStep
<1>4. ASSUME NEW s \in Session, SessionStep(s) PROVE Ending'
  <2>1. CASE ErrVERIBUAllocBucket(s)
    <3>1. PICK l \in {"idle", "wait"} : Goto(s, l)
      BY <2>1 DEF ErrVERIBUAllocBucket
    <3>2. pc'[s] = l /\ \A u \in Thread \ {s} : pc'[u] = pc[u]
      BY <3>1, ThreadRoles, PcType DEF Goto
    <3>3. pc[s] = "alloc" /\ UNCHANGED signal
      BY <2>1 DEF ErrVERIBUAllocBucket
    <3>4. \A u \in Terminator : pc[u] = "idle" /\ pc'[u] = "idle"
      BY <3>2, <3>3, ThreadRoles DEF IInv, Ending
    <3> QED
      BY <3>1, <3>2, <3>3, <3>4, ThreadRoles, PcType DEF IInv, Ending, signal, Asking
  <2>2. CASE FWait(s)
    BY <2>2, ThreadRoles, PcType, Flags, ReturnsTo DEF FWait, Goto, Signalling, Asking, Open, signal, locks, mode, store, IInv, Roles, Locks, Asked, Holding, Ending
  <2>3. CASE RetryAlloc(s)
    BY <2>3, ThreadRoles, PcType, Flags, ReturnsTo DEF RetryAlloc, Goto, Signalling, Asking, Open, signal, locks, mode, store, IInv, Roles, Locks, Asked, Holding, Ending
  <2>4. ASSUME NEW dt \in Db, NEW f \in BOOLEAN, ErrVERICreateRCE(s, dt, f) PROVE Ending'
    <3>1. \A u \in Terminator : pc[u] = "idle"
      BY <2>4 DEF ErrVERICreateRCE
    <3>2. UNCHANGED signal
      BY <2>4 DEF ErrVERICreateRCE
    <3>3. CASE Fits
      BY <2>4, <3>1, <3>2, <3>3, ThreadRoles DEF ErrVERICreateRCE, IInv, Ending, signal
    <3>4. CASE ~Fits
      BY <2>4, <3>1, <3>2, <3>4, ThreadRoles, PcType DEF ErrVERICreateRCE, Goto, IInv, Ending, signal, Asking
    <3> QED
      BY <3>3, <3>4
  <2> QED
    BY <1>4, <2>1, <2>2, <2>3, <2>4 DEF SessionStep
<1>5. ASSUME NEW r \in DOMAIN rce, Age(r) PROVE Ending'
  BY <1>5, ThreadRoles, PcType, Flags, ReturnsTo DEF Age, Goto, Signalling, Asking, Open, signal, locks, mode, store, IInv, Roles, Locks, Asked, Holding, Ending
<1> QED
  BY <1>1, <1>2, <1>3, <1>4, <1>5 DEF Next

-----------------------------------------------------------------------------
(* The store: buckets and what the cleaner knows of them.                  *)

\* A bucket and its RCEs.
LEMMA BucketType ==
    ASSUME IInv, NEW b \in 1..Len(list)
    PROVE  /\ list[b] \in Bucket
           /\ list[b].rces \in Seq(1..Len(rce)) /\ Len(list[b].rces) \in 0..crceBucket
           /\ list[b].prceOldest \in 1..(Len(list[b].rces) + 1)
<1>1. list[b] \in Bucket
  BY RceType
<1>2. list[b].rces \in Seq(1..Len(rce)) /\ Len(list[b].rces) <= crceBucket /\ list[b].prceOldest \in 1..(Len(list[b].rces) + 1)
  BY RceType DEF IInv, Types, TypeOK
<1> QED
  BY <1>1, <1>2, BucketsAssumption

\* What a new RCE does to the store.
LEMMA CutStore ==
    ASSUME IInv, NEW dt \in Db, NEW f \in BOOLEAN, Cut(dt, f), f \/ Fits
    PROVE  /\ rce' \in Seq(RCE) /\ Len(rce') = Len(rce) + 1
           /\ \A r \in 1..Len(rce) : rce'[r] = rce[r]
           /\ list' \in Seq(Bucket) /\ Len(list') = (IF f THEN Len(list) + 1 ELSE Len(list))
           /\ Len(list') >= 1
           /\ \A b \in 1..Len(list) : b # Len(list') => list'[b] = list[b]
           /\ list'[Len(list')].rces = Append(IF f THEN <<>> ELSE list[Len(list)].rces, Len(rce) + 1)
           /\ list'[Len(list')].prceOldest = (IF f THEN 1 ELSE list[Len(list)].prceOldest)
<1>1. rce' \in Seq(RCE) /\ Len(rce') = Len(rce) + 1 /\ \A r \in 1..Len(rce) : rce'[r] = rce[r]
  BY RceType DEF Cut, RCE
<1>2. CASE f
  <2>1. PICK l : l = Append(list, NewBucket)
    OBVIOUS
  <2>2. NewBucket \in Bucket
    BY DEF NewBucket, Bucket
  <2>3. /\ l \in Seq(Bucket) /\ Len(l) = Len(list) + 1 /\ l[Len(l)] = NewBucket
        /\ \A b \in 1..Len(list) : l[b] = list[b]
    BY <2>1, <2>2, RceType
  <2>4. list' = [l EXCEPT ![Len(l)].rces = Append(@, Len(rce) + 1)]
    BY <1>2, <2>1 DEF Cut
  <2>5. list' = [l EXCEPT ![Len(l)] = [l[Len(l)] EXCEPT !.rces = Append(l[Len(l)].rces, Len(rce) + 1)]]
    BY <2>4
  <2>6. PICK n : n = [l[Len(l)] EXCEPT !.rces = Append(l[Len(l)].rces, Len(rce) + 1)]
    OBVIOUS
  <2>7. n \in Bucket /\ n.rces = Append(<<>>, Len(rce) + 1) /\ n.prceOldest = 1
    <3>1. Append(<<>>, Len(rce) + 1) \in Seq(Nat)
      BY RceType
    <3>2. n = [rces |-> Append(<<>>, Len(rce) + 1), prceOldest |-> 1]
      BY <2>3, <2>6 DEF NewBucket
    <3> QED
      BY <3>1, <3>2 DEF Bucket
  <2>8. Len(l) \in 1..Len(l) /\ list' = [l EXCEPT ![Len(l)] = n]
    BY <2>3, <2>5, <2>6, RceType
  <2>9. list' \in Seq(Bucket) /\ Len(list') = Len(l) /\ list'[Len(l)] = n /\ \A b \in 1..Len(l) : b # Len(l) => list'[b] = l[b]
    BY <2>3, <2>7, <2>8
  <2> QED
    BY <1>1, <1>2, <2>3, <2>7, <2>9, RceType
<1>3. CASE ~f
  <2>1. Len(list) \in 1..Len(list)
    BY <1>3, RceType DEF Fits
  <2>2. list' = [list EXCEPT ![Len(list)].rces = Append(@, Len(rce) + 1)]
    BY <1>3 DEF Cut
  <2>3. PICK n : n = [list[Len(list)] EXCEPT !.rces = Append(list[Len(list)].rces, Len(rce) + 1)]
    OBVIOUS
  <2>4. list[Len(list)] \in Bucket
    BY <2>1, BucketType
  <2>5. n \in Bucket /\ n.rces = Append(list[Len(list)].rces, Len(rce) + 1) /\ n.prceOldest = list[Len(list)].prceOldest
    <3>1. Append(list[Len(list)].rces, Len(rce) + 1) \in Seq(Nat)
      BY <2>4, RceType DEF Bucket
    <3> QED
      BY <2>3, <2>4, <3>1 DEF Bucket
  <2>6. list' = [list EXCEPT ![Len(list)] = n]
    BY <2>2, <2>3
  <2>7. list' \in Seq(Bucket) /\ Len(list') = Len(list) /\ list'[Len(list)] = n /\ \A b \in 1..Len(list) : b # Len(list) => list'[b] = list[b]
    BY <2>1, <2>5, <2>6, RceType
  <2> QED
    BY <1>1, <1>3, <2>1, <2>5, <2>7
<1> QED
  BY <1>2, <1>3

Pcs == {"idle", "cas", "reset", "post", "unset", "uncas", "alloc", "wait",
        "retry", "clean", "set", "set2", "tmterm", "verterm", "asig", "clean2", "done"}

ControlTypes ==
    /\ pc \in [Thread -> Pcs]
    /\ critBucket \in Thread \cup {none} /\ rwlHash \in Thread \cup {none}
    /\ critClean \in Thread \cup {none}
    /\ fVERCleanUpWait \in 0..2 /\ queued \in 0..1
    /\ arg \in [Session -> [db : Db \cup {none}, fConcurrent : BOOLEAN]]

FlagTypes ==
    /\ msig \in BOOLEAN /\ asig \in BOOLEAN /\ tmUp \in BOOLEAN
    /\ fSync \in BOOLEAN /\ fAbove \in BOOLEAN

StoreTypes ==
    /\ list \in Seq(Bucket) /\ Len(list) <= cbucketMost
    /\ \A b \in 1..Len(list) :
          /\ list[b].rces \in Seq(1..Len(rce)) /\ Len(list[b].rces) <= crceBucket
          /\ list[b].prceOldest \in 1..(Len(list[b].rces) + 1)
    /\ rce \in Seq(RCE)
    /\ clean \in CleanLocals

\* The types in the three groups that an operation changes together.
LEMMA TypesSplit == Types <=> ControlTypes /\ FlagTypes /\ StoreTypes
<1>1. ASSUME Types PROVE ControlTypes /\ FlagTypes /\ StoreTypes
  BY <1>1 DEF Types, TypeOK, ControlTypes, FlagTypes, StoreTypes, Pcs, RCE
<1>2. ASSUME ControlTypes, FlagTypes, StoreTypes PROVE Types
  <2>1. DOMAIN list = 1..Len(list)
    BY <1>2 DEF StoreTypes
  <2>2. clean.at \in {"off", "visit", "test", "rce", "free", "over"}
    BY <1>2 DEF StoreTypes, CleanLocals
  <2> QED
    BY <1>2, <2>1, <2>2 DEF Types, TypeOK, ControlTypes, FlagTypes, StoreTypes, Pcs, RCE
<1> QED
  BY <1>1, <1>2

\* The three groups of types, from the invariant.
LEMMA ControlNow == ASSUME IInv PROVE ControlTypes /\ FlagTypes /\ StoreTypes
BY TypesSplit DEF IInv

\* The types of what controls the threads.
LEMMA ControlTypesKept == ASSUME IInv, Next PROVE ControlTypes'
<1>1. ASSUME NEW th \in Thread, SignalStep(th) PROVE ControlTypes'
  <2>1. CASE Signal(th)
    BY <2>1, ThreadRoles, ControlNow, ReturnsTo DEF Signal, Goto, Forget, NoArg, Signalling, signal, locks, Pcs, ControlTypes
  <2>2. CASE VERSignalCleanup(th)
    BY <2>2, ThreadRoles, ControlNow, ReturnsTo DEF VERSignalCleanup, Goto, Forget, NoArg, Signalling, signal, locks, Pcs, ControlTypes
  <2>3. CASE ResetSignal(th)
    BY <2>3, ThreadRoles, ControlNow, ReturnsTo DEF ResetSignal, Goto, Forget, NoArg, Signalling, signal, locks, Pcs, ControlTypes
  <2>4. CASE ErrTMPost(th)
    <3>1. queued = 0
      BY <2>4, ControlNow DEF ErrTMPost, IInv, Asked, Holding, Asking, ControlTypes
    <3> QED
      BY <2>4, <3>1, ThreadRoles, ControlNow, ReturnsTo DEF ErrTMPost, Goto, Signalling, locks, ControlTypes, Pcs
  <2>5. CASE SetSignal(th)
    BY <2>5, ThreadRoles, ControlNow, ReturnsTo DEF SetSignal, Goto, Forget, NoArg, Signalling, signal, locks, Pcs, ControlTypes
  <2>6. CASE WithdrawSignal(th)
    BY <2>6, ThreadRoles, ControlNow, ReturnsTo DEF WithdrawSignal, Goto, Forget, NoArg, Signalling, signal, locks, Pcs, ControlTypes
  <2> QED
    BY <1>1, <2>1, <2>2, <2>3, <2>4, <2>5, <2>6 DEF SignalStep
<1>2. ASSUME NEW th \in Thread, CleanStep(th) PROVE ControlTypes'
  <2>1. CASE RunTask(th)
    <3>1. queued' \in 0..1
      BY <2>1, ControlNow DEF RunTask, ControlTypes
    <3> QED
      BY <2>1, <3>1, ThreadRoles, ControlNow DEF RunTask, Goto, locks, ControlTypes, Pcs
  <2>2. CASE Detach(th)
    BY <2>2, ThreadRoles, ControlNow, ReturnsTo DEF Detach, Goto, Forget, NoArg, Signalling, signal, locks, Pcs, ControlTypes
  <2>3. CASE VisitBucket(th)
    BY <2>3, ThreadRoles, ControlNow, ReturnsTo DEF VisitBucket, Goto, Forget, NoArg, Signalling, signal, locks, Pcs, ControlTypes
  <2>4. CASE TestRCE(th)
    BY <2>4, ThreadRoles, ControlNow, ReturnsTo DEF TestRCE, Goto, Forget, NoArg, Signalling, signal, locks, Pcs, ControlTypes
  <2>5. CASE PassRCE(th)
    BY <2>5, ThreadRoles, ControlNow, ReturnsTo DEF PassRCE, Goto, Forget, NoArg, Signalling, signal, locks, Pcs, ControlTypes
  <2>6. CASE ErrPrepareToDeallocate(th)
    BY <2>6, ThreadRoles, ControlNow, ReturnsTo DEF ErrPrepareToDeallocate, Goto, Forget, NoArg, Signalling, signal, locks, Pcs, ControlTypes
  <2>7. CASE StopOrSkip(th)
    BY <2>7, ThreadRoles, ControlNow, ReturnsTo DEF StopOrSkip, Goto, Forget, NoArg, Signalling, signal, locks, Pcs, ControlTypes
  <2>8. CASE PbucketVERIFreeAndGetNextOldestBucket(th)
    BY <2>8, ThreadRoles, ControlNow, ReturnsTo DEF PbucketVERIFreeAndGetNextOldestBucket, Goto, Forget, NoArg, Signalling, signal, locks, Pcs, ControlTypes
  <2>9. CASE EndClean(th)
    <3>1. PICK l : Goto(th, l)
      BY <2>9, EndCleanTo
    <3>2. pc'[th] = l /\ l \in Pcs
      BY <2>9, <3>1, EndCleanTo, ControlNow DEF Goto, Pcs, ControlTypes
    <3>3. pc' \in [Thread -> Pcs]
      BY <3>1, <3>2, ControlNow DEF Goto, ControlTypes
    <3>4. fVERCleanUpWait' \in 0..2
      BY <2>9, ControlNow DEF EndClean, ControlTypes
    <3> QED
      BY <2>9, <3>3, <3>4, ControlNow DEF EndClean, ControlTypes
  <2>10. CASE CleanPerformed(th)
    BY <2>10, ThreadRoles, ControlNow, ReturnsTo DEF CleanPerformed, Goto, Forget, NoArg, Signalling, signal, locks, Pcs, ControlTypes
  <2>11. ASSUME NEW db \in Db \cup {all}, StartClean(th, db) PROVE ControlTypes'
    BY <2>11, ThreadRoles, ControlNow, ReturnsTo DEF StartClean, Goto, Forget, NoArg, Signalling, signal, locks, Pcs, ControlTypes
  <2> QED
    BY <1>2, <2>1, <2>2, <2>3, <2>4, <2>5, <2>6, <2>7, <2>8, <2>9, <2>10, <2>11 DEF CleanStep
<1>3. ASSUME NEW th \in Thread, TermStep(th) PROVE ControlTypes'
  <2>1. CASE BeginTerm(th)
    BY <2>1, ThreadRoles, ControlNow, ReturnsTo DEF BeginTerm, Goto, Forget, NoArg, Signalling, signal, locks, Pcs, ControlTypes
  <2>2. CASE TMTerm(th)
    BY <2>2, ThreadRoles, ControlNow, ReturnsTo DEF TMTerm, Goto, Forget, NoArg, Signalling, signal, locks, Pcs, ControlTypes
  <2>3. CASE TooManyActiveUsers(th)
    BY <2>3, ThreadRoles, ControlNow, ReturnsTo DEF TooManyActiveUsers, Goto, Forget, NoArg, Signalling, signal, locks, Pcs, ControlTypes
  <2>4. CASE VERTerm(th)
    BY <2>4, ThreadRoles, ControlNow, ReturnsTo DEF VERTerm, Goto, Forget, NoArg, Signalling, signal, locks, Pcs, ControlTypes
  <2>5. CASE WaitCleanDone(th)
    BY <2>5, ThreadRoles, ControlNow, ReturnsTo DEF WaitCleanDone, Goto, Forget, NoArg, Signalling, signal, locks, Pcs, ControlTypes
  <2> QED
    BY <1>3, <2>1, <2>2, <2>3, <2>4, <2>5 DEF TermStep
<1>4. ASSUME NEW s \in Session, SessionStep(s) PROVE ControlTypes'
  <2>1. CASE ErrVERIBUAllocBucket(s)
    <3>1. PICK l \in {"idle", "wait"} : Goto(s, l)
      BY <2>1 DEF ErrVERIBUAllocBucket
    <3>2. pc' \in [Thread -> Pcs]
      <4>1. l \in Pcs
        BY <3>1 DEF Pcs
      <4> QED
        BY <3>1, <4>1, ControlNow DEF Goto, ControlTypes
    <3>3. arg' = arg \/ arg' = [arg EXCEPT ![s] = NoArg]
      BY <2>1 DEF ErrVERIBUAllocBucket, Forget
    <3>4. arg' \in [Session -> [db : Db \cup {none}, fConcurrent : BOOLEAN]]
      <4>1. NoArg \in [db : Db \cup {none}, fConcurrent : BOOLEAN]
        BY DEF NoArg
      <4> QED
        BY <3>3, <4>1, ControlNow DEF ControlTypes
    <3> QED
      BY <2>1, <3>2, <3>4, ControlNow DEF ErrVERIBUAllocBucket, Unlock, signal, ControlTypes
  <2>2. CASE FWait(s)
    BY <2>2, ThreadRoles, ControlNow, ReturnsTo DEF FWait, Goto, Forget, NoArg, Signalling, signal, locks, Pcs, ControlTypes
  <2>3. CASE RetryAlloc(s)
    BY <2>3, ThreadRoles, ControlNow, ReturnsTo DEF RetryAlloc, Goto, Forget, NoArg, Signalling, signal, locks, Pcs, ControlTypes
  <2>4. ASSUME NEW dt \in Db, NEW f \in BOOLEAN, ErrVERICreateRCE(s, dt, f) PROVE ControlTypes'
    <3>1. CASE Fits
      BY <2>4, <3>1, ControlNow DEF ErrVERICreateRCE, locks, signal, ControlTypes
    <3>2. CASE ~Fits
      <4>1. [db |-> dt, fConcurrent |-> f] \in [db : Db \cup {none}, fConcurrent : BOOLEAN]
        OBVIOUS
      <4>2. arg' \in [Session -> [db : Db \cup {none}, fConcurrent : BOOLEAN]]
        BY <2>4, <3>2, <4>1, ControlNow DEF ErrVERICreateRCE, ControlTypes
      <4> QED
        BY <2>4, <3>2, <4>2, ThreadRoles, ControlNow DEF ErrVERICreateRCE, Goto, signal, ControlTypes, Pcs
    <3> QED
      BY <3>1, <3>2
  <2> QED
    BY <1>4, <2>1, <2>2, <2>3, <2>4 DEF SessionStep
<1>5. ASSUME NEW r \in DOMAIN rce, Age(r) PROVE ControlTypes'
  BY <1>5, ThreadRoles, ControlNow, ReturnsTo DEF Age, Goto, Forget, NoArg, Signalling, signal, locks, Pcs, ControlTypes
<1> QED
  BY <1>1, <1>2, <1>3, <1>4, <1>5 DEF Next

\* The flags are Boolean.
LEMMA FlagTypesKept == ASSUME IInv, Next PROVE FlagTypes'
<1>1. ASSUME NEW th \in Thread, SignalStep(th) PROVE FlagTypes'
  <2>1. CASE Signal(th)
    BY <2>1, ControlNow DEF Signal, signal, mode, store, FlagTypes
  <2>2. CASE VERSignalCleanup(th)
    BY <2>2, ControlNow DEF VERSignalCleanup, signal, mode, store, FlagTypes
  <2>3. CASE ResetSignal(th)
    BY <2>3, ControlNow DEF ResetSignal, signal, mode, store, FlagTypes
  <2>4. CASE ErrTMPost(th)
    BY <2>4, ControlNow DEF ErrTMPost, signal, mode, store, FlagTypes
  <2>5. CASE SetSignal(th)
    BY <2>5, ControlNow DEF SetSignal, signal, mode, store, FlagTypes
  <2>6. CASE WithdrawSignal(th)
    BY <2>6, ControlNow DEF WithdrawSignal, signal, mode, store, FlagTypes
  <2> QED
    BY <1>1, <2>1, <2>2, <2>3, <2>4, <2>5, <2>6 DEF SignalStep
<1>2. ASSUME NEW th \in Thread, CleanStep(th) PROVE FlagTypes'
  <2>1. CASE RunTask(th)
    BY <2>1, ControlNow DEF RunTask, signal, mode, store, FlagTypes
  <2>2. CASE Detach(th)
    BY <2>2, ControlNow DEF Detach, signal, mode, store, FlagTypes
  <2>3. CASE VisitBucket(th)
    BY <2>3, ControlNow DEF VisitBucket, signal, mode, store, FlagTypes
  <2>4. CASE TestRCE(th)
    BY <2>4, ControlNow DEF TestRCE, signal, mode, store, FlagTypes
  <2>5. CASE PassRCE(th)
    BY <2>5, ControlNow DEF PassRCE, signal, mode, store, FlagTypes
  <2>6. CASE ErrPrepareToDeallocate(th)
    BY <2>6, ControlNow DEF ErrPrepareToDeallocate, signal, mode, store, FlagTypes
  <2>7. CASE StopOrSkip(th)
    BY <2>7, ControlNow DEF StopOrSkip, signal, mode, store, FlagTypes
  <2>8. CASE PbucketVERIFreeAndGetNextOldestBucket(th)
    <3>1. fAbove' \in BOOLEAN
      BY <2>8, ControlNow DEF PbucketVERIFreeAndGetNextOldestBucket, StillAbove, FlagTypes
    <3> QED
      BY <2>8, <3>1, ControlNow DEF PbucketVERIFreeAndGetNextOldestBucket, signal, mode, FlagTypes
  <2>9. CASE EndClean(th)
    <3>1. clean.fSaved \in BOOLEAN
      BY CleanType DEF CleanLocals
    <3> QED
      BY <2>9, <3>1, ControlNow DEF EndClean, store, FlagTypes
  <2>10. CASE CleanPerformed(th)
    BY <2>10, ControlNow DEF CleanPerformed, signal, mode, store, FlagTypes
  <2>11. ASSUME NEW db \in Db \cup {all}, StartClean(th, db) PROVE FlagTypes'
    BY <2>11, ControlNow DEF StartClean, signal, mode, store, FlagTypes
  <2> QED
    BY <1>2, <2>1, <2>2, <2>3, <2>4, <2>5, <2>6, <2>7, <2>8, <2>9, <2>10, <2>11 DEF CleanStep
<1>3. ASSUME NEW th \in Thread, TermStep(th) PROVE FlagTypes'
  <2>1. CASE BeginTerm(th)
    BY <2>1, ControlNow DEF BeginTerm, signal, mode, store, FlagTypes
  <2>2. CASE TMTerm(th)
    BY <2>2, ControlNow DEF TMTerm, signal, mode, store, FlagTypes
  <2>3. CASE TooManyActiveUsers(th)
    BY <2>3, ControlNow DEF TooManyActiveUsers, signal, mode, store, FlagTypes
  <2>4. CASE VERTerm(th)
    BY <2>4, ControlNow DEF VERTerm, signal, mode, store, FlagTypes
  <2>5. CASE WaitCleanDone(th)
    BY <2>5, ControlNow DEF WaitCleanDone, signal, mode, store, FlagTypes
  <2> QED
    BY <1>3, <2>1, <2>2, <2>3, <2>4, <2>5 DEF TermStep
<1>4. ASSUME NEW s \in Session, SessionStep(s) PROVE FlagTypes'
  <2>1. CASE ErrVERIBUAllocBucket(s)
    <3>1. fAbove' \in BOOLEAN
      BY <2>1, ControlNow DEF ErrVERIBUAllocBucket, Cut, store, FlagTypes
    <3> QED
      BY <2>1, <3>1, ControlNow DEF ErrVERIBUAllocBucket, signal, mode, FlagTypes
  <2>2. CASE FWait(s)
    BY <2>2, ControlNow DEF FWait, signal, mode, store, FlagTypes
  <2>3. CASE RetryAlloc(s)
    <3>1. fAbove' \in BOOLEAN
      BY <2>3, ControlNow DEF RetryAlloc, Cut, store, FlagTypes
    <3> QED
      BY <2>3, <3>1, ControlNow DEF RetryAlloc, signal, mode, FlagTypes
  <2>4. ASSUME NEW dt \in Db, NEW f \in BOOLEAN, ErrVERICreateRCE(s, dt, f) PROVE FlagTypes'
    <3>1. fAbove' \in BOOLEAN
      BY <2>4, ControlNow DEF ErrVERICreateRCE, Cut, store, FlagTypes
    <3> QED
      BY <2>4, <3>1, ControlNow DEF ErrVERICreateRCE, signal, mode, FlagTypes
  <2> QED
    BY <1>4, <2>1, <2>2, <2>3, <2>4 DEF SessionStep
<1>5. ASSUME NEW r \in DOMAIN rce, Age(r) PROVE FlagTypes'
  BY <1>5, ControlNow DEF Age, signal, mode, store, FlagTypes
<1> QED
  BY <1>1, <1>2, <1>3, <1>4, <1>5 DEF Next

StoreInv == StoreTypes /\ Walk /\ NoRceLost /\ AboveExact

\* Who needs a new RCE does not disturb the bucket whose end the cleaner has seen.
LEMMA EndIsSafe ==
    ASSUME IInv, critBucket \in Session \cup {none}, clean.at = "free"
    PROVE  ~clean.fNeed
BY ThreadRoles, PcType DEF IInv, Locks, Walk, Roles, Signalling

\* A bucket keeps what it has when a new RCE is cut, and only the newest grows.
LEMMA CutBucket ==
    ASSUME IInv, NEW dt \in Db, NEW f \in BOOLEAN, Cut(dt, f), f \/ Fits, NEW b \in 1..Len(list)
    PROVE  /\ b \in 1..Len(list')
           /\ list'[b].prceOldest = list[b].prceOldest
           /\ Len(list'[b].rces) \in Nat /\ Len(list'[b].rces) >= Len(list[b].rces)
           /\ \A i \in 1..Len(list[b].rces) : list'[b].rces[i] = list[b].rces[i]
           /\ b < Len(list) => list'[b] = list[b]
<1>1. /\ list' \in Seq(Bucket) /\ Len(list') = (IF f THEN Len(list) + 1 ELSE Len(list))
      /\ \A c \in 1..Len(list) : c # Len(list') => list'[c] = list[c]
      /\ list'[Len(list')].rces = Append(IF f THEN <<>> ELSE list[Len(list)].rces, Len(rce) + 1)
      /\ list'[Len(list')].prceOldest = (IF f THEN 1 ELSE list[Len(list)].prceOldest)
  BY CutStore
<1>2. list[b].rces \in Seq(1..Len(rce)) /\ Len(list[b].rces) \in Nat
  BY BucketType
<1>3. Len(list) \in Nat /\ Len(rce) \in Nat
  BY RceType
<1>4. CASE b # Len(list')
  BY <1>1, <1>2, <1>3, <1>4
<1>5. CASE b = Len(list')
  <2>1. ~f /\ b = Len(list)
    BY <1>1, <1>3, <1>5
  <2>2. list'[b].rces = Append(list[b].rces, Len(rce) + 1) /\ list'[b].prceOldest = list[b].prceOldest
    BY <1>1, <1>5, <2>1
  <2>3. /\ Len(Append(list[b].rces, Len(rce) + 1)) = Len(list[b].rces) + 1
        /\ \A i \in 1..Len(list[b].rces) : Append(list[b].rces, Len(rce) + 1)[i] = list[b].rces[i]
    BY <1>2
  <2> QED
    BY <1>2, <1>3, <1>5, <2>1, <2>2, <2>3
<1> QED
  BY <1>4, <1>5

\* Another RCE in the newest bucket keeps the types.
LEMMA CutKeepsTypes ==
    ASSUME IInv, NEW dt \in Db, NEW f \in BOOLEAN, Cut(dt, f), f \/ Fits,
           f => Len(list) < cbucketMost, clean' = clean
    PROVE  StoreTypes'
<1>1. /\ rce' \in Seq(RCE) /\ Len(rce') = Len(rce) + 1
      /\ list' \in Seq(Bucket) /\ Len(list') = (IF f THEN Len(list) + 1 ELSE Len(list))
      /\ Len(list') >= 1
      /\ \A b \in 1..Len(list) : b # Len(list') => list'[b] = list[b]
      /\ list'[Len(list')].rces = Append(IF f THEN <<>> ELSE list[Len(list)].rces, Len(rce) + 1)
      /\ list'[Len(list')].prceOldest = (IF f THEN 1 ELSE list[Len(list)].prceOldest)
  BY CutStore
<1>2. Len(list) \in Nat /\ Len(rce) \in Nat /\ Len(list) <= cbucketMost
  BY RceType, ControlNow DEF StoreTypes
<1>3. Len(list') <= cbucketMost
  BY <1>1, <1>2, BucketsAssumption
<1>4. clean' \in CleanLocals
  BY CleanType
<1>5. ASSUME NEW b \in 1..Len(list')
      PROVE  /\ list'[b].rces \in Seq(1..Len(rce')) /\ Len(list'[b].rces) <= crceBucket
             /\ list'[b].prceOldest \in 1..(Len(list'[b].rces) + 1)
  <2>1. CASE b # Len(list')
    <3>1. b \in 1..Len(list) /\ list'[b] = list[b]
      BY <1>1, <1>2, <2>1
    <3>2. list[b].rces \in Seq(1..Len(rce')) /\ Len(list[b].rces) <= crceBucket /\ list[b].prceOldest \in 1..(Len(list[b].rces) + 1)
      BY <1>1, <1>2, <3>1, BucketType, BucketsAssumption
    <3> QED
      BY <3>1, <3>2
  <2>2. CASE b = Len(list') /\ f
    <3>1. list'[b].rces = <<Len(rce')>> /\ list'[b].prceOldest = 1
      BY <1>1, <2>2
    <3> QED
      BY <1>1, <1>2, <3>1, BucketsAssumption
  <2>3. CASE b = Len(list') /\ ~f
    <3>1. b \in 1..Len(list) /\ b = Len(list)
      BY <1>1, <2>3
    <3>2. list[b].rces \in Seq(1..Len(rce)) /\ Len(list[b].rces) \in Nat /\ Len(list[b].rces) < crceBucket /\ list[b].prceOldest \in 1..(Len(list[b].rces) + 1)
      BY <2>3, <3>1, BucketType DEF Fits
    <3>3. list'[b].rces = Append(list[b].rces, Len(rce')) /\ list'[b].prceOldest = list[b].prceOldest
      BY <1>1, <2>3, <3>1
    <3>4. list[b].rces \in Seq(1..Len(rce')) /\ Len(rce') \in 1..Len(rce')
      BY <1>1, <1>2, <3>2
    <3>5. Append(list[b].rces, Len(rce')) \in Seq(1..Len(rce')) /\ Len(Append(list[b].rces, Len(rce'))) = Len(list[b].rces) + 1
      BY <3>4
    <3> QED
      BY <3>2, <3>3, <3>5, BucketsAssumption
  <2> QED
    BY <2>1, <2>2, <2>3
<1> QED
  BY <1>1, <1>3, <1>4, <1>5 DEF StoreTypes

\* Another RCE in the newest bucket loses none.
LEMMA CutKeepsRces ==
    ASSUME IInv, NEW dt \in Db, NEW f \in BOOLEAN, Cut(dt, f), f \/ Fits
    PROVE  NoRceLost'
<1>1. /\ rce' \in Seq(RCE) /\ Len(rce') = Len(rce) + 1
      /\ \A r \in 1..Len(rce) : rce'[r] = rce[r]
      /\ list' \in Seq(Bucket) /\ Len(list') >= 1
      /\ list'[Len(list')].rces = Append(IF f THEN <<>> ELSE list[Len(list)].rces, Len(rce) + 1)
      /\ list'[Len(list')].prceOldest = (IF f THEN 1 ELSE list[Len(list)].prceOldest)
  BY CutStore
<1>2. Len(list) \in Nat /\ Len(rce) \in Nat /\ DOMAIN list = 1..Len(list) /\ DOMAIN rce = 1..Len(rce)
  BY RceType
<1>3. DOMAIN list' = 1..Len(list') /\ DOMAIN rce' = 1..Len(rce') /\ Len(list') \in 1..Len(list')
  BY <1>1
<1>4. ASSUME NEW r \in 1..Len(rce), rce'[r].st # "null"
      PROVE  \E b \in DOMAIN list' : \E i \in list'[b].prceOldest..Len(list'[b].rces) : list'[b].rces[i] = r
  <2>1. rce[r].st # "null"
    BY <1>1, <1>4
  <2>2. PICK b \in 1..Len(list) : \E i \in list[b].prceOldest..Len(list[b].rces) : list[b].rces[i] = r
    BY <1>2, <2>1 DEF IInv, NoRceLost
  <2>3. list[b].prceOldest \in Nat \ {0} /\ Len(list[b].rces) \in Nat
    BY BucketType
  <2>a. PICK i \in list[b].prceOldest..Len(list[b].rces) : list[b].rces[i] = r
    BY <2>2
  <2>4. i \in 1..Len(list[b].rces)
    BY <2>3
  <2>5. /\ b \in 1..Len(list')
        /\ list'[b].prceOldest = list[b].prceOldest
        /\ Len(list'[b].rces) \in Nat /\ Len(list'[b].rces) >= Len(list[b].rces)
        /\ \A j \in 1..Len(list[b].rces) : list'[b].rces[j] = list[b].rces[j]
    BY CutBucket
  <2>6. i \in list'[b].prceOldest..Len(list'[b].rces) /\ list'[b].rces[i] = r
    BY <2>a, <2>3, <2>4, <2>5
  <2> QED
    BY <1>3, <2>5, <2>6
<1>5. \E b \in DOMAIN list' : \E i \in list'[b].prceOldest..Len(list'[b].rces) : list'[b].rces[i] = Len(rce')
  <2>1. CASE f
    <3>1. list'[Len(list')].rces = <<Len(rce')>> /\ list'[Len(list')].prceOldest = 1
      BY <1>1, <2>1
    <3>2. 1 \in list'[Len(list')].prceOldest..Len(list'[Len(list')].rces) /\ list'[Len(list')].rces[1] = Len(rce')
      BY <3>1
    <3> QED
      BY <1>3, <3>2
  <2>2. CASE ~f
    <3>1. Len(list) \in 1..Len(list)
      BY <1>2, <2>2 DEF Fits
    <3>2. list[Len(list)].rces \in Seq(1..Len(rce)) /\ Len(list[Len(list)].rces) \in Nat /\ list[Len(list)].prceOldest \in 1..(Len(list[Len(list)].rces) + 1)
      BY <3>1, BucketType
    <3>3. list'[Len(list')].rces = Append(list[Len(list)].rces, Len(rce')) /\ list'[Len(list')].prceOldest = list[Len(list)].prceOldest
      BY <1>1, <2>2
    <3>4. /\ Len(list'[Len(list')].rces) = Len(list[Len(list)].rces) + 1
          /\ list'[Len(list')].rces[Len(list[Len(list)].rces) + 1] = Len(rce')
      BY <3>2, <3>3
    <3>5. Len(list[Len(list)].rces) + 1 \in list'[Len(list')].prceOldest..Len(list'[Len(list')].rces)
      BY <3>2, <3>3, <3>4
    <3> QED
      BY <1>3, <3>4, <3>5
  <2> QED
    BY <2>1, <2>2
<1> QED
  BY <1>1, <1>2, <1>3, <1>4, <1>5 DEF NoRceLost

\* Another RCE in the newest bucket does not disturb the cleaner on its way.
LEMMA CutKeepsWalk ==
    ASSUME IInv, NEW dt \in Db, NEW f \in BOOLEAN, Cut(dt, f), f \/ Fits,
           clean' = clean, critBucket \in Session \cup {none}
    PROVE  Walk'
<1>1. /\ Len(rce') = Len(rce) + 1 /\ \A r \in 1..Len(rce) : rce'[r] = rce[r]
      /\ list' \in Seq(Bucket) /\ Len(list') = (IF f THEN Len(list) + 1 ELSE Len(list))
  BY CutStore
<1>2. Len(list) \in Nat /\ Len(rce) \in Nat /\ Len(list') \in Nat
  BY <1>1, RceType
<1>3. CASE clean.at \notin {"visit", "test", "rce", "free"}
  BY <1>3 DEF IInv, Walk
<1>4. CASE clean.at \in {"visit", "test", "rce", "free"}
  <2>1. PICK b : b = clean.b /\ b \in 1..Len(list)
    BY <1>4 DEF IInv, Walk
  <2>2. /\ b \in 1..Len(list')
        /\ list'[b].prceOldest = list[b].prceOldest
        /\ Len(list'[b].rces) \in Nat /\ Len(list'[b].rces) >= Len(list[b].rces)
        /\ \A i \in 1..Len(list[b].rces) : list'[b].rces[i] = list[b].rces[i]
        /\ b < Len(list) => list'[b] = list[b]
    BY <2>1, CutBucket
  <2>3. list[b].rces \in Seq(1..Len(rce)) /\ Len(list[b].rces) \in Nat /\ list[b].prceOldest \in Nat \ {0}
    BY <2>1, BucketType
  <2>4. clean.db = all => clean.b = 1 /\ ~clean.fSkipped
    BY DEF IInv, Walk
  <2>5. ASSUME clean.at \in {"test", "rce", "free"}
        PROVE  /\ clean.i \in list'[b].prceOldest..(Len(list'[b].rces) + 1)
               /\ ~clean.fNeed => b < Len(list')
               /\ ~clean.fSkipped => \A j \in list'[b].prceOldest..(clean.i - 1) : rce'[list'[b].rces[j]].st = "null"
    <3>1. /\ clean.i \in list[b].prceOldest..(Len(list[b].rces) + 1)
          /\ ~clean.fNeed => b < Len(list)
          /\ ~clean.fSkipped => \A j \in list[b].prceOldest..(clean.i - 1) : rce[list[b].rces[j]].st = "null"
      BY <2>1, <2>5 DEF IInv, Walk
    <3>2. clean.i \in list'[b].prceOldest..(Len(list'[b].rces) + 1)
      BY <2>2, <2>3, <3>1
    <3>3. ~clean.fNeed => b < Len(list')
      BY <1>1, <1>2, <2>1, <3>1
    <3>4. ASSUME ~clean.fSkipped, NEW j \in list'[b].prceOldest..(clean.i - 1) PROVE rce'[list'[b].rces[j]].st = "null"
      <4>1. j \in list[b].prceOldest..(clean.i - 1) /\ j \in 1..Len(list[b].rces)
        BY <2>2, <2>3, <3>1
      <4>2. list'[b].rces[j] = list[b].rces[j] /\ list[b].rces[j] \in 1..Len(rce)
        BY <2>2, <2>3, <4>1
      <4>3. rce[list[b].rces[j]].st = "null"
        BY <3>1, <3>4, <4>1
      <4> QED
        BY <1>1, <4>2, <4>3
    <3> QED
      BY <3>2, <3>3, <3>4
  <2>6. clean.at = "rce" => clean.i <= Len(list'[b].rces)
    <3>1. clean.at = "rce" => clean.i <= Len(list[b].rces)
      BY <2>1 DEF IInv, Walk
    <3>2. clean.i \in Nat
      BY CleanType DEF CleanLocals
    <3> QED
      BY <2>2, <2>3, <3>1, <3>2
  <2>7. ASSUME clean.at = "free" PROVE clean.i > Len(list'[b].rces) /\ ~clean.fNeed
    <3>1. ~clean.fNeed
      BY <2>7, EndIsSafe
    <3>2. b < Len(list) /\ clean.i > Len(list[b].rces)
      BY <2>1, <2>7, <3>1 DEF IInv, Walk
    <3> QED
      BY <2>2, <3>1, <3>2
  <2> QED
    BY <2>1, <2>2, <2>4, <2>5, <2>6, <2>7 DEF Walk
<1> QED
  BY <1>3, <1>4

\* Another RCE in the newest bucket keeps the part of the invariant about the store.
LEMMA CutKeeps ==
    ASSUME IInv, NEW dt \in Db, NEW f \in BOOLEAN, Cut(dt, f), f \/ Fits,
           f => Len(list) < cbucketMost, clean' = clean, critBucket \in Session \cup {none}
    PROVE  StoreInv'
<1>1. AboveExact'
  <2>1. Len(list') = (IF f THEN Len(list) + 1 ELSE Len(list)) /\ Len(list) \in Nat
    BY CutStore, RceType
  <2>2. fAbove <=> Len(list) > cbucketAllowed
    BY DEF IInv, AboveExact
  <2>3. CASE f
    <3>1. fAbove' = (fAbove \/ Len(list) + 1 > cbucketAllowed)
      BY <2>3, RceType DEF Cut
    <3>2. Len(list') = Len(list) + 1
      BY <2>1, <2>3
    <3>3. (Len(list) > cbucketAllowed \/ Len(list) + 1 > cbucketAllowed) <=> Len(list) + 1 > cbucketAllowed
      BY <2>1, BucketsAssumption
    <3>4. fAbove' <=> Len(list') > cbucketAllowed
      BY <2>2, <3>1, <3>2, <3>3, Zenon
    <3> QED
      BY <3>4 DEF AboveExact
  <2>4. CASE ~f
    <3>1. fAbove' <=> fAbove
      BY <2>4, ControlNow DEF Cut, FlagTypes
    <3>2. Len(list') = Len(list)
      BY <2>1, <2>4
    <3>3. fAbove' <=> Len(list') > cbucketAllowed
      BY <2>2, <3>1, <3>2
    <3> QED
      BY <3>3 DEF AboveExact
  <2> QED
    BY <2>3, <2>4
<1> QED
  BY <1>1, CutKeepsTypes, CutKeepsRces, CutKeepsWalk DEF StoreInv

-----------------------------------------------------------------------------
(* The store under the steps of the cleaner.                               *)

\* What stays when neither the buckets nor the RCEs nor the cleaner change.
LEMMA SameStore ==
    ASSUME IInv, UNCHANGED <<list, rce, fAbove, clean>>,
           clean.at = "free" /\ clean.fNeed => critBucket' = critClean'
    PROVE  StoreInv'
BY ControlNow DEF IInv, StoreInv, StoreTypes, Walk, NoRceLost, AboveExact

\* The same when the cleaner is in no bucket.
LEMMA NoWalk ==
    ASSUME IInv, UNCHANGED <<list, rce, fAbove>>, clean' \in CleanLocals,
           clean'.at \in {"off", "over"}, clean'.db = all => clean'.b = 1 /\ ~clean'.fSkipped
    PROVE  StoreInv'
BY ControlNow DEF IInv, StoreInv, StoreTypes, Walk, NoRceLost, AboveExact

\* The start of a cleanup keeps the part about the store.
LEMMA StartCleanStore ==
    ASSUME IInv, NEW th \in Thread, NEW db \in Db \cup {all}, StartClean(th, db)
    PROVE  StoreInv'
<1>1. UNCHANGED <<list, rce, fAbove>>
  BY DEF StartClean, store
<1>2. /\ clean' \in CleanLocals
      /\ clean'.at = (IF list = <<>> THEN "over" ELSE "visit")
      /\ clean'.b = 1
  BY ControlNow DEF StartClean, Idle, CleanLocals, FlagTypes
<1>3. ~clean'.fSkipped
  BY DEF StartClean, Idle
<1>4. list # <<>> => 1 \in 1..Len(list)
  BY RceType
<1> QED
  BY <1>1, <1>2, <1>3, <1>4, ControlNow DEF IInv, StoreInv, StoreTypes, Walk, NoRceLost, AboveExact

\* The end of a cleanup keeps the part about the store.
LEMMA EndCleanStore ==
    ASSUME IInv, NEW th \in Thread, EndClean(th)
    PROVE  StoreInv'
<1>1. UNCHANGED <<list, rce, fAbove>> /\ clean' = Idle
  BY DEF EndClean, store
<1>2. Idle \in CleanLocals /\ Idle.at = "off" /\ Idle.b = 1 /\ ~Idle.fSkipped
  BY DEF Idle, CleanLocals
<1> QED
  BY <1>1, <1>2, NoWalk

\* The cleaner turns to a bucket.
LEMMA VisitStore ==
    ASSUME IInv, NEW th \in Thread, VisitBucket(th)
    PROVE  StoreInv'
<1>1. UNCHANGED <<list, rce, fAbove>> /\ clean.at = "visit" /\ clean.b \in 1..Len(list)
  BY DEF VisitBucket, store, IInv, Walk
<1>2. list[clean.b].prceOldest \in 1..(Len(list[clean.b].rces) + 1) /\ Len(list[clean.b].rces) \in Nat
  BY <1>1, BucketType
<1>3. /\ clean' \in CleanLocals
      /\ clean'.at = "test" /\ clean'.b = clean.b /\ clean'.i = list[clean.b].prceOldest
      /\ clean'.db = clean.db
  <2>1. list[clean.b].prceOldest \in Nat
    BY <1>2
  <2>2. PICK f \in BOOLEAN : f = FNeedBeInCritBucketGlobal
    BY DEF FNeedBeInCritBucketGlobal
  <2>3. clean' = [clean EXCEPT !.i = list[clean.b].prceOldest, !.fNeed = f, !.fSkipped = FALSE, !.at = "test"]
    BY <2>2 DEF VisitBucket
  <2> QED
    BY <2>1, <2>3, CleanType DEF CleanLocals
<1>4. ~clean'.fSkipped /\ (~clean'.fNeed => clean.b # Len(list))
  BY CleanType DEF VisitBucket, CleanLocals, FNeedBeInCritBucketGlobal
<1>5. ~clean'.fNeed => clean.b < Len(list)
  BY <1>1, <1>4, RceType
<1>6. clean.db = all => clean.b = 1
  BY DEF IInv, Walk
<1>7. clean'.i \in list[clean.b].prceOldest..(Len(list[clean.b].rces) + 1) /\ list[clean.b].prceOldest..(clean'.i - 1) = {}
  BY <1>2, <1>3
<1>8. Walk'
  BY <1>1, <1>3, <1>4, <1>5, <1>6, <1>7 DEF Walk
<1> QED
  BY <1>1, <1>3, <1>8, ControlNow DEF IInv, StoreInv, StoreTypes, NoRceLost, AboveExact

\* A place further on in the bucket, when the RCE passed by is nullified.
LEMMA AdvanceWalk ==
    ASSUME IInv, clean.at = "rce", list' = list,
           clean' = [clean EXCEPT !.i = @ + 1, !.at = "test"],
           rce' \in Seq(RCE), Len(rce') = Len(rce),
           \A r \in 1..Len(rce) : rce[r].st = "null" => rce'[r].st = "null",
           rce'[Current].st = "null"
    PROVE  Walk' /\ clean' \in CleanLocals
<1>1. PICK b : b = clean.b /\ b \in 1..Len(list)
  BY DEF IInv, Walk
<1>2. /\ clean.i \in list[b].prceOldest..(Len(list[b].rces) + 1)
      /\ ~clean.fNeed => b < Len(list)
      /\ ~clean.fSkipped => \A j \in list[b].prceOldest..(clean.i - 1) : rce[list[b].rces[j]].st = "null"
      /\ clean.i <= Len(list[b].rces)
      /\ clean.db = all => clean.b = 1 /\ ~clean.fSkipped
  BY <1>1 DEF IInv, Walk
<1>3. list[b].prceOldest \in Nat \ {0} /\ Len(list[b].rces) \in Nat /\ list[b].rces \in Seq(1..Len(rce))
  BY <1>1, BucketType
<1>4. /\ clean' \in CleanLocals /\ clean'.at = "test" /\ clean'.i = clean.i + 1
      /\ clean'.b = clean.b /\ clean'.db = clean.db
      /\ clean'.fNeed = clean.fNeed /\ clean'.fSkipped = clean.fSkipped
  <2>1. PICK n \in Nat : n = clean.i + 1
    BY CleanType DEF CleanLocals
  <2>2. clean' = [clean EXCEPT !.i = n, !.at = "test"]
    BY <1>1, <2>1
  <2>3. /\ clean' \in CleanLocals /\ clean'.i = n /\ clean'.at = "test" /\ clean'.b = clean.b /\ clean'.db = clean.db
        /\ clean'.fNeed = clean.fNeed /\ clean'.fSkipped = clean.fSkipped
    BY <2>2, CleanType DEF CleanLocals
  <2> QED
    BY <2>1, <2>3
<1>5. ASSUME ~clean.fSkipped, NEW j \in list[b].prceOldest..(clean'.i - 1) PROVE rce'[list[b].rces[j]].st = "null"
  <2>1. j \in list[b].prceOldest..(clean.i - 1) \/ j = clean.i
    BY <1>2, <1>3, <1>4
  <2>2. CASE j = clean.i
    BY <1>1, <2>2 DEF Current
  <2>3. CASE j \in list[b].prceOldest..(clean.i - 1)
    <3>1. rce[list[b].rces[j]].st = "null"
      BY <1>2, <1>5, <2>3
    <3>2. j \in 1..Len(list[b].rces)
      BY <1>2, <1>3, <2>3
    <3>3. list[b].rces[j] \in 1..Len(rce)
      BY <1>3, <3>2
    <3> QED
      BY <3>1, <3>3
  <2> QED
    BY <2>1, <2>2, <2>3
<1>6. clean'.i \in list[b].prceOldest..(Len(list[b].rces) + 1)
  BY <1>2, <1>3, <1>4
<1> QED
  BY <1>1, <1>2, <1>4, <1>5, <1>6 DEF Walk

\* The cleaner passes an RCE that is nullified already.
LEMMA PassStore ==
    ASSUME IInv, NEW th \in Thread, PassRCE(th)
    PROVE  StoreInv'
<1>1. UNCHANGED <<list, rce, fAbove>> /\ clean.at = "rce" /\ rce[Current].st = "null" /\ clean' = [clean EXCEPT !.i = @ + 1, !.at = "test"]
  BY DEF PassRCE, store
<1>2. rce' \in Seq(RCE) /\ Len(rce') = Len(rce) /\ (\A r \in 1..Len(rce) : rce[r].st = "null" => rce'[r].st = "null") /\ rce'[Current].st = "null"
  BY <1>1, RceType
<1>3. Walk' /\ clean' \in CleanLocals
  BY <1>1, <1>2, AdvanceWalk
<1> QED
  BY <1>1, <1>3, ControlNow DEF IInv, StoreInv, StoreTypes, NoRceLost, AboveExact

\* Nullifying an RCE loses none.
LEMMA ChangedRce ==
    ASSUME IInv, NEW r \in DOMAIN rce, NEW st \in {"active", "committed", "old", "null"},
           rce[r].st # "null", rce' = [rce EXCEPT ![r].st = st], UNCHANGED <<list, fAbove>>, clean' \in CleanLocals
    PROVE  /\ StoreTypes' /\ NoRceLost' /\ AboveExact'
           /\ rce' \in Seq(RCE) /\ Len(rce') = Len(rce) /\ rce'[r].st = st /\ rce'[r].db = rce[r].db
           /\ \A q \in 1..Len(rce) : q # r => rce'[q] = rce[q]
<1>1. r \in 1..Len(rce) /\ DOMAIN rce = 1..Len(rce) /\ rce[r] \in RCE
  BY RceType
<1>2. PICK n : n = [rce[r] EXCEPT !.st = st]
  OBVIOUS
<1>3. n \in RCE /\ n.st = st /\ n.db = rce[r].db
  BY <1>1, <1>2 DEF RCE
<1>4. rce' = [rce EXCEPT ![r] = n]
  BY <1>2
<1>5. rce' \in Seq(RCE) /\ Len(rce') = Len(rce) /\ rce'[r] = n /\ \A q \in 1..Len(rce) : q # r => rce'[q] = rce[q]
  BY <1>1, <1>3, <1>4, RceType
<1>6. StoreTypes'
  BY <1>5, ControlNow DEF StoreTypes
<1>7. \A q \in DOMAIN rce' : q \in DOMAIN rce /\ (rce'[q].st # "null" => rce[q].st # "null")
  BY <1>1, <1>3, <1>5
<1>8. NoRceLost'
  BY <1>7 DEF IInv, NoRceLost
<1>9. AboveExact'
  BY DEF IInv, AboveExact
<1> QED
  BY <1>3, <1>5, <1>6, <1>8, <1>9

\* The cleaner nullifies an RCE that nobody needs.
LEMMA DeallocateStore ==
    ASSUME IInv, NEW th \in Thread, ErrPrepareToDeallocate(th)
    PROVE  StoreInv'
<1>1. /\ UNCHANGED <<list, fAbove>> /\ clean.at = "rce" /\ clean' = [clean EXCEPT !.i = @ + 1, !.at = "test"]
      /\ rce' = [rce EXCEPT ![Current].st = "null"] /\ rce[Current].st # "null"
  BY DEF ErrPrepareToDeallocate, Cleanable
<1>2. Current \in DOMAIN rce
  BY <1>1, CurrentIn
<1>3. clean' \in CleanLocals
  <2>1. PICK n \in Nat : n = clean.i + 1
    BY CleanType DEF CleanLocals
  <2>2. clean' = [clean EXCEPT !.i = n, !.at = "test"]
    BY <1>1, <2>1
  <2>3. /\ clean' \in CleanLocals /\ clean'.i = n /\ clean'.at = "test" /\ clean'.b = clean.b /\ clean'.db = clean.db
        /\ clean'.fNeed = clean.fNeed /\ clean'.fSkipped = clean.fSkipped
    BY <2>2, CleanType DEF CleanLocals
  <2> QED
    BY <2>1, <2>3
<1>4. PICK r \in DOMAIN rce : r = Current
  BY <1>2
<1>5. rce' = [rce EXCEPT ![r].st = "null"] /\ rce[r].st # "null" /\ "null" \in {"active", "committed", "old", "null"}
  BY <1>1, <1>4
<1>6. /\ StoreTypes' /\ NoRceLost' /\ AboveExact'
      /\ rce' \in Seq(RCE) /\ Len(rce') = Len(rce) /\ rce'[r].st = "null" /\ rce'[r].db = rce[r].db
      /\ \A q \in 1..Len(rce) : q # r => rce'[q] = rce[q]
  BY <1>1, <1>3, <1>5, ChangedRce
<1>7. Walk'
  BY <1>1, <1>4, <1>6, AdvanceWalk
<1> QED
  BY <1>6, <1>7 DEF StoreInv

\* An RCE commits, is rolled back or becomes older than every transaction.
LEMMA AgeStore ==
    ASSUME IInv, NEW r \in DOMAIN rce, Age(r)
    PROVE  StoreInv'
<1>1. PICK move \in {<<"active", "committed">>, <<"active", "null">>, <<"committed", "old">>} :
        rce[r].st = move[1] /\ rce' = [rce EXCEPT ![r].st = move[2]]
  BY DEF Age
<1>2. UNCHANGED <<list, fAbove, clean, critBucket, critClean>>
  BY DEF Age, locks
<1>3. rce[r].st # "null" /\ move[2] \in {"active", "committed", "old", "null"}
  BY <1>1
<1>4. clean' \in CleanLocals
  BY <1>2, CleanType
<1>5. /\ StoreTypes' /\ NoRceLost' /\ AboveExact'
      /\ rce' \in Seq(RCE) /\ Len(rce') = Len(rce) /\ rce'[r].st = move[2] /\ rce'[r].db = rce[r].db
      /\ \A q \in 1..Len(rce) : q # r => rce'[q] = rce[q]
  BY <1>1, <1>2, <1>3, <1>4, ChangedRce
<1>6. \A q \in 1..Len(rce) : rce[q].st = "null" => rce'[q].st = "null"
  BY <1>3, <1>5
<1>7. Walk'
  <2>1. clean.at \in {"visit", "test", "rce", "free"} => clean.b \in 1..Len(list)
    BY DEF IInv, Walk
  <2>2. ASSUME clean.at \in {"test", "rce", "free"}, ~clean.fSkipped,
               NEW j \in list[clean.b].prceOldest..(clean.i - 1)
        PROVE  rce'[list[clean.b].rces[j]].st = "null"
    <3>1. rce[list[clean.b].rces[j]].st = "null" /\ clean.i \in list[clean.b].prceOldest..(Len(list[clean.b].rces) + 1)
      BY <2>2 DEF IInv, Walk
    <3>2. list[clean.b].rces \in Seq(1..Len(rce)) /\ Len(list[clean.b].rces) \in Nat /\ list[clean.b].prceOldest \in Nat \ {0}
      BY <2>1, <2>2, BucketType
    <3>3. j \in 1..Len(list[clean.b].rces)
      BY <3>1, <3>2
    <3>4. list[clean.b].rces[j] \in 1..Len(rce)
      BY <3>2, <3>3
    <3> QED
      BY <1>6, <3>1, <3>4
  <2> QED
    BY <1>2, <2>2 DEF IInv, Walk
<1> QED
  BY <1>5, <1>7 DEF StoreInv

\* The cleaner looks at an RCE.
LEMMA TestStore ==
    ASSUME IInv, NEW th \in Thread, TestRCE(th)
    PROVE  StoreInv'
<1>1. UNCHANGED <<rce, fAbove>> /\ critClean = th /\ critClean' = th /\ clean.at = "test"
  BY DEF TestRCE
<1>2. PICK b : b = clean.b /\ b \in 1..Len(list)
  BY <1>1 DEF IInv, Walk
<1>3. /\ clean.i \in list[b].prceOldest..(Len(list[b].rces) + 1)
      /\ ~clean.fNeed => b < Len(list)
      /\ ~clean.fSkipped => \A j \in list[b].prceOldest..(clean.i - 1) : rce[list[b].rces[j]].st = "null"
      /\ clean.db = all => clean.b = 1 /\ ~clean.fSkipped
  BY <1>1, <1>2 DEF IInv, Walk
<1>4. list[b] \in Bucket /\ list[b].prceOldest \in Nat \ {0} /\ Len(list[b].rces) \in Nat /\ list[b].rces \in Seq(1..Len(rce))
  BY <1>2, BucketType
<1>5. clean.i \in 1..(Len(list[b].rces) + 1)
  BY <1>3, <1>4
<1>6. /\ list' \in Seq(Bucket) /\ Len(list') = Len(list)
      /\ \A c \in 1..Len(list) : c # b => list'[c] = list[c]
      /\ list'[b].rces = list[b].rces
      /\ clean.fSkipped => list'[b].prceOldest = list[b].prceOldest
      /\ ~clean.fSkipped => list'[b].prceOldest = clean.i
  <2>1. CASE clean.fSkipped
    BY <2>1, RceType DEF TestRCE
  <2>2. CASE ~clean.fSkipped
    <3>1. PICK n : n = [list[b] EXCEPT !.prceOldest = clean.i]
      OBVIOUS
    <3>2. n \in Bucket /\ n.rces = list[b].rces /\ n.prceOldest = clean.i
      BY <1>4, <1>5, <3>1 DEF Bucket
    <3>3. list' = [list EXCEPT ![b] = n]
      BY <1>2, <2>2, <3>1 DEF TestRCE
    <3> QED
      BY <1>2, <2>2, <3>2, <3>3, RceType
  <2> QED
    BY <2>1, <2>2
<1>7. clean' = [clean EXCEPT !.at = IF AtEnd THEN "free" ELSE "rce"]
  BY DEF TestRCE
<1>8. /\ clean' \in CleanLocals /\ clean'.b = clean.b /\ clean'.i = clean.i /\ clean'.db = clean.db
      /\ clean'.fNeed = clean.fNeed /\ clean'.fSkipped = clean.fSkipped
      /\ clean'.at = (IF AtEnd THEN "free" ELSE "rce")
  BY <1>7, CleanType DEF CleanLocals
<1>9. StoreTypes'
  <2>1. ASSUME NEW c \in 1..Len(list')
        PROVE  /\ list'[c].rces \in Seq(1..Len(rce')) /\ Len(list'[c].rces) <= crceBucket
               /\ list'[c].prceOldest \in 1..(Len(list'[c].rces) + 1)
    <3>1. c \in 1..Len(list)
      BY <1>6
    <3>2. list[c].rces \in Seq(1..Len(rce)) /\ Len(list[c].rces) <= crceBucket /\ list[c].prceOldest \in 1..(Len(list[c].rces) + 1)
      BY <3>1, ControlNow DEF StoreTypes
    <3>3. CASE c # b
      BY <1>1, <1>6, <3>1, <3>2, <3>3
    <3>4. CASE c = b
      BY <1>1, <1>5, <1>6, <3>2, <3>4
    <3> QED
      BY <3>3, <3>4
  <2> QED
    BY <1>1, <1>6, <1>8, <2>1, ControlNow DEF StoreTypes
<1>10. Walk'
  <2>1. b \in 1..Len(list') /\ (~clean.fNeed => b < Len(list'))
    BY <1>2, <1>3, <1>6
  <2>2. clean.i \in list'[b].prceOldest..(Len(list'[b].rces) + 1)
    BY <1>3, <1>4, <1>5, <1>6
  <2>3. ~clean.fSkipped => list'[b].prceOldest..(clean.i - 1) = {}
    BY <1>5, <1>6
  <2>4. AtEnd <=> clean.i > Len(list'[b].rces)
    BY <1>2, <1>6 DEF AtEnd
  <2>5. ~AtEnd => clean.i <= Len(list'[b].rces)
    BY <1>4, <1>5, <1>6, <2>4
  <2>6. AtEnd /\ clean.fNeed => critBucket' = critClean'
    BY <1>1 DEF TestRCE
  <2>7. CASE AtEnd
    <3>1. clean'.at = "free"
      BY <1>8, <2>7
    <3> QED
      BY <1>2, <1>3, <1>8, <2>1, <2>2, <2>3, <2>4, <2>6, <2>7, <3>1 DEF Walk
  <2>8. CASE ~AtEnd
    <3>1. clean'.at = "rce"
      BY <1>8, <2>8
    <3> QED
      BY <1>2, <1>3, <1>8, <2>1, <2>2, <2>3, <2>5, <2>8, <3>1 DEF Walk
  <2> QED
    BY <2>7, <2>8
<1>11. NoRceLost'
  <2>1. ASSUME NEW r \in DOMAIN rce, rce[r].st # "null"
        PROVE  \E c \in DOMAIN list' : \E i \in list'[c].prceOldest..Len(list'[c].rces) : list'[c].rces[i] = r
    <3>1. PICK c \in DOMAIN list : \E i \in list[c].prceOldest..Len(list[c].rces) : list[c].rces[i] = r
      BY <2>1 DEF IInv, NoRceLost
    <3>2. PICK i \in list[c].prceOldest..Len(list[c].rces) : list[c].rces[i] = r
      BY <3>1
    <3>3. c \in 1..Len(list) /\ c \in DOMAIN list'
      BY <1>6, RceType
    <3>4. CASE c # b \/ clean.fSkipped
      BY <1>6, <3>2, <3>3, <3>4
    <3>5. CASE c = b /\ ~clean.fSkipped
      <4>1. ~(i \in list[b].prceOldest..(clean.i - 1))
        BY <1>3, <2>1, <3>2, <3>5
      <4>2. i \in list'[b].prceOldest..Len(list'[b].rces)
        BY <1>4, <1>5, <1>6, <3>2, <3>5, <4>1
      <4> QED
        BY <1>6, <3>2, <3>3, <3>5, <4>2
    <3> QED
      BY <3>4, <3>5
  <2> QED
    BY <1>1, <2>1 DEF NoRceLost
<1>12. AboveExact'
  BY <1>1, <1>6 DEF IInv, AboveExact
<1> QED
  BY <1>9, <1>10, <1>11, <1>12 DEF StoreInv

\* The cleaner stops at an RCE that is needed, or skips it.
LEMMA StopStore ==
    ASSUME IInv, NEW th \in Thread, StopOrSkip(th)
    PROVE  StoreInv'
<1>1. UNCHANGED <<list, rce, fAbove>> /\ clean.at = "rce"
  BY DEF StopOrSkip, store
<1>2. CASE clean.db \notin {all, rce[Current].db}
  <2>1. PICK n \in Nat : n = clean.i + 1
    BY CleanType DEF CleanLocals
  <2>2. clean' = [clean EXCEPT !.i = n, !.fSkipped = TRUE, !.at = "test"]
    BY <1>2, <2>1 DEF StopOrSkip
  <2>3. /\ clean' \in CleanLocals /\ clean'.i = n /\ clean'.at = "test" /\ clean'.b = clean.b /\ clean'.db = clean.db
        /\ clean'.fNeed = clean.fNeed /\ clean'.fSkipped
    BY <2>2, CleanType DEF CleanLocals
  <2>4. /\ clean.b \in 1..Len(list)
        /\ clean.i \in list[clean.b].prceOldest..(Len(list[clean.b].rces) + 1)
        /\ ~clean.fNeed => clean.b < Len(list)
        /\ clean.i <= Len(list[clean.b].rces)
    BY <1>1 DEF IInv, Walk
  <2>5. list[clean.b].prceOldest \in Nat /\ Len(list[clean.b].rces) \in Nat
    BY <2>4, BucketType
  <2>6. n \in list[clean.b].prceOldest..(Len(list[clean.b].rces) + 1)
    BY <2>1, <2>4, <2>5
  <2>7. Walk'
    BY <1>1, <1>2, <2>3, <2>4, <2>6 DEF Walk
  <2> QED
    BY <1>1, <2>3, <2>7, ControlNow DEF IInv, StoreInv, StoreTypes, NoRceLost, AboveExact
<1>3. CASE clean.db \in {all, rce[Current].db}
  <2>1. clean' = [clean EXCEPT !.at = "over"]
    BY <1>3 DEF StopOrSkip
  <2>2. clean' \in CleanLocals /\ clean'.at = "over" /\ clean'.db = clean.db /\ clean'.b = clean.b /\ clean'.fSkipped = clean.fSkipped
    BY <2>1, CleanType DEF CleanLocals
  <2>3. clean'.db = all => clean'.b = 1 /\ ~clean'.fSkipped
    BY <2>2 DEF IInv, Walk
  <2> QED
    BY <1>1, <2>2, <2>3, NoWalk
<1> QED
  BY <1>2, <1>3

\* The cleaner frees a bucket, or leaves it for the next.
LEMMA FreeStore ==
    ASSUME IInv, NEW th \in Thread, PbucketVERIFreeAndGetNextOldestBucket(th)
    PROVE  StoreInv'
<1>1. rce' = rce /\ critClean = th /\ clean.at = "free"
  BY DEF PbucketVERIFreeAndGetNextOldestBucket
<1>2. PICK b : b = clean.b /\ b \in 1..Len(list)
  BY <1>1 DEF IInv, Walk
<1>3. /\ clean.i > Len(list[b].rces)
      /\ clean.i \in list[b].prceOldest..(Len(list[b].rces) + 1)
      /\ ~clean.fSkipped => \A j \in list[b].prceOldest..(clean.i - 1) : rce[list[b].rces[j]].st = "null"
      /\ clean.db = all => clean.b = 1 /\ ~clean.fSkipped
  BY <1>1, <1>2 DEF IInv, Walk
<1>4. Len(list) \in Nat
  BY RceType
<1>5. PICK after : after = (IF clean.b = Len(list) THEN "over" ELSE "visit")
  OBVIOUS
<1>6. CASE clean.fSkipped
  <2>1. UNCHANGED <<list, fAbove>>
    BY <1>6 DEF PbucketVERIFreeAndGetNextOldestBucket
  <2>2. PICK n \in Nat : n = clean.b + 1
    BY CleanType DEF CleanLocals
  <2>3. clean' = [clean EXCEPT !.b = n, !.at = after]
    BY <1>5, <1>6, <2>2 DEF PbucketVERIFreeAndGetNextOldestBucket
  <2>4. /\ clean' \in CleanLocals /\ clean'.at = after /\ clean'.b = n
        /\ clean'.db = clean.db /\ clean'.fSkipped = clean.fSkipped
    BY <1>5, <2>3, CleanType DEF CleanLocals
  <2>5. clean.db # all
    BY <1>3, <1>6
  <2>6. after = "visit" => n \in 1..Len(list)
    BY <1>2, <1>4, <1>5, <2>2
  <2>7. Walk'
    BY <1>5, <2>1, <2>4, <2>5, <2>6 DEF Walk
  <2> QED
    BY <1>1, <2>1, <2>4, <2>7, ControlNow DEF IInv, StoreInv, StoreTypes, NoRceLost, AboveExact
<1>7. CASE ~clean.fSkipped
  <2>1. list' = SubSeq(list, 1, b - 1) \o SubSeq(list, b + 1, Len(list))
    BY <1>2, <1>7 DEF PbucketVERIFreeAndGetNextOldestBucket
  <2>2. /\ list' \in Seq(Bucket) /\ Len(list') = Len(list) - 1
        /\ \A c \in 1..(b - 1) : list'[c] = list[c]
        /\ \A c \in b..(Len(list) - 1) : list'[c] = list[c + 1]
    <3>1. PICK l \in Seq(Bucket) : l = list
      BY RceType
    <3>2. PICK m : m = SubSeq(l, 1, b - 1) \o SubSeq(l, b + 1, Len(l))
      OBVIOUS
    <3>3. b \in 1..Len(l)
      BY <1>2, <3>1
    <3>4. m \in Seq(Bucket) /\ Len(m) = Len(l) - 1
      BY <3>2, <3>3, FreedBucket
    <3>6. \A c \in 1..(Len(l) - 1) : m[c] = IF c < b THEN l[c] ELSE l[c + 1]
      BY <3>2, <3>3, FreedBucket
    <3>5. m = list'
      BY <2>1, <3>1, <3>2
    <3> QED
      BY <3>1, <3>3, <3>4, <3>5, <3>6
  <2>3. clean' = [clean EXCEPT !.at = after]
    BY <1>5, <1>7 DEF PbucketVERIFreeAndGetNextOldestBucket
  <2>4. /\ clean' \in CleanLocals /\ clean'.at = after /\ clean'.b = clean.b
        /\ clean'.db = clean.db /\ clean'.fSkipped = clean.fSkipped
    BY <1>5, <2>3, CleanType DEF CleanLocals
  <2>5. Walk'
    <3>1. after = "visit" => clean.b \in 1..Len(list')
      BY <1>2, <1>4, <1>5, <2>2
    <3> QED
      BY <1>3, <1>5, <2>4, <3>1 DEF Walk
  <2>6. \A c \in 1..Len(list') : \E o \in 1..Len(list) : list'[c] = list[o]
    <3>1. TAKE c \in 1..Len(list')
    <3>2. CASE c \in 1..(b - 1)
      BY <1>2, <1>4, <2>2, <3>2
    <3>3. CASE c \in b..(Len(list) - 1)
      <4>1. c + 1 \in 1..Len(list)
        BY <1>2, <1>4, <3>3
      <4> QED
        BY <2>2, <3>3, <4>1
    <3> QED
      BY <1>2, <1>4, <2>2, <3>2, <3>3
  <2>7. \A o \in 1..Len(list) : o # b => \E c \in 1..Len(list') : list'[c] = list[o]
    <3>1. SUFFICES ASSUME NEW o \in 1..Len(list), o # b PROVE \E c \in 1..Len(list') : list'[c] = list[o]
      OBVIOUS
    <3>2. CASE o < b
      <4>1. o \in 1..(b - 1) /\ o \in 1..Len(list')
        BY <1>2, <1>4, <2>2, <3>2
      <4> QED
        BY <2>2, <4>1
    <3>3. CASE o > b
      <4>1. o - 1 \in b..(Len(list) - 1) /\ o - 1 \in 1..Len(list') /\ (o - 1) + 1 = o
        BY <1>2, <1>4, <2>2, <3>3
      <4>2. list'[o - 1] = list[(o - 1) + 1]
        BY <2>2, <4>1
      <4> QED
        BY <4>1, <4>2
    <3> QED
      BY <1>2, <1>4, <3>1, <3>2, <3>3
  <2>8. StoreTypes'
    <3>1. Len(list') <= cbucketMost
      BY <1>4, <2>2, ControlNow, BucketsAssumption DEF StoreTypes
    <3>2. ASSUME NEW c \in 1..Len(list')
          PROVE  /\ list'[c].rces \in Seq(1..Len(rce')) /\ Len(list'[c].rces) <= crceBucket
                 /\ list'[c].prceOldest \in 1..(Len(list'[c].rces) + 1)
      <4>1. PICK o \in 1..Len(list) : list'[c] = list[o]
        BY <2>6
      <4> QED
        BY <1>1, <4>1, ControlNow DEF StoreTypes
    <3> QED
      BY <1>1, <2>2, <2>4, <3>1, <3>2, ControlNow DEF StoreTypes
  <2>9. NoRceLost'
    <3>1. ASSUME NEW r \in DOMAIN rce, rce[r].st # "null"
          PROVE  \E c \in DOMAIN list' : \E i \in list'[c].prceOldest..Len(list'[c].rces) : list'[c].rces[i] = r
      <4>1. PICK o \in DOMAIN list : \E i \in list[o].prceOldest..Len(list[o].rces) : list[o].rces[i] = r
        BY <3>1 DEF IInv, NoRceLost
      <4>2. PICK i \in list[o].prceOldest..Len(list[o].rces) : list[o].rces[i] = r
        BY <4>1
      <4>3. o \in 1..Len(list)
        BY RceType
      <4>4. o # b
        <5>1. SUFFICES ASSUME o = b PROVE FALSE
          OBVIOUS
        <5>2. list[b].prceOldest \in Nat /\ Len(list[b].rces) \in Nat
          BY <1>2, BucketType
        <5>3. i \in list[b].prceOldest..(clean.i - 1)
          BY <1>3, <4>2, <5>1, <5>2
        <5> QED
          BY <1>3, <1>7, <3>1, <4>2, <5>1, <5>3
      <4>5. PICK c \in 1..Len(list') : list'[c] = list[o]
        BY <2>7, <4>3, <4>4
      <4>6. c \in DOMAIN list'
        BY <2>2
      <4> QED
        BY <4>2, <4>5, <4>6
    <3> QED
      BY <1>1, <3>1 DEF NoRceLost
  <2>10. AboveExact'
    <3>1. fAbove' <=> (fAbove /\ Len(list) - 1 > cbucketAllowed)
      BY <1>7, ControlNow DEF PbucketVERIFreeAndGetNextOldestBucket, StillAbove, FlagTypes
    <3>2. fAbove <=> Len(list) > cbucketAllowed
      BY DEF IInv, AboveExact
    <3>3. (Len(list) > cbucketAllowed /\ Len(list) - 1 > cbucketAllowed) <=> Len(list) - 1 > cbucketAllowed
      BY <1>4, BucketsAssumption
    <3>4. fAbove' <=> Len(list') > cbucketAllowed
      BY <2>2, <3>1, <3>2, <3>3, Zenon
    <3> QED
      BY <3>4 DEF AboveExact
  <2> QED
    BY <2>5, <2>8, <2>9, <2>10 DEF StoreInv
<1> QED
  BY <1>6, <1>7

\* A session makes an RCE in the newest bucket.
LEMMA CreateStore ==
    ASSUME IInv, NEW s \in Session, NEW dt \in Db, NEW f \in BOOLEAN, ErrVERICreateRCE(s, dt, f)
    PROVE  StoreInv'
<1>1. critBucket = none /\ clean' = clean
  BY DEF ErrVERICreateRCE
<1>2. CASE Fits
  <2>1. Cut(dt, FALSE)
    BY <1>2 DEF ErrVERICreateRCE
  <2> QED
    BY <1>1, <1>2, <2>1, CutKeeps
<1>3. CASE ~Fits
  <2>1. UNCHANGED <<list, rce, fAbove>>
    BY <1>3 DEF ErrVERICreateRCE, store
  <2>2. ~(clean.at = "free" /\ clean.fNeed)
    BY <1>1, EndIsSafe
  <2> QED
    BY <1>1, <2>1, <2>2, SameStore
<1> QED
  BY <1>2, <1>3

\* A session gets a bucket, or asks for a cleanup and waits.
LEMMA AllocStore ==
    ASSUME IInv, NEW s \in Session, ErrVERIBUAllocBucket(s)
    PROVE  StoreInv'
<1>1. critBucket = s /\ clean' = clean /\ arg[s].db \in Db
  BY DEF ErrVERIBUAllocBucket, IInv, Locks, Roles
<1>2. CASE Len(list) < cbucketMost
  <2>1. Cut(arg[s].db, TRUE)
    BY <1>2 DEF ErrVERIBUAllocBucket
  <2> QED
    BY <1>1, <1>2, <2>1, CutKeeps
<1>3. CASE ~(Len(list) < cbucketMost)
  <2>1. UNCHANGED <<list, rce, fAbove>>
    BY <1>3 DEF ErrVERIBUAllocBucket, store
  <2>2. ~(clean.at = "free" /\ clean.fNeed)
    BY <1>1, EndIsSafe
  <2> QED
    BY <1>1, <2>1, <2>2, SameStore
<1> QED
  BY <1>2, <1>3

\* A session tries once more after its wait.
LEMMA RetryStore ==
    ASSUME IInv, NEW s \in Session, RetryAlloc(s)
    PROVE  StoreInv'
<1>1. critBucket = none /\ clean' = clean /\ arg[s].db \in Db
  BY DEF RetryAlloc, IInv, Roles
<1>2. CASE Fits
  <2>1. Cut(arg[s].db, ~Fits)
    BY <1>2 DEF RetryAlloc
  <2>2. Cut(arg[s].db, FALSE)
    BY <1>2, <2>1 DEF Cut
  <2> QED
    BY <1>1, <1>2, <2>2, CutKeeps
<1>3. CASE ~Fits /\ Len(list) < cbucketMost
  <2>1. Cut(arg[s].db, ~Fits)
    BY <1>3 DEF RetryAlloc
  <2>2. Cut(arg[s].db, TRUE)
    BY <1>3, <2>1 DEF Cut
  <2> QED
    BY <1>1, <1>3, <2>2, CutKeeps
<1>4. CASE ~Fits /\ ~(Len(list) < cbucketMost)
  <2>1. UNCHANGED <<list, rce, fAbove>>
    BY <1>4 DEF RetryAlloc, store
  <2>2. ~(clean.at = "free" /\ clean.fNeed)
    BY <1>1, EndIsSafe
  <2> QED
    BY <1>1, <2>1, <2>2, SameStore
<1> QED
  BY <1>2, <1>3, <1>4

\* When the cleaner is about to free the newest bucket, nobody else can take the
\* critical section of the buckets.
LEMMA SameWalk ==
    ASSUME IInv, UNCHANGED <<critBucket, critClean>>
    PROVE  clean.at = "free" /\ clean.fNeed => critBucket' = critClean'
BY DEF IInv, Walk

\* The store is kept by every step.
LEMMA StoreKept == ASSUME IInv, Next PROVE StoreInv'
<1>1. ASSUME NEW th \in Thread, SignalStep(th) PROVE StoreInv'
  <2>1. CASE Signal(th)
    <3>1. UNCHANGED <<list, rce, fAbove, clean, critBucket, critClean>>
      BY <2>1 DEF Signal, store, locks
    <3> QED
      BY <3>1, SameWalk, SameStore
  <2>2. CASE VERSignalCleanup(th)
    <3>1. UNCHANGED <<list, rce, fAbove, clean, critBucket, critClean>>
      BY <2>2 DEF VERSignalCleanup, store, locks
    <3> QED
      BY <3>1, SameWalk, SameStore
  <2>3. CASE ResetSignal(th)
    <3>1. UNCHANGED <<list, rce, fAbove, clean, critBucket, critClean>>
      BY <2>3 DEF ResetSignal, store, locks
    <3> QED
      BY <3>1, SameWalk, SameStore
  <2>4. CASE ErrTMPost(th)
    <3>1. UNCHANGED <<list, rce, fAbove, clean, critBucket, critClean>>
      BY <2>4 DEF ErrTMPost, store, locks
    <3> QED
      BY <3>1, SameWalk, SameStore
  <2>5. CASE SetSignal(th)
    <3>1. UNCHANGED <<list, rce, fAbove, clean, critBucket, critClean>>
      BY <2>5 DEF SetSignal, store, locks
    <3> QED
      BY <3>1, SameWalk, SameStore
  <2>6. CASE WithdrawSignal(th)
    <3>1. UNCHANGED <<list, rce, fAbove, clean, critBucket, critClean>>
      BY <2>6 DEF WithdrawSignal, store, locks
    <3> QED
      BY <3>1, SameWalk, SameStore
  <2> QED
    BY <1>1, <2>1, <2>2, <2>3, <2>4, <2>5, <2>6 DEF SignalStep
<1>2. ASSUME NEW th \in Thread, CleanStep(th) PROVE StoreInv'
  <2>1. CASE RunTask(th)
    <3>1. UNCHANGED <<list, rce, fAbove, clean, critBucket, critClean>>
      BY <2>1 DEF RunTask, store, locks
    <3> QED
      BY <3>1, SameWalk, SameStore
  <2>2. CASE Detach(th)
    <3>1. UNCHANGED <<list, rce, fAbove, clean, critBucket, critClean>>
      BY <2>2 DEF Detach, store, locks
    <3> QED
      BY <3>1, SameWalk, SameStore
  <2>3. CASE VisitBucket(th)
    BY <2>3, VisitStore
  <2>4. CASE TestRCE(th)
    BY <2>4, TestStore
  <2>5. CASE PassRCE(th)
    BY <2>5, PassStore
  <2>6. CASE ErrPrepareToDeallocate(th)
    BY <2>6, DeallocateStore
  <2>7. CASE StopOrSkip(th)
    BY <2>7, StopStore
  <2>8. CASE PbucketVERIFreeAndGetNextOldestBucket(th)
    BY <2>8, FreeStore
  <2>9. CASE EndClean(th)
    BY <2>9, EndCleanStore
  <2>10. CASE CleanPerformed(th)
    <3>1. UNCHANGED <<list, rce, fAbove, clean, critBucket, critClean>>
      BY <2>10 DEF CleanPerformed, store, locks
    <3> QED
      BY <3>1, SameWalk, SameStore
  <2>11. ASSUME NEW db \in Db \cup {all}, StartClean(th, db) PROVE StoreInv'
    BY <2>11, StartCleanStore
  <2> QED
    BY <1>2, <2>1, <2>2, <2>3, <2>4, <2>5, <2>6, <2>7, <2>8, <2>9, <2>10, <2>11 DEF CleanStep
<1>3. ASSUME NEW th \in Thread, TermStep(th) PROVE StoreInv'
  <2>1. CASE BeginTerm(th)
    <3>1. UNCHANGED <<list, rce, fAbove, clean, critBucket, critClean>>
      BY <2>1 DEF BeginTerm, store, locks
    <3> QED
      BY <3>1, SameWalk, SameStore
  <2>2. CASE TMTerm(th)
    <3>1. UNCHANGED <<list, rce, fAbove, clean, critBucket, critClean>>
      BY <2>2 DEF TMTerm, store, locks
    <3> QED
      BY <3>1, SameWalk, SameStore
  <2>3. CASE TooManyActiveUsers(th)
    <3>1. UNCHANGED <<list, rce, fAbove, clean, critBucket, critClean>>
      BY <2>3 DEF TooManyActiveUsers, store, locks
    <3> QED
      BY <3>1, SameWalk, SameStore
  <2>4. CASE VERTerm(th)
    <3>1. UNCHANGED <<list, rce, fAbove, clean, critBucket, critClean>>
      BY <2>4 DEF VERTerm, store, locks
    <3> QED
      BY <3>1, SameWalk, SameStore
  <2>5. CASE WaitCleanDone(th)
    <3>1. UNCHANGED <<list, rce, fAbove, clean, critBucket, critClean>>
      BY <2>5 DEF WaitCleanDone, store, locks
    <3> QED
      BY <3>1, SameWalk, SameStore
  <2> QED
    BY <1>3, <2>1, <2>2, <2>3, <2>4, <2>5 DEF TermStep
<1>4. ASSUME NEW s \in Session, SessionStep(s) PROVE StoreInv'
  <2>1. CASE ErrVERIBUAllocBucket(s)
    BY <2>1, AllocStore
  <2>2. CASE FWait(s)
    <3>1. UNCHANGED <<list, rce, fAbove, clean, critBucket, critClean>>
      BY <2>2 DEF FWait, store, locks
    <3> QED
      BY <3>1, SameWalk, SameStore
  <2>3. CASE RetryAlloc(s)
    BY <2>3, RetryStore
  <2>4. ASSUME NEW dt \in Db, NEW f \in BOOLEAN, ErrVERICreateRCE(s, dt, f) PROVE StoreInv'
    BY <2>4, CreateStore
  <2> QED
    BY <1>4, <2>1, <2>2, <2>3, <2>4 DEF SessionStep
<1>5. ASSUME NEW r \in DOMAIN rce, Age(r) PROVE StoreInv'
  BY <1>5, AgeStore
<1> QED
  BY <1>1, <1>2, <1>3, <1>4, <1>5 DEF Next

\* The types are those of the three parts.
LEMMA TypesKept == ASSUME ControlTypes', FlagTypes', StoreTypes' PROVE Types'
BY TypesSplit, PTL

\* The invariant holds initially.
LEMMA InitInv == Init => IInv
<1>1. SUFFICES ASSUME Init PROVE IInv
  OBVIOUS
<1>2. ControlTypes
  BY <1>1, ThreadRoles DEF Init, ControlTypes, Pcs, NoArg
<1>3. FlagTypes
  BY <1>1 DEF Init, FlagTypes
<1>4. Idle \in CleanLocals
  BY DEF Idle, CleanLocals
<1>5. /\ list \in Seq(Bucket) /\ Len(list) = 0 /\ rce \in Seq(RCE) /\ DOMAIN rce = {}
      /\ Len(list) <= cbucketMost
  BY <1>1, BucketsAssumption DEF Init
<1>6. StoreTypes
  BY <1>1, <1>4, <1>5 DEF Init, StoreTypes
<1>7. Types
  BY <1>2, <1>3, <1>6, TypesSplit
<1>8. Roles
  BY <1>1, ThreadRoles DEF Init, Roles
<1>9. Locks
  BY <1>1, ThreadRoles DEF Init, Locks, Idle, Signalling
<1>10. Walk
  BY <1>1 DEF Init, Walk, Idle
<1>11. Asked
  BY <1>1, ThreadRoles DEF Init, Asked, Holding, Asking
<1>12. Ending
  BY <1>1, ThreadRoles DEF Init, Ending, Asking
<1>13. NoRceLost
  BY <1>5 DEF NoRceLost
<1>14. SignalFollows
  BY <1>1 DEF Init, SignalFollows
<1>15. AboveExact
  <2>1. ~(Len(list) > cbucketAllowed)
    BY <1>5, BucketsAssumption
  <2> QED
    BY <1>1, <2>1 DEF Init, AboveExact
<1> QED
  BY <1>7, <1>8, <1>9, <1>10, <1>11, <1>12, <1>13, <1>14, <1>15 DEF IInv

\* Every step keeps the invariant.
LEMMA StepInv == IInv /\ [Next]_vars => IInv'
<1>1. SUFFICES ASSUME IInv, [Next]_vars PROVE IInv'
  OBVIOUS
<1>2. CASE Next
  <2>1. ControlTypes' /\ FlagTypes' /\ StoreInv'
    BY <1>1, <1>2, ControlTypesKept, FlagTypesKept, StoreKept
  <2>2. Types' /\ Walk' /\ NoRceLost' /\ AboveExact'
    BY <2>1, TypesKept DEF StoreInv
  <2>3. Roles' /\ Locks' /\ Asked' /\ Ending' /\ SignalFollows'
    BY <1>1, <1>2, RolesKept, LocksKept, AskedKept, EndingKept, SignalFollowsKept
  <2> QED
    BY <2>2, <2>3 DEF IInv
<1>3. CASE UNCHANGED vars
  BY <1>1, <1>3 DEF vars, IInv, Types, TypeOK, Roles, Locks, Walk, Asked, Holding, Ending, Open,
       NoRceLost, SignalFollows, AboveExact
<1> QED
  BY <1>1, <1>2, <1>3

\* The invariant that the other theorems rest on holds in every reachable state of
\* the bucket list, its signals, its cleaners and a shutdown.
THEOREM BucketsInvariant == Spec => []IInv
BY InitInv, StepInv, PTL DEF Spec

\* The invariant implies the property.
LEMMA InvIsSound == IInv => BucketsSound
<1>1. SUFFICES ASSUME IInv PROVE BucketsSound
  OBVIOUS
<1>2. TermIsFinal
  <2>1. SUFFICES ASSUME NEW th \in Terminator, pc[th] = "done"
                 PROVE  list = <<>> /\ queued = 0 /\ \A u \in Thread \ {th} : pc[u] \in {"idle", "cas"}
    BY DEF TermIsFinal
  <2>2. list = <<>> /\ queued = 0
    BY <1>1, <2>1 DEF IInv, Ending
  <2>3. ASSUME NEW u \in Thread \ {th} PROVE pc[u] \in {"idle", "cas"}
    <3>1. CASE u \in Session \cup Detacher \cup Worker
      BY <1>1, <2>1, <3>1 DEF IInv, Ending
    <3>2. CASE u \in Signaller
      BY <1>1, <2>1, <3>2, ThreadRoles DEF IInv, Ending, Roles, Signalling, Asking
    <3>3. u \notin Terminator
      BY <2>1, <2>3, BucketsAssumption
    <3> QED
      BY <2>3, <3>1, <3>2, <3>3 DEF Thread
  <2> QED
    BY <2>2, <2>3
<1> QED
  BY <1>1, <1>2 DEF BucketsSound, IInv, Types

\* No RCE that is needed is lost when a bucket is freed or passed by, whoever waits
\* for a cleanup is told, the flag about big transactions agrees with the number of
\* buckets, and shutdown leaves nothing behind (ver.cxx).
THEOREM BucketsAreSound == Spec => []BucketsSound
BY BucketsInvariant, InvIsSound, PTL

-----------------------------------------------------------------------------
(* A cleanup of one database.                                              *)

Walking == clean.at \in {"visit", "test", "rce", "free"} /\ clean.db # all

\* An RCE that is not one of the database, or is nullified.
Clear(r, db) == r.db = db => r.st = "null"

\* The cleaner is past place j of bucket c.
Past(c, j) == c < clean.b \/ (clean.at # "visit" /\ j < clean.i)

\* What the cleaner is past belongs to other databases or is nullified.
Behind == Walking =>
    \A c \in 1..clean.b : \A j \in list[c].prceOldest..Len(list[c].rces) :
        Past(c, j) => Clear(rce[list[c].rces[j]], clean.db)

\* Nobody is about to make an RCE of the database that is being cleaned.
Unused == critClean \in Detacher => \A s \in Session : arg[s].db # clean.db

DetachInv == IInv /\ Unused /\ Behind

\* The place of an RCE is in its bucket.
LEMMA PlaceIn ==
    ASSUME IInv, NEW c \in 1..Len(list), NEW j \in list[c].prceOldest..Len(list[c].rces)
    PROVE  j \in 1..Len(list[c].rces) /\ list[c].rces[j] \in 1..Len(rce)
<1>1. list[c].rces \in Seq(1..Len(rce)) /\ Len(list[c].rces) \in Nat /\ list[c].prceOldest \in 1..(Len(list[c].rces) + 1)
  BY BucketType
<1>2. j \in 1..Len(list[c].rces)
  BY <1>1
<1> QED
  BY <1>1, <1>2

\* The cleaner is in a linked bucket.
LEMMA WalkingIn ==
    ASSUME IInv, Walking
    PROVE  clean.b \in 1..Len(list) /\ clean.b \in Nat /\ clean.i \in Nat /\ clean.db \in Db /\ Len(list) \in Nat
BY CleanType, RceType DEF IInv, Walk, Walking, CleanLocals

\* What the cleaner is past stays behind when nothing changes.
LEMMA SameBehind == ASSUME DetachInv, UNCHANGED <<list, rce, clean>> PROVE Behind'
BY DEF DetachInv, Behind, Walking, Past, Clear

\* A cleaner that is in no bucket is past none.
LEMMA NothingBehind == ASSUME clean'.at \in {"off", "over"} PROVE Behind'
BY DEF Behind, Walking

\* The cleaner goes over a place with an RCE that is clear, while the others stay so.
LEMMA GoOver ==
    ASSUME DetachInv, clean.at = "rce", list' = list, rce' \in Seq(RCE), Len(rce') = Len(rce),
           clean'.b = clean.b, clean'.db = clean.db, clean'.i = clean.i + 1, clean'.at = "test",
           \A r \in 1..Len(rce) : Clear(rce[r], clean.db) => Clear(rce'[r], clean.db),
           clean.db # all => Clear(rce'[Current], clean.db)
    PROVE  Behind'
<1>1. SUFFICES ASSUME Walking', NEW c \in 1..clean'.b, NEW j \in list'[c].prceOldest..Len(list'[c].rces), Past(c, j)'
               PROVE  Clear(rce'[list'[c].rces[j]], clean'.db)
  BY DEF Behind, Clear
<1>2. Walking
  BY <1>1 DEF Walking
<1>3. c \in 1..Len(list) /\ c \in 1..clean.b /\ j \in list[c].prceOldest..Len(list[c].rces)
  BY <1>1, <1>2, WalkingIn DEF DetachInv
<1>4. j \in 1..Len(list[c].rces) /\ list[c].rces[j] \in 1..Len(rce)
  BY <1>3, PlaceIn DEF DetachInv
<1>5. c < clean.b \/ j < clean.i + 1
  BY <1>1 DEF Past
<1>6. CASE c < clean.b \/ j < clean.i
  <2>1. Past(c, j)
    BY <1>6 DEF Past
  <2>2. Clear(rce[list[c].rces[j]], clean.db)
    BY <1>2, <1>3, <2>1 DEF DetachInv, Behind
  <2> QED
    BY <1>4, <2>2
<1>7. CASE ~(c < clean.b \/ j < clean.i)
  <2>1. c = clean.b /\ j = clean.i
    BY <1>2, <1>3, <1>4, <1>5, <1>7, WalkingIn DEF DetachInv
  <2> QED
    BY <1>2, <2>1 DEF Current, Walking
<1> QED
  BY <1>6, <1>7

\* A place further on.
LEMMA NextPlace ==
    ASSUME IInv, clean' = [clean EXCEPT !.i = @ + 1, !.at = "test"]
    PROVE  clean'.b = clean.b /\ clean'.db = clean.db /\ clean'.i = clean.i + 1 /\ clean'.at = "test"
<1>1. PICK n \in Nat : n = clean.i + 1
  BY CleanType DEF CleanLocals
<1>2. clean' = [clean EXCEPT !.i = n, !.at = "test"]
  BY <1>1
<1> QED
  BY <1>1, <1>2, CleanType DEF CleanLocals

\* The cleaner passes an RCE that is nullified, and nullifies one.
LEMMA PassBehind == ASSUME DetachInv, NEW th \in Thread, PassRCE(th) PROVE Behind'
<1>1. UNCHANGED <<list, rce>> /\ clean.at = "rce" /\ rce[Current].st = "null" /\ clean' = [clean EXCEPT !.i = @ + 1, !.at = "test"]
  BY DEF PassRCE, store
<1>2. rce' \in Seq(RCE) /\ Len(rce') = Len(rce)
  BY <1>1, RceType DEF DetachInv
<1>3. \A r \in 1..Len(rce) : Clear(rce[r], clean.db) => Clear(rce'[r], clean.db)
  BY <1>1
<1>4. Clear(rce'[Current], clean.db)
  BY <1>1 DEF Clear
<1>5. clean'.b = clean.b /\ clean'.db = clean.db /\ clean'.i = clean.i + 1 /\ clean'.at = "test"
  BY <1>1, NextPlace DEF DetachInv
<1> QED
  BY <1>1, <1>2, <1>3, <1>4, <1>5, GoOver

\* An RCE that changes its state without being made anew.
LEMMA ChangedIsClear ==
    ASSUME IInv, NEW q \in DOMAIN rce, NEW st \in {"active", "committed", "old", "null"},
           rce[q].st # "null", rce' = [rce EXCEPT ![q].st = st]
    PROVE  /\ rce' \in Seq(RCE) /\ Len(rce') = Len(rce) /\ rce'[q].st = st /\ rce'[q].db = rce[q].db
           /\ \A db : \A r \in 1..Len(rce) : Clear(rce[r], db) => Clear(rce'[r], db)
<1>1. q \in 1..Len(rce) /\ rce[q] \in RCE /\ rce \in Seq(RCE)
  BY RceType
<1>2. PICK n : n = [rce[q] EXCEPT !.st = st]
  OBVIOUS
<1>3. n \in RCE /\ n.st = st /\ n.db = rce[q].db
  BY <1>1, <1>2 DEF RCE
<1>4. rce' = [rce EXCEPT ![q] = n]
  BY <1>2
<1>5. rce' \in Seq(RCE) /\ Len(rce') = Len(rce) /\ rce'[q] = n /\ \A r \in 1..Len(rce) : r # q => rce'[r] = rce[r]
  BY <1>1, <1>3, <1>4
<1>6. ASSUME NEW db, NEW r \in 1..Len(rce), Clear(rce[r], db) PROVE Clear(rce'[r], db)
  <2>1. CASE r = q
    BY <1>3, <1>5, <1>6, <2>1 DEF Clear
  <2>2. CASE r # q
    BY <1>5, <1>6, <2>2
  <2> QED
    BY <2>1, <2>2
<1> QED
  BY <1>3, <1>5, <1>6

LEMMA DeallocateBehind == ASSUME DetachInv, NEW th \in Thread, ErrPrepareToDeallocate(th) PROVE Behind'
<1>1. /\ list' = list /\ clean.at = "rce" /\ clean' = [clean EXCEPT !.i = @ + 1, !.at = "test"]
      /\ rce' = [rce EXCEPT ![Current].st = "null"] /\ rce[Current].st # "null"
  BY DEF ErrPrepareToDeallocate, Cleanable
<1>2. PICK q \in DOMAIN rce : q = Current
  BY <1>1, CurrentIn DEF DetachInv
<1>3. rce' = [rce EXCEPT ![q].st = "null"] /\ rce[q].st # "null" /\ "null" \in {"active", "committed", "old", "null"}
  BY <1>1, <1>2
<1>4. /\ rce' \in Seq(RCE) /\ Len(rce') = Len(rce) /\ rce'[q].st = "null"
      /\ \A db : \A r \in 1..Len(rce) : Clear(rce[r], db) => Clear(rce'[r], db)
  BY <1>3, ChangedIsClear DEF DetachInv
<1>5. Clear(rce'[Current], clean.db)
  BY <1>2, <1>4 DEF Clear
<1>6. clean'.b = clean.b /\ clean'.db = clean.db /\ clean'.i = clean.i + 1 /\ clean'.at = "test"
  BY <1>1, NextPlace DEF DetachInv
<1> QED
  BY <1>1, <1>4, <1>5, <1>6, GoOver

\* An RCE that ages is not one that the cleaner is past.
LEMMA AgeBehind == ASSUME DetachInv, NEW q \in DOMAIN rce, Age(q) PROVE Behind'
<1>1. PICK move \in {<<"active", "committed">>, <<"active", "null">>, <<"committed", "old">>} :
        rce[q].st = move[1] /\ rce' = [rce EXCEPT ![q].st = move[2]]
  BY DEF Age
<1>2. UNCHANGED <<list, clean>>
  BY DEF Age
<1>3. rce[q].st # "null" /\ move[2] \in {"active", "committed", "old", "null"}
  BY <1>1
<1>4. \A db : \A r \in 1..Len(rce) : Clear(rce[r], db) => Clear(rce'[r], db)
  BY <1>1, <1>3, ChangedIsClear DEF DetachInv
<1>5. SUFFICES ASSUME Walking, NEW c \in 1..clean.b, NEW j \in list[c].prceOldest..Len(list[c].rces), Past(c, j)
               PROVE  Clear(rce'[list[c].rces[j]], clean.db)
  BY <1>2 DEF Behind, Clear, Walking, Past
<1>6. c \in 1..Len(list)
  BY <1>5, WalkingIn DEF DetachInv
<1>7. list[c].rces[j] \in 1..Len(rce)
  BY <1>6, PlaceIn DEF DetachInv
<1>8. Clear(rce[list[c].rces[j]], clean.db)
  BY <1>5 DEF DetachInv, Behind
<1> QED
  BY <1>4, <1>7, <1>8

\* The cleaner skips an RCE of another database.
LEMMA StopBehind == ASSUME DetachInv, NEW th \in Thread, StopOrSkip(th) PROVE Behind'
<1>1. UNCHANGED <<list, rce>> /\ clean.at = "rce"
  BY DEF StopOrSkip, store
<1>2. CASE clean.db \notin {all, rce[Current].db}
  <2>1. PICK n \in Nat : n = clean.i + 1
    BY CleanType DEF CleanLocals, DetachInv
  <2>2. clean' = [clean EXCEPT !.i = n, !.fSkipped = TRUE, !.at = "test"]
    BY <1>2, <2>1 DEF StopOrSkip
  <2>3. clean'.i = clean.i + 1 /\ clean'.at = "test" /\ clean'.b = clean.b /\ clean'.db = clean.db
    BY <2>1, <2>2, CleanType DEF CleanLocals, DetachInv
  <2>4. rce' \in Seq(RCE) /\ Len(rce') = Len(rce) /\ \A r \in 1..Len(rce) : Clear(rce[r], clean.db) => Clear(rce'[r], clean.db)
    BY <1>1, RceType DEF DetachInv
  <2>5. Clear(rce'[Current], clean.db)
    BY <1>1, <1>2 DEF Clear
  <2> QED
    BY <1>1, <2>3, <2>4, <2>5, GoOver
<1>3. CASE clean.db \in {all, rce[Current].db}
  <2>1. clean' = [clean EXCEPT !.at = "over"]
    BY <1>3 DEF StopOrSkip
  <2> QED
    BY <2>1, CleanType, NothingBehind DEF CleanLocals, DetachInv
<1> QED
  BY <1>2, <1>3

\* The cleaner turns to a bucket, of which it is past no place.
LEMMA VisitBehind == ASSUME DetachInv, NEW th \in Thread, VisitBucket(th) PROVE Behind'
<1>1. UNCHANGED <<list, rce>> /\ clean.at = "visit"
  BY DEF VisitBucket, store
<1>2. PICK f \in BOOLEAN : f = FNeedBeInCritBucketGlobal
  BY DEF FNeedBeInCritBucketGlobal
<1>3. PICK n : n = list[clean.b].prceOldest
  OBVIOUS
<1>4. clean' = [clean EXCEPT !.i = n, !.fNeed = f, !.fSkipped = FALSE, !.at = "test"]
  BY <1>2, <1>3 DEF VisitBucket
<1>5. clean'.b = clean.b /\ clean'.db = clean.db /\ clean'.i = n
  BY <1>4, CleanType DEF CleanLocals, DetachInv
<1>6. SUFFICES ASSUME Walking', NEW c \in 1..clean.b, NEW j \in list[c].prceOldest..Len(list[c].rces), c < clean.b \/ j < n
               PROVE  Clear(rce[list[c].rces[j]], clean.db)
  BY <1>1, <1>5 DEF Behind, Clear, Past
<1>7. Walking
  BY <1>1, <1>5, <1>6 DEF Walking
<1>8. clean.b \in 1..Len(list) /\ clean.b \in Nat /\ Len(list) \in Nat
  BY <1>7, WalkingIn DEF DetachInv
<1>9. c < clean.b
  <2>1. CASE c = clean.b
    <3>1. list[c].prceOldest \in Nat
      BY <1>8, <2>1, BucketType DEF DetachInv
    <3> QED
      BY <1>3, <1>6, <1>8, <2>1, <3>1
  <2> QED
    BY <1>8, <2>1
<1> QED
  BY <1>7, <1>9 DEF DetachInv, Behind, Past

\* The cleaner looks at a place, and notes it unless it has skipped something.
LEMMA TestBehind == ASSUME DetachInv, NEW th \in Thread, TestRCE(th) PROVE Behind'
<1>1. rce' = rce /\ clean.at = "test"
  BY DEF TestRCE
<1>2. clean' = [clean EXCEPT !.at = IF AtEnd THEN "free" ELSE "rce"]
  BY DEF TestRCE
<1>3. clean'.b = clean.b /\ clean'.i = clean.i /\ clean'.db = clean.db
  BY <1>2, CleanType DEF CleanLocals, DetachInv
<1>4. SUFFICES ASSUME Walking', NEW c \in 1..clean.b, NEW j \in list'[c].prceOldest..Len(list'[c].rces), c < clean.b \/ j < clean.i
               PROVE  Clear(rce[list'[c].rces[j]], clean.db)
  BY <1>1, <1>3 DEF Behind, Clear, Past
<1>5. Walking
  BY <1>1, <1>3, <1>4 DEF Walking
<1>6. clean.b \in 1..Len(list) /\ clean.b \in Nat /\ Len(list) \in Nat /\ clean.i \in Nat
  BY <1>5, WalkingIn DEF DetachInv
<1>7. c \in 1..Len(list)
  BY <1>6
<1>8. CASE list'[c] = list[c]
  <2>1. Past(c, j)
    BY <1>1, <1>4 DEF Past
  <2> QED
    BY <1>4, <1>5, <1>8, <2>1 DEF DetachInv, Behind
<1>9. CASE list'[c] # list[c]
  <2>1. list' = [list EXCEPT ![clean.b].prceOldest = clean.i]
    BY <1>9 DEF TestRCE
  <2>2. PICK b : b = clean.b /\ b \in 1..Len(list)
    BY <1>6
  <2>3. PICK n : n = [list[b] EXCEPT !.prceOldest = clean.i]
    OBVIOUS
  <2>4. list' = [list EXCEPT ![b] = n]
    BY <2>1, <2>2, <2>3
  <2>5. c = b /\ list'[c] = n
    BY <1>7, <1>9, <2>2, <2>4, RceType DEF DetachInv
  <2>6. n.prceOldest = clean.i
    BY <2>2, <2>3, BucketType DEF DetachInv, Bucket
  <2>7. n.rces = list[b].rces /\ Len(list[b].rces) \in Nat
    BY <2>2, <2>3, BucketType DEF DetachInv, Bucket
  <2>8. j >= clean.i /\ ~(c < clean.b)
    BY <1>4, <1>6, <2>2, <2>5, <2>6, <2>7
  <2> QED
    BY <1>4, <1>6, <2>6, <2>5, <2>7, <2>8
<1> QED
  BY <1>8, <1>9

\* At the end of a bucket the cleaner is past all that is in it.
LEMMA AllPast ==
    ASSUME IInv, Walking, clean.at = "free", NEW c \in 1..clean.b, NEW j \in list[c].prceOldest..Len(list[c].rces)
    PROVE  Past(c, j)
<1>1. clean.b \in 1..Len(list) /\ clean.b \in Nat /\ Len(list) \in Nat /\ clean.i \in Nat
  BY WalkingIn
<1>2. CASE c = clean.b
  <2>1. clean.i > Len(list[c].rces) /\ Len(list[c].rces) \in Nat /\ list[c].prceOldest \in Nat
    BY <1>1, <1>2, BucketType DEF IInv, Walk
  <2> QED
    BY <1>1, <2>1 DEF Past
<1> QED
  BY <1>1, <1>2 DEF Past

\* The buckets before the one that is unlinked stay where they are.
LEMMA FreedKeeps ==
    ASSUME IInv, NEW b \in 1..Len(list), NEW m, m = SubSeq(list, 1, b - 1) \o SubSeq(list, b + 1, Len(list)),
           NEW k \in 1..b, k < b
    PROVE  m[k] = list[k]
<1>1. PICK l \in Seq(Bucket) : l = list
  BY RceType
<1>2. PICK n : n = SubSeq(l, 1, b - 1) \o SubSeq(l, b + 1, Len(l))
  OBVIOUS
<1>3. b \in 1..Len(l)
  BY <1>1
<1>4. \A c \in 1..(Len(l) - 1) : n[c] = IF c < b THEN l[c] ELSE l[c + 1]
  BY <1>2, <1>3, FreedBucket
<1>5. Len(l) \in Nat /\ k \in 1..(Len(l) - 1) /\ m = n
  BY <1>1, <1>2
<1> QED
  BY <1>1, <1>4, <1>5

\* The cleaner goes to the next bucket, and unlinks the one it leaves if it has
\* skipped nothing there.
LEMMA FreeBehind ==
    ASSUME DetachInv, NEW th \in Thread, PbucketVERIFreeAndGetNextOldestBucket(th)
    PROVE  Behind'
<1>1. rce' = rce /\ clean.at = "free"
  BY DEF PbucketVERIFreeAndGetNextOldestBucket
<1>2. PICK after : after = (IF clean.b = Len(list) THEN "over" ELSE "visit")
  OBVIOUS
<1>3. CASE clean.fSkipped
  <2>1. list' = list
    BY <1>3 DEF PbucketVERIFreeAndGetNextOldestBucket
  <2>2. PICK n \in Nat : n = clean.b + 1
    BY CleanType DEF CleanLocals, DetachInv
  <2>3. clean' = [clean EXCEPT !.b = n, !.at = after]
    BY <1>2, <1>3, <2>2 DEF PbucketVERIFreeAndGetNextOldestBucket
  <2>4. clean'.at = after /\ clean'.b = n /\ clean'.db = clean.db
    BY <2>3, CleanType DEF CleanLocals, DetachInv
  <2>5. SUFFICES ASSUME Walking', NEW c \in 1..n, NEW j \in list[c].prceOldest..Len(list[c].rces), c < n
                 PROVE  Clear(rce[list[c].rces[j]], clean.db)
    BY <1>1, <1>2, <2>1, <2>4 DEF Behind, Clear, Past, Walking
  <2>6. Walking
    BY <1>1, <2>4, <2>5 DEF Walking
  <2>7. c \in 1..clean.b
    BY <2>2, <2>5, <2>6, WalkingIn DEF DetachInv
  <2>8. Past(c, j)
    BY <1>1, <2>5, <2>6, <2>7, AllPast DEF DetachInv
  <2> QED
    BY <2>5, <2>6, <2>7, <2>8 DEF DetachInv, Behind
<1>4. CASE ~clean.fSkipped
  <2>1. PICK b : b = clean.b
    OBVIOUS
  <2>2. list' = SubSeq(list, 1, b - 1) \o SubSeq(list, b + 1, Len(list))
    BY <1>4, <2>1 DEF PbucketVERIFreeAndGetNextOldestBucket
  <2>3. clean' = [clean EXCEPT !.at = after]
    BY <1>2, <1>4 DEF PbucketVERIFreeAndGetNextOldestBucket
  <2>4. clean'.at = after /\ clean'.b = b /\ clean'.db = clean.db
    BY <2>1, <2>3, CleanType DEF CleanLocals, DetachInv
  <2>5. SUFFICES ASSUME Walking', NEW c \in 1..b, NEW j \in list'[c].prceOldest..Len(list'[c].rces), c < b
                 PROVE  Clear(rce[list'[c].rces[j]], clean.db)
    BY <1>1, <1>2, <2>4 DEF Behind, Clear, Past, Walking
  <2>6. Walking
    BY <1>1, <2>4, <2>5 DEF Walking
  <2>7. b \in 1..Len(list) /\ Len(list) \in Nat
    BY <2>1, <2>6, WalkingIn DEF DetachInv
  <2>8. list'[c] = list[c]
    BY <2>2, <2>5, <2>7, FreedKeeps DEF DetachInv
  <2>9. Past(c, j)
    BY <2>1, <2>5 DEF Past
  <2> QED
    BY <2>1, <2>5, <2>6, <2>8, <2>9 DEF DetachInv, Behind
<1> QED
  BY <1>3, <1>4

\* An RCE that is made is not one of the database that is being cleaned.
LEMMA CutBehind ==
    ASSUME DetachInv, NEW dt \in Db, NEW f \in BOOLEAN, Cut(dt, f), f \/ Fits,
           clean' = clean, Walking => dt # clean.db
    PROVE  Behind'
<1>1. SUFFICES ASSUME Walking, NEW c \in 1..clean.b, NEW j \in list'[c].prceOldest..Len(list'[c].rces), Past(c, j)
               PROVE  Clear(rce'[list'[c].rces[j]], clean.db)
  BY DEF Behind, Clear, Past, Walking
<1>2. c \in 1..Len(list) /\ Len(list) \in Nat
  BY <1>1, WalkingIn DEF DetachInv
<1>3. /\ Len(rce') = Len(rce) + 1 /\ \A r \in 1..Len(rce) : rce'[r] = rce[r]
      /\ Len(list') = (IF f THEN Len(list) + 1 ELSE Len(list))
      /\ \A b \in 1..Len(list) : b # Len(list') => list'[b] = list[b]
      /\ list'[Len(list')].rces = Append(IF f THEN <<>> ELSE list[Len(list)].rces, Len(rce) + 1)
  BY CutStore DEF DetachInv
<1>4. /\ list'[c].prceOldest = list[c].prceOldest
      /\ Len(list'[c].rces) \in Nat
      /\ \A i \in 1..Len(list[c].rces) : list'[c].rces[i] = list[c].rces[i]
      /\ c < Len(list) => list'[c] = list[c]
  BY <1>2, CutBucket DEF DetachInv
<1>5. Len(list[c].rces) \in Nat /\ list[c].prceOldest \in 1..(Len(list[c].rces) + 1) /\ list[c].rces \in Seq(1..Len(rce))
  BY <1>2, BucketType DEF DetachInv
<1>6. CASE j <= Len(list[c].rces)
  <2>1. j \in list[c].prceOldest..Len(list[c].rces) /\ j \in 1..Len(list[c].rces)
    BY <1>1, <1>4, <1>5, <1>6
  <2>2. list'[c].rces[j] = list[c].rces[j]
    BY <1>4, <2>1
  <2>4. list[c].rces[j] \in 1..Len(rce)
    BY <1>2, <2>1, PlaceIn DEF DetachInv
  <2>3. Clear(rce[list[c].rces[j]], clean.db)
    BY <1>1, <2>1 DEF DetachInv, Behind
  <2> QED
    BY <1>3, <2>2, <2>3, <2>4
<1>7. CASE ~(j <= Len(list[c].rces))
  <2>1. list'[c] # list[c]
    BY <1>1, <1>4, <1>5, <1>7
  <2>2. c = Len(list)
    BY <1>2, <1>4, <2>1
  <2>3. ~f
    <3>1. f => list'[c] = list[c]
      BY <1>2, <1>3
    <3> QED
      BY <2>1, <3>1
  <2>4. list'[c].rces = Append(list[c].rces, Len(rce) + 1)
    BY <1>3, <2>2, <2>3
  <2>5. j = Len(list[c].rces) + 1
    BY <1>1, <1>4, <1>5, <1>7, <2>4
  <2>6. list'[c].rces[j] = Len(rce) + 1
    BY <1>5, <2>4, <2>5
  <2>7. rce'[Len(rce) + 1].db = dt
    <3>1. rce' = Append(rce, [db |-> dt, st |-> "active"])
      BY DEF Cut
    <3> QED
      BY <3>1, RceType DEF DetachInv
  <2> QED
    BY <1>1, <2>6, <2>7 DEF Clear
<1> QED
  BY <1>6, <1>7

\* A session that makes an RCE at once, after it got a bucket and after a wait.
LEMMA WalkingOne == ASSUME DetachInv, Walking PROVE critClean \in Detacher /\ \A s \in Session : arg[s].db # clean.db
<1>1. critClean # none
  BY DEF DetachInv, IInv, Locks, Walking
<1> QED
  BY <1>1 DEF DetachInv, IInv, Locks, Walking, Unused

LEMMA CreateBehind ==
    ASSUME DetachInv, NEW s \in Session, NEW dt \in Db, NEW f \in BOOLEAN, ErrVERICreateRCE(s, dt, f)
    PROVE  Behind'
<1>1. clean' = clean /\ (critClean \in Detacher => clean.db # dt)
  BY DEF ErrVERICreateRCE
<1>2. CASE Fits
  <2>1. Cut(dt, FALSE)
    BY <1>2 DEF ErrVERICreateRCE
  <2> QED
    BY <1>1, <1>2, <2>1, CutBehind, WalkingOne
<1>3. CASE ~Fits
  <2>1. UNCHANGED <<list, rce, clean>>
    BY <1>1, <1>3 DEF ErrVERICreateRCE, store
  <2> QED
    BY <2>1, SameBehind
<1> QED
  BY <1>2, <1>3

LEMMA AllocBehind == ASSUME DetachInv, NEW s \in Session, ErrVERIBUAllocBucket(s) PROVE Behind'
<1>1. clean' = clean /\ arg[s].db \in Db
  BY DEF ErrVERIBUAllocBucket, DetachInv, IInv, Roles
<1>2. Walking => arg[s].db # clean.db
  BY WalkingOne
<1>3. CASE Len(list) < cbucketMost
  <2>1. Cut(arg[s].db, TRUE)
    BY <1>3 DEF ErrVERIBUAllocBucket
  <2> QED
    BY <1>1, <1>2, <2>1, CutBehind
<1>4. CASE ~(Len(list) < cbucketMost)
  <2>1. UNCHANGED <<list, rce, clean>>
    BY <1>1, <1>4 DEF ErrVERIBUAllocBucket, store
  <2> QED
    BY <2>1, SameBehind
<1> QED
  BY <1>3, <1>4

LEMMA RetryBehind == ASSUME DetachInv, NEW s \in Session, RetryAlloc(s) PROVE Behind'
<1>1. clean' = clean /\ arg[s].db \in Db
  BY DEF RetryAlloc, DetachInv, IInv, Roles
<1>2. Walking => arg[s].db # clean.db
  BY WalkingOne
<1>3. CASE Fits
  <2>1. Cut(arg[s].db, ~Fits)
    BY <1>3 DEF RetryAlloc
  <2>2. Cut(arg[s].db, FALSE)
    BY <1>3, <2>1 DEF Cut
  <2> QED
    BY <1>1, <1>2, <1>3, <2>2, CutBehind
<1>4. CASE ~Fits /\ Len(list) < cbucketMost
  <2>1. Cut(arg[s].db, ~Fits)
    BY <1>4 DEF RetryAlloc
  <2>2. Cut(arg[s].db, TRUE)
    BY <1>4, <2>1 DEF Cut
  <2> QED
    BY <1>1, <1>2, <2>2, CutBehind
<1>5. CASE ~Fits /\ ~(Len(list) < cbucketMost)
  <2>1. UNCHANGED <<list, rce, clean>>
    BY <1>1, <1>5 DEF RetryAlloc, store
  <2> QED
    BY <2>1, SameBehind
<1> QED
  BY <1>3, <1>4, <1>5

\* A cleanup starts at the oldest bucket, and ends.
LEMMA StartBehind == ASSUME DetachInv, NEW th \in Thread, NEW db \in Db \cup {all}, StartClean(th, db) PROVE Behind'
<1>1. clean'.b = 1 /\ clean'.at \in {"over", "visit"}
  BY DEF StartClean, Idle
<1>2. SUFFICES ASSUME Walking', NEW c \in 1..clean'.b, NEW j \in (list'[c].prceOldest)..Len(list'[c].rces), Past(c, j)'
               PROVE  FALSE
  BY DEF Behind
<1>3. clean'.at = "visit"
  BY <1>1, <1>2 DEF Walking
<1>4. c < clean'.b
  BY <1>2, <1>3 DEF Past
<1> QED
  BY <1>1, <1>4

LEMMA EndBehind == ASSUME DetachInv, NEW th \in Thread, EndClean(th) PROVE Behind'
<1>1. clean'.at = "off"
  BY DEF EndClean, Idle
<1> QED
  BY <1>1, NothingBehind

\* What the cleaner is past stays behind, whatever happens.
LEMMA BehindKept == ASSUME DetachInv, Next PROVE Behind'
<1>1. ASSUME NEW th \in Thread, SignalStep(th) PROVE Behind'
  <2>1. UNCHANGED <<list, rce, clean>>
    BY <1>1 DEF SignalStep, Signal, VERSignalCleanup, ResetSignal, ErrTMPost, SetSignal, WithdrawSignal, store
  <2> QED
    BY <2>1, SameBehind
<1>2. ASSUME NEW th \in Thread, CleanStep(th) PROVE Behind'
  <2>1. CASE RunTask(th) \/ Detach(th) \/ CleanPerformed(th)
    <3>1. UNCHANGED <<list, rce, clean>>
      BY <2>1 DEF RunTask, Detach, CleanPerformed, store
    <3> QED
      BY <3>1, SameBehind
  <2>2. ASSUME NEW db \in Db \cup {all}, StartClean(th, db) PROVE Behind'
    BY <2>2, StartBehind
  <2>3. CASE VisitBucket(th)
    BY <2>3, VisitBehind
  <2>4. CASE TestRCE(th)
    BY <2>4, TestBehind
  <2>5. CASE PassRCE(th)
    BY <2>5, PassBehind
  <2>6. CASE ErrPrepareToDeallocate(th)
    BY <2>6, DeallocateBehind
  <2>7. CASE StopOrSkip(th)
    BY <2>7, StopBehind
  <2>8. CASE PbucketVERIFreeAndGetNextOldestBucket(th)
    BY <2>8, FreeBehind
  <2>9. CASE EndClean(th)
    BY <2>9, EndBehind
  <2> QED
    BY <1>2, <2>1, <2>2, <2>3, <2>4, <2>5, <2>6, <2>7, <2>8, <2>9 DEF CleanStep
<1>3. ASSUME NEW th \in Thread, TermStep(th) PROVE Behind'
  <2>1. UNCHANGED <<list, rce, clean>>
    BY <1>3 DEF TermStep, BeginTerm, TMTerm, TooManyActiveUsers, VERTerm, WaitCleanDone, store
  <2> QED
    BY <2>1, SameBehind
<1>4. ASSUME NEW s \in Session, SessionStep(s) PROVE Behind'
  <2>1. CASE FWait(s)
    <3>1. UNCHANGED <<list, rce, clean>>
      BY <2>1 DEF FWait, store
    <3> QED
      BY <3>1, SameBehind
  <2>2. ASSUME NEW dt \in Db, NEW f \in BOOLEAN, ErrVERICreateRCE(s, dt, f) PROVE Behind'
    BY <2>2, CreateBehind
  <2>3. CASE ErrVERIBUAllocBucket(s)
    BY <2>3, AllocBehind
  <2>4. CASE RetryAlloc(s)
    BY <2>4, RetryBehind
  <2> QED
    BY <1>4, <2>1, <2>2, <2>3, <2>4 DEF SessionStep
<1>5. ASSUME NEW r \in DOMAIN rce, Age(r) PROVE Behind'
  BY <1>5, AgeBehind
<1> QED
  BY <1>1, <1>2, <1>3, <1>4, <1>5 DEF Next

\* A session that forgets what it was about to make uses no database.
LEMMA ForgetsDb ==
    ASSUME IInv, NEW u \in Session, Forget(u), NEW s \in Session, NEW db \in Db
    PROVE  arg'[s].db = arg[s].db \/ arg'[s].db # db
<1>1. arg' = [arg EXCEPT ![u] = NoArg] /\ NoArg.db = none /\ none \notin Db
  BY BucketsAssumption DEF Forget, NoArg
<1>2. DOMAIN arg = Session
  BY ControlNow DEF ControlTypes
<1> QED
  BY <1>1, <1>2

\* Nothing is done in a database that is being cleaned by itself.
LEMMA UnusedKept == ASSUME DetachInv, Next PROVE Unused'
<1>1. ASSUME critClean' = critClean, clean'.db = clean.db,
             \A s \in Session : arg'[s].db = arg[s].db \/ (critClean \in Detacher => arg'[s].db # clean.db)
      PROVE  Unused'
  BY <1>1 DEF DetachInv, Unused
<1>2. ASSUME NEW th \in Thread, SignalStep(th) PROVE Unused'
  <2>1. UNCHANGED <<critClean, clean, arg>>
    BY <1>2 DEF SignalStep, Signal, VERSignalCleanup, ResetSignal, ErrTMPost, SetSignal, WithdrawSignal, locks
  <2> QED
    BY <1>1, <2>1
<1>3. ASSUME NEW th \in Thread, CleanStep(th) PROVE Unused'
  <2>1. CASE RunTask(th) \/ Detach(th) \/ CleanPerformed(th)
    <3>1. UNCHANGED <<critClean, clean, arg>>
      BY <2>1 DEF RunTask, Detach, CleanPerformed, locks
    <3> QED
      BY <1>1, <3>1
  <2>2. ASSUME NEW db \in Db \cup {all}, StartClean(th, db) PROVE Unused'
    <3>1. clean'.db = db /\ arg' = arg /\ \A s \in Session : arg[s].db # db
      BY <2>2 DEF StartClean, Idle
    <3> QED
      BY <3>1 DEF Unused
  <2>3. CASE VisitBucket(th) \/ TestRCE(th) \/ PassRCE(th) \/ ErrPrepareToDeallocate(th) \/ StopOrSkip(th)
             \/ PbucketVERIFreeAndGetNextOldestBucket(th)
    <3>1. UNCHANGED <<critClean, arg>>
      BY <2>3 DEF VisitBucket, TestRCE, PassRCE, ErrPrepareToDeallocate, StopOrSkip,
           PbucketVERIFreeAndGetNextOldestBucket, locks
    <3>2. clean'.db = clean.db
      BY <2>3, CleanType DEF VisitBucket, TestRCE, PassRCE, ErrPrepareToDeallocate, StopOrSkip,
           PbucketVERIFreeAndGetNextOldestBucket, CleanLocals, DetachInv
    <3> QED
      BY <1>1, <3>1, <3>2
  <2>4. CASE EndClean(th)
    <3>1. critClean' = none /\ none \notin Detacher
      BY <2>4, BucketsAssumption DEF EndClean, Thread
    <3> QED
      BY <3>1 DEF Unused
  <2> QED
    BY <1>3, <2>1, <2>2, <2>3, <2>4 DEF CleanStep
<1>4. ASSUME NEW th \in Thread, TermStep(th) PROVE Unused'
  <2>1. UNCHANGED <<critClean, clean, arg>>
    BY <1>4 DEF TermStep, BeginTerm, TMTerm, TooManyActiveUsers, VERTerm, WaitCleanDone, locks
  <2> QED
    BY <1>1, <2>1
<1>5. critClean \in Detacher => clean.db \in Db
  BY BucketsAssumption, CleanType DEF DetachInv, IInv, Locks, CleanLocals, Thread
<1>6. ASSUME NEW u \in Session, SessionStep(u) PROVE Unused'
  <2>1. CASE FWait(u)
    <3>1. UNCHANGED <<critClean, clean, arg>>
      BY <2>1 DEF FWait, locks
    <3> QED
      BY <1>1, <3>1
  <2>2. ASSUME NEW dt \in Db, NEW f \in BOOLEAN, ErrVERICreateRCE(u, dt, f) PROVE Unused'
    <3>1. UNCHANGED <<critClean, clean>> /\ (critClean \in Detacher => clean.db # dt)
      BY <2>2 DEF ErrVERICreateRCE, locks
    <3>2. arg' = arg \/ arg' = [arg EXCEPT ![u] = [db |-> dt, fConcurrent |-> f]]
      BY <2>2 DEF ErrVERICreateRCE
    <3>3. DOMAIN arg = Session
      BY ControlNow DEF ControlTypes, DetachInv
    <3>4. \A s \in Session : arg'[s].db = arg[s].db \/ arg'[s].db = dt
      BY <3>2, <3>3
    <3> QED
      BY <1>1, <3>1, <3>4
  <2>3. CASE ErrVERIBUAllocBucket(u) \/ RetryAlloc(u)
    <3>1. UNCHANGED <<critClean, clean>> /\ (arg' = arg \/ Forget(u))
      BY <2>3 DEF ErrVERIBUAllocBucket, RetryAlloc, locks, Unlock
    <3>2. CASE Forget(u)
      <4>1. \A s \in Session : \A db \in Db : arg'[s].db = arg[s].db \/ arg'[s].db # db
        BY <3>2, ForgetsDb DEF DetachInv
      <4> QED
        BY <1>1, <1>5, <3>1, <4>1
    <3> QED
      BY <1>1, <3>1, <3>2
  <2> QED
    BY <1>6, <2>1, <2>2, <2>3 DEF SessionStep
<1>7. ASSUME NEW r \in DOMAIN rce, Age(r) PROVE Unused'
  <2>1. UNCHANGED <<critClean, clean, arg>>
    BY <1>7 DEF Age, locks
  <2> QED
    BY <1>1, <2>1
<1> QED
  BY <1>2, <1>3, <1>4, <1>6, <1>7 DEF Next

\* A cleanup of one database leaves nothing of it behind as it goes on.
THEOREM DetachInvariant == Spec => []DetachInv
<1>1. Init => Unused /\ Behind
  <2>1. SUFFICES ASSUME Init PROVE Unused /\ Behind
    OBVIOUS
  <2>2. critClean \notin Detacher /\ clean.at = "off"
    BY <2>1, BucketsAssumption DEF Init, Idle, Thread
  <2> QED
    BY <2>2 DEF Unused, Behind, Walking
<1>2. DetachInv /\ [Next]_vars => (Unused /\ Behind)'
  <2>1. SUFFICES ASSUME DetachInv, [Next]_vars PROVE Unused' /\ Behind'
    OBVIOUS
  <2>2. CASE Next
    BY <2>1, <2>2, UnusedKept, BehindKept
  <2>3. CASE UNCHANGED vars
    BY <2>1, <2>3, SameBehind DEF vars, DetachInv, Unused
  <2> QED
    BY <2>1, <2>2, <2>3
<1>3. Init => DetachInv
  BY <1>1, InitInv DEF DetachInv
<1>4. DetachInv /\ [Next]_vars => DetachInv'
  BY <1>2, StepInv DEF DetachInv
<1> QED
  BY <1>3, <1>4, PTL DEF Spec

\* What DetachLeavesNone says of one step.
LeavesNone == clean.at = "free" /\ clean'.at = "over" /\ clean.db # all =>
    \A r \in DOMAIN rce : rce[r].db = clean.db => rce[r].st = "null"

\* The step from the last bucket to the end of the cleanup is that of its last
\* bucket, and everything that is linked is behind the cleaner.
LEMMA NoneLeft == ASSUME DetachInv, Next PROVE LeavesNone
<1>1. SUFFICES ASSUME clean.at = "free", clean'.at = "over", clean.db # all,
                      NEW r \in DOMAIN rce, rce[r].db = clean.db, rce[r].st # "null"
               PROVE  FALSE
  BY DEF LeavesNone
<1>2. Walking
  BY <1>1 DEF Walking
<1>3. clean.b \in 1..Len(list) /\ clean.b \in Nat /\ Len(list) \in Nat
  BY <1>2, WalkingIn DEF DetachInv
<1>4. PICK th \in Thread : PbucketVERIFreeAndGetNextOldestBucket(th)
  <2>1. clean' # clean
    BY <1>1
  <2>2. ASSUME NEW th \in Thread, SignalStep(th) PROVE FALSE
    BY <2>1, <2>2 DEF SignalStep, Signal, VERSignalCleanup, ResetSignal, ErrTMPost, SetSignal, WithdrawSignal
  <2>3. ASSUME NEW th \in Thread, TermStep(th) PROVE FALSE
    BY <2>1, <2>3 DEF TermStep, BeginTerm, TMTerm, TooManyActiveUsers, VERTerm, WaitCleanDone
  <2>4. ASSUME NEW s \in Session, SessionStep(s) PROVE FALSE
    BY <2>1, <2>4 DEF SessionStep, ErrVERICreateRCE, ErrVERIBUAllocBucket, FWait, RetryAlloc
  <2>5. ASSUME NEW q \in DOMAIN rce, Age(q) PROVE FALSE
    BY <2>1, <2>5 DEF Age
  <2>6. PICK th \in Thread : CleanStep(th)
    BY <2>2, <2>3, <2>4, <2>5 DEF DetachInv, Next
  <2>7. ~(RunTask(th) \/ Detach(th) \/ CleanPerformed(th))
    BY <2>1 DEF RunTask, Detach, CleanPerformed
  <2>8. ~(VisitBucket(th) \/ TestRCE(th) \/ PassRCE(th) \/ ErrPrepareToDeallocate(th) \/ StopOrSkip(th) \/ EndClean(th))
    BY <1>1 DEF VisitBucket, TestRCE, PassRCE, ErrPrepareToDeallocate, StopOrSkip, EndClean
  <2>9. ASSUME NEW db \in Db \cup {all} PROVE ~StartClean(th, db)
    BY <1>1 DEF StartClean, DetachInv, IInv, Locks
  <2> QED
    BY <2>6, <2>7, <2>8, <2>9 DEF CleanStep
<1>5. clean.b = Len(list)
  <2>1. PICK after : after = (IF clean.b = Len(list) THEN "over" ELSE "visit")
    OBVIOUS
  <2>2. clean'.at = after
    <3>1. PICK n \in Nat : n = clean.b + 1
      BY <1>3
    <3>2. clean' = [clean EXCEPT !.b = n, !.at = after] \/ clean' = [clean EXCEPT !.at = after]
      BY <1>4, <2>1, <3>1 DEF PbucketVERIFreeAndGetNextOldestBucket
    <3> QED
      BY <3>2, CleanType DEF CleanLocals, DetachInv
  <2> QED
    BY <1>1, <2>1, <2>2
<1>6. PICK c \in DOMAIN list : \E i \in list[c].prceOldest..Len(list[c].rces) : list[c].rces[i] = r
  BY <1>1 DEF DetachInv, IInv, NoRceLost
<1>7. PICK i \in list[c].prceOldest..Len(list[c].rces) : list[c].rces[i] = r
  BY <1>6
<1>8. c \in 1..clean.b
  BY <1>3, <1>5, <1>6, RceType DEF DetachInv
<1>9. Past(c, i)
  BY <1>1, <1>2, <1>8, AllPast DEF DetachInv
<1>10. Clear(rce[list[c].rces[i]], clean.db)
  BY <1>2, <1>8, <1>9 DEF DetachInv, Behind
<1> QED
  BY <1>1, <1>7, <1>10 DEF Clear

\* A cleanup of one database that returns JET_errSuccess leaves no version of it, for
\* any sizes and numbers and whatever other sessions link and other databases keep
\* linked meanwhile (ErrVERIRCEClean, on which detaching and shrinking rely).
THEOREM DetachLeavesNoneAlways == Spec => DetachLeavesNone
<1>1. DetachInv /\ [Next]_vars => [LeavesNone]_vars
  BY NoneLeft
<1> QED
  BY <1>1, DetachInvariant, PTL DEF Spec, DetachLeavesNone, LeavesNone
=============================================================================
