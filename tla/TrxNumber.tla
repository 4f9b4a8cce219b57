----------------------------- MODULE TrxNumber -----------------------------
(***************************************************************************)
(* The numbers of transactions and of versions wrap around (ver.hxx).      *)
(*                                                                         *)
(* Both are words that are only ever incremented.  TrxCmp and RceidCmp     *)
(* order them by their signed difference, with one special value that is   *)
(* above, or below, every other.  Here the counters themselves never wrap: *)
(* the code sees each number modulo 2 * Half, and the properties compare   *)
(* what the code concludes with the order of the counters.                 *)
(***************************************************************************)
EXTENDS Integers, Sequences

CONSTANTS
    Half,        \* half the range of a DWORD, a multiple of TRXID_INCR
    trxFirst,    \* INST::m_trxNewest of a new instance, a multiple of TRXID_INCR
    rceidFirst,  \* VER::m_rceidLast of a new instance, odd
    Last         \* bound: the counters stop here

TRXID_INCR == 4
RCEID_INCR == 2

VARIABLES
    trxNewest,   \* the counter behind INST::m_trxNewest
    live,        \* the numbers that something still compares: of open
                 \* transactions, and of committed ones whose versions are kept
    rceidLast,   \* the counter behind VER::m_rceidLast
    made,        \* versions, by counter, that recovery has read from the log
    chain        \* m_rceid of the versions of one node, newest first, by counter

vars == <<trxNewest, live, rceidLast, made, chain>>
trx == <<trxNewest, live>>
rce == <<rceidLast, made, chain>>

\* What is stored of a counter, and the word that means something else.
Word(n) == n % (2 * Half)
trxMax == 2 * Half - 1
trxPrecommit == trxMax - 16
rceidNull == 0

\* (LONG)x, and the difference of two LONGs, which is a LONG again.
Long(x) == IF x >= Half THEN x - 2 * Half ELSE x
Difference(x, y) == Long((Long(x) - Long(y)) % (2 * Half))

\* Slip: the numbers are compared as they are.
TrxCmpUnsigned(trx1, trx2) == trx1 - trx2

\* trxMax sorts after every transaction.
TrxCmp(trx1, trx2) ==
    IF trx1 = trx2 THEN 0
    ELSE IF trx2 = trxMax THEN -1
    ELSE IF trx1 = trxMax THEN 1
    ELSE Difference(trx1, trx2)

\* Slip: the numbers are compared as they are.
RceidCmpUnsigned(rceid1, rceid2) == rceid1 - rceid2

\* rceidNull sorts before every version.
RceidCmp(rceid1, rceid2) ==
    IF rceid1 = rceid2 THEN 0
    ELSE IF rceid1 = rceidNull THEN -1
    ELSE IF rceid2 = rceidNull THEN 1
    ELSE Difference(rceid1, rceid2)

TypeOK ==
    /\ trxNewest \in Nat /\ live \subseteq Nat
    /\ rceidLast \in Nat /\ made \subseteq Nat /\ chain \in Seq(made)

Init ==
    /\ trxNewest = trxFirst /\ live = {}
    /\ rceidLast = rceidFirst /\ made = {} /\ chain = <<>>

\* Numbers in use lie within half the range.  The code has no such guard: it
\* takes 2^29 transactions during one transaction to break it.
Within(n, S) == n <= Last /\ \A u \in S : n - u < Half

-----------------------------------------------------------------------------
(* Transactions *)

\* A begin or a commit.
Draw ==
    /\ trxNewest' = trxNewest + TRXID_INCR
    /\ Within(trxNewest', live)
    /\ live' = live \cup {trxNewest'}
    /\ UNCHANGED rce

DrawReadOnly ==
    /\ Within(trxNewest + TRXID_INCR \div 2, live)
    /\ live' = live \cup {trxNewest + TRXID_INCR \div 2}
    /\ UNCHANGED <<trxNewest, rce>>

Drop(n) == live' = live \ {n} /\ UNCHANGED <<trxNewest, rce>>

-----------------------------------------------------------------------------
(* Versions of one node in recovery *)

RceidLastIncrement ==
    /\ rceidLast' = rceidLast + RCEID_INCR
    /\ Within(rceidLast', made)
    /\ made' = made \cup {rceidLast'}
    /\ UNCHANGED <<trx, chain>>

\* The versions the walk from the newest passes: up to the first that is older.
Passed(n) == CHOOSE k \in 0..Len(chain) :
    /\ \A i \in 1..k : RceidCmp(Word(chain[i]), Word(n)) >= 0
    /\ k = Len(chain) \/ RceidCmp(Word(chain[k + 1]), Word(n)) < 0

\* Redo makes a version from the record of the operation, or later from a
\* record with its undo information, or meets both: then the second is dropped.
ErrVERIInsertRCEIntoHash(n) ==
    LET k == Passed(n) IN
    /\ n \in made
    /\ chain' = IF \E i \in 1..k : Word(chain[i]) = Word(n)
                THEN chain
                ELSE SubSeq(chain, 1, k) \o <<n>> \o SubSeq(chain, k + 1, Len(chain))
    /\ UNCHANGED <<trx, rceidLast, made>>

\* The version is nullified, and no record of it follows.
Nullify(n) ==
    /\ \E i \in DOMAIN chain :
          /\ chain[i] = n
          /\ chain' = SubSeq(chain, 1, i - 1) \o SubSeq(chain, i + 1, Len(chain))
    /\ made' = made \ {n}
    /\ UNCHANGED <<trx, rceidLast>>

-----------------------------------------------------------------------------

TrxNext == Draw \/ DrawReadOnly \/ \E n \in live : Drop(n)
RceNext == RceidLastIncrement \/ \E n \in made : ErrVERIInsertRCEIntoHash(n) \/ Nullify(n)

TrxSpec == Init /\ [][TrxNext]_vars
RceSpec == Init /\ [][RceNext]_vars

-----------------------------------------------------------------------------
(* Properties *)

Sign(d) == IF d < 0 THEN -1 ELSE IF d > 0 THEN 1 ELSE 0

\* TrxCmp orders any two transactions that are in use as their counters do,
\* across any number of wraparounds, and all of them before trxMax.
TrxOrder == \A m, n \in live :
    /\ Sign(TrxCmp(Word(m), Word(n))) = Sign(m - n)
    /\ TrxCmp(Word(n), trxMax) < 0 /\ TrxCmp(trxMax, Word(n)) > 0

\* No transaction is ever given a number that means something else: "none", or
\* "about to commit", on which TrxCommitted would wait for ever.
NeverSpecial == \A n \in live : Word(n) \notin {trxMax, trxPrecommit}

\* Versions of a node are in order of creation, each once, although recovery
\* meets them in another order and some twice, and none has the null id.
ChainInOrder ==
    /\ \A i, j \in DOMAIN chain : i < j => chain[i] > chain[j]
    /\ \A n \in made : Word(n) # rceidNull
=============================================================================
