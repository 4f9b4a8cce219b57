------------------------- MODULE SnapshotIsolation -------------------------
(***************************************************************************)
(* What the version store promises: a transaction sees the database as it  *)
(* was when the transaction began, together with its own changes; nested   *)
(* levels commit into their parent or vanish; the commit to level 0 is one *)
(* step, and takes nothing away that somebody else has committed since.    *)
(*                                                                         *)
(* A node's content is a set: {} if there is no such node, {v} if it holds *)
(* the number v.                                                           *)
(***************************************************************************)
EXTENDS Integers, Sequences

CONSTANTS Session, Node

VARIABLES
    committed,   \* the database as the next transaction will see it
    view         \* per session a stack of databases: the one it began with,
                 \* and one per open level; <<>> outside a transaction

Init ==
    /\ committed \in [Node -> {{}, {0}}]
    /\ view = [s \in Session |-> <<>>]

Depth(s) == Len(view[s])
Top(s) == view[s][Depth(s)]

Only(s, v) == view' = [view EXCEPT ![s] = v]

Begin(s) ==
    /\ Depth(s) = 0
    /\ Only(s, <<committed, committed>>)
    /\ UNCHANGED committed

BeginNested(s) ==
    /\ Depth(s) > 0
    /\ Only(s, Append(view[s], Top(s)))
    /\ UNCHANGED committed

Write(s) ==
    /\ Depth(s) > 0
    /\ DOMAIN view'[s] = DOMAIN view[s]
    /\ \E n \in Node : Only(s, [view[s] EXCEPT ![Depth(s)][n] = view'[s][Depth(s)][n]])
    /\ UNCHANGED committed

CommitNested(s) ==
    /\ Depth(s) > 2
    /\ Only(s, [i \in 1..(Depth(s) - 1) |-> IF i = Depth(s) - 1 THEN Top(s) ELSE view[s][i]])
    /\ UNCHANGED committed

\* A change goes into a node that nobody changed in between, except that two
\* changes of a number may be added up.
Merge(base, mine, now) ==
    CASE mine = base -> now
      [] mine # base /\ now = base -> mine
      [] OTHER -> {m + c - b : m \in mine, c \in now, b \in base}

Commit(s) ==
    /\ Depth(s) = 2
    /\ committed' = [n \in Node |-> Merge(view[s][1][n], view[s][2][n], committed[n])]
    /\ \A n \in Node : view[s][2][n] # view[s][1][n] /\ committed[n] # view[s][1][n]
           => {} \notin {view[s][1][n], view[s][2][n], committed[n]}
    /\ Only(s, <<>>)

Rollback(s) ==
    /\ Depth(s) > 1
    /\ Only(s, IF Depth(s) = 2 THEN <<>> ELSE SubSeq(view[s], 1, Depth(s) - 1))
    /\ UNCHANGED committed

Next == \E s \in Session :
    \/ Begin(s) \/ BeginNested(s) \/ Write(s)
    \/ CommitNested(s) \/ Commit(s) \/ Rollback(s)

Spec == Init /\ [][Next]_<<committed, view>>
=============================================================================
