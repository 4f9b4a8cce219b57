--------------------------- MODULE MCVersionStore ---------------------------
(***************************************************************************)
(* Small instances of the version store for TLC.  A behaviour belongs to   *)
(* one scenario, an instance of VersionStore in which sessions do some of  *)
(* the operations: with all of them at once the state space would be out   *)
(* of reach.                                                               *)
(***************************************************************************)
EXTENDS VersionStore, TLC

CONSTANT Scenarios
VARIABLE scenario

\* Changes of one node race version cleanup and page cleanup.
Cleanup == INSTANCE VersionStore WITH levelMax <- 1, rceidMax <- 3, trxLast <- 20,
    Ops <- {"Insert", "Replace", "FlagDelete", "Expunge", "Clean"}

\* Two levels of transactions.
Nested == INSTANCE VersionStore WITH levelMax <- 2, rceidMax <- 3, trxLast <- 16,
    Ops <- {"Insert", "Replace", "FlagDelete", "Delta"}

\* A concurrent create-index makes rollback keep undone versions.
Create == INSTANCE VersionStore WITH levelMax <- 1, rceidMax <- 3, trxLast <- 16,
    Ops <- {"Replace", "FlagDelete", "Delta", "CreateIndex"}

\* Writers that commute and readers, also read-only ones, with cleanup.
Readers == INSTANCE VersionStore WITH levelMax <- 1, rceidMax <- 2, trxLast <- 20,
    Ops <- {"Delta", "Replace", "ReadOnly", "Clean"}

\* Locks and deltas.
Locks == INSTANCE VersionStore WITH levelMax <- 1, rceidMax <- 3, trxLast <- 20,
    Ops <- {"Delta", "ReadLock", "WriteLock"}

\* Several nodes in one transaction.
Nodes == INSTANCE VersionStore WITH levelMax <- 1, rceidMax <- 2, trxLast <- 20,
    Ops <- {"Replace", "ReadOnly"}

\* In some scenarios only the first node is used.
Others == Node \ {CHOOSE n \in Node : TRUE}

MCInit ==
    /\ scenario \in Scenarios
    /\ Init
    /\ scenario # "nodes" => \A n \in Others : page[n].st = "absent"

\* In some scenarios two sessions, whichever they are, do everything.
TwoSessions ==
    Cardinality({r.sess : r \in rce'} \cup {s \in Session : level'[s] > 0}) <= 2

MCNext ==
    /\ UNCHANGED scenario
    /\ \/ /\ \/ scenario = "cleanup" /\ Cleanup!Next
             \/ scenario = "nested" /\ Nested!Next
             \/ scenario = "create" /\ Create!Next
          /\ TwoSessions
          /\ \A r \in rce' : r.node \notin Others
       \/ scenario = "readers" /\ Readers!Next /\ \A r \in rce' : r.node \notin Others
       \/ scenario = "locks" /\ Locks!Next /\ \A r \in rce' : r.node \notin Others
       \/ scenario = "nodes" /\ Nodes!Next

MCSpec == MCInit /\ [][MCNext]_<<scenario, vars>>

Symmetry == Permutations(Session)
=============================================================================
