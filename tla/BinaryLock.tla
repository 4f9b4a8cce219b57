----------------------------- MODULE BinaryLock -----------------------------
(***************************************************************************)
(* The binary lock of the synchronization library (class CBinaryLock,      *)
(* published/inc/sync.hxx and sync.cxx): two groups, and all owners are of *)
(* one group.  A thread of the group that is kept out quiesces the other:  *)
(* its owners move from the control word to m_cOwner, and the one that     *)
(* takes m_cOwner to zero lets the waiting group in.                       *)
(*                                                                         *)
(* The functions for group 1 and group 2 are mirror images; an action has  *)
(* the group as a parameter.  One interlocked instruction is one step, and *)
(* the steps that an operation still owes are in "todo".  A try that fails *)
(* changes nothing; one that succeeds is an entry without contention.      *)
(***************************************************************************)
EXTENDS Integers, FiniteSets

CONSTANT Thread   \* fewer than 32767: the counts of the control word have 15 bits

Group == {1, 2}
Other(g) == 3 - g

VARIABLES
    fQ,         \* m_fQ1, m_fQ2: the group is quiesced
    cOOW,       \* m_cOOW1, m_cOOW2: owners of the group, or waiters if quiesced
    cOwner,     \* m_cOwner: quiesced owners, a DWORD read as signed
    sem,        \* counts available in m_sem1, m_sem2
    owns,       \* the group for which each thread owns the lock, or 0
    waits,      \* the group for which it waits, or 0
    todo        \* what each thread has yet to do: an operation, a group, a count

cw == <<fQ, cOOW>>
vars == <<cw, cOwner, sem, owns, waits, todo>>

Work(op, g, n) == [op |-> op, g |-> g, n |-> n]
NoWork == Work("none", 1, 0)

Init ==
    /\ fQ = [g \in Group |-> FALSE]
    /\ cOOW = [g \in Group |-> 0]
    /\ cOwner = 0
    /\ sem = [g \in Group |-> 0]
    /\ owns = [t \in Thread |-> 0]
    /\ waits = [t \in Thread |-> 0]
    /\ todo = [t \in Thread |-> NoWork]

Idle(t) == owns[t] = 0 /\ waits[t] = 0 /\ todo[t] = NoWork

-----------------------------------------------------------------------------
\* The control word after an entry.  The other group is quiesced; if it was not,
\* its owners leave the control word.
EntryWord(g) ==
    /\ fQ' = [fQ EXCEPT ![Other(g)] = TRUE]
    /\ cOOW' = [cOOW EXCEPT ![g] = @ + 1,
                            ![Other(g)] = IF fQ[Other(g)] THEN @ ELSE 0]

\* Enter1, Enter2 and _Enter1, _Enter2.  A thread that finds its group quiesced
\* waits, after adding to m_cOwner the owners that it displaced.
Enter(t, g) ==
    /\ Idle(t)
    /\ EntryWord(g)
    /\ IF fQ[g]
         THEN /\ waits' = [waits EXCEPT ![t] = g]
              /\ todo' = [todo EXCEPT ![t] =
                            IF fQ[Other(g)] THEN @
                            ELSE Work("addOwners", Other(g), cOOW[Other(g)])]
              /\ UNCHANGED owns
         ELSE /\ owns' = [owns EXCEPT ![t] = g]
              /\ UNCHANGED <<waits, todo>>
    /\ UNCHANGED <<cOwner, sem>>

\* FTryEnter1, FTryEnter2.
FTryEnter(t, g) ==
    /\ Idle(t)
    /\ ~fQ[g]
    /\ EntryWord(g)
    /\ owns' = [owns EXCEPT ![t] = g]
    /\ UNCHANGED <<cOwner, sem, waits, todo>>

\* Slip: the other group is let in while this one still has owners.
SlipLeave(t, g) ==
    /\ owns[t] = g /\ todo[t] = NoWork
    /\ owns' = [owns EXCEPT ![t] = 0]
    /\ IF fQ[g]
         THEN /\ todo' = [todo EXCEPT ![t] = Work("addOwners", g, -1)]
              /\ UNCHANGED cw
         ELSE /\ cOOW' = [cOOW EXCEPT ![g] = @ - 1]
              /\ fQ' = [fQ EXCEPT ![Other(g)] = FALSE]
              /\ UNCHANGED todo
    /\ UNCHANGED <<cOwner, sem, waits>>

\* Leave1, Leave2.  The last owner ends the quiescence of the other group; a
\* quiesced owner leaves through m_cOwner.
Leave(t, g) ==
    /\ owns[t] = g /\ todo[t] = NoWork
    /\ owns' = [owns EXCEPT ![t] = 0]
    /\ IF fQ[g]
         THEN /\ todo' = [todo EXCEPT ![t] = Work("addOwners", g, -1)]
              /\ UNCHANGED cw
         ELSE /\ cOOW' = [cOOW EXCEPT ![g] = @ - 1]
              /\ fQ' = [fQ EXCEPT ![Other(g)] = (cOOW[g] > 1)]
              /\ UNCHANGED todo
    /\ UNCHANGED <<cOwner, sem, waits>>

-----------------------------------------------------------------------------
\* _UpdateQuiescedOwnerCountAsGroup1, ...Group2.
UpdateQuiescedOwnerCount(t) ==
    /\ todo[t].op = "addOwners"
    /\ cOwner' = cOwner + todo[t].n
    /\ todo' = [todo EXCEPT ![t] = IF cOwner' = 0 THEN Work("letIn", @.g, 0) ELSE NoWork]
    /\ UNCHANGED <<cw, sem, owns, waits>>

\* The last quiesced owner of a group lets the other group in.  If its own group
\* waits again by now, the other one stays quiesced and its new owners are
\* counted in m_cOwner.
LetIn(t) ==
    /\ todo[t].op = "letIn"
    /\ LET g == todo[t].g
           h == Other(g)
       IN  /\ fQ' = [fQ EXCEPT ![h] = (cOOW[g] > 0)]
           /\ cOOW' = [cOOW EXCEPT ![h] = IF cOOW[g] > 0 THEN 0 ELSE @]
           /\ todo' = [todo EXCEPT ![t] =
                         Work(IF cOOW[g] > 0 THEN "moveOwners" ELSE "post", h, cOOW[h])]
    /\ UNCHANGED <<cOwner, sem, owns, waits>>

MoveOwners(t) ==
    /\ todo[t].op = "moveOwners"
    /\ cOwner' = cOwner + todo[t].n
    /\ todo' = [todo EXCEPT ![t].op = "post"]
    /\ UNCHANGED <<cw, sem, owns, waits>>

Post(t) ==
    /\ todo[t].op = "post"
    /\ sem' = [sem EXCEPT ![todo[t].g] = @ + todo[t].n]
    /\ todo' = [todo EXCEPT ![t] = NoWork]
    /\ UNCHANGED <<cw, cOwner, owns, waits>>

\* A waiter gets a count of its semaphore.
Wake(t, g) ==
    /\ waits[t] = g /\ todo[t] = NoWork
    /\ sem[g] > 0
    /\ sem' = [sem EXCEPT ![g] = @ - 1]
    /\ owns' = [owns EXCEPT ![t] = g]
    /\ waits' = [waits EXCEPT ![t] = 0]
    /\ UNCHANGED <<cw, cOwner, todo>>

-----------------------------------------------------------------------------
HandOver(t) == UpdateQuiescedOwnerCount(t) \/ LetIn(t) \/ MoveOwners(t) \/ Post(t)

Wait(t) == \E g \in Group : Wake(t, g)

Next == \E t \in Thread :
    \/ \E g \in Group : Enter(t, g) \/ FTryEnter(t, g) \/ Leave(t, g)
    \/ Wait(t) \/ HandOver(t)

Spec == Init /\ [][Next]_vars

\* Threads run, owners leave, and a semaphore serves its waiters in turn.
Fairness == \A t \in Thread :
    /\ WF_vars(HandOver(t))
    /\ \A g \in Group : WF_vars(Leave(t, g))
    /\ SF_vars(Wait(t))

FairSpec == Spec /\ Fairness

-----------------------------------------------------------------------------
(* Counting. *)

Owning(g) == {t \in Thread : owns[t] = g}
Waiting(g) == {t \in Thread : waits[t] = g}
Doing(op, g) == {t \in Thread : todo[t].op = op /\ todo[t].g = g}
Leaving(g) == {t \in Doing("addOwners", g) : todo[t].n = -1}
Displacing(g) == {t \in Doing("addOwners", g) : todo[t].n > 0}

\* The count of the thread of S, if there is one.
Owed(S) == IF S = {} THEN 0 ELSE todo[CHOOSE t \in S : TRUE].n

\* Counts on their way to the waiters of g.
Granted(g) == sem[g] + Owed(Doing("moveOwners", g) \cup Doing("post", g))
\* Ownership of g that is out: held, granted, or being given up.
Out(g) == Cardinality(Owning(g)) + Cardinality(Leaving(g)) + Granted(g)

TypeOK ==
    /\ fQ \in [Group -> BOOLEAN] /\ cOOW \in [Group -> Nat]
    /\ cOwner \in Int /\ sem \in [Group -> Nat]
    /\ owns \in [Thread -> 0 .. 2] /\ waits \in [Thread -> 0 .. 2]
    /\ todo \in [Thread -> [op : {"none", "addOwners", "letIn", "moveOwners", "post"},
                            g : Group, n : Int]]

-----------------------------------------------------------------------------
(* Properties. *)

\* All owners are of one group (the comment of CBinaryLock), and so is all the
\* ownership that is on its way to a waiter or being given up.
MutualExclusion == Out(1) = 0 \/ Out(2) = 0

\* The control word is in one of the six states of _StateFromControlWord.
LegalState ==
    \/ \A g \in Group : ~fQ[g] /\ cOOW[g] = 0
    \/ \E g \in Group : /\ ~fQ[g] /\ cOOW[g] > 0
                        /\ fQ[Other(g)] /\ cOOW[Other(g)] = 0
    \/ fQ[1] /\ fQ[2] /\ (cOOW[1] > 0 \/ cOOW[2] > 0)

\* Every waiter is counted once, in the control word or as a grant; outside the
\* quiesced states m_cOwner is zero and the control word counts the owners; in
\* them m_cOwner, with what is still to be added, counts the owners; and if
\* there are none left, one thread is about to let the waiters in.
CountsAgree ==
    /\ \A g \in Group : Cardinality(Waiting(g)) = Granted(g) + (IF fQ[g] THEN cOOW[g] ELSE 0)
    /\ ~(fQ[1] /\ fQ[2]) => /\ cOwner = 0
                            /\ \A g \in Group : Out(g) = IF fQ[g] THEN 0 ELSE cOOW[g]
    /\ fQ[1] /\ fQ[2] =>
          /\ cOwner + Owed(Displacing(1) \cup Displacing(2))
                    + Owed(Doing("moveOwners", 1) \cup Doing("moveOwners", 2)) = Out(1) + Out(2)
          /\ Out(1) + Out(2) = 0 =>
                \E g \in Group : /\ Doing("letIn", g) \cup Displacing(g) # {}
                                 /\ cOOW[Other(g)] > 0

\* Nobody waits for ever: two groups that keep coming take turns.
WaitersServed == \A t \in Thread, g \in Group : waits[t] = g ~> owns[t] = g
=============================================================================
