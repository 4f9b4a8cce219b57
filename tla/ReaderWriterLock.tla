-------------------------- MODULE ReaderWriterLock --------------------------
(***************************************************************************)
(* The reader / writer lock of the synchronization library (class          *)
(* CReaderWriterLock, published/inc/sync.hxx and sync.cxx).  Readers share *)
(* the lock, writers take turns, and whoever comes while the other group   *)
(* owns it quiesces that group: its owners are moved from the control word *)
(* to m_cOwner and leave through it, and the last one hands the lock over. *)
(*                                                                         *)
(* One interlocked instruction is one step; the steps that an operation    *)
(* still owes are in "todo".  A failed try changes nothing and has no      *)
(* action of its own; one that succeeds is an entry without contention.    *)
(***************************************************************************)
EXTENDS Integers, FiniteSets

CONSTANT Thread   \* fewer than 32767: the counts of the control word have 15 bits

VARIABLES
    fQR,        \* m_fQR: readers are quiesced
    cOOWR,      \* m_cOOWR: readers that own, or wait if quiesced
    fQW,        \* m_fQW: writers are quiesced
    cOAOWW,     \* m_cOAOWW: the writer that owns and those that wait
    cOwner,     \* m_cOwner: quiesced owners, a DWORD read as signed
    semReader,  \* counts available in m_semReader
    semWriter,  \* and in m_semWriter
    lock,       \* what each thread owns or waits for
    todo        \* what each thread has yet to do: an operation and a count

cw == <<fQR, cOOWR, fQW, cOAOWW>>
vars == <<cw, cOwner, semReader, semWriter, lock, todo>>

Work(op, n) == [op |-> op, n |-> n]
NoWork == Work("none", 0)

Init ==
    /\ fQR = FALSE /\ cOOWR = 0 /\ fQW = FALSE /\ cOAOWW = 0
    /\ cOwner = 0
    /\ semReader = 0
    /\ semWriter = 0
    /\ lock = [t \in Thread |-> "none"]
    /\ todo = [t \in Thread |-> NoWork]

Is(t, what) == lock[t] = what /\ todo[t] = NoWork

-----------------------------------------------------------------------------
(* Entering and leaving. *)

\* Slip: one displaced reader is counted, however many there are.
SlipWriterEntry(t) ==
    /\ fQR' = TRUE
    /\ cOOWR' = IF fQR THEN cOOWR ELSE 0
    /\ cOAOWW' = cOAOWW + 1
    /\ todo' = [todo EXCEPT ![t] = IF ~fQR /\ fQW THEN Work("addAsReader", 1) ELSE NoWork]
    /\ UNCHANGED <<fQW, cOwner, semReader, semWriter>>

\* A writer quiesces readers.  Those that own the lock move out of the control
\* word, and the writer that moves them adds them to m_cOwner.
WriterEntry(t) ==
    /\ fQR' = TRUE
    /\ cOOWR' = IF fQR THEN cOOWR ELSE 0
    /\ cOAOWW' = cOAOWW + 1
    /\ todo' = [todo EXCEPT ![t] =
                  IF ~fQR /\ fQW THEN Work("addAsReader", cOOWR) ELSE NoWork]
    /\ UNCHANGED <<fQW, cOwner, semReader, semWriter>>

EnterAsWriter(t) ==
    /\ Is(t, "none")
    /\ WriterEntry(t)
    /\ lock' = [lock EXCEPT ![t] = IF fQW \/ cOAOWW > 0 THEN "waitW" ELSE "W"]

FTryEnterAsWriter(t) ==
    /\ Is(t, "none")
    /\ ~fQW /\ cOAOWW = 0
    /\ WriterEntry(t)
    /\ lock' = [lock EXCEPT ![t] = "W"]

\* A reader quiesces writers.  The one that owns the lock moves to m_cOwner.
ReaderEntry(t) ==
    /\ cOOWR' = cOOWR + 1
    /\ fQW' = TRUE
    /\ cOAOWW' = IF fQR /\ ~fQW THEN cOAOWW - 1 ELSE cOAOWW
    /\ todo' = [todo EXCEPT ![t] =
                  IF fQR /\ ~fQW THEN Work("addAsWriter", 1) ELSE NoWork]
    /\ UNCHANGED <<fQR, cOwner, semReader, semWriter>>

EnterAsReader(t) ==
    /\ Is(t, "none")
    /\ ReaderEntry(t)
    /\ lock' = [lock EXCEPT ![t] = IF fQR THEN "waitR" ELSE "R"]

FTryEnterAsReader(t) ==
    /\ Is(t, "none")
    /\ ~fQR
    /\ ReaderEntry(t)
    /\ lock' = [lock EXCEPT ![t] = "R"]

\* A writer leaves, to the next writer or to nobody; a quiesced one leaves
\* through m_cOwner.
LeaveAsWriter(t) ==
    /\ Is(t, "W")
    /\ lock' = [lock EXCEPT ![t] = "none"]
    /\ IF fQW
         THEN /\ todo' = [todo EXCEPT ![t] = Work("addAsWriter", -1)]
              /\ UNCHANGED cw
         ELSE /\ cOAOWW' = cOAOWW - 1
              /\ fQR' = (cOAOWW > 1)
              /\ todo' = [todo EXCEPT ![t] = IF cOAOWW > 1 THEN Work("postWriter", 1)
                                             ELSE NoWork]
              /\ UNCHANGED <<cOOWR, fQW>>
    /\ UNCHANGED <<cOwner, semReader, semWriter>>

LeaveAsReader(t) ==
    /\ Is(t, "R")
    /\ lock' = [lock EXCEPT ![t] = "none"]
    /\ IF fQR
         THEN /\ todo' = [todo EXCEPT ![t] = Work("addAsReader", -1)]
              /\ UNCHANGED cw
         ELSE /\ cOOWR' = cOOWR - 1
              /\ fQW' = (cOOWR > 1)
              /\ UNCHANGED <<fQR, cOAOWW, todo>>
    /\ UNCHANGED <<cOwner, semReader, semWriter>>

-----------------------------------------------------------------------------
(* Handing over. *)

\* _UpdateQuiescedOwnerCountAsWriter and ...AsReader: whoever takes m_cOwner to
\* zero hands the lock to the waiting readers or to a waiting writer.
UpdateQuiescedOwnerCount(t) ==
    /\ todo[t].op \in {"addAsWriter", "addAsReader"}
    /\ cOwner' = cOwner + todo[t].n
    /\ todo' = [todo EXCEPT ![t] =
                  IF cOwner' # 0 THEN NoWork
                  ELSE IF @.op = "addAsWriter" THEN Work("takeReaders", 0)
                  ELSE Work("takeWriter", 0)]
    /\ UNCHANGED <<cw, semReader, semWriter, lock>>

\* Slip: new owners are not counted when writers wait too.
SlipTakeReaders(t) ==
    /\ todo[t].op = "takeReaders"
    /\ fQR' = (cOAOWW > 0)
    /\ cOOWR' = IF cOAOWW > 0 THEN 0 ELSE cOOWR
    /\ todo' = [todo EXCEPT ![t] = Work("postReaders", cOOWR)]
    /\ UNCHANGED <<fQW, cOAOWW, cOwner, semReader, semWriter, lock>>

\* All the waiting readers.  If writers wait too, readers stay quiesced and the
\* new owners go to m_cOwner at once.
TakeReaders(t) ==
    /\ todo[t].op = "takeReaders"
    /\ fQR' = (cOAOWW > 0)
    /\ cOOWR' = IF cOAOWW > 0 THEN 0 ELSE cOOWR
    /\ todo' = [todo EXCEPT ![t] =
                  Work(IF cOAOWW > 0 THEN "moveReaders" ELSE "postReaders", cOOWR)]
    /\ UNCHANGED <<fQW, cOAOWW, cOwner, semReader, semWriter, lock>>

\* One waiting writer, quiesced at once if readers wait too.
TakeWriter(t) ==
    /\ todo[t].op = "takeWriter"
    /\ fQW' = (cOOWR > 0)
    /\ cOAOWW' = IF cOOWR > 0 THEN cOAOWW - 1 ELSE cOAOWW
    /\ todo' = [todo EXCEPT ![t] =
                  Work(IF cOOWR > 0 THEN "moveWriter" ELSE "postWriter", 1)]
    /\ UNCHANGED <<fQR, cOOWR, cOwner, semReader, semWriter, lock>>

\* The new owners are counted in m_cOwner before they are released.
MoveToOwners(t) ==
    /\ todo[t].op \in {"moveReaders", "moveWriter"}
    /\ cOwner' = cOwner + todo[t].n
    /\ todo' = [todo EXCEPT ![t].op = IF @ = "moveReaders" THEN "postReaders"
                                      ELSE "postWriter"]
    /\ UNCHANGED <<cw, semReader, semWriter, lock>>

PostReaders(t) ==
    /\ todo[t].op = "postReaders"
    /\ semReader' = semReader + todo[t].n
    /\ todo' = [todo EXCEPT ![t] = NoWork]
    /\ UNCHANGED <<cw, cOwner, semWriter, lock>>

PostWriter(t) ==
    /\ todo[t].op = "postWriter"
    /\ semWriter' = semWriter + 1
    /\ todo' = [todo EXCEPT ![t] = NoWork]
    /\ UNCHANGED <<cw, cOwner, semReader, lock>>

\* A waiter gets a count of its semaphore and owns the lock.
WaitAsReader(t) ==
    /\ Is(t, "waitR")
    /\ semReader > 0
    /\ semReader' = semReader - 1
    /\ lock' = [lock EXCEPT ![t] = "R"]
    /\ UNCHANGED <<cw, cOwner, semWriter, todo>>

WaitAsWriter(t) ==
    /\ Is(t, "waitW")
    /\ semWriter > 0
    /\ semWriter' = semWriter - 1
    /\ lock' = [lock EXCEPT ![t] = "W"]
    /\ UNCHANGED <<cw, cOwner, semReader, todo>>

-----------------------------------------------------------------------------
Enter(t) ==
    \/ EnterAsWriter(t) \/ FTryEnterAsWriter(t)
    \/ EnterAsReader(t) \/ FTryEnterAsReader(t)
Leave(t) == LeaveAsWriter(t) \/ LeaveAsReader(t)
HandOver(t) ==
    \/ UpdateQuiescedOwnerCount(t) \/ TakeReaders(t) \/ TakeWriter(t)
    \/ MoveToOwners(t) \/ PostReaders(t) \/ PostWriter(t)

Wait(t) == WaitAsReader(t) \/ WaitAsWriter(t)

Next == \E t \in Thread : Enter(t) \/ Leave(t) \/ HandOver(t) \/ Wait(t)

Spec == Init /\ [][Next]_vars

\* Threads run, owners leave, and a semaphore serves its waiters in turn.
Fairness == \A t \in Thread :
    /\ WF_vars(HandOver(t))
    /\ WF_vars(Leave(t))
    /\ SF_vars(Wait(t))

FairSpec == Spec /\ Fairness

-----------------------------------------------------------------------------
(* Counting. *)

Who(what) == {t \in Thread : lock[t] = what}
Doing(ops) == {t \in Thread : todo[t].op \in ops}
Count(what) == Cardinality(Who(what))

Leaving(op) == {t \in Doing({op}) : todo[t].n = -1}
Helping == Doing({"takeReaders", "takeWriter", "moveReaders", "moveWriter",
                  "postReaders", "postWriter"})
\* Threads that moved owners to m_cOwner and have yet to count them there.
Displacing == {t \in Doing({"addAsReader", "addAsWriter"}) : todo[t].n > 0}

\* The count of the thread of S, if there is one.
Owed(S) == IF S = {} THEN 0 ELSE todo[CHOOSE t \in S : TRUE].n

\* Ownership that is out: held, on the way to a waiter, or being given up
\* through m_cOwner.
OutReaders == Count("R") + Cardinality(Leaving("addAsReader")) + semReader
                + Owed(Doing({"moveReaders", "postReaders"}))
OutWriters == Count("W") + Cardinality(Leaving("addAsWriter")) + semWriter
                + Owed(Doing({"moveWriter", "postWriter"}))

TypeOK ==
    /\ fQR \in BOOLEAN /\ fQW \in BOOLEAN
    /\ cOOWR \in Nat /\ cOAOWW \in Nat /\ cOwner \in Int
    /\ semReader \in Nat /\ semWriter \in Nat
    /\ lock \in [Thread -> {"none", "R", "W", "waitR", "waitW"}]
    /\ todo \in [Thread -> [op : {"none", "addAsReader", "addAsWriter", "takeReaders",
                                  "takeWriter", "moveReaders", "moveWriter",
                                  "postReaders", "postWriter"}, n : Int]]

-----------------------------------------------------------------------------
(* Properties. *)

\* The states of the control word that _StateFromControlWord knows: no
\* after-image that _FValidStateTransition would refuse is ever written.
LegalState ==
    \/ ~fQR /\ ~fQW /\ cOOWR = 0 /\ cOAOWW = 0
    \/ ~fQR /\ fQW /\ cOOWR > 0 /\ cOAOWW = 0
    \/ fQR /\ ~fQW /\ cOOWR = 0 /\ cOAOWW > 0
    \/ fQR /\ fQW /\ (cOOWR > 0 \/ cOAOWW > 0)

\* Nobody waits in vain: while a thread waits, another owns the lock, or a
\* count is in its semaphore, or a step that leads to it is owed.
NoLostWakeup ==
    (Who("waitR") \cup Who("waitW") # {}) =>
        \/ Who("R") \cup Who("W") # {}
        \/ semReader + semWriter > 0
        \/ Doing({"none"}) # Thread

\* No count is left in a semaphore for which there is no waiter: a later one
\* would enter with it beside an owner.
NoSpareCount == semReader <= Count("waitR") /\ semWriter <= Count("waitW")

\* Why it works.  One thread at a time hands over, and one at a time displaces;
\* every waiter is counted once, in the control word or as a grant on its way;
\* and m_cOwner, with what is still to be added, counts the quiesced owners, so
\* it passes zero exactly when the last of them is gone.
OneAtATime ==
    /\ \A t, u \in Helping : t = u
    /\ \A t, u \in Displacing : t = u
    /\ \A t \in Thread : todo[t].op \in {"addAsReader", "addAsWriter"} =>
          \/ todo[t].n = -1 /\ lock[t] = "none"
          \/ todo[t].n > 0 /\ lock[t] = IF todo[t].op = "addAsReader" THEN "waitW" ELSE "waitR"
    /\ \A t \in Helping : lock[t] \in {"none", "waitR", "waitW"}

WaitersCounted ==
    /\ Count("waitR") = semReader + Owed(Doing({"moveReaders", "postReaders"}))
                          + IF fQR THEN cOOWR ELSE 0
    /\ Count("waitW") = semWriter + Owed(Doing({"moveWriter", "postWriter"}))
                          + IF fQW THEN cOAOWW ELSE IF fQR THEN cOAOWW - 1 ELSE 0

OwnersCounted ==
    /\ OutReaders = 0 \/ OutWriters = 0
    /\ OutWriters <= 1
    /\ ~(fQR /\ fQW) =>
          /\ cOwner = 0
          /\ Displacing = {}
          /\ Doing({"addAsReader", "addAsWriter", "takeReaders", "takeWriter",
                    "moveReaders", "moveWriter"}) = {}
          /\ OutReaders = cOOWR
          /\ OutWriters = IF fQR THEN 1 ELSE 0
    /\ fQR /\ fQW =>
          /\ cOwner + Owed(Displacing) + Owed(Doing({"moveReaders", "moveWriter"}))
                = OutReaders + OutWriters
          /\ OutReaders > 0 => cOAOWW > 0
          /\ OutWriters > 0 => cOOWR > 0
          /\ \A t \in Displacing : /\ cOwner <= 0
                                   /\ IF todo[t].op = "addAsReader"
                                        THEN OutWriters = 0 /\ cOAOWW > 0
                                        ELSE OutReaders = 0 /\ cOOWR > 0
          /\ Doing({"moveReaders", "moveWriter"}) # {} => cOwner = 0
          /\ Doing({"takeReaders", "takeWriter"}) # {} =>
                /\ OutReaders + OutWriters = 0
                /\ Displacing = {}
                /\ Doing({"takeReaders"}) # {} => cOOWR > 0
                /\ Doing({"takeWriter"}) # {} => cOAOWW > 0
          /\ OutReaders + OutWriters = 0 =>
                Doing({"takeReaders", "takeWriter"}) \cup Displacing # {}

CountsAgree == LegalState /\ OneAtATime /\ WaitersCounted /\ OwnersCounted

\* Every thread that waits gets the lock: readers that keep coming do not keep
\* a writer out, nor writers a reader.
WaitersServed == \A t \in Thread :
    /\ lock[t] = "waitR" ~> lock[t] = "R"
    /\ lock[t] = "waitW" ~> lock[t] = "W"

\* A lock as its clients see it: the S and W modes of a latch, taken and given
\* up in single steps.
Client == INSTANCE Latch WITH
    mode <- [t \in Thread |-> CASE lock[t] = "R" -> "S" [] lock[t] = "W" -> "W"
                                [] OTHER -> "none"]

\* The lock implements it.
ImplementsLatch == Client!Spec
=============================================================================
