---------------------------- MODULE Locks_proofs ----------------------------
(***************************************************************************)
(* The reader / writer lock and the binary lock are correct for every      *)
(* number of threads, and the S / X / W latch for every number of threads  *)
(* below 2^15.                                                             *)
(***************************************************************************)
EXTENDS MCLocks, FiniteSetTheorems, TLAPS

-----------------------------------------------------------------------------
(* The S / X / W latch *)

Modes == {"none"} \cup Owning \cup Waiting

-----------------------------------------------------------------------------
(* The control word *)

\* The control word has three fields.
LEMMA WordFields ==
  ASSUME NEW w \in Nat
  PROVE  /\ COOWS(w) \in Nat /\ COOWS(w) <= 32767
         /\ FQS(w) \in {0, 1}
         /\ COAWX(w) \in Nat
  BY DEF COOWS, FQS, COAWX, FlagQS, OneX

-----------------------------------------------------------------------------
(* Counting threads *)

\* A count of threads is a natural number no larger than the number of threads,
\* and is zero exactly when there is no such thread.
LEMMA CountType ==
  ASSUME NEW M
  PROVE  /\ Count(M) \in Nat /\ Count(M) <= Cardinality(Thread)
         /\ Count(M) = 0 <=> At(M) = {}
         /\ IsFiniteSet(At(M))
<1>1. IsFiniteSet(At(M)) /\ Cardinality(At(M)) <= Cardinality(Thread)
  BY ThreadAssumption, FS_Subset DEF At
<1>2. QED
  BY <1>1, FS_CardinalityType, FS_EmptySet DEF Count

\* A count of one names a single thread.
LEMMA CountOne ==
  ASSUME NEW M, Count(M) <= 1, NEW t \in At(M), NEW u \in At(M)
  PROVE  t = u
<1>1. SUFFICES ASSUME t # u PROVE FALSE
  OBVIOUS
<1>2. {t, u} \subseteq At(M)
  OBVIOUS
<1>3. Cardinality({t, u}) = 2
  <2>1. IsFiniteSet({t}) /\ Cardinality({t}) = 1
    BY FS_Singleton
  <2>2. {t, u} = {t} \cup {u} /\ u \notin {t}
    BY <1>1
  <2>3. QED
    BY <2>1, <2>2, FS_AddElement
<1>4. Cardinality({t, u}) <= Cardinality(At(M))
  BY <1>2, CountType, FS_Subset
<1>5. QED
  BY <1>3, <1>4, CountType DEF Count

\* When one thread goes from one mode to another, the count of a set of modes
\* changes by what the thread takes out of it and brings into it.
LEMMA MoveCount ==
  ASSUME latch \in [Thread -> Modes], NEW t \in Thread, NEW m \in Modes,
         latch' = [latch EXCEPT ![t] = m], NEW M
  PROVE  Count(M)' = Count(M) - (IF latch[t] \in M THEN 1 ELSE 0)
                              + (IF m \in M THEN 1 ELSE 0)
<1>0. IsFiniteSet(At(M)) /\ Count(M) \in Nat
  BY CountType
<1>1. CASE latch[t] \in M /\ m \in M
  <2>1. At(M)' = At(M)
    BY <1>1 DEF At
  <2>2. QED
    BY <1>0, <1>1, <2>1 DEF Count
<1>2. CASE latch[t] \notin M /\ m \notin M
  <2>1. At(M)' = At(M)
    BY <1>2 DEF At
  <2>2. QED
    BY <1>0, <1>2, <2>1 DEF Count
<1>3. CASE latch[t] \in M /\ m \notin M
  <2>1. At(M)' = At(M) \ {t} /\ t \in At(M)
    BY <1>3 DEF At
  <2>2. Cardinality(At(M) \ {t}) = Cardinality(At(M)) - 1
    BY <1>0, <2>1, FS_RemoveElement
  <2>3. QED
    BY <1>0, <1>3, <2>1, <2>2 DEF Count
<1>4. CASE latch[t] \notin M /\ m \in M
  <2>1. At(M)' = At(M) \cup {t} /\ t \notin At(M)
    BY <1>4 DEF At
  <2>2. QED
    BY <1>0, <1>4, <2>1, FS_AddElement DEF Count
<1>5. QED
  BY <1>1, <1>2, <1>3, <1>4
-----------------------------------------------------------------------------
(* The counts that are due to m_semS *)

\* What is due is what the thread that owes it owes.
LEMMA PendingValue ==
  ASSUME TypeOK, OnePost
  PROVE  /\ PendingS \in Nat
         /\ PendingS = 0 <=> \A t \in Thread : postS[t] = 0
         /\ \A t \in Thread : postS[t] # 0 => PendingS = postS[t]
<1>1. CASE \A t \in Thread : postS[t] = 0
  BY <1>1 DEF PendingS
<1>2. ASSUME NEW t \in Thread, postS[t] # 0
      PROVE  PendingS = postS[t] /\ PendingS \in Nat
  <2>1. (CHOOSE u \in Thread : postS[u] # 0) = t
    BY <1>2 DEF OnePost
  <2>2. QED
    BY <1>2, <2>1 DEF PendingS, TypeOK
<1>3. QED
  BY <1>1, <1>2

\* The thread that becomes the only one to owe counts owes all that are due.
LEMMA PendingSet ==
  ASSUME TypeOK, TypeOK', NEW t \in Thread, NEW n \in Nat,
         \A u \in Thread \ {t} : postS[u] = 0,
         postS' = [postS EXCEPT ![t] = n]
  PROVE  OnePost' /\ PendingS' = n
<1>1. OnePost'
  BY DEF OnePost, TypeOK
<1>2. CASE n = 0
  BY <1>1, <1>2 DEF PendingS, TypeOK
<1>3. CASE n # 0
  <2>1. t = CHOOSE u \in Thread : postS'[u] # 0
    BY <1>3 DEF TypeOK
  <2>2. QED
    BY <1>1, <1>3, <2>1 DEF PendingS, TypeOK
<1>4. QED
  BY <1>2, <1>3

-----------------------------------------------------------------------------
(* The inductive step *)

IInv == TypeOK /\ CountsAgree

Move(t, m0, m) == latch[t] = m0 /\ latch' = [latch EXCEPT ![t] = m]

\* What a set of modes gains when a thread goes from mode m0 to mode m.
Gain(m0, m, M) == (IF m \in M THEN 1 ELSE 0) - (IF m0 \in M THEN 1 ELSE 0)

\* MoveCount for the sets of modes that the invariant counts.
LEMMA Moved ==
  ASSUME TypeOK, NEW t \in Thread, NEW m0 \in Modes, NEW m \in Modes, Move(t, m0, m)
  PROVE  /\ NS' = NS + Gain(m0, m, {"S"})
         /\ NWaitS' = NWaitS + Gain(m0, m, {"waitS"})
         /\ NShared' = NShared + Gain(m0, m, {"S", "waitS"})
         /\ NX' = NX + Gain(m0, m, {"X", "W", "waitW"})
         /\ NWaitX' = NWaitX + Gain(m0, m, {"waitX"})
         /\ NExclusive' = NExclusive + Gain(m0, m, {"waitX", "X", "W", "waitW"})
         /\ NW' = NW + Gain(m0, m, {"W", "waitW"})
<1>1. latch \in [Thread -> Modes]
  BY DEF TypeOK, Modes
<1>2. ASSUME NEW M
      PROVE  Count(M)' = Count(M) + Gain(m0, m, M)
  <2>1. Count(M)' = Count(M) - (IF latch[t] \in M THEN 1 ELSE 0)
                             + (IF m \in M THEN 1 ELSE 0)
    BY <1>1, MoveCount DEF Move
  <2>2. Count(M) \in Nat
    BY CountType
  <2>3. QED
    BY <2>1, <2>2 DEF Gain, Move
<1>3. {"waitX"} \cup XOwner = {"waitX", "X", "W", "waitW"}
  BY DEF XOwner
<1>4. QED
  BY <1>2, <1>3 DEF XOwner, Writer, NS, NWaitS, NShared, NX, NWaitX, NExclusive, NW

\* The counters are natural numbers, and the counts of threads fit the fields.
Sized ==
  /\ NS \in Nat /\ NWaitS \in Nat /\ NShared \in Nat
  /\ NX \in Nat /\ NWaitX \in Nat /\ NExclusive \in Nat /\ NW \in Nat
  /\ NShared < 32767 /\ NWaitS < 32767 /\ NExclusive < 32767
  /\ PendingS \in Nat
  /\ Cardinality(Leaving) \in Nat
  /\ Cardinality(postX) \in Nat
  /\ Cardinality(postW) \in Nat
  /\ cQS \in Int
  /\ semS \in Nat /\ semX \in Nat /\ semW \in Nat
  /\ COOWS(cw) \in Nat /\ COOWS(cw) < 32767
  /\ FQS(cw) \in Nat /\ FQS(cw) <= 1
  /\ COAWX(cw) \in Nat

\* In a state where the counters agree every field of the latch is in range.
LEMMA Numbers ==
  ASSUME IInv
  PROVE  Sized
<1>1. \A M : Count(M) \in Nat /\ Count(M) < 32767
  <2>1. Cardinality(Thread) \in Nat /\ Cardinality(Thread) < 32767
    BY ThreadAssumption, FS_CardinalityType
  <2>2. QED
    BY <2>1, CountType
<1>2. /\ NS \in Nat /\ NWaitS \in Nat /\ NShared \in Nat
      /\ NX \in Nat /\ NWaitX \in Nat /\ NExclusive \in Nat /\ NW \in Nat
      /\ NShared < 32767 /\ NWaitS < 32767 /\ NExclusive < 32767
  BY <1>1 DEF NS, NWaitS, NShared, NX, NWaitX, NExclusive, NW
<1>3. PendingS \in Nat
  BY PendingValue DEF IInv, CountsAgree, SharedCounts
<1>4. ASSUME NEW T \in SUBSET Thread
      PROVE  Cardinality(T) \in Nat
  BY ThreadAssumption, FS_Subset, FS_CardinalityType
<1>5. Leaving \in SUBSET Thread /\ postX \in SUBSET Thread /\ postW \in SUBSET Thread
  BY DEF IInv, TypeOK, Leaving
<1>6. cw \in Nat /\ cQS \in Int /\ semS \in Nat /\ semX \in Nat /\ semW \in Nat
  BY DEF IInv, TypeOK
<1>7. /\ COOWS(cw) \in Nat
      /\ FQS(cw) \in {0, 1}
      /\ COAWX(cw) \in Nat
  BY <1>6, WordFields
<1>8. COOWS(cw) < 32767
  BY <1>2, <1>3, <1>6, <1>7 DEF IInv, CountsAgree, SharedCounts
<1>9. QED
  BY <1>2, <1>3, <1>4, <1>5, <1>6, <1>7, <1>8 DEF Sized

\* While shared latches are not quiesced there is no writer, nobody has an
\* update of m_cQS to make and no wake-up of a writer is under way.
LEMMA NotQuiesced ==
  ASSUME IInv, FQS(cw) = 0
  PROVE  /\ At(Writer) = {} /\ At({"W"}) = {} /\ At({"waitW"}) = {}
         /\ \A u \in Thread : dQ[u] = 0
         /\ semW = 0 /\ Cardinality(postW) = 0 /\ cQS = 0
         /\ Leaving = {} /\ Cardinality(Leaving) = 0
         /\ COOWS(cw) = NShared /\ NShared = NS + NWaitS /\ NWaitS = semS + PendingS /\ NW = 0
<1>0. TypeOK /\ SharedCounts /\ WriterCounts /\ Sized
  BY Numbers DEF IInv, CountsAgree
<1>1. At(Writer) = {}
  BY <1>0, CountType DEF Sized, SharedCounts, NW
<1>2. At({"W"}) = {} /\ At({"waitW"}) = {}
  BY <1>1 DEF At, Writer
<1>3. semW = 0 /\ Cardinality(postW) = 0
  BY <1>0, <1>2 DEF WriterCounts, Sized
<1>4. Leaving = {} /\ cQS = 0 /\ Cardinality(Leaving) = 0
  BY <1>0, FS_EmptySet DEF SharedCounts
<1>5. \A u \in Thread : dQ[u] = 0
  BY <1>0, <1>2, <1>4 DEF WriterCounts, At, Leaving
<1>6. COOWS(cw) = NShared /\ NShared = NS + NWaitS /\ NWaitS = semS + PendingS /\ NW = 0
  BY <1>0 DEF SharedCounts
<1>7. QED
  BY <1>1, <1>2, <1>3, <1>4, <1>5, <1>6

\* A thread that has the exclusive latch is the only one, nothing is under way
\* to another, and it alone can be the writer.
LEMMA OneExclusive ==
  ASSUME IInv, NEW t \in Thread, latch[t] \in XOwner
  PROVE  /\ NX = 1 /\ COAWX(cw) > 0 /\ semX = 0 /\ Cardinality(postX) = 0
         /\ At(XOwner) = {t}
         /\ FQS(cw) = 1 <=> latch[t] \in Writer
<1>0. TypeOK /\ ExclusiveCounts /\ SharedCounts /\ Sized
  BY Numbers DEF IInv, CountsAgree
<1>1. t \in At(XOwner)
  BY DEF At
<1>2. NX > 0
  BY <1>0, <1>1, CountType DEF NX, Sized
<1>3. NX = 1 /\ COAWX(cw) > 0 /\ semX = 0 /\ Cardinality(postX) = 0
  BY <1>0, <1>2 DEF ExclusiveCounts, Sized
<1>4. At(XOwner) = {t}
  BY <1>1, <1>3, CountOne DEF NX
<1>5. FQS(cw) = 1 <=> At(Writer) # {}
  BY <1>0, CountType DEF SharedCounts, Sized, NW
<1>6. At(Writer) # {} <=> latch[t] \in Writer
  BY <1>4 DEF At, Writer, XOwner
<1>7. QED
  BY <1>3, <1>4, <1>5, <1>6

\* Without an exclusive owner or waiter shared latches are not quiesced.
LEMMA NoExclusive ==
  ASSUME IInv, COAWX(cw) = 0
  PROVE  /\ FQS(cw) = 0 /\ NX = 0 /\ NWaitX = 0 /\ NExclusive = 0
         /\ semX = 0 /\ Cardinality(postX) = 0
<1>0. TypeOK /\ ExclusiveCounts /\ SharedCounts /\ Sized
  BY Numbers DEF IInv, CountsAgree
<1>1. /\ NX = 0 /\ NWaitX = 0 /\ NExclusive = 0
      /\ semX = 0 /\ Cardinality(postX) = 0
  <2>1. NExclusive = 0 /\ NWaitX + NX = 0 /\ NX + semX + Cardinality(postX) = 0
    BY <1>0 DEF ExclusiveCounts
  <2>2. QED
    BY <1>0, <2>1 DEF Sized
<1>2. At(XOwner) = {}
  BY <1>1, CountType DEF NX
<1>3. At(Writer) = {}
  BY <1>2 DEF At, XOwner, Writer
<1>4. FQS(cw) = 0
  BY <1>0, <1>3, CountType DEF SharedCounts, NW
<1>5. QED
  BY <1>1, <1>4

-----------------------------------------------------------------------------
(* One lemma per operation *)

\* A step of a thread that is not and does not become a writer, and that keeps
\* the number of shared latches that are out while they are quiesced, leaves
\* the writer's counts alone.
LEMMA WriterUntouched ==
  ASSUME IInv, NEW t \in Thread, NEW m0, NEW m, Move(t, m0, m),
         m0 \notin Writer, m \notin Writer, dQ[t] = 0,
         dQ' = dQ, cQS' = cQS, semW' = semW, postW' = postW,
         FQS(cw) = 1 => Granted' = Granted
  PROVE  WriterCounts'
<1>0. TypeOK /\ SharedCounts /\ WriterCounts /\ Sized
  BY Numbers DEF IInv, CountsAgree
<1>1. /\ At(Writer)' = At(Writer) /\ At({"W"})' = At({"W"})
      /\ At({"waitW"})' = At({"waitW"})
      /\ \A u \in Thread : dQ[u] # 0 => latch'[u] = latch[u]
  BY <1>0 DEF Move, TypeOK, At, Writer
<1>2. \A u \in At(Writer) : Granted' = cQS + dQ[u]
  <2>1. CASE FQS(cw) = 1
    BY <1>0, <2>1 DEF WriterCounts
  <2>2. CASE FQS(cw) # 1
    BY <1>0, <2>2, NotQuiesced DEF Sized
  <2>3. QED
    BY <2>1, <2>2
<1>3. QED
  BY <1>0, <1>1, <1>2 DEF WriterCounts

\* Joining the shared owners, or their waiters while they are quiesced.
LEMMA AcquireSharedStep ==
  ASSUME IInv, NEW t \in Thread, ErrAcquireSharedLatch(t)
  PROVE  IInv'
<1>0. TypeOK /\ ExclusiveCounts /\ SharedCounts /\ Sized
  BY Numbers DEF IInv, CountsAgree
<1>1. TypeOK'
  BY <1>0 DEF TypeOK, ErrAcquireSharedLatch, Become, sems, todo, OneS, Owning, Waiting
<1>2. COOWS(cw') = COOWS(cw) + 1 /\ FQS(cw') = FQS(cw) /\ COAWX(cw') = COAWX(cw)
  BY <1>0 DEF TypeOK, Sized, ErrAcquireSharedLatch, OneS, COOWS, FQS, COAWX, FlagQS, OneX
<1>3. /\ PendingS' = PendingS /\ Leaving' = Leaving /\ OnePost'
      /\ semS' = semS /\ semX' = semX /\ semW' = semW /\ cQS' = cQS
      /\ postX' = postX /\ postW' = postW /\ dQ' = dQ /\ dQ[t] = 0
  BY <1>0 DEF ErrAcquireSharedLatch, Owns, Idle, sems, todo, PendingS, Leaving, SharedCounts, OnePost
<1>4. CASE FQS(cw) = 1
  <2>1. Move(t, "none", "waitS")
    BY <1>4 DEF ErrAcquireSharedLatch, Become, Owns, Move
  <2>2. /\ NS' = NS /\ NWaitS' = NWaitS + 1 /\ NShared' = NShared + 1
        /\ NX' = NX /\ NWaitX' = NWaitX /\ NExclusive' = NExclusive /\ NW' = NW
    BY <1>0, <2>1, Moved DEF Sized, Gain, Modes, Owning, Waiting
  <2>3. ExclusiveCounts'
    BY <1>0, <1>2, <1>3, <2>2 DEF ExclusiveCounts
  <2>4. SharedCounts'
    <3>1. COOWS(cw) + semS + PendingS = NWaitS /\ FQS(cw) = NW /\ NShared = NS + NWaitS
      BY <1>0, <1>4 DEF SharedCounts
    <3>2. COOWS(cw') + semS' + PendingS' = NWaitS' /\ NShared' = NS' + NWaitS'
      BY <1>0, <1>2, <1>3, <2>2, <3>1 DEF Sized
    <3>3. QED
      BY <1>2, <1>3, <1>4, <2>2, <3>1, <3>2 DEF SharedCounts
  <2>5. Granted' = Granted
    BY <1>3, <2>2 DEF Granted
  <2>6. WriterCounts'
    BY <1>3, <2>1, <2>5, WriterUntouched DEF Writer
  <2>7. QED
    BY <1>1, <2>3, <2>4, <2>6 DEF IInv, CountsAgree
<1>5. CASE FQS(cw) # 1
  <2>1. Move(t, "none", "S")
    BY <1>5 DEF ErrAcquireSharedLatch, Become, Owns, Move
  <2>2. /\ NS' = NS + 1 /\ NWaitS' = NWaitS /\ NShared' = NShared + 1
        /\ NX' = NX /\ NWaitX' = NWaitX /\ NExclusive' = NExclusive /\ NW' = NW
    BY <1>0, <2>1, Moved DEF Sized, Gain, Modes, Owning, Waiting
  <2>3. ExclusiveCounts'
    BY <1>0, <1>2, <1>3, <2>2 DEF ExclusiveCounts
  <2>4. SharedCounts'
    BY <1>0, <1>2, <1>3, <1>5, <2>2 DEF Sized, SharedCounts
  <2>5. WriterCounts'
    BY <1>3, <1>5, <2>1, WriterUntouched DEF Writer
  <2>6. QED
    BY <1>1, <2>3, <2>4, <2>5 DEF IInv, CountsAgree
<1>6. QED
  BY <1>4, <1>5

\* Queueing for the exclusive latch, or taking it when nobody has it.
LEMMA AcquireExclusiveStep ==
  ASSUME IInv, NEW t \in Thread, ErrAcquireExclusiveLatch(t)
  PROVE  IInv'
<1>0. TypeOK /\ ExclusiveCounts /\ SharedCounts /\ Sized
  BY Numbers DEF IInv, CountsAgree
<1>1. TypeOK'
  BY <1>0 DEF TypeOK, ErrAcquireExclusiveLatch, Become, sems, todo, OneX, Owning, Waiting
<1>2. COOWS(cw') = COOWS(cw) /\ FQS(cw') = FQS(cw) /\ COAWX(cw') = COAWX(cw) + 1
  BY <1>0 DEF TypeOK, Sized, ErrAcquireExclusiveLatch, COOWS, FQS, COAWX, FlagQS, OneX
<1>3. /\ PendingS' = PendingS /\ Leaving' = Leaving /\ OnePost'
      /\ semS' = semS /\ semX' = semX /\ semW' = semW /\ cQS' = cQS
      /\ postX' = postX /\ postW' = postW /\ dQ' = dQ /\ dQ[t] = 0
  BY <1>0 DEF ErrAcquireExclusiveLatch, Owns, Idle, sems, todo, PendingS, Leaving, SharedCounts, OnePost
<1>4. CASE COAWX(cw) # 0
  <2>1. Move(t, "none", "waitX")
    BY <1>4 DEF ErrAcquireExclusiveLatch, Become, Owns, Move
  <2>2. /\ NS' = NS /\ NWaitS' = NWaitS /\ NShared' = NShared
        /\ NX' = NX /\ NWaitX' = NWaitX + 1 /\ NExclusive' = NExclusive + 1 /\ NW' = NW
    BY <1>0, <2>1, Moved DEF Sized, Gain, Modes, Owning, Waiting
  <2>3. ExclusiveCounts'
    BY <1>0, <1>2, <1>3, <1>4, <2>2 DEF Sized, ExclusiveCounts
  <2>4. SharedCounts'
    BY <1>0, <1>2, <1>3, <2>2 DEF SharedCounts
  <2>5. WriterCounts'
    BY <1>3, <2>1, <2>2, WriterUntouched DEF Writer, Granted
  <2>6. QED
    BY <1>1, <2>3, <2>4, <2>5 DEF IInv, CountsAgree
<1>5. CASE COAWX(cw) = 0
  <2>1. Move(t, "none", "X")
    BY <1>5 DEF ErrAcquireExclusiveLatch, Become, Owns, Move
  <2>2. /\ NS' = NS /\ NWaitS' = NWaitS /\ NShared' = NShared
        /\ NX' = NX + 1 /\ NWaitX' = NWaitX /\ NExclusive' = NExclusive + 1 /\ NW' = NW
    BY <1>0, <2>1, Moved DEF Sized, Gain, Modes, Owning, Waiting
  <2>3. ExclusiveCounts'
    BY <1>0, <1>2, <1>3, <1>5, <2>2 DEF Sized, ExclusiveCounts
  <2>4. SharedCounts'
    BY <1>0, <1>2, <1>3, <2>2 DEF SharedCounts
  <2>5. WriterCounts'
    BY <1>3, <2>1, <2>2, WriterUntouched DEF Writer, Granted
  <2>6. QED
    BY <1>1, <2>3, <2>4, <2>5 DEF IInv, CountsAgree
<1>6. QED
  BY <1>4, <1>5

\* Taking the write latch of a latch that nobody owns or waits for.
LEMMA TryAcquireWriteStep ==
  ASSUME IInv, NEW t \in Thread, ErrTryAcquireWriteLatch(t)
  PROVE  IInv'
<1>0. TypeOK /\ ExclusiveCounts /\ SharedCounts /\ WriterCounts /\ Sized
  BY Numbers DEF IInv, CountsAgree
<1>1. TypeOK'
  BY <1>0 DEF TypeOK, ErrTryAcquireWriteLatch, Become, sems, todo, OneX, FlagQS, Owning, Waiting
<1>2. /\ COOWS(cw) = 0 /\ FQS(cw) = 0 /\ COAWX(cw) = 0
      /\ COOWS(cw') = 0 /\ FQS(cw') = 1 /\ COAWX(cw') = 1
  BY <1>0 DEF TypeOK, Sized, ErrTryAcquireWriteLatch, COOWS, FQS, COAWX, FlagQS, OneX
<1>3. /\ PendingS' = PendingS /\ Leaving' = Leaving /\ OnePost'
      /\ semS' = semS /\ semX' = semX /\ semW' = semW /\ cQS' = cQS
      /\ postX' = postX /\ postW' = postW /\ dQ' = dQ
  BY <1>0 DEF ErrTryAcquireWriteLatch, sems, todo, PendingS, Leaving, SharedCounts, OnePost
<1>4. Move(t, "none", "W")
  BY DEF ErrTryAcquireWriteLatch, Become, Owns, Move
<1>5. /\ NS' = NS /\ NWaitS' = NWaitS /\ NShared' = NShared
      /\ NX' = NX + 1 /\ NWaitX' = NWaitX /\ NExclusive' = NExclusive + 1 /\ NW' = NW + 1
  BY <1>0, <1>4, Moved DEF Sized, Gain, Modes, Owning, Waiting
<1>6. /\ NS = 0 /\ NWaitS = 0 /\ NShared = 0 /\ semS = 0 /\ PendingS = 0 /\ NW = 0
      /\ NX = 0 /\ NExclusive = 0 /\ NWaitX = 0 /\ semX = 0 /\ Cardinality(postX) = 0
  BY <1>0, <1>2, NoExclusive DEF SharedCounts, Sized
<1>7. ExclusiveCounts'
  BY <1>2, <1>3, <1>5, <1>6 DEF ExclusiveCounts
<1>8. SharedCounts'
  BY <1>2, <1>3, <1>5, <1>6 DEF SharedCounts
<1>9. WriterCounts'
  <2>1. /\ At({"waitW"})' = {} /\ At(Writer)' = {t} /\ At({"W"})' = {t}
        /\ \A u \in Thread : dQ[u] = 0
    BY <1>0, <1>2, <1>4, NotQuiesced DEF Move, At, Writer, TypeOK
  <2>2. /\ semW = 0 /\ Cardinality(postW) = 0 /\ cQS = 0 /\ Granted' = 0
    BY <1>2, <1>3, <1>5, <1>6, NotQuiesced DEF Granted
  <2>3. QED
    BY <1>3, <2>1, <2>2 DEF WriterCounts
<1>10. QED
  BY <1>1, <1>7, <1>8, <1>9 DEF IInv, CountsAgree

\* A shared owner takes the exclusive latch that nobody has.
LEMMA SharedToExclusiveStep ==
  ASSUME IInv, NEW t \in Thread, ErrUpgradeSharedLatchToExclusiveLatch(t)
  PROVE  IInv'
<1>0. TypeOK /\ ExclusiveCounts /\ SharedCounts /\ Sized
  BY Numbers DEF IInv, CountsAgree
<1>1. FQS(cw) = 0 /\ NX = 0 /\ NWaitX = 0 /\ NExclusive = 0 /\ semX = 0 /\ Cardinality(postX) = 0
  BY NoExclusive DEF ErrUpgradeSharedLatchToExclusiveLatch
<1>2. Move(t, "S", "X")
  BY DEF ErrUpgradeSharedLatchToExclusiveLatch, Become, Owns, Move
<1>3. /\ NS' = NS - 1 /\ NWaitS' = NWaitS /\ NShared' = NShared - 1
      /\ NX' = NX + 1 /\ NWaitX' = NWaitX /\ NExclusive' = NExclusive + 1 /\ NW' = NW
  BY <1>0, <1>2, Moved DEF Sized, Gain, Modes, Owning, Waiting
<1>4. COOWS(cw) >= 1
  <2>1. t \in At({"S"})
    BY <1>2 DEF Move, At
  <2>2. NS >= 1
    BY <1>0, <2>1, CountType DEF NS, Sized
  <2>3. QED
    BY <1>0, <1>1, <2>2 DEF SharedCounts, Sized
<1>5. COOWS(cw') = COOWS(cw) - 1 /\ FQS(cw') = FQS(cw) /\ COAWX(cw') = COAWX(cw) + 1 /\ cw' \in Nat
  BY <1>0, <1>4 DEF TypeOK, Sized, ErrUpgradeSharedLatchToExclusiveLatch, OneS, COOWS, FQS, COAWX, FlagQS, OneX
<1>6. TypeOK'
  BY <1>0, <1>5 DEF TypeOK, ErrUpgradeSharedLatchToExclusiveLatch, Become, sems, todo, Owning, Waiting
<1>7. /\ PendingS' = PendingS /\ Leaving' = Leaving /\ OnePost'
      /\ semS' = semS /\ semX' = semX /\ semW' = semW /\ cQS' = cQS
      /\ postX' = postX /\ postW' = postW /\ dQ' = dQ /\ dQ[t] = 0
  BY <1>0 DEF ErrUpgradeSharedLatchToExclusiveLatch, Owns, Idle, sems, todo, PendingS, Leaving, SharedCounts, OnePost
<1>8. ExclusiveCounts'
  BY <1>0, <1>1, <1>3, <1>5, <1>7 DEF ExclusiveCounts, ErrUpgradeSharedLatchToExclusiveLatch
<1>9. SharedCounts'
  <2>1. NShared' = NS' + NWaitS'
    BY <1>0, <1>1, <1>3, NotQuiesced DEF Sized
  <2>2. QED
    BY <1>1, <1>3, <1>5, <1>7, <2>1, NotQuiesced DEF SharedCounts
<1>10. WriterCounts'
  BY <1>1, <1>2, <1>7, WriterUntouched DEF Writer
<1>11. QED
  BY <1>6, <1>8, <1>9, <1>10 DEF IInv, CountsAgree

\* A shared owner becomes the writer, quiescing the other shared latches.
LEMMA SharedToWriteStep ==
  ASSUME IInv, NEW t \in Thread, ErrUpgradeSharedLatchToWriteLatch(t)
  PROVE  IInv'
<1> DEFINE m == IF cw # 1 THEN "waitW" ELSE "W"
<1>0. TypeOK /\ ExclusiveCounts /\ SharedCounts /\ Sized
  BY Numbers DEF IInv, CountsAgree
<1>1. FQS(cw) = 0 /\ NX = 0 /\ NWaitX = 0 /\ NExclusive = 0 /\ semX = 0 /\ Cardinality(postX) = 0
  BY NoExclusive DEF ErrUpgradeSharedLatchToWriteLatch
<1>2. /\ At(Writer) = {} /\ (\A u \in Thread : dQ[u] = 0)
      /\ semW = 0 /\ Cardinality(postW) = 0 /\ cQS = 0 /\ Cardinality(Leaving) = 0
      /\ COOWS(cw) = NShared /\ NShared = NS + NWaitS /\ NWaitS = semS + PendingS /\ NW = 0
  BY <1>1, NotQuiesced
<1>3. cw = COOWS(cw) /\ COOWS(cw') = 0 /\ FQS(cw') = 1 /\ COAWX(cw') = 1
  BY <1>0, <1>1 DEF TypeOK, ErrUpgradeSharedLatchToWriteLatch, COOWS, FQS, COAWX, FlagQS, OneX
<1>4. Move(t, "S", m) /\ m \in {"waitW", "W"}
  BY DEF ErrUpgradeSharedLatchToWriteLatch, Become, Owns, Move, OneS
<1>5. /\ NS' = NS - 1 /\ NWaitS' = NWaitS /\ NShared' = NShared - 1
      /\ NX' = NX + 1 /\ NWaitX' = NWaitX /\ NExclusive' = NExclusive + 1 /\ NW' = NW + 1
  <2>1. CASE m = "waitW"
    BY <1>0, <1>4, <2>1, Moved DEF Sized, Gain, Modes, Owning, Waiting
  <2>2. CASE m = "W"
    BY <1>0, <1>4, <2>2, Moved DEF Sized, Gain, Modes, Owning, Waiting
  <2>3. QED
    BY <1>4, <2>1, <2>2
<1>6. NS >= 1
  <2>1. t \in At({"S"})
    BY <1>4 DEF Move, At
  <2>2. QED
    BY <1>0, <2>1, CountType DEF NS, Sized
<1>7. /\ PendingS' = PendingS /\ OnePost'
      /\ semS' = semS /\ semX' = semX /\ semW' = semW /\ cQS' = cQS
      /\ postX' = postX /\ postW' = postW /\ dQ' = [dQ EXCEPT ![t] = cw - 1]
  BY <1>0 DEF ErrUpgradeSharedLatchToWriteLatch, sems, PendingS, SharedCounts, OnePost
<1>8. cw - 1 \in Nat /\ cw - 1 = NShared - 1
  BY <1>0, <1>2, <1>3, <1>6 DEF Sized
<1>9. Leaving' = {} /\ Cardinality(Leaving') = 0
  BY <1>0, <1>2, <1>7, <1>8, FS_EmptySet DEF Leaving, TypeOK
<1>10. TypeOK'
  BY <1>0, <1>8 DEF TypeOK, ErrUpgradeSharedLatchToWriteLatch, Become, sems, OneX, FlagQS, Owning, Waiting
<1>11. ExclusiveCounts'
  BY <1>1, <1>3, <1>5, <1>7 DEF ExclusiveCounts
<1>12. SharedCounts'
  <2>1. NShared' = NS' + NWaitS' /\ COOWS(cw') + semS' + PendingS' = NWaitS'
    BY <1>0, <1>2, <1>3, <1>5, <1>7 DEF Sized
  <2>2. QED
    BY <1>2, <1>3, <1>5, <1>7, <2>1 DEF SharedCounts
<1>13. WriterCounts'
  <2>1. At(Writer)' = {t} /\ At({"waitW"})' = (IF cw # 1 THEN {t} ELSE {})
                         /\ At({"W"})' = (IF cw # 1 THEN {} ELSE {t})
    BY <1>0, <1>2, <1>4 DEF Move, At, Writer, TypeOK
  <2>2. dQ'[t] = cw - 1 /\ \A u \in Thread : u # t => dQ'[u] = 0
    BY <1>0, <1>2, <1>7 DEF TypeOK
  <2>3. Granted' = cw - 1
    BY <1>0, <1>2, <1>5, <1>7, <1>8, <1>9 DEF Granted, Sized
  <2>4. \A u \in Thread : dQ'[u] # 0 => dQ'[u] > 0 /\ latch'[u] = "waitW" /\ cQS' <= 0
    BY <1>0, <1>2, <1>7, <1>8, <2>1, <2>2 DEF At, TypeOK
  <2>5. ~ \E u \in At({"waitW"})' : dQ'[u] = 0 /\ cQS' = 0
    BY <1>0, <1>8, <2>1, <2>2 DEF TypeOK
  <2>6. semW' + Cardinality(postW)' = 0
    BY <1>2, <1>7
  <2>7. \A u \in At({"W"})' : cQS' = 0 /\ dQ'[u] = 0
    BY <1>2, <1>7, <2>1, <2>2
  <2>8. \A u \in At(Writer)' : Granted' = cQS' + dQ'[u]
    BY <1>2, <1>7, <1>8, <2>1, <2>2, <2>3
  <2>9. QED
    BY <2>4, <2>5, <2>6, <2>7, <2>8 DEF WriterCounts
<1>14. QED
  BY <1>10, <1>11, <1>12, <1>13 DEF IInv, CountsAgree

\* The exclusive owner becomes the writer, quiescing the shared latches.
LEMMA ExclusiveToWriteStep ==
  ASSUME IInv, NEW t \in Thread, ErrUpgradeExclusiveLatchToWriteLatch(t)
  PROVE  IInv'
<1> DEFINE m == IF COOWS(cw) # 0 THEN "waitW" ELSE "W"
<1>0. TypeOK /\ ExclusiveCounts /\ SharedCounts /\ Sized
  BY Numbers DEF IInv, CountsAgree
<1>1. FQS(cw) = 0
  <2>1. latch[t] \in XOwner /\ latch[t] \notin Writer
    BY DEF ErrUpgradeExclusiveLatchToWriteLatch, Owns, XOwner, Writer
  <2>2. QED
    BY <1>0, <2>1, OneExclusive DEF Sized
<1>2. /\ At(Writer) = {} /\ (\A u \in Thread : dQ[u] = 0)
      /\ semW = 0 /\ Cardinality(postW) = 0 /\ cQS = 0 /\ Cardinality(Leaving) = 0
      /\ COOWS(cw) = NShared /\ NShared = NS + NWaitS /\ NWaitS = semS + PendingS /\ NW = 0
  BY <1>1, NotQuiesced
<1>3. COOWS(cw') = 0 /\ FQS(cw') = 1 /\ COAWX(cw') = COAWX(cw) /\ cw' \in Nat
  BY <1>0 DEF TypeOK, ErrUpgradeExclusiveLatchToWriteLatch, COOWS, FQS, COAWX, FlagQS, OneX
<1>4. Move(t, "X", m) /\ m \in {"waitW", "W"}
  BY DEF ErrUpgradeExclusiveLatchToWriteLatch, Become, Owns, Move
<1>5. /\ NS' = NS /\ NWaitS' = NWaitS /\ NShared' = NShared
      /\ NX' = NX /\ NWaitX' = NWaitX /\ NExclusive' = NExclusive /\ NW' = NW + 1
  <2>1. CASE m = "waitW"
    BY <1>0, <1>4, <2>1, Moved DEF Sized, Gain, Modes, Owning, Waiting
  <2>2. CASE m = "W"
    BY <1>0, <1>4, <2>2, Moved DEF Sized, Gain, Modes, Owning, Waiting
  <2>3. QED
    BY <1>4, <2>1, <2>2
<1>6. /\ PendingS' = PendingS /\ OnePost'
      /\ semS' = semS /\ semX' = semX /\ semW' = semW /\ cQS' = cQS
      /\ postX' = postX /\ postW' = postW /\ dQ' = [dQ EXCEPT ![t] = COOWS(cw)]
  BY <1>0 DEF ErrUpgradeExclusiveLatchToWriteLatch, sems, PendingS, SharedCounts, OnePost
<1>7. COOWS(cw) \in Nat
  BY <1>0 DEF Sized
<1>8. Leaving' = {} /\ Cardinality(Leaving') = 0
  BY <1>0, <1>2, <1>6, <1>7, FS_EmptySet DEF Leaving, TypeOK
<1>9. TypeOK'
  BY <1>0, <1>3, <1>7 DEF TypeOK, ErrUpgradeExclusiveLatchToWriteLatch, Become, sems, Owning, Waiting
<1>10. ExclusiveCounts'
  BY <1>0, <1>3, <1>5, <1>6 DEF ExclusiveCounts
<1>11. SharedCounts'
  <2>1. NShared' = NS' + NWaitS' /\ COOWS(cw') + semS' + PendingS' = NWaitS'
    BY <1>0, <1>2, <1>3, <1>5, <1>6 DEF Sized
  <2>2. QED
    BY <1>2, <1>3, <1>5, <1>6, <2>1 DEF SharedCounts
<1>12. WriterCounts'
  <2>1. At(Writer)' = {t} /\ At({"waitW"})' = (IF COOWS(cw) # 0 THEN {t} ELSE {})
                         /\ At({"W"})' = (IF COOWS(cw) # 0 THEN {} ELSE {t})
    BY <1>0, <1>2, <1>4 DEF Move, At, Writer, TypeOK
  <2>2. dQ'[t] = COOWS(cw) /\ \A u \in Thread : u # t => dQ'[u] = 0
    BY <1>0, <1>2, <1>6 DEF TypeOK
  <2>3. Granted' = COOWS(cw)
    BY <1>0, <1>2, <1>5, <1>6, <1>8 DEF Granted, Sized
  <2>4. \A u \in Thread : dQ'[u] # 0 => dQ'[u] > 0 /\ latch'[u] = "waitW" /\ cQS' <= 0
    BY <1>2, <1>6, <1>7, <2>1, <2>2 DEF At
  <2>5. ~ \E u \in At({"waitW"})' : dQ'[u] = 0 /\ cQS' = 0
    BY <2>1, <2>2
  <2>6. semW' + Cardinality(postW)' = 0
    BY <1>2, <1>6
  <2>7. \A u \in At({"W"})' : cQS' = 0 /\ dQ'[u] = 0
    BY <1>2, <1>6, <2>1, <2>2
  <2>8. \A u \in At(Writer)' : Granted' = cQS' + dQ'[u]
    BY <1>2, <1>6, <1>7, <2>1, <2>2, <2>3
  <2>9. QED
    BY <2>4, <2>5, <2>6, <2>7, <2>8 DEF WriterCounts
<1>13. QED
  BY <1>9, <1>10, <1>11, <1>12 DEF IInv, CountsAgree

\* What is true while a thread owns the write latch: no shared latch is out.
LEMMA WriteOwner ==
  ASSUME IInv, NEW t \in Thread, latch[t] = "W"
  PROVE  /\ NX = 1 /\ NW = 1 /\ COAWX(cw) > 0 /\ FQS(cw) = 1
         /\ semX = 0 /\ Cardinality(postX) = 0 /\ semW = 0 /\ Cardinality(postW) = 0
         /\ At(XOwner) = {t} /\ At(Writer) = {t} /\ At({"W"}) = {t} /\ At({"waitW"}) = {}
         /\ NS = 0 /\ Cardinality(Leaving) = 0 /\ Leaving = {} /\ semS = 0 /\ PendingS = 0
         /\ cQS = 0 /\ NShared = NWaitS /\ COOWS(cw) = NWaitS
         /\ \A u \in Thread : dQ[u] = 0 /\ postS[u] = 0
<1>0. TypeOK /\ SharedCounts /\ WriterCounts /\ Sized
  BY Numbers DEF IInv, CountsAgree
<1>1. latch[t] \in XOwner /\ latch[t] \in Writer
  BY DEF XOwner, Writer
<1>2. /\ NX = 1 /\ COAWX(cw) > 0 /\ semX = 0 /\ Cardinality(postX) = 0
      /\ At(XOwner) = {t} /\ FQS(cw) = 1
  BY <1>1, OneExclusive
<1>3. At(Writer) = {t} /\ At({"W"}) = {t} /\ At({"waitW"}) = {}
  BY <1>1, <1>2 DEF At, XOwner, Writer
<1>4. cQS = 0 /\ dQ[t] = 0 /\ Granted = 0
  BY <1>0, <1>3 DEF WriterCounts
<1>5. NS = 0 /\ Cardinality(Leaving) = 0 /\ semS = 0 /\ PendingS = 0
  <2>1. NS \in Nat /\ Cardinality(Leaving) \in Nat /\ semS \in Nat /\ PendingS \in Nat
    BY <1>0 DEF Sized
  <2>2. NS + Cardinality(Leaving) + semS + PendingS = 0
    BY <1>4 DEF Granted
  <2>3. \A k1, k2, k3, k4 \in Nat : k1 + k2 + k3 + k4 = 0 => k1 = 0 /\ k2 = 0 /\ k3 = 0 /\ k4 = 0
    OBVIOUS
  <2>4. QED
    BY <2>1, <2>2, <2>3
<1>6. Leaving = {}
  BY <1>5, ThreadAssumption, FS_Subset, FS_EmptySet DEF Leaving
<1>7. semW = 0 /\ Cardinality(postW) = 0
  <2>1. semW + Cardinality(postW) = 0
    BY <1>0, <1>3 DEF WriterCounts
  <2>2. QED
    BY <1>0, <2>1 DEF Sized
<1>8. NW = 1 /\ NShared = NWaitS /\ COOWS(cw) = NWaitS
  <2>1. NW = 1 /\ NShared = NS + NWaitS /\ COOWS(cw) + semS + PendingS = NWaitS
    BY <1>0, <1>2 DEF SharedCounts
  <2>2. QED
    BY <1>0, <1>5, <2>1 DEF Sized
<1>9. \A u \in Thread : dQ[u] = 0
  BY <1>0, <1>3, <1>6 DEF WriterCounts, Leaving, At
<1>10. \A u \in Thread : postS[u] = 0
  BY <1>0, <1>5, PendingValue DEF SharedCounts
<1>11. QED
  BY <1>2, <1>3, <1>4, <1>5, <1>6, <1>7, <1>8, <1>9, <1>10

\* The writer keeps the exclusive latch and lets the shared waiters in.
LEMMA WriteToExclusiveStep ==
  ASSUME IInv, NEW t \in Thread, DowngradeWriteLatchToExclusiveLatch(t)
  PROVE  IInv'
<1>0. TypeOK /\ ExclusiveCounts /\ SharedCounts /\ Sized
  BY Numbers DEF IInv, CountsAgree
<1>1. /\ NX = 1 /\ NW = 1 /\ COAWX(cw) > 0 /\ FQS(cw) = 1
      /\ semW = 0 /\ Cardinality(postW) = 0 /\ At(Writer) = {t}
      /\ NS = 0 /\ Leaving = {} /\ semS = 0 /\ cQS = 0
      /\ NShared = NWaitS /\ COOWS(cw) = NWaitS
      /\ \A u \in Thread : dQ[u] = 0 /\ postS[u] = 0
  BY WriteOwner DEF DowngradeWriteLatchToExclusiveLatch, Owns
<1>2. COOWS(cw') = COOWS(cw) /\ FQS(cw') = 0 /\ COAWX(cw') = COAWX(cw) /\ cw' \in Nat
  BY <1>0, <1>1 DEF TypeOK, DowngradeWriteLatchToExclusiveLatch, COOWS, FQS, COAWX, FlagQS, OneX
<1>3. Move(t, "W", "X")
  BY DEF DowngradeWriteLatchToExclusiveLatch, Become, Owns, Move
<1>4. /\ NS' = NS /\ NWaitS' = NWaitS /\ NShared' = NShared
      /\ NX' = NX /\ NWaitX' = NWaitX /\ NExclusive' = NExclusive /\ NW' = NW - 1
  BY <1>0, <1>3, Moved DEF Sized, Gain, Modes, Owning, Waiting
<1>5. /\ semS' = semS /\ semX' = semX /\ semW' = semW /\ cQS' = cQS
      /\ postX' = postX /\ postW' = postW /\ dQ' = dQ /\ Leaving' = Leaving
      /\ postS' = [postS EXCEPT ![t] = COOWS(cw)]
  BY DEF DowngradeWriteLatchToExclusiveLatch, sems, WakeShared, Leaving
<1>6. COOWS(cw) \in Nat
  BY <1>0 DEF Sized
<1>7. TypeOK'
  BY <1>0, <1>2, <1>5, <1>6 DEF TypeOK, DowngradeWriteLatchToExclusiveLatch, Become, Owning, Waiting
<1>8. OnePost' /\ PendingS' = COOWS(cw)
  BY <1>0, <1>1, <1>5, <1>6, <1>7, PendingSet
<1>9. ExclusiveCounts'
  BY <1>0, <1>2, <1>4, <1>5 DEF ExclusiveCounts
<1>10. SharedCounts'
  BY <1>1, <1>2, <1>4, <1>5, <1>6, <1>8 DEF SharedCounts
<1>11. WriterCounts'
  <2>1. At(Writer)' = {} /\ At({"W"})' = {} /\ At({"waitW"})' = {}
    BY <1>0, <1>1, <1>3 DEF At, Writer, Move, TypeOK
  <2>2. QED
    BY <1>1, <1>5, <2>1 DEF WriterCounts
<1>12. QED
  BY <1>7, <1>9, <1>10, <1>11 DEF IInv, CountsAgree

\* What an exclusive owner hands over when it gives the exclusive latch up.
LEMMA HandedOver ==
  ASSUME IInv, NEW t \in Thread, latch[t] \in {"X", "W"}, WakeExclusive(t),
         COAWX(cw') = COAWX(cw) - 1, NX' = NX - 1, NWaitX' = NWaitX,
         NExclusive' = NExclusive - 1, semX' = semX
  PROVE  ExclusiveCounts' /\ postX' \subseteq Thread
<1>0. TypeOK /\ ExclusiveCounts /\ Sized
  BY Numbers DEF IInv, CountsAgree
<1>1. NX = 1 /\ COAWX(cw) > 0 /\ semX = 0 /\ Cardinality(postX) = 0
  BY OneExclusive DEF XOwner
<1>2. postX = {}
  BY <1>0, <1>1, ThreadAssumption, FS_Subset, FS_EmptySet DEF TypeOK
<1>3. cw >= 2 * OneX <=> COAWX(cw) >= 2
  BY <1>0 DEF TypeOK, COAWX, OneX
<1>4. postX' = IF COAWX(cw) >= 2 THEN {t} ELSE {}
  BY <1>2, <1>3 DEF WakeExclusive
<1>5. Cardinality(postX') = IF COAWX(cw) >= 2 THEN 1 ELSE 0
  BY <1>4, FS_Singleton, FS_EmptySet
<1>6. /\ COAWX(cw) \in Nat /\ NExclusive = COAWX(cw) /\ NExclusive = NWaitX + NX
      /\ NWaitX \in Nat /\ NX \in Nat
  BY <1>0 DEF Sized, ExclusiveCounts
<1>7. ExclusiveCounts'
  BY <1>1, <1>5, <1>6 DEF ExclusiveCounts
<1>8. QED
  BY <1>4, <1>7

\* The writer becomes a shared owner, lets the shared waiters in and hands the
\* exclusive latch over.
LEMMA WriteToSharedStep ==
  ASSUME IInv, NEW t \in Thread, DowngradeWriteLatchToSharedLatch(t)
  PROVE  IInv'
<1>0. TypeOK /\ ExclusiveCounts /\ SharedCounts /\ Sized
  BY Numbers DEF IInv, CountsAgree
<1>1. /\ NX = 1 /\ NW = 1 /\ COAWX(cw) > 0 /\ FQS(cw) = 1
      /\ semW = 0 /\ Cardinality(postW) = 0 /\ At(Writer) = {t}
      /\ NS = 0 /\ Leaving = {} /\ semS = 0 /\ cQS = 0
      /\ NShared = NWaitS /\ COOWS(cw) = NWaitS
      /\ \A u \in Thread : dQ[u] = 0 /\ postS[u] = 0
  BY WriteOwner DEF DowngradeWriteLatchToSharedLatch, Owns
<1>2. COOWS(cw') = COOWS(cw) + 1 /\ FQS(cw') = 0 /\ COAWX(cw') = COAWX(cw) - 1 /\ cw' \in Nat
  BY <1>0, <1>1 DEF TypeOK, Sized, DowngradeWriteLatchToSharedLatch, COOWS, FQS, COAWX, FlagQS, OneX, OneS
<1>3. Move(t, "W", "S")
  BY DEF DowngradeWriteLatchToSharedLatch, Become, Owns, Move
<1>4. /\ NS' = NS + 1 /\ NWaitS' = NWaitS /\ NShared' = NShared + 1
      /\ NX' = NX - 1 /\ NWaitX' = NWaitX /\ NExclusive' = NExclusive - 1 /\ NW' = NW - 1
  BY <1>0, <1>3, Moved DEF Sized, Gain, Modes, Owning, Waiting
<1>5. /\ semS' = semS /\ semX' = semX /\ semW' = semW /\ cQS' = cQS
      /\ postW' = postW /\ dQ' = dQ /\ Leaving' = Leaving
      /\ postS' = [postS EXCEPT ![t] = COOWS(cw)]
  BY DEF DowngradeWriteLatchToSharedLatch, sems, WakeShared, Leaving
<1>6. COOWS(cw) \in Nat
  BY <1>0 DEF Sized
<1>7. ExclusiveCounts' /\ postX' \subseteq Thread
  BY <1>2, <1>3, <1>4, <1>5, HandedOver DEF DowngradeWriteLatchToSharedLatch, Owns
<1>8. TypeOK'
  BY <1>0, <1>2, <1>5, <1>6, <1>7 DEF TypeOK, DowngradeWriteLatchToSharedLatch, Become, Owning, Waiting
<1>9. OnePost' /\ PendingS' = COOWS(cw)
  BY <1>0, <1>1, <1>5, <1>6, <1>8, PendingSet
<1>10. SharedCounts'
  BY <1>1, <1>2, <1>4, <1>5, <1>6, <1>9 DEF SharedCounts
<1>11. WriterCounts'
  <2>1. At(Writer)' = {} /\ At({"W"})' = {} /\ At({"waitW"})' = {}
    BY <1>0, <1>1, <1>3 DEF At, Writer, Move, TypeOK
  <2>2. QED
    BY <1>1, <1>5, <2>1 DEF WriterCounts
<1>12. QED
  BY <1>7, <1>8, <1>10, <1>11 DEF IInv, CountsAgree

\* The writer leaves, lets the shared waiters in and hands the exclusive latch over.
LEMMA ReleaseWriteStep ==
  ASSUME IInv, NEW t \in Thread, ReleaseWriteLatch(t)
  PROVE  IInv'
<1>0. TypeOK /\ ExclusiveCounts /\ SharedCounts /\ Sized
  BY Numbers DEF IInv, CountsAgree
<1>1. /\ NX = 1 /\ NW = 1 /\ COAWX(cw) > 0 /\ FQS(cw) = 1
      /\ semW = 0 /\ Cardinality(postW) = 0 /\ At(Writer) = {t}
      /\ NS = 0 /\ Leaving = {} /\ semS = 0 /\ cQS = 0
      /\ NShared = NWaitS /\ COOWS(cw) = NWaitS
      /\ \A u \in Thread : dQ[u] = 0 /\ postS[u] = 0
  BY WriteOwner DEF ReleaseWriteLatch, Owns
<1>2. COOWS(cw') = COOWS(cw) /\ FQS(cw') = 0 /\ COAWX(cw') = COAWX(cw) - 1 /\ cw' \in Nat
  BY <1>0, <1>1 DEF TypeOK, ReleaseWriteLatch, COOWS, FQS, COAWX, FlagQS, OneX
<1>3. Move(t, "W", "none")
  BY DEF ReleaseWriteLatch, Become, Owns, Move
<1>4. /\ NS' = NS /\ NWaitS' = NWaitS /\ NShared' = NShared
      /\ NX' = NX - 1 /\ NWaitX' = NWaitX /\ NExclusive' = NExclusive - 1 /\ NW' = NW - 1
  BY <1>0, <1>3, Moved DEF Sized, Gain, Modes, Owning, Waiting
<1>5. /\ semS' = semS /\ semX' = semX /\ semW' = semW /\ cQS' = cQS
      /\ postW' = postW /\ dQ' = dQ /\ Leaving' = Leaving
      /\ postS' = [postS EXCEPT ![t] = COOWS(cw)]
  BY DEF ReleaseWriteLatch, sems, WakeShared, Leaving
<1>6. COOWS(cw) \in Nat
  BY <1>0 DEF Sized
<1>7. ExclusiveCounts' /\ postX' \subseteq Thread
  BY <1>2, <1>3, <1>4, <1>5, HandedOver DEF ReleaseWriteLatch, Owns
<1>8. TypeOK'
  BY <1>0, <1>2, <1>5, <1>6, <1>7 DEF TypeOK, ReleaseWriteLatch, Become, Owning, Waiting
<1>9. OnePost' /\ PendingS' = COOWS(cw)
  BY <1>0, <1>1, <1>5, <1>6, <1>8, PendingSet
<1>10. SharedCounts'
  BY <1>1, <1>2, <1>4, <1>5, <1>6, <1>9 DEF SharedCounts
<1>11. WriterCounts'
  <2>1. At(Writer)' = {} /\ At({"W"})' = {} /\ At({"waitW"})' = {}
    BY <1>0, <1>1, <1>3 DEF At, Writer, Move, TypeOK
  <2>2. QED
    BY <1>1, <1>5, <2>1 DEF WriterCounts
<1>12. QED
  BY <1>7, <1>8, <1>10, <1>11 DEF IInv, CountsAgree

\* The exclusive owner that is not the writer hands the exclusive latch over.
LEMMA ExclusiveToSharedStep ==
  ASSUME IInv, NEW t \in Thread, DowngradeExclusiveLatchToSharedLatch(t)
  PROVE  IInv'
<1>0. TypeOK /\ ExclusiveCounts /\ SharedCounts /\ Sized
  BY Numbers DEF IInv, CountsAgree
<1>1. latch[t] = "X" /\ FQS(cw) = 0 /\ COAWX(cw) > 0
  BY <1>0, OneExclusive DEF DowngradeExclusiveLatchToSharedLatch, Owns, XOwner, Writer, Sized
<1>2. COOWS(cw') = COOWS(cw) + 1 /\ FQS(cw') = FQS(cw) /\ COAWX(cw') = COAWX(cw) - 1 /\ cw' \in Nat
  BY <1>0, <1>1 DEF TypeOK, Sized, DowngradeExclusiveLatchToSharedLatch, COOWS, FQS, COAWX, FlagQS, OneX, OneS
<1>3. Move(t, "X", "S")
  BY DEF DowngradeExclusiveLatchToSharedLatch, Become, Owns, Move
<1>4. /\ NS' = NS + 1 /\ NWaitS' = NWaitS /\ NShared' = NShared + 1
      /\ NX' = NX - 1 /\ NWaitX' = NWaitX /\ NExclusive' = NExclusive - 1 /\ NW' = NW
  BY <1>0, <1>3, Moved DEF Sized, Gain, Modes, Owning, Waiting
<1>5. /\ PendingS' = PendingS /\ Leaving' = Leaving /\ OnePost' /\ postS' = postS
      /\ semS' = semS /\ semX' = semX /\ semW' = semW /\ cQS' = cQS
      /\ postW' = postW /\ dQ' = dQ /\ dQ[t] = 0
  BY <1>0 DEF DowngradeExclusiveLatchToSharedLatch, Owns, Idle, sems, PendingS, Leaving, SharedCounts, OnePost
<1>6. ExclusiveCounts' /\ postX' \subseteq Thread
  BY <1>1, <1>2, <1>4, <1>5, HandedOver DEF DowngradeExclusiveLatchToSharedLatch
<1>7. TypeOK'
  BY <1>0, <1>2, <1>5, <1>6 DEF TypeOK, DowngradeExclusiveLatchToSharedLatch, Become, Owning, Waiting
<1>8. SharedCounts'
  <2>1. NShared' = NS' + NWaitS'
    BY <1>0, <1>1, <1>4, NotQuiesced DEF Sized
  <2>2. QED
    BY <1>1, <1>2, <1>4, <1>5, <2>1, NotQuiesced DEF SharedCounts
<1>9. WriterCounts'
  BY <1>1, <1>3, <1>5, WriterUntouched DEF Writer
<1>10. QED
  BY <1>6, <1>7, <1>8, <1>9 DEF IInv, CountsAgree

\* The exclusive owner that is not the writer leaves.
LEMMA ReleaseExclusiveStep ==
  ASSUME IInv, NEW t \in Thread, ReleaseExclusiveLatch(t)
  PROVE  IInv'
<1>0. TypeOK /\ ExclusiveCounts /\ SharedCounts /\ Sized
  BY Numbers DEF IInv, CountsAgree
<1>1. latch[t] = "X" /\ FQS(cw) = 0 /\ COAWX(cw) > 0
  BY <1>0, OneExclusive DEF ReleaseExclusiveLatch, Owns, XOwner, Writer, Sized
<1>2. COOWS(cw') = COOWS(cw) /\ FQS(cw') = FQS(cw) /\ COAWX(cw') = COAWX(cw) - 1 /\ cw' \in Nat
  BY <1>0, <1>1 DEF TypeOK, ReleaseExclusiveLatch, COOWS, FQS, COAWX, FlagQS, OneX
<1>3. Move(t, "X", "none")
  BY DEF ReleaseExclusiveLatch, Become, Owns, Move
<1>4. /\ NS' = NS /\ NWaitS' = NWaitS /\ NShared' = NShared
      /\ NX' = NX - 1 /\ NWaitX' = NWaitX /\ NExclusive' = NExclusive - 1 /\ NW' = NW
  BY <1>0, <1>3, Moved DEF Sized, Gain, Modes, Owning, Waiting
<1>5. /\ PendingS' = PendingS /\ Leaving' = Leaving /\ OnePost' /\ postS' = postS
      /\ semS' = semS /\ semX' = semX /\ semW' = semW /\ cQS' = cQS
      /\ postW' = postW /\ dQ' = dQ /\ dQ[t] = 0
  BY <1>0 DEF ReleaseExclusiveLatch, Owns, Idle, sems, PendingS, Leaving, SharedCounts, OnePost
<1>6. ExclusiveCounts' /\ postX' \subseteq Thread
  BY <1>1, <1>2, <1>4, <1>5, HandedOver DEF ReleaseExclusiveLatch
<1>7. TypeOK'
  BY <1>0, <1>2, <1>5, <1>6 DEF TypeOK, ReleaseExclusiveLatch, Become, Owning, Waiting
<1>8. SharedCounts'
  BY <1>0, <1>2, <1>4, <1>5 DEF SharedCounts
<1>9. WriterCounts'
  BY <1>1, <1>3, <1>5, WriterUntouched DEF Writer
<1>10. QED
  BY <1>6, <1>7, <1>8, <1>9 DEF IInv, CountsAgree

\* A shared owner leaves, through m_cQS when a writer has displaced its latch.
LEMMA ReleaseSharedStep ==
  ASSUME IInv, NEW t \in Thread, ReleaseSharedLatch(t)
  PROVE  IInv'
<1>0. TypeOK /\ ExclusiveCounts /\ SharedCounts /\ WriterCounts /\ Sized
  BY Numbers DEF IInv, CountsAgree
<1>1. Move(t, "S", "none") /\ dQ[t] = 0
  BY DEF ReleaseSharedLatch, Become, Owns, Idle, Move
<1>2. /\ NS' = NS - 1 /\ NWaitS' = NWaitS /\ NShared' = NShared - 1
      /\ NX' = NX /\ NWaitX' = NWaitX /\ NExclusive' = NExclusive /\ NW' = NW
  BY <1>0, <1>1, Moved DEF Sized, Gain, Modes, Owning, Waiting
<1>3. NS >= 1
  <2>1. t \in At({"S"})
    BY <1>1 DEF Move, At
  <2>2. QED
    BY <1>0, <2>1, CountType DEF NS, Sized
<1>4. /\ PendingS' = PendingS /\ OnePost'
      /\ semS' = semS /\ semX' = semX /\ semW' = semW /\ cQS' = cQS
      /\ postX' = postX /\ postW' = postW
  BY <1>0 DEF ReleaseSharedLatch, sems, PendingS, SharedCounts, OnePost
<1>5. CASE FQS(cw) = 0
  <2>1. dQ' = dQ /\ cw' = cw - OneS /\ Leaving' = Leaving
    BY <1>5 DEF ReleaseSharedLatch, Leaving
  <2>2. COOWS(cw) >= 1
    BY <1>0, <1>3, <1>5, NotQuiesced DEF Sized
  <2>3. COOWS(cw') = COOWS(cw) - 1 /\ FQS(cw') = FQS(cw) /\ COAWX(cw') = COAWX(cw) /\ cw' \in Nat
    BY <1>0, <2>1, <2>2 DEF TypeOK, Sized, OneS, COOWS, FQS, COAWX, FlagQS, OneX
  <2>4. TypeOK'
    BY <1>0, <2>1, <2>3 DEF TypeOK, ReleaseSharedLatch, Become, sems, Owning, Waiting
  <2>5. ExclusiveCounts'
    BY <1>0, <1>2, <1>4, <2>3 DEF ExclusiveCounts
  <2>6. SharedCounts'
    <3>1. NShared' = NS' + NWaitS'
      BY <1>0, <1>2, <1>5, NotQuiesced DEF Sized
    <3>2. QED
      BY <1>2, <1>4, <1>5, <2>1, <2>3, <3>1, NotQuiesced DEF SharedCounts
  <2>7. WriterCounts'
    BY <1>1, <1>4, <1>5, <2>1, WriterUntouched DEF Writer
  <2>8. QED
    BY <2>4, <2>5, <2>6, <2>7 DEF IInv, CountsAgree
<1>6. CASE FQS(cw) = 1
  <2>1. dQ' = [dQ EXCEPT ![t] = -1] /\ cw' = cw
    BY <1>6 DEF ReleaseSharedLatch
  <2>2. TypeOK'
    BY <1>0, <2>1 DEF TypeOK, ReleaseSharedLatch, Become, sems, Owning, Waiting
  <2>3. Cardinality(Leaving') = Cardinality(Leaving) + 1
    <3>1. Leaving' = Leaving \cup {t} /\ t \notin Leaving
      BY <1>0, <1>1, <2>1 DEF Leaving, TypeOK
    <3>2. IsFiniteSet(Leaving)
      BY ThreadAssumption, FS_Subset DEF Leaving
    <3>3. QED
      BY <3>1, <3>2, FS_AddElement
  <2>4. ExclusiveCounts'
    BY <1>0, <1>2, <1>4, <2>1 DEF ExclusiveCounts
  <2>5. SharedCounts'
    <3>1. NShared' = NS' + NWaitS'
      BY <1>0, <1>2 DEF Sized, SharedCounts
    <3>2. QED
      BY <1>0, <1>2, <1>4, <1>6, <2>1, <3>1 DEF SharedCounts
  <2>6. Granted' = Granted
    BY <1>0, <1>2, <1>4, <2>3 DEF Granted, Sized
  <2>7. WriterCounts'
    <3>1. /\ At(Writer)' = At(Writer) /\ At({"W"})' = At({"W"}) /\ At({"waitW"})' = At({"waitW"})
          /\ t \notin At(Writer) /\ t \notin At({"W"}) /\ t \notin At({"waitW"})
          /\ latch'[t] = "none" /\ \A u \in Thread : u # t => latch'[u] = latch[u]
      BY <1>0, <1>1 DEF Move, At, Writer, TypeOK
    <3>2. dQ'[t] = -1 /\ \A u \in Thread : u # t => dQ'[u] = dQ[u]
      BY <1>0, <2>1 DEF TypeOK
    <3>3. \A u \in At(Writer) \cup At({"W"}) \cup At({"waitW"}) : dQ'[u] = dQ[u]
      BY <3>1, <3>2 DEF At
    <3>4. \A u \in Thread : dQ'[u] # 0 => \/ dQ'[u] = -1 /\ latch'[u] = "none"
                                          \/ dQ'[u] > 0 /\ latch'[u] = "waitW" /\ cQS' <= 0
      BY <1>0, <1>4, <3>1, <3>2 DEF WriterCounts
    <3>5. (\A u \in At(Writer)' : Granted' = cQS' + dQ'[u]) /\ (\A u \in At({"W"})' : cQS' = 0 /\ dQ'[u] = 0)
      BY <1>0, <1>4, <2>6, <3>1, <3>3 DEF WriterCounts
    <3>6. (\E u \in At({"waitW"})' : dQ'[u] = 0 /\ cQS' = 0)
            <=> \E u \in At({"waitW"}) : dQ[u] = 0 /\ cQS = 0
      BY <1>4, <3>1, <3>3
    <3>7. QED
      BY <1>0, <1>4, <3>4, <3>5, <3>6 DEF WriterCounts
  <2>8. QED
    BY <2>2, <2>4, <2>5, <2>7 DEF IInv, CountsAgree
<1>7. QED
  BY <1>0, <1>5, <1>6 DEF Sized

\* A thread takes the count of m_semS that grants it the shared latch.
LEMMA WaitSharedStep ==
  ASSUME IInv, NEW t \in Thread, WaitForSharedLatch(t)
  PROVE  IInv'
<1>0. TypeOK /\ ExclusiveCounts /\ SharedCounts /\ Sized
  BY Numbers DEF IInv, CountsAgree
<1>1. Move(t, "waitS", "S") /\ dQ[t] = 0 /\ semS > 0 /\ semS' = semS - 1
  BY DEF WaitForSharedLatch, Become, Owns, Idle, Move
<1>2. /\ NS' = NS + 1 /\ NWaitS' = NWaitS - 1 /\ NShared' = NShared
      /\ NX' = NX /\ NWaitX' = NWaitX /\ NExclusive' = NExclusive /\ NW' = NW
  BY <1>0, <1>1, Moved DEF Sized, Gain, Modes, Owning, Waiting
<1>3. /\ PendingS' = PendingS /\ Leaving' = Leaving /\ OnePost' /\ cw' = cw
      /\ semX' = semX /\ semW' = semW /\ cQS' = cQS
      /\ postX' = postX /\ postW' = postW /\ dQ' = dQ
  BY <1>0 DEF WaitForSharedLatch, todo, PendingS, Leaving, SharedCounts, OnePost
<1>4. TypeOK'
  BY <1>0, <1>1 DEF TypeOK, WaitForSharedLatch, Become, todo, Owning, Waiting
<1>5. ExclusiveCounts'
  BY <1>0, <1>2, <1>3 DEF ExclusiveCounts
<1>6. SharedCounts'
  <2>1. NShared' = NS' + NWaitS'
    BY <1>0, <1>2 DEF Sized, SharedCounts
  <2>2. FQS(cw) = 0 => NWaitS' = semS' + PendingS'
    BY <1>0, <1>1, <1>2, <1>3, NotQuiesced DEF Sized
  <2>3. FQS(cw) = 1 => COOWS(cw) + semS' + PendingS' = NWaitS'
    <3>1. FQS(cw) = 1 => COOWS(cw) + semS + PendingS = NWaitS
      BY <1>0 DEF SharedCounts
    <3>2. QED
      BY <1>0, <1>1, <1>2, <1>3, <3>1 DEF Sized
  <2>4. QED
    BY <1>0, <1>2, <1>3, <2>1, <2>2, <2>3 DEF SharedCounts
<1>7. Granted' = Granted
  BY <1>0, <1>1, <1>2, <1>3 DEF Granted, Sized
<1>8. WriterCounts'
  BY <1>1, <1>3, <1>7, WriterUntouched DEF Writer
<1>9. QED
  BY <1>4, <1>5, <1>6, <1>8 DEF IInv, CountsAgree

\* A thread takes the count of m_semX that hands it the exclusive latch.
LEMMA WaitExclusiveStep ==
  ASSUME IInv, NEW t \in Thread, WaitForExclusiveLatch(t)
  PROVE  IInv'
<1>0. TypeOK /\ ExclusiveCounts /\ SharedCounts /\ Sized
  BY Numbers DEF IInv, CountsAgree
<1>1. Move(t, "waitX", "X") /\ dQ[t] = 0 /\ semX > 0 /\ semX' = semX - 1
  BY DEF WaitForExclusiveLatch, Become, Owns, Idle, Move
<1>2. /\ NS' = NS /\ NWaitS' = NWaitS /\ NShared' = NShared
      /\ NX' = NX + 1 /\ NWaitX' = NWaitX - 1 /\ NExclusive' = NExclusive /\ NW' = NW
  BY <1>0, <1>1, Moved DEF Sized, Gain, Modes, Owning, Waiting
<1>3. /\ PendingS' = PendingS /\ Leaving' = Leaving /\ OnePost' /\ cw' = cw
      /\ semS' = semS /\ semW' = semW /\ cQS' = cQS
      /\ postX' = postX /\ postW' = postW /\ dQ' = dQ
  BY <1>0 DEF WaitForExclusiveLatch, todo, PendingS, Leaving, SharedCounts, OnePost
<1>4. TypeOK'
  BY <1>0, <1>1 DEF TypeOK, WaitForExclusiveLatch, Become, todo, Owning, Waiting
<1>5. ExclusiveCounts'
  <2>1. /\ NX \in Nat /\ semX \in Nat /\ NWaitX \in Nat /\ Cardinality(postX) \in Nat
    BY <1>0 DEF Sized
  <2>2. QED
    BY <1>0, <1>1, <1>2, <1>3, <2>1 DEF ExclusiveCounts
<1>6. SharedCounts'
  BY <1>0, <1>2, <1>3 DEF SharedCounts
<1>7. WriterCounts'
  BY <1>1, <1>2, <1>3, WriterUntouched DEF Writer, Granted
<1>8. QED
  BY <1>4, <1>5, <1>6, <1>7 DEF IInv, CountsAgree

\* What is true while a thread waits for the write latch: it is the writer.
LEMMA WaitingWriter ==
  ASSUME IInv, NEW t \in Thread, latch[t] = "waitW"
  PROVE  /\ FQS(cw) = 1 /\ At(Writer) = {t} /\ At({"W"}) = {} /\ At({"waitW"}) = {t}
         /\ Granted = cQS + dQ[t]
         /\ semW + Cardinality(postW) = IF dQ[t] = 0 /\ cQS = 0 THEN 1 ELSE 0
<1>0. WriterCounts
  BY DEF IInv, CountsAgree
<1>1. latch[t] \in XOwner /\ latch[t] \in Writer
  BY DEF XOwner, Writer
<1>2. At(XOwner) = {t} /\ FQS(cw) = 1
  BY <1>1, OneExclusive
<1>3. At(Writer) = {t} /\ At({"W"}) = {} /\ At({"waitW"}) = {t}
  BY <1>1, <1>2 DEF At, XOwner, Writer
<1>4. QED
  BY <1>0, <1>2, <1>3 DEF WriterCounts

\* The writer takes the count of m_semW: no shared latch is out any more.
LEMMA WaitWriteStep ==
  ASSUME IInv, NEW t \in Thread, WaitForWriteLatch(t)
  PROVE  IInv'
<1>0. TypeOK /\ ExclusiveCounts /\ SharedCounts /\ WriterCounts /\ Sized
  BY Numbers DEF IInv, CountsAgree
<1>1. Move(t, "waitW", "W") /\ semW > 0 /\ semW' = semW - 1 /\ latch[t] = "waitW"
  BY DEF WaitForWriteLatch, Become, Owns, Move
<1>2. /\ FQS(cw) = 1 /\ At(Writer) = {t} /\ At({"W"}) = {} /\ At({"waitW"}) = {t}
      /\ Granted = cQS + dQ[t]
      /\ semW + Cardinality(postW) = IF dQ[t] = 0 /\ cQS = 0 THEN 1 ELSE 0
  BY <1>1, WaitingWriter
<1>3. semW \in Nat /\ Cardinality(postW) \in Nat
  BY <1>0 DEF Sized
<1>4. dQ[t] = 0 /\ cQS = 0 /\ semW' + Cardinality(postW) = 0
  BY <1>1, <1>2, <1>3
<1>5. /\ NS' = NS /\ NWaitS' = NWaitS /\ NShared' = NShared
      /\ NX' = NX /\ NWaitX' = NWaitX /\ NExclusive' = NExclusive /\ NW' = NW
  BY <1>0, <1>1, Moved DEF Sized, Gain, Modes, Owning, Waiting
<1>6. /\ PendingS' = PendingS /\ Leaving' = Leaving /\ OnePost' /\ cw' = cw
      /\ semS' = semS /\ semX' = semX /\ cQS' = cQS
      /\ postX' = postX /\ postW' = postW /\ dQ' = dQ
  BY <1>0 DEF WaitForWriteLatch, todo, PendingS, Leaving, SharedCounts, OnePost
<1>7. TypeOK'
  BY <1>0, <1>1 DEF TypeOK, WaitForWriteLatch, Become, todo, Owning, Waiting
<1>8. ExclusiveCounts' /\ SharedCounts'
  BY <1>0, <1>5, <1>6 DEF ExclusiveCounts, SharedCounts
<1>9. WriterCounts'
  <2>1. /\ At(Writer)' = {t} /\ At({"W"})' = {t} /\ At({"waitW"})' = {}
        /\ \A u \in Thread : u # t => latch'[u] = latch[u]
    BY <1>0, <1>1, <1>2 DEF Move, At, Writer, TypeOK
  <2>2. Granted' = Granted
    BY <1>5, <1>6 DEF Granted
  <2>3. \A u \in Thread : dQ'[u] # 0 => \/ dQ'[u] = -1 /\ latch'[u] = "none"
                                        \/ dQ'[u] > 0 /\ latch'[u] = "waitW" /\ cQS' <= 0
    BY <1>0, <1>4, <1>6, <2>1 DEF WriterCounts
  <2>4. QED
    BY <1>2, <1>4, <1>6, <2>1, <2>2, <2>3 DEF WriterCounts
<1>10. QED
  BY <1>7, <1>8, <1>9 DEF IInv, CountsAgree

\* The second half of an upgrade, or of a release by a quiesced owner.
LEMMA UpdateQuiescedStep ==
  ASSUME IInv, NEW t \in Thread, _UpdateQuiescedSharedLatchCount(t)
  PROVE  IInv'
<1>0. TypeOK /\ ExclusiveCounts /\ SharedCounts /\ WriterCounts /\ Sized
  BY Numbers DEF IInv, CountsAgree
<1>1. /\ dQ[t] # 0 /\ cQS' = cQS + dQ[t] /\ dQ' = [dQ EXCEPT ![t] = 0]
      /\ postW' = IF cQS + dQ[t] = 0 THEN postW \cup {t} ELSE postW
      /\ cw' = cw /\ semS' = semS /\ semX' = semX /\ semW' = semW
      /\ latch' = latch /\ postS' = postS /\ postX' = postX
  BY DEF _UpdateQuiescedSharedLatchCount, sems
<1>2. TypeOK'
  BY <1>0, <1>1 DEF TypeOK
<1>3. /\ NS' = NS /\ NWaitS' = NWaitS /\ NShared' = NShared
      /\ NX' = NX /\ NWaitX' = NWaitX /\ NExclusive' = NExclusive /\ NW' = NW
      /\ PendingS' = PendingS /\ OnePost'
      /\ At(Writer)' = At(Writer) /\ At({"W"})' = At({"W"}) /\ At({"waitW"})' = At({"waitW"})
  BY <1>0, <1>1 DEF NS, NWaitS, NShared, NX, NWaitX, NExclusive, NW, Count, At,
                    PendingS, OnePost, SharedCounts
<1>4. FQS(cw) = 1
  BY <1>0, <1>1, NotQuiesced DEF Sized
<1>5. ExclusiveCounts' /\ SharedCounts'
  BY <1>0, <1>1, <1>3, <1>4 DEF ExclusiveCounts, SharedCounts
<1>6. PICK w \in Thread : latch[w] \in Writer /\ At(Writer) = {w}
  <2>1. At(Writer) # {}
    <3>1. Count(Writer) = 1
      BY <1>0, <1>4 DEF SharedCounts, NW
    <3>2. QED
      BY <3>1, CountType
  <2>2. PICK w \in Thread : latch[w] \in Writer
    BY <2>1 DEF At
  <2>3. At(XOwner) = {w}
    BY <2>2, OneExclusive DEF XOwner, Writer
  <2>4. QED
    BY <2>2, <2>3 DEF At, XOwner, Writer
<1>7. latch[w] = "waitW"
  <2>1. SUFFICES ASSUME latch[w] = "W" PROVE FALSE
    BY <1>6 DEF Writer
  <2>2. QED
    BY <1>1, <2>1, WriteOwner
<1>8. /\ At({"W"}) = {} /\ At({"waitW"}) = {w} /\ Granted = cQS + dQ[w]
      /\ semW + Cardinality(postW) = IF dQ[w] = 0 /\ cQS = 0 THEN 1 ELSE 0
  BY <1>7, WaitingWriter
<1>9. /\ dQ[w] \in Int /\ cQS \in Int /\ semW \in Nat /\ Cardinality(postW) \in Nat
      /\ NS \in Nat /\ Cardinality(Leaving) \in Nat /\ semS \in Nat /\ PendingS \in Nat
  BY <1>0 DEF Sized, TypeOK
<1>10. dQ[w] # 0 => dQ[w] > 0 /\ cQS <= 0
  BY <1>0, <1>7 DEF WriterCounts
<1>11. /\ \A u \in Thread : u # t => dQ'[u] = dQ[u]
       /\ dQ'[t] = 0
  BY <1>0, <1>1 DEF TypeOK
<1>12. CASE dQ[t] = -1
  <2>1. t # w
    BY <1>7, <1>10, <1>12
  <2>2. Cardinality(Leaving') = Cardinality(Leaving) - 1 /\ Cardinality(Leaving) >= 1
    <3>1. Leaving' = Leaving \ {t} /\ t \in Leaving
      BY <1>0, <1>1, <1>12 DEF Leaving, TypeOK
    <3>2. IsFiniteSet(Leaving)
      BY ThreadAssumption, FS_Subset DEF Leaving
    <3>3. Cardinality(Leaving \ {t}) = Cardinality(Leaving) - 1
      BY <3>1, <3>2, FS_RemoveElement
    <3>4. Cardinality(Leaving) # 0
      BY <3>1, <3>2, FS_EmptySet
    <3>5. QED
      BY <1>9, <3>1, <3>3, <3>4
  <2>3. Granted' = Granted - 1 /\ Granted >= 1
    BY <1>1, <1>3, <1>9, <2>2 DEF Granted
  <2>4. semW + Cardinality(postW) = 0
    BY <1>8, <1>9, <2>3
  <2>5. semW' = 0 /\ Cardinality(postW)' = IF cQS' = 0 THEN 1 ELSE 0
    <3>1. semW = 0 /\ Cardinality(postW) = 0
      BY <1>9, <2>4
    <3>2. postW = {}
      BY <1>0, <3>1, ThreadAssumption, FS_Subset, FS_EmptySet DEF TypeOK
    <3>3. postW' = IF cQS' = 0 THEN {t} ELSE {}
      BY <1>1, <3>2
    <3>4. QED
      BY <1>1, <3>1, <3>3, FS_Singleton, FS_EmptySet
  <2>6. dQ'[w] = dQ[w] /\ cQS' = cQS - 1 /\ Granted' = cQS' + dQ'[w]
    BY <1>1, <1>8, <1>9, <1>11, <1>12, <2>1, <2>3
  <2>7. cQS' = 0 => dQ'[w] = 0
    BY <1>9, <1>10, <2>6
  <2>8. \A u \in Thread : dQ'[u] # 0 => \/ dQ'[u] = -1 /\ latch'[u] = "none"
                                        \/ dQ'[u] > 0 /\ latch'[u] = "waitW" /\ cQS' <= 0
    <3>1. ASSUME NEW u \in Thread, dQ'[u] # 0
          PROVE  \/ dQ[u] = -1 /\ latch[u] = "none"
                 \/ dQ[u] > 0 /\ latch[u] = "waitW" /\ cQS <= 0
      BY <1>0, <1>11, <3>1 DEF WriterCounts
    <3>2. QED
      BY <1>1, <1>9, <1>11, <2>6, <3>1
  <2>9. semW' + Cardinality(postW)' = IF \E u \in At({"waitW"})' : dQ'[u] = 0 /\ cQS' = 0
                                       THEN 1 ELSE 0
    BY <1>3, <1>8, <2>5, <2>7
  <2>10. WriterCounts'
    BY <1>3, <1>6, <1>8, <2>6, <2>8, <2>9 DEF WriterCounts
  <2>11. QED
    BY <1>2, <1>5, <2>10 DEF IInv, CountsAgree
<1>13. CASE dQ[t] # -1
  <2>1. dQ[t] > 0 /\ t = w
    <3>1. dQ[t] > 0 /\ latch[t] = "waitW"
      BY <1>0, <1>1, <1>13 DEF WriterCounts
    <3>2. QED
      BY <1>6, <3>1 DEF At, Writer
  <2>2. Leaving' = Leaving
    BY <1>0, <1>1, <1>13 DEF Leaving, TypeOK
  <2>3. Granted' = Granted
    BY <1>1, <1>3, <2>2 DEF Granted
  <2>4. semW' = 0 /\ Cardinality(postW)' = IF cQS' = 0 THEN 1 ELSE 0
    <3>1. semW = 0 /\ Cardinality(postW) = 0
      BY <1>8, <1>9, <2>1
    <3>2. postW = {}
      BY <1>0, <3>1, ThreadAssumption, FS_Subset, FS_EmptySet DEF TypeOK
    <3>3. postW' = IF cQS' = 0 THEN {t} ELSE {}
      BY <1>1, <3>2
    <3>4. QED
      BY <1>1, <3>1, <3>3, FS_Singleton, FS_EmptySet
  <2>5. Granted' = cQS' + dQ'[w]
    <3>1. cQS' = cQS + dQ[w] /\ dQ'[w] = 0
      BY <1>1, <1>11, <2>1
    <3>2. QED
      BY <1>8, <1>9, <2>3, <3>1
  <2>6. \A u \in Thread : dQ'[u] # 0 => dQ'[u] = -1 /\ latch'[u] = "none"
    BY <1>0, <1>1, <1>8, <1>11, <2>1 DEF WriterCounts, At
  <2>7. semW' + Cardinality(postW)' = IF \E u \in At({"waitW"})' : dQ'[u] = 0 /\ cQS' = 0
                                       THEN 1 ELSE 0
    BY <1>3, <1>8, <1>11, <2>1, <2>4
  <2>8. WriterCounts'
    BY <1>3, <1>6, <1>8, <2>5, <2>6, <2>7 DEF WriterCounts
  <2>9. QED
    BY <1>2, <1>5, <2>8 DEF IInv, CountsAgree
<1>14. QED
  BY <1>12, <1>13

\* The counts that a former writer owes reach m_semS.
LEMMA ReleaseSemSStep ==
  ASSUME IInv, NEW t \in Thread, ReleaseSemS(t)
  PROVE  IInv'
<1>0. TypeOK /\ ExclusiveCounts /\ SharedCounts /\ WriterCounts /\ Sized
  BY Numbers DEF IInv, CountsAgree
<1>1. /\ postS[t] # 0 /\ semS' = semS + postS[t] /\ postS' = [postS EXCEPT ![t] = 0]
      /\ cw' = cw /\ cQS' = cQS /\ semX' = semX /\ semW' = semW
      /\ latch' = latch /\ dQ' = dQ /\ postX' = postX /\ postW' = postW
  BY DEF ReleaseSemS
<1>2. TypeOK'
  BY <1>0, <1>1 DEF TypeOK
<1>3. /\ NS' = NS /\ NWaitS' = NWaitS /\ NShared' = NShared
      /\ NX' = NX /\ NWaitX' = NWaitX /\ NExclusive' = NExclusive /\ NW' = NW
      /\ At(Writer)' = At(Writer) /\ At({"W"})' = At({"W"}) /\ At({"waitW"})' = At({"waitW"})
      /\ Leaving' = Leaving
  BY <1>1 DEF NS, NWaitS, NShared, NX, NWaitX, NExclusive, NW, Count, At, Leaving
<1>4. PendingS = postS[t] /\ \A u \in Thread \ {t} : postS[u] = 0
  BY <1>0, <1>1, PendingValue DEF SharedCounts, OnePost
<1>5. OnePost' /\ PendingS' = 0
  BY <1>0, <1>1, <1>2, <1>4, PendingSet
<1>6. semS' + PendingS' = semS + PendingS /\ COOWS(cw) + semS' + PendingS' = COOWS(cw) + semS + PendingS
  BY <1>0, <1>1, <1>4, <1>5 DEF Sized
<1>7. Granted' = Granted
  BY <1>0, <1>1, <1>3, <1>4, <1>5 DEF Granted, Sized
<1>8. ExclusiveCounts' /\ SharedCounts'
  BY <1>0, <1>1, <1>3, <1>5, <1>6 DEF ExclusiveCounts, SharedCounts
<1>9. WriterCounts'
  BY <1>0, <1>1, <1>3, <1>7 DEF WriterCounts
<1>10. QED
  BY <1>2, <1>8, <1>9 DEF IInv, CountsAgree

\* The hand-over of the exclusive latch reaches m_semX.
LEMMA ReleaseSemXStep ==
  ASSUME IInv, NEW t \in Thread, ReleaseSemX(t)
  PROVE  IInv'
<1>0. TypeOK /\ ExclusiveCounts /\ SharedCounts /\ WriterCounts /\ Sized
  BY Numbers DEF IInv, CountsAgree
<1>1. /\ t \in postX /\ semX' = semX + 1 /\ postX' = postX \ {t}
      /\ cw' = cw /\ cQS' = cQS /\ semS' = semS /\ semW' = semW
      /\ latch' = latch /\ dQ' = dQ /\ postS' = postS /\ postW' = postW
  BY DEF ReleaseSemX
<1>2. TypeOK'
  BY <1>0, <1>1 DEF TypeOK
<1>3. /\ NS' = NS /\ NWaitS' = NWaitS /\ NShared' = NShared
      /\ NX' = NX /\ NWaitX' = NWaitX /\ NExclusive' = NExclusive /\ NW' = NW
      /\ At(Writer)' = At(Writer) /\ At({"W"})' = At({"W"}) /\ At({"waitW"})' = At({"waitW"})
      /\ Leaving' = Leaving /\ PendingS' = PendingS /\ OnePost'
  BY <1>0, <1>1 DEF NS, NWaitS, NShared, NX, NWaitX, NExclusive, NW, Count, At, Leaving,
                    PendingS, OnePost, SharedCounts
<1>4. Cardinality(postX') = Cardinality(postX) - 1
  <2>1. IsFiniteSet(postX)
    BY <1>0, ThreadAssumption, FS_Subset DEF TypeOK
  <2>2. QED
    BY <1>1, <2>1, FS_RemoveElement
<1>5. NX + semX' + Cardinality(postX') = NX + semX + Cardinality(postX)
  BY <1>0, <1>1, <1>4 DEF Sized
<1>6. Granted' = Granted
  BY <1>1, <1>3 DEF Granted
<1>7. ExclusiveCounts' /\ SharedCounts'
  BY <1>0, <1>1, <1>3, <1>5 DEF ExclusiveCounts, SharedCounts
<1>8. WriterCounts'
  BY <1>0, <1>1, <1>3, <1>6 DEF WriterCounts
<1>9. QED
  BY <1>2, <1>7, <1>8 DEF IInv, CountsAgree

\* The writer's wake-up reaches m_semW.
LEMMA ReleaseSemWStep ==
  ASSUME IInv, NEW t \in Thread, ReleaseSemW(t)
  PROVE  IInv'
<1>0. TypeOK /\ ExclusiveCounts /\ SharedCounts /\ WriterCounts /\ Sized
  BY Numbers DEF IInv, CountsAgree
<1>1. /\ t \in postW /\ semW' = semW + 1 /\ postW' = postW \ {t}
      /\ cw' = cw /\ cQS' = cQS /\ semS' = semS /\ semX' = semX
      /\ latch' = latch /\ dQ' = dQ /\ postS' = postS /\ postX' = postX
  BY DEF ReleaseSemW
<1>2. TypeOK'
  BY <1>0, <1>1 DEF TypeOK
<1>3. /\ NS' = NS /\ NWaitS' = NWaitS /\ NShared' = NShared
      /\ NX' = NX /\ NWaitX' = NWaitX /\ NExclusive' = NExclusive /\ NW' = NW
      /\ At(Writer)' = At(Writer) /\ At({"W"})' = At({"W"}) /\ At({"waitW"})' = At({"waitW"})
      /\ Leaving' = Leaving /\ PendingS' = PendingS /\ OnePost'
  BY <1>0, <1>1 DEF NS, NWaitS, NShared, NX, NWaitX, NExclusive, NW, Count, At, Leaving,
                    PendingS, OnePost, SharedCounts
<1>4. Cardinality(postW') = Cardinality(postW) - 1
  <2>1. IsFiniteSet(postW)
    BY <1>0, ThreadAssumption, FS_Subset DEF TypeOK
  <2>2. QED
    BY <1>1, <2>1, FS_RemoveElement
<1>5. semW' + Cardinality(postW') = semW + Cardinality(postW)
  BY <1>0, <1>1, <1>4 DEF Sized
<1>6. Granted' = Granted
  BY <1>1, <1>3 DEF Granted
<1>7. ExclusiveCounts' /\ SharedCounts'
  BY <1>0, <1>1, <1>3 DEF ExclusiveCounts, SharedCounts
<1>8. WriterCounts'
  BY <1>0, <1>1, <1>3, <1>5, <1>6 DEF WriterCounts
<1>9. QED
  BY <1>2, <1>7, <1>8 DEF IInv, CountsAgree

-----------------------------------------------------------------------------
(* The theorems *)

\* Initially nobody owns or waits, and every counter is zero.
LEMMA InitInv == Init => IInv
<1>1. SUFFICES ASSUME Init PROVE IInv
  OBVIOUS
<1>2. TypeOK
  BY <1>1 DEF Init, TypeOK
<1>3. \A M : "none" \notin M => At(M) = {} /\ Count(M) = 0
  BY <1>1, FS_EmptySet DEF Init, At, Count
<1>4. /\ NS = 0 /\ NWaitS = 0 /\ NShared = 0
      /\ NX = 0 /\ NWaitX = 0 /\ NExclusive = 0 /\ NW = 0
      /\ At(Writer) = {} /\ At({"W"}) = {} /\ At({"waitW"}) = {}
  BY <1>3 DEF NS, NWaitS, NShared, NX, NWaitX, NExclusive, NW, XOwner, Writer
<1>5. COOWS(cw) = 0 /\ FQS(cw) = 0 /\ COAWX(cw) = 0
  BY <1>1 DEF Init, COOWS, FQS, COAWX, FlagQS, OneX
<1>6. Leaving = {} /\ PendingS = 0 /\ OnePost
  BY <1>1 DEF Init, Leaving, PendingS, OnePost
<1>7. Cardinality(postX) = 0 /\ Cardinality(postW) = 0 /\ semS = 0 /\ semX = 0 /\ semW = 0 /\ cQS = 0
  BY <1>1, FS_EmptySet DEF Init
<1>8. ExclusiveCounts /\ SharedCounts
  BY <1>4, <1>5, <1>6, <1>7 DEF ExclusiveCounts, SharedCounts
<1>9. WriterCounts
  BY <1>1, <1>4, <1>7 DEF Init, WriterCounts
<1>10. QED
  BY <1>2, <1>8, <1>9 DEF IInv, CountsAgree

\* The steps that are special cases of others: an attempt that succeeds does
\* what the call that may wait does when it need not wait.
LEMMA TrySteps ==
  ASSUME IInv, NEW t \in Thread
  PROVE  /\ ErrTryAcquireSharedLatch(t) => ErrAcquireSharedLatch(t)
         /\ ErrTryAcquireExclusiveLatch(t) => ErrAcquireExclusiveLatch(t)
         /\ ErrTryUpgradeSharedLatchToWriteLatch(t) => ErrUpgradeSharedLatchToWriteLatch(t)
         /\ ErrTryUpgradeExclusiveLatchToWriteLatch(t) => ErrUpgradeExclusiveLatchToWriteLatch(t)
<1>0. TypeOK
  BY DEF IInv
<1>1. ErrTryAcquireSharedLatch(t) => ErrAcquireSharedLatch(t)
  BY DEF ErrTryAcquireSharedLatch, ErrAcquireSharedLatch
<1>2. ErrTryAcquireExclusiveLatch(t) => ErrAcquireExclusiveLatch(t)
  BY DEF ErrTryAcquireExclusiveLatch, ErrAcquireExclusiveLatch
<1>3. ASSUME ErrTryUpgradeSharedLatchToWriteLatch(t)
      PROVE  ErrUpgradeSharedLatchToWriteLatch(t)
  <2>1. cw = 1 /\ COAWX(cw) = 0
    BY <1>3 DEF ErrTryUpgradeSharedLatchToWriteLatch, OneS, COAWX, OneX
  <2>2. dQ' = [dQ EXCEPT ![t] = cw - 1]
    BY <1>0, <1>3, <2>1 DEF ErrTryUpgradeSharedLatchToWriteLatch, Owns, Idle, TypeOK, todo
  <2>3. QED
    BY <1>3, <2>1, <2>2 DEF ErrTryUpgradeSharedLatchToWriteLatch,
                            ErrUpgradeSharedLatchToWriteLatch, OneS, todo
<1>4. ASSUME ErrTryUpgradeExclusiveLatchToWriteLatch(t)
      PROVE  ErrUpgradeExclusiveLatchToWriteLatch(t)
  <2>1. cw = OneX /\ COAWX(cw) = 1 /\ COOWS(cw) = 0
    BY <1>4 DEF ErrTryUpgradeExclusiveLatchToWriteLatch, COAWX, COOWS, FlagQS, OneX
  <2>2. dQ' = [dQ EXCEPT ![t] = COOWS(cw)]
    BY <1>0, <1>4, <2>1 DEF ErrTryUpgradeExclusiveLatchToWriteLatch, Owns, Idle, TypeOK, todo
  <2>3. COAWX(cw) * OneX + FlagQS = OneX + FlagQS
    BY <2>1 DEF OneX, FlagQS
  <2>4. QED
    BY <1>4, <2>1, <2>2, <2>3 DEF ErrTryUpgradeExclusiveLatchToWriteLatch,
                                  ErrUpgradeExclusiveLatchToWriteLatch, todo
<1>5. QED
  BY <1>1, <1>2, <1>3, <1>4

\* Every step of the latch keeps its counters in agreement.
LEMMA NextInv == IInv /\ [Next]_vars => IInv'
<1>1. SUFFICES ASSUME IInv, [Next]_vars PROVE IInv'
  OBVIOUS
<1>2. CASE UNCHANGED vars
  BY <1>1, <1>2 DEF vars, IInv, TypeOK, CountsAgree, ExclusiveCounts, SharedCounts, WriterCounts,
                    NS, NWaitS, NShared, NX, NWaitX, NExclusive, NW, Count, At, Leaving,
                    PendingS, OnePost, Granted
<1>3. ASSUME NEW t \in Thread, Acquire(t) PROVE IInv'
  BY <1>1, <1>3, TrySteps, AcquireSharedStep, AcquireExclusiveStep, TryAcquireWriteStep DEF Acquire
<1>4. ASSUME NEW t \in Thread, Upgrade(t) PROVE IInv'
  BY <1>1, <1>4, TrySteps, SharedToExclusiveStep, SharedToWriteStep, ExclusiveToWriteStep DEF Upgrade
<1>5. ASSUME NEW t \in Thread, Downgrade(t) PROVE IInv'
  BY <1>1, <1>5, WriteToExclusiveStep, WriteToSharedStep, ExclusiveToSharedStep DEF Downgrade
<1>6. ASSUME NEW t \in Thread, ReleaseLatch(t) PROVE IInv'
  BY <1>1, <1>6, ReleaseWriteStep, ReleaseExclusiveStep, ReleaseSharedStep DEF ReleaseLatch
<1>7. ASSUME NEW t \in Thread, Finish(t) PROVE IInv'
  BY <1>1, <1>7, UpdateQuiescedStep, ReleaseSemSStep, ReleaseSemXStep, ReleaseSemWStep DEF Finish
<1>8. ASSUME NEW t \in Thread, Wait(t) PROVE IInv'
  BY <1>1, <1>8, WaitSharedStep, WaitExclusiveStep, WaitWriteStep DEF Wait
<1>9. QED
  BY <1>1, <1>2, <1>3, <1>4, <1>5, <1>6, <1>7, <1>8 DEF Next

\* The counters of the latch agree in every reachable state.
THEOREM CountsAgreeAlways == Spec => [](TypeOK /\ CountsAgree)
<1>1. Spec => []IInv
  BY InitInv, NextInv, PTL DEF Spec
<1>2. IInv => TypeOK /\ CountsAgree
  BY DEF IInv
<1>3. QED
  BY <1>1, <1>2, PTL

\* The counts leave no room for an owner beside a write owner, nor for two
\* exclusive owners.
LEMMA InvExcludes == IInv => MutualExclusion
<1>1. SUFFICES ASSUME IInv, NEW t \in Thread, NEW u \in Thread, t # u
               PROVE  /\ latch[t] = "W" => latch[u] \notin Owning
                      /\ latch[t] \in {"X", "waitW"} => latch[u] \notin {"X", "waitW", "W"}
  BY DEF MutualExclusion
<1>2. ASSUME latch[t] \in XOwner PROVE latch[u] \notin XOwner
  <2>1. At(XOwner) = {t}
    BY <1>1, <1>2, OneExclusive
  <2>2. QED
    BY <1>1, <2>1 DEF At
<1>3. ASSUME latch[t] = "W" PROVE latch[u] # "S"
  <2>1. NS = 0
    BY <1>1, <1>3, WriteOwner
  <2>2. At({"S"}) = {}
    BY <2>1, CountType DEF NS
  <2>3. QED
    BY <1>1, <2>2 DEF At
<1>4. QED
  BY <1>2, <1>3 DEF XOwner, Owning

\* The latch excludes what it promises to exclude: an owner never meets a write
\* owner, and there is at most one exclusive owner, for any number of threads.
THEOREM MutualExclusionAlways == Spec => []MutualExclusion
<1>1. Spec => []IInv
  BY InitInv, NextInv, PTL DEF Spec
<1>2. QED
  BY <1>1, InvExcludes, PTL

\* Every condition that AssertValid enforces holds wherever it is enforced.
LEMMA InvAsserts == IInv => AssertValid
<1>1. SUFFICES ASSUME IInv PROVE AssertValid
  OBVIOUS
<1>2. TypeOK /\ ExclusiveCounts /\ SharedCounts /\ WriterCounts /\ Sized
  BY <1>1, Numbers DEF IInv, CountsAgree
<1>3. COOWS(cw) # 32767 /\ COAWX(cw) < 65535
  BY <1>2 DEF Sized, ExclusiveCounts
<1>4. ASSUME NEW t \in Thread, latch[t] \in {"X", "W", "waitW"}
      PROVE  COAWX(cw) # 0 /\ (latch[t] \in {"W", "waitW"} => FQS(cw) = 1)
  <2>1. COAWX(cw) > 0 /\ (FQS(cw) = 1 <=> latch[t] \in Writer)
    BY <1>1, <1>4, OneExclusive DEF XOwner
  <2>2. QED
    BY <1>2, <2>1 DEF Writer, Sized
<1>5. ASSUME NEW t \in Thread, latch[t] = "waitX"
      PROVE  COAWX(cw) # 0
  <2>1. t \in At({"waitX"} \cup XOwner)
    BY <1>5 DEF At
  <2>2. Count({"waitX"} \cup XOwner) # 0
    BY <2>1, CountType
  <2>3. QED
    BY <1>2, <2>2 DEF ExclusiveCounts, NExclusive
<1>6. ASSUME NEW t \in Thread, dQ[t] # 0 \/ t \in postW
      PROVE  FQS(cw) = 1
  <2>1. SUFFICES ASSUME FQS(cw) = 0 PROVE FALSE
    BY <1>2 DEF Sized
  <2>2. dQ[t] = 0 /\ Cardinality(postW) = 0
    BY <1>1, <2>1, NotQuiesced
  <2>3. postW = {}
    BY <1>2, <2>2, ThreadAssumption, FS_Subset, FS_EmptySet DEF TypeOK
  <2>4. QED
    BY <1>6, <2>2, <2>3
<1>7. QED
  BY <1>3, <1>4, <1>5, <1>6 DEF AssertValid

\* No enforced assertion of the latch can fire.
THEOREM AssertValidAlways == Spec => []AssertValid
<1>1. Spec => []IInv
  BY InitInv, NextInv, PTL DEF Spec
<1>2. QED
  BY <1>1, InvAsserts, PTL

\* A semaphore's counts, present and due, are for waiters that exist.
LEMMA InvNoSpare == IInv => NoSpareCount
<1>1. SUFFICES ASSUME IInv PROVE NoSpareCount
  OBVIOUS
<1>2. ExclusiveCounts /\ SharedCounts /\ WriterCounts /\ Sized
  BY <1>1, Numbers DEF IInv, CountsAgree
<1>3. semS + PendingS <= NWaitS
  <2>1. CASE FQS(cw) = 0
    BY <1>1, <1>2, <2>1, NotQuiesced DEF Sized
  <2>2. CASE FQS(cw) = 1
    <3>1. COOWS(cw) + semS + PendingS = NWaitS
      BY <1>2, <2>2 DEF SharedCounts
    <3>2. COOWS(cw) \in Nat /\ semS \in Nat /\ PendingS \in Nat
      BY <1>2 DEF Sized
    <3>3. QED
      BY <3>1, <3>2
  <2>3. QED
    BY <1>2, <2>1, <2>2 DEF Sized
<1>4. semX + Cardinality(postX) <= NWaitX
  <2>1. NX \in Nat /\ NWaitX \in Nat /\ semX \in Nat /\ Cardinality(postX) \in Nat
    BY <1>2 DEF Sized
  <2>2. /\ COAWX(cw) = NWaitX + NX
        /\ NX + semX + Cardinality(postX) = IF COAWX(cw) = 0 THEN 0 ELSE 1
    BY <1>2 DEF ExclusiveCounts
  <2>3. QED
    BY <2>1, <2>2
<1>5. semW + Cardinality(postW) <= Count({"waitW"})
  <2>1. CASE At({"waitW"}) = {}
    <3>1. semW + Cardinality(postW) = 0
      BY <1>2, <2>1 DEF WriterCounts
    <3>2. QED
      BY <3>1, CountType
  <2>2. CASE At({"waitW"}) # {}
    <3>1. Count({"waitW"}) \in Nat /\ Count({"waitW"}) # 0
      BY <2>2, CountType
    <3>2. semW + Cardinality(postW) \in {0, 1}
      BY <1>2 DEF WriterCounts
    <3>3. QED
      BY <3>1, <3>2
  <2>3. QED
    BY <2>1, <2>2
<1>6. QED
  BY <1>3, <1>4, <1>5 DEF NoSpareCount

\* No semaphore ever holds a count that a later waiter could take without
\* having been granted the latch.
THEOREM NoSpareCountAlways == Spec => []NoSpareCount
<1>1. Spec => []IInv
  BY InitInv, NextInv, PTL DEF Spec
<1>2. QED
  BY <1>1, InvNoSpare, PTL

\* A declared waiter always has an owner, a count or a count that is due to
\* wait for.
LEMMA InvNoLost == IInv => NoLostWakeup
<1>1. SUFFICES ASSUME IInv PROVE NoLostWakeup
  OBVIOUS
<1>2. TypeOK /\ ExclusiveCounts /\ SharedCounts /\ WriterCounts /\ Sized
  BY <1>1, Numbers DEF IInv, CountsAgree
<1>3. ASSUME At({"waitX"}) # {}
      PROVE  At(XOwner) # {} \/ postX # {} \/ semX > 0
  <2>1. SUFFICES ASSUME At(XOwner) = {}, postX = {} PROVE semX > 0
    OBVIOUS
  <2>2. NWaitX # 0 /\ NX = 0 /\ Cardinality(postX) = 0
    BY <1>3, <2>1, CountType, FS_EmptySet DEF NWaitX, NX
  <2>3. NWaitX \in Nat /\ semX \in Nat
    BY <1>2 DEF Sized
  <2>4. /\ COAWX(cw) = NWaitX + NX
        /\ NX + semX + Cardinality(postX) = IF COAWX(cw) = 0 THEN 0 ELSE 1
    BY <1>2 DEF ExclusiveCounts
  <2>5. QED
    BY <2>2, <2>3, <2>4
<1>4. ASSUME At({"waitS"}) # {}
      PROVE  At(Writer) # {} \/ PendingS > 0 \/ semS > 0
  <2>1. NWaitS # 0
    BY <1>4, CountType DEF NWaitS
  <2>2. CASE FQS(cw) = 0
    <3>1. NWaitS = semS + PendingS /\ semS \in Nat /\ PendingS \in Nat
      BY <1>1, <1>2, <2>2, NotQuiesced DEF Sized
    <3>2. QED
      BY <2>1, <3>1
  <2>3. CASE FQS(cw) = 1
    <3>1. Count(Writer) = 1
      BY <1>2, <2>3 DEF SharedCounts, NW
    <3>2. QED
      BY <3>1, CountType
  <2>4. QED
    BY <1>2, <2>2, <2>3 DEF Sized
<1>5. ASSUME At({"waitW"}) # {}
      PROVE  Granted > 0 \/ postW # {} \/ semW > 0 \/ \E t \in At({"waitW"}) : dQ[t] # 0
  <2>1. PICK t \in Thread : latch[t] = "waitW" /\ t \in At({"waitW"})
    BY <1>5 DEF At
  <2>2. /\ Granted = cQS + dQ[t]
        /\ semW + Cardinality(postW) = IF dQ[t] = 0 /\ cQS = 0 THEN 1 ELSE 0
    BY <1>1, <2>1, WaitingWriter
  <2>3. SUFFICES ASSUME dQ[t] = 0, postW = {}, semW = 0 PROVE Granted > 0
    BY <1>2, <2>1 DEF Sized
  <2>4. cQS # 0
    BY <2>2, <2>3, FS_EmptySet
  <2>5. cQS \in Int /\ NS \in Nat /\ Cardinality(Leaving) \in Nat /\ semS \in Nat /\ PendingS \in Nat
    BY <1>2 DEF Sized
  <2>6. Granted >= 0
    BY <2>5 DEF Granted
  <2>7. QED
    BY <2>2, <2>3, <2>4, <2>5, <2>6
<1>6. QED
  BY <1>3, <1>4, <1>5 DEF NoLostWakeup

\* No wake-up is lost, for any number of threads.
THEOREM NoLostWakeupAlways == Spec => []NoLostWakeup
<1>1. Spec => []IInv
  BY InitInv, NextInv, PTL DEF Spec
<1>2. QED
  BY <1>1, InvNoLost, PTL

-----------------------------------------------------------------------------
(* Quiescence drains *)

\* A step of a thread that owns no shared latch, grants none and takes none
\* from m_semS keeps the number of shared latches that are out.
LEMMA GrantedKept ==
  ASSUME IInv, NEW t \in Thread, NEW m0 \in Modes \ {"S"}, NEW m \in Modes \ {"S"},
         Move(t, m0, m), Leaving' = Leaving, semS' = semS, PendingS' = PendingS
  PROVE  Granted' = Granted
<1>1. NS' = NS + Gain(m0, m, {"S"}) /\ NS \in Nat
  BY Moved, Numbers DEF IInv, Sized
<1>2. Gain(m0, m, {"S"}) = 0
  BY DEF Gain
<1>3. NS' = NS
  BY <1>1, <1>2
<1>4. QED
  BY <1>3 DEF Granted

\* While shared latches stay quiesced no acquisition lets a shared latch out.
LEMMA AcquireDrains ==
  ASSUME IInv, NEW t \in Thread, Acquire(t), FQS(cw) = 1, FQS(cw)' = 1
  PROVE  Granted' <= Granted
<1>0. TypeOK /\ Sized /\ Granted \in Int
  BY Numbers DEF IInv, Sized, Granted
<1>1. CASE ErrAcquireSharedLatch(t)
  <2>1. Move(t, "none", "waitS") /\ Leaving' = Leaving /\ semS' = semS /\ PendingS' = PendingS
    BY <1>1 DEF ErrAcquireSharedLatch, Owns, Become, Move, sems, todo, Leaving, PendingS
  <2>2. QED
    BY <1>0, <2>1, GrantedKept DEF Modes, Owning, Waiting
<1>2. CASE ErrAcquireExclusiveLatch(t)
  <2>1. /\ Move(t, "none", "waitX") \/ Move(t, "none", "X")
        /\ Leaving' = Leaving /\ semS' = semS /\ PendingS' = PendingS
    BY <1>2 DEF ErrAcquireExclusiveLatch, Owns, Become, Move, sems, todo, Leaving, PendingS
  <2>2. QED
    BY <1>0, <2>1, GrantedKept DEF Modes, Owning, Waiting
<1>3. CASE ErrTryAcquireWriteLatch(t)
  <2>1. FQS(cw) = 0
    BY <1>3 DEF ErrTryAcquireWriteLatch, FQS, FlagQS
  <2>2. QED
    BY <2>1
<1>4. QED
  BY <1>1, <1>2, <1>3, TrySteps DEF Acquire

\* Nor does an upgrade: only one of the exclusive owner could, and it is the
\* writer already.
LEMMA UpgradeDrains ==
  ASSUME IInv, NEW t \in Thread, Upgrade(t), FQS(cw) = 1
  PROVE  FALSE
<1>1. ErrUpgradeSharedLatchToExclusiveLatch(t) => COAWX(cw) = 0
  BY DEF ErrUpgradeSharedLatchToExclusiveLatch
<1>2. ErrUpgradeSharedLatchToWriteLatch(t) => COAWX(cw) = 0
  BY DEF ErrUpgradeSharedLatchToWriteLatch
<1>3. ErrUpgradeExclusiveLatchToWriteLatch(t) => latch[t] = "X"
  BY DEF ErrUpgradeExclusiveLatchToWriteLatch, Owns
<1>4. COAWX(cw) # 0
  BY NoExclusive
<1>5. latch[t] # "X"
  BY OneExclusive DEF XOwner, Writer
<1>6. QED
  BY <1>1, <1>2, <1>3, <1>4, <1>5, TrySteps DEF Upgrade

\* A downgrade of the write latch ends the quiescence, and the exclusive latch
\* of a downgrade is not quiescing.
LEMMA DowngradeDrains ==
  ASSUME IInv, NEW t \in Thread, Downgrade(t) \/ ReleaseWriteLatch(t) \/ ReleaseExclusiveLatch(t),
         FQS(cw) = 1
  PROVE  FQS(cw)' # 1
<1>0. cw \in Nat
  BY DEF IInv, TypeOK
<1>1. CASE latch[t] = "X"
  BY <1>1, OneExclusive DEF XOwner, Writer
<1>2. CASE latch[t] = "W"
  <2>1. COAWX(cw) > 0 /\ Sized
    BY <1>2, OneExclusive, Numbers DEF XOwner
  <2>2. \/ cw' = cw - FlagQS
        \/ cw' = cw - FlagQS - OneX
        \/ cw' = cw - FlagQS - OneX + OneS
    BY <1>2 DEF Downgrade, DowngradeWriteLatchToExclusiveLatch, DowngradeWriteLatchToSharedLatch,
                DowngradeExclusiveLatchToSharedLatch, ReleaseWriteLatch, ReleaseExclusiveLatch, Owns
  <2>3. QED
    BY <1>0, <2>1, <2>2 DEF Sized, COOWS, FQS, COAWX, OneS, FlagQS, OneX
<1>3. QED
  BY <1>1, <1>2 DEF Downgrade, DowngradeWriteLatchToExclusiveLatch,
                    DowngradeWriteLatchToSharedLatch, DowngradeExclusiveLatchToSharedLatch,
                    ReleaseWriteLatch, ReleaseExclusiveLatch, Owns

\* A shared owner that leaves while shared latches are quiesced is counted as
\* leaving in its place.
LEMMA ReleaseSharedDrains ==
  ASSUME IInv, NEW t \in Thread, ReleaseSharedLatch(t), FQS(cw) = 1
  PROVE  Granted' = Granted
<1>0. TypeOK /\ Sized
  BY Numbers DEF IInv
<1>1. Move(t, "S", "none") /\ dQ[t] = 0
  BY DEF ReleaseSharedLatch, Become, Owns, Idle, Move
<1>2. NS' = NS - 1
  BY <1>0, <1>1, Moved DEF Sized, Gain, Modes, Owning, Waiting
<1>3. Cardinality(Leaving') = Cardinality(Leaving) + 1
  <2>1. dQ' = [dQ EXCEPT ![t] = -1]
    BY DEF ReleaseSharedLatch
  <2>2. Leaving' = Leaving \cup {t} /\ t \notin Leaving
    BY <1>0, <1>1, <2>1 DEF Leaving, TypeOK
  <2>3. IsFiniteSet(Leaving)
    BY ThreadAssumption, FS_Subset DEF Leaving
  <2>4. QED
    BY <2>2, <2>3, FS_AddElement
<1>4. PendingS' = PendingS /\ semS' = semS
  BY DEF ReleaseSharedLatch, sems, PendingS
<1>5. QED
  BY <1>0, <1>2, <1>3, <1>4 DEF Granted, Sized

\* What an operation has left to do lets no shared latch out either: a leaving
\* owner is gone when m_cQS is updated, and counts that are due to m_semS are
\* as many when they get there.
LEMMA FinishDrains ==
  ASSUME IInv, NEW t \in Thread, Finish(t)
  PROVE  Granted' <= Granted
<1>0. TypeOK /\ SharedCounts /\ Sized /\ Granted \in Int
  BY Numbers DEF IInv, CountsAgree, Sized, Granted
<1>1. NS' = NS
  BY DEF Finish, _UpdateQuiescedSharedLatchCount, ReleaseSemS, ReleaseSemX, ReleaseSemW, NS, Count, At
<1>2. CASE _UpdateQuiescedSharedLatchCount(t)
  <2>1. dQ' = [dQ EXCEPT ![t] = 0] /\ semS' = semS /\ PendingS' = PendingS
    BY <1>2 DEF _UpdateQuiescedSharedLatchCount, sems, PendingS
  <2>2. Leaving' \subseteq Leaving /\ IsFiniteSet(Leaving)
    BY <1>0, <2>1, ThreadAssumption, FS_Subset DEF Leaving, TypeOK
  <2>3. Cardinality(Leaving') <= Cardinality(Leaving) /\ Cardinality(Leaving') \in Nat
    BY <2>2, FS_Subset, FS_CardinalityType
  <2>4. QED
    BY <1>0, <1>1, <2>1, <2>3 DEF Granted, Sized
<1>3. CASE ReleaseSemS(t)
  <2>1. /\ postS[t] # 0 /\ semS' = semS + postS[t] /\ postS' = [postS EXCEPT ![t] = 0]
        /\ Leaving' = Leaving
    BY <1>3 DEF ReleaseSemS, Leaving
  <2>2. PendingS = postS[t] /\ \A u \in Thread \ {t} : postS[u] = 0
    BY <1>0, <2>1, PendingValue DEF SharedCounts, OnePost
  <2>3. TypeOK'
    BY <1>3, ReleaseSemSStep DEF IInv
  <2>4. PendingS' = 0
    BY <1>0, <2>1, <2>2, <2>3, PendingSet
  <2>5. QED
    BY <1>0, <1>1, <2>1, <2>2, <2>4 DEF Granted, Sized
<1>4. CASE ReleaseSemX(t) \/ ReleaseSemW(t)
  <2>1. Leaving' = Leaving /\ PendingS' = PendingS /\ semS' = semS
    BY <1>4 DEF ReleaseSemX, ReleaseSemW, Leaving, PendingS
  <2>2. QED
    BY <1>0, <1>1, <2>1 DEF Granted
<1>5. QED
  BY <1>2, <1>3, <1>4 DEF Finish

\* A waiter that takes a count takes a latch that was out already.
LEMMA WaitDrains ==
  ASSUME IInv, NEW t \in Thread, Wait(t)
  PROVE  Granted' <= Granted
<1>0. TypeOK /\ Sized /\ Granted \in Int
  BY Numbers DEF IInv, Sized, Granted
<1>1. Leaving' = Leaving /\ PendingS' = PendingS
  BY DEF Wait, WaitForSharedLatch, WaitForExclusiveLatch, WaitForWriteLatch, todo, Leaving, PendingS
<1>2. CASE WaitForSharedLatch(t)
  <2>1. Move(t, "waitS", "S") /\ semS' = semS - 1
    BY <1>2 DEF WaitForSharedLatch, Become, Owns, Move
  <2>2. NS' = NS + 1
    BY <1>0, <2>1, Moved DEF Sized, Gain, Modes, Owning, Waiting
  <2>3. QED
    BY <1>0, <1>1, <2>1, <2>2 DEF Granted, Sized
<1>3. CASE WaitForExclusiveLatch(t) \/ WaitForWriteLatch(t)
  <2>1. (Move(t, "waitX", "X") \/ Move(t, "waitW", "W")) /\ semS' = semS
    BY <1>3 DEF WaitForExclusiveLatch, WaitForWriteLatch, Become, Owns, Move
  <2>2. QED
    BY <1>0, <1>1, <2>1, GrantedKept DEF Modes, Owning, Waiting
<1>4. QED
  BY <1>2, <1>3 DEF Wait

\* While shared latches stay quiesced the shared latches that are out only get
\* fewer, for any number of threads, so the writer waits for a fixed set of
\* owners.
THEOREM QuiescenceDrainsAlways == Spec => QuiescenceDrains
<1>1. Spec => []IInv
  BY InitInv, NextInv, PTL DEF Spec
<1>2. IInv /\ [Next]_vars => [FQS(cw) = 1 /\ FQS(cw)' = 1 => Granted' <= Granted]_vars
  <2>1. SUFFICES ASSUME IInv, Next, FQS(cw) = 1, FQS(cw)' = 1
                 PROVE  Granted' <= Granted
    OBVIOUS
  <2>2. Granted \in Int
    BY <2>1, Numbers DEF Sized, Granted
  <2>3. QED
    BY <2>1, <2>2, AcquireDrains, UpgradeDrains, DowngradeDrains, ReleaseSharedDrains,
       FinishDrains, WaitDrains DEF Next, ReleaseLatch
<1>3. QED
  BY <1>1, <1>2, PTL DEF Spec, QuiescenceDrains

-----------------------------------------------------------------------------
(* The latch its clients see *)

\* Every step moves at most one thread from one mode to another.
LEMMA OneMover ==
  ASSUME TypeOK, Next
  PROVE  \E t \in Thread, m \in Modes : latch' = [latch EXCEPT ![t] = m]
<1>1. PICK t \in Thread : \/ Acquire(t) \/ Upgrade(t) \/ Downgrade(t)
                          \/ ReleaseLatch(t) \/ Finish(t) \/ Wait(t)
  BY DEF Next
<1>2. CASE Finish(t)
  <2>1. latch' = latch
    BY <1>2 DEF Finish, _UpdateQuiescedSharedLatchCount, ReleaseSemS, ReleaseSemX, ReleaseSemW
  <2>2. latch' = [latch EXCEPT ![t] = latch[t]] /\ latch[t] \in Modes
    BY <2>1 DEF TypeOK, Modes
  <2>3. QED
    BY <2>2
<1>3. CASE ~Finish(t)
  <2>1. \E m \in Modes : Become(t, m)
    <3>1. CASE Acquire(t)
      BY <3>1 DEF Acquire, ErrAcquireSharedLatch, ErrTryAcquireSharedLatch, ErrAcquireExclusiveLatch,
                  ErrTryAcquireExclusiveLatch, ErrTryAcquireWriteLatch, Modes, Owning, Waiting
    <3>2. CASE Upgrade(t)
      BY <3>2 DEF Upgrade, ErrUpgradeSharedLatchToExclusiveLatch, ErrUpgradeSharedLatchToWriteLatch,
                  ErrUpgradeExclusiveLatchToWriteLatch, ErrTryUpgradeSharedLatchToWriteLatch,
                  ErrTryUpgradeExclusiveLatchToWriteLatch, Modes, Owning, Waiting
    <3>3. CASE Downgrade(t) \/ ReleaseLatch(t)
      BY <3>3 DEF Downgrade, ReleaseLatch, DowngradeWriteLatchToExclusiveLatch,
                  DowngradeWriteLatchToSharedLatch, DowngradeExclusiveLatchToSharedLatch,
                  ReleaseWriteLatch, ReleaseExclusiveLatch, ReleaseSharedLatch, Modes, Owning, Waiting
    <3>4. CASE Wait(t)
      BY <3>4 DEF Wait, WaitForSharedLatch, WaitForExclusiveLatch, WaitForWriteLatch,
                  Modes, Owning, Waiting
    <3>5. QED
      BY <1>1, <1>3, <3>1, <3>2, <3>3, <3>4
  <2>2. QED
    BY <2>1 DEF Become
<1>4. QED
  BY <1>2, <1>3

\* The modes of any two threads, as their clients see them, are compatible.
Coexist == \A t \in Thread : \A u \in Thread \ {t} :
              Client!Compatible(Mode(latch[t]), Mode(latch[u]))

\* Mutual exclusion is compatibility of the modes that clients see.
LEMMA ModesCompatible == TypeOK /\ MutualExclusion => Coexist
<1>0. SUFFICES ASSUME TypeOK, MutualExclusion, NEW t \in Thread, NEW u \in Thread \ {t}
               PROVE  Client!Compatible(Mode(latch[t]), Mode(latch[u]))
  BY DEF Coexist
<1>1. latch[t] \in Modes /\ latch[u] \in Modes
  BY <1>0 DEF TypeOK, Modes
<1>2. /\ latch[t] = "W" => latch[u] \notin {"S", "X", "W"}
      /\ latch[u] = "W" => latch[t] \notin {"S", "X", "W"}
      /\ latch[t] \in {"X", "waitW"} => latch[u] \notin {"X", "waitW", "W"}
      /\ latch[u] \in {"X", "waitW"} => latch[t] \notin {"X", "waitW", "W"}
  BY <1>0 DEF MutualExclusion, Owning
<1>3. QED
  BY <1>1, <1>2 DEF Client!Compatible, Mode, Modes, Owning, Waiting

\* A step of the latch is a change of one thread's mode to one that is
\* compatible with all others, or changes no mode at all.
LEMMA ClientStep ==
  ASSUME IInv, IInv', [Next]_vars
  PROVE  [Client!Next]_[t \in Thread |-> Mode(latch[t])]
<1>1. CASE UNCHANGED vars
  BY <1>1 DEF vars
<1>2. CASE Next
  <2>0. TypeOK /\ TypeOK' /\ MutualExclusion'
    <3>1. MutualExclusion'
      BY InvExcludes, PTL
    <3>2. QED
      BY <3>1 DEF IInv
  <2>1. PICK t \in Thread, m \in Modes : latch' = [latch EXCEPT ![t] = m]
    BY <1>2, <2>0, OneMover
  <2>2. /\ latch'[t] = m
        /\ \A u \in Thread \ {t} : latch'[u] = latch[u]
    BY <2>0, <2>1 DEF TypeOK
  <2>3. [u \in Thread |-> Mode(latch'[u])]
          = [[u \in Thread |-> Mode(latch[u])] EXCEPT ![t] = Mode(m)]
    BY <2>2
  <2>4. ASSUME NEW u \in Thread \ {t}
        PROVE  Client!Compatible(Mode(m), Mode(latch[u]))
    <3>1. Coexist'
      BY <2>0, ModesCompatible, PTL
    <3>2. QED
      BY <2>2, <3>1 DEF Coexist
  <2>5. Mode(m) \in Client!Modes
    BY <2>1 DEF Mode, Modes, Owning, Waiting, Client!Modes
  <2>6. Client!Change(t, Mode(m))
    BY <2>3, <2>4 DEF Client!Change
  <2>7. QED
    BY <2>5, <2>6 DEF Client!Next
<1>3. QED
  BY <1>1, <1>2

\* The latch implements the one its clients program against: the counters and
\* the hand-overs through semaphores are invisible, for any number of threads.
THEOREM LatchImplemented == Spec => ImplementsLatch
<1>1. Spec => []IInv
  BY InitInv, NextInv, PTL DEF Spec
<1>2. Init => Client!Init
  BY DEF Init, Client!Init, Mode
<1>3. IInv /\ IInv' /\ [Next]_vars => [Client!Next]_[t \in Thread |-> Mode(latch[t])]
  BY ClientStep
<1>4. QED
  BY <1>1, <1>2, <1>3, PTL DEF Spec, ImplementsLatch, Client!Spec

-----------------------------------------------------------------------------
(* Counting threads *)

One(p) == IF p THEN 1 ELSE 0

\* A set that only one thread may have joined or left.
LEMMA Recount ==
    ASSUME NEW A \in SUBSET Thread, NEW B \in SUBSET Thread, NEW t \in Thread,
           \A u \in Thread \ {t} : u \in A <=> u \in B
    PROVE  /\ Cardinality(A) \in Nat /\ Cardinality(B) \in Nat
           /\ Cardinality(B) = Cardinality(A) - One(t \in A) + One(t \in B)
<1>1. IsFiniteSet(A) /\ IsFiniteSet(B)
  BY ThreadAssumption, FS_Subset
<1>2. Cardinality(A) \in Nat /\ Cardinality(B) \in Nat
  BY <1>1, FS_CardinalityType
<1>3. CASE t \in A /\ t \in B
  <2>1. A = B
    BY <1>3
  <2> QED
    BY <1>2, <1>3, <2>1 DEF One
<1>4. CASE t \notin A /\ t \notin B
  <2>1. A = B
    BY <1>4
  <2> QED
    BY <1>2, <1>4, <2>1 DEF One
<1>5. CASE t \in A /\ t \notin B
  <2>1. B = A \ {t}
    BY <1>5
  <2>2. Cardinality(B) = Cardinality(A) - 1
    BY <1>1, <1>5, <2>1, FS_RemoveElement
  <2> QED
    BY <1>2, <1>5, <2>2 DEF One
<1>6. CASE t \notin A /\ t \in B
  <2>1. B = A \cup {t}
    BY <1>6
  <2>2. Cardinality(B) = Cardinality(A) + 1
    BY <1>1, <1>6, <2>1, FS_AddElement
  <2> QED
    BY <1>2, <1>6, <2>2 DEF One
<1> QED
  BY <1>2, <1>3, <1>4, <1>5, <1>6

\* A count is zero if there is no such thread.
LEMMA CountZero ==
    ASSUME NEW A \in SUBSET Thread
    PROVE  Cardinality(A) \in Nat /\ (Cardinality(A) = 0 <=> A = {})
<1>1. IsFiniteSet(A)
  BY ThreadAssumption, FS_Subset
<1> QED
  BY <1>1, FS_CardinalityType, FS_EmptySet

\* Two threads in a set make a count of two.
LEMMA CountTwo ==
    ASSUME NEW A \in SUBSET Thread, NEW t \in A, NEW u \in A, t # u
    PROVE  Cardinality(A) >= 2
<1>1. IsFiniteSet(A) /\ IsFiniteSet({t, u})
  BY ThreadAssumption, FS_Subset
<1>2. Cardinality({t, u}) = 2
  <2>1. Cardinality({t}) = 1 /\ IsFiniteSet({t})
    BY FS_Singleton
  <2>2. {t, u} = {t} \cup {u} /\ u \notin {t}
    OBVIOUS
  <2> QED
    BY <2>1, <2>2, FS_AddElement
<1>3. Cardinality({t, u}) <= Cardinality(A)
  <2>1. {t, u} \subseteq A
    OBVIOUS
  <2> QED
    BY <1>1, <2>1, FS_Subset
<1> QED
  BY <1>2, <1>3

-----------------------------------------------------------------------------
(* The one thread that has some work to do *)

\* At most one thread has work of S to do, and x is that work if there is one.
Sole(f, S, x) ==
    IF x \in S THEN \E h \in Thread : f[h] = x /\ \A u \in Thread \ {h} : f[u] \notin S
               ELSE \A u \in Thread : f[u] \notin S

\* A thread that has such work is the one, and has x to do.
LEMMA SoleIs ==
    ASSUME NEW f, NEW S, NEW x, Sole(f, S, x), NEW t \in Thread, f[t] \in S
    PROVE  x \in S /\ f[t] = x /\ \A u \in Thread \ {t} : f[u] \notin S
BY DEF Sole

\* A thread turns from work that is not of S to work that is not either.
LEMMA SoleSame ==
    ASSUME NEW W, NEW f \in [Thread -> W], NEW S, NEW x, Sole(f, S, x),
           NEW t \in Thread, NEW y, f[t] \notin S, y \notin S
    PROVE  Sole([f EXCEPT ![t] = y], S, x)
<1> DEFINE g == [f EXCEPT ![t] = y]
<1>1. g[t] = y /\ \A u \in Thread \ {t} : g[u] = f[u]
  OBVIOUS
<1> HIDE DEF g
<1>2. CASE x \in S
  <2>1. PICK h \in Thread : f[h] = x /\ \A u \in Thread \ {h} : f[u] \notin S
    BY <1>2 DEF Sole
  <2>2. h # t /\ g[h] = x
    BY <1>1, <1>2, <2>1
  <2>3. \A u \in Thread \ {h} : g[u] \notin S
    BY <1>1, <2>1
  <2> QED
    BY <1>2, <2>2, <2>3 DEF Sole, g
<1>3. CASE x \notin S
  <2>1. \A u \in Thread : g[u] \notin S
    BY <1>1, <1>3 DEF Sole
  <2> QED
    BY <1>3, <2>1 DEF Sole, g
<1> QED
  BY <1>2, <1>3

\* The thread with work of S goes on to other work of S.
LEMMA SoleNext ==
    ASSUME NEW W, NEW f \in [Thread -> W], NEW S, NEW x, Sole(f, S, x),
           NEW t \in Thread, NEW y, f[t] \in S \/ x \notin S, y \in S
    PROVE  Sole([f EXCEPT ![t] = y], S, y)
<1> DEFINE g == [f EXCEPT ![t] = y]
<1>1. g[t] = y /\ \A u \in Thread \ {t} : g[u] = f[u]
  OBVIOUS
<1> HIDE DEF g
<1>2. \A u \in Thread \ {t} : g[u] \notin S
  <2>1. CASE f[t] \in S
    BY <1>1, <2>1, SoleIs
  <2>2. CASE x \notin S
    BY <1>1, <2>2 DEF Sole
  <2> QED
    BY <2>1, <2>2
<1> QED
  BY <1>1, <1>2 DEF Sole, g

\* The thread with work of S is done with it.
LEMMA SoleGone ==
    ASSUME NEW W, NEW f \in [Thread -> W], NEW S, NEW x, Sole(f, S, x),
           NEW t \in Thread, NEW y, f[t] \in S, y \notin S, NEW z, z \notin S
    PROVE  Sole([f EXCEPT ![t] = y], S, z)
<1> DEFINE g == [f EXCEPT ![t] = y]
<1>1. g[t] = y /\ \A u \in Thread \ {t} : g[u] = f[u]
  OBVIOUS
<1> HIDE DEF g
<1>2. \A u \in Thread : g[u] \notin S
  BY <1>1, SoleIs
<1> QED
  BY <1>2 DEF Sole, g

-----------------------------------------------------------------------------
(* The reader / writer lock: its numbers *)

MoveOps == {"moveReaders", "moveWriter"}
TakeOps == {"takeReaders", "takeWriter"}
PostOps == {"postReaders", "postWriter"}
AddOps == {"addAsReader", "addAsWriter"}
HelpOps == TakeOps \cup MoveOps \cup PostOps

\* Counts that a thread which hands over has yet to give to readers, to a
\* writer, and to m_cOwner.
ToReaders(hop, hn) == IF hop \in {"moveReaders", "postReaders"} THEN hn ELSE 0
ToWriter(hop, hn) == IF hop \in {"moveWriter", "postWriter"} THEN hn ELSE 0
ToOwners(hop, hn) == IF hop \in MoveOps THEN hn ELSE 0

RWTypes(q, r, w, own, sr, sw, nR, nW, nwR, nwW, lR, lW, hop, hn, dop, dn) ==
    /\ q \in {"free", "readers", "writer", "both"}
    /\ r \in Nat /\ w \in Nat /\ own \in Int /\ sr \in Nat /\ sw \in Nat
    /\ nR \in Nat /\ nW \in Nat /\ nwR \in Nat /\ nwW \in Nat /\ lR \in Nat /\ lW \in Nat
    /\ hop \in HelpOps \cup {"none"} /\ hn \in Int
    /\ dop \in AddOps \cup {"none"} /\ dn \in Int

\* The numbers behind the lock: the state of the control word q with its counts r
\* and w, m_cOwner, the semaphores sr and sw; readers, writers, those that wait and
\* those that leave through m_cOwner; what the one thread that hands over has to do,
\* and what the one that displaced owners has to add.
RWSum(q, r, w, own, sr, sw, nR, nW, nwR, nwW, lR, lW, hop, hn, dop, dn) ==
    LET outR == nR + lR + sr + ToReaders(hop, hn)
        outW == nW + lW + sw + ToWriter(hop, hn)
    IN  /\ RWTypes(q, r, w, own, sr, sw, nR, nW, nwR, nwW, lR, lW, hop, hn, dop, dn)
        /\ q = "free" => r = 0 /\ w = 0
        /\ q = "readers" => r > 0 /\ w = 0
        /\ q = "writer" => r = 0 /\ w > 0
        /\ q = "both" => r > 0 \/ w > 0
        /\ nwR = sr + ToReaders(hop, hn) + (IF q \in {"writer", "both"} THEN r ELSE 0)
        /\ nwW = sw + ToWriter(hop, hn)
                  + (IF q \in {"readers", "both"} THEN w ELSE IF q = "writer" THEN w - 1 ELSE 0)
        /\ outR = 0 \/ outW = 0
        /\ outW <= 1
        /\ hop \in MoveOps \cup PostOps => hn > 0
        /\ dop # "none" => dn > 0
        /\ q # "both" => /\ own = 0 /\ dop = "none" /\ lR = 0 /\ lW = 0
                         /\ hop \notin TakeOps \cup MoveOps
                         /\ outR = r /\ outW = IF q = "writer" THEN 1 ELSE 0
        /\ q = "both" =>
              /\ own + (IF dop = "none" THEN 0 ELSE dn) + ToOwners(hop, hn) = outR + outW
              /\ outR > 0 => w > 0
              /\ outW > 0 => r > 0
              /\ dop # "none" => /\ own <= 0
                                 /\ IF dop = "addAsReader" THEN outW = 0 /\ w > 0
                                                           ELSE outR = 0 /\ r > 0
              /\ hop \in MoveOps => own = 0 /\ dop = "none"
              /\ hop \in TakeOps => /\ outR + outW = 0 /\ dop = "none"
                                    /\ hop = "takeReaders" => r > 0
                                    /\ hop = "takeWriter" => w > 0
              /\ outR + outW = 0 => hop \in TakeOps \/ dop # "none"

\* A writer enters, or waits.
LEMMA WriterEntrySum ==
    ASSUME NEW q, NEW r, NEW w, NEW own, NEW sr, NEW sw, NEW nR, NEW nW, NEW nwR, NEW nwW,
           NEW lR, NEW lW, NEW hop, NEW hn, NEW dop, NEW dn,
           RWSum(q, r, w, own, sr, sw, nR, nW, nwR, nwW, lR, lW, hop, hn, dop, dn)
    PROVE  /\ q = "free" =>
                RWSum("writer", 0, w + 1, own, sr, sw, nR, nW + 1, nwR, nwW, lR, lW, hop, hn, dop, dn)
           /\ q \in {"writer", "both"} =>
                RWSum(q, r, w + 1, own, sr, sw, nR, nW, nwR, nwW + 1, lR, lW, hop, hn, dop, dn)
           /\ q = "readers" =>
                /\ dop = "none"
                /\ RWSum("both", 0, w + 1, own, sr, sw, nR, nW, nwR, nwW + 1, lR, lW, hop, hn, "addAsReader", r)
<1>1. /\ q \in {"free", "readers", "writer", "both"}
      /\ r \in Nat /\ w \in Nat /\ own \in Int /\ sr \in Nat /\ sw \in Nat
      /\ nR \in Nat /\ nW \in Nat /\ nwR \in Nat /\ nwW \in Nat /\ lR \in Nat /\ lW \in Nat
      /\ hop \in HelpOps \cup {"none"} /\ hn \in Int
      /\ dop \in AddOps \cup {"none"} /\ dn \in Int
  BY DEF RWSum, RWTypes
<1> QED
  BY <1>1 DEF RWSum, RWTypes, ToReaders, ToWriter, ToOwners, HelpOps, TakeOps, MoveOps, PostOps, AddOps

\* A reader enters, or waits.
LEMMA ReaderEntrySum ==
    ASSUME NEW q, NEW r, NEW w, NEW own, NEW sr, NEW sw, NEW nR, NEW nW, NEW nwR, NEW nwW,
           NEW lR, NEW lW, NEW hop, NEW hn, NEW dop, NEW dn,
           RWSum(q, r, w, own, sr, sw, nR, nW, nwR, nwW, lR, lW, hop, hn, dop, dn)
    PROVE  /\ q \in {"free", "readers"} =>
                RWSum("readers", r + 1, w, own, sr, sw, nR + 1, nW, nwR, nwW, lR, lW, hop, hn, dop, dn)
           /\ q = "both" =>
                RWSum(q, r + 1, w, own, sr, sw, nR, nW, nwR + 1, nwW, lR, lW, hop, hn, dop, dn)
           /\ q = "writer" =>
                /\ dop = "none"
                /\ RWSum("both", r + 1, w - 1, own, sr, sw, nR, nW, nwR + 1, nwW, lR, lW, hop, hn, "addAsWriter", 1)
<1>1. /\ q \in {"free", "readers", "writer", "both"}
      /\ r \in Nat /\ w \in Nat /\ own \in Int /\ sr \in Nat /\ sw \in Nat
      /\ nR \in Nat /\ nW \in Nat /\ nwR \in Nat /\ nwW \in Nat /\ lR \in Nat /\ lW \in Nat
      /\ hop \in HelpOps \cup {"none"} /\ hn \in Int
      /\ dop \in AddOps \cup {"none"} /\ dn \in Int
  BY DEF RWSum, RWTypes
<1> QED
  BY <1>1 DEF RWSum, RWTypes, ToReaders, ToWriter, ToOwners, HelpOps, TakeOps, MoveOps, PostOps, AddOps

\* A writer leaves: through m_cOwner, to the next writer, or the lock is free.
LEMMA WriterLeavesSum ==
    ASSUME NEW q, NEW r, NEW w, NEW own, NEW sr, NEW sw, NEW nR, NEW nW, NEW nwR, NEW nwW,
           NEW lR, NEW lW, NEW hop, NEW hn, NEW dop, NEW dn,
           RWSum(q, r, w, own, sr, sw, nR, nW, nwR, nwW, lR, lW, hop, hn, dop, dn),
           nW > 0
    PROVE  /\ q \in {"writer", "both"}
           /\ q = "both" =>
                RWSum(q, r, w, own, sr, sw, nR, nW - 1, nwR, nwW, lR, lW + 1, hop, hn, dop, dn)
           /\ q = "writer" /\ w > 1 =>
                /\ hop = "none"
                /\ RWSum(q, r, w - 1, own, sr, sw, nR, nW - 1, nwR, nwW, lR, lW, "postWriter", 1, dop, dn)
           /\ q = "writer" /\ ~(w > 1) =>
                RWSum("free", r, w - 1, own, sr, sw, nR, nW - 1, nwR, nwW, lR, lW, hop, hn, dop, dn)
<1>1. /\ q \in {"free", "readers", "writer", "both"}
      /\ r \in Nat /\ w \in Nat /\ own \in Int /\ sr \in Nat /\ sw \in Nat
      /\ nR \in Nat /\ nW \in Nat /\ nwR \in Nat /\ nwW \in Nat /\ lR \in Nat /\ lW \in Nat
      /\ hop \in HelpOps \cup {"none"} /\ hn \in Int
      /\ dop \in AddOps \cup {"none"} /\ dn \in Int
  BY DEF RWSum, RWTypes
<1> QED
  BY <1>1 DEF RWSum, RWTypes, ToReaders, ToWriter, ToOwners, HelpOps, TakeOps, MoveOps, PostOps, AddOps

\* A reader leaves: through m_cOwner, before other readers, or as the last one.
LEMMA ReaderLeavesSum ==
    ASSUME NEW q, NEW r, NEW w, NEW own, NEW sr, NEW sw, NEW nR, NEW nW, NEW nwR, NEW nwW,
           NEW lR, NEW lW, NEW hop, NEW hn, NEW dop, NEW dn,
           RWSum(q, r, w, own, sr, sw, nR, nW, nwR, nwW, lR, lW, hop, hn, dop, dn),
           nR > 0
    PROVE  /\ q \in {"readers", "both"}
           /\ q = "both" =>
                RWSum(q, r, w, own, sr, sw, nR - 1, nW, nwR, nwW, lR + 1, lW, hop, hn, dop, dn)
           /\ q = "readers" /\ r > 1 =>
                RWSum(q, r - 1, w, own, sr, sw, nR - 1, nW, nwR, nwW, lR, lW, hop, hn, dop, dn)
           /\ q = "readers" /\ ~(r > 1) =>
                RWSum("free", r - 1, w, own, sr, sw, nR - 1, nW, nwR, nwW, lR, lW, hop, hn, dop, dn)
<1>1. /\ q \in {"free", "readers", "writer", "both"}
      /\ r \in Nat /\ w \in Nat /\ own \in Int /\ sr \in Nat /\ sw \in Nat
      /\ nR \in Nat /\ nW \in Nat /\ nwR \in Nat /\ nwW \in Nat /\ lR \in Nat /\ lW \in Nat
      /\ hop \in HelpOps \cup {"none"} /\ hn \in Int
      /\ dop \in AddOps \cup {"none"} /\ dn \in Int
  BY DEF RWSum, RWTypes
<1> QED
  BY <1>1 DEF RWSum, RWTypes, ToReaders, ToWriter, ToOwners, HelpOps, TakeOps, MoveOps, PostOps, AddOps

\* A writer that leaves takes itself out of m_cOwner; if it was the last, readers follow.
LEMMA WriterGoneSum ==
    ASSUME NEW q, NEW r, NEW w, NEW own, NEW sr, NEW sw, NEW nR, NEW nW, NEW nwR, NEW nwW,
           NEW lR, NEW lW, NEW hop, NEW hn, NEW dop, NEW dn,
           RWSum(q, r, w, own, sr, sw, nR, nW, nwR, nwW, lR, lW, hop, hn, dop, dn),
           lW > 0
    PROVE  /\ own - 1 # 0 =>
                RWSum(q, r, w, own - 1, sr, sw, nR, nW, nwR, nwW, lR, lW - 1, hop, hn, dop, dn)
           /\ own - 1 = 0 =>
                /\ hop = "none"
                /\ RWSum(q, r, w, 0, sr, sw, nR, nW, nwR, nwW, lR, lW - 1, "takeReaders", 0, dop, dn)
<1>1. /\ q \in {"free", "readers", "writer", "both"}
      /\ r \in Nat /\ w \in Nat /\ own \in Int /\ sr \in Nat /\ sw \in Nat
      /\ nR \in Nat /\ nW \in Nat /\ nwR \in Nat /\ nwW \in Nat /\ lR \in Nat /\ lW \in Nat
      /\ hop \in HelpOps \cup {"none"} /\ hn \in Int
      /\ dop \in AddOps \cup {"none"} /\ dn \in Int
  BY DEF RWSum, RWTypes
<1> QED
  BY <1>1 DEF RWSum, RWTypes, ToReaders, ToWriter, ToOwners, HelpOps, TakeOps, MoveOps, PostOps, AddOps

\* The same of a reader; a writer follows.
LEMMA ReaderGoneSum ==
    ASSUME NEW q, NEW r, NEW w, NEW own, NEW sr, NEW sw, NEW nR, NEW nW, NEW nwR, NEW nwW,
           NEW lR, NEW lW, NEW hop, NEW hn, NEW dop, NEW dn,
           RWSum(q, r, w, own, sr, sw, nR, nW, nwR, nwW, lR, lW, hop, hn, dop, dn),
           lR > 0
    PROVE  /\ own - 1 # 0 =>
                RWSum(q, r, w, own - 1, sr, sw, nR, nW, nwR, nwW, lR - 1, lW, hop, hn, dop, dn)
           /\ own - 1 = 0 =>
                /\ hop = "none"
                /\ RWSum(q, r, w, 0, sr, sw, nR, nW, nwR, nwW, lR - 1, lW, "takeWriter", 0, dop, dn)
<1>1. /\ q \in {"free", "readers", "writer", "both"}
      /\ r \in Nat /\ w \in Nat /\ own \in Int /\ sr \in Nat /\ sw \in Nat
      /\ nR \in Nat /\ nW \in Nat /\ nwR \in Nat /\ nwW \in Nat /\ lR \in Nat /\ lW \in Nat
      /\ hop \in HelpOps \cup {"none"} /\ hn \in Int
      /\ dop \in AddOps \cup {"none"} /\ dn \in Int
  BY DEF RWSum, RWTypes
<1> QED
  BY <1>1 DEF RWSum, RWTypes, ToReaders, ToWriter, ToOwners, HelpOps, TakeOps, MoveOps, PostOps, AddOps

\* Displaced owners are added to m_cOwner; if they have left already, the others follow.
LEMMA DisplacedSum ==
    ASSUME NEW q, NEW r, NEW w, NEW own, NEW sr, NEW sw, NEW nR, NEW nW, NEW nwR, NEW nwW,
           NEW lR, NEW lW, NEW hop, NEW hn, NEW dop, NEW dn,
           RWSum(q, r, w, own, sr, sw, nR, nW, nwR, nwW, lR, lW, hop, hn, dop, dn),
           dop # "none"
    PROVE  /\ own + dn # 0 =>
                RWSum(q, r, w, own + dn, sr, sw, nR, nW, nwR, nwW, lR, lW, hop, hn, "none", 0)
           /\ own + dn = 0 /\ dop = "addAsWriter" =>
                /\ hop = "none"
                /\ RWSum(q, r, w, 0, sr, sw, nR, nW, nwR, nwW, lR, lW, "takeReaders", 0, "none", 0)
           /\ own + dn = 0 /\ dop = "addAsReader" =>
                /\ hop = "none"
                /\ RWSum(q, r, w, 0, sr, sw, nR, nW, nwR, nwW, lR, lW, "takeWriter", 0, "none", 0)
<1>1. /\ q \in {"free", "readers", "writer", "both"}
      /\ r \in Nat /\ w \in Nat /\ own \in Int /\ sr \in Nat /\ sw \in Nat
      /\ nR \in Nat /\ nW \in Nat /\ nwR \in Nat /\ nwW \in Nat /\ lR \in Nat /\ lW \in Nat
      /\ hop \in HelpOps \cup {"none"} /\ hn \in Int
      /\ dop \in AddOps \cup {"none"} /\ dn \in Int
  BY DEF RWSum, RWTypes
<1> QED
  BY <1>1 DEF RWSum, RWTypes, ToReaders, ToWriter, ToOwners, HelpOps, TakeOps, MoveOps, PostOps, AddOps

\* The waiting readers are taken out of the control word, or become its owners.
LEMMA TakeReadersSum ==
    ASSUME NEW q, NEW r, NEW w, NEW own, NEW sr, NEW sw, NEW nR, NEW nW, NEW nwR, NEW nwW,
           NEW lR, NEW lW, NEW hop, NEW hn, NEW dop, NEW dn,
           RWSum(q, r, w, own, sr, sw, nR, nW, nwR, nwW, lR, lW, hop, hn, dop, dn),
           hop = "takeReaders"
    PROVE  /\ q = "both"
           /\ w > 0 =>
                RWSum(q, 0, w, own, sr, sw, nR, nW, nwR, nwW, lR, lW, "moveReaders", r, dop, dn)
           /\ ~(w > 0) =>
                RWSum("readers", r, w, own, sr, sw, nR, nW, nwR, nwW, lR, lW, "postReaders", r, dop, dn)
<1>1. /\ q \in {"free", "readers", "writer", "both"}
      /\ r \in Nat /\ w \in Nat /\ own \in Int /\ sr \in Nat /\ sw \in Nat
      /\ nR \in Nat /\ nW \in Nat /\ nwR \in Nat /\ nwW \in Nat /\ lR \in Nat /\ lW \in Nat
      /\ hop \in HelpOps \cup {"none"} /\ hn \in Int
      /\ dop \in AddOps \cup {"none"} /\ dn \in Int
  BY DEF RWSum, RWTypes
<1> QED
  BY <1>1 DEF RWSum, RWTypes, ToReaders, ToWriter, ToOwners, HelpOps, TakeOps, MoveOps, PostOps, AddOps

\* One waiting writer is.
LEMMA TakeWriterSum ==
    ASSUME NEW q, NEW r, NEW w, NEW own, NEW sr, NEW sw, NEW nR, NEW nW, NEW nwR, NEW nwW,
           NEW lR, NEW lW, NEW hop, NEW hn, NEW dop, NEW dn,
           RWSum(q, r, w, own, sr, sw, nR, nW, nwR, nwW, lR, lW, hop, hn, dop, dn),
           hop = "takeWriter"
    PROVE  /\ q = "both"
           /\ r > 0 =>
                RWSum(q, r, w - 1, own, sr, sw, nR, nW, nwR, nwW, lR, lW, "moveWriter", 1, dop, dn)
           /\ ~(r > 0) =>
                RWSum("writer", r, w, own, sr, sw, nR, nW, nwR, nwW, lR, lW, "postWriter", 1, dop, dn)
<1>1. /\ q \in {"free", "readers", "writer", "both"}
      /\ r \in Nat /\ w \in Nat /\ own \in Int /\ sr \in Nat /\ sw \in Nat
      /\ nR \in Nat /\ nW \in Nat /\ nwR \in Nat /\ nwW \in Nat /\ lR \in Nat /\ lW \in Nat
      /\ hop \in HelpOps \cup {"none"} /\ hn \in Int
      /\ dop \in AddOps \cup {"none"} /\ dn \in Int
  BY DEF RWSum, RWTypes
<1> QED
  BY <1>1 DEF RWSum, RWTypes, ToReaders, ToWriter, ToOwners, HelpOps, TakeOps, MoveOps, PostOps, AddOps

\* The new owners are added to m_cOwner.
LEMMA MoveSum ==
    ASSUME NEW q, NEW r, NEW w, NEW own, NEW sr, NEW sw, NEW nR, NEW nW, NEW nwR, NEW nwW,
           NEW lR, NEW lW, NEW hop, NEW hn, NEW dop, NEW dn,
           RWSum(q, r, w, own, sr, sw, nR, nW, nwR, nwW, lR, lW, hop, hn, dop, dn)
    PROVE  /\ hop = "moveReaders" =>
                RWSum(q, r, w, own + hn, sr, sw, nR, nW, nwR, nwW, lR, lW, "postReaders", hn, dop, dn)
           /\ hop = "moveWriter" =>
                RWSum(q, r, w, own + hn, sr, sw, nR, nW, nwR, nwW, lR, lW, "postWriter", hn, dop, dn)
<1>1. /\ q \in {"free", "readers", "writer", "both"}
      /\ r \in Nat /\ w \in Nat /\ own \in Int /\ sr \in Nat /\ sw \in Nat
      /\ nR \in Nat /\ nW \in Nat /\ nwR \in Nat /\ nwW \in Nat /\ lR \in Nat /\ lW \in Nat
      /\ hop \in HelpOps \cup {"none"} /\ hn \in Int
      /\ dop \in AddOps \cup {"none"} /\ dn \in Int
  BY DEF RWSum, RWTypes
<1> QED
  BY <1>1 DEF RWSum, RWTypes, ToReaders, ToWriter, ToOwners, HelpOps, TakeOps, MoveOps, PostOps, AddOps

\* Counts are put into the semaphores.
LEMMA PostSum ==
    ASSUME NEW q, NEW r, NEW w, NEW own, NEW sr, NEW sw, NEW nR, NEW nW, NEW nwR, NEW nwW,
           NEW lR, NEW lW, NEW hop, NEW hn, NEW dop, NEW dn,
           RWSum(q, r, w, own, sr, sw, nR, nW, nwR, nwW, lR, lW, hop, hn, dop, dn)
    PROVE  /\ hop = "postReaders" =>
                RWSum(q, r, w, own, sr + hn, sw, nR, nW, nwR, nwW, lR, lW, "none", 0, dop, dn)
           /\ hop = "postWriter" =>
                RWSum(q, r, w, own, sr, sw + 1, nR, nW, nwR, nwW, lR, lW, "none", 0, dop, dn)
<1>1. /\ q \in {"free", "readers", "writer", "both"}
      /\ r \in Nat /\ w \in Nat /\ own \in Int /\ sr \in Nat /\ sw \in Nat
      /\ nR \in Nat /\ nW \in Nat /\ nwR \in Nat /\ nwW \in Nat /\ lR \in Nat /\ lW \in Nat
      /\ hop \in HelpOps \cup {"none"} /\ hn \in Int
      /\ dop \in AddOps \cup {"none"} /\ dn \in Int
  BY DEF RWSum, RWTypes
<1> QED
  BY <1>1 DEF RWSum, RWTypes, ToReaders, ToWriter, ToOwners, HelpOps, TakeOps, MoveOps, PostOps, AddOps

\* A waiter gets a count.
LEMMA WaitSum ==
    ASSUME NEW q, NEW r, NEW w, NEW own, NEW sr, NEW sw, NEW nR, NEW nW, NEW nwR, NEW nwW,
           NEW lR, NEW lW, NEW hop, NEW hn, NEW dop, NEW dn,
           RWSum(q, r, w, own, sr, sw, nR, nW, nwR, nwW, lR, lW, hop, hn, dop, dn)
    PROVE  /\ sr > 0 /\ nwR > 0 =>
                RWSum(q, r, w, own, sr - 1, sw, nR + 1, nW, nwR - 1, nwW, lR, lW, hop, hn, dop, dn)
           /\ sw > 0 /\ nwW > 0 =>
                RWSum(q, r, w, own, sr, sw - 1, nR, nW + 1, nwR, nwW - 1, lR, lW, hop, hn, dop, dn)
<1>1. /\ q \in {"free", "readers", "writer", "both"}
      /\ r \in Nat /\ w \in Nat /\ own \in Int /\ sr \in Nat /\ sw \in Nat
      /\ nR \in Nat /\ nW \in Nat /\ nwR \in Nat /\ nwW \in Nat /\ lR \in Nat /\ lW \in Nat
      /\ hop \in HelpOps \cup {"none"} /\ hn \in Int
      /\ dop \in AddOps \cup {"none"} /\ dn \in Int
  BY DEF RWSum, RWTypes
<1> QED
  BY <1>1 DEF RWSum, RWTypes, ToReaders, ToWriter, ToOwners, HelpOps, TakeOps, MoveOps, PostOps, AddOps

\* The semaphores hold no more counts than there are waiters.
LEMMA SpareSum ==
    ASSUME NEW q, NEW r, NEW w, NEW own, NEW sr, NEW sw, NEW nR, NEW nW, NEW nwR, NEW nwW,
           NEW lR, NEW lW, NEW hop, NEW hn, NEW dop, NEW dn,
           RWSum(q, r, w, own, sr, sw, nR, nW, nwR, nwW, lR, lW, hop, hn, dop, dn)
    PROVE  sr <= nwR /\ sw <= nwW
<1>1. /\ q \in {"free", "readers", "writer", "both"}
      /\ r \in Nat /\ w \in Nat /\ own \in Int /\ sr \in Nat /\ sw \in Nat
      /\ nR \in Nat /\ nW \in Nat /\ nwR \in Nat /\ nwW \in Nat /\ lR \in Nat /\ lW \in Nat
      /\ hop \in HelpOps \cup {"none"} /\ hn \in Int
      /\ dop \in AddOps \cup {"none"} /\ dn \in Int
  BY DEF RWSum, RWTypes
<1> QED
  BY <1>1 DEF RWSum, RWTypes, ToReaders, ToWriter, ToOwners, HelpOps, TakeOps, MoveOps, PostOps, AddOps

\* Nobody waits if nobody owns the lock, leaves it or has work to do.
LEMMA WakeSum ==
    ASSUME NEW q, NEW r, NEW w, NEW own, NEW sr, NEW sw, NEW nR, NEW nW, NEW nwR, NEW nwW,
           NEW lR, NEW lW, NEW hop, NEW hn, NEW dop, NEW dn,
           RWSum(q, r, w, own, sr, sw, nR, nW, nwR, nwW, lR, lW, hop, hn, dop, dn),
           nR = 0, nW = 0, lR = 0, lW = 0, sr = 0, sw = 0, hop = "none", dop = "none"
    PROVE  nwR = 0 /\ nwW = 0
<1>1. /\ q \in {"free", "readers", "writer", "both"}
      /\ r \in Nat /\ w \in Nat /\ own \in Int /\ sr \in Nat /\ sw \in Nat
      /\ nR \in Nat /\ nW \in Nat /\ nwR \in Nat /\ nwW \in Nat /\ lR \in Nat /\ lW \in Nat
      /\ hop \in HelpOps \cup {"none"} /\ hn \in Int
      /\ dop \in AddOps \cup {"none"} /\ dn \in Int
  BY DEF RWSum, RWTypes
<1> QED
  BY <1>1 DEF RWSum, RWTypes, ToReaders, ToWriter, ToOwners, HelpOps, TakeOps, MoveOps, PostOps, AddOps

\* A writer owns the lock alone.
LEMMA ExcludeSum ==
    ASSUME NEW q, NEW r, NEW w, NEW own, NEW sr, NEW sw, NEW nR, NEW nW, NEW nwR, NEW nwW,
           NEW lR, NEW lW, NEW hop, NEW hn, NEW dop, NEW dn,
           RWSum(q, r, w, own, sr, sw, nR, nW, nwR, nwW, lR, lW, hop, hn, dop, dn)
    PROVE  nW <= 1 /\ (nR = 0 \/ nW = 0)
<1>1. /\ q \in {"free", "readers", "writer", "both"}
      /\ r \in Nat /\ w \in Nat /\ own \in Int /\ sr \in Nat /\ sw \in Nat
      /\ nR \in Nat /\ nW \in Nat /\ nwR \in Nat /\ nwW \in Nat /\ lR \in Nat /\ lW \in Nat
      /\ hop \in HelpOps \cup {"none"} /\ hn \in Int
      /\ dop \in AddOps \cup {"none"} /\ dn \in Int
  BY DEF RWSum, RWTypes
<1> QED
  BY <1>1 DEF RWSum, RWTypes, ToReaders, ToWriter, ToOwners, HelpOps, TakeOps, MoveOps, PostOps, AddOps

-----------------------------------------------------------------------------
(* The reader / writer lock: its threads *)

RWModes == {"none", "R", "W", "waitR", "waitW"}
RWWork == [op : {"none", "addAsReader", "addAsWriter", "takeReaders", "takeWriter",
                 "moveReaders", "moveWriter", "postReaders", "postWriter"}, n : Int]
\* The work of a thread that hands over, and of one that displaced owners.
HelpWork == {x \in RWWork : x.op \in HelpOps}
DisplaceWork == {x \in RWWork : x.op \in AddOps /\ x.n > 0}

\* How many threads hold "what", and how many leave through m_cOwner.
Held(f, what) == Cardinality({t \in Thread : f[t] = what})
Leavers(f, op) == Cardinality({t \in Thread : f[t].op = op /\ f[t].n = -1})

\* What a thread that has work to do may own or wait for.
PlaceOK(mode, x) ==
    /\ x.op \in AddOps =>
          \/ x.n = -1 /\ mode = "none"
          \/ x.n > 0 /\ mode = IF x.op = "addAsReader" THEN "waitW" ELSE "waitR"
    /\ x.op \in HelpOps => mode \in {"none", "waitR", "waitW"}

RWTyped == lock \in [Thread -> RWModes] /\ rwTodo \in [Thread -> RWWork]
RWPlaces == \A t \in Thread : PlaceOK(lock[t], rwTodo[t])

\* The quiescence bits of the control word.
RWWord(q) ==
    /\ q \in {"writer", "both"} => fQR = TRUE
    /\ q \in {"free", "readers"} => fQR = FALSE
    /\ q \in {"readers", "both"} => fQW = TRUE
    /\ q \in {"free", "writer"} => fQW = FALSE

RWNumbers(q, x, y) ==
    RWSum(q, cOOWR, cOAOWW, rwOwner, semReader, semWriter,
          Held(lock, "R"), Held(lock, "W"), Held(lock, "waitR"), Held(lock, "waitW"),
          Leavers(rwTodo, "addAsReader"), Leavers(rwTodo, "addAsWriter"),
          x.op, x.n, y.op, y.n)

RWNat ==
    /\ cOOWR \in Nat /\ cOAOWW \in Nat /\ rwOwner \in Int /\ semReader \in Nat /\ semWriter \in Nat
    /\ Held(lock, "R") \in Nat /\ Held(lock, "W") \in Nat
    /\ Held(lock, "waitR") \in Nat /\ Held(lock, "waitW") \in Nat
    /\ Leavers(rwTodo, "addAsReader") \in Nat /\ Leavers(rwTodo, "addAsWriter") \in Nat

\* The state of the lock with the control word in state q, x the work of the one
\* thread that hands over and y that of the one that displaced owners.
RWState(q, x, y) ==
    /\ RWTyped /\ RWPlaces /\ RWWord(q)
    /\ Sole(rwTodo, HelpWork, x) /\ Sole(rwTodo, DisplaceWork, y)
    /\ RWNumbers(q, x, y)

\* The inductive invariant of the reader / writer lock.
RWInv == \E q \in {"free", "readers", "writer", "both"}, x \in RWWork, y \in RWWork :
            RWState(q, x, y)

\* How the counts change when thread t goes from "old" to "mode" and has z to do.
RWAfter(t, old, mode, z) ==
    /\ Held(lock', "R") = Held(lock, "R") - One(old = "R") + One(mode = "R")
    /\ Held(lock', "W") = Held(lock, "W") - One(old = "W") + One(mode = "W")
    /\ Held(lock', "waitR") = Held(lock, "waitR") - One(old = "waitR") + One(mode = "waitR")
    /\ Held(lock', "waitW") = Held(lock, "waitW") - One(old = "waitW") + One(mode = "waitW")
    /\ Leavers(rwTodo', "addAsReader") = Leavers(rwTodo, "addAsReader")
           - One(rwTodo[t].op = "addAsReader" /\ rwTodo[t].n = -1)
           + One(z.op = "addAsReader" /\ z.n = -1)
    /\ Leavers(rwTodo', "addAsWriter") = Leavers(rwTodo, "addAsWriter")
           - One(rwTodo[t].op = "addAsWriter" /\ rwTodo[t].n = -1)
           + One(z.op = "addAsWriter" /\ z.n = -1)

\* The counts of f and of g, which may differ at t.
HeldChange(f, g, t, what) == Held(g, what) = Held(f, what) - One(f[t] = what) + One(g[t] = what)
LeaversChange(f, g, t, op) ==
    Leavers(g, op) = Leavers(f, op) - One(f[t].op = op /\ f[t].n = -1)
                       + One(g[t].op = op /\ g[t].n = -1)

\* A count of threads by what they hold, after one of them moves.
LEMMA HeldMoves ==
    ASSUME NEW f, NEW g, NEW t \in Thread, \A u \in Thread \ {t} : g[u] = f[u], NEW what
    PROVE  HeldChange(f, g, t, what)
<1> DEFINE A == {u \in Thread : f[u] = what}
           B == {u \in Thread : g[u] = what}
<1>1. A \in SUBSET Thread /\ B \in SUBSET Thread /\ \A u \in Thread \ {t} : u \in A <=> u \in B
  OBVIOUS
<1>2. (t \in A <=> f[t] = what) /\ (t \in B <=> g[t] = what)
  OBVIOUS
<1> HIDE DEF A, B
<1>3. Cardinality(B) = Cardinality(A) - One(t \in A) + One(t \in B)
  BY <1>1, Recount
<1>4. Cardinality(B) = Cardinality(A) - One(f[t] = what) + One(g[t] = what)
  BY <1>2, <1>3 DEF One
<1> QED
  BY <1>4 DEF HeldChange, Held, A, B

\* A count of those that leave, after one thread moves.
LEMMA LeaversMove ==
    ASSUME NEW f, NEW g, NEW t \in Thread, \A u \in Thread \ {t} : g[u] = f[u], NEW op
    PROVE  LeaversChange(f, g, t, op)
<1> DEFINE A == {u \in Thread : f[u].op = op /\ f[u].n = -1}
           B == {u \in Thread : g[u].op = op /\ g[u].n = -1}
<1>1. A \in SUBSET Thread /\ B \in SUBSET Thread /\ \A u \in Thread \ {t} : u \in A <=> u \in B
  OBVIOUS
<1>2. (t \in A <=> (f[t].op = op /\ f[t].n = -1)) /\ (t \in B <=> (g[t].op = op /\ g[t].n = -1))
  OBVIOUS
<1> HIDE DEF A, B
<1>3. Cardinality(B) = Cardinality(A) - One(t \in A) + One(t \in B)
  BY <1>1, Recount
<1>4. Cardinality(B) = Cardinality(A) - One(f[t].op = op /\ f[t].n = -1)
                         + One(g[t].op = op /\ g[t].n = -1)
  BY <1>2, <1>3 DEF One
<1> QED
  BY <1>4 DEF LeaversChange, Leavers, A, B

\* Both together, for a step of the lock.
LEMMA RWMoved ==
    ASSUME RWTyped, NEW t \in Thread, NEW mode \in RWModes, NEW z \in RWWork,
           lock' = [lock EXCEPT ![t] = mode], rwTodo' = [rwTodo EXCEPT ![t] = z]
    PROVE  RWTyped' /\ RWAfter(t, lock[t], mode, z)
<1>1. RWTyped'
  BY DEF RWTyped
<1>2. /\ lock'[t] = mode /\ \A u \in Thread \ {t} : lock'[u] = lock[u]
      /\ rwTodo'[t] = z /\ \A u \in Thread \ {t} : rwTodo'[u] = rwTodo[u]
  BY DEF RWTyped
<1>3. \A what : HeldChange(lock, lock', t, what)
  BY <1>2, HeldMoves
<1>4. \A op : LeaversChange(rwTodo, rwTodo', t, op)
  BY <1>2, LeaversMove
<1> QED
  BY <1>1, <1>2, <1>3, <1>4 DEF RWAfter, HeldChange, LeaversChange, One

\* What is left to show of a step of thread t.
LEMMA RWStep ==
    ASSUME RWTyped, RWPlaces,
           NEW t \in Thread, NEW mode \in RWModes, NEW z \in RWWork,
           lock' = [lock EXCEPT ![t] = mode], rwTodo' = [rwTodo EXCEPT ![t] = z],
           PlaceOK(mode, z),
           NEW q \in {"free", "readers", "writer", "both"}, NEW x \in RWWork, NEW y \in RWWork,
           RWWord(q)', RWNumbers(q, x, y)',
           Sole([rwTodo EXCEPT ![t] = z], HelpWork, x),
           Sole([rwTodo EXCEPT ![t] = z], DisplaceWork, y)
    PROVE  RWInv'
<1>1. RWTyped'
  BY RWMoved
<1>2. RWPlaces'
  <2>1. /\ lock'[t] = mode /\ rwTodo'[t] = z
        /\ \A u \in Thread \ {t} : lock'[u] = lock[u] /\ rwTodo'[u] = rwTodo[u]
    BY DEF RWTyped
  <2>2. \A u \in Thread : PlaceOK(lock'[u], rwTodo'[u])
    BY <2>1 DEF RWPlaces
  <2> QED
    BY <2>2 DEF RWPlaces
<1>3. RWState(q, x, y)'
  BY <1>1, <1>2 DEF RWState
<1> QED
  BY <1>3 DEF RWInv

\* Outside of the work that it hands over a thread has nothing to hand over.
LEMMA RWIdle ==
    /\ RW!NoWork \in RWWork /\ RW!NoWork \notin HelpWork /\ RW!NoWork \notin DisplaceWork
    /\ RW!NoWork.op = "none" /\ RW!NoWork.n = 0
    /\ \A mode \in RWModes : PlaceOK(mode, RW!NoWork)
BY DEF RW!NoWork, RW!Work, RWWork, HelpWork, DisplaceWork, HelpOps, TakeOps, MoveOps, PostOps,
       AddOps, PlaceOK

\* What kind of work it is.
LEMMA RWWorkIs ==
    ASSUME NEW op \in AddOps \cup HelpOps, NEW n \in Int
    PROVE  /\ RW!Work(op, n) \in RWWork
           /\ RW!Work(op, n).op = op /\ RW!Work(op, n).n = n
           /\ RW!Work(op, n) \in HelpWork <=> op \in HelpOps
           /\ RW!Work(op, n) \in DisplaceWork <=> op \in AddOps /\ n > 0
BY DEF RW!Work, RWWork, HelpWork, DisplaceWork, HelpOps, TakeOps, MoveOps, PostOps, AddOps

\* A thread that has no such work in the numbers has none.
LEMMA RWNone ==
    ASSUME NEW x
    PROVE  x.op = "none" => x \notin HelpWork /\ x \notin DisplaceWork
BY DEF HelpWork, DisplaceWork, HelpOps, TakeOps, MoveOps, PostOps, AddOps

\* A thread that holds something is counted.
LEMMA HeldSome ==
    ASSUME NEW f, NEW t \in Thread, NEW what, f[t] = what
    PROVE  Held(f, what) > 0
<1> DEFINE A == {u \in Thread : f[u] = what}
<1>1. A \in SUBSET Thread /\ A # {}
  OBVIOUS
<1> HIDE DEF A
<1>2. Cardinality(A) \in Nat /\ Cardinality(A) # 0
  BY <1>1, CountZero
<1>3. Cardinality(A) > 0
  BY <1>2
<1> QED
  BY <1>3 DEF Held, A

\* So is one that leaves.
LEMMA LeaversSome ==
    ASSUME NEW f, NEW t \in Thread, NEW op, f[t].op = op, f[t].n = -1
    PROVE  Leavers(f, op) > 0
<1> DEFINE A == {u \in Thread : f[u].op = op /\ f[u].n = -1}
<1>1. A \in SUBSET Thread /\ A # {}
  OBVIOUS
<1> HIDE DEF A
<1>2. Cardinality(A) \in Nat /\ Cardinality(A) # 0
  BY <1>1, CountZero
<1>3. Cardinality(A) > 0
  BY <1>2
<1> QED
  BY <1>3 DEF Leavers, A

-----------------------------------------------------------------------------
(* The reader / writer lock: its steps *)

\* The parts of the state of a lock.
LEMMA RWParts ==
    ASSUME NEW q, NEW x, NEW y, RWState(q, x, y)
    PROVE  /\ RWTyped /\ RWPlaces /\ RWWord(q) /\ RWNumbers(q, x, y) /\ RWNat
           /\ Sole(rwTodo, HelpWork, x) /\ Sole(rwTodo, DisplaceWork, y)
BY DEF RWState, RWNumbers, RWSum, RWTypes, RWNat

\* A writer enters.
LEMMA RWWriterEnters ==
    ASSUME RWInv, NEW t \in Thread, RW!EnterAsWriter(t) \/ RW!FTryEnterAsWriter(t)
    PROVE  RWInv'
<1>1. PICK q \in {"free", "readers", "writer", "both"}, x \in RWWork, y \in RWWork :
         RWState(q, x, y)
  BY DEF RWInv
<1>2. /\ RWTyped /\ RWPlaces /\ RWWord(q) /\ RWNumbers(q, x, y) /\ RWNat
      /\ Sole(rwTodo, HelpWork, x) /\ Sole(rwTodo, DisplaceWork, y)
  BY <1>1, RWParts
<1>3. /\ lock[t] = "none" /\ rwTodo[t] = RW!NoWork
      /\ RW!WriterEntry(t)
      /\ lock' = [lock EXCEPT ![t] = IF fQW \/ cOAOWW > 0 THEN "waitW" ELSE "W"]
  BY <1>2 DEF RW!EnterAsWriter, RW!FTryEnterAsWriter, RW!Is, RWNat
<1>4. /\ q = "free" => cOAOWW = 0
      /\ q = "writer" => cOAOWW > 0
  BY <1>2 DEF RWNumbers, RWSum
<1>5. CASE q = "free"
  <2>1. lock' = [lock EXCEPT ![t] = "W"] /\ rwTodo' = [rwTodo EXCEPT ![t] = RW!NoWork]
    BY <1>2, <1>3, <1>4, <1>5 DEF RW!WriterEntry, RWTyped, RWWord
  <2>2. /\ "W" \in RWModes /\ RW!NoWork \in RWWork /\ x \in RWWork /\ y \in RWWork
        /\ PlaceOK("W", RW!NoWork)
    BY <1>2, <1>3, <1>5, <1>4, RWIdle DEF RWModes, RWWork, RW!Work, PlaceOK, RWTyped, RWPlaces, AddOps, HelpOps, MoveOps, PostOps, TakeOps
  <2>3. RWAfter(t, "none", "W", RW!NoWork)
    BY <1>2, <1>3, <2>1, <2>2, RWMoved
  <2>4. RWSum("writer", 0, cOAOWW + 1, rwOwner, semReader, semWriter,
              Held(lock, "R"), Held(lock, "W") + 1, Held(lock, "waitR"), Held(lock, "waitW"),
              Leavers(rwTodo, "addAsReader"), Leavers(rwTodo, "addAsWriter"), x.op, x.n, y.op, y.n)
    BY <1>2, <1>3, <1>4, <1>5, WriterEntrySum DEF RWNumbers
  <2>5. RWNumbers("writer", x, y)'
    BY <1>2, <1>3, <1>4, <1>5, <2>3, <2>4, RWIdle DEF RWNumbers, RWNat, RWWord, RWAfter, One, RW!Work, RW!WriterEntry
  <2>6. RWWord("writer")'
    BY <1>2, <1>3, <1>4, <1>5 DEF RWWord, RW!WriterEntry
  <2>7. Sole([rwTodo EXCEPT ![t] = RW!NoWork], HelpWork, x)
    BY <1>2, <1>3, RWIdle, SoleSame DEF RWTyped
  <2>8. Sole([rwTodo EXCEPT ![t] = RW!NoWork], DisplaceWork, y)
    BY <1>2, <1>3, RWIdle, SoleSame DEF RWTyped
  <2> QED
    BY <1>2, <2>1, <2>2, <2>5, <2>6, <2>7, <2>8, RWStep
<1>6. CASE q \in {"writer", "both"}
  <2>1. lock' = [lock EXCEPT ![t] = "waitW"] /\ rwTodo' = [rwTodo EXCEPT ![t] = RW!NoWork]
    BY <1>2, <1>3, <1>4, <1>6 DEF RW!WriterEntry, RWTyped, RWWord
  <2>2. /\ "waitW" \in RWModes /\ RW!NoWork \in RWWork /\ x \in RWWork /\ y \in RWWork
        /\ PlaceOK("waitW", RW!NoWork)
    BY <1>2, <1>3, <1>6, <1>4, RWIdle DEF RWModes, RWWork, RW!Work, PlaceOK, RWTyped, RWPlaces, AddOps, HelpOps, MoveOps, PostOps, TakeOps
  <2>3. RWAfter(t, "none", "waitW", RW!NoWork)
    BY <1>2, <1>3, <2>1, <2>2, RWMoved
  <2>4. RWSum(q, cOOWR, cOAOWW + 1, rwOwner, semReader, semWriter,
              Held(lock, "R"), Held(lock, "W"), Held(lock, "waitR"), Held(lock, "waitW") + 1,
              Leavers(rwTodo, "addAsReader"), Leavers(rwTodo, "addAsWriter"), x.op, x.n, y.op, y.n)
    BY <1>2, <1>3, <1>4, <1>6, WriterEntrySum DEF RWNumbers
  <2>5. RWNumbers(q, x, y)'
    BY <1>2, <1>3, <1>4, <1>6, <2>3, <2>4, RWIdle DEF RWNumbers, RWNat, RWWord, RWAfter, One, RW!Work, RW!WriterEntry
  <2>6. RWWord(q)'
    BY <1>2, <1>3, <1>4, <1>6 DEF RWWord, RW!WriterEntry
  <2>7. Sole([rwTodo EXCEPT ![t] = RW!NoWork], HelpWork, x)
    BY <1>2, <1>3, RWIdle, SoleSame DEF RWTyped
  <2>8. Sole([rwTodo EXCEPT ![t] = RW!NoWork], DisplaceWork, y)
    BY <1>2, <1>3, RWIdle, SoleSame DEF RWTyped
  <2> QED
    BY <1>2, <2>1, <2>2, <2>5, <2>6, <2>7, <2>8, RWStep
<1>7. CASE q = "readers"
  <2>0. PICK n \in Nat : n = cOOWR /\ n > 0
    BY <1>2, <1>7 DEF RWNat, RWNumbers, RWSum
  <2>1. lock' = [lock EXCEPT ![t] = "waitW"] /\ rwTodo' = [rwTodo EXCEPT ![t] = RW!Work("addAsReader", n)]
    BY <1>2, <1>3, <1>4, <1>7, <2>0 DEF RW!WriterEntry, RWTyped, RWWord
  <2>2. /\ "waitW" \in RWModes /\ RW!Work("addAsReader", n) \in RWWork /\ x \in RWWork /\ RW!Work("addAsReader", n) \in RWWork
        /\ PlaceOK("waitW", RW!Work("addAsReader", n))
    BY <1>2, <1>3, <2>0, <1>7, <1>4, RWIdle DEF RWModes, RWWork, RW!Work, PlaceOK, RWTyped, RWPlaces, AddOps, HelpOps, MoveOps, PostOps, TakeOps
  <2>3. RWAfter(t, "none", "waitW", RW!Work("addAsReader", n))
    BY <1>2, <1>3, <2>1, <2>2, RWMoved
  <2>4. RWSum("both", 0, cOAOWW + 1, rwOwner, semReader, semWriter,
              Held(lock, "R"), Held(lock, "W"), Held(lock, "waitR"), Held(lock, "waitW") + 1,
              Leavers(rwTodo, "addAsReader"), Leavers(rwTodo, "addAsWriter"), x.op, x.n, "addAsReader", n)
    BY <1>2, <1>3, <1>4, <1>7, <2>0, WriterEntrySum DEF RWNumbers
  <2>5. RWNumbers("both", x, RW!Work("addAsReader", n))'
    BY <1>2, <1>3, <1>4, <1>7, <2>0, <2>3, <2>4, RWIdle DEF RWNumbers, RWNat, RWWord, RWAfter, One, RW!Work, RW!WriterEntry
  <2>6. RWWord("both")'
    BY <1>2, <1>3, <1>4, <1>7, <2>0 DEF RWWord, RW!WriterEntry
  <2>7. Sole([rwTodo EXCEPT ![t] = RW!Work("addAsReader", n)], HelpWork, x)
    <3>1. RW!Work("addAsReader", n) \notin HelpWork
      BY <2>0, RWWorkIs DEF AddOps, HelpOps, MoveOps, PostOps, TakeOps
    <3> QED
      BY <1>2, <1>3, <3>1, RWIdle, SoleSame DEF RWTyped
  <2>8. Sole([rwTodo EXCEPT ![t] = RW!Work("addAsReader", n)], DisplaceWork, RW!Work("addAsReader", n))
    <3>1. RW!Work("addAsReader", n) \in DisplaceWork
      BY <2>0, RWWorkIs DEF AddOps, HelpOps, MoveOps, PostOps, TakeOps
    <3>2. y \notin DisplaceWork
      BY <1>2, <1>7, RWNone DEF RWNumbers, RWSum
    <3> QED
      BY <1>2, <1>3, <3>1, <3>2, SoleNext DEF RWTyped
  <2> QED
    BY <1>2, <2>1, <2>2, <2>5, <2>6, <2>7, <2>8, RWStep
<1> QED
  BY <1>5, <1>6, <1>7

\* A reader enters.
LEMMA RWReaderEnters ==
    ASSUME RWInv, NEW t \in Thread, RW!EnterAsReader(t) \/ RW!FTryEnterAsReader(t)
    PROVE  RWInv'
<1>1. PICK q \in {"free", "readers", "writer", "both"}, x \in RWWork, y \in RWWork :
         RWState(q, x, y)
  BY DEF RWInv
<1>2. /\ RWTyped /\ RWPlaces /\ RWWord(q) /\ RWNumbers(q, x, y) /\ RWNat
      /\ Sole(rwTodo, HelpWork, x) /\ Sole(rwTodo, DisplaceWork, y)
  BY <1>1, RWParts
<1>3. /\ lock[t] = "none" /\ rwTodo[t] = RW!NoWork
      /\ RW!ReaderEntry(t)
      /\ lock' = [lock EXCEPT ![t] = IF fQR THEN "waitR" ELSE "R"]
  BY <1>2 DEF RW!EnterAsReader, RW!FTryEnterAsReader, RW!Is
<1>4. CASE q \in {"free", "readers"}
  <2>1. lock' = [lock EXCEPT ![t] = "R"] /\ rwTodo' = [rwTodo EXCEPT ![t] = RW!NoWork]
    BY <1>2, <1>3, <1>4 DEF RW!ReaderEntry, RWTyped, RWWord
  <2>2. /\ "R" \in RWModes /\ RW!NoWork \in RWWork /\ x \in RWWork /\ y \in RWWork
        /\ PlaceOK("R", RW!NoWork)
    BY <1>2, <1>3, <1>4, RWIdle DEF RWModes, RWWork, RW!Work, PlaceOK, RWTyped, RWPlaces, AddOps, HelpOps, MoveOps, PostOps, TakeOps
  <2>3. RWAfter(t, "none", "R", RW!NoWork)
    BY <1>2, <1>3, <2>1, <2>2, RWMoved
  <2>4. RWSum("readers", cOOWR + 1, cOAOWW, rwOwner, semReader, semWriter,
              Held(lock, "R") + 1, Held(lock, "W"), Held(lock, "waitR"), Held(lock, "waitW"),
              Leavers(rwTodo, "addAsReader"), Leavers(rwTodo, "addAsWriter"), x.op, x.n, y.op, y.n)
    BY <1>2, <1>3, <1>4, ReaderEntrySum DEF RWNumbers
  <2>5. RWNumbers("readers", x, y)'
    BY <1>2, <1>3, <1>4, <2>3, <2>4, RWIdle DEF RWNumbers, RWNat, RWWord, RWAfter, One, RW!Work, RW!ReaderEntry
  <2>6. RWWord("readers")'
    BY <1>2, <1>3, <1>4 DEF RWWord, RW!ReaderEntry
  <2>7. Sole([rwTodo EXCEPT ![t] = RW!NoWork], HelpWork, x)
    BY <1>2, <1>3, RWIdle, SoleSame DEF RWTyped
  <2>8. Sole([rwTodo EXCEPT ![t] = RW!NoWork], DisplaceWork, y)
    BY <1>2, <1>3, RWIdle, SoleSame DEF RWTyped
  <2> QED
    BY <1>2, <2>1, <2>2, <2>5, <2>6, <2>7, <2>8, RWStep
<1>5. CASE q = "both"
  <2>1. lock' = [lock EXCEPT ![t] = "waitR"] /\ rwTodo' = [rwTodo EXCEPT ![t] = RW!NoWork]
    BY <1>2, <1>3, <1>5 DEF RW!ReaderEntry, RWTyped, RWWord
  <2>2. /\ "waitR" \in RWModes /\ RW!NoWork \in RWWork /\ x \in RWWork /\ y \in RWWork
        /\ PlaceOK("waitR", RW!NoWork)
    BY <1>2, <1>3, <1>5, RWIdle DEF RWModes, RWWork, RW!Work, PlaceOK, RWTyped, RWPlaces, AddOps, HelpOps, MoveOps, PostOps, TakeOps
  <2>3. RWAfter(t, "none", "waitR", RW!NoWork)
    BY <1>2, <1>3, <2>1, <2>2, RWMoved
  <2>4. RWSum(q, cOOWR + 1, cOAOWW, rwOwner, semReader, semWriter,
              Held(lock, "R"), Held(lock, "W"), Held(lock, "waitR") + 1, Held(lock, "waitW"),
              Leavers(rwTodo, "addAsReader"), Leavers(rwTodo, "addAsWriter"), x.op, x.n, y.op, y.n)
    BY <1>2, <1>3, <1>5, ReaderEntrySum DEF RWNumbers
  <2>5. RWNumbers(q, x, y)'
    BY <1>2, <1>3, <1>5, <2>3, <2>4, RWIdle DEF RWNumbers, RWNat, RWWord, RWAfter, One, RW!Work, RW!ReaderEntry
  <2>6. RWWord(q)'
    BY <1>2, <1>3, <1>5 DEF RWWord, RW!ReaderEntry
  <2>7. Sole([rwTodo EXCEPT ![t] = RW!NoWork], HelpWork, x)
    BY <1>2, <1>3, RWIdle, SoleSame DEF RWTyped
  <2>8. Sole([rwTodo EXCEPT ![t] = RW!NoWork], DisplaceWork, y)
    BY <1>2, <1>3, RWIdle, SoleSame DEF RWTyped
  <2> QED
    BY <1>2, <2>1, <2>2, <2>5, <2>6, <2>7, <2>8, RWStep
<1>6. CASE q = "writer"
  <2>1. lock' = [lock EXCEPT ![t] = "waitR"] /\ rwTodo' = [rwTodo EXCEPT ![t] = RW!Work("addAsWriter", 1)]
    BY <1>2, <1>3, <1>6 DEF RW!ReaderEntry, RWTyped, RWWord
  <2>2. /\ "waitR" \in RWModes /\ RW!Work("addAsWriter", 1) \in RWWork /\ x \in RWWork /\ RW!Work("addAsWriter", 1) \in RWWork
        /\ PlaceOK("waitR", RW!Work("addAsWriter", 1))
    BY <1>2, <1>3, <1>6, RWIdle DEF RWModes, RWWork, RW!Work, PlaceOK, RWTyped, RWPlaces, AddOps, HelpOps, MoveOps, PostOps, TakeOps
  <2>3. RWAfter(t, "none", "waitR", RW!Work("addAsWriter", 1))
    BY <1>2, <1>3, <2>1, <2>2, RWMoved
  <2>4. RWSum("both", cOOWR + 1, cOAOWW - 1, rwOwner, semReader, semWriter,
              Held(lock, "R"), Held(lock, "W"), Held(lock, "waitR") + 1, Held(lock, "waitW"),
              Leavers(rwTodo, "addAsReader"), Leavers(rwTodo, "addAsWriter"), x.op, x.n, "addAsWriter", 1)
    BY <1>2, <1>3, <1>6, ReaderEntrySum DEF RWNumbers
  <2>5. RWNumbers("both", x, RW!Work("addAsWriter", 1))'
    BY <1>2, <1>3, <1>6, <2>3, <2>4, RWIdle DEF RWNumbers, RWNat, RWWord, RWAfter, One, RW!Work, RW!ReaderEntry
  <2>6. RWWord("both")'
    BY <1>2, <1>3, <1>6 DEF RWWord, RW!ReaderEntry
  <2>7. Sole([rwTodo EXCEPT ![t] = RW!Work("addAsWriter", 1)], HelpWork, x)
    <3>1. RW!Work("addAsWriter", 1) \notin HelpWork
      BY RWWorkIs DEF AddOps, HelpOps, MoveOps, PostOps, TakeOps
    <3> QED
      BY <1>2, <1>3, <3>1, RWIdle, SoleSame DEF RWTyped
  <2>8. Sole([rwTodo EXCEPT ![t] = RW!Work("addAsWriter", 1)], DisplaceWork, RW!Work("addAsWriter", 1))
    <3>1. RW!Work("addAsWriter", 1) \in DisplaceWork
      BY RWWorkIs DEF AddOps, HelpOps, MoveOps, PostOps, TakeOps
    <3>2. y \notin DisplaceWork
      BY <1>2, <1>6, RWNone DEF RWNumbers, RWSum
    <3> QED
      BY <1>2, <1>3, <3>1, <3>2, SoleNext DEF RWTyped
  <2> QED
    BY <1>2, <2>1, <2>2, <2>5, <2>6, <2>7, <2>8, RWStep
<1> QED
  BY <1>4, <1>5, <1>6

\* A writer leaves.
LEMMA RWWriterLeaves ==
    ASSUME RWInv, NEW t \in Thread, RW!LeaveAsWriter(t)
    PROVE  RWInv'
<1>1. PICK q \in {"free", "readers", "writer", "both"}, x \in RWWork, y \in RWWork :
         RWState(q, x, y)
  BY DEF RWInv
<1>2. /\ RWTyped /\ RWPlaces /\ RWWord(q) /\ RWNumbers(q, x, y) /\ RWNat
      /\ Sole(rwTodo, HelpWork, x) /\ Sole(rwTodo, DisplaceWork, y)
  BY <1>1, RWParts
<1>3. lock[t] = "W" /\ rwTodo[t] = RW!NoWork /\ RW!LeaveAsWriter(t)
  BY DEF RW!LeaveAsWriter, RW!Is
<1>4. Held(lock, "W") > 0 /\ q \in {"writer", "both"}
  <2>1. Held(lock, "W") > 0
    BY <1>3, HeldSome
  <2> QED
    BY <1>2, <2>1, WriterLeavesSum DEF RWNumbers
<1>5. CASE q = "both"
  <2>1. lock' = [lock EXCEPT ![t] = "none"] /\ rwTodo' = [rwTodo EXCEPT ![t] = RW!Work("addAsWriter", -1)]
    BY <1>2, <1>3, <1>4, <1>5 DEF RW!LeaveAsWriter, RW!cw, RWTyped, RWWord
  <2>2. /\ "none" \in RWModes /\ RW!Work("addAsWriter", -1) \in RWWork /\ x \in RWWork /\ y \in RWWork
        /\ PlaceOK("none", RW!Work("addAsWriter", -1))
    BY <1>2, <1>3, <1>5, <1>4, RWIdle DEF RWModes, RWWork, RW!Work, PlaceOK, RWTyped, RWPlaces, AddOps, HelpOps, MoveOps, PostOps, TakeOps
  <2>3. RWAfter(t, "W", "none", RW!Work("addAsWriter", -1))
    BY <1>2, <1>3, <2>1, <2>2, RWMoved
  <2>4. RWSum(q, cOOWR, cOAOWW, rwOwner, semReader, semWriter,
              Held(lock, "R"), Held(lock, "W") - 1, Held(lock, "waitR"), Held(lock, "waitW"),
              Leavers(rwTodo, "addAsReader"), Leavers(rwTodo, "addAsWriter") + 1, x.op, x.n, y.op, y.n)
    BY <1>2, <1>3, <1>4, <1>5, WriterLeavesSum DEF RWNumbers
  <2>5. RWNumbers(q, x, y)'
    BY <1>2, <1>3, <1>4, <1>5, <2>3, <2>4, RWIdle DEF RWNumbers, RWNat, RWWord, RWAfter, One, RW!Work, RW!LeaveAsWriter, RW!cw
  <2>6. RWWord(q)'
    BY <1>2, <1>3, <1>4, <1>5 DEF RWWord, RW!LeaveAsWriter, RW!cw
  <2>7. Sole([rwTodo EXCEPT ![t] = RW!Work("addAsWriter", -1)], HelpWork, x)
    <3>1. RW!Work("addAsWriter", -1) \notin HelpWork
      BY RWWorkIs DEF AddOps, HelpOps, MoveOps, PostOps, TakeOps
    <3> QED
      BY <1>2, <1>3, <3>1, RWIdle, SoleSame DEF RWTyped
  <2>8. Sole([rwTodo EXCEPT ![t] = RW!Work("addAsWriter", -1)], DisplaceWork, y)
    <3>1. RW!Work("addAsWriter", -1) \notin DisplaceWork
      BY RWWorkIs DEF AddOps, HelpOps, MoveOps, PostOps, TakeOps
    <3> QED
      BY <1>2, <1>3, <3>1, RWIdle, SoleSame DEF RWTyped
  <2> QED
    BY <1>2, <2>1, <2>2, <2>5, <2>6, <2>7, <2>8, RWStep
<1>6. CASE q = "writer" /\ cOAOWW > 1
  <2>1. lock' = [lock EXCEPT ![t] = "none"] /\ rwTodo' = [rwTodo EXCEPT ![t] = RW!Work("postWriter", 1)]
    BY <1>2, <1>3, <1>4, <1>6 DEF RW!LeaveAsWriter, RW!cw, RWTyped, RWWord
  <2>2. /\ "none" \in RWModes /\ RW!Work("postWriter", 1) \in RWWork /\ RW!Work("postWriter", 1) \in RWWork /\ y \in RWWork
        /\ PlaceOK("none", RW!Work("postWriter", 1))
    BY <1>2, <1>3, <1>6, <1>4, RWIdle DEF RWModes, RWWork, RW!Work, PlaceOK, RWTyped, RWPlaces, AddOps, HelpOps, MoveOps, PostOps, TakeOps
  <2>3. RWAfter(t, "W", "none", RW!Work("postWriter", 1))
    BY <1>2, <1>3, <2>1, <2>2, RWMoved
  <2>4. RWSum(q, cOOWR, cOAOWW - 1, rwOwner, semReader, semWriter,
              Held(lock, "R"), Held(lock, "W") - 1, Held(lock, "waitR"), Held(lock, "waitW"),
              Leavers(rwTodo, "addAsReader"), Leavers(rwTodo, "addAsWriter"), "postWriter", 1, y.op, y.n)
    BY <1>2, <1>3, <1>4, <1>6, WriterLeavesSum DEF RWNumbers
  <2>5. RWNumbers(q, RW!Work("postWriter", 1), y)'
    BY <1>2, <1>3, <1>4, <1>6, <2>3, <2>4, RWIdle DEF RWNumbers, RWNat, RWWord, RWAfter, One, RW!Work, RW!LeaveAsWriter, RW!cw
  <2>6. RWWord(q)'
    BY <1>2, <1>3, <1>4, <1>6 DEF RWWord, RW!LeaveAsWriter, RW!cw
  <2>7. Sole([rwTodo EXCEPT ![t] = RW!Work("postWriter", 1)], HelpWork, RW!Work("postWriter", 1))
    <3>1. RW!Work("postWriter", 1) \in HelpWork
      BY RWWorkIs DEF AddOps, HelpOps, MoveOps, PostOps, TakeOps
    <3>2. x \notin HelpWork
      BY <1>2, <1>4, <1>6, WriterLeavesSum, RWNone DEF RWNumbers
    <3> QED
      BY <1>2, <1>3, <3>1, <3>2, SoleNext DEF RWTyped
  <2>8. Sole([rwTodo EXCEPT ![t] = RW!Work("postWriter", 1)], DisplaceWork, y)
    <3>1. RW!Work("postWriter", 1) \notin DisplaceWork
      BY RWWorkIs DEF AddOps, HelpOps, MoveOps, PostOps, TakeOps
    <3> QED
      BY <1>2, <1>3, <3>1, RWIdle, SoleSame DEF RWTyped
  <2> QED
    BY <1>2, <2>1, <2>2, <2>5, <2>6, <2>7, <2>8, RWStep
<1>7. CASE q = "writer" /\ ~(cOAOWW > 1)
  <2>1. lock' = [lock EXCEPT ![t] = "none"] /\ rwTodo' = [rwTodo EXCEPT ![t] = RW!NoWork]
    BY <1>2, <1>3, <1>4, <1>7 DEF RW!LeaveAsWriter, RW!cw, RWTyped, RWWord
  <2>2. /\ "none" \in RWModes /\ RW!NoWork \in RWWork /\ x \in RWWork /\ y \in RWWork
        /\ PlaceOK("none", RW!NoWork)
    BY <1>2, <1>3, <1>7, <1>4, RWIdle DEF RWModes, RWWork, RW!Work, PlaceOK, RWTyped, RWPlaces, AddOps, HelpOps, MoveOps, PostOps, TakeOps
  <2>3. RWAfter(t, "W", "none", RW!NoWork)
    BY <1>2, <1>3, <2>1, <2>2, RWMoved
  <2>4. RWSum("free", cOOWR, cOAOWW - 1, rwOwner, semReader, semWriter,
              Held(lock, "R"), Held(lock, "W") - 1, Held(lock, "waitR"), Held(lock, "waitW"),
              Leavers(rwTodo, "addAsReader"), Leavers(rwTodo, "addAsWriter"), x.op, x.n, y.op, y.n)
    BY <1>2, <1>3, <1>4, <1>7, WriterLeavesSum DEF RWNumbers
  <2>5. RWNumbers("free", x, y)'
    BY <1>2, <1>3, <1>4, <1>7, <2>3, <2>4, RWIdle DEF RWNumbers, RWNat, RWWord, RWAfter, One, RW!Work, RW!LeaveAsWriter, RW!cw
  <2>6. RWWord("free")'
    <3>1. fQW = FALSE
      BY <1>2, <1>7 DEF RWWord
    <3>2. fQW' = FALSE /\ fQR' = (cOAOWW > 1)
      BY <1>3, <3>1, Zenon DEF RW!LeaveAsWriter
    <3>3. (cOAOWW > 1) = FALSE
      BY <1>2, <1>7 DEF RWNat
    <3>4. fQR' = FALSE
      BY <3>2, <3>3, Zenon
    <3> QED
      BY <3>2, <3>4 DEF RWWord
  <2>7. Sole([rwTodo EXCEPT ![t] = RW!NoWork], HelpWork, x)
    BY <1>2, <1>3, RWIdle, SoleSame DEF RWTyped
  <2>8. Sole([rwTodo EXCEPT ![t] = RW!NoWork], DisplaceWork, y)
    BY <1>2, <1>3, RWIdle, SoleSame DEF RWTyped
  <2> QED
    BY <1>2, <2>1, <2>2, <2>5, <2>6, <2>7, <2>8, RWStep
<1> QED
  BY <1>5, <1>6, <1>7, <1>4

\* A reader leaves.
LEMMA RWReaderLeaves ==
    ASSUME RWInv, NEW t \in Thread, RW!LeaveAsReader(t)
    PROVE  RWInv'
<1>1. PICK q \in {"free", "readers", "writer", "both"}, x \in RWWork, y \in RWWork :
         RWState(q, x, y)
  BY DEF RWInv
<1>2. /\ RWTyped /\ RWPlaces /\ RWWord(q) /\ RWNumbers(q, x, y) /\ RWNat
      /\ Sole(rwTodo, HelpWork, x) /\ Sole(rwTodo, DisplaceWork, y)
  BY <1>1, RWParts
<1>3. lock[t] = "R" /\ rwTodo[t] = RW!NoWork /\ RW!LeaveAsReader(t)
  BY DEF RW!LeaveAsReader, RW!Is
<1>4. Held(lock, "R") > 0 /\ q \in {"readers", "both"}
  <2>1. Held(lock, "R") > 0
    BY <1>3, HeldSome
  <2> QED
    BY <1>2, <2>1, ReaderLeavesSum DEF RWNumbers
<1>5. CASE q = "both"
  <2>1. lock' = [lock EXCEPT ![t] = "none"] /\ rwTodo' = [rwTodo EXCEPT ![t] = RW!Work("addAsReader", -1)]
    BY <1>2, <1>3, <1>4, <1>5 DEF RW!LeaveAsReader, RW!cw, RWTyped, RWWord
  <2>2. /\ "none" \in RWModes /\ RW!Work("addAsReader", -1) \in RWWork /\ x \in RWWork /\ y \in RWWork
        /\ PlaceOK("none", RW!Work("addAsReader", -1))
    BY <1>2, <1>3, <1>5, <1>4, RWIdle DEF RWModes, RWWork, RW!Work, PlaceOK, RWTyped, RWPlaces, AddOps, HelpOps, MoveOps, PostOps, TakeOps
  <2>3. RWAfter(t, "R", "none", RW!Work("addAsReader", -1))
    BY <1>2, <1>3, <2>1, <2>2, RWMoved
  <2>4. RWSum(q, cOOWR, cOAOWW, rwOwner, semReader, semWriter,
              Held(lock, "R") - 1, Held(lock, "W"), Held(lock, "waitR"), Held(lock, "waitW"),
              Leavers(rwTodo, "addAsReader") + 1, Leavers(rwTodo, "addAsWriter"), x.op, x.n, y.op, y.n)
    BY <1>2, <1>3, <1>4, <1>5, ReaderLeavesSum DEF RWNumbers
  <2>5. RWNumbers(q, x, y)'
    BY <1>2, <1>3, <1>4, <1>5, <2>3, <2>4, RWIdle DEF RWNumbers, RWNat, RWWord, RWAfter, One, RW!Work, RW!LeaveAsReader, RW!cw
  <2>6. RWWord(q)'
    BY <1>2, <1>3, <1>4, <1>5 DEF RWWord, RW!LeaveAsReader, RW!cw
  <2>7. Sole([rwTodo EXCEPT ![t] = RW!Work("addAsReader", -1)], HelpWork, x)
    <3>1. RW!Work("addAsReader", -1) \notin HelpWork
      BY RWWorkIs DEF AddOps, HelpOps, MoveOps, PostOps, TakeOps
    <3> QED
      BY <1>2, <1>3, <3>1, RWIdle, SoleSame DEF RWTyped
  <2>8. Sole([rwTodo EXCEPT ![t] = RW!Work("addAsReader", -1)], DisplaceWork, y)
    <3>1. RW!Work("addAsReader", -1) \notin DisplaceWork
      BY RWWorkIs DEF AddOps, HelpOps, MoveOps, PostOps, TakeOps
    <3> QED
      BY <1>2, <1>3, <3>1, RWIdle, SoleSame DEF RWTyped
  <2> QED
    BY <1>2, <2>1, <2>2, <2>5, <2>6, <2>7, <2>8, RWStep
<1>6. CASE q = "readers" /\ cOOWR > 1
  <2>1. lock' = [lock EXCEPT ![t] = "none"] /\ rwTodo' = [rwTodo EXCEPT ![t] = RW!NoWork]
    BY <1>2, <1>3, <1>4, <1>6 DEF RW!LeaveAsReader, RW!cw, RWTyped, RWWord
  <2>2. /\ "none" \in RWModes /\ RW!NoWork \in RWWork /\ x \in RWWork /\ y \in RWWork
        /\ PlaceOK("none", RW!NoWork)
    BY <1>2, <1>3, <1>6, <1>4, RWIdle DEF RWModes, RWWork, RW!Work, PlaceOK, RWTyped, RWPlaces, AddOps, HelpOps, MoveOps, PostOps, TakeOps
  <2>3. RWAfter(t, "R", "none", RW!NoWork)
    BY <1>2, <1>3, <2>1, <2>2, RWMoved
  <2>4. RWSum(q, cOOWR - 1, cOAOWW, rwOwner, semReader, semWriter,
              Held(lock, "R") - 1, Held(lock, "W"), Held(lock, "waitR"), Held(lock, "waitW"),
              Leavers(rwTodo, "addAsReader"), Leavers(rwTodo, "addAsWriter"), x.op, x.n, y.op, y.n)
    BY <1>2, <1>3, <1>4, <1>6, ReaderLeavesSum DEF RWNumbers
  <2>5. RWNumbers(q, x, y)'
    BY <1>2, <1>3, <1>4, <1>6, <2>3, <2>4, RWIdle DEF RWNumbers, RWNat, RWWord, RWAfter, One, RW!Work, RW!LeaveAsReader, RW!cw
  <2>6. RWWord(q)'
    BY <1>2, <1>3, <1>4, <1>6 DEF RWWord, RW!LeaveAsReader, RW!cw
  <2>7. Sole([rwTodo EXCEPT ![t] = RW!NoWork], HelpWork, x)
    BY <1>2, <1>3, RWIdle, SoleSame DEF RWTyped
  <2>8. Sole([rwTodo EXCEPT ![t] = RW!NoWork], DisplaceWork, y)
    BY <1>2, <1>3, RWIdle, SoleSame DEF RWTyped
  <2> QED
    BY <1>2, <2>1, <2>2, <2>5, <2>6, <2>7, <2>8, RWStep
<1>7. CASE q = "readers" /\ ~(cOOWR > 1)
  <2>1. lock' = [lock EXCEPT ![t] = "none"] /\ rwTodo' = [rwTodo EXCEPT ![t] = RW!NoWork]
    BY <1>2, <1>3, <1>4, <1>7 DEF RW!LeaveAsReader, RW!cw, RWTyped, RWWord
  <2>2. /\ "none" \in RWModes /\ RW!NoWork \in RWWork /\ x \in RWWork /\ y \in RWWork
        /\ PlaceOK("none", RW!NoWork)
    BY <1>2, <1>3, <1>7, <1>4, RWIdle DEF RWModes, RWWork, RW!Work, PlaceOK, RWTyped, RWPlaces, AddOps, HelpOps, MoveOps, PostOps, TakeOps
  <2>3. RWAfter(t, "R", "none", RW!NoWork)
    BY <1>2, <1>3, <2>1, <2>2, RWMoved
  <2>4. RWSum("free", cOOWR - 1, cOAOWW, rwOwner, semReader, semWriter,
              Held(lock, "R") - 1, Held(lock, "W"), Held(lock, "waitR"), Held(lock, "waitW"),
              Leavers(rwTodo, "addAsReader"), Leavers(rwTodo, "addAsWriter"), x.op, x.n, y.op, y.n)
    BY <1>2, <1>3, <1>4, <1>7, ReaderLeavesSum DEF RWNumbers
  <2>5. RWNumbers("free", x, y)'
    BY <1>2, <1>3, <1>4, <1>7, <2>3, <2>4, RWIdle DEF RWNumbers, RWNat, RWWord, RWAfter, One, RW!Work, RW!LeaveAsReader, RW!cw
  <2>6. RWWord("free")'
    <3>1. fQR = FALSE
      BY <1>2, <1>7 DEF RWWord
    <3>2. fQR' = FALSE /\ fQW' = (cOOWR > 1)
      BY <1>3, <3>1, Zenon DEF RW!LeaveAsReader
    <3>3. (cOOWR > 1) = FALSE
      BY <1>2, <1>7 DEF RWNat
    <3>4. fQW' = FALSE
      BY <3>2, <3>3, Zenon
    <3> QED
      BY <3>2, <3>4 DEF RWWord
  <2>7. Sole([rwTodo EXCEPT ![t] = RW!NoWork], HelpWork, x)
    BY <1>2, <1>3, RWIdle, SoleSame DEF RWTyped
  <2>8. Sole([rwTodo EXCEPT ![t] = RW!NoWork], DisplaceWork, y)
    BY <1>2, <1>3, RWIdle, SoleSame DEF RWTyped
  <2> QED
    BY <1>2, <2>1, <2>2, <2>5, <2>6, <2>7, <2>8, RWStep
<1> QED
  BY <1>5, <1>6, <1>7, <1>4

\* A waiter gets a count of its semaphore.
LEMMA RWWaits ==
    ASSUME RWInv, NEW t \in Thread, RW!Wait(t)
    PROVE  RWInv'
<1>1. PICK q \in {"free", "readers", "writer", "both"}, x \in RWWork, y \in RWWork :
         RWState(q, x, y)
  BY DEF RWInv
<1>2. /\ RWTyped /\ RWPlaces /\ RWWord(q) /\ RWNumbers(q, x, y) /\ RWNat
      /\ Sole(rwTodo, HelpWork, x) /\ Sole(rwTodo, DisplaceWork, y)
  BY <1>1, RWParts
<1>3. rwTodo[t] = RW!NoWork /\ RW!Wait(t)
  BY DEF RW!Wait, RW!WaitAsReader, RW!WaitAsWriter, RW!Is
<1>4. CASE RW!WaitAsReader(t)
  <2>1. lock' = [lock EXCEPT ![t] = "R"] /\ rwTodo' = [rwTodo EXCEPT ![t] = RW!NoWork]
    BY <1>2, <1>3, HeldSome, <1>4 DEF RW!WaitAsReader, RW!Is, RW!cw, RWTyped, RWWord
  <2>2. /\ "R" \in RWModes /\ RW!NoWork \in RWWork /\ x \in RWWork /\ y \in RWWork
        /\ PlaceOK("R", RW!NoWork)
    BY <1>2, <1>3, <1>4, HeldSome, RWIdle DEF RWModes, RWWork, RW!Work, PlaceOK, RWTyped, RWPlaces, AddOps, HelpOps, MoveOps, PostOps, TakeOps
  <2>3. RWAfter(t, "waitR", "R", RW!NoWork)
    <3>1. lock[t] = "waitR"
      BY <1>4 DEF RW!WaitAsReader, RW!Is
    <3> QED
      BY <1>2, <2>1, <2>2, <3>1, RWMoved
  <2>4. RWSum(q, cOOWR, cOAOWW, rwOwner, semReader - 1, semWriter,
              Held(lock, "R") + 1, Held(lock, "W"), Held(lock, "waitR") - 1, Held(lock, "waitW"),
              Leavers(rwTodo, "addAsReader"), Leavers(rwTodo, "addAsWriter"), x.op, x.n, y.op, y.n)
    BY <1>2, <1>3, HeldSome, <1>4, WaitSum DEF RWNumbers, RW!WaitAsReader, RW!Is
  <2>5. RWNumbers(q, x, y)'
    BY <1>2, <1>3, HeldSome, <1>4, <2>3, <2>4, RWIdle DEF RWNumbers, RWNat, RWWord, RWAfter, One, RW!Work, RW!WaitAsReader, RW!Is, RW!cw
  <2>6. RWWord(q)'
    BY <1>2, <1>3, HeldSome, <1>4 DEF RWWord, RW!WaitAsReader, RW!Is, RW!cw
  <2>7. Sole([rwTodo EXCEPT ![t] = RW!NoWork], HelpWork, x)
    BY <1>2, <1>3, RWIdle, SoleSame DEF RWTyped
  <2>8. Sole([rwTodo EXCEPT ![t] = RW!NoWork], DisplaceWork, y)
    BY <1>2, <1>3, RWIdle, SoleSame DEF RWTyped
  <2> QED
    BY <1>2, <2>1, <2>2, <2>5, <2>6, <2>7, <2>8, RWStep
<1>5. CASE RW!WaitAsWriter(t)
  <2>1. lock' = [lock EXCEPT ![t] = "W"] /\ rwTodo' = [rwTodo EXCEPT ![t] = RW!NoWork]
    BY <1>2, <1>3, HeldSome, <1>5 DEF RW!WaitAsWriter, RW!Is, RW!cw, RWTyped, RWWord
  <2>2. /\ "W" \in RWModes /\ RW!NoWork \in RWWork /\ x \in RWWork /\ y \in RWWork
        /\ PlaceOK("W", RW!NoWork)
    BY <1>2, <1>3, <1>5, HeldSome, RWIdle DEF RWModes, RWWork, RW!Work, PlaceOK, RWTyped, RWPlaces, AddOps, HelpOps, MoveOps, PostOps, TakeOps
  <2>3. RWAfter(t, "waitW", "W", RW!NoWork)
    <3>1. lock[t] = "waitW"
      BY <1>5 DEF RW!WaitAsWriter, RW!Is
    <3> QED
      BY <1>2, <2>1, <2>2, <3>1, RWMoved
  <2>4. RWSum(q, cOOWR, cOAOWW, rwOwner, semReader, semWriter - 1,
              Held(lock, "R"), Held(lock, "W") + 1, Held(lock, "waitR"), Held(lock, "waitW") - 1,
              Leavers(rwTodo, "addAsReader"), Leavers(rwTodo, "addAsWriter"), x.op, x.n, y.op, y.n)
    BY <1>2, <1>3, HeldSome, <1>5, WaitSum DEF RWNumbers, RW!WaitAsWriter, RW!Is
  <2>5. RWNumbers(q, x, y)'
    BY <1>2, <1>3, HeldSome, <1>5, <2>3, <2>4, RWIdle DEF RWNumbers, RWNat, RWWord, RWAfter, One, RW!Work, RW!WaitAsWriter, RW!Is, RW!cw
  <2>6. RWWord(q)'
    BY <1>2, <1>3, HeldSome, <1>5 DEF RWWord, RW!WaitAsWriter, RW!Is, RW!cw
  <2>7. Sole([rwTodo EXCEPT ![t] = RW!NoWork], HelpWork, x)
    BY <1>2, <1>3, RWIdle, SoleSame DEF RWTyped
  <2>8. Sole([rwTodo EXCEPT ![t] = RW!NoWork], DisplaceWork, y)
    BY <1>2, <1>3, RWIdle, SoleSame DEF RWTyped
  <2> QED
    BY <1>2, <2>1, <2>2, <2>5, <2>6, <2>7, <2>8, RWStep
<1> QED
  BY <1>3, <1>4, <1>5 DEF RW!Wait

\* A writer that leaves takes itself out of m_cOwner.
LEMMA RWWriterGone ==
    ASSUME RWInv, NEW t \in Thread, RW!UpdateQuiescedOwnerCount(t),
           rwTodo[t].op = "addAsWriter", rwTodo[t].n = -1
    PROVE  RWInv'
<1>1. PICK q \in {"free", "readers", "writer", "both"}, x \in RWWork, y \in RWWork :
         RWState(q, x, y)
  BY DEF RWInv
<1>2. /\ RWTyped /\ RWPlaces /\ RWWord(q) /\ RWNumbers(q, x, y) /\ RWNat
      /\ Sole(rwTodo, HelpWork, x) /\ Sole(rwTodo, DisplaceWork, y)
  BY <1>1, RWParts
<1>3. /\ lock[t] = "none" /\ RW!UpdateQuiescedOwnerCount(t)
      /\ rwTodo[t].op = "addAsWriter" /\ rwTodo[t].n = -1
      /\ rwTodo[t] \notin HelpWork /\ rwTodo[t] \notin DisplaceWork
  BY <1>2 DEF RWPlaces, PlaceOK, HelpWork, DisplaceWork, HelpOps, TakeOps, MoveOps, PostOps, AddOps
<1>4. Leavers(rwTodo, "addAsWriter") > 0
  BY <1>3, LeaversSome
<1>5. CASE rwOwner - 1 # 0
  <2>1. lock' = [lock EXCEPT ![t] = "none"] /\ rwTodo' = [rwTodo EXCEPT ![t] = RW!NoWork]
    BY <1>2, <1>3, <1>4, <1>5 DEF RW!UpdateQuiescedOwnerCount, RW!cw, RWTyped, RWWord, RWNat
  <2>2. /\ "none" \in RWModes /\ RW!NoWork \in RWWork /\ x \in RWWork /\ y \in RWWork
        /\ PlaceOK("none", RW!NoWork)
    BY <1>2, <1>3, <1>5, <1>4, RWIdle DEF RWModes, RWWork, RW!Work, PlaceOK, RWTyped, RWPlaces, AddOps, HelpOps, MoveOps, PostOps, TakeOps
  <2>3. RWAfter(t, "none", "none", RW!NoWork)
    BY <1>2, <1>3, <2>1, <2>2, RWMoved
  <2>4. RWSum(q, cOOWR, cOAOWW, rwOwner - 1, semReader, semWriter,
              Held(lock, "R"), Held(lock, "W"), Held(lock, "waitR"), Held(lock, "waitW"),
              Leavers(rwTodo, "addAsReader"), Leavers(rwTodo, "addAsWriter") - 1, x.op, x.n, y.op, y.n)
    BY <1>2, <1>3, <1>4, <1>5, WriterGoneSum DEF RWNumbers
  <2>5. RWNumbers(q, x, y)'
    BY <1>2, <1>3, <1>4, <1>5, <2>3, <2>4, RWIdle DEF RWNumbers, RWNat, RWWord, RWAfter, One, RW!Work, RW!UpdateQuiescedOwnerCount, RW!cw
  <2>6. RWWord(q)'
    BY <1>2, <1>3, <1>4, <1>5 DEF RWWord, RW!UpdateQuiescedOwnerCount, RW!cw
  <2>7. Sole([rwTodo EXCEPT ![t] = RW!NoWork], HelpWork, x)
    BY <1>2, <1>3, RWIdle, SoleSame DEF RWTyped
  <2>8. Sole([rwTodo EXCEPT ![t] = RW!NoWork], DisplaceWork, y)
    BY <1>2, <1>3, RWIdle, SoleSame DEF RWTyped
  <2> QED
    BY <1>2, <2>1, <2>2, <2>5, <2>6, <2>7, <2>8, RWStep
<1>6. CASE rwOwner - 1 = 0
  <2>1. lock' = [lock EXCEPT ![t] = "none"] /\ rwTodo' = [rwTodo EXCEPT ![t] = RW!Work("takeReaders", 0)]
    BY <1>2, <1>3, <1>4, <1>6 DEF RW!UpdateQuiescedOwnerCount, RW!cw, RWTyped, RWWord, RWNat
  <2>2. /\ "none" \in RWModes /\ RW!Work("takeReaders", 0) \in RWWork /\ RW!Work("takeReaders", 0) \in RWWork /\ y \in RWWork
        /\ PlaceOK("none", RW!Work("takeReaders", 0))
    BY <1>2, <1>3, <1>6, <1>4, RWIdle DEF RWModes, RWWork, RW!Work, PlaceOK, RWTyped, RWPlaces, AddOps, HelpOps, MoveOps, PostOps, TakeOps
  <2>3. RWAfter(t, "none", "none", RW!Work("takeReaders", 0))
    BY <1>2, <1>3, <2>1, <2>2, RWMoved
  <2>4. RWSum(q, cOOWR, cOAOWW, 0, semReader, semWriter,
              Held(lock, "R"), Held(lock, "W"), Held(lock, "waitR"), Held(lock, "waitW"),
              Leavers(rwTodo, "addAsReader"), Leavers(rwTodo, "addAsWriter") - 1, "takeReaders", 0, y.op, y.n)
    BY <1>2, <1>3, <1>4, <1>6, WriterGoneSum DEF RWNumbers
  <2>5. RWNumbers(q, RW!Work("takeReaders", 0), y)'
    BY <1>2, <1>3, <1>4, <1>6, <2>3, <2>4, RWIdle DEF RWNumbers, RWNat, RWWord, RWAfter, One, RW!Work, RW!UpdateQuiescedOwnerCount, RW!cw
  <2>6. RWWord(q)'
    BY <1>2, <1>3, <1>4, <1>6 DEF RWWord, RW!UpdateQuiescedOwnerCount, RW!cw
  <2>7. Sole([rwTodo EXCEPT ![t] = RW!Work("takeReaders", 0)], HelpWork, RW!Work("takeReaders", 0))
    <3>1. RW!Work("takeReaders", 0) \in HelpWork
      BY RWWorkIs DEF AddOps, HelpOps, MoveOps, PostOps, TakeOps
    <3>2. x \notin HelpWork
      BY <1>2, <1>4, <1>6, WriterGoneSum, RWNone DEF RWNumbers
    <3> QED
      BY <1>2, <1>3, <3>1, <3>2, SoleNext DEF RWTyped
  <2>8. Sole([rwTodo EXCEPT ![t] = RW!Work("takeReaders", 0)], DisplaceWork, y)
    <3>1. RW!Work("takeReaders", 0) \notin DisplaceWork
      BY RWWorkIs DEF AddOps, HelpOps, MoveOps, PostOps, TakeOps
    <3> QED
      BY <1>2, <1>3, <3>1, RWIdle, SoleSame DEF RWTyped
  <2> QED
    BY <1>2, <2>1, <2>2, <2>5, <2>6, <2>7, <2>8, RWStep
<1> QED
  BY <1>5, <1>6

\* A reader that leaves takes itself out of m_cOwner.
LEMMA RWReaderGone ==
    ASSUME RWInv, NEW t \in Thread, RW!UpdateQuiescedOwnerCount(t),
           rwTodo[t].op = "addAsReader", rwTodo[t].n = -1
    PROVE  RWInv'
<1>1. PICK q \in {"free", "readers", "writer", "both"}, x \in RWWork, y \in RWWork :
         RWState(q, x, y)
  BY DEF RWInv
<1>2. /\ RWTyped /\ RWPlaces /\ RWWord(q) /\ RWNumbers(q, x, y) /\ RWNat
      /\ Sole(rwTodo, HelpWork, x) /\ Sole(rwTodo, DisplaceWork, y)
  BY <1>1, RWParts
<1>3. /\ lock[t] = "none" /\ RW!UpdateQuiescedOwnerCount(t)
      /\ rwTodo[t].op = "addAsReader" /\ rwTodo[t].n = -1
      /\ rwTodo[t] \notin HelpWork /\ rwTodo[t] \notin DisplaceWork
  BY <1>2 DEF RWPlaces, PlaceOK, HelpWork, DisplaceWork, HelpOps, TakeOps, MoveOps, PostOps, AddOps
<1>4. Leavers(rwTodo, "addAsReader") > 0
  BY <1>3, LeaversSome
<1>5. CASE rwOwner - 1 # 0
  <2>1. lock' = [lock EXCEPT ![t] = "none"] /\ rwTodo' = [rwTodo EXCEPT ![t] = RW!NoWork]
    BY <1>2, <1>3, <1>4, <1>5 DEF RW!UpdateQuiescedOwnerCount, RW!cw, RWTyped, RWWord, RWNat
  <2>2. /\ "none" \in RWModes /\ RW!NoWork \in RWWork /\ x \in RWWork /\ y \in RWWork
        /\ PlaceOK("none", RW!NoWork)
    BY <1>2, <1>3, <1>5, <1>4, RWIdle DEF RWModes, RWWork, RW!Work, PlaceOK, RWTyped, RWPlaces, AddOps, HelpOps, MoveOps, PostOps, TakeOps
  <2>3. RWAfter(t, "none", "none", RW!NoWork)
    BY <1>2, <1>3, <2>1, <2>2, RWMoved
  <2>4. RWSum(q, cOOWR, cOAOWW, rwOwner - 1, semReader, semWriter,
              Held(lock, "R"), Held(lock, "W"), Held(lock, "waitR"), Held(lock, "waitW"),
              Leavers(rwTodo, "addAsReader") - 1, Leavers(rwTodo, "addAsWriter"), x.op, x.n, y.op, y.n)
    BY <1>2, <1>3, <1>4, <1>5, ReaderGoneSum DEF RWNumbers
  <2>5. RWNumbers(q, x, y)'
    BY <1>2, <1>3, <1>4, <1>5, <2>3, <2>4, RWIdle DEF RWNumbers, RWNat, RWWord, RWAfter, One, RW!Work, RW!UpdateQuiescedOwnerCount, RW!cw
  <2>6. RWWord(q)'
    BY <1>2, <1>3, <1>4, <1>5 DEF RWWord, RW!UpdateQuiescedOwnerCount, RW!cw
  <2>7. Sole([rwTodo EXCEPT ![t] = RW!NoWork], HelpWork, x)
    BY <1>2, <1>3, RWIdle, SoleSame DEF RWTyped
  <2>8. Sole([rwTodo EXCEPT ![t] = RW!NoWork], DisplaceWork, y)
    BY <1>2, <1>3, RWIdle, SoleSame DEF RWTyped
  <2> QED
    BY <1>2, <2>1, <2>2, <2>5, <2>6, <2>7, <2>8, RWStep
<1>6. CASE rwOwner - 1 = 0
  <2>1. lock' = [lock EXCEPT ![t] = "none"] /\ rwTodo' = [rwTodo EXCEPT ![t] = RW!Work("takeWriter", 0)]
    BY <1>2, <1>3, <1>4, <1>6 DEF RW!UpdateQuiescedOwnerCount, RW!cw, RWTyped, RWWord, RWNat
  <2>2. /\ "none" \in RWModes /\ RW!Work("takeWriter", 0) \in RWWork /\ RW!Work("takeWriter", 0) \in RWWork /\ y \in RWWork
        /\ PlaceOK("none", RW!Work("takeWriter", 0))
    BY <1>2, <1>3, <1>6, <1>4, RWIdle DEF RWModes, RWWork, RW!Work, PlaceOK, RWTyped, RWPlaces, AddOps, HelpOps, MoveOps, PostOps, TakeOps
  <2>3. RWAfter(t, "none", "none", RW!Work("takeWriter", 0))
    BY <1>2, <1>3, <2>1, <2>2, RWMoved
  <2>4. RWSum(q, cOOWR, cOAOWW, 0, semReader, semWriter,
              Held(lock, "R"), Held(lock, "W"), Held(lock, "waitR"), Held(lock, "waitW"),
              Leavers(rwTodo, "addAsReader") - 1, Leavers(rwTodo, "addAsWriter"), "takeWriter", 0, y.op, y.n)
    BY <1>2, <1>3, <1>4, <1>6, ReaderGoneSum DEF RWNumbers
  <2>5. RWNumbers(q, RW!Work("takeWriter", 0), y)'
    BY <1>2, <1>3, <1>4, <1>6, <2>3, <2>4, RWIdle DEF RWNumbers, RWNat, RWWord, RWAfter, One, RW!Work, RW!UpdateQuiescedOwnerCount, RW!cw
  <2>6. RWWord(q)'
    BY <1>2, <1>3, <1>4, <1>6 DEF RWWord, RW!UpdateQuiescedOwnerCount, RW!cw
  <2>7. Sole([rwTodo EXCEPT ![t] = RW!Work("takeWriter", 0)], HelpWork, RW!Work("takeWriter", 0))
    <3>1. RW!Work("takeWriter", 0) \in HelpWork
      BY RWWorkIs DEF AddOps, HelpOps, MoveOps, PostOps, TakeOps
    <3>2. x \notin HelpWork
      BY <1>2, <1>4, <1>6, ReaderGoneSum, RWNone DEF RWNumbers
    <3> QED
      BY <1>2, <1>3, <3>1, <3>2, SoleNext DEF RWTyped
  <2>8. Sole([rwTodo EXCEPT ![t] = RW!Work("takeWriter", 0)], DisplaceWork, y)
    <3>1. RW!Work("takeWriter", 0) \notin DisplaceWork
      BY RWWorkIs DEF AddOps, HelpOps, MoveOps, PostOps, TakeOps
    <3> QED
      BY <1>2, <1>3, <3>1, RWIdle, SoleSame DEF RWTyped
  <2> QED
    BY <1>2, <2>1, <2>2, <2>5, <2>6, <2>7, <2>8, RWStep
<1> QED
  BY <1>5, <1>6

\* Owners that were displaced are counted in m_cOwner.
LEMMA RWDisplaced ==
    ASSUME RWInv, NEW t \in Thread, RW!UpdateQuiescedOwnerCount(t),
           rwTodo[t].op \in AddOps, rwTodo[t].n > 0
    PROVE  RWInv'
<1>1. PICK q \in {"free", "readers", "writer", "both"}, x \in RWWork, y \in RWWork :
         RWState(q, x, y)
  BY DEF RWInv
<1>2. /\ RWTyped /\ RWPlaces /\ RWWord(q) /\ RWNumbers(q, x, y) /\ RWNat
      /\ Sole(rwTodo, HelpWork, x) /\ Sole(rwTodo, DisplaceWork, y)
  BY <1>1, RWParts
<1>3. /\ rwTodo[t] = y /\ y.op \in AddOps /\ y.n \in Int /\ y.n > 0 /\ y.op # "none"
      /\ RW!UpdateQuiescedOwnerCount(t)
      /\ rwTodo[t] \in DisplaceWork /\ rwTodo[t] \notin HelpWork
  <2>1. rwTodo[t] \in DisplaceWork /\ rwTodo[t] \notin HelpWork
    BY <1>2 DEF RWTyped, HelpWork, DisplaceWork, HelpOps, TakeOps, MoveOps, PostOps, AddOps
  <2>2. rwTodo[t] = y
    BY <1>2, <2>1, SoleIs
  <2> QED
    BY <2>1, <2>2 DEF AddOps, RWWork
<1>4. CASE rwOwner + y.n # 0
  <2>0. PICK mode \in RWModes : mode = lock[t]
    BY <1>2 DEF RWTyped
  <2>1. lock' = [lock EXCEPT ![t] = mode] /\ rwTodo' = [rwTodo EXCEPT ![t] = RW!NoWork]
    BY <1>2, <1>3, <1>4, <2>0 DEF RW!UpdateQuiescedOwnerCount, RW!cw, RWTyped, RWWord
  <2>2. /\ mode \in RWModes /\ RW!NoWork \in RWWork /\ x \in RWWork /\ RW!NoWork \in RWWork
        /\ PlaceOK(mode, RW!NoWork)
    BY <1>2, <1>3, <2>0, <1>4, RWIdle DEF RWModes, RWWork, RW!Work, PlaceOK, RWTyped, RWPlaces, AddOps, HelpOps, MoveOps, PostOps, TakeOps
  <2>3. RWAfter(t, lock[t], mode, RW!NoWork)
    BY <1>2, <1>3, <2>1, <2>2, RWMoved
  <2>4. RWSum(q, cOOWR, cOAOWW, rwOwner + y.n, semReader, semWriter,
              Held(lock, "R"), Held(lock, "W"), Held(lock, "waitR"), Held(lock, "waitW"),
              Leavers(rwTodo, "addAsReader"), Leavers(rwTodo, "addAsWriter"), x.op, x.n, "none", 0)
    BY <1>2, <1>3, <1>4, <2>0, DisplacedSum DEF RWNumbers
  <2>5. RWNumbers(q, x, RW!NoWork)'
    BY <1>2, <1>3, <1>4, <2>0, <2>3, <2>4, RWIdle DEF RWNumbers, RWNat, RWWord, RWAfter, One, RW!Work, RW!UpdateQuiescedOwnerCount, RW!cw
  <2>6. RWWord(q)'
    BY <1>2, <1>3, <1>4, <2>0 DEF RWWord, RW!UpdateQuiescedOwnerCount, RW!cw
  <2>7. Sole([rwTodo EXCEPT ![t] = RW!NoWork], HelpWork, x)
    BY <1>2, <1>3, RWIdle, SoleSame DEF RWTyped
  <2>8. Sole([rwTodo EXCEPT ![t] = RW!NoWork], DisplaceWork, RW!NoWork)
    BY <1>2, <1>3, RWIdle, SoleGone DEF RWTyped
  <2> QED
    BY <1>2, <2>1, <2>2, <2>5, <2>6, <2>7, <2>8, RWStep
<1>5. CASE rwOwner + y.n = 0 /\ y.op = "addAsWriter"
  <2>0. PICK mode \in RWModes : mode = lock[t]
    BY <1>2 DEF RWTyped
  <2>1. lock' = [lock EXCEPT ![t] = mode] /\ rwTodo' = [rwTodo EXCEPT ![t] = RW!Work("takeReaders", 0)]
    BY <1>2, <1>3, <1>5, <2>0 DEF RW!UpdateQuiescedOwnerCount, RW!cw, RWTyped, RWWord
  <2>2. /\ mode \in RWModes /\ RW!Work("takeReaders", 0) \in RWWork /\ RW!Work("takeReaders", 0) \in RWWork /\ RW!NoWork \in RWWork
        /\ PlaceOK(mode, RW!Work("takeReaders", 0))
    BY <1>2, <1>3, <2>0, <1>5, RWIdle DEF RWModes, RWWork, RW!Work, PlaceOK, RWTyped, RWPlaces, AddOps, HelpOps, MoveOps, PostOps, TakeOps
  <2>3. RWAfter(t, lock[t], mode, RW!Work("takeReaders", 0))
    BY <1>2, <1>3, <2>1, <2>2, RWMoved
  <2>4. RWSum(q, cOOWR, cOAOWW, 0, semReader, semWriter,
              Held(lock, "R"), Held(lock, "W"), Held(lock, "waitR"), Held(lock, "waitW"),
              Leavers(rwTodo, "addAsReader"), Leavers(rwTodo, "addAsWriter"), "takeReaders", 0, "none", 0)
    BY <1>2, <1>3, <1>5, <2>0, DisplacedSum DEF RWNumbers
  <2>5. RWNumbers(q, RW!Work("takeReaders", 0), RW!NoWork)'
    BY <1>2, <1>3, <1>5, <2>0, <2>3, <2>4, RWIdle DEF RWNumbers, RWNat, RWWord, RWAfter, One, RW!Work, RW!UpdateQuiescedOwnerCount, RW!cw
  <2>6. RWWord(q)'
    BY <1>2, <1>3, <1>5, <2>0 DEF RWWord, RW!UpdateQuiescedOwnerCount, RW!cw
  <2>7. Sole([rwTodo EXCEPT ![t] = RW!Work("takeReaders", 0)], HelpWork, RW!Work("takeReaders", 0))
    <3>1. RW!Work("takeReaders", 0) \in HelpWork
      BY RWWorkIs DEF AddOps, HelpOps, MoveOps, PostOps, TakeOps
    <3>2. x \notin HelpWork
      BY <1>2, <1>3, <1>5, DisplacedSum, RWNone DEF RWNumbers
    <3> QED
      BY <1>2, <1>3, <3>1, <3>2, SoleNext DEF RWTyped
  <2>8. Sole([rwTodo EXCEPT ![t] = RW!Work("takeReaders", 0)], DisplaceWork, RW!NoWork)
    <3>1. RW!Work("takeReaders", 0) \notin DisplaceWork
      BY RWWorkIs DEF AddOps, HelpOps, MoveOps, PostOps, TakeOps
    <3> QED
      BY <1>2, <1>3, <3>1, RWIdle, SoleGone DEF RWTyped
  <2> QED
    BY <1>2, <2>1, <2>2, <2>5, <2>6, <2>7, <2>8, RWStep
<1>6. CASE rwOwner + y.n = 0 /\ y.op = "addAsReader"
  <2>0. PICK mode \in RWModes : mode = lock[t]
    BY <1>2 DEF RWTyped
  <2>1. lock' = [lock EXCEPT ![t] = mode] /\ rwTodo' = [rwTodo EXCEPT ![t] = RW!Work("takeWriter", 0)]
    BY <1>2, <1>3, <1>6, <2>0 DEF RW!UpdateQuiescedOwnerCount, RW!cw, RWTyped, RWWord
  <2>2. /\ mode \in RWModes /\ RW!Work("takeWriter", 0) \in RWWork /\ RW!Work("takeWriter", 0) \in RWWork /\ RW!NoWork \in RWWork
        /\ PlaceOK(mode, RW!Work("takeWriter", 0))
    BY <1>2, <1>3, <2>0, <1>6, RWIdle DEF RWModes, RWWork, RW!Work, PlaceOK, RWTyped, RWPlaces, AddOps, HelpOps, MoveOps, PostOps, TakeOps
  <2>3. RWAfter(t, lock[t], mode, RW!Work("takeWriter", 0))
    BY <1>2, <1>3, <2>1, <2>2, RWMoved
  <2>4. RWSum(q, cOOWR, cOAOWW, 0, semReader, semWriter,
              Held(lock, "R"), Held(lock, "W"), Held(lock, "waitR"), Held(lock, "waitW"),
              Leavers(rwTodo, "addAsReader"), Leavers(rwTodo, "addAsWriter"), "takeWriter", 0, "none", 0)
    BY <1>2, <1>3, <1>6, <2>0, DisplacedSum DEF RWNumbers
  <2>5. RWNumbers(q, RW!Work("takeWriter", 0), RW!NoWork)'
    BY <1>2, <1>3, <1>6, <2>0, <2>3, <2>4, RWIdle DEF RWNumbers, RWNat, RWWord, RWAfter, One, RW!Work, RW!UpdateQuiescedOwnerCount, RW!cw
  <2>6. RWWord(q)'
    BY <1>2, <1>3, <1>6, <2>0 DEF RWWord, RW!UpdateQuiescedOwnerCount, RW!cw
  <2>7. Sole([rwTodo EXCEPT ![t] = RW!Work("takeWriter", 0)], HelpWork, RW!Work("takeWriter", 0))
    <3>1. RW!Work("takeWriter", 0) \in HelpWork
      BY RWWorkIs DEF AddOps, HelpOps, MoveOps, PostOps, TakeOps
    <3>2. x \notin HelpWork
      BY <1>2, <1>3, <1>6, DisplacedSum, RWNone DEF RWNumbers
    <3> QED
      BY <1>2, <1>3, <3>1, <3>2, SoleNext DEF RWTyped
  <2>8. Sole([rwTodo EXCEPT ![t] = RW!Work("takeWriter", 0)], DisplaceWork, RW!NoWork)
    <3>1. RW!Work("takeWriter", 0) \notin DisplaceWork
      BY RWWorkIs DEF AddOps, HelpOps, MoveOps, PostOps, TakeOps
    <3> QED
      BY <1>2, <1>3, <3>1, RWIdle, SoleGone DEF RWTyped
  <2> QED
    BY <1>2, <2>1, <2>2, <2>5, <2>6, <2>7, <2>8, RWStep
<1> QED
  BY <1>4, <1>5, <1>6, <1>3 DEF AddOps

\* The waiting readers are next.
LEMMA RWTakesReaders ==
    ASSUME RWInv, NEW t \in Thread, RW!TakeReaders(t)
    PROVE  RWInv'
<1>1. PICK q \in {"free", "readers", "writer", "both"}, x \in RWWork, y \in RWWork :
         RWState(q, x, y)
  BY DEF RWInv
<1>2. /\ RWTyped /\ RWPlaces /\ RWWord(q) /\ RWNumbers(q, x, y) /\ RWNat
      /\ Sole(rwTodo, HelpWork, x) /\ Sole(rwTodo, DisplaceWork, y)
  BY <1>1, RWParts
<1>3. /\ rwTodo[t] = x /\ x.op = "takeReaders" /\ RW!TakeReaders(t) /\ q = "both"
      /\ rwTodo[t] \in HelpWork /\ rwTodo[t] \notin DisplaceWork
  <2>1. rwTodo[t] \in HelpWork /\ rwTodo[t] \notin DisplaceWork /\ rwTodo[t].op = "takeReaders"
    BY <1>2 DEF RW!TakeReaders, RWTyped, HelpWork, DisplaceWork, HelpOps, TakeOps, MoveOps, PostOps, AddOps
  <2>2. rwTodo[t] = x
    BY <1>2, <2>1, SoleIs
  <2> QED
    BY <1>2, <2>1, <2>2, TakeReadersSum DEF RWNumbers
<1>4. CASE cOAOWW > 0
  <2>0. PICK mode \in RWModes, n \in Nat : mode = lock[t] /\ n = cOOWR
    BY <1>2 DEF RWTyped, RWNat
  <2>1. lock' = [lock EXCEPT ![t] = mode] /\ rwTodo' = [rwTodo EXCEPT ![t] = RW!Work("moveReaders", n)]
    BY <1>2, <1>3, <1>4, <2>0 DEF RW!TakeReaders, RWTyped, RWWord
  <2>2. /\ mode \in RWModes /\ RW!Work("moveReaders", n) \in RWWork /\ RW!Work("moveReaders", n) \in RWWork /\ y \in RWWork
        /\ PlaceOK(mode, RW!Work("moveReaders", n))
    BY <1>2, <1>3, <2>0, <1>4, RWIdle DEF RWModes, RWWork, RW!Work, PlaceOK, RWTyped, RWPlaces, AddOps, HelpOps, MoveOps, PostOps, TakeOps
  <2>3. RWAfter(t, lock[t], mode, RW!Work("moveReaders", n))
    BY <1>2, <1>3, <2>1, <2>2, RWMoved
  <2>4. RWSum(q, 0, cOAOWW, rwOwner, semReader, semWriter,
              Held(lock, "R"), Held(lock, "W"), Held(lock, "waitR"), Held(lock, "waitW"),
              Leavers(rwTodo, "addAsReader"), Leavers(rwTodo, "addAsWriter"), "moveReaders", n, y.op, y.n)
    BY <1>2, <1>3, <1>4, <2>0, TakeReadersSum DEF RWNumbers
  <2>5. RWNumbers(q, RW!Work("moveReaders", n), y)'
    BY <1>2, <1>3, <1>4, <2>0, <2>3, <2>4, RWIdle DEF RWNumbers, RWNat, RWWord, RWAfter, One, RW!Work, RW!TakeReaders
  <2>6. RWWord(q)'
    BY <1>2, <1>3, <1>4, <2>0 DEF RWWord, RW!TakeReaders
  <2>7. Sole([rwTodo EXCEPT ![t] = RW!Work("moveReaders", n)], HelpWork, RW!Work("moveReaders", n))
    <3>1. RW!Work("moveReaders", n) \in HelpWork
      BY <2>0, RWWorkIs DEF AddOps, HelpOps, MoveOps, PostOps, TakeOps
    <3> QED
      BY <1>2, <1>3, <3>1, SoleNext DEF RWTyped
  <2>8. Sole([rwTodo EXCEPT ![t] = RW!Work("moveReaders", n)], DisplaceWork, y)
    <3>1. RW!Work("moveReaders", n) \notin DisplaceWork
      BY <2>0, RWWorkIs DEF AddOps, HelpOps, MoveOps, PostOps, TakeOps
    <3> QED
      BY <1>2, <1>3, <3>1, RWIdle, SoleSame DEF RWTyped
  <2> QED
    BY <1>2, <2>1, <2>2, <2>5, <2>6, <2>7, <2>8, RWStep
<1>5. CASE ~(cOAOWW > 0)
  <2>0. PICK mode \in RWModes, n \in Nat : mode = lock[t] /\ n = cOOWR
    BY <1>2 DEF RWTyped, RWNat
  <2>1. lock' = [lock EXCEPT ![t] = mode] /\ rwTodo' = [rwTodo EXCEPT ![t] = RW!Work("postReaders", n)]
    BY <1>2, <1>3, <1>5, <2>0 DEF RW!TakeReaders, RWTyped, RWWord
  <2>2. /\ mode \in RWModes /\ RW!Work("postReaders", n) \in RWWork /\ RW!Work("postReaders", n) \in RWWork /\ y \in RWWork
        /\ PlaceOK(mode, RW!Work("postReaders", n))
    BY <1>2, <1>3, <2>0, <1>5, RWIdle DEF RWModes, RWWork, RW!Work, PlaceOK, RWTyped, RWPlaces, AddOps, HelpOps, MoveOps, PostOps, TakeOps
  <2>3. RWAfter(t, lock[t], mode, RW!Work("postReaders", n))
    BY <1>2, <1>3, <2>1, <2>2, RWMoved
  <2>4. RWSum("readers", cOOWR, cOAOWW, rwOwner, semReader, semWriter,
              Held(lock, "R"), Held(lock, "W"), Held(lock, "waitR"), Held(lock, "waitW"),
              Leavers(rwTodo, "addAsReader"), Leavers(rwTodo, "addAsWriter"), "postReaders", n, y.op, y.n)
    BY <1>2, <1>3, <1>5, <2>0, TakeReadersSum DEF RWNumbers
  <2>5. RWNumbers("readers", RW!Work("postReaders", n), y)'
    BY <1>2, <1>3, <1>5, <2>0, <2>3, <2>4, RWIdle DEF RWNumbers, RWNat, RWWord, RWAfter, One, RW!Work, RW!TakeReaders
  <2>6. RWWord("readers")'
    <3>1. fQR' = (cOAOWW > 0) /\ fQW' = TRUE
      BY <1>2, <1>3 DEF RW!TakeReaders, RWWord
    <3>2. (cOAOWW > 0) = FALSE
      BY <1>2, <1>5 DEF RWNat
    <3>3. fQR' = FALSE
      BY <3>1, <3>2, Zenon
    <3> QED
      BY <3>1, <3>3 DEF RWWord
  <2>7. Sole([rwTodo EXCEPT ![t] = RW!Work("postReaders", n)], HelpWork, RW!Work("postReaders", n))
    <3>1. RW!Work("postReaders", n) \in HelpWork
      BY <2>0, RWWorkIs DEF AddOps, HelpOps, MoveOps, PostOps, TakeOps
    <3> QED
      BY <1>2, <1>3, <3>1, SoleNext DEF RWTyped
  <2>8. Sole([rwTodo EXCEPT ![t] = RW!Work("postReaders", n)], DisplaceWork, y)
    <3>1. RW!Work("postReaders", n) \notin DisplaceWork
      BY <2>0, RWWorkIs DEF AddOps, HelpOps, MoveOps, PostOps, TakeOps
    <3> QED
      BY <1>2, <1>3, <3>1, RWIdle, SoleSame DEF RWTyped
  <2> QED
    BY <1>2, <2>1, <2>2, <2>5, <2>6, <2>7, <2>8, RWStep
<1> QED
  BY <1>4, <1>5, <1>3

\* A waiting writer is next.
LEMMA RWTakesWriter ==
    ASSUME RWInv, NEW t \in Thread, RW!TakeWriter(t)
    PROVE  RWInv'
<1>1. PICK q \in {"free", "readers", "writer", "both"}, x \in RWWork, y \in RWWork :
         RWState(q, x, y)
  BY DEF RWInv
<1>2. /\ RWTyped /\ RWPlaces /\ RWWord(q) /\ RWNumbers(q, x, y) /\ RWNat
      /\ Sole(rwTodo, HelpWork, x) /\ Sole(rwTodo, DisplaceWork, y)
  BY <1>1, RWParts
<1>3. /\ rwTodo[t] = x /\ x.op = "takeWriter" /\ RW!TakeWriter(t) /\ q = "both"
      /\ rwTodo[t] \in HelpWork /\ rwTodo[t] \notin DisplaceWork
  <2>1. rwTodo[t] \in HelpWork /\ rwTodo[t] \notin DisplaceWork /\ rwTodo[t].op = "takeWriter"
    BY <1>2 DEF RW!TakeWriter, RWTyped, HelpWork, DisplaceWork, HelpOps, TakeOps, MoveOps, PostOps, AddOps
  <2>2. rwTodo[t] = x
    BY <1>2, <2>1, SoleIs
  <2> QED
    BY <1>2, <2>1, <2>2, TakeWriterSum DEF RWNumbers
<1>4. CASE cOOWR > 0
  <2>0. PICK mode \in RWModes : mode = lock[t]
    BY <1>2 DEF RWTyped
  <2>1. lock' = [lock EXCEPT ![t] = mode] /\ rwTodo' = [rwTodo EXCEPT ![t] = RW!Work("moveWriter", 1)]
    BY <1>2, <1>3, <1>4, <2>0 DEF RW!TakeWriter, RWTyped, RWWord
  <2>2. /\ mode \in RWModes /\ RW!Work("moveWriter", 1) \in RWWork /\ RW!Work("moveWriter", 1) \in RWWork /\ y \in RWWork
        /\ PlaceOK(mode, RW!Work("moveWriter", 1))
    BY <1>2, <1>3, <2>0, <1>4, RWIdle DEF RWModes, RWWork, RW!Work, PlaceOK, RWTyped, RWPlaces, AddOps, HelpOps, MoveOps, PostOps, TakeOps
  <2>3. RWAfter(t, lock[t], mode, RW!Work("moveWriter", 1))
    BY <1>2, <1>3, <2>1, <2>2, RWMoved
  <2>4. RWSum(q, cOOWR, cOAOWW - 1, rwOwner, semReader, semWriter,
              Held(lock, "R"), Held(lock, "W"), Held(lock, "waitR"), Held(lock, "waitW"),
              Leavers(rwTodo, "addAsReader"), Leavers(rwTodo, "addAsWriter"), "moveWriter", 1, y.op, y.n)
    BY <1>2, <1>3, <1>4, <2>0, TakeWriterSum DEF RWNumbers
  <2>5. RWNumbers(q, RW!Work("moveWriter", 1), y)'
    BY <1>2, <1>3, <1>4, <2>0, <2>3, <2>4, RWIdle DEF RWNumbers, RWNat, RWWord, RWAfter, One, RW!Work, RW!TakeWriter
  <2>6. RWWord(q)'
    BY <1>2, <1>3, <1>4, <2>0 DEF RWWord, RW!TakeWriter
  <2>7. Sole([rwTodo EXCEPT ![t] = RW!Work("moveWriter", 1)], HelpWork, RW!Work("moveWriter", 1))
    <3>1. RW!Work("moveWriter", 1) \in HelpWork
      BY RWWorkIs DEF AddOps, HelpOps, MoveOps, PostOps, TakeOps
    <3> QED
      BY <1>2, <1>3, <3>1, SoleNext DEF RWTyped
  <2>8. Sole([rwTodo EXCEPT ![t] = RW!Work("moveWriter", 1)], DisplaceWork, y)
    <3>1. RW!Work("moveWriter", 1) \notin DisplaceWork
      BY RWWorkIs DEF AddOps, HelpOps, MoveOps, PostOps, TakeOps
    <3> QED
      BY <1>2, <1>3, <3>1, RWIdle, SoleSame DEF RWTyped
  <2> QED
    BY <1>2, <2>1, <2>2, <2>5, <2>6, <2>7, <2>8, RWStep
<1>5. CASE ~(cOOWR > 0)
  <2>0. PICK mode \in RWModes : mode = lock[t]
    BY <1>2 DEF RWTyped
  <2>1. lock' = [lock EXCEPT ![t] = mode] /\ rwTodo' = [rwTodo EXCEPT ![t] = RW!Work("postWriter", 1)]
    BY <1>2, <1>3, <1>5, <2>0 DEF RW!TakeWriter, RWTyped, RWWord
  <2>2. /\ mode \in RWModes /\ RW!Work("postWriter", 1) \in RWWork /\ RW!Work("postWriter", 1) \in RWWork /\ y \in RWWork
        /\ PlaceOK(mode, RW!Work("postWriter", 1))
    BY <1>2, <1>3, <2>0, <1>5, RWIdle DEF RWModes, RWWork, RW!Work, PlaceOK, RWTyped, RWPlaces, AddOps, HelpOps, MoveOps, PostOps, TakeOps
  <2>3. RWAfter(t, lock[t], mode, RW!Work("postWriter", 1))
    BY <1>2, <1>3, <2>1, <2>2, RWMoved
  <2>4. RWSum("writer", cOOWR, cOAOWW, rwOwner, semReader, semWriter,
              Held(lock, "R"), Held(lock, "W"), Held(lock, "waitR"), Held(lock, "waitW"),
              Leavers(rwTodo, "addAsReader"), Leavers(rwTodo, "addAsWriter"), "postWriter", 1, y.op, y.n)
    BY <1>2, <1>3, <1>5, <2>0, TakeWriterSum DEF RWNumbers
  <2>5. RWNumbers("writer", RW!Work("postWriter", 1), y)'
    BY <1>2, <1>3, <1>5, <2>0, <2>3, <2>4, RWIdle DEF RWNumbers, RWNat, RWWord, RWAfter, One, RW!Work, RW!TakeWriter
  <2>6. RWWord("writer")'
    <3>1. fQW' = (cOOWR > 0) /\ fQR' = TRUE
      BY <1>2, <1>3 DEF RW!TakeWriter, RWWord
    <3>2. (cOOWR > 0) = FALSE
      BY <1>2, <1>5 DEF RWNat
    <3>3. fQW' = FALSE
      BY <3>1, <3>2, Zenon
    <3> QED
      BY <3>1, <3>3 DEF RWWord
  <2>7. Sole([rwTodo EXCEPT ![t] = RW!Work("postWriter", 1)], HelpWork, RW!Work("postWriter", 1))
    <3>1. RW!Work("postWriter", 1) \in HelpWork
      BY RWWorkIs DEF AddOps, HelpOps, MoveOps, PostOps, TakeOps
    <3> QED
      BY <1>2, <1>3, <3>1, SoleNext DEF RWTyped
  <2>8. Sole([rwTodo EXCEPT ![t] = RW!Work("postWriter", 1)], DisplaceWork, y)
    <3>1. RW!Work("postWriter", 1) \notin DisplaceWork
      BY RWWorkIs DEF AddOps, HelpOps, MoveOps, PostOps, TakeOps
    <3> QED
      BY <1>2, <1>3, <3>1, RWIdle, SoleSame DEF RWTyped
  <2> QED
    BY <1>2, <2>1, <2>2, <2>5, <2>6, <2>7, <2>8, RWStep
<1> QED
  BY <1>4, <1>5, <1>3

\* The new owners are counted in m_cOwner.
LEMMA RWMovesOwners ==
    ASSUME RWInv, NEW t \in Thread, RW!MoveToOwners(t)
    PROVE  RWInv'
<1>1. PICK q \in {"free", "readers", "writer", "both"}, x \in RWWork, y \in RWWork :
         RWState(q, x, y)
  BY DEF RWInv
<1>2. /\ RWTyped /\ RWPlaces /\ RWWord(q) /\ RWNumbers(q, x, y) /\ RWNat
      /\ Sole(rwTodo, HelpWork, x) /\ Sole(rwTodo, DisplaceWork, y)
  BY <1>1, RWParts
<1>3. /\ rwTodo[t] = x /\ x.op \in {"moveReaders", "moveWriter"} /\ x.n \in Int /\ RW!MoveToOwners(t)
      /\ rwTodo[t] \in HelpWork /\ rwTodo[t] \notin DisplaceWork
  <2>1. rwTodo[t] \in HelpWork /\ rwTodo[t] \notin DisplaceWork /\ rwTodo[t].op \in {"moveReaders", "moveWriter"}
    BY <1>2 DEF RW!MoveToOwners, RWTyped, HelpWork, DisplaceWork, HelpOps, TakeOps, MoveOps, PostOps, AddOps
  <2>2. rwTodo[t] = x
    BY <1>2, <2>1, SoleIs
  <2> QED
    BY <2>1, <2>2 DEF RWWork
<1>4. CASE x.op = "moveReaders"
  <2>0. PICK mode \in RWModes : mode = lock[t]
    BY <1>2 DEF RWTyped
  <2>1. lock' = [lock EXCEPT ![t] = mode] /\ rwTodo' = [rwTodo EXCEPT ![t] = RW!Work("postReaders", x.n)]
    BY <1>2, <1>3, <1>4, <2>0 DEF RW!MoveToOwners, RW!cw, RWTyped, RWWord, RWWork, RW!Work
  <2>2. /\ mode \in RWModes /\ RW!Work("postReaders", x.n) \in RWWork /\ RW!Work("postReaders", x.n) \in RWWork /\ y \in RWWork
        /\ PlaceOK(mode, RW!Work("postReaders", x.n))
    BY <1>2, <1>3, <2>0, <1>4, RWIdle DEF RWModes, RWWork, RW!Work, PlaceOK, RWTyped, RWPlaces, AddOps, HelpOps, MoveOps, PostOps, TakeOps
  <2>3. RWAfter(t, lock[t], mode, RW!Work("postReaders", x.n))
    BY <1>2, <1>3, <2>1, <2>2, RWMoved
  <2>4. RWSum(q, cOOWR, cOAOWW, rwOwner + x.n, semReader, semWriter,
              Held(lock, "R"), Held(lock, "W"), Held(lock, "waitR"), Held(lock, "waitW"),
              Leavers(rwTodo, "addAsReader"), Leavers(rwTodo, "addAsWriter"), "postReaders", x.n, y.op, y.n)
    BY <1>2, <1>3, <1>4, <2>0, MoveSum DEF RWNumbers
  <2>5. RWNumbers(q, RW!Work("postReaders", x.n), y)'
    BY <1>2, <1>3, <1>4, <2>0, <2>3, <2>4, RWIdle DEF RWNumbers, RWNat, RWWord, RWAfter, One, RW!Work, RW!MoveToOwners, RW!cw
  <2>6. RWWord(q)'
    BY <1>2, <1>3, <1>4, <2>0 DEF RWWord, RW!MoveToOwners, RW!cw
  <2>7. Sole([rwTodo EXCEPT ![t] = RW!Work("postReaders", x.n)], HelpWork, RW!Work("postReaders", x.n))
    <3>1. RW!Work("postReaders", x.n) \in HelpWork
      BY <1>3, RWWorkIs DEF AddOps, HelpOps, MoveOps, PostOps, TakeOps
    <3> QED
      BY <1>2, <1>3, <3>1, SoleNext DEF RWTyped
  <2>8. Sole([rwTodo EXCEPT ![t] = RW!Work("postReaders", x.n)], DisplaceWork, y)
    <3>1. RW!Work("postReaders", x.n) \notin DisplaceWork
      BY <1>3, RWWorkIs DEF AddOps, HelpOps, MoveOps, PostOps, TakeOps
    <3> QED
      BY <1>2, <1>3, <3>1, RWIdle, SoleSame DEF RWTyped
  <2> QED
    BY <1>2, <2>1, <2>2, <2>5, <2>6, <2>7, <2>8, RWStep
<1>5. CASE x.op = "moveWriter"
  <2>0. PICK mode \in RWModes : mode = lock[t]
    BY <1>2 DEF RWTyped
  <2>1. lock' = [lock EXCEPT ![t] = mode] /\ rwTodo' = [rwTodo EXCEPT ![t] = RW!Work("postWriter", x.n)]
    BY <1>2, <1>3, <1>5, <2>0 DEF RW!MoveToOwners, RW!cw, RWTyped, RWWord, RWWork, RW!Work
  <2>2. /\ mode \in RWModes /\ RW!Work("postWriter", x.n) \in RWWork /\ RW!Work("postWriter", x.n) \in RWWork /\ y \in RWWork
        /\ PlaceOK(mode, RW!Work("postWriter", x.n))
    BY <1>2, <1>3, <2>0, <1>5, RWIdle DEF RWModes, RWWork, RW!Work, PlaceOK, RWTyped, RWPlaces, AddOps, HelpOps, MoveOps, PostOps, TakeOps
  <2>3. RWAfter(t, lock[t], mode, RW!Work("postWriter", x.n))
    BY <1>2, <1>3, <2>1, <2>2, RWMoved
  <2>4. RWSum(q, cOOWR, cOAOWW, rwOwner + x.n, semReader, semWriter,
              Held(lock, "R"), Held(lock, "W"), Held(lock, "waitR"), Held(lock, "waitW"),
              Leavers(rwTodo, "addAsReader"), Leavers(rwTodo, "addAsWriter"), "postWriter", x.n, y.op, y.n)
    BY <1>2, <1>3, <1>5, <2>0, MoveSum DEF RWNumbers
  <2>5. RWNumbers(q, RW!Work("postWriter", x.n), y)'
    BY <1>2, <1>3, <1>5, <2>0, <2>3, <2>4, RWIdle DEF RWNumbers, RWNat, RWWord, RWAfter, One, RW!Work, RW!MoveToOwners, RW!cw
  <2>6. RWWord(q)'
    BY <1>2, <1>3, <1>5, <2>0 DEF RWWord, RW!MoveToOwners, RW!cw
  <2>7. Sole([rwTodo EXCEPT ![t] = RW!Work("postWriter", x.n)], HelpWork, RW!Work("postWriter", x.n))
    <3>1. RW!Work("postWriter", x.n) \in HelpWork
      BY <1>3, RWWorkIs DEF AddOps, HelpOps, MoveOps, PostOps, TakeOps
    <3> QED
      BY <1>2, <1>3, <3>1, SoleNext DEF RWTyped
  <2>8. Sole([rwTodo EXCEPT ![t] = RW!Work("postWriter", x.n)], DisplaceWork, y)
    <3>1. RW!Work("postWriter", x.n) \notin DisplaceWork
      BY <1>3, RWWorkIs DEF AddOps, HelpOps, MoveOps, PostOps, TakeOps
    <3> QED
      BY <1>2, <1>3, <3>1, RWIdle, SoleSame DEF RWTyped
  <2> QED
    BY <1>2, <2>1, <2>2, <2>5, <2>6, <2>7, <2>8, RWStep
<1> QED
  BY <1>4, <1>5, <1>3

\* The new readers are released.
LEMMA RWPostsReaders ==
    ASSUME RWInv, NEW t \in Thread, RW!PostReaders(t)
    PROVE  RWInv'
<1>1. PICK q \in {"free", "readers", "writer", "both"}, x \in RWWork, y \in RWWork :
         RWState(q, x, y)
  BY DEF RWInv
<1>2. /\ RWTyped /\ RWPlaces /\ RWWord(q) /\ RWNumbers(q, x, y) /\ RWNat
      /\ Sole(rwTodo, HelpWork, x) /\ Sole(rwTodo, DisplaceWork, y)
  BY <1>1, RWParts
<1>3. /\ rwTodo[t] = x /\ x.op \in {"postReaders"} /\ x.n \in Int /\ RW!PostReaders(t)
      /\ rwTodo[t] \in HelpWork /\ rwTodo[t] \notin DisplaceWork
  <2>1. rwTodo[t] \in HelpWork /\ rwTodo[t] \notin DisplaceWork /\ rwTodo[t].op \in {"postReaders"}
    BY <1>2 DEF RW!PostReaders, RWTyped, HelpWork, DisplaceWork, HelpOps, TakeOps, MoveOps, PostOps, AddOps
  <2>2. rwTodo[t] = x
    BY <1>2, <2>1, SoleIs
  <2> QED
    BY <2>1, <2>2 DEF RWWork
<1>4. CASE x.op = "postReaders"
  <2>0. PICK mode \in RWModes : mode = lock[t]
    BY <1>2 DEF RWTyped
  <2>1. lock' = [lock EXCEPT ![t] = mode] /\ rwTodo' = [rwTodo EXCEPT ![t] = RW!NoWork]
    BY <1>2, <1>3, <1>4, <2>0 DEF RW!PostReaders, RW!cw, RWTyped, RWWord
  <2>2. /\ mode \in RWModes /\ RW!NoWork \in RWWork /\ RW!NoWork \in RWWork /\ y \in RWWork
        /\ PlaceOK(mode, RW!NoWork)
    BY <1>2, <1>3, <2>0, <1>4, RWIdle DEF RWModes, RWWork, RW!Work, PlaceOK, RWTyped, RWPlaces, AddOps, HelpOps, MoveOps, PostOps, TakeOps
  <2>3. RWAfter(t, lock[t], mode, RW!NoWork)
    BY <1>2, <1>3, <2>1, <2>2, RWMoved
  <2>4. RWSum(q, cOOWR, cOAOWW, rwOwner, semReader + x.n, semWriter,
              Held(lock, "R"), Held(lock, "W"), Held(lock, "waitR"), Held(lock, "waitW"),
              Leavers(rwTodo, "addAsReader"), Leavers(rwTodo, "addAsWriter"), "none", 0, y.op, y.n)
    BY <1>2, <1>3, <1>4, <2>0, PostSum DEF RWNumbers
  <2>5. RWNumbers(q, RW!NoWork, y)'
    BY <1>2, <1>3, <1>4, <2>0, <2>3, <2>4, RWIdle DEF RWNumbers, RWNat, RWWord, RWAfter, One, RW!Work, RW!PostReaders, RW!cw
  <2>6. RWWord(q)'
    BY <1>2, <1>3, <1>4, <2>0 DEF RWWord, RW!PostReaders, RW!cw
  <2>7. Sole([rwTodo EXCEPT ![t] = RW!NoWork], HelpWork, RW!NoWork)
    BY <1>2, <1>3, RWIdle, SoleGone DEF RWTyped
  <2>8. Sole([rwTodo EXCEPT ![t] = RW!NoWork], DisplaceWork, y)
    BY <1>2, <1>3, RWIdle, SoleSame DEF RWTyped
  <2> QED
    BY <1>2, <2>1, <2>2, <2>5, <2>6, <2>7, <2>8, RWStep
<1> QED
  BY <1>4, <1>3

\* The new writer is released.
LEMMA RWPostsWriter ==
    ASSUME RWInv, NEW t \in Thread, RW!PostWriter(t)
    PROVE  RWInv'
<1>1. PICK q \in {"free", "readers", "writer", "both"}, x \in RWWork, y \in RWWork :
         RWState(q, x, y)
  BY DEF RWInv
<1>2. /\ RWTyped /\ RWPlaces /\ RWWord(q) /\ RWNumbers(q, x, y) /\ RWNat
      /\ Sole(rwTodo, HelpWork, x) /\ Sole(rwTodo, DisplaceWork, y)
  BY <1>1, RWParts
<1>3. /\ rwTodo[t] = x /\ x.op \in {"postWriter"} /\ x.n \in Int /\ RW!PostWriter(t)
      /\ rwTodo[t] \in HelpWork /\ rwTodo[t] \notin DisplaceWork
  <2>1. rwTodo[t] \in HelpWork /\ rwTodo[t] \notin DisplaceWork /\ rwTodo[t].op \in {"postWriter"}
    BY <1>2 DEF RW!PostWriter, RWTyped, HelpWork, DisplaceWork, HelpOps, TakeOps, MoveOps, PostOps, AddOps
  <2>2. rwTodo[t] = x
    BY <1>2, <2>1, SoleIs
  <2> QED
    BY <2>1, <2>2 DEF RWWork
<1>4. CASE x.op = "postWriter"
  <2>0. PICK mode \in RWModes : mode = lock[t]
    BY <1>2 DEF RWTyped
  <2>1. lock' = [lock EXCEPT ![t] = mode] /\ rwTodo' = [rwTodo EXCEPT ![t] = RW!NoWork]
    BY <1>2, <1>3, <1>4, <2>0 DEF RW!PostWriter, RW!cw, RWTyped, RWWord
  <2>2. /\ mode \in RWModes /\ RW!NoWork \in RWWork /\ RW!NoWork \in RWWork /\ y \in RWWork
        /\ PlaceOK(mode, RW!NoWork)
    BY <1>2, <1>3, <2>0, <1>4, RWIdle DEF RWModes, RWWork, RW!Work, PlaceOK, RWTyped, RWPlaces, AddOps, HelpOps, MoveOps, PostOps, TakeOps
  <2>3. RWAfter(t, lock[t], mode, RW!NoWork)
    BY <1>2, <1>3, <2>1, <2>2, RWMoved
  <2>4. RWSum(q, cOOWR, cOAOWW, rwOwner, semReader, semWriter + 1,
              Held(lock, "R"), Held(lock, "W"), Held(lock, "waitR"), Held(lock, "waitW"),
              Leavers(rwTodo, "addAsReader"), Leavers(rwTodo, "addAsWriter"), "none", 0, y.op, y.n)
    BY <1>2, <1>3, <1>4, <2>0, PostSum DEF RWNumbers
  <2>5. RWNumbers(q, RW!NoWork, y)'
    BY <1>2, <1>3, <1>4, <2>0, <2>3, <2>4, RWIdle DEF RWNumbers, RWNat, RWWord, RWAfter, One, RW!Work, RW!PostWriter, RW!cw
  <2>6. RWWord(q)'
    BY <1>2, <1>3, <1>4, <2>0 DEF RWWord, RW!PostWriter, RW!cw
  <2>7. Sole([rwTodo EXCEPT ![t] = RW!NoWork], HelpWork, RW!NoWork)
    BY <1>2, <1>3, RWIdle, SoleGone DEF RWTyped
  <2>8. Sole([rwTodo EXCEPT ![t] = RW!NoWork], DisplaceWork, y)
    BY <1>2, <1>3, RWIdle, SoleSame DEF RWTyped
  <2> QED
    BY <1>2, <2>1, <2>2, <2>5, <2>6, <2>7, <2>8, RWStep
<1> QED
  BY <1>4, <1>3

\* Every step of the lock keeps it.
LEMMA RWNextInv ==
    ASSUME RWInv, RW!Next
    PROVE  RWInv'
<1>1. PICK t \in Thread : RW!Enter(t) \/ RW!Leave(t) \/ RW!HandOver(t) \/ RW!Wait(t)
  BY DEF RW!Next
<1>2. CASE RW!Enter(t)
  BY <1>2, RWWriterEnters, RWReaderEnters DEF RW!Enter
<1>3. CASE RW!Leave(t)
  BY <1>3, RWWriterLeaves, RWReaderLeaves DEF RW!Leave
<1>4. CASE RW!HandOver(t)
  <2>1. CASE RW!UpdateQuiescedOwnerCount(t)
    <3>1. RWPlaces /\ rwTodo[t].op \in AddOps
      BY <2>1 DEF RWInv, RWState, RW!UpdateQuiescedOwnerCount, AddOps
    <3>2. rwTodo[t].n = -1 \/ rwTodo[t].n > 0
      BY <3>1 DEF RWPlaces, PlaceOK
    <3>3. CASE rwTodo[t].n = -1 /\ rwTodo[t].op = "addAsWriter"
      BY <2>1, <3>3, RWWriterGone
    <3>4. CASE rwTodo[t].n = -1 /\ rwTodo[t].op = "addAsReader"
      BY <2>1, <3>4, RWReaderGone
    <3>5. CASE rwTodo[t].n > 0
      BY <2>1, <3>1, <3>5, RWDisplaced
    <3> QED
      BY <3>1, <3>2, <3>3, <3>4, <3>5 DEF AddOps
  <2>2. CASE RW!TakeReaders(t) \/ RW!TakeWriter(t)
    BY <2>2, RWTakesReaders, RWTakesWriter
  <2>3. CASE RW!MoveToOwners(t) \/ RW!PostReaders(t) \/ RW!PostWriter(t)
    BY <2>3, RWMovesOwners, RWPostsReaders, RWPostsWriter
  <2> QED
    BY <1>4, <2>1, <2>2, <2>3 DEF RW!HandOver
<1>5. CASE RW!Wait(t)
  BY <1>5, RWWaits
<1> QED
  BY <1>1, <1>2, <1>3, <1>4, <1>5

\* It holds of a new lock.
LEMMA RWInitInv ==
    ASSUME RW!Init
    PROVE  RWInv
<1>1. \A t \in Thread : lock[t] = "none" /\ rwTodo[t] = RW!NoWork
  BY DEF RW!Init
<1>2. RWTyped
  BY RWIdle DEF RW!Init, RWTyped, RWModes
<1>3. RWPlaces
  BY <1>1, RWIdle DEF RWPlaces, RWModes
<1>4. RWWord("free")
  BY DEF RW!Init, RWWord
<1>5. Sole(rwTodo, HelpWork, RW!NoWork) /\ Sole(rwTodo, DisplaceWork, RW!NoWork)
  BY <1>1, RWIdle DEF Sole
<1>6. \A what \in RWModes \ {"none"} : Held(lock, what) = 0
  <2>1. ASSUME NEW what \in RWModes \ {"none"} PROVE {t \in Thread : lock[t] = what} = {}
    BY <1>1
  <2> QED
    BY <2>1, FS_EmptySet DEF Held
<1>7. \A op \in AddOps : Leavers(rwTodo, op) = 0
  <2>1. ASSUME NEW op \in AddOps PROVE {t \in Thread : rwTodo[t].op = op /\ rwTodo[t].n = -1} = {}
    BY <1>1, RWIdle DEF AddOps
  <2> QED
    BY <2>1, FS_EmptySet DEF Leavers
<1>8. RWSum("free", 0, 0, 0, 0, 0, 0, 0, 0, 0, 0, 0, "none", 0, "none", 0)
  BY DEF RWSum, RWTypes, ToReaders, ToWriter, ToOwners, HelpOps, TakeOps, MoveOps, PostOps, AddOps
<1>9. RWNumbers("free", RW!NoWork, RW!NoWork)
  <2>1. /\ cOOWR = 0 /\ cOAOWW = 0 /\ rwOwner = 0 /\ semReader = 0 /\ semWriter = 0
        /\ Held(lock, "R") = 0 /\ Held(lock, "W") = 0
        /\ Held(lock, "waitR") = 0 /\ Held(lock, "waitW") = 0
        /\ Leavers(rwTodo, "addAsReader") = 0 /\ Leavers(rwTodo, "addAsWriter") = 0
    BY <1>6, <1>7 DEF RW!Init, RWModes, AddOps
  <2> QED
    BY <1>8, <2>1, RWIdle DEF RWNumbers
<1> QED
  BY <1>2, <1>3, <1>4, <1>5, <1>9, RWIdle DEF RWInv, RWState

-----------------------------------------------------------------------------
(* The reader / writer lock: its properties *)

\* The instance counts as this module does.
LEMMA RWCardinality == \A S : RW!Cardinality(S) = Cardinality(S)
BY DEF RW!Cardinality, Cardinality, RW!IsFiniteSet, IsFiniteSet

\* The counts of the properties are those of the invariant.
LEMMA RWCounted ==
    /\ \A what : RW!Count(what) = Held(lock, what)
    /\ \A op : RW!Cardinality(RW!Leaving(op)) = Leavers(rwTodo, op)
<1>1. \A op : RW!Leaving(op) = {t \in Thread : rwTodo[t].op = op /\ rwTodo[t].n = -1}
  BY DEF RW!Leaving, RW!Doing
<1> QED
  BY <1>1, RWCardinality DEF RW!Count, RW!Who, Held, Leavers

\* What the one thread with work of S owes, if its work is of T.
LEMMA OwedBySole ==
    ASSUME NEW S, NEW x, Sole(rwTodo, S, x), NEW D \in SUBSET Thread, NEW T,
           \A u \in D : rwTodo[u] \in S,
           \A u \in Thread : rwTodo[u] = x => (u \in D <=> x \in T),
           x \in T => x \in S
    PROVE  /\ RW!Owed(D) = IF x \in T THEN x.n ELSE 0
           /\ D = {} <=> x \notin T
           /\ \A u \in D : rwTodo[u] = x
<1>1. \A u \in D : rwTodo[u] = x /\ x \in S
  BY SoleIs
<1>2. CASE x \in T
  <2>1. PICK h \in Thread : rwTodo[h] = x /\ \A u \in Thread \ {h} : rwTodo[u] \notin S
    BY <1>2 DEF Sole
  <2>2. D = {h}
    BY <1>2, <2>1
  <2>3. (CHOOSE u \in D : TRUE) = h
    BY <2>2
  <2> QED
    BY <1>1, <1>2, <2>1, <2>2, <2>3 DEF RW!Owed
<1>3. CASE x \notin T
  <2>1. D = {}
    BY <1>1, <1>3
  <2> QED
    BY <1>1, <1>3, <2>1 DEF RW!Owed
<1> QED
  BY <1>2, <1>3

\* What the threads of the lock have to do, in the state (q, x, y).
RWTells(x, y) ==
    /\ x \in HelpWork <=> x.op # "none"
    /\ y \in DisplaceWork <=> y.op # "none"
    /\ RW!Owed(RW!Doing({"moveReaders", "postReaders"})) = ToReaders(x.op, x.n)
    /\ RW!Owed(RW!Doing({"moveWriter", "postWriter"})) = ToWriter(x.op, x.n)
    /\ RW!Owed(RW!Doing({"moveReaders", "moveWriter"})) = ToOwners(x.op, x.n)
    /\ RW!Owed(RW!Displacing) = IF y.op # "none" THEN y.n ELSE 0
    /\ RW!Displacing = {} <=> y.op = "none"
    /\ \A u \in RW!Displacing : rwTodo[u] = y
    /\ RW!Doing({"moveReaders", "moveWriter"}) = {} <=> x.op \notin MoveOps
    /\ RW!Doing({"takeReaders", "takeWriter"}) = {} <=> x.op \notin TakeOps
    /\ RW!Doing({"takeReaders"}) = {} <=> x.op # "takeReaders"
    /\ RW!Doing({"takeWriter"}) = {} <=> x.op # "takeWriter"

\* The invariant says what they have to do.
LEMMA RWTellsWork ==
    ASSUME NEW q, NEW x \in RWWork, NEW y \in RWWork, RWState(q, x, y)
    PROVE  RWTells(x, y)
<1>1. /\ RWTyped /\ RWPlaces /\ RWNumbers(q, x, y)
      /\ Sole(rwTodo, HelpWork, x) /\ Sole(rwTodo, DisplaceWork, y)
  BY RWParts
<1>2. /\ x \in HelpWork <=> x.op # "none"
      /\ y \in DisplaceWork <=> y.op # "none"
  <2>1. /\ x.op \in HelpOps \cup {"none"}
        /\ y.op \in AddOps \cup {"none"}
        /\ y.op # "none" => y.n > 0
    BY <1>1 DEF RWNumbers, RWSum, RWTypes
  <2> QED
    BY <2>1 DEF HelpWork, DisplaceWork, HelpOps, TakeOps, MoveOps, PostOps, AddOps
<1>3. ASSUME NEW ops \in SUBSET HelpOps
      PROVE  /\ RW!Owed(RW!Doing(ops)) = IF x.op \in ops THEN x.n ELSE 0
             /\ RW!Doing(ops) = {} <=> x.op \notin ops
  <2> DEFINE D == {u \in Thread : rwTodo[u].op \in ops}
             T == {z \in RWWork : z.op \in ops}
  <2>1. RW!Doing(ops) = D
    BY DEF RW!Doing
  <2>2. D \in SUBSET Thread /\ \A u \in D : rwTodo[u] \in HelpWork
    BY <1>1 DEF RWTyped, HelpWork
  <2>3. \A u \in Thread : rwTodo[u] = x => (u \in D <=> x \in T)
    OBVIOUS
  <2>4. (x \in T => x \in HelpWork) /\ (x \in T <=> x.op \in ops)
    BY DEF HelpWork
  <2> HIDE DEF D, T
  <2>5. /\ RW!Owed(D) = IF x \in T THEN x.n ELSE 0
        /\ D = {} <=> x \notin T
    BY <1>1, <2>2, <2>3, <2>4, OwedBySole
  <2> QED
    BY <2>1, <2>4, <2>5
<1>4. /\ RW!Owed(RW!Displacing) = IF y.op # "none" THEN y.n ELSE 0
      /\ RW!Displacing = {} <=> y.op = "none"
      /\ \A u \in RW!Displacing : rwTodo[u] = y
  <2> DEFINE D == {u \in Thread : rwTodo[u].op \in AddOps /\ rwTodo[u].n > 0}
  <2>1. RW!Displacing = D
    BY DEF RW!Displacing, RW!Doing, AddOps
  <2>2. D \in SUBSET Thread /\ \A u \in D : rwTodo[u] \in DisplaceWork
    BY <1>1 DEF RWTyped, DisplaceWork
  <2>3. \A u \in Thread : rwTodo[u] = y => (u \in D <=> y \in DisplaceWork)
    BY DEF DisplaceWork
  <2> HIDE DEF D
  <2>4. /\ RW!Owed(D) = IF y \in DisplaceWork THEN y.n ELSE 0
        /\ D = {} <=> y \notin DisplaceWork
        /\ \A u \in D : rwTodo[u] = y
    BY <1>1, <2>2, <2>3, OwedBySole
  <2> QED
    BY <1>2, <2>1, <2>4
<1> QED
  BY <1>2, <1>3, <1>4 DEF RWTells, ToReaders, ToWriter, ToOwners, HelpOps, TakeOps, MoveOps, PostOps

\* The counts agree.
LEMMA RWAgrees ==
    ASSUME RWInv
    PROVE  RW!TypeOK /\ RW!CountsAgree
<1>1. PICK q \in {"free", "readers", "writer", "both"}, x \in RWWork, y \in RWWork :
         RWState(q, x, y)
  BY DEF RWInv
<1>2. /\ RWTyped /\ RWPlaces /\ RWWord(q) /\ RWNumbers(q, x, y) /\ RWNat
      /\ Sole(rwTodo, HelpWork, x) /\ Sole(rwTodo, DisplaceWork, y)
  BY <1>1, RWParts
<1>3. RWTells(x, y)
  BY <1>1, RWTellsWork
<1>4. /\ RW!OutReaders = Held(lock, "R") + Leavers(rwTodo, "addAsReader") + semReader
                           + ToReaders(x.op, x.n)
      /\ RW!OutWriters = Held(lock, "W") + Leavers(rwTodo, "addAsWriter") + semWriter
                           + ToWriter(x.op, x.n)
  BY <1>3, RWCounted DEF RWTells, RW!OutReaders, RW!OutWriters
<1>5. RW!TypeOK
  BY <1>2 DEF RW!TypeOK, RWTyped, RWModes, RWWork, RWNat, RWWord
<1>6. RW!LegalState
  BY <1>2 DEF RW!LegalState, RWWord, RWNumbers, RWSum
<1>7. RW!OneAtATime
  <2>1. ASSUME NEW t \in RW!Helping, NEW u \in RW!Helping PROVE t = u
    <3>1. t \in Thread /\ u \in Thread /\ rwTodo[t] \in HelpWork /\ rwTodo[u] \in HelpWork
      BY <1>2 DEF RW!Helping, RW!Doing, RWTyped, HelpWork, HelpOps, TakeOps, MoveOps, PostOps
    <3> QED
      BY <1>2, <3>1, SoleIs
  <2>2. ASSUME NEW t \in RW!Displacing, NEW u \in RW!Displacing PROVE t = u
    <3>1. t \in Thread /\ u \in Thread /\ rwTodo[t] \in DisplaceWork /\ rwTodo[u] \in DisplaceWork
      BY <1>2 DEF RW!Displacing, RW!Doing, RWTyped, DisplaceWork, AddOps
    <3> QED
      BY <1>2, <3>1, SoleIs
  <2>3. \A t \in Thread : rwTodo[t].op \in {"addAsReader", "addAsWriter"} =>
          \/ rwTodo[t].n = -1 /\ lock[t] = "none"
          \/ rwTodo[t].n > 0 /\ lock[t] = IF rwTodo[t].op = "addAsReader" THEN "waitW" ELSE "waitR"
    BY <1>2 DEF RWPlaces, PlaceOK, AddOps
  <2>4. \A t \in RW!Helping : lock[t] \in {"none", "waitR", "waitW"}
    BY <1>2 DEF RWPlaces, PlaceOK, RW!Helping, RW!Doing, HelpOps, TakeOps, MoveOps, PostOps
  <2> QED
    BY <2>1, <2>2, <2>3, <2>4 DEF RW!OneAtATime
<1>8. RW!WaitersCounted
  <2>1. /\ Held(lock, "waitR") = semReader + ToReaders(x.op, x.n)
                                   + (IF q \in {"writer", "both"} THEN cOOWR ELSE 0)
        /\ Held(lock, "waitW") = semWriter + ToWriter(x.op, x.n)
              + (IF q \in {"readers", "both"} THEN cOAOWW ELSE IF q = "writer" THEN cOAOWW - 1 ELSE 0)
    BY <1>2 DEF RWNumbers, RWSum
  <2>2. /\ RW!Count("waitR") = Held(lock, "waitR") /\ RW!Count("waitW") = Held(lock, "waitW")
    BY RWCounted
  <2>3. /\ RW!Owed(RW!Doing({"moveReaders", "postReaders"})) = ToReaders(x.op, x.n)
        /\ RW!Owed(RW!Doing({"moveWriter", "postWriter"})) = ToWriter(x.op, x.n)
    BY <1>3 DEF RWTells
  <2> QED
    BY <1>2, <2>1, <2>2, <2>3 DEF RW!WaitersCounted, RWWord
<1>9. RW!OwnersCounted
  <2> DEFINE oR == RW!OutReaders
             oW == RW!OutWriters
  <2>1. /\ oR = 0 \/ oW = 0
        /\ oW <= 1
        /\ q # "both" => /\ rwOwner = 0 /\ y.op = "none"
                         /\ Leavers(rwTodo, "addAsReader") = 0
                         /\ Leavers(rwTodo, "addAsWriter") = 0
                         /\ x.op \notin TakeOps \cup MoveOps
                         /\ oR = cOOWR /\ oW = IF q = "writer" THEN 1 ELSE 0
        /\ q = "both" =>
              /\ rwOwner + (IF y.op = "none" THEN 0 ELSE y.n) + ToOwners(x.op, x.n) = oR + oW
              /\ oR > 0 => cOAOWW > 0
              /\ oW > 0 => cOOWR > 0
              /\ y.op # "none" => /\ rwOwner <= 0
                                  /\ IF y.op = "addAsReader" THEN oW = 0 /\ cOAOWW > 0
                                                             ELSE oR = 0 /\ cOOWR > 0
              /\ x.op \in MoveOps => rwOwner = 0 /\ y.op = "none"
              /\ x.op \in TakeOps => /\ oR + oW = 0 /\ y.op = "none"
                                     /\ x.op = "takeReaders" => cOOWR > 0
                                     /\ x.op = "takeWriter" => cOAOWW > 0
              /\ oR + oW = 0 => x.op \in TakeOps \/ y.op # "none"
    BY <1>2, <1>4 DEF RWNumbers, RWSum
  <2> HIDE DEF oR, oW
  <2>2. (fQR /\ fQW) <=> q = "both"
    BY <1>2 DEF RWWord
  <2>3. q # "both" => (IF fQR THEN 1 ELSE 0) = (IF q = "writer" THEN 1 ELSE 0)
    BY <1>2 DEF RWWord
  <2>4. ASSUME q # "both"
        PROVE  RW!Doing({"addAsReader", "addAsWriter", "takeReaders", "takeWriter",
                         "moveReaders", "moveWriter"}) = {}
    <3>1. RW!Doing({"takeReaders", "takeWriter"}) = {} /\ RW!Doing({"moveReaders", "moveWriter"}) = {}
      BY <1>3, <2>1, <2>4 DEF RWTells
    <3>2. RW!Displacing = {}
      BY <1>3, <2>1, <2>4 DEF RWTells
    <3>3. ASSUME NEW t \in Thread, rwTodo[t].op \in AddOps PROVE FALSE
      <4>1. rwTodo[t].n = -1
        BY <1>2, <3>2, <3>3 DEF RW!Displacing, RW!Doing, RWPlaces, PlaceOK, AddOps
      <4>2. Leavers(rwTodo, rwTodo[t].op) > 0
        BY <4>1, LeaversSome
      <4> QED
        BY <2>1, <2>4, <3>3, <4>2 DEF AddOps
    <3> QED
      BY <3>1, <3>3 DEF RW!Doing, AddOps
  <2>5. ASSUME q # "both"
        PROVE  /\ rwOwner = 0 /\ RW!Displacing = {}
               /\ RW!Doing({"addAsReader", "addAsWriter", "takeReaders", "takeWriter",
                            "moveReaders", "moveWriter"}) = {}
               /\ oR = cOOWR /\ oW = IF fQR THEN 1 ELSE 0
    BY <1>3, <2>1, <2>3, <2>4, <2>5 DEF RWTells
  <2>6. ASSUME q = "both"
        PROVE  /\ rwOwner + RW!Owed(RW!Displacing) + RW!Owed(RW!Doing({"moveReaders", "moveWriter"}))
                    = oR + oW
               /\ oR > 0 => cOAOWW > 0
               /\ oW > 0 => cOOWR > 0
    BY <1>3, <2>1, <2>6 DEF RWTells
  <2>7. ASSUME q = "both", NEW t \in RW!Displacing
        PROVE  /\ rwOwner <= 0
               /\ IF rwTodo[t].op = "addAsReader" THEN oW = 0 /\ cOAOWW > 0
                                                  ELSE oR = 0 /\ cOOWR > 0
    BY <1>3, <2>1, <2>7 DEF RWTells
  <2>8. ASSUME q = "both"
        PROVE  /\ RW!Doing({"moveReaders", "moveWriter"}) # {} => rwOwner = 0
               /\ RW!Doing({"takeReaders", "takeWriter"}) # {} =>
                     /\ oR + oW = 0
                     /\ RW!Displacing = {}
                     /\ RW!Doing({"takeReaders"}) # {} => cOOWR > 0
                     /\ RW!Doing({"takeWriter"}) # {} => cOAOWW > 0
               /\ oR + oW = 0 => RW!Doing({"takeReaders", "takeWriter"}) \cup RW!Displacing # {}
    BY <1>3, <2>1, <2>8 DEF RWTells
  <2> QED
    BY <2>1, <2>2, <2>5, <2>6, <2>7, <2>8 DEF RW!OwnersCounted, oR, oW
<1> QED
  BY <1>5, <1>6, <1>7, <1>8, <1>9 DEF RW!CountsAgree

\* Nobody waits in vain, and no count is left over.
LEMMA RWWakes ==
    ASSUME RWInv
    PROVE  RW!NoLostWakeup /\ RW!NoSpareCount
<1>1. PICK q \in {"free", "readers", "writer", "both"}, x \in RWWork, y \in RWWork :
         RWState(q, x, y)
  BY DEF RWInv
<1>2. /\ RWTyped /\ RWPlaces /\ RWWord(q) /\ RWNumbers(q, x, y) /\ RWNat
      /\ Sole(rwTodo, HelpWork, x) /\ Sole(rwTodo, DisplaceWork, y)
  BY <1>1, RWParts
<1>3. RW!NoSpareCount
  <2>1. semReader <= Held(lock, "waitR") /\ semWriter <= Held(lock, "waitW")
    BY <1>2, SpareSum DEF RWNumbers
  <2> QED
    BY <2>1, RWCounted DEF RW!NoSpareCount
<1>4. ASSUME RW!Who("waitR") \cup RW!Who("waitW") # {}, RW!Who("R") \cup RW!Who("W") = {},
             ~(semReader + semWriter > 0), RW!Doing({"none"}) = Thread
      PROVE  FALSE
  <2>1. Held(lock, "R") = 0 /\ Held(lock, "W") = 0
    <3>1. {t \in Thread : lock[t] = "R"} = {} /\ {t \in Thread : lock[t] = "W"} = {}
      BY <1>4 DEF RW!Who
    <3> QED
      BY <3>1, FS_EmptySet DEF Held
  <2>2. Held(lock, "waitR") > 0 \/ Held(lock, "waitW") > 0
    BY <1>4, HeldSome DEF RW!Who
  <2>3. \A t \in Thread : rwTodo[t].op = "none"
    BY <1>4 DEF RW!Doing
  <2>4. Leavers(rwTodo, "addAsReader") = 0 /\ Leavers(rwTodo, "addAsWriter") = 0
    <3>1. /\ {t \in Thread : rwTodo[t].op = "addAsReader" /\ rwTodo[t].n = -1} = {}
          /\ {t \in Thread : rwTodo[t].op = "addAsWriter" /\ rwTodo[t].n = -1} = {}
      BY <2>3
    <3> QED
      BY <3>1, FS_EmptySet DEF Leavers
  <2>5. x.op = "none" /\ y.op = "none"
    <3>1. x \notin HelpWork /\ y \notin DisplaceWork
      BY <1>2, <2>3 DEF Sole, HelpWork, DisplaceWork, HelpOps, TakeOps, MoveOps, PostOps, AddOps
    <3>2. RWTells(x, y)
      BY <1>1, RWTellsWork
    <3> QED
      BY <3>1, <3>2 DEF RWTells
  <2>6. semReader = 0 /\ semWriter = 0
    BY <1>2, <1>4 DEF RWNat
  <2>7. Held(lock, "waitR") = 0 /\ Held(lock, "waitW") = 0
    BY <1>2, <2>1, <2>4, <2>5, <2>6, WakeSum DEF RWNumbers
  <2> QED
    BY <2>2, <2>7
<1> QED
  BY <1>3, <1>4 DEF RW!NoLostWakeup

\* Readers and a writer, or two writers, do not own the lock at once.
RWCoexist == \A t \in Thread : \A u \in Thread \ {t} : lock[t] = "W" => lock[u] \notin {"R", "W"}

\* Owners do not conflict: the numbers say so.
LEMMA RWExcludes ==
    ASSUME RWInv
    PROVE  RWCoexist
<1>1. PICK q \in {"free", "readers", "writer", "both"}, x \in RWWork, y \in RWWork :
         RWState(q, x, y)
  BY DEF RWInv
<1>2. RWNumbers(q, x, y) /\ RWNat
  BY <1>1, RWParts
<1>3. Held(lock, "W") <= 1 /\ (Held(lock, "R") = 0 \/ Held(lock, "W") = 0)
  BY <1>2, ExcludeSum DEF RWNumbers
<1>4. SUFFICES ASSUME NEW t \in Thread, NEW u \in Thread \ {t}, lock[t] = "W", lock[u] \in {"R", "W"}
               PROVE  FALSE
  BY DEF RWCoexist
<1>5. Held(lock, "W") > 0
  BY <1>4, HeldSome
<1>6. CASE lock[u] = "R"
  <2>1. Held(lock, "R") > 0
    BY <1>6, HeldSome
  <2> QED
    BY <1>2, <1>3, <1>5, <2>1 DEF RWNat
<1>7. CASE lock[u] = "W"
  <2> DEFINE A == {v \in Thread : lock[v] = "W"}
  <2>1. t \in A /\ u \in A /\ t # u /\ A \in SUBSET Thread
    BY <1>4, <1>7
  <2> HIDE DEF A
  <2>2. Cardinality(A) >= 2
    BY <2>1, CountTwo
  <2>3. Held(lock, "W") >= 2
    BY <2>2 DEF Held, A
  <2> QED
    BY <1>2, <1>3, <2>3 DEF RWNat
<1> QED
  BY <1>4, <1>6, <1>7

\* The mode in which a thread owns the latch that its clients see.
RWMode(what) == CASE what = "R" -> "S" [] what = "W" -> "W" [] OTHER -> "none"

\* One thread at a time changes what it owns or waits for.
LEMMA RWOneMover ==
    ASSUME RWTyped, RW!Next
    PROVE  \E t \in Thread, what \in RWModes : lock' = [lock EXCEPT ![t] = what]
<1>1. PICK t \in Thread : RW!Enter(t) \/ RW!Leave(t) \/ RW!HandOver(t) \/ RW!Wait(t)
  BY DEF RW!Next
<1>2. CASE RW!Enter(t)
  BY <1>2 DEF RW!Enter, RW!EnterAsWriter, RW!FTryEnterAsWriter, RW!EnterAsReader,
              RW!FTryEnterAsReader, RWModes
<1>3. CASE RW!Leave(t)
  BY <1>3 DEF RW!Leave, RW!LeaveAsWriter, RW!LeaveAsReader, RWModes
<1>4. CASE RW!HandOver(t)
  <2>1. lock' = lock
    BY <1>4 DEF RW!HandOver, RW!UpdateQuiescedOwnerCount, RW!TakeReaders, RW!TakeWriter,
                RW!MoveToOwners, RW!PostReaders, RW!PostWriter
  <2>2. lock' = [lock EXCEPT ![t] = lock[t]] /\ lock[t] \in RWModes
    BY <2>1 DEF RWTyped
  <2> QED
    BY <2>2
<1>5. CASE RW!Wait(t)
  BY <1>5 DEF RW!Wait, RW!WaitAsReader, RW!WaitAsWriter, RWModes
<1> QED
  BY <1>1, <1>2, <1>3, <1>4, <1>5

\* Every step of the lock is a step of the latch, or one that its clients do not see.
LEMMA RWClientStep ==
    ASSUME RWInv, RWInv', RW!Next \/ lock' = lock
    PROVE  [RW!Client!Next]_[t \in Thread |-> CASE lock[t] = "R" -> "S" [] lock[t] = "W" -> "W"
                                                [] OTHER -> "none"]
<1>1. CASE lock' = lock
  BY <1>1
<1>2. CASE RW!Next
  <2>0. RWTyped /\ RWTyped' /\ RWCoexist'
    <3>1. RWCoexist'
      BY RWExcludes, PTL
    <3> QED
      BY <3>1 DEF RWInv, RWState
  <2>1. PICK t \in Thread, what \in RWModes : lock' = [lock EXCEPT ![t] = what]
    BY <1>2, <2>0, RWOneMover
  <2>2. lock'[t] = what /\ \A u \in Thread \ {t} : lock'[u] = lock[u]
    BY <2>0, <2>1 DEF RWTyped
  <2>3. [u \in Thread |-> RWMode(lock'[u])]
          = [[u \in Thread |-> RWMode(lock[u])] EXCEPT ![t] = RWMode(what)]
    BY <2>2
  <2>4. ASSUME NEW u \in Thread \ {t}
        PROVE  RW!Client!Compatible(RWMode(what), RWMode(lock[u]))
    <3>1. /\ what = "W" => lock[u] \notin {"R", "W"}
          /\ lock[u] = "W" => what \notin {"R", "W"}
      BY <2>0, <2>2 DEF RWCoexist
    <3>2. lock[u] \in RWModes
      BY <2>0 DEF RWTyped
    <3> QED
      BY <3>1, <3>2 DEF RW!Client!Compatible, RWMode, RWModes
  <2>5. RWMode(what) \in RW!Client!Modes
    BY DEF RWMode, RW!Client!Modes
  <2>6. RW!Client!Change(t, RWMode(what))
    BY <2>3, <2>4 DEF RW!Client!Change, RWMode
  <2> QED
    BY <2>5, <2>6 DEF RW!Client!Next
<1> QED
  BY <1>1, <1>2

-----------------------------------------------------------------------------
(* The binary lock: its numbers *)

BLHelpOps == {"letIn", "moveOwners", "post"}
Sides == {"mine", "theirs"}

\* Counts on their way to a side, and to m_cOwner.
ToSide(side, hop, hg, hn) == IF hop \in {"moveOwners", "post"} /\ hg = side THEN hn ELSE 0
ToMOwner(hop, hn) == IF hop = "moveOwners" THEN hn ELSE 0

BLTypes(q, c1, c2, own, s1, s2, n1, n2, w1, w2, l1, l2, hop, hg, hn, dop, dg, dn) ==
    /\ q \in {"free", "mine", "theirs", "both"}
    /\ c1 \in Nat /\ c2 \in Nat /\ own \in Int /\ s1 \in Nat /\ s2 \in Nat
    /\ n1 \in Nat /\ n2 \in Nat /\ w1 \in Nat /\ w2 \in Nat /\ l1 \in Nat /\ l2 \in Nat
    /\ hop \in BLHelpOps \cup {"none"} /\ hg \in Sides /\ hn \in Int
    /\ dop \in {"addOwners", "none"} /\ dg \in Sides /\ dn \in Int

\* The numbers behind the lock, as one group sees them, "mine" before "theirs": who
\* owns according to the control word, its counts, m_cOwner, the semaphores; owners,
\* waiters, and those that leave through m_cOwner; what the one thread that hands
\* over has to do, and what the one that displaced owners has to add.
BLSum(q, c1, c2, own, s1, s2, n1, n2, w1, w2, l1, l2, hop, hg, hn, dop, dg, dn) ==
    LET out1 == n1 + l1 + s1 + ToSide("mine", hop, hg, hn)
        out2 == n2 + l2 + s2 + ToSide("theirs", hop, hg, hn)
    IN  /\ BLTypes(q, c1, c2, own, s1, s2, n1, n2, w1, w2, l1, l2, hop, hg, hn, dop, dg, dn)
        /\ q = "free" => c1 = 0 /\ c2 = 0
        /\ q = "mine" => c1 > 0 /\ c2 = 0
        /\ q = "theirs" => c1 = 0 /\ c2 > 0
        /\ q = "both" => c1 > 0 \/ c2 > 0
        /\ w1 = s1 + ToSide("mine", hop, hg, hn) + (IF q \in {"theirs", "both"} THEN c1 ELSE 0)
        /\ w2 = s2 + ToSide("theirs", hop, hg, hn) + (IF q \in {"mine", "both"} THEN c2 ELSE 0)
        /\ out1 = 0 \/ out2 = 0
        /\ hop \in {"moveOwners", "post"} => hn > 0
        /\ dop # "none" => dn > 0
        /\ q # "both" => /\ own = 0 /\ dop = "none" /\ l1 = 0 /\ l2 = 0
                         /\ hop \notin {"letIn", "moveOwners"}
                         /\ out1 = (IF q = "mine" THEN c1 ELSE 0)
                         /\ out2 = (IF q = "theirs" THEN c2 ELSE 0)
        /\ q = "both" =>
              /\ own + (IF dop = "none" THEN 0 ELSE dn) + ToMOwner(hop, hn) = out1 + out2
              /\ out1 > 0 => c2 > 0
              /\ out2 > 0 => c1 > 0
              /\ dop # "none" => /\ own <= 0
                                 /\ IF dg = "mine" THEN out2 = 0 /\ c2 > 0
                                                   ELSE out1 = 0 /\ c1 > 0
              /\ hop = "moveOwners" => own = 0 /\ dop = "none"
              /\ hop = "letIn" => /\ out1 + out2 = 0 /\ dop = "none"
                                  /\ IF hg = "mine" THEN c2 > 0 ELSE c1 > 0
              /\ out1 + out2 = 0 => hop = "letIn" \/ dop # "none"

\* The other side.
Flip(s) == IF s = "mine" THEN "theirs" ELSE IF s = "theirs" THEN "mine" ELSE s

\* Both groups see the same.
LEMMA FlipSum ==
    ASSUME NEW q, NEW c1, NEW c2, NEW own, NEW s1, NEW s2, NEW n1, NEW n2, NEW w1, NEW w2,
           NEW l1, NEW l2, NEW hop, NEW hg, NEW hn, NEW dop, NEW dg, NEW dn,
           BLSum(q, c1, c2, own, s1, s2, n1, n2, w1, w2, l1, l2, hop, hg, hn, dop, dg, dn)
    PROVE  /\ BLSum(Flip(q), c2, c1, own, s2, s1, n2, n1, w2, w1, l2, l1, hop, Flip(hg), hn, dop, Flip(dg), dn)
<1>1. /\ q \in {"free", "mine", "theirs", "both"}
      /\ c1 \in Nat /\ c2 \in Nat /\ own \in Int /\ s1 \in Nat /\ s2 \in Nat
      /\ n1 \in Nat /\ n2 \in Nat /\ w1 \in Nat /\ w2 \in Nat /\ l1 \in Nat /\ l2 \in Nat
      /\ hop \in BLHelpOps \cup {"none"} /\ hg \in Sides /\ hn \in Int
      /\ dop \in {"addOwners", "none"} /\ dg \in Sides /\ dn \in Int
  BY DEF BLSum, BLTypes
<1> QED
  BY <1>1 DEF BLSum, BLTypes, ToSide, ToMOwner, BLHelpOps, Sides, Flip

\* A thread enters, or waits.
LEMMA EnterSum ==
    ASSUME NEW q, NEW c1, NEW c2, NEW own, NEW s1, NEW s2, NEW n1, NEW n2, NEW w1, NEW w2,
           NEW l1, NEW l2, NEW hop, NEW hg, NEW hn, NEW dop, NEW dg, NEW dn,
           BLSum(q, c1, c2, own, s1, s2, n1, n2, w1, w2, l1, l2, hop, hg, hn, dop, dg, dn)
    PROVE  /\ q \in {"free", "mine"} =>
                BLSum("mine", c1 + 1, c2, own, s1, s2, n1 + 1, n2, w1, w2, l1, l2, hop, hg, hn, dop, dg, dn)
           /\ q = "both" =>
                BLSum(q, c1 + 1, c2, own, s1, s2, n1, n2, w1 + 1, w2, l1, l2, hop, hg, hn, dop, dg, dn)
           /\ q = "theirs" =>
                /\ dop = "none"
                /\ BLSum("both", c1 + 1, 0, own, s1, s2, n1, n2, w1 + 1, w2, l1, l2, hop, hg, hn, "addOwners", "theirs", c2)
<1>1. /\ q \in {"free", "mine", "theirs", "both"}
      /\ c1 \in Nat /\ c2 \in Nat /\ own \in Int /\ s1 \in Nat /\ s2 \in Nat
      /\ n1 \in Nat /\ n2 \in Nat /\ w1 \in Nat /\ w2 \in Nat /\ l1 \in Nat /\ l2 \in Nat
      /\ hop \in BLHelpOps \cup {"none"} /\ hg \in Sides /\ hn \in Int
      /\ dop \in {"addOwners", "none"} /\ dg \in Sides /\ dn \in Int
  BY DEF BLSum, BLTypes
<1> QED
  BY <1>1 DEF BLSum, BLTypes, ToSide, ToMOwner, BLHelpOps, Sides, Flip

\* An owner leaves: through m_cOwner, before others, or as the last one.
LEMMA LeaveSum ==
    ASSUME NEW q, NEW c1, NEW c2, NEW own, NEW s1, NEW s2, NEW n1, NEW n2, NEW w1, NEW w2,
           NEW l1, NEW l2, NEW hop, NEW hg, NEW hn, NEW dop, NEW dg, NEW dn,
           BLSum(q, c1, c2, own, s1, s2, n1, n2, w1, w2, l1, l2, hop, hg, hn, dop, dg, dn),
           n1 > 0
    PROVE  /\ q \in {"mine", "both"}
           /\ q = "both" =>
                BLSum(q, c1, c2, own, s1, s2, n1 - 1, n2, w1, w2, l1 + 1, l2, hop, hg, hn, dop, dg, dn)
           /\ q = "mine" /\ c1 > 1 =>
                BLSum(q, c1 - 1, c2, own, s1, s2, n1 - 1, n2, w1, w2, l1, l2, hop, hg, hn, dop, dg, dn)
           /\ q = "mine" /\ ~(c1 > 1) =>
                BLSum("free", c1 - 1, c2, own, s1, s2, n1 - 1, n2, w1, w2, l1, l2, hop, hg, hn, dop, dg, dn)
<1>1. /\ q \in {"free", "mine", "theirs", "both"}
      /\ c1 \in Nat /\ c2 \in Nat /\ own \in Int /\ s1 \in Nat /\ s2 \in Nat
      /\ n1 \in Nat /\ n2 \in Nat /\ w1 \in Nat /\ w2 \in Nat /\ l1 \in Nat /\ l2 \in Nat
      /\ hop \in BLHelpOps \cup {"none"} /\ hg \in Sides /\ hn \in Int
      /\ dop \in {"addOwners", "none"} /\ dg \in Sides /\ dn \in Int
  BY DEF BLSum, BLTypes
<1> QED
  BY <1>1 DEF BLSum, BLTypes, ToSide, ToMOwner, BLHelpOps, Sides, Flip

\* An owner that leaves takes itself out of m_cOwner; after the last, the others follow.
LEMMA GoneSum ==
    ASSUME NEW q, NEW c1, NEW c2, NEW own, NEW s1, NEW s2, NEW n1, NEW n2, NEW w1, NEW w2,
           NEW l1, NEW l2, NEW hop, NEW hg, NEW hn, NEW dop, NEW dg, NEW dn,
           BLSum(q, c1, c2, own, s1, s2, n1, n2, w1, w2, l1, l2, hop, hg, hn, dop, dg, dn),
           l1 > 0
    PROVE  /\ own - 1 # 0 =>
                BLSum(q, c1, c2, own - 1, s1, s2, n1, n2, w1, w2, l1 - 1, l2, hop, hg, hn, dop, dg, dn)
           /\ own - 1 = 0 =>
                /\ hop = "none"
                /\ BLSum(q, c1, c2, 0, s1, s2, n1, n2, w1, w2, l1 - 1, l2, "letIn", "mine", 0, dop, dg, dn)
<1>1. /\ q \in {"free", "mine", "theirs", "both"}
      /\ c1 \in Nat /\ c2 \in Nat /\ own \in Int /\ s1 \in Nat /\ s2 \in Nat
      /\ n1 \in Nat /\ n2 \in Nat /\ w1 \in Nat /\ w2 \in Nat /\ l1 \in Nat /\ l2 \in Nat
      /\ hop \in BLHelpOps \cup {"none"} /\ hg \in Sides /\ hn \in Int
      /\ dop \in {"addOwners", "none"} /\ dg \in Sides /\ dn \in Int
  BY DEF BLSum, BLTypes
<1> QED
  BY <1>1 DEF BLSum, BLTypes, ToSide, ToMOwner, BLHelpOps, Sides, Flip

\* Nobody hands over when the last owner that leaves takes itself out.
LEMMA GoneLastSum ==
    ASSUME NEW q, NEW c1, NEW c2, NEW own, NEW s1, NEW s2, NEW n1, NEW n2, NEW w1, NEW w2,
           NEW l1, NEW l2, NEW hop, NEW hg, NEW hn, NEW dop, NEW dg, NEW dn,
           BLSum(q, c1, c2, own, s1, s2, n1, n2, w1, w2, l1, l2, hop, hg, hn, dop, dg, dn),
           l1 > 0,
           own - 1 = 0
    PROVE  /\ hop = "none"
<1>1. /\ q \in {"free", "mine", "theirs", "both"}
      /\ c1 \in Nat /\ c2 \in Nat /\ own \in Int /\ s1 \in Nat /\ s2 \in Nat
      /\ n1 \in Nat /\ n2 \in Nat /\ w1 \in Nat /\ w2 \in Nat /\ l1 \in Nat /\ l2 \in Nat
      /\ hop \in BLHelpOps \cup {"none"} /\ hg \in Sides /\ hn \in Int
      /\ dop \in {"addOwners", "none"} /\ dg \in Sides /\ dn \in Int
  BY DEF BLSum, BLTypes
<1> QED
  BY <1>1 DEF BLSum, BLTypes, ToSide, ToMOwner, BLHelpOps, Sides, Flip

\* Displaced owners are added to m_cOwner; if they have left already, the others follow.
LEMMA DisplaceSum ==
    ASSUME NEW q, NEW c1, NEW c2, NEW own, NEW s1, NEW s2, NEW n1, NEW n2, NEW w1, NEW w2,
           NEW l1, NEW l2, NEW hop, NEW hg, NEW hn, NEW dop, NEW dg, NEW dn,
           BLSum(q, c1, c2, own, s1, s2, n1, n2, w1, w2, l1, l2, hop, hg, hn, dop, dg, dn),
           dop # "none",
           dg = "mine",
           NEW e \in Sides
    PROVE  /\ own + dn # 0 =>
                BLSum(q, c1, c2, own + dn, s1, s2, n1, n2, w1, w2, l1, l2, hop, hg, hn, "none", e, 0)
           /\ own + dn = 0 =>
                /\ hop = "none"
                /\ BLSum(q, c1, c2, 0, s1, s2, n1, n2, w1, w2, l1, l2, "letIn", "mine", 0, "none", e, 0)
<1>1. /\ q \in {"free", "mine", "theirs", "both"}
      /\ c1 \in Nat /\ c2 \in Nat /\ own \in Int /\ s1 \in Nat /\ s2 \in Nat
      /\ n1 \in Nat /\ n2 \in Nat /\ w1 \in Nat /\ w2 \in Nat /\ l1 \in Nat /\ l2 \in Nat
      /\ hop \in BLHelpOps \cup {"none"} /\ hg \in Sides /\ hn \in Int
      /\ dop \in {"addOwners", "none"} /\ dg \in Sides /\ dn \in Int
  BY DEF BLSum, BLTypes
<1> QED
  BY <1>1 DEF BLSum, BLTypes, ToSide, ToMOwner, BLHelpOps, Sides, Flip

\* Nobody hands over when the last displaced owner has left.
LEMMA DisplaceLastSum ==
    ASSUME NEW q, NEW c1, NEW c2, NEW own, NEW s1, NEW s2, NEW n1, NEW n2, NEW w1, NEW w2,
           NEW l1, NEW l2, NEW hop, NEW hg, NEW hn, NEW dop, NEW dg, NEW dn,
           BLSum(q, c1, c2, own, s1, s2, n1, n2, w1, w2, l1, l2, hop, hg, hn, dop, dg, dn),
           dop # "none",
           own + dn = 0
    PROVE  /\ hop = "none"
<1>1. /\ q \in {"free", "mine", "theirs", "both"}
      /\ c1 \in Nat /\ c2 \in Nat /\ own \in Int /\ s1 \in Nat /\ s2 \in Nat
      /\ n1 \in Nat /\ n2 \in Nat /\ w1 \in Nat /\ w2 \in Nat /\ l1 \in Nat /\ l2 \in Nat
      /\ hop \in BLHelpOps \cup {"none"} /\ hg \in Sides /\ hn \in Int
      /\ dop \in {"addOwners", "none"} /\ dg \in Sides /\ dn \in Int
  BY DEF BLSum, BLTypes
<1> QED
  BY <1>1 DEF BLSum, BLTypes, ToSide, ToMOwner, BLHelpOps, Sides, Flip

\* The other group is let in: counted in m_cOwner, or in the control word.
LEMMA LetInSum ==
    ASSUME NEW q, NEW c1, NEW c2, NEW own, NEW s1, NEW s2, NEW n1, NEW n2, NEW w1, NEW w2,
           NEW l1, NEW l2, NEW hop, NEW hg, NEW hn, NEW dop, NEW dg, NEW dn,
           BLSum(q, c1, c2, own, s1, s2, n1, n2, w1, w2, l1, l2, hop, hg, hn, dop, dg, dn),
           hop = "letIn",
           hg = "mine"
    PROVE  /\ q = "both"
           /\ c1 > 0 =>
                BLSum(q, c1, 0, own, s1, s2, n1, n2, w1, w2, l1, l2, "moveOwners", "theirs", c2, dop, dg, dn)
           /\ ~(c1 > 0) =>
                BLSum("theirs", c1, c2, own, s1, s2, n1, n2, w1, w2, l1, l2, "post", "theirs", c2, dop, dg, dn)
<1>1. /\ q \in {"free", "mine", "theirs", "both"}
      /\ c1 \in Nat /\ c2 \in Nat /\ own \in Int /\ s1 \in Nat /\ s2 \in Nat
      /\ n1 \in Nat /\ n2 \in Nat /\ w1 \in Nat /\ w2 \in Nat /\ l1 \in Nat /\ l2 \in Nat
      /\ hop \in BLHelpOps \cup {"none"} /\ hg \in Sides /\ hn \in Int
      /\ dop \in {"addOwners", "none"} /\ dg \in Sides /\ dn \in Int
  BY DEF BLSum, BLTypes
<1> QED
  BY <1>1 DEF BLSum, BLTypes, ToSide, ToMOwner, BLHelpOps, Sides, Flip

\* The new owners are added to m_cOwner.
LEMMA MoveOwnersSum ==
    ASSUME NEW q, NEW c1, NEW c2, NEW own, NEW s1, NEW s2, NEW n1, NEW n2, NEW w1, NEW w2,
           NEW l1, NEW l2, NEW hop, NEW hg, NEW hn, NEW dop, NEW dg, NEW dn,
           BLSum(q, c1, c2, own, s1, s2, n1, n2, w1, w2, l1, l2, hop, hg, hn, dop, dg, dn),
           hop = "moveOwners",
           hg = "mine"
    PROVE  /\ BLSum(q, c1, c2, own + hn, s1, s2, n1, n2, w1, w2, l1, l2, "post", hg, hn, dop, dg, dn)
<1>1. /\ q \in {"free", "mine", "theirs", "both"}
      /\ c1 \in Nat /\ c2 \in Nat /\ own \in Int /\ s1 \in Nat /\ s2 \in Nat
      /\ n1 \in Nat /\ n2 \in Nat /\ w1 \in Nat /\ w2 \in Nat /\ l1 \in Nat /\ l2 \in Nat
      /\ hop \in BLHelpOps \cup {"none"} /\ hg \in Sides /\ hn \in Int
      /\ dop \in {"addOwners", "none"} /\ dg \in Sides /\ dn \in Int
  BY DEF BLSum, BLTypes
<1> QED
  BY <1>1 DEF BLSum, BLTypes, ToSide, ToMOwner, BLHelpOps, Sides, Flip

\* Counts are put into the semaphore.
LEMMA PostOwnersSum ==
    ASSUME NEW q, NEW c1, NEW c2, NEW own, NEW s1, NEW s2, NEW n1, NEW n2, NEW w1, NEW w2,
           NEW l1, NEW l2, NEW hop, NEW hg, NEW hn, NEW dop, NEW dg, NEW dn,
           BLSum(q, c1, c2, own, s1, s2, n1, n2, w1, w2, l1, l2, hop, hg, hn, dop, dg, dn),
           hop = "post",
           hg = "mine",
           NEW e \in Sides
    PROVE  /\ BLSum(q, c1, c2, own, s1 + hn, s2, n1, n2, w1, w2, l1, l2, "none", e, 0, dop, dg, dn)
<1>1. /\ q \in {"free", "mine", "theirs", "both"}
      /\ c1 \in Nat /\ c2 \in Nat /\ own \in Int /\ s1 \in Nat /\ s2 \in Nat
      /\ n1 \in Nat /\ n2 \in Nat /\ w1 \in Nat /\ w2 \in Nat /\ l1 \in Nat /\ l2 \in Nat
      /\ hop \in BLHelpOps \cup {"none"} /\ hg \in Sides /\ hn \in Int
      /\ dop \in {"addOwners", "none"} /\ dg \in Sides /\ dn \in Int
  BY DEF BLSum, BLTypes
<1> QED
  BY <1>1 DEF BLSum, BLTypes, ToSide, ToMOwner, BLHelpOps, Sides, Flip

\* A waiter gets a count.
LEMMA WakeUpSum ==
    ASSUME NEW q, NEW c1, NEW c2, NEW own, NEW s1, NEW s2, NEW n1, NEW n2, NEW w1, NEW w2,
           NEW l1, NEW l2, NEW hop, NEW hg, NEW hn, NEW dop, NEW dg, NEW dn,
           BLSum(q, c1, c2, own, s1, s2, n1, n2, w1, w2, l1, l2, hop, hg, hn, dop, dg, dn),
           s1 > 0,
           w1 > 0
    PROVE  /\ BLSum(q, c1, c2, own, s1 - 1, s2, n1 + 1, n2, w1 - 1, w2, l1, l2, hop, hg, hn, dop, dg, dn)
<1>1. /\ q \in {"free", "mine", "theirs", "both"}
      /\ c1 \in Nat /\ c2 \in Nat /\ own \in Int /\ s1 \in Nat /\ s2 \in Nat
      /\ n1 \in Nat /\ n2 \in Nat /\ w1 \in Nat /\ w2 \in Nat /\ l1 \in Nat /\ l2 \in Nat
      /\ hop \in BLHelpOps \cup {"none"} /\ hg \in Sides /\ hn \in Int
      /\ dop \in {"addOwners", "none"} /\ dg \in Sides /\ dn \in Int
  BY DEF BLSum, BLTypes
<1> QED
  BY <1>1 DEF BLSum, BLTypes, ToSide, ToMOwner, BLHelpOps, Sides, Flip

-----------------------------------------------------------------------------
(* The binary lock: its threads *)

BLWork == [op : {"none", "addOwners", "letIn", "moveOwners", "post"}, g : {1, 2}, n : Int]
BLHelpWork == {x \in BLWork : x.op \in BLHelpOps}
BLDisplaceWork == {x \in BLWork : x.op = "addOwners" /\ x.n > 0}

\* How many threads leave a group through m_cOwner.
GroupLeavers(f, g) ==
    Cardinality({t \in Thread : f[t].op = "addOwners" /\ f[t].g = g /\ f[t].n = -1})

\* A thread does not wait for what it owns, and what it adds to m_cOwner is its
\* own leaving or the owners that it displaced.
BLPlaceOK(own, wait, x) ==
    /\ own = 0 \/ wait = 0
    /\ x.op = "addOwners" => x.n = -1 \/ x.n > 0

BLTyped ==
    /\ fQ \in [{1, 2} -> BOOLEAN] /\ cOOW \in [{1, 2} -> Nat] /\ sem \in [{1, 2} -> Nat]
    /\ owns \in [Thread -> 0 .. 2] /\ waits \in [Thread -> 0 .. 2]
    /\ blTodo \in [Thread -> BLWork]
BLPlaces == \A t \in Thread : BLPlaceOK(owns[t], waits[t], blTodo[t])

\* The quiescence bits, as group g sees them.
BLWord(g, q) ==
    /\ q \in {"theirs", "both"} => fQ[g] = TRUE
    /\ q \in {"free", "mine"} => fQ[g] = FALSE
    /\ q \in {"mine", "both"} => fQ[3 - g] = TRUE
    /\ q \in {"free", "theirs"} => fQ[3 - g] = FALSE

Side(g, x) == IF x.g = g THEN "mine" ELSE "theirs"

BLNumbers(g, q, x, y) ==
    BLSum(q, cOOW[g], cOOW[3 - g], blOwner, sem[g], sem[3 - g],
          Held(owns, g), Held(owns, 3 - g), Held(waits, g), Held(waits, 3 - g),
          GroupLeavers(blTodo, g), GroupLeavers(blTodo, 3 - g),
          x.op, Side(g, x), x.n, y.op, Side(g, y), y.n)

BLNat(g) ==
    /\ cOOW[g] \in Nat /\ cOOW[3 - g] \in Nat /\ blOwner \in Int
    /\ sem[g] \in Nat /\ sem[3 - g] \in Nat
    /\ Held(owns, g) \in Nat /\ Held(owns, 3 - g) \in Nat
    /\ Held(waits, g) \in Nat /\ Held(waits, 3 - g) \in Nat
    /\ GroupLeavers(blTodo, g) \in Nat /\ GroupLeavers(blTodo, 3 - g) \in Nat

\* The state of the lock as group g sees it: q says who owns it, x is the work of
\* the one thread that hands over and y that of the one that displaced owners.
BLState(g, q, x, y) ==
    /\ BLTyped /\ BLPlaces /\ BLWord(g, q)
    /\ Sole(blTodo, BLHelpWork, x) /\ Sole(blTodo, BLDisplaceWork, y)
    /\ BLNumbers(g, q, x, y)

\* The inductive invariant of the binary lock, as group g sees it.
BLInv(g) == \E q \in {"free", "mine", "theirs", "both"}, x \in BLWork, y \in BLWork :
               BLState(g, q, x, y)

\* Both groups see the same lock.
LEMMA BLInvBoth ==
    ASSUME NEW g \in {1, 2}, BLInv(g)
    PROVE  BLInv(3 - g)
<1>1. PICK q \in {"free", "mine", "theirs", "both"}, x \in BLWork, y \in BLWork : BLState(g, q, x, y)
  BY DEF BLInv
<1>2. 3 - (3 - g) = g /\ 3 - g \in {1, 2} /\ 3 - g # g
  OBVIOUS
<1>3. BLSum(Flip(q), cOOW[3 - g], cOOW[g], blOwner, sem[3 - g], sem[g],
            Held(owns, 3 - g), Held(owns, g), Held(waits, 3 - g), Held(waits, g),
            GroupLeavers(blTodo, 3 - g), GroupLeavers(blTodo, g),
            x.op, Flip(Side(g, x)), x.n, y.op, Flip(Side(g, y)), y.n)
  BY <1>1, FlipSum DEF BLState, BLNumbers
<1>4. Flip(Side(g, x)) = Side(3 - g, x) /\ Flip(Side(g, y)) = Side(3 - g, y)
  BY <1>2 DEF Flip, Side, BLWork
<1>5. BLNumbers(3 - g, Flip(q), x, y)
  BY <1>2, <1>3, <1>4 DEF BLNumbers
<1>6. BLWord(3 - g, Flip(q)) /\ Flip(q) \in {"free", "mine", "theirs", "both"}
  BY <1>1, <1>2 DEF BLState, BLWord, Flip
<1> QED
  BY <1>1, <1>5, <1>6 DEF BLState, BLInv

\* The counts of f and of g, which may differ at t.
GroupLeaversChange(f, f2, t, g) ==
    GroupLeavers(f2, g) = GroupLeavers(f, g)
        - One(f[t].op = "addOwners" /\ f[t].g = g /\ f[t].n = -1)
        + One(f2[t].op = "addOwners" /\ f2[t].g = g /\ f2[t].n = -1)

\* A count of those that leave a group, after one thread moves.
LEMMA GroupLeaversMove ==
    ASSUME NEW f, NEW f2, NEW t \in Thread, \A u \in Thread \ {t} : f2[u] = f[u], NEW g
    PROVE  GroupLeaversChange(f, f2, t, g)
<1> DEFINE A == {u \in Thread : f[u].op = "addOwners" /\ f[u].g = g /\ f[u].n = -1}
           B == {u \in Thread : f2[u].op = "addOwners" /\ f2[u].g = g /\ f2[u].n = -1}
<1>1. A \in SUBSET Thread /\ B \in SUBSET Thread /\ \A u \in Thread \ {t} : u \in A <=> u \in B
  OBVIOUS
<1>2. /\ t \in A <=> (f[t].op = "addOwners" /\ f[t].g = g /\ f[t].n = -1)
      /\ t \in B <=> (f2[t].op = "addOwners" /\ f2[t].g = g /\ f2[t].n = -1)
  OBVIOUS
<1> HIDE DEF A, B
<1>3. Cardinality(B) = Cardinality(A) - One(t \in A) + One(t \in B)
  BY <1>1, Recount
<1>4. Cardinality(B) = Cardinality(A)
        - One(f[t].op = "addOwners" /\ f[t].g = g /\ f[t].n = -1)
        + One(f2[t].op = "addOwners" /\ f2[t].g = g /\ f2[t].n = -1)
  BY <1>2, <1>3 DEF One
<1> QED
  BY <1>4 DEF GroupLeaversChange, GroupLeavers, A, B

\* A thread that leaves a group is counted.
LEMMA GroupLeaversSome ==
    ASSUME NEW f, NEW t \in Thread, f[t].op = "addOwners", f[t].n = -1
    PROVE  GroupLeavers(f, f[t].g) > 0
<1> DEFINE A == {u \in Thread : f[u].op = "addOwners" /\ f[u].g = f[t].g /\ f[u].n = -1}
<1>1. A \in SUBSET Thread /\ A # {}
  OBVIOUS
<1> HIDE DEF A
<1>2. Cardinality(A) \in Nat /\ Cardinality(A) # 0
  BY <1>1, CountZero
<1>3. Cardinality(A) > 0
  BY <1>2
<1> QED
  BY <1>3 DEF GroupLeavers, A

\* How the counts change when thread t goes on to own "own", wait for "wait" and do z.
BLAfter(g, t, own, wait, z) ==
    /\ Held(owns', g) = Held(owns, g) - One(owns[t] = g) + One(own = g)
    /\ Held(owns', 3 - g) = Held(owns, 3 - g) - One(owns[t] = 3 - g) + One(own = 3 - g)
    /\ Held(waits', g) = Held(waits, g) - One(waits[t] = g) + One(wait = g)
    /\ Held(waits', 3 - g) = Held(waits, 3 - g) - One(waits[t] = 3 - g) + One(wait = 3 - g)
    /\ GroupLeavers(blTodo', g) = GroupLeavers(blTodo, g)
           - One(blTodo[t].op = "addOwners" /\ blTodo[t].g = g /\ blTodo[t].n = -1)
           + One(z.op = "addOwners" /\ z.g = g /\ z.n = -1)
    /\ GroupLeavers(blTodo', 3 - g) = GroupLeavers(blTodo, 3 - g)
           - One(blTodo[t].op = "addOwners" /\ blTodo[t].g = 3 - g /\ blTodo[t].n = -1)
           + One(z.op = "addOwners" /\ z.g = 3 - g /\ z.n = -1)

\* They change by the thread that moves.
LEMMA BLMoved ==
    ASSUME BLTyped, NEW g \in {1, 2}, NEW t \in Thread,
           NEW own \in 0 .. 2, NEW wait \in 0 .. 2, NEW z \in BLWork,
           owns' = [owns EXCEPT ![t] = own], waits' = [waits EXCEPT ![t] = wait],
           blTodo' = [blTodo EXCEPT ![t] = z]
    PROVE  BLAfter(g, t, own, wait, z)
<1>1. /\ owns'[t] = own /\ \A u \in Thread \ {t} : owns'[u] = owns[u]
      /\ waits'[t] = wait /\ \A u \in Thread \ {t} : waits'[u] = waits[u]
      /\ blTodo'[t] = z /\ \A u \in Thread \ {t} : blTodo'[u] = blTodo[u]
  BY DEF BLTyped
<1>2. HeldChange(owns, owns', t, g) /\ HeldChange(owns, owns', t, 3 - g)
  BY <1>1, HeldMoves
<1>3. HeldChange(waits, waits', t, g) /\ HeldChange(waits, waits', t, 3 - g)
  BY <1>1, HeldMoves
<1>4. GroupLeaversChange(blTodo, blTodo', t, g) /\ GroupLeaversChange(blTodo, blTodo', t, 3 - g)
  BY <1>1, GroupLeaversMove
<1> QED
  BY <1>1, <1>2, <1>3, <1>4 DEF BLAfter, HeldChange, GroupLeaversChange, One

\* What is left to show of a step of thread t.
LEMMA BLStep ==
    ASSUME BLTyped, BLPlaces, NEW g \in {1, 2},
           NEW t \in Thread, NEW own \in 0 .. 2, NEW wait \in 0 .. 2, NEW z \in BLWork,
           owns' = [owns EXCEPT ![t] = own], waits' = [waits EXCEPT ![t] = wait],
           blTodo' = [blTodo EXCEPT ![t] = z],
           fQ' \in [{1, 2} -> BOOLEAN], cOOW' \in [{1, 2} -> Nat], sem' \in [{1, 2} -> Nat],
           BLPlaceOK(own, wait, z),
           NEW q \in {"free", "mine", "theirs", "both"}, NEW x \in BLWork, NEW y \in BLWork,
           BLWord(g, q)', BLNumbers(g, q, x, y)',
           Sole([blTodo EXCEPT ![t] = z], BLHelpWork, x),
           Sole([blTodo EXCEPT ![t] = z], BLDisplaceWork, y)
    PROVE  BLInv(g)'
<1>1. BLTyped'
  BY DEF BLTyped
<1>2. BLPlaces'
  <2>1. /\ owns'[t] = own /\ waits'[t] = wait /\ blTodo'[t] = z
        /\ \A u \in Thread \ {t} :
              owns'[u] = owns[u] /\ waits'[u] = waits[u] /\ blTodo'[u] = blTodo[u]
    BY DEF BLTyped
  <2>2. \A u \in Thread : BLPlaceOK(owns'[u], waits'[u], blTodo'[u])
    BY <2>1 DEF BLPlaces
  <2> QED
    BY <2>2 DEF BLPlaces
<1>3. BLState(g, q, x, y)'
  BY <1>1, <1>2 DEF BLState
<1> QED
  BY <1>3 DEF BLInv

\* A thread that has nothing to do.
LEMMA BLIdle ==
    /\ BL!NoWork \in BLWork /\ BL!NoWork \notin BLHelpWork /\ BL!NoWork \notin BLDisplaceWork
    /\ BL!NoWork.op = "none" /\ BL!NoWork.n = 0 /\ BL!NoWork.g = 1
BY DEF BL!NoWork, BL!Work, BLWork, BLHelpWork, BLDisplaceWork, BLHelpOps

\* What kind of work it is.
LEMMA BLWorkIs ==
    ASSUME NEW op \in BLHelpOps \cup {"addOwners"}, NEW g \in {1, 2}, NEW n \in Int
    PROVE  /\ BL!Work(op, g, n) \in BLWork
           /\ BL!Work(op, g, n).op = op /\ BL!Work(op, g, n).g = g /\ BL!Work(op, g, n).n = n
           /\ BL!Work(op, g, n) \in BLHelpWork <=> op \in BLHelpOps
           /\ BL!Work(op, g, n) \in BLDisplaceWork <=> op = "addOwners" /\ n > 0
BY DEF BL!Work, BLWork, BLHelpWork, BLDisplaceWork, BLHelpOps

\* No work in the numbers is no work.
LEMMA BLNone ==
    ASSUME NEW x
    PROVE  x.op = "none" => x \notin BLHelpWork /\ x \notin BLDisplaceWork
BY DEF BLHelpWork, BLDisplaceWork, BLHelpOps

\* The parts of the state of a lock.
LEMMA BLParts ==
    ASSUME NEW g \in {1, 2}, NEW q, NEW x, NEW y, BLState(g, q, x, y)
    PROVE  /\ BLTyped /\ BLPlaces /\ BLWord(g, q) /\ BLNumbers(g, q, x, y) /\ BLNat(g)
           /\ Sole(blTodo, BLHelpWork, x) /\ Sole(blTodo, BLDisplaceWork, y)
BY DEF BLState, BLNumbers, BLSum, BLTypes, BLNat

-----------------------------------------------------------------------------
(* The binary lock: its steps *)

\* A thread enters without contention.
LEMMA BLFreeEntry ==
    ASSUME NEW g \in {1, 2}, BLInv(g), NEW t \in Thread, 
           BL!Enter(t, g) \/ BL!FTryEnter(t, g), fQ[g] = FALSE
    PROVE  BLInv(g)'
<1>1. PICK q \in {"free", "mine", "theirs", "both"}, x \in BLWork, y \in BLWork :
         BLState(g, q, x, y)
  BY DEF BLInv
<1>2. /\ BLTyped /\ BLPlaces /\ BLWord(g, q) /\ BLNumbers(g, q, x, y) /\ BLNat(g)
      /\ Sole(blTodo, BLHelpWork, x) /\ Sole(blTodo, BLDisplaceWork, y)
      /\ 3 - g \in {1, 2} /\ 3 - g # g
  BY <1>1, BLParts
<1>3. /\ owns[t] = 0 /\ waits[t] = 0 /\ blTodo[t] = BL!NoWork
      /\ BL!EntryWord(g) /\ owns' = [owns EXCEPT ![t] = g] /\ waits' = waits /\ blTodo' = blTodo
      /\ blOwner' = blOwner /\ sem' = sem
  BY DEF BL!Enter, BL!FTryEnter, BL!Idle
<1>4. q \in {"free", "mine"} /\ cOOW[3 - g] = 0
  <2>1. q \in {"free", "mine"}
    BY <1>2 DEF BLWord
  <2> QED
    BY <1>2, <2>1 DEF BLNumbers, BLSum
<1>5. CASE q \in {"free", "mine"}
  <2>1. /\ owns' = [owns EXCEPT ![t] = g] /\ waits' = [waits EXCEPT ![t] = 0]
        /\ blTodo' = [blTodo EXCEPT ![t] = BL!NoWork]
    BY <1>2, <1>3, <1>4, <1>5 DEF BL!EntryWord, BL!Other, BLTyped, BLWord
  <2>2. /\ g \in 0 .. 2 /\ 0 \in 0 .. 2 /\ BL!NoWork \in BLWork
        /\ x \in BLWork /\ y \in BLWork
        /\ BLPlaceOK(g, 0, BL!NoWork)
    BY <1>2, <1>3, <1>4, <1>5, BLIdle DEF BLWork, BL!Work, BLPlaceOK, BLTyped, BLPlaces
  <2>3. BLAfter(g, t, g, 0, BL!NoWork)
    BY <1>2, <1>3, <2>1, <2>2, BLMoved
  <2>4. /\ cOOW'[g] = cOOW[g] + 1 /\ cOOW'[3 - g] = cOOW[3 - g] /\ blOwner' = blOwner
        /\ sem'[g] = sem[g] /\ sem'[3 - g] = sem[3 - g]
        /\ cOOW' \in [{1, 2} -> Nat] /\ sem' \in [{1, 2} -> Nat]
    BY <1>2, <1>3, <1>4, <1>5 DEF BL!EntryWord, BL!Other, BLTyped, BLNat, BLWord
  <2>5. BLWord(g, "mine")' /\ fQ' \in [{1, 2} -> BOOLEAN]
    BY <1>2, <1>3, <1>4, <1>5 DEF BLWord, BLTyped, BL!EntryWord, BL!Other
  <2>6. BLSum("mine", cOOW[g] + 1, cOOW[3 - g], blOwner, sem[g], sem[3 - g],
              Held(owns, g) + 1, Held(owns, 3 - g), Held(waits, g), Held(waits, 3 - g),
              GroupLeavers(blTodo, g), GroupLeavers(blTodo, 3 - g),
              x.op, Side(g, x), x.n, y.op, Side(g, y), y.n)
    BY <1>2, <1>5, EnterSum DEF BLNumbers
  <2>7. BLNumbers(g, "mine", x, y)'
    BY <1>2, <1>3, <1>4, <1>5, <2>3, <2>4, <2>6, BLIdle DEF BLNumbers, BLNat, BLAfter, One, Side, BL!Work
  <2>8. Sole([blTodo EXCEPT ![t] = BL!NoWork], BLHelpWork, x)
    BY <1>2, <1>3, BLIdle, SoleSame DEF BLTyped
  <2>9. Sole([blTodo EXCEPT ![t] = BL!NoWork], BLDisplaceWork, y)
    BY <1>2, <1>3, BLIdle, SoleSame DEF BLTyped
  <2> QED
    BY <1>2, <2>1, <2>2, <2>4, <2>5, <2>7, <2>8, <2>9, BLStep
<1> QED
  BY <1>5, <1>4

\* A thread finds its group quiesced and waits.
LEMMA BLWaitingEntry ==
    ASSUME NEW g \in {1, 2}, BLInv(g), NEW t \in Thread, BL!Enter(t, g), fQ[g] = TRUE
    PROVE  BLInv(g)'
<1>1. PICK q \in {"free", "mine", "theirs", "both"}, x \in BLWork, y \in BLWork :
         BLState(g, q, x, y)
  BY DEF BLInv
<1>2. /\ BLTyped /\ BLPlaces /\ BLWord(g, q) /\ BLNumbers(g, q, x, y) /\ BLNat(g)
      /\ Sole(blTodo, BLHelpWork, x) /\ Sole(blTodo, BLDisplaceWork, y)
      /\ 3 - g \in {1, 2} /\ 3 - g # g
  BY <1>1, BLParts
<1>3. /\ owns[t] = 0 /\ waits[t] = 0 /\ blTodo[t] = BL!NoWork
      /\ BL!EntryWord(g) /\ owns' = owns /\ waits' = [waits EXCEPT ![t] = g]
      /\ blTodo' = [blTodo EXCEPT ![t] =
                      IF fQ[3 - g] THEN @ ELSE BL!Work("addOwners", 3 - g, cOOW[3 - g])]
      /\ blOwner' = blOwner /\ sem' = sem
  BY DEF BL!Enter, BL!Idle, BL!Other
<1>4. q \in {"theirs", "both"}
  BY <1>2 DEF BLWord
<1>5. CASE q = "both"
  <2>1. /\ owns' = [owns EXCEPT ![t] = 0] /\ waits' = [waits EXCEPT ![t] = g]
        /\ blTodo' = [blTodo EXCEPT ![t] = BL!NoWork]
    BY <1>2, <1>3, <1>5 DEF BL!EntryWord, BL!Other, BLTyped, BLWord
  <2>2. /\ 0 \in 0 .. 2 /\ g \in 0 .. 2 /\ BL!NoWork \in BLWork
        /\ x \in BLWork /\ y \in BLWork
        /\ BLPlaceOK(0, g, BL!NoWork)
    BY <1>2, <1>3, <1>5, BLIdle DEF BLWork, BL!Work, BLPlaceOK, BLTyped, BLPlaces
  <2>3. BLAfter(g, t, 0, g, BL!NoWork)
    BY <1>2, <1>3, <2>1, <2>2, BLMoved
  <2>4. /\ cOOW'[g] = cOOW[g] + 1 /\ cOOW'[3 - g] = cOOW[3 - g] /\ blOwner' = blOwner
        /\ sem'[g] = sem[g] /\ sem'[3 - g] = sem[3 - g]
        /\ cOOW' \in [{1, 2} -> Nat] /\ sem' \in [{1, 2} -> Nat]
    BY <1>2, <1>3, <1>5 DEF BL!EntryWord, BL!Other, BLTyped, BLNat, BLWord
  <2>5. BLWord(g, q)' /\ fQ' \in [{1, 2} -> BOOLEAN]
    BY <1>2, <1>3, <1>5 DEF BLWord, BLTyped, BL!EntryWord, BL!Other
  <2>6. BLSum(q, cOOW[g] + 1, cOOW[3 - g], blOwner, sem[g], sem[3 - g],
              Held(owns, g), Held(owns, 3 - g), Held(waits, g) + 1, Held(waits, 3 - g),
              GroupLeavers(blTodo, g), GroupLeavers(blTodo, 3 - g),
              x.op, Side(g, x), x.n, y.op, Side(g, y), y.n)
    BY <1>2, <1>3, <1>5, EnterSum DEF BLNumbers
  <2>7. BLNumbers(g, q, x, y)'
    BY <1>2, <1>3, <1>5, <2>3, <2>4, <2>6, BLIdle DEF BLNumbers, BLNat, BLAfter, One, Side, BL!Work
  <2>8. Sole([blTodo EXCEPT ![t] = BL!NoWork], BLHelpWork, x)
    BY <1>2, <1>3, BLIdle, SoleSame DEF BLTyped
  <2>9. Sole([blTodo EXCEPT ![t] = BL!NoWork], BLDisplaceWork, y)
    BY <1>2, <1>3, BLIdle, SoleSame DEF BLTyped
  <2> QED
    BY <1>2, <2>1, <2>2, <2>4, <2>5, <2>7, <2>8, <2>9, BLStep
<1>6. CASE q = "theirs"
  <2>0. PICK n \in Nat : n = cOOW[3 - g] /\ n > 0
    BY <1>2, <1>6 DEF BLNat, BLNumbers, BLSum
  <2>1. /\ owns' = [owns EXCEPT ![t] = 0] /\ waits' = [waits EXCEPT ![t] = g]
        /\ blTodo' = [blTodo EXCEPT ![t] = BL!Work("addOwners", 3 - g, n)]
    BY <1>2, <1>3, <1>6, <2>0 DEF BL!EntryWord, BL!Other, BLTyped, BLWord
  <2>2. /\ 0 \in 0 .. 2 /\ g \in 0 .. 2 /\ BL!Work("addOwners", 3 - g, n) \in BLWork
        /\ x \in BLWork /\ BL!Work("addOwners", 3 - g, n) \in BLWork
        /\ BLPlaceOK(0, g, BL!Work("addOwners", 3 - g, n))
    BY <1>2, <1>3, <1>6, <2>0, BLIdle DEF BLWork, BL!Work, BLPlaceOK, BLTyped, BLPlaces
  <2>3. BLAfter(g, t, 0, g, BL!Work("addOwners", 3 - g, n))
    BY <1>2, <1>3, <2>1, <2>2, BLMoved
  <2>4. /\ cOOW'[g] = cOOW[g] + 1 /\ cOOW'[3 - g] = 0 /\ blOwner' = blOwner
        /\ sem'[g] = sem[g] /\ sem'[3 - g] = sem[3 - g]
        /\ cOOW' \in [{1, 2} -> Nat] /\ sem' \in [{1, 2} -> Nat]
    BY <1>2, <1>3, <1>6, <2>0 DEF BL!EntryWord, BL!Other, BLTyped, BLNat, BLWord
  <2>5. BLWord(g, "both")' /\ fQ' \in [{1, 2} -> BOOLEAN]
    BY <1>2, <1>3, <1>6, <2>0 DEF BLWord, BLTyped, BL!EntryWord, BL!Other
  <2>6. BLSum("both", cOOW[g] + 1, 0, blOwner, sem[g], sem[3 - g],
              Held(owns, g), Held(owns, 3 - g), Held(waits, g) + 1, Held(waits, 3 - g),
              GroupLeavers(blTodo, g), GroupLeavers(blTodo, 3 - g),
              x.op, Side(g, x), x.n, "addOwners", "theirs", n)
    BY <1>2, <1>3, <1>6, <2>0, EnterSum DEF BLNumbers
  <2>7. BLNumbers(g, "both", x, BL!Work("addOwners", 3 - g, n))'
    BY <1>2, <1>3, <1>6, <2>0, <2>3, <2>4, <2>6, BLIdle DEF BLNumbers, BLNat, BLAfter, One, Side, BL!Work
  <2>8. Sole([blTodo EXCEPT ![t] = BL!Work("addOwners", 3 - g, n)], BLHelpWork, x)
    <3>1. BL!Work("addOwners", 3 - g, n) \notin BLHelpWork
      BY <1>2, <2>0, BLWorkIs DEF BLHelpOps
    <3> QED
      BY <1>2, <1>3, <3>1, BLIdle, SoleSame DEF BLTyped
  <2>9. Sole([blTodo EXCEPT ![t] = BL!Work("addOwners", 3 - g, n)], BLDisplaceWork, BL!Work("addOwners", 3 - g, n))
    <3>1. BL!Work("addOwners", 3 - g, n) \in BLDisplaceWork
      BY <1>2, <2>0, BLWorkIs
    <3>2. y \notin BLDisplaceWork
      BY <1>2, <1>6, BLNone DEF BLNumbers, BLSum
    <3> QED
      BY <1>2, <1>3, <3>1, <3>2, SoleNext DEF BLTyped
  <2> QED
    BY <1>2, <2>1, <2>2, <2>4, <2>5, <2>7, <2>8, <2>9, BLStep
<1> QED
  BY <1>5, <1>6, <1>4

\* An owner leaves.
LEMMA BLLeaves ==
    ASSUME NEW g \in {1, 2}, BLInv(g), NEW t \in Thread, BL!Leave(t, g)
    PROVE  BLInv(g)'
<1>1. PICK q \in {"free", "mine", "theirs", "both"}, x \in BLWork, y \in BLWork :
         BLState(g, q, x, y)
  BY DEF BLInv
<1>2. /\ BLTyped /\ BLPlaces /\ BLWord(g, q) /\ BLNumbers(g, q, x, y) /\ BLNat(g)
      /\ Sole(blTodo, BLHelpWork, x) /\ Sole(blTodo, BLDisplaceWork, y)
      /\ 3 - g \in {1, 2} /\ 3 - g # g
  BY <1>1, BLParts
<1>3. /\ owns[t] = g /\ blTodo[t] = BL!NoWork /\ waits[t] = 0
      /\ BL!Leave(t, g)
  BY <1>2 DEF BL!Leave, BLPlaces, BLPlaceOK
<1>4. Held(owns, g) > 0 /\ q \in {"mine", "both"}
  <2>1. Held(owns, g) > 0
    BY <1>3, HeldSome
  <2> QED
    BY <1>2, <2>1, LeaveSum DEF BLNumbers
<1>5. CASE q = "both"
  <2>0. PICK z \in BLWork : z = BL!Work("addOwners", g, -1)
    BY BLWorkIs
  <2>1. /\ owns' = [owns EXCEPT ![t] = 0] /\ waits' = [waits EXCEPT ![t] = 0]
        /\ blTodo' = [blTodo EXCEPT ![t] = z]
    BY <1>2, <1>3, <1>4, <1>5, <2>0 DEF BL!Leave, BL!Other, BL!cw, BLTyped, BLWord
  <2>2. /\ 0 \in 0 .. 2 /\ 0 \in 0 .. 2 /\ z \in BLWork
        /\ x \in BLWork /\ y \in BLWork
        /\ BLPlaceOK(0, 0, z)
    BY <1>2, <1>3, <1>4, <1>5, <2>0, BLIdle DEF BLWork, BL!Work, BLPlaceOK, BLTyped, BLPlaces
  <2>3. BLAfter(g, t, 0, 0, z)
    BY <1>2, <1>3, <2>1, <2>2, BLMoved
  <2>4. /\ cOOW'[g] = cOOW[g] /\ cOOW'[3 - g] = cOOW[3 - g] /\ blOwner' = blOwner
        /\ sem'[g] = sem[g] /\ sem'[3 - g] = sem[3 - g]
        /\ cOOW' \in [{1, 2} -> Nat] /\ sem' \in [{1, 2} -> Nat]
    BY <1>2, <1>3, <1>4, <1>5, <2>0 DEF BL!Leave, BL!Other, BL!cw, BLTyped, BLNat, BLWord
  <2>5. BLWord(g, q)' /\ fQ' \in [{1, 2} -> BOOLEAN]
    BY <1>2, <1>3, <1>4, <1>5, <2>0 DEF BLWord, BLTyped, BL!Leave, BL!Other, BL!cw
  <2>6. BLSum(q, cOOW[g], cOOW[3 - g], blOwner, sem[g], sem[3 - g],
              Held(owns, g) - 1, Held(owns, 3 - g), Held(waits, g), Held(waits, 3 - g),
              GroupLeavers(blTodo, g) + 1, GroupLeavers(blTodo, 3 - g),
              x.op, Side(g, x), x.n, y.op, Side(g, y), y.n)
    BY <1>2, <1>3, <1>4, <1>5, <2>0, LeaveSum DEF BLNumbers
  <2>7. BLNumbers(g, q, x, y)'
    BY <1>2, <1>3, <1>4, <1>5, <2>0, <2>3, <2>4, <2>6, BLIdle DEF BLNumbers, BLNat, BLAfter, One, Side, BL!Work
  <2>8. Sole([blTodo EXCEPT ![t] = z], BLHelpWork, x)
    <3>1. z \notin BLHelpWork
      BY <1>2, <2>0, BLWorkIs DEF BLHelpOps
    <3> QED
      BY <1>2, <1>3, <3>1, BLIdle, SoleSame DEF BLTyped
  <2>9. Sole([blTodo EXCEPT ![t] = z], BLDisplaceWork, y)
    <3>1. z \notin BLDisplaceWork
      BY <1>2, <2>0, BLWorkIs DEF BLHelpOps
    <3> QED
      BY <1>2, <1>3, <3>1, BLIdle, SoleSame DEF BLTyped
  <2> QED
    BY <1>2, <2>1, <2>2, <2>4, <2>5, <2>7, <2>8, <2>9, BLStep
<1>6. CASE q = "mine" /\ cOOW[g] > 1
  <2>1. /\ owns' = [owns EXCEPT ![t] = 0] /\ waits' = [waits EXCEPT ![t] = 0]
        /\ blTodo' = [blTodo EXCEPT ![t] = BL!NoWork]
    BY <1>2, <1>3, <1>4, <1>6 DEF BL!Leave, BL!Other, BL!cw, BLTyped, BLWord
  <2>2. /\ 0 \in 0 .. 2 /\ 0 \in 0 .. 2 /\ BL!NoWork \in BLWork
        /\ x \in BLWork /\ y \in BLWork
        /\ BLPlaceOK(0, 0, BL!NoWork)
    BY <1>2, <1>3, <1>4, <1>6, BLIdle DEF BLWork, BL!Work, BLPlaceOK, BLTyped, BLPlaces
  <2>3. BLAfter(g, t, 0, 0, BL!NoWork)
    BY <1>2, <1>3, <2>1, <2>2, BLMoved
  <2>4. /\ cOOW'[g] = cOOW[g] - 1 /\ cOOW'[3 - g] = cOOW[3 - g] /\ blOwner' = blOwner
        /\ sem'[g] = sem[g] /\ sem'[3 - g] = sem[3 - g]
        /\ cOOW' \in [{1, 2} -> Nat] /\ sem' \in [{1, 2} -> Nat]
    BY <1>2, <1>3, <1>4, <1>6 DEF BL!Leave, BL!Other, BL!cw, BLTyped, BLNat, BLWord
  <2>5. BLWord(g, q)' /\ fQ' \in [{1, 2} -> BOOLEAN]
    <3>1. fQ[g] = FALSE /\ fQ[3 - g] \in BOOLEAN
      BY <1>2, <1>6 DEF BLWord, BLTyped
    <3>2. fQ' = [fQ EXCEPT ![3 - g] = (cOOW[g] > 1)]
      BY <1>3, <3>1, Zenon DEF BL!Leave, BL!Other
    <3>3. (cOOW[g] > 1) = TRUE
      BY <1>2, <1>6 DEF BLNat
    <3>4. fQ' = [fQ EXCEPT ![3 - g] = TRUE]
      BY <3>2, <3>3, Zenon
    <3> QED
      BY <1>2, <1>6, <3>1, <3>4 DEF BLWord, BLTyped
  <2>6. BLSum(q, cOOW[g] - 1, cOOW[3 - g], blOwner, sem[g], sem[3 - g],
              Held(owns, g) - 1, Held(owns, 3 - g), Held(waits, g), Held(waits, 3 - g),
              GroupLeavers(blTodo, g), GroupLeavers(blTodo, 3 - g),
              x.op, Side(g, x), x.n, y.op, Side(g, y), y.n)
    BY <1>2, <1>3, <1>4, <1>6, LeaveSum DEF BLNumbers
  <2>7. BLNumbers(g, q, x, y)'
    BY <1>2, <1>3, <1>4, <1>6, <2>3, <2>4, <2>6, BLIdle DEF BLNumbers, BLNat, BLAfter, One, Side, BL!Work
  <2>8. Sole([blTodo EXCEPT ![t] = BL!NoWork], BLHelpWork, x)
    BY <1>2, <1>3, BLIdle, SoleSame DEF BLTyped
  <2>9. Sole([blTodo EXCEPT ![t] = BL!NoWork], BLDisplaceWork, y)
    BY <1>2, <1>3, BLIdle, SoleSame DEF BLTyped
  <2> QED
    BY <1>2, <2>1, <2>2, <2>4, <2>5, <2>7, <2>8, <2>9, BLStep
<1>7. CASE q = "mine" /\ ~(cOOW[g] > 1)
  <2>1. /\ owns' = [owns EXCEPT ![t] = 0] /\ waits' = [waits EXCEPT ![t] = 0]
        /\ blTodo' = [blTodo EXCEPT ![t] = BL!NoWork]
    BY <1>2, <1>3, <1>4, <1>7 DEF BL!Leave, BL!Other, BL!cw, BLTyped, BLWord
  <2>2. /\ 0 \in 0 .. 2 /\ 0 \in 0 .. 2 /\ BL!NoWork \in BLWork
        /\ x \in BLWork /\ y \in BLWork
        /\ BLPlaceOK(0, 0, BL!NoWork)
    BY <1>2, <1>3, <1>4, <1>7, BLIdle DEF BLWork, BL!Work, BLPlaceOK, BLTyped, BLPlaces
  <2>3. BLAfter(g, t, 0, 0, BL!NoWork)
    BY <1>2, <1>3, <2>1, <2>2, BLMoved
  <2>4. /\ cOOW'[g] = cOOW[g] - 1 /\ cOOW'[3 - g] = cOOW[3 - g] /\ blOwner' = blOwner
        /\ sem'[g] = sem[g] /\ sem'[3 - g] = sem[3 - g]
        /\ cOOW' \in [{1, 2} -> Nat] /\ sem' \in [{1, 2} -> Nat]
    BY <1>2, <1>3, <1>4, <1>7 DEF BL!Leave, BL!Other, BL!cw, BLTyped, BLNat, BLWord, BLNumbers, BLSum
  <2>5. BLWord(g, "free")' /\ fQ' \in [{1, 2} -> BOOLEAN]
    <3>1. fQ[g] = FALSE /\ fQ[3 - g] \in BOOLEAN
      BY <1>2, <1>7 DEF BLWord, BLTyped
    <3>2. fQ' = [fQ EXCEPT ![3 - g] = (cOOW[g] > 1)]
      BY <1>3, <3>1, Zenon DEF BL!Leave, BL!Other
    <3>3. (cOOW[g] > 1) = FALSE
      BY <1>2, <1>7 DEF BLNat
    <3>4. fQ' = [fQ EXCEPT ![3 - g] = FALSE]
      BY <3>2, <3>3, Zenon
    <3> QED
      BY <1>2, <1>7, <3>1, <3>4 DEF BLWord, BLTyped
  <2>6. BLSum("free", cOOW[g] - 1, cOOW[3 - g], blOwner, sem[g], sem[3 - g],
              Held(owns, g) - 1, Held(owns, 3 - g), Held(waits, g), Held(waits, 3 - g),
              GroupLeavers(blTodo, g), GroupLeavers(blTodo, 3 - g),
              x.op, Side(g, x), x.n, y.op, Side(g, y), y.n)
    BY <1>2, <1>3, <1>4, <1>7, LeaveSum DEF BLNumbers
  <2>7. BLNumbers(g, "free", x, y)'
    BY <1>2, <1>3, <1>4, <1>7, <2>3, <2>4, <2>6, BLIdle DEF BLNumbers, BLNat, BLAfter, One, Side, BL!Work
  <2>8. Sole([blTodo EXCEPT ![t] = BL!NoWork], BLHelpWork, x)
    BY <1>2, <1>3, BLIdle, SoleSame DEF BLTyped
  <2>9. Sole([blTodo EXCEPT ![t] = BL!NoWork], BLDisplaceWork, y)
    BY <1>2, <1>3, BLIdle, SoleSame DEF BLTyped
  <2> QED
    BY <1>2, <2>1, <2>2, <2>4, <2>5, <2>7, <2>8, <2>9, BLStep
<1> QED
  BY <1>5, <1>6, <1>7, <1>4

\* An owner that leaves takes itself out of m_cOwner.
LEMMA BLGone ==
    ASSUME NEW g \in {1, 2}, BLInv(g), NEW t \in Thread, 
           BL!UpdateQuiescedOwnerCount(t), blTodo[t].g = g, blTodo[t].n = -1
    PROVE  BLInv(g)'
<1>1. PICK q \in {"free", "mine", "theirs", "both"}, x \in BLWork, y \in BLWork :
         BLState(g, q, x, y)
  BY DEF BLInv
<1>2. /\ BLTyped /\ BLPlaces /\ BLWord(g, q) /\ BLNumbers(g, q, x, y) /\ BLNat(g)
      /\ Sole(blTodo, BLHelpWork, x) /\ Sole(blTodo, BLDisplaceWork, y)
      /\ 3 - g \in {1, 2} /\ 3 - g # g
  BY <1>1, BLParts
<1>3. /\ BL!UpdateQuiescedOwnerCount(t)
      /\ blTodo[t].op = "addOwners" /\ blTodo[t].g = g /\ blTodo[t].n = -1
      /\ blTodo[t] \notin BLHelpWork /\ blTodo[t] \notin BLDisplaceWork
  BY DEF BL!UpdateQuiescedOwnerCount, BLHelpWork, BLDisplaceWork, BLHelpOps
<1>4. GroupLeavers(blTodo, g) > 0
  BY <1>3, GroupLeaversSome
<1>5. CASE blOwner - 1 # 0
  <2>0. PICK own \in 0 .. 2, wait \in 0 .. 2 : own = owns[t] /\ wait = waits[t]
    BY <1>2 DEF BLTyped
  <2>1. /\ owns' = [owns EXCEPT ![t] = own] /\ waits' = [waits EXCEPT ![t] = wait]
        /\ blTodo' = [blTodo EXCEPT ![t] = BL!NoWork]
    BY <1>2, <1>3, <1>4, <1>5, <2>0 DEF BL!UpdateQuiescedOwnerCount, BL!cw, BLTyped, BLWord, BLNat
  <2>2. /\ own \in 0 .. 2 /\ wait \in 0 .. 2 /\ BL!NoWork \in BLWork
        /\ x \in BLWork /\ y \in BLWork
        /\ BLPlaceOK(own, wait, BL!NoWork)
    BY <1>2, <1>3, <1>4, <1>5, <2>0, BLIdle DEF BLWork, BL!Work, BLPlaceOK, BLTyped, BLPlaces
  <2>3. BLAfter(g, t, own, wait, BL!NoWork)
    BY <1>2, <1>3, <2>1, <2>2, BLMoved
  <2>4. /\ cOOW'[g] = cOOW[g] /\ cOOW'[3 - g] = cOOW[3 - g] /\ blOwner' = blOwner - 1
        /\ sem'[g] = sem[g] /\ sem'[3 - g] = sem[3 - g]
        /\ cOOW' \in [{1, 2} -> Nat] /\ sem' \in [{1, 2} -> Nat]
    BY <1>2, <1>3, <1>4, <1>5, <2>0 DEF BL!UpdateQuiescedOwnerCount, BL!cw, BLTyped, BLNat, BLWord
  <2>5. BLWord(g, q)' /\ fQ' \in [{1, 2} -> BOOLEAN]
    BY <1>2, <1>3, <1>4, <1>5, <2>0 DEF BLWord, BLTyped, BL!UpdateQuiescedOwnerCount, BL!cw
  <2>6. BLSum(q, cOOW[g], cOOW[3 - g], blOwner - 1, sem[g], sem[3 - g],
              Held(owns, g), Held(owns, 3 - g), Held(waits, g), Held(waits, 3 - g),
              GroupLeavers(blTodo, g) - 1, GroupLeavers(blTodo, 3 - g),
              x.op, Side(g, x), x.n, y.op, Side(g, y), y.n)
    BY <1>2, <1>3, <1>4, <1>5, <2>0, GoneSum DEF BLNumbers
  <2>7. BLNumbers(g, q, x, y)'
    BY <1>2, <1>3, <1>4, <1>5, <2>0, <2>3, <2>4, <2>6, BLIdle DEF BLNumbers, BLNat, BLAfter, One, Side, BL!Work
  <2>8. Sole([blTodo EXCEPT ![t] = BL!NoWork], BLHelpWork, x)
    BY <1>2, <1>3, BLIdle, SoleSame DEF BLTyped
  <2>9. Sole([blTodo EXCEPT ![t] = BL!NoWork], BLDisplaceWork, y)
    BY <1>2, <1>3, BLIdle, SoleSame DEF BLTyped
  <2> QED
    BY <1>2, <2>1, <2>2, <2>4, <2>5, <2>7, <2>8, <2>9, BLStep
<1>6. CASE blOwner - 1 = 0
  <2>0. PICK own \in 0 .. 2, wait \in 0 .. 2 : own = owns[t] /\ wait = waits[t]
    BY <1>2 DEF BLTyped
  <2>1. /\ owns' = [owns EXCEPT ![t] = own] /\ waits' = [waits EXCEPT ![t] = wait]
        /\ blTodo' = [blTodo EXCEPT ![t] = BL!Work("letIn", g, 0)]
    BY <1>2, <1>3, <1>4, <1>6, <2>0 DEF BL!UpdateQuiescedOwnerCount, BL!cw, BLTyped, BLWord, BLNat
  <2>2. /\ own \in 0 .. 2 /\ wait \in 0 .. 2 /\ BL!Work("letIn", g, 0) \in BLWork
        /\ BL!Work("letIn", g, 0) \in BLWork /\ y \in BLWork
        /\ BLPlaceOK(own, wait, BL!Work("letIn", g, 0))
    BY <1>2, <1>3, <1>4, <1>6, <2>0, BLIdle DEF BLWork, BL!Work, BLPlaceOK, BLTyped, BLPlaces
  <2>3. BLAfter(g, t, own, wait, BL!Work("letIn", g, 0))
    BY <1>2, <1>3, <2>1, <2>2, BLMoved
  <2>4. /\ cOOW'[g] = cOOW[g] /\ cOOW'[3 - g] = cOOW[3 - g] /\ blOwner' = 0
        /\ sem'[g] = sem[g] /\ sem'[3 - g] = sem[3 - g]
        /\ cOOW' \in [{1, 2} -> Nat] /\ sem' \in [{1, 2} -> Nat]
    BY <1>2, <1>3, <1>4, <1>6, <2>0 DEF BL!UpdateQuiescedOwnerCount, BL!cw, BLTyped, BLNat, BLWord
  <2>5. BLWord(g, q)' /\ fQ' \in [{1, 2} -> BOOLEAN]
    BY <1>2, <1>3, <1>4, <1>6, <2>0 DEF BLWord, BLTyped, BL!UpdateQuiescedOwnerCount, BL!cw
  <2>6. BLSum(q, cOOW[g], cOOW[3 - g], 0, sem[g], sem[3 - g],
              Held(owns, g), Held(owns, 3 - g), Held(waits, g), Held(waits, 3 - g),
              GroupLeavers(blTodo, g) - 1, GroupLeavers(blTodo, 3 - g),
              "letIn", "mine", 0, y.op, Side(g, y), y.n)
    BY <1>2, <1>3, <1>4, <1>6, <2>0, GoneSum DEF BLNumbers
  <2>7. BLNumbers(g, q, BL!Work("letIn", g, 0), y)'
    BY <1>2, <1>3, <1>4, <1>6, <2>0, <2>3, <2>4, <2>6, BLIdle DEF BLNumbers, BLNat, BLAfter, One, Side, BL!Work
  <2>8. Sole([blTodo EXCEPT ![t] = BL!Work("letIn", g, 0)], BLHelpWork, BL!Work("letIn", g, 0))
    <3>1. BL!Work("letIn", g, 0) \in BLHelpWork
      BY BLWorkIs DEF BLHelpOps
    <3>2. x.op = "none"
      BY <1>2, <1>4, <1>6, GoneLastSum DEF BLNumbers
    <3>3. x \notin BLHelpWork
      BY <3>2, BLNone
    <3> QED
      BY <1>2, <1>3, <3>1, <3>3, SoleNext DEF BLTyped
  <2>9. Sole([blTodo EXCEPT ![t] = BL!Work("letIn", g, 0)], BLDisplaceWork, y)
    <3>1. BL!Work("letIn", g, 0) \notin BLDisplaceWork
      BY <1>2, BLWorkIs DEF BLHelpOps
    <3> QED
      BY <1>2, <1>3, <3>1, BLIdle, SoleSame DEF BLTyped
  <2> QED
    BY <1>2, <2>1, <2>2, <2>4, <2>5, <2>7, <2>8, <2>9, BLStep
<1> QED
  BY <1>5, <1>6

\* Owners that were displaced are counted in m_cOwner.
LEMMA BLDisplaced ==
    ASSUME NEW g \in {1, 2}, BLInv(g), NEW t \in Thread, 
           BL!UpdateQuiescedOwnerCount(t), blTodo[t].g = g, blTodo[t].n > 0
    PROVE  BLInv(g)'
<1>1. PICK q \in {"free", "mine", "theirs", "both"}, x \in BLWork, y \in BLWork :
         BLState(g, q, x, y)
  BY DEF BLInv
<1>2. /\ BLTyped /\ BLPlaces /\ BLWord(g, q) /\ BLNumbers(g, q, x, y) /\ BLNat(g)
      /\ Sole(blTodo, BLHelpWork, x) /\ Sole(blTodo, BLDisplaceWork, y)
      /\ 3 - g \in {1, 2} /\ 3 - g # g
  BY <1>1, BLParts
<1>3. /\ BL!UpdateQuiescedOwnerCount(t)
      /\ blTodo[t] = y /\ y.op = "addOwners" /\ y.g = g /\ y.n \in Int /\ y.n > 0 /\ Side(g, y) = "mine"
      /\ y.op # "none"
      /\ blTodo[t] \notin BLHelpWork /\ blTodo[t] \in BLDisplaceWork
      /\ Side(g, BL!NoWork) \in Sides
  <2>1. blTodo[t] \notin BLHelpWork /\ blTodo[t] \in BLDisplaceWork
    BY <1>2 DEF BL!UpdateQuiescedOwnerCount, BLHelpWork, BLDisplaceWork, BLHelpOps, BLTyped
  <2>2. blTodo[t] = y
    BY <1>2, <2>1, SoleIs
  <2> QED
    BY <2>1, <2>2 DEF BL!UpdateQuiescedOwnerCount, Side, Sides, BLWork
<1>4. CASE blOwner + y.n # 0
  <2>0. PICK own \in 0 .. 2, wait \in 0 .. 2 : own = owns[t] /\ wait = waits[t]
    BY <1>2 DEF BLTyped
  <2>1. /\ owns' = [owns EXCEPT ![t] = own] /\ waits' = [waits EXCEPT ![t] = wait]
        /\ blTodo' = [blTodo EXCEPT ![t] = BL!NoWork]
    BY <1>2, <1>3, <1>4, <2>0 DEF BL!UpdateQuiescedOwnerCount, BL!cw, BLTyped, BLWord
  <2>2. /\ own \in 0 .. 2 /\ wait \in 0 .. 2 /\ BL!NoWork \in BLWork
        /\ x \in BLWork /\ BL!NoWork \in BLWork
        /\ BLPlaceOK(own, wait, BL!NoWork)
    BY <1>2, <1>3, <1>4, <2>0, BLIdle DEF BLWork, BL!Work, BLPlaceOK, BLTyped, BLPlaces
  <2>3. BLAfter(g, t, own, wait, BL!NoWork)
    BY <1>2, <1>3, <2>1, <2>2, BLMoved
  <2>4. /\ cOOW'[g] = cOOW[g] /\ cOOW'[3 - g] = cOOW[3 - g] /\ blOwner' = blOwner + y.n
        /\ sem'[g] = sem[g] /\ sem'[3 - g] = sem[3 - g]
        /\ cOOW' \in [{1, 2} -> Nat] /\ sem' \in [{1, 2} -> Nat]
    BY <1>2, <1>3, <1>4, <2>0 DEF BL!UpdateQuiescedOwnerCount, BL!cw, BLTyped, BLNat, BLWord
  <2>5. BLWord(g, q)' /\ fQ' \in [{1, 2} -> BOOLEAN]
    BY <1>2, <1>3, <1>4, <2>0 DEF BLWord, BLTyped, BL!UpdateQuiescedOwnerCount, BL!cw
  <2>6. BLSum(q, cOOW[g], cOOW[3 - g], blOwner + y.n, sem[g], sem[3 - g],
              Held(owns, g), Held(owns, 3 - g), Held(waits, g), Held(waits, 3 - g),
              GroupLeavers(blTodo, g), GroupLeavers(blTodo, 3 - g),
              x.op, Side(g, x), x.n, "none", Side(g, BL!NoWork), 0)
    BY <1>2, <1>3, <1>4, <2>0, DisplaceSum DEF BLNumbers
  <2>7. BLNumbers(g, q, x, BL!NoWork)'
    BY <1>2, <1>3, <1>4, <2>0, <2>3, <2>4, <2>6, BLIdle DEF BLNumbers, BLNat, BLAfter, One, Side, BL!Work
  <2>8. Sole([blTodo EXCEPT ![t] = BL!NoWork], BLHelpWork, x)
    BY <1>2, <1>3, BLIdle, SoleSame DEF BLTyped
  <2>9. Sole([blTodo EXCEPT ![t] = BL!NoWork], BLDisplaceWork, BL!NoWork)
    BY <1>2, <1>3, BLIdle, SoleGone DEF BLTyped
  <2> QED
    BY <1>2, <2>1, <2>2, <2>4, <2>5, <2>7, <2>8, <2>9, BLStep
<1>5. CASE blOwner + y.n = 0
  <2>0. PICK own \in 0 .. 2, wait \in 0 .. 2 : own = owns[t] /\ wait = waits[t]
    BY <1>2 DEF BLTyped
  <2>1. /\ owns' = [owns EXCEPT ![t] = own] /\ waits' = [waits EXCEPT ![t] = wait]
        /\ blTodo' = [blTodo EXCEPT ![t] = BL!Work("letIn", g, 0)]
    BY <1>2, <1>3, <1>5, <2>0 DEF BL!UpdateQuiescedOwnerCount, BL!cw, BLTyped, BLWord
  <2>2. /\ own \in 0 .. 2 /\ wait \in 0 .. 2 /\ BL!Work("letIn", g, 0) \in BLWork
        /\ BL!Work("letIn", g, 0) \in BLWork /\ BL!NoWork \in BLWork
        /\ BLPlaceOK(own, wait, BL!Work("letIn", g, 0))
    BY <1>2, <1>3, <1>5, <2>0, BLIdle DEF BLWork, BL!Work, BLPlaceOK, BLTyped, BLPlaces
  <2>3. BLAfter(g, t, own, wait, BL!Work("letIn", g, 0))
    BY <1>2, <1>3, <2>1, <2>2, BLMoved
  <2>4. /\ cOOW'[g] = cOOW[g] /\ cOOW'[3 - g] = cOOW[3 - g] /\ blOwner' = 0
        /\ sem'[g] = sem[g] /\ sem'[3 - g] = sem[3 - g]
        /\ cOOW' \in [{1, 2} -> Nat] /\ sem' \in [{1, 2} -> Nat]
    BY <1>2, <1>3, <1>5, <2>0 DEF BL!UpdateQuiescedOwnerCount, BL!cw, BLTyped, BLNat, BLWord
  <2>5. BLWord(g, q)' /\ fQ' \in [{1, 2} -> BOOLEAN]
    BY <1>2, <1>3, <1>5, <2>0 DEF BLWord, BLTyped, BL!UpdateQuiescedOwnerCount, BL!cw
  <2>6. BLSum(q, cOOW[g], cOOW[3 - g], 0, sem[g], sem[3 - g],
              Held(owns, g), Held(owns, 3 - g), Held(waits, g), Held(waits, 3 - g),
              GroupLeavers(blTodo, g), GroupLeavers(blTodo, 3 - g),
              "letIn", "mine", 0, "none", Side(g, BL!NoWork), 0)
    BY <1>2, <1>3, <1>5, <2>0, DisplaceSum DEF BLNumbers
  <2>7. BLNumbers(g, q, BL!Work("letIn", g, 0), BL!NoWork)'
    BY <1>2, <1>3, <1>5, <2>0, <2>3, <2>4, <2>6, BLIdle DEF BLNumbers, BLNat, BLAfter, One, Side, BL!Work
  <2>8. Sole([blTodo EXCEPT ![t] = BL!Work("letIn", g, 0)], BLHelpWork, BL!Work("letIn", g, 0))
    <3>1. BL!Work("letIn", g, 0) \in BLHelpWork
      BY BLWorkIs DEF BLHelpOps
    <3>2. x.op = "none"
      BY <1>2, <1>3, <1>5, DisplaceLastSum DEF BLNumbers
    <3>3. x \notin BLHelpWork
      BY <3>2, BLNone
    <3> QED
      BY <1>2, <1>3, <3>1, <3>3, SoleNext DEF BLTyped
  <2>9. Sole([blTodo EXCEPT ![t] = BL!Work("letIn", g, 0)], BLDisplaceWork, BL!NoWork)
    <3>1. BL!Work("letIn", g, 0) \notin BLDisplaceWork
      BY BLWorkIs DEF BLHelpOps
    <3> QED
      BY <1>2, <1>3, <3>1, BLIdle, SoleGone DEF BLTyped
  <2> QED
    BY <1>2, <2>1, <2>2, <2>4, <2>5, <2>7, <2>8, <2>9, BLStep
<1> QED
  BY <1>4, <1>5

\* The other group is let in.
LEMMA BLLetsIn ==
    ASSUME NEW g \in {1, 2}, BLInv(g), NEW t \in Thread, BL!LetIn(t), blTodo[t].g = g
    PROVE  BLInv(g)'
<1>1. PICK q \in {"free", "mine", "theirs", "both"}, x \in BLWork, y \in BLWork :
         BLState(g, q, x, y)
  BY DEF BLInv
<1>2. /\ BLTyped /\ BLPlaces /\ BLWord(g, q) /\ BLNumbers(g, q, x, y) /\ BLNat(g)
      /\ Sole(blTodo, BLHelpWork, x) /\ Sole(blTodo, BLDisplaceWork, y)
      /\ 3 - g \in {1, 2} /\ 3 - g # g
  BY <1>1, BLParts
<1>3. /\ BL!LetIn(t)
      /\ blTodo[t] = x /\ x.op = "letIn" /\ x.g = g /\ x.n \in Int /\ Side(g, x) = "mine"
      /\ blTodo[t] \in BLHelpWork /\ blTodo[t] \notin BLDisplaceWork
      /\ Side(g, BL!NoWork) \in Sides
  <2>1. blTodo[t] \in BLHelpWork /\ blTodo[t] \notin BLDisplaceWork
    BY <1>2 DEF BL!LetIn, BLHelpWork, BLDisplaceWork, BLHelpOps, BLTyped
  <2>2. blTodo[t] = x
    BY <1>2, <2>1, SoleIs
  <2> QED
    BY <2>1, <2>2 DEF BL!LetIn, Side, Sides, BLWork
<1>4. q = "both"
  BY <1>2, <1>3, LetInSum DEF BLNumbers
<1>5. CASE cOOW[g] > 0
  <2>0. PICK own \in 0 .. 2, wait \in 0 .. 2, n \in Nat :
            own = owns[t] /\ wait = waits[t] /\ n = cOOW[3 - g]
    BY <1>2 DEF BLTyped, BLNat
  <2>1. /\ owns' = [owns EXCEPT ![t] = own] /\ waits' = [waits EXCEPT ![t] = wait]
        /\ blTodo' = [blTodo EXCEPT ![t] = BL!Work("moveOwners", 3 - g, n)]
    <3>1. owns' = owns /\ waits' = waits
      BY <1>3 DEF BL!LetIn, BL!Other
    <3>2. owns' = [owns EXCEPT ![t] = own] /\ waits' = [waits EXCEPT ![t] = wait]
      BY <1>2, <2>0, <3>1 DEF BLTyped
    <3>3. blTodo' = [blTodo EXCEPT ![t] = BL!Work("moveOwners", 3 - g, n)]
      BY <1>3, <1>5, <2>0 DEF BL!LetIn, BL!Other
    <3> QED
      BY <3>2, <3>3
  <2>2. /\ own \in 0 .. 2 /\ wait \in 0 .. 2 /\ BL!Work("moveOwners", 3 - g, n) \in BLWork
        /\ BL!Work("moveOwners", 3 - g, n) \in BLWork /\ y \in BLWork
        /\ BLPlaceOK(own, wait, BL!Work("moveOwners", 3 - g, n))
    BY <1>2, <1>3, <1>4, <1>5, <2>0, BLIdle DEF BLWork, BL!Work, BLPlaceOK, BLTyped, BLPlaces
  <2>3. BLAfter(g, t, own, wait, BL!Work("moveOwners", 3 - g, n))
    BY <1>2, <1>3, <2>1, <2>2, BLMoved
  <2>4. /\ cOOW'[g] = cOOW[g] /\ cOOW'[3 - g] = 0 /\ blOwner' = blOwner
        /\ sem'[g] = sem[g] /\ sem'[3 - g] = sem[3 - g]
        /\ cOOW' \in [{1, 2} -> Nat] /\ sem' \in [{1, 2} -> Nat]
    BY <1>2, <1>3, <1>4, <1>5, <2>0 DEF BL!LetIn, BL!Other, BLTyped, BLNat, BLWord
  <2>5. BLWord(g, q)' /\ fQ' \in [{1, 2} -> BOOLEAN]
    <3>1. fQ' = [fQ EXCEPT ![3 - g] = (cOOW[g] > 0)]
      BY <1>3 DEF BL!LetIn, BL!Other
    <3>2. (cOOW[g] > 0) = TRUE
      BY <1>2, <1>5 DEF BLNat
    <3>3. fQ' = [fQ EXCEPT ![3 - g] = TRUE]
      BY <3>1, <3>2, Zenon
    <3> QED
      BY <1>2, <1>4, <3>3 DEF BLWord, BLTyped
  <2>6. BLSum(q, cOOW[g], 0, blOwner, sem[g], sem[3 - g],
              Held(owns, g), Held(owns, 3 - g), Held(waits, g), Held(waits, 3 - g),
              GroupLeavers(blTodo, g), GroupLeavers(blTodo, 3 - g),
              "moveOwners", "theirs", n, y.op, Side(g, y), y.n)
    BY <1>2, <1>3, <1>4, <1>5, <2>0, LetInSum DEF BLNumbers
  <2>7. BLNumbers(g, q, BL!Work("moveOwners", 3 - g, n), y)'
    BY <1>2, <1>3, <1>4, <1>5, <2>0, <2>3, <2>4, <2>6, BLIdle DEF BLNumbers, BLNat, BLAfter, One, Side, BL!Work
  <2>8. Sole([blTodo EXCEPT ![t] = BL!Work("moveOwners", 3 - g, n)], BLHelpWork, BL!Work("moveOwners", 3 - g, n))
    <3>1. BL!Work("moveOwners", 3 - g, n) \in BLHelpWork
      BY <1>2, <2>0, BLWorkIs DEF BLHelpOps
    <3> QED
      BY <1>2, <1>3, <3>1, SoleNext DEF BLTyped
  <2>9. Sole([blTodo EXCEPT ![t] = BL!Work("moveOwners", 3 - g, n)], BLDisplaceWork, y)
    <3>1. BL!Work("moveOwners", 3 - g, n) \notin BLDisplaceWork
      BY <1>2, <2>0, BLWorkIs DEF BLHelpOps
    <3> QED
      BY <1>2, <1>3, <3>1, BLIdle, SoleSame DEF BLTyped
  <2> QED
    BY <1>2, <2>1, <2>2, <2>4, <2>5, <2>7, <2>8, <2>9, BLStep
<1>6. CASE ~(cOOW[g] > 0)
  <2>0. PICK own \in 0 .. 2, wait \in 0 .. 2, n \in Nat :
            own = owns[t] /\ wait = waits[t] /\ n = cOOW[3 - g]
    BY <1>2 DEF BLTyped, BLNat
  <2>1. /\ owns' = [owns EXCEPT ![t] = own] /\ waits' = [waits EXCEPT ![t] = wait]
        /\ blTodo' = [blTodo EXCEPT ![t] = BL!Work("post", 3 - g, n)]
    <3>1. owns' = owns /\ waits' = waits
      BY <1>3 DEF BL!LetIn, BL!Other
    <3>2. owns' = [owns EXCEPT ![t] = own] /\ waits' = [waits EXCEPT ![t] = wait]
      BY <1>2, <2>0, <3>1 DEF BLTyped
    <3>3. blTodo' = [blTodo EXCEPT ![t] = BL!Work("post", 3 - g, n)]
      BY <1>3, <1>6, <2>0 DEF BL!LetIn, BL!Other
    <3> QED
      BY <3>2, <3>3
  <2>2. /\ own \in 0 .. 2 /\ wait \in 0 .. 2 /\ BL!Work("post", 3 - g, n) \in BLWork
        /\ BL!Work("post", 3 - g, n) \in BLWork /\ y \in BLWork
        /\ BLPlaceOK(own, wait, BL!Work("post", 3 - g, n))
    BY <1>2, <1>3, <1>4, <1>6, <2>0, BLIdle DEF BLWork, BL!Work, BLPlaceOK, BLTyped, BLPlaces
  <2>3. BLAfter(g, t, own, wait, BL!Work("post", 3 - g, n))
    BY <1>2, <1>3, <2>1, <2>2, BLMoved
  <2>4. /\ cOOW'[g] = cOOW[g] /\ cOOW'[3 - g] = cOOW[3 - g] /\ blOwner' = blOwner
        /\ sem'[g] = sem[g] /\ sem'[3 - g] = sem[3 - g]
        /\ cOOW' \in [{1, 2} -> Nat] /\ sem' \in [{1, 2} -> Nat]
    BY <1>2, <1>3, <1>4, <1>6, <2>0 DEF BL!LetIn, BL!Other, BLTyped, BLNat, BLWord
  <2>5. BLWord(g, "theirs")' /\ fQ' \in [{1, 2} -> BOOLEAN]
    <3>1. fQ' = [fQ EXCEPT ![3 - g] = (cOOW[g] > 0)]
      BY <1>3 DEF BL!LetIn, BL!Other
    <3>2. (cOOW[g] > 0) = FALSE
      BY <1>2, <1>6 DEF BLNat
    <3>3. fQ' = [fQ EXCEPT ![3 - g] = FALSE]
      BY <3>1, <3>2, Zenon
    <3> QED
      BY <1>2, <1>4, <3>3 DEF BLWord, BLTyped
  <2>6. BLSum("theirs", cOOW[g], cOOW[3 - g], blOwner, sem[g], sem[3 - g],
              Held(owns, g), Held(owns, 3 - g), Held(waits, g), Held(waits, 3 - g),
              GroupLeavers(blTodo, g), GroupLeavers(blTodo, 3 - g),
              "post", "theirs", n, y.op, Side(g, y), y.n)
    BY <1>2, <1>3, <1>4, <1>6, <2>0, LetInSum DEF BLNumbers
  <2>7. BLNumbers(g, "theirs", BL!Work("post", 3 - g, n), y)'
    BY <1>2, <1>3, <1>4, <1>6, <2>0, <2>3, <2>4, <2>6, BLIdle DEF BLNumbers, BLNat, BLAfter, One, Side, BL!Work
  <2>8. Sole([blTodo EXCEPT ![t] = BL!Work("post", 3 - g, n)], BLHelpWork, BL!Work("post", 3 - g, n))
    <3>1. BL!Work("post", 3 - g, n) \in BLHelpWork
      BY <1>2, <2>0, BLWorkIs DEF BLHelpOps
    <3> QED
      BY <1>2, <1>3, <3>1, SoleNext DEF BLTyped
  <2>9. Sole([blTodo EXCEPT ![t] = BL!Work("post", 3 - g, n)], BLDisplaceWork, y)
    <3>1. BL!Work("post", 3 - g, n) \notin BLDisplaceWork
      BY <1>2, <2>0, BLWorkIs DEF BLHelpOps
    <3> QED
      BY <1>2, <1>3, <3>1, BLIdle, SoleSame DEF BLTyped
  <2> QED
    BY <1>2, <2>1, <2>2, <2>4, <2>5, <2>7, <2>8, <2>9, BLStep
<1> QED
  BY <1>5, <1>6

\* The new owners are counted in m_cOwner.
LEMMA BLMovesOwners ==
    ASSUME NEW g \in {1, 2}, BLInv(g), NEW t \in Thread, BL!MoveOwners(t), blTodo[t].g = g
    PROVE  BLInv(g)'
<1>1. PICK q \in {"free", "mine", "theirs", "both"}, x \in BLWork, y \in BLWork :
         BLState(g, q, x, y)
  BY DEF BLInv
<1>2. /\ BLTyped /\ BLPlaces /\ BLWord(g, q) /\ BLNumbers(g, q, x, y) /\ BLNat(g)
      /\ Sole(blTodo, BLHelpWork, x) /\ Sole(blTodo, BLDisplaceWork, y)
      /\ 3 - g \in {1, 2} /\ 3 - g # g
  BY <1>1, BLParts
<1>3. /\ BL!MoveOwners(t)
      /\ blTodo[t] = x /\ x.op = "moveOwners" /\ x.g = g /\ x.n \in Int /\ Side(g, x) = "mine"
      /\ blTodo[t] \in BLHelpWork /\ blTodo[t] \notin BLDisplaceWork
      /\ Side(g, BL!NoWork) \in Sides
  <2>1. blTodo[t] \in BLHelpWork /\ blTodo[t] \notin BLDisplaceWork
    BY <1>2 DEF BL!MoveOwners, BLHelpWork, BLDisplaceWork, BLHelpOps, BLTyped
  <2>2. blTodo[t] = x
    BY <1>2, <2>1, SoleIs
  <2> QED
    BY <2>1, <2>2 DEF BL!MoveOwners, Side, Sides, BLWork
<1>4. CASE TRUE
  <2>0. PICK own \in 0 .. 2, wait \in 0 .. 2 : own = owns[t] /\ wait = waits[t]
    BY <1>2 DEF BLTyped
  <2>1. /\ owns' = [owns EXCEPT ![t] = own] /\ waits' = [waits EXCEPT ![t] = wait]
        /\ blTodo' = [blTodo EXCEPT ![t] = BL!Work("post", g, x.n)]
    <3>1. owns' = owns /\ waits' = waits
      BY <1>3 DEF BL!MoveOwners, BL!cw
    <3>2. owns' = [owns EXCEPT ![t] = own] /\ waits' = [waits EXCEPT ![t] = wait]
      BY <1>2, <2>0, <3>1 DEF BLTyped
    <3>3. blTodo' = [blTodo EXCEPT ![t] = BL!Work("post", g, x.n)]
      <4>1. blTodo' = [blTodo EXCEPT ![t] = [x EXCEPT !.op = "post"]]
        BY <1>2, <1>3 DEF BL!MoveOwners, BLTyped
      <4>2. [x EXCEPT !.op = "post"] = BL!Work("post", g, x.n)
        BY <1>3 DEF BLWork, BL!Work
      <4> QED
        BY <4>1, <4>2
    <3> QED
      BY <3>2, <3>3
  <2>2. /\ own \in 0 .. 2 /\ wait \in 0 .. 2 /\ BL!Work("post", g, x.n) \in BLWork
        /\ BL!Work("post", g, x.n) \in BLWork /\ y \in BLWork
        /\ BLPlaceOK(own, wait, BL!Work("post", g, x.n))
    BY <1>2, <1>3, <1>4, <2>0, BLIdle DEF BLWork, BL!Work, BLPlaceOK, BLTyped, BLPlaces
  <2>3. BLAfter(g, t, own, wait, BL!Work("post", g, x.n))
    BY <1>2, <1>3, <2>1, <2>2, BLMoved
  <2>4. /\ cOOW'[g] = cOOW[g] /\ cOOW'[3 - g] = cOOW[3 - g] /\ blOwner' = blOwner + x.n
        /\ sem'[g] = sem[g] /\ sem'[3 - g] = sem[3 - g]
        /\ cOOW' \in [{1, 2} -> Nat] /\ sem' \in [{1, 2} -> Nat]
    BY <1>2, <1>3, <1>4, <2>0 DEF BL!MoveOwners, BL!cw, BLTyped, BLNat, BLWord
  <2>5. BLWord(g, q)' /\ fQ' \in [{1, 2} -> BOOLEAN]
    BY <1>2, <1>3, <1>4, <2>0 DEF BLWord, BLTyped, BL!MoveOwners, BL!cw
  <2>6. BLSum(q, cOOW[g], cOOW[3 - g], blOwner + x.n, sem[g], sem[3 - g],
              Held(owns, g), Held(owns, 3 - g), Held(waits, g), Held(waits, 3 - g),
              GroupLeavers(blTodo, g), GroupLeavers(blTodo, 3 - g),
              "post", "mine", x.n, y.op, Side(g, y), y.n)
    BY <1>2, <1>3, <1>4, <2>0, MoveOwnersSum DEF BLNumbers
  <2>7. BLNumbers(g, q, BL!Work("post", g, x.n), y)'
    BY <1>2, <1>3, <1>4, <2>0, <2>3, <2>4, <2>6, BLIdle DEF BLNumbers, BLNat, BLAfter, One, Side, BL!Work
  <2>8. Sole([blTodo EXCEPT ![t] = BL!Work("post", g, x.n)], BLHelpWork, BL!Work("post", g, x.n))
    <3>1. BL!Work("post", g, x.n) \in BLHelpWork
      BY <1>2, <1>3, BLWorkIs DEF BLHelpOps
    <3> QED
      BY <1>2, <1>3, <3>1, SoleNext DEF BLTyped
  <2>9. Sole([blTodo EXCEPT ![t] = BL!Work("post", g, x.n)], BLDisplaceWork, y)
    <3>1. BL!Work("post", g, x.n) \notin BLDisplaceWork
      BY <1>2, <1>3, BLWorkIs DEF BLHelpOps
    <3> QED
      BY <1>2, <1>3, <3>1, BLIdle, SoleSame DEF BLTyped
  <2> QED
    BY <1>2, <2>1, <2>2, <2>4, <2>5, <2>7, <2>8, <2>9, BLStep
<1> QED
  BY <1>4

\* The new owners are released.
LEMMA BLPosts ==
    ASSUME NEW g \in {1, 2}, BLInv(g), NEW t \in Thread, BL!Post(t), blTodo[t].g = g
    PROVE  BLInv(g)'
<1>1. PICK q \in {"free", "mine", "theirs", "both"}, x \in BLWork, y \in BLWork :
         BLState(g, q, x, y)
  BY DEF BLInv
<1>2. /\ BLTyped /\ BLPlaces /\ BLWord(g, q) /\ BLNumbers(g, q, x, y) /\ BLNat(g)
      /\ Sole(blTodo, BLHelpWork, x) /\ Sole(blTodo, BLDisplaceWork, y)
      /\ 3 - g \in {1, 2} /\ 3 - g # g
  BY <1>1, BLParts
<1>3. /\ BL!Post(t)
      /\ blTodo[t] = x /\ x.op = "post" /\ x.g = g /\ x.n \in Int /\ Side(g, x) = "mine"
      /\ blTodo[t] \in BLHelpWork /\ blTodo[t] \notin BLDisplaceWork
      /\ Side(g, BL!NoWork) \in Sides
  <2>1. blTodo[t] \in BLHelpWork /\ blTodo[t] \notin BLDisplaceWork
    BY <1>2 DEF BL!Post, BLHelpWork, BLDisplaceWork, BLHelpOps, BLTyped
  <2>2. blTodo[t] = x
    BY <1>2, <2>1, SoleIs
  <2> QED
    BY <2>1, <2>2 DEF BL!Post, Side, Sides, BLWork
<1>4. x.n > 0
  BY <1>2, <1>3 DEF BLNumbers, BLSum
<1>5. CASE TRUE
  <2>0. PICK own \in 0 .. 2, wait \in 0 .. 2 : own = owns[t] /\ wait = waits[t]
    BY <1>2 DEF BLTyped
  <2>1. /\ owns' = [owns EXCEPT ![t] = own] /\ waits' = [waits EXCEPT ![t] = wait]
        /\ blTodo' = [blTodo EXCEPT ![t] = BL!NoWork]
    BY <1>2, <1>3, <1>4, <1>5, <2>0 DEF BL!Post, BL!cw, BLTyped, BLWord
  <2>2. /\ own \in 0 .. 2 /\ wait \in 0 .. 2 /\ BL!NoWork \in BLWork
        /\ BL!NoWork \in BLWork /\ y \in BLWork
        /\ BLPlaceOK(own, wait, BL!NoWork)
    BY <1>2, <1>3, <1>4, <1>5, <2>0, BLIdle DEF BLWork, BL!Work, BLPlaceOK, BLTyped, BLPlaces
  <2>3. BLAfter(g, t, own, wait, BL!NoWork)
    BY <1>2, <1>3, <2>1, <2>2, BLMoved
  <2>4. /\ cOOW'[g] = cOOW[g] /\ cOOW'[3 - g] = cOOW[3 - g] /\ blOwner' = blOwner
        /\ sem'[g] = sem[g] + x.n /\ sem'[3 - g] = sem[3 - g]
        /\ cOOW' \in [{1, 2} -> Nat] /\ sem' \in [{1, 2} -> Nat]
    BY <1>2, <1>3, <1>4, <1>5, <2>0 DEF BL!Post, BL!cw, BLTyped, BLNat, BLWord
  <2>5. BLWord(g, q)' /\ fQ' \in [{1, 2} -> BOOLEAN]
    BY <1>2, <1>3, <1>4, <1>5, <2>0 DEF BLWord, BLTyped, BL!Post, BL!cw
  <2>6. BLSum(q, cOOW[g], cOOW[3 - g], blOwner, sem[g] + x.n, sem[3 - g],
              Held(owns, g), Held(owns, 3 - g), Held(waits, g), Held(waits, 3 - g),
              GroupLeavers(blTodo, g), GroupLeavers(blTodo, 3 - g),
              "none", Side(g, BL!NoWork), 0, y.op, Side(g, y), y.n)
    BY <1>2, <1>3, <1>4, <1>5, <2>0, PostOwnersSum DEF BLNumbers
  <2>7. BLNumbers(g, q, BL!NoWork, y)'
    BY <1>2, <1>3, <1>4, <1>5, <2>0, <2>3, <2>4, <2>6, BLIdle DEF BLNumbers, BLNat, BLAfter, One, Side, BL!Work
  <2>8. Sole([blTodo EXCEPT ![t] = BL!NoWork], BLHelpWork, BL!NoWork)
    BY <1>2, <1>3, BLIdle, SoleGone DEF BLTyped
  <2>9. Sole([blTodo EXCEPT ![t] = BL!NoWork], BLDisplaceWork, y)
    BY <1>2, <1>3, BLIdle, SoleSame DEF BLTyped
  <2> QED
    BY <1>2, <2>1, <2>2, <2>4, <2>5, <2>7, <2>8, <2>9, BLStep
<1> QED
  BY <1>5

\* A waiter gets a count of its semaphore.
LEMMA BLWakes ==
    ASSUME NEW g \in {1, 2}, BLInv(g), NEW t \in Thread, BL!Wake(t, g)
    PROVE  BLInv(g)'
<1>1. PICK q \in {"free", "mine", "theirs", "both"}, x \in BLWork, y \in BLWork :
         BLState(g, q, x, y)
  BY DEF BLInv
<1>2. /\ BLTyped /\ BLPlaces /\ BLWord(g, q) /\ BLNumbers(g, q, x, y) /\ BLNat(g)
      /\ Sole(blTodo, BLHelpWork, x) /\ Sole(blTodo, BLDisplaceWork, y)
      /\ 3 - g \in {1, 2} /\ 3 - g # g
  BY <1>1, BLParts
<1>3. /\ waits[t] = g /\ owns[t] = 0 /\ blTodo[t] = BL!NoWork /\ sem[g] > 0
      /\ BL!Wake(t, g)
  BY <1>2 DEF BL!Wake, BLPlaces, BLPlaceOK
<1>4. Held(waits, g) > 0
  BY <1>3, HeldSome
<1>5. CASE TRUE
  <2>1. /\ owns' = [owns EXCEPT ![t] = g] /\ waits' = [waits EXCEPT ![t] = 0]
        /\ blTodo' = [blTodo EXCEPT ![t] = BL!NoWork]
    BY <1>2, <1>3, <1>4, <1>5 DEF BL!Wake, BL!cw, BLTyped, BLWord
  <2>2. /\ g \in 0 .. 2 /\ 0 \in 0 .. 2 /\ BL!NoWork \in BLWork
        /\ x \in BLWork /\ y \in BLWork
        /\ BLPlaceOK(g, 0, BL!NoWork)
    BY <1>2, <1>3, <1>4, <1>5, BLIdle DEF BLWork, BL!Work, BLPlaceOK, BLTyped, BLPlaces
  <2>3. BLAfter(g, t, g, 0, BL!NoWork)
    BY <1>2, <1>3, <2>1, <2>2, BLMoved
  <2>4. /\ cOOW'[g] = cOOW[g] /\ cOOW'[3 - g] = cOOW[3 - g] /\ blOwner' = blOwner
        /\ sem'[g] = sem[g] - 1 /\ sem'[3 - g] = sem[3 - g]
        /\ cOOW' \in [{1, 2} -> Nat] /\ sem' \in [{1, 2} -> Nat]
    BY <1>2, <1>3, <1>4, <1>5 DEF BL!Wake, BL!cw, BLTyped, BLNat, BLWord
  <2>5. BLWord(g, q)' /\ fQ' \in [{1, 2} -> BOOLEAN]
    BY <1>2, <1>3, <1>4, <1>5 DEF BLWord, BLTyped, BL!Wake, BL!cw
  <2>6. BLSum(q, cOOW[g], cOOW[3 - g], blOwner, sem[g] - 1, sem[3 - g],
              Held(owns, g) + 1, Held(owns, 3 - g), Held(waits, g) - 1, Held(waits, 3 - g),
              GroupLeavers(blTodo, g), GroupLeavers(blTodo, 3 - g),
              x.op, Side(g, x), x.n, y.op, Side(g, y), y.n)
    BY <1>2, <1>3, <1>4, <1>5, WakeUpSum DEF BLNumbers
  <2>7. BLNumbers(g, q, x, y)'
    BY <1>2, <1>3, <1>4, <1>5, <2>3, <2>4, <2>6, BLIdle DEF BLNumbers, BLNat, BLAfter, One, Side, BL!Work
  <2>8. Sole([blTodo EXCEPT ![t] = BL!NoWork], BLHelpWork, x)
    BY <1>2, <1>3, BLIdle, SoleSame DEF BLTyped
  <2>9. Sole([blTodo EXCEPT ![t] = BL!NoWork], BLDisplaceWork, y)
    BY <1>2, <1>3, BLIdle, SoleSame DEF BLTyped
  <2> QED
    BY <1>2, <2>1, <2>2, <2>4, <2>5, <2>7, <2>8, <2>9, BLStep
<1> QED
  BY <1>5

\* What the second group sees says what the first one sees.
LEMMA BLInvOne == BLInv(2) => BLInv(1)
<1>1. 3 - 2 = 1
  OBVIOUS
<1> QED
  BY <1>1, BLInvBoth

\* A step of a thread of either group keeps the invariant of that group.
LEMMA BLNextInv ==
    ASSUME BLInv(1), BL!Next
    PROVE  BLInv(1)'
<1>1. \A g \in {1, 2} : BLInv(g)
  <2>1. BLInv(3 - 1)
    BY BLInvBoth
  <2>2. 3 - 1 = 2
    OBVIOUS
  <2> QED
    BY <2>1, <2>2
<1>2. \E g \in {1, 2} : BLInv(g)'
  <2>1. PICK t \in Thread :
           \/ \E g \in {1, 2} : BL!Enter(t, g) \/ BL!FTryEnter(t, g) \/ BL!Leave(t, g)
           \/ BL!Wait(t) \/ BL!HandOver(t)
    BY DEF BL!Next, BL!Group
  <2>2. ASSUME NEW g \in {1, 2}, BL!Enter(t, g) \/ BL!FTryEnter(t, g) \/ BL!Leave(t, g)
        PROVE  BLInv(g)'
    <3>1. BLInv(g) /\ fQ[g] \in BOOLEAN
      BY <1>1 DEF BLInv, BLState, BLTyped
    <3>2. CASE BL!Enter(t, g) /\ fQ[g] = TRUE
      BY <3>1, <3>2, BLWaitingEntry
    <3>3. CASE (BL!Enter(t, g) \/ BL!FTryEnter(t, g)) /\ fQ[g] = FALSE
      BY <3>1, <3>3, BLFreeEntry
    <3>4. CASE BL!Leave(t, g)
      BY <3>1, <3>4, BLLeaves
    <3>5. BL!FTryEnter(t, g) => fQ[g] # TRUE
      BY DEF BL!FTryEnter
    <3> QED
      BY <2>2, <3>1, <3>2, <3>3, <3>4, <3>5
  <2>3. CASE BL!Wait(t)
    <3>1. PICK g \in {1, 2} : BL!Wake(t, g)
      BY <2>3 DEF BL!Wait, BL!Group
    <3>2. BLInv(g)'
      BY <1>1, <3>1, BLWakes
    <3> QED
      BY <3>2
  <2>4. CASE BL!HandOver(t)
    <3>1. PICK g \in {1, 2} : blTodo[t].g = g
      BY <1>1 DEF BLInv, BLState, BLTyped, BLWork
    <3>2. BLInv(g)
      BY <1>1
    <3>3. CASE BL!UpdateQuiescedOwnerCount(t)
      <4>1. blTodo[t].n = -1 \/ blTodo[t].n > 0
        BY <3>2, <3>3 DEF BLInv, BLState, BLPlaces, BLPlaceOK, BL!UpdateQuiescedOwnerCount
      <4>2. BLInv(g)'
        BY <3>1, <3>2, <3>3, <4>1, BLGone, BLDisplaced
      <4> QED
        BY <4>2
    <3>4. CASE BL!LetIn(t) \/ BL!MoveOwners(t) \/ BL!Post(t)
      <4>1. BLInv(g)'
        BY <3>1, <3>2, <3>4, BLLetsIn, BLMovesOwners, BLPosts
      <4> QED
        BY <4>1
    <3> QED
      BY <2>4, <3>3, <3>4 DEF BL!HandOver
  <2> QED
    BY <2>1, <2>2, <2>3, <2>4
<1>3. BLInv(2)' => BLInv(1)'
  BY BLInvOne, PTL
<1> QED
  BY <1>2, <1>3

\* It holds of a new lock.
LEMMA BLInitInv ==
    ASSUME BL!Init
    PROVE  BLInv(1)
<1>1. \A t \in Thread : owns[t] = 0 /\ waits[t] = 0 /\ blTodo[t] = BL!NoWork
  BY DEF BL!Init
<1>2. BLTyped
  BY BLIdle DEF BL!Init, BLTyped, BL!Group
<1>3. BLPlaces
  BY <1>1, BLIdle DEF BLPlaces, BLPlaceOK
<1>4. BLWord(1, "free")
  BY DEF BL!Init, BLWord, BL!Group
<1>5. Sole(blTodo, BLHelpWork, BL!NoWork) /\ Sole(blTodo, BLDisplaceWork, BL!NoWork)
  BY <1>1, BLIdle DEF Sole
<1>6. \A what \in {1, 2} : Held(owns, what) = 0 /\ Held(waits, what) = 0
  <2>1. ASSUME NEW what \in {1, 2}
        PROVE  {t \in Thread : owns[t] = what} = {} /\ {t \in Thread : waits[t] = what} = {}
    BY <1>1
  <2> QED
    BY <2>1, FS_EmptySet DEF Held
<1>7. \A what \in {1, 2} : GroupLeavers(blTodo, what) = 0
  <2>1. ASSUME NEW what \in {1, 2}
        PROVE  {t \in Thread : blTodo[t].op = "addOwners" /\ blTodo[t].g = what /\ blTodo[t].n = -1} = {}
    BY <1>1, BLIdle
  <2> QED
    BY <2>1, FS_EmptySet DEF GroupLeavers
<1>8. BLSum("free", 0, 0, 0, 0, 0, 0, 0, 0, 0, 0, 0, "none", "mine", 0, "none", "mine", 0)
  BY DEF BLSum, BLTypes, ToSide, ToMOwner, BLHelpOps, Sides
<1>9. BLNumbers(1, "free", BL!NoWork, BL!NoWork)
  <2>1. /\ 3 - 1 = 2
        /\ cOOW[1] = 0 /\ cOOW[2] = 0 /\ blOwner = 0 /\ sem[1] = 0 /\ sem[2] = 0
        /\ Held(owns, 1) = 0 /\ Held(owns, 2) = 0 /\ Held(waits, 1) = 0 /\ Held(waits, 2) = 0
        /\ GroupLeavers(blTodo, 1) = 0 /\ GroupLeavers(blTodo, 2) = 0
        /\ Side(1, BL!NoWork) = "mine"
    BY <1>6, <1>7, BLIdle DEF BL!Init, BL!Group, Side
  <2> QED
    BY <1>8, <2>1, BLIdle DEF BLNumbers
<1> QED
  BY <1>2, <1>3, <1>4, <1>5, <1>9, BLIdle DEF BLInv, BLState

-----------------------------------------------------------------------------
(* The binary lock: its properties *)

\* The instance counts as this module does.
LEMMA BLCardinality == \A S : BL!Cardinality(S) = Cardinality(S)
BY DEF BL!Cardinality, Cardinality, BL!IsFiniteSet, IsFiniteSet

\* The counts of the properties are those of the invariant.
LEMMA BLCounted ==
    ASSUME NEW g
    PROVE  /\ BL!Cardinality(BL!Owning(g)) = Held(owns, g)
           /\ BL!Cardinality(BL!Waiting(g)) = Held(waits, g)
           /\ BL!Cardinality(BL!Leaving(g)) = GroupLeavers(blTodo, g)
<1>1. BL!Leaving(g) = {t \in Thread : blTodo[t].op = "addOwners" /\ blTodo[t].g = g /\ blTodo[t].n = -1}
  BY DEF BL!Leaving, BL!Doing
<1> QED
  BY <1>1, BLCardinality DEF BL!Owning, BL!Waiting, Held, GroupLeavers

\* What the one thread with work of S owes, if its work is of T.
LEMMA BLOwedBySole ==
    ASSUME NEW S, NEW x, Sole(blTodo, S, x), NEW D \in SUBSET Thread, NEW T,
           \A u \in D : blTodo[u] \in S,
           \A u \in Thread : blTodo[u] = x => (u \in D <=> x \in T),
           x \in T => x \in S
    PROVE  /\ BL!Owed(D) = IF x \in T THEN x.n ELSE 0
           /\ D = {} <=> x \notin T
<1>1. \A u \in D : blTodo[u] = x /\ x \in S
  BY SoleIs
<1>2. CASE x \in T
  <2>1. PICK h \in Thread : blTodo[h] = x /\ \A u \in Thread \ {h} : blTodo[u] \notin S
    BY <1>2 DEF Sole
  <2>2. D = {h}
    BY <1>2, <2>1
  <2>3. (CHOOSE u \in D : TRUE) = h
    BY <2>2
  <2> QED
    BY <1>1, <1>2, <2>1, <2>2, <2>3 DEF BL!Owed
<1>3. CASE x \notin T
  <2>1. D = {}
    BY <1>1, <1>3
  <2> QED
    BY <1>1, <1>3, <2>1 DEF BL!Owed
<1> QED
  BY <1>2, <1>3

\* What the threads of the lock have to do.
BLTells(x, y) ==
    /\ BL!Owed(BL!Doing("moveOwners", 1) \cup BL!Doing("post", 1)) = ToSide("mine", x.op, Side(1, x), x.n)
    /\ BL!Owed(BL!Doing("moveOwners", 2) \cup BL!Doing("post", 2)) = ToSide("theirs", x.op, Side(1, x), x.n)
    /\ BL!Owed(BL!Doing("moveOwners", 1) \cup BL!Doing("moveOwners", 2)) = ToMOwner(x.op, x.n)
    /\ BL!Owed(BL!Displacing(1) \cup BL!Displacing(2)) = IF y.op = "none" THEN 0 ELSE y.n
    /\ BL!Doing("letIn", 1) = {} <=> ~(x.op = "letIn" /\ x.g = 1)
    /\ BL!Doing("letIn", 2) = {} <=> ~(x.op = "letIn" /\ x.g = 2)
    /\ BL!Displacing(1) = {} <=> ~(y.op = "addOwners" /\ y.g = 1)
    /\ BL!Displacing(2) = {} <=> ~(y.op = "addOwners" /\ y.g = 2)

BLDoing(ops, G) == {u \in Thread : blTodo[u].op \in ops /\ blTodo[u].g \in G}
BLDisplacers(G) ==
    {u \in Thread : blTodo[u].op = "addOwners" /\ blTodo[u].n > 0 /\ blTodo[u].g \in G}

\* The invariant says what they have to do.
LEMMA BLTellsWork ==
    ASSUME NEW q, NEW x \in BLWork, NEW y \in BLWork, BLState(1, q, x, y)
    PROVE  BLTells(x, y)
<1>1. /\ BLTyped /\ BLNumbers(1, q, x, y)
      /\ Sole(blTodo, BLHelpWork, x) /\ Sole(blTodo, BLDisplaceWork, y)
  BY BLParts
<1>2. /\ y.op = "addOwners" => y.n > 0
      /\ y.op \in {"none", "addOwners"}
  BY <1>1 DEF BLNumbers, BLSum, BLTypes
<1>3. ASSUME NEW ops \in SUBSET BLHelpOps, NEW G \in SUBSET {1, 2}
      PROVE  /\ BL!Owed(BLDoing(ops, G)) = IF x.op \in ops /\ x.g \in G THEN x.n ELSE 0
             /\ BLDoing(ops, G) = {} <=> ~(x.op \in ops /\ x.g \in G)
  <2> DEFINE T == {z \in BLWork : z.op \in ops /\ z.g \in G}
  <2>1. BLDoing(ops, G) \in SUBSET Thread /\ \A u \in BLDoing(ops, G) : blTodo[u] \in BLHelpWork
    BY <1>1 DEF BLDoing, BLTyped, BLHelpWork
  <2>2. \A u \in Thread : blTodo[u] = x => (u \in BLDoing(ops, G) <=> x \in T)
    BY DEF BLDoing
  <2>3. (x \in T => x \in BLHelpWork) /\ (x \in T <=> x.op \in ops /\ x.g \in G)
    BY DEF BLHelpWork
  <2> HIDE DEF T
  <2>4. BL!Owed(BLDoing(ops, G)) = (IF x \in T THEN x.n ELSE 0) /\ (BLDoing(ops, G) = {} <=> x \notin T)
    BY <1>1, <2>1, <2>2, <2>3, BLOwedBySole
  <2> QED
    BY <2>3, <2>4
<1>4. ASSUME NEW G \in SUBSET {1, 2}
      PROVE  /\ BL!Owed(BLDisplacers(G)) = IF y.op = "addOwners" /\ y.g \in G THEN y.n ELSE 0
             /\ BLDisplacers(G) = {} <=> ~(y.op = "addOwners" /\ y.g \in G)
  <2> DEFINE T == {z \in BLWork : z.op = "addOwners" /\ z.n > 0 /\ z.g \in G}
  <2>1. BLDisplacers(G) \in SUBSET Thread /\ \A u \in BLDisplacers(G) : blTodo[u] \in BLDisplaceWork
    BY <1>1 DEF BLDisplacers, BLTyped, BLDisplaceWork
  <2>2. \A u \in Thread : blTodo[u] = y => (u \in BLDisplacers(G) <=> y \in T)
    BY DEF BLDisplacers
  <2>3. (y \in T => y \in BLDisplaceWork) /\ (y \in T <=> y.op = "addOwners" /\ y.g \in G)
    BY <1>2 DEF BLDisplaceWork
  <2> HIDE DEF T
  <2>4. BL!Owed(BLDisplacers(G)) = (IF y \in T THEN y.n ELSE 0) /\ (BLDisplacers(G) = {} <=> y \notin T)
    BY <1>1, <2>1, <2>2, <2>3, BLOwedBySole
  <2> QED
    BY <2>3, <2>4
<1>5. /\ x.g \in {1, 2} /\ y.g \in {1, 2}
      /\ Side(1, x) = "mine" <=> x.g = 1
      /\ Side(1, x) = "theirs" <=> x.g = 2
  BY DEF BLWork, Side
<1>6. ASSUME NEW g \in {1, 2}
      PROVE  /\ BL!Owed(BL!Doing("moveOwners", g) \cup BL!Doing("post", g))
                   = IF x.op \in {"moveOwners", "post"} /\ x.g = g THEN x.n ELSE 0
             /\ BL!Doing("letIn", g) = {} <=> ~(x.op = "letIn" /\ x.g = g)
             /\ BL!Displacing(g) = {} <=> ~(y.op = "addOwners" /\ y.g = g)
  <2>1. BL!Doing("moveOwners", g) \cup BL!Doing("post", g)
          = BLDoing({"moveOwners", "post"}, {g})
    BY DEF BL!Doing, BLDoing
  <2>2. BL!Doing("letIn", g) = BLDoing({"letIn"}, {g})
    BY DEF BL!Doing, BLDoing
  <2>3. BL!Displacing(g)
          = BLDisplacers({g})
    BY DEF BL!Displacing, BL!Doing, BLDisplacers
  <2>4. {g} \in SUBSET {1, 2} /\ {"moveOwners", "post"} \in SUBSET BLHelpOps /\ {"letIn"} \in SUBSET BLHelpOps
    BY DEF BLHelpOps
  <2>5. BL!Owed(BL!Doing("moveOwners", g) \cup BL!Doing("post", g))
           = IF x.op \in {"moveOwners", "post"} /\ x.g \in {g} THEN x.n ELSE 0
    BY <1>3, <2>1, <2>4
  <2>6. BL!Doing("letIn", g) = {} <=> ~(x.op \in {"letIn"} /\ x.g \in {g})
    BY <1>3, <2>2, <2>4
  <2>7. BL!Displacing(g) = {} <=> ~(y.op = "addOwners" /\ y.g \in {g})
    BY <1>4, <2>3, <2>4
  <2> QED
    BY <2>5, <2>6, <2>7
<1>7. BL!Owed(BL!Doing("moveOwners", 1) \cup BL!Doing("moveOwners", 2)) = ToMOwner(x.op, x.n)
  <2>1. BL!Doing("moveOwners", 1) \cup BL!Doing("moveOwners", 2)
          = BLDoing({"moveOwners"}, {1, 2})
    BY DEF BL!Doing, BLDoing
  <2>2. {"moveOwners"} \in SUBSET BLHelpOps
    BY DEF BLHelpOps
  <2>3. BL!Owed(BLDoing({"moveOwners"}, {1, 2}))
          = IF x.op \in {"moveOwners"} /\ x.g \in {1, 2} THEN x.n ELSE 0
    BY <1>3, <2>2
  <2> QED
    BY <1>5, <2>1, <2>3 DEF ToMOwner
<1>8. BL!Owed(BL!Displacing(1) \cup BL!Displacing(2)) = IF y.op = "none" THEN 0 ELSE y.n
  <2>1. BL!Displacing(1) \cup BL!Displacing(2)
          = BLDisplacers({1, 2})
    BY DEF BL!Displacing, BL!Doing, BLDisplacers
  <2>2. BL!Owed(BL!Displacing(1) \cup BL!Displacing(2))
          = IF y.op = "addOwners" /\ y.g \in {1, 2} THEN y.n ELSE 0
    BY <1>4, <2>1
  <2> QED
    BY <1>2, <1>5, <2>2
<1>9. ToSide("mine", x.op, Side(1, x), x.n) = IF x.op \in {"moveOwners", "post"} /\ x.g = 1 THEN x.n ELSE 0
  BY <1>5 DEF ToSide
<1>10. ToSide("theirs", x.op, Side(1, x), x.n) = IF x.op \in {"moveOwners", "post"} /\ x.g = 2 THEN x.n ELSE 0
  BY <1>5 DEF ToSide
<1> QED
  BY <1>6, <1>7, <1>8, <1>9, <1>10 DEF BLTells

\* The counts agree, and one group at a time has ownership out.
LEMMA BLAgrees ==
    ASSUME BLInv(1)
    PROVE  BL!TypeOK /\ BL!LegalState /\ BL!CountsAgree /\ BL!MutualExclusion
<1>1. PICK q \in {"free", "mine", "theirs", "both"}, x \in BLWork, y \in BLWork : BLState(1, q, x, y)
  BY DEF BLInv
<1>2. BLTyped /\ BLWord(1, q) /\ BLNumbers(1, q, x, y) /\ BLNat(1) /\ 3 - 1 = 2
  BY <1>1, BLParts
<1>3. BLTells(x, y)
  BY <1>1, BLTellsWork
<1>4. BL!Group = {1, 2} /\ BL!Other(1) = 2 /\ BL!Other(2) = 1
  BY DEF BL!Group, BL!Other
<1>5. /\ BL!Granted(1) = sem[1] + ToSide("mine", x.op, Side(1, x), x.n)
      /\ BL!Granted(2) = sem[2] + ToSide("theirs", x.op, Side(1, x), x.n)
  BY <1>3 DEF BLTells, BL!Granted
<1> DEFINE g1 == ToSide("mine", x.op, Side(1, x), x.n)
           g2 == ToSide("theirs", x.op, Side(1, x), x.n)
           o1 == BL!Out(1)
           o2 == BL!Out(2)
<1>6. g1 \in Int /\ g2 \in Int /\ x.n \in Int /\ y.n \in Int
  BY DEF BLWork, ToSide
<1>7. /\ o1 = Held(owns, 1) + GroupLeavers(blTodo, 1) + sem[1] + g1
      /\ o2 = Held(owns, 2) + GroupLeavers(blTodo, 2) + sem[2] + g2
  <2>1. /\ o1 = Held(owns, 1) + GroupLeavers(blTodo, 1) + (sem[1] + g1)
        /\ o2 = Held(owns, 2) + GroupLeavers(blTodo, 2) + (sem[2] + g2)
    BY <1>5, BLCounted DEF BL!Out
  <2> HIDE DEF o1, o2, g1, g2
  <2> QED
    BY <1>2, <1>6, <2>1 DEF BLNat
<1>8. /\ Held(waits, 1) = sem[1] + g1 + (IF q \in {"theirs", "both"} THEN cOOW[1] ELSE 0)
      /\ Held(waits, 2) = sem[2] + g2 + (IF q \in {"mine", "both"} THEN cOOW[2] ELSE 0)
      /\ o1 = 0 \/ o2 = 0
      /\ q # "both" => /\ blOwner = 0
                       /\ o1 = (IF q = "mine" THEN cOOW[1] ELSE 0)
                       /\ o2 = (IF q = "theirs" THEN cOOW[2] ELSE 0)
      /\ q = "both" =>
            /\ blOwner + (IF y.op = "none" THEN 0 ELSE y.n) + ToMOwner(x.op, x.n) = o1 + o2
            /\ y.op # "none" => IF Side(1, y) = "mine" THEN cOOW[2] > 0 ELSE cOOW[1] > 0
            /\ x.op = "letIn" => IF Side(1, x) = "mine" THEN cOOW[2] > 0 ELSE cOOW[1] > 0
            /\ o1 + o2 = 0 => x.op = "letIn" \/ y.op # "none"
      /\ q = "free" => cOOW[1] = 0 /\ cOOW[2] = 0
      /\ q = "mine" => cOOW[1] > 0 /\ cOOW[2] = 0
      /\ q = "theirs" => cOOW[1] = 0 /\ cOOW[2] > 0
      /\ q = "both" => cOOW[1] > 0 \/ cOOW[2] > 0
      /\ y.op \in {"addOwners", "none"}
  <2> HIDE DEF o1, o2
  <2> QED
    BY <1>2, <1>7 DEF BLNumbers, BLSum, BLTypes
<1>9. /\ fQ[1] <=> q \in {"theirs", "both"}
      /\ fQ[2] <=> q \in {"mine", "both"}
  BY <1>2 DEF BLWord
<1>10. BL!TypeOK
  BY <1>2, <1>4 DEF BL!TypeOK, BLTyped, BLNat, BLWork
<1>11. BL!LegalState
  BY <1>4, <1>8, <1>9 DEF BL!LegalState
<1>12. BL!MutualExclusion
  BY <1>8 DEF BL!MutualExclusion
<1>13. BL!CountsAgree
  <2>1. \A g \in BL!Group :
           BL!Cardinality(BL!Waiting(g)) = BL!Granted(g) + (IF fQ[g] THEN cOOW[g] ELSE 0)
    BY <1>4, <1>5, <1>8, <1>9, BLCounted
  <2>2. ~(fQ[1] /\ fQ[2]) =>
           /\ blOwner = 0
           /\ \A g \in BL!Group : BL!Out(g) = IF fQ[g] THEN 0 ELSE cOOW[g]
    <3> HIDE DEF g1, g2
    <3> QED
      BY <1>4, <1>8, <1>9
  <2>3. ASSUME fQ[1] /\ fQ[2]
        PROVE  blOwner + BL!Owed(BL!Displacing(1) \cup BL!Displacing(2))
                 + BL!Owed(BL!Doing("moveOwners", 1) \cup BL!Doing("moveOwners", 2)) = o1 + o2
    <3> HIDE DEF o1, o2, g1, g2
    <3> QED
      BY <1>3, <1>8, <1>9, <2>3 DEF BLTells
  <2>4. ASSUME fQ[1] /\ fQ[2], o1 + o2 = 0
        PROVE  \E g \in BL!Group : /\ BL!Doing("letIn", g) \cup BL!Displacing(g) # {}
                                   /\ cOOW[BL!Other(g)] > 0
    <3> HIDE DEF o1, o2, g1, g2
    <3>1. q = "both" /\ (x.op = "letIn" \/ y.op # "none")
      BY <1>8, <1>9, <2>4
    <3>2. x.g \in {1, 2} /\ y.g \in {1, 2}
      BY DEF BLWork
    <3>3. CASE x.op = "letIn"
      <4>1. BL!Doing("letIn", x.g) # {} /\ cOOW[BL!Other(x.g)] > 0
        BY <1>3, <1>4, <1>8, <3>1, <3>2, <3>3 DEF BLTells, Side
      <4> QED
        BY <1>4, <3>2, <4>1
    <3>4. CASE y.op # "none"
      <4>1. BL!Displacing(y.g) # {} /\ cOOW[BL!Other(y.g)] > 0
        BY <1>3, <1>4, <1>8, <3>1, <3>2, <3>4 DEF BLTells, Side
      <4> QED
        BY <1>4, <3>2, <4>1
    <3> QED
      BY <3>1, <3>3, <3>4
  <2> QED
    BY <2>1, <2>2, <2>3, <2>4 DEF BL!CountsAgree
<1> QED
  BY <1>10, <1>11, <1>12, <1>13

-----------------------------------------------------------------------------
(* The locks, among the other primitives *)

\* A step of any primitive is one of the reader / writer lock or leaves it alone, and
\* the same holds of the binary lock.
LEMMA LocksSteps ==
    ASSUME [LocksNext]_all
    PROVE  /\ RW!Next \/ UNCHANGED rw
           /\ BL!Next \/ UNCHANGED bl
<1>1. CASE UNCHANGED all
  BY <1>1 DEF all
<1>2. CASE OnLatch(Next)
  BY <1>2 DEF OnLatch
<1>3. CASE OnRWLock(RW!Next)
  BY <1>3 DEF OnRWLock
<1>4. CASE OnBinaryLock(BL!Next)
  BY <1>4 DEF OnBinaryLock
<1>5. CASE OnRangeLock(RL!Next)
  BY <1>5 DEF OnRangeLock
<1>6. CASE OnSemaphores(SO!Next)
  BY <1>6 DEF OnSemaphores, OnSyncObjects
<1>7. CASE OnGates(SO!Next \/ (Asleep /\ UNCHANGED so))
  BY <1>7 DEF OnGates, OnSyncObjects
<1> QED
  BY <1>1, <1>2, <1>3, <1>4, <1>5, <1>6, <1>7 DEF LocksNext

\* What a step leaves alone stays as it was.
LEMMA LocksAlone ==
    /\ RWInv /\ UNCHANGED rw => RWInv'
    /\ BLInv(1) /\ UNCHANGED bl => BLInv(1)'
<1>1. ASSUME RWInv, UNCHANGED rw PROVE RWInv'
  <2>1. PICK q \in {"free", "readers", "writer", "both"}, x \in RWWork, y \in RWWork :
           RWState(q, x, y)
    BY <1>1 DEF RWInv
  <2>2. RWState(q, x, y)'
    BY <1>1, <2>1 DEF rw, RWState, RWTyped, RWPlaces, RWWord, RWNumbers
  <2> QED
    BY <2>2 DEF RWInv
<1>2. ASSUME BLInv(1), UNCHANGED bl PROVE BLInv(1)'
  <2>1. PICK q \in {"free", "mine", "theirs", "both"}, x \in BLWork, y \in BLWork :
           BLState(1, q, x, y)
    BY <1>2 DEF BLInv
  <2>2. BLState(1, q, x, y)'
    BY <1>2, <2>1 DEF bl, BLState, BLTyped, BLPlaces, BLWord, BLNumbers
  <2> QED
    BY <2>2 DEF BLInv
<1> QED
  BY <1>1, <1>2

\* The inductive invariant of both locks.
LocksInv == RWInv /\ BLInv(1)

\* It is one.
LEMMA LocksInductive ==
    /\ LocksInit => LocksInv
    /\ LocksInv /\ [LocksNext]_all => LocksInv'
<1>1. LocksInit => LocksInv
  BY RWInitInv, BLInitInv DEF LocksInit, LocksInv
<1>2. ASSUME LocksInv, [LocksNext]_all PROVE LocksInv'
  <2>1. RWInv /\ BLInv(1)
    BY <1>2 DEF LocksInv
  <2>2. RW!Next \/ UNCHANGED rw
    BY <1>2, LocksSteps
  <2>3. BL!Next \/ UNCHANGED bl
    BY <1>2, LocksSteps
  <2>4. RWInv'
    BY <2>1, <2>2, RWNextInv, LocksAlone
  <2>5. BLInv(1)'
    BY <2>1, <2>3, BLNextInv, LocksAlone
  <2> QED
    BY <2>4, <2>5 DEF LocksInv
<1> QED
  BY <1>1, <1>2

\* The counts of CReaderWriterLock and of CBinaryLock, spread over control word,
\* m_cOwner, semaphores and the threads between two interlocked operations, agree; no
\* wake-up is lost and none is left over, for any finite set of threads.
THEOREM LocksCountsAgree == LocksSpec => []LockCountsAgree
<1>1. LocksInv => LockCountsAgree
  BY RWAgrees, RWWakes, BLAgrees DEF LocksInv, LockCountsAgree
<1> QED
  BY <1>1, LocksInductive, PTL DEF LocksSpec

\* All owners of a CBinaryLock, and all ownership that is granted or being given up,
\* are of one group, through every hand-over, for any finite set of threads.
THEOREM LocksGroupsExclude == LocksSpec => []GroupsExclude
<1>1. LocksInv => GroupsExclude
  BY BLAgrees DEF LocksInv, GroupsExclude
<1> QED
  BY <1>1, LocksInductive, PTL DEF LocksSpec

\* A CReaderWriterLock implements the latch that its clients program against: many
\* readers or one writer, granted and given up in single steps.
THEOREM LocksImplementLatch == LocksSpec => RWImplementsLatch
<1>1. LocksInit => RW!Client!Init
  BY DEF LocksInit, RW!Init, RW!Client!Init
<1>2. LocksInv /\ LocksInv' /\ [LocksNext]_all =>
        [RW!Client!Next]_[t \in Thread |-> CASE lock[t] = "R" -> "S" [] lock[t] = "W" -> "W"
                                             [] OTHER -> "none"]
  <2>1. SUFFICES ASSUME LocksInv, LocksInv', [LocksNext]_all
                 PROVE  [RW!Client!Next]_[t \in Thread |->
                           CASE lock[t] = "R" -> "S" [] lock[t] = "W" -> "W" [] OTHER -> "none"]
    OBVIOUS
  <2>2. RWInv /\ RWInv' /\ (RW!Next \/ lock' = lock)
    BY <2>1, LocksSteps DEF LocksInv, rw
  <2> QED
    BY <2>2, RWClientStep
<1> QED
  BY <1>1, <1>2, LocksInductive, PTL DEF LocksSpec, RWImplementsLatch, RW!ImplementsLatch, RW!Client!Spec
=============================================================================
