-------------------------- MODULE RangeLock_proofs --------------------------
(***************************************************************************)
(* The range locks of a database file are correct for any pages and any    *)
(* number of threads that the latches allow.                               *)
(***************************************************************************)
EXTENDS MCLocks, Sequences, FiniteSetTheorems, FunctionTheorems, SequenceTheorems,
        WellFoundedInduction, TLAPS

-----------------------------------------------------------------------------
(* Counting *)

\* A count of threads is zero if there is no such thread.
LEMMA CountOf ==
    ASSUME NEW A \in SUBSET Thread
    PROVE  /\ IsFiniteSet(A) /\ Cardinality(A) \in Nat /\ Cardinality(A) <= Cardinality(Thread)
           /\ Cardinality(A) = 0 <=> A = {}
<1>1. IsFiniteSet(A) /\ Cardinality(A) <= Cardinality(Thread)
  BY ThreadAssumption, FS_Subset
<1> QED
  BY <1>1, FS_CardinalityType, FS_EmptySet

\* One more thread is counted.
LEMMA CountMore ==
    ASSUME NEW A \in SUBSET Thread, NEW B \in SUBSET Thread, NEW t \in Thread,
           t \notin A, t \in B, \A u \in Thread \ {t} : u \in A <=> u \in B
    PROVE  Cardinality(B) = Cardinality(A) + 1
<1>1. B = A \cup {t}
  OBVIOUS
<1> QED
  BY <1>1, CountOf, FS_AddElement

\* The instance counts as this module does.
LEMMA RLCardinality == \A S : RL!Cardinality(S) = Cardinality(S)
BY DEF RL!Cardinality, Cardinality, RL!IsFiniteSet, IsFiniteSet

-----------------------------------------------------------------------------
(* Sequences of ranges *)

\* A nonempty set of naturals has a least element.
LEMMA LeastNat == ASSUME NEW T \in SUBSET Nat, T # {} PROVE \E x \in T : \A y \in T : x <= y
<1>1. PICK R : R = OpToRel(<, Nat)
  OBVIOUS
<1>2. IsWellFoundedOn(R, Nat)
  BY <1>1, NatLessThanWellFounded
<1>3. PICK x \in T : \A y \in T : ~(<<y, x>> \in R)
  BY <1>2, WFMin
<1>4. \A y \in T : y < x => <<y, x>> \in R
  BY <1>1 DEF OpToRel
<1>5. \A y \in T : ~(y < x)
  BY <1>3, <1>4, Zenon
<1> QED
  BY <1>5

\* A sequence without its k-th element.
LEMMA OneOut ==
    ASSUME NEW S, NEW s \in Seq(S), NEW k \in 1 .. Len(s),
           NEW m, m = SubSeq(s, 1, k - 1) \o SubSeq(s, k + 1, Len(s))
    PROVE  /\ m \in Seq(S) /\ Len(m) = Len(s) - 1
           /\ \A i \in 1 .. Len(m) : m[i] = IF i < k THEN s[i] ELSE s[i + 1]
<1>1. /\ SubSeq(s, 1, k - 1) \in Seq(S) /\ Len(SubSeq(s, 1, k - 1)) = k - 1
      /\ \A i \in 1 .. (k - 1) : SubSeq(s, 1, k - 1)[i] = s[i]
  OBVIOUS
<1>2. /\ SubSeq(s, k + 1, Len(s)) \in Seq(S) /\ Len(SubSeq(s, k + 1, Len(s))) = Len(s) - k
      /\ \A i \in 1 .. (Len(s) - k) : SubSeq(s, k + 1, Len(s))[i] = s[k + i]
  OBVIOUS
<1>3. PICK p : p \in Seq(S) /\ p = SubSeq(s, 1, k - 1) /\ Len(p) = k - 1 /\ \A i \in 1 .. (k - 1) : p[i] = s[i]
  BY <1>1, Zenon
<1>4. PICK q : /\ q \in Seq(S) /\ q = SubSeq(s, k + 1, Len(s)) /\ Len(q) = Len(s) - k
               /\ \A i \in 1 .. (Len(s) - k) : q[i] = s[k + i]
  BY <1>2, Zenon
<1>5. Len(p) = k - 1 /\ Len(q) = Len(s) - k /\ p \in Seq(S) /\ q \in Seq(S)
  BY <1>3, <1>4, Zenon
<1>6. m = p \o q
  BY <1>3, <1>4
<1>7. /\ m \in Seq(S) /\ Len(m) = Len(p) + Len(q)
      /\ \A i \in 1 .. (Len(p) + Len(q)) : m[i] = IF i <= Len(p) THEN p[i] ELSE q[i - Len(p)]
  <2>1. p \in Seq(S) /\ q \in Seq(S)
    BY <1>5
  <2>2. /\ p \o q \in Seq(S) /\ Len(p \o q) = Len(p) + Len(q)
        /\ \A i \in 1 .. (Len(p) + Len(q)) : (p \o q)[i] = IF i <= Len(p) THEN p[i] ELSE q[i - Len(p)]
    BY <2>1, ConcatProperties
  <2> QED
    BY <1>6, <2>2, Zenon
<1>8. Len(m) = Len(s) - 1
  <2>1. (k - 1) + (Len(s) - k) = Len(s) - 1
    OBVIOUS
  <2> QED
    BY <1>5, <1>7, <2>1, Zenon
<1>9. ASSUME NEW i \in 1 .. Len(m) PROVE m[i] = IF i < k THEN s[i] ELSE s[i + 1]
  <2>0. i \in 1 .. (Len(p) + Len(q)) /\ i \in 1 .. (Len(s) - 1)
    BY <1>7, <1>8, <1>9
  <2>1. CASE i < k
    <3>1. i <= Len(p) /\ i \in 1 .. (k - 1)
      BY <1>5, <2>0, <2>1
    <3>2. m[i] = p[i] /\ p[i] = s[i]
      BY <1>3, <1>7, <2>0, <3>1, Zenon
    <3> QED
      BY <2>1, <3>2
  <2>2. CASE ~(i < k)
    <3>1. ~(i <= Len(p)) /\ i - Len(p) \in 1 .. (Len(s) - k) /\ k + (i - Len(p)) = i + 1
      BY <1>5, <2>0, <2>2
    <3>2. m[i] = q[i - Len(p)] /\ q[i - Len(p)] = s[k + (i - Len(p))]
      BY <1>4, <1>7, <2>0, <3>1, Zenon
    <3> QED
      BY <2>2, <3>1, <3>2
  <2> QED
    BY <2>1, <2>2
<1> QED
  BY <1>7, <1>8, <1>9

\* The array without the first occurrence of a range that it lists.
LEMMA WithoutIs ==
    ASSUME NEW S, NEW s \in Seq(S), NEW r, \E i \in 1 .. Len(s) : s[i] = r
    PROVE  \E k \in 1 .. Len(s) :
              /\ s[k] = r
              /\ RL!Without(s, r) \in Seq(S) /\ Len(RL!Without(s, r)) = Len(s) - 1
              /\ \A i \in 1 .. Len(RL!Without(s, r)) :
                    RL!Without(s, r)[i] = IF i < k THEN s[i] ELSE s[i + 1]
<1> DEFINE I == {i \in 1 .. Len(s) : s[i] = r}
           k == RL!SelectInSeq(s, LAMBDA x : x = r)
<1>1. I \in SUBSET Nat /\ I # {}
  OBVIOUS
<1>2. \E x \in I : \A y \in I : x <= y
  BY <1>1, LeastNat
<1>3. k \in I
  BY <1>1, <1>2 DEF RL!SelectInSeq, RL!Min
<1>4. k \in 1 .. Len(s) /\ s[k] = r /\ k # 0
  BY <1>3
<1> HIDE DEF k, I
<1>5. RL!Without(s, r) = RL!RemoveAt(s, k)
  BY <1>4 DEF RL!Without, k
<1>6. RL!Without(s, r) = SubSeq(s, 1, k - 1) \o SubSeq(s, k + 1, Len(s))
  BY <1>5 DEF RL!RemoveAt
<1>7. /\ RL!Without(s, r) \in Seq(S) /\ Len(RL!Without(s, r)) = Len(s) - 1
      /\ \A i \in 1 .. Len(RL!Without(s, r)) :
            RL!Without(s, r)[i] = IF i < k THEN s[i] ELSE s[i + 1]
  BY <1>4, <1>6, OneOut
<1> QED
  BY <1>4, <1>7, Zenon

-----------------------------------------------------------------------------
(* The invariant *)

Sections == {"scan", "write", "leave"}
Busy == {"add", "swapIn", "waitIn", "enter", "remove", "swapOut", "waitOut"}
Waits == {"waitIn", "waitOut"}
\* Where the range of a locker is in the current array.
ListedAt == {"waitIn", "enter", "held", "unlock", "remove", "swapOut"}

\* Who is in the metered section, and in which group of it.
Inside(t) == at[t] \in Sections \/ (t \in Locker /\ at[t] = "held" /\ enters[t])
InGroup(g) == {t \in Thread : Inside(t) /\ group[t] = g}
Completing == {t \in Thread : completes[t]}

RLTyped ==
    /\ groupCurrent \in {0, 1} /\ cIn \in [{0, 1} -> Nat]
    /\ key \in Locker \cup {Nil} /\ signal \subseteq Locker
    /\ semOwner \in Locker \cup {Nil}
    /\ ranges \in [{0, 1} -> Seq(RL!PageRange)] /\ crangeMax \in [{0, 1} -> Nat]
    /\ at \in [Thread -> Sections \cup Busy \cup {"idle", "held", "unlock"}]
    /\ group \in [Thread -> {0, 1}]
    /\ page \in [Thread \ Locker -> Page \cup {Nil}]
    /\ range \in [Locker -> RL!PageRange \cup {Nil}]
    /\ enters \in [Locker -> BOOLEAN] /\ completes \in [Thread -> BOOLEAN]

\* Writers are in the section or idle; a locker is busy while it holds
\* m_semRangeLock, and has a range unless it is idle.
RLPlaces ==
    /\ \A w \in Thread \ Locker : at[w] \in Sections \cup {"idle"} /\ (at[w] # "idle" => page[w] \in Page)
    /\ \A l \in Locker :
          /\ at[l] \notin Sections
          /\ at[l] \in Busy <=> semOwner = l
          /\ at[l] = "idle" => ~enters[l]
          /\ at[l] \in {"enter", "unlock"} => enters[l]
          /\ at[l] # "idle" => range[l] \in RL!PageRange

\* The counters of the section count who is in it.
RLCounts == \A g \in {0, 1} : cIn[g] = Cardinality(InGroup(g))

\* A partition is under way only while a locker waits for it: threads are in the old
\* group, or the last of them completes the partition, or the signal is set.
RLPhase ==
    /\ (\A l \in Locker : at[l] \notin Waits) =>
          cIn[1 - groupCurrent] = 0 /\ signal = {} /\ Completing = {}
    /\ \A l \in Locker : at[l] \in Waits =>
          /\ key = l
          /\ \/ cIn[1 - groupCurrent] > 0 /\ signal = {} /\ Completing = {}
             \/ cIn[1 - groupCurrent] = 0 /\ signal = {} /\ \E t \in Thread : Completing = {t}
             \/ cIn[1 - groupCurrent] = 0 /\ signal = {l} /\ Completing = {}

\* The ranges of s are those of the lockers of L, each in one place.
ListedBy(f, s, L, rg) ==
    /\ f \in [1 .. Len(s) -> L]
    /\ \A i \in 1 .. Len(s), j \in 1 .. Len(s) : f[i] = f[j] => i = j
    /\ \A l \in L : \E i \in 1 .. Len(s) : f[i] = l
    /\ \A i \in 1 .. Len(s) : s[i] = rg[f[i]]

Listed == {l \in Locker : at[l] \in ListedAt}

\* The current array lists the locked ranges; the other one is prepared or was the
\* current one; both fit.
RLArrays ==
    /\ \E f : ListedBy(f, ranges[groupCurrent], Listed, range)
    /\ \A g \in {0, 1} : Len(ranges[g]) <= crangeMax[g]
    /\ Len(ranges[groupCurrent]) - 1 <= crangeMax[1 - groupCurrent]
    /\ \A l \in Locker :
          /\ at[l] = "swapIn" => ranges[1 - groupCurrent] = Append(ranges[groupCurrent], range[l])
          /\ at[l] = "swapOut" => ranges[1 - groupCurrent] = RL!Without(ranges[groupCurrent], range[l])
          /\ at[l] \in Waits => \A k \in Locker : at[k] \in {"held", "unlock"} =>
                \E i \in 1 .. Len(ranges[1 - groupCurrent]) : ranges[1 - groupCurrent][i] = range[k]

\* No range of s contains p; range r is in s and overlaps no other.
Outside(s, p) == \A i \in 1 .. Len(s) : ~RL!FContains(s[i], p)
Alone(s, r) == \E i \in 1 .. Len(s) :
    s[i] = r /\ \A j \in 1 .. Len(s) : j # i => ~RL!FOverlaps(s[j], r)

\* What a thread in the section has found there, and what a locker that is about to
\* enter it will find.
RLFound ==
    /\ \A w \in Thread \ Locker : at[w] = "write" => Outside(ranges[group[w]], page[w])
    /\ \A l \in Locker : enters[l] =>
          /\ at[l] = "add" => \A i \in 1 .. Len(ranges[groupCurrent]) :
                                 ~RL!FOverlaps(ranges[groupCurrent][i], range[l])
          /\ at[l] = "swapIn" => Alone(ranges[1 - groupCurrent], range[l])
          /\ at[l] \in {"waitIn", "enter"} => Alone(ranges[groupCurrent], range[l])
          /\ at[l] = "held" => Alone(ranges[group[l]], range[l])

\* The inductive invariant of the range locks.
RLInv == RLTyped /\ RLPlaces /\ RLCounts /\ RLPhase /\ RLArrays /\ RLFound

-----------------------------------------------------------------------------
(* The parts that a step does not disturb *)

\* Only thread t moves.
Only(t) ==
    \A u \in Thread \ {t} :
        /\ at'[u] = at[u] /\ group'[u] = group[u] /\ completes'[u] = completes[u]
        /\ u \in Locker => range'[u] = range[u] /\ enters'[u] = enters[u]
        /\ u \in Thread \ Locker => page'[u] = page[u]

\* The names of the instance.
LEMMA RLNames ==
    /\ RL!Actor = Thread /\ RL!Groups = {0, 1}
    /\ RL!GroupInactive = 1 - groupCurrent
BY LocksAssumption DEF RL!Actor, RL!Groups, RL!GroupInactive

\* The groups.
LEMMA TwoGroups ==
    ASSUME NEW g \in {0, 1}
    PROVE  1 - g \in {0, 1} /\ 1 - g # g /\ 1 - (1 - g) = g /\ \A h \in {0, 1} : h = g \/ h = 1 - g
OBVIOUS

\* Nobody enters or leaves the section.
LEMMA CountsStay ==
    ASSUME RLCounts, cIn' = cIn,
           \A u \in Thread : /\ Inside(u)' <=> Inside(u)
                             /\ Inside(u) => group'[u] = group[u]
    PROVE  RLCounts'
<1>1. ASSUME NEW g \in {0, 1} PROVE InGroup(g)' = InGroup(g)
  BY DEF InGroup
<1>2. \A g \in {0, 1} : cIn'[g] = Cardinality(InGroup(g)')
  BY <1>1 DEF RLCounts
<1> QED
  BY <1>2 DEF RLCounts

\* A thread enters group g.
LEMMA CountsEnter ==
    ASSUME RLTyped, RLCounts, NEW t \in Thread, NEW g \in {0, 1}, cIn' = [cIn EXCEPT ![g] = @ + 1],
           ~Inside(t), Inside(t)', group'[t] = g,
           \A u \in Thread \ {t} : (Inside(u)' <=> Inside(u)) /\ group'[u] = group[u]
    PROVE  RLCounts'
<1>1. ASSUME NEW h \in {0, 1} \ {g} PROVE cIn'[h] = Cardinality(InGroup(h)')
  <2>1. InGroup(h)' = InGroup(h)
    BY DEF InGroup
  <2>2. cIn'[h] = cIn[h]
    BY DEF RLTyped
  <2> QED
    BY <2>1, <2>2 DEF RLCounts
<1>2. cIn'[g] = Cardinality(InGroup(g)')
  <2>1. /\ InGroup(g) \in SUBSET Thread /\ InGroup(g)' \in SUBSET Thread
        /\ t \notin InGroup(g) /\ t \in InGroup(g)'
        /\ \A u \in Thread \ {t} : u \in InGroup(g) <=> u \in InGroup(g)'
    BY DEF InGroup
  <2>2. Cardinality(InGroup(g)') = Cardinality(InGroup(g)) + 1
    BY <2>1, CountMore
  <2>3. cIn'[g] = cIn[g] + 1
    BY DEF RLTyped
  <2> QED
    BY <2>2, <2>3 DEF RLCounts
<1> QED
  BY <1>1, <1>2 DEF RLCounts

\* A thread leaves its group.
LEMMA CountsLeave ==
    ASSUME RLTyped, RLCounts, NEW t \in Thread, cIn' = [cIn EXCEPT ![group[t]] = @ - 1],
           Inside(t), ~Inside(t)',
           \A u \in Thread \ {t} : (Inside(u)' <=> Inside(u)) /\ group'[u] = group[u]
    PROVE  RLCounts' /\ cIn[group[t]] > 0
<1>1. PICK g \in {0, 1} : g = group[t]
  BY DEF RLTyped
<1>2. ASSUME NEW h \in {0, 1} \ {g} PROVE cIn'[h] = Cardinality(InGroup(h)')
  <2>1. InGroup(h)' = InGroup(h)
    BY <1>1 DEF InGroup
  <2>2. cIn'[h] = cIn[h]
    BY <1>1 DEF RLTyped
  <2> QED
    BY <2>1, <2>2 DEF RLCounts
<1>3. cIn'[g] = Cardinality(InGroup(g)') /\ cIn[g] > 0
  <2>1. /\ InGroup(g) \in SUBSET Thread /\ InGroup(g)' \in SUBSET Thread
        /\ t \in InGroup(g) /\ t \notin InGroup(g)'
        /\ \A u \in Thread \ {t} : u \in InGroup(g)' <=> u \in InGroup(g)
    BY <1>1 DEF InGroup
  <2>2. Cardinality(InGroup(g)) = Cardinality(InGroup(g)') + 1 /\ Cardinality(InGroup(g)') \in Nat
    BY <2>1, CountMore, CountOf
  <2>3. cIn'[g] = cIn[g] - 1
    BY <1>1 DEF RLTyped
  <2>4. cIn[g] = Cardinality(InGroup(g))
    BY DEF RLCounts
  <2> QED
    BY <2>2, <2>3, <2>4
<1>4. \A h \in {0, 1} : cIn'[h] = Cardinality(InGroup(h)')
  BY <1>2, <1>3
<1> QED
  BY <1>1, <1>3, <1>4 DEF RLCounts

\* The partition is as far as it was.
LEMMA PhaseStays ==
    ASSUME RLTyped, RLPhase, groupCurrent' = groupCurrent, cIn'[1 - groupCurrent] = cIn[1 - groupCurrent],
           key' = key, signal' = signal, completes' = completes,
           \A l \in Locker : at'[l] \in Waits <=> at[l] \in Waits
    PROVE  RLPhase'
<1>1. Completing' = Completing
  BY DEF Completing
<1> QED
  BY <1>1 DEF RLPhase

\* The arrays are as they were.
LEMMA ArraysStay ==
    ASSUME RLTyped, RLArrays, groupCurrent' = groupCurrent, ranges' = ranges, crangeMax' = crangeMax,
           \A l \in Locker :
              /\ at'[l] \in ListedAt <=> at[l] \in ListedAt
              /\ at'[l] # "idle" /\ at'[l] # "add" => range'[l] = range[l]
              /\ \A x \in {"swapIn", "swapOut"} : at'[l] = x => at[l] = x
              /\ at'[l] \in Waits => /\ at[l] \in Waits
                                     /\ \A k \in Locker : at'[k] \in {"held", "unlock"} =>
                                                             at[k] \in {"held", "unlock"}
    PROVE  RLArrays'
<1>1. Listed' = Listed
  BY DEF Listed
<1>2. \A l \in Listed : range'[l] = range[l]
  BY <1>1 DEF Listed, ListedAt
<1>3. PICK f : ListedBy(f, ranges[groupCurrent], Listed, range)
  BY DEF RLArrays
<1>4. ListedBy(f, ranges[groupCurrent], Listed, range')
  BY <1>2, <1>3 DEF ListedBy
<1>5. \E f2 : ListedBy(f2, ranges'[groupCurrent'], Listed', range')
  BY <1>1, <1>4
<1>6. \A l \in Locker : at'[l] = "swapIn" => ranges'[1 - groupCurrent'] = Append(ranges'[groupCurrent'], range'[l])
  BY DEF RLArrays
<1>7. \A l \in Locker : at'[l] = "swapOut" => ranges'[1 - groupCurrent'] = RL!Without(ranges'[groupCurrent'], range'[l])
  BY DEF RLArrays
<1>8. \A l \in Locker : at'[l] \in Waits => \A k \in Locker : at'[k] \in {"held", "unlock"} =>
                \E i \in 1 .. Len(ranges'[1 - groupCurrent']) : ranges'[1 - groupCurrent'][i] = range'[k]
  BY DEF RLArrays, Waits
<1> QED
  BY <1>5, <1>6, <1>7, <1>8 DEF RLArrays

\* What a thread has found stays true.
LEMMA FoundStays ==
    ASSUME RLTyped, RLFound, groupCurrent' = groupCurrent, ranges' = ranges,
           \A w \in Thread \ Locker : at'[w] = "write" =>
              at[w] = "write" /\ group'[w] = group[w] /\ page'[w] = page[w],
           \A l \in Locker : enters'[l] =>
              \/ at'[l] \notin {"add", "swapIn", "waitIn", "enter", "held"}
              \/ /\ enters[l] /\ range'[l] = range[l]
                 /\ \/ at'[l] = at[l] /\ group'[l] = group[l]
                    \/ at'[l] \in {"waitIn", "enter"} /\ at[l] \in {"waitIn", "enter"}
    PROVE  RLFound'
<1>1. \A w \in Thread \ Locker : at'[w] = "write" => Outside(ranges'[group'[w]], page'[w])
  BY DEF RLFound
<1>2. ASSUME NEW l \in Locker, enters'[l]
      PROVE  /\ at'[l] = "add" => \A i \in 1 .. Len(ranges'[groupCurrent']) :
                                 ~RL!FOverlaps(ranges'[groupCurrent'][i], range'[l])
             /\ at'[l] = "swapIn" => Alone(ranges'[1 - groupCurrent'], range'[l])
             /\ at'[l] \in {"waitIn", "enter"} => Alone(ranges'[groupCurrent'], range'[l])
             /\ at'[l] = "held" => Alone(ranges'[group'[l]], range'[l])
  BY <1>2 DEF RLFound
<1> QED
  BY <1>1, <1>2 DEF RLFound, Outside, Alone

-----------------------------------------------------------------------------
(* Bijections between an array and its lockers *)

\* A locker's range goes to the end.
LEMMA ListsMore ==
    ASSUME NEW S, NEW s \in Seq(S), NEW L, NEW l, l \notin L, NEW rg, rg[l] \in S,
           NEW f, ListedBy(f, s, L, rg)
    PROVE  \E f2 : ListedBy(f2, Append(s, rg[l]), L \cup {l}, rg)
<1> DEFINE n == Len(s)
           f2 == [i \in 1 .. (n + 1) |-> IF i = n + 1 THEN l ELSE f[i]]
<1>1. PICK m : m = Append(s, rg[l])
  OBVIOUS
<1>2. /\ n \in Nat /\ Len(m) = n + 1 /\ m[n + 1] = rg[l] /\ \A i \in 1 .. n : m[i] = s[i]
  BY <1>1
<1> HIDE DEF n
<1>3. /\ f \in [1 .. n -> L] /\ \A i \in 1 .. n, j \in 1 .. n : f[i] = f[j] => i = j
      /\ \A k \in L : \E i \in 1 .. n : f[i] = k
      /\ \A i \in 1 .. n : s[i] = rg[f[i]]
  BY DEF ListedBy, n
<1>4. \A i \in 1 .. (n + 1) : i \in 1 .. n \/ i = n + 1
  BY <1>2
<1>5. /\ \A i \in 1 .. n : f2[i] = f[i] /\ f2[i] \in L
      /\ f2[n + 1] = l /\ f2 \in [1 .. (n + 1) -> L \cup {l}]
  BY <1>2, <1>3, <1>4
<1> HIDE DEF f2
<1>6. \A i \in 1 .. (n + 1), j \in 1 .. (n + 1) : f2[i] = f2[j] => i = j
  BY <1>3, <1>4, <1>5
<1>7. \A k \in L \cup {l} : \E i \in 1 .. (n + 1) : f2[i] = k
  BY <1>2, <1>3, <1>5
<1>8. \A i \in 1 .. (n + 1) : m[i] = rg[f2[i]]
  BY <1>2, <1>3, <1>4, <1>5
<1>9. ListedBy(f2, m, L \cup {l}, rg)
  BY <1>2, <1>5, <1>6, <1>7, <1>8 DEF ListedBy
<1> QED
  BY <1>1, <1>9

\* A locker's range goes, perhaps from the place of another one that is equal.
LEMMA ListsLess ==
    ASSUME NEW S, NEW s \in Seq(S), NEW L, NEW l \in L, NEW rg,
           NEW f, ListedBy(f, s, L, rg)
    PROVE  \E f2 : ListedBy(f2, RL!Without(s, rg[l]), L \ {l}, rg)
<1>1. PICK n \in Nat : n = Len(s)
  OBVIOUS
<1>2. /\ f \in [1 .. n -> L] /\ \A i \in 1 .. n, j \in 1 .. n : f[i] = f[j] => i = j
      /\ \A k \in L : \E i \in 1 .. n : f[i] = k
      /\ \A i \in 1 .. n : s[i] = rg[f[i]]
  BY <1>1 DEF ListedBy
<1>3. \E i \in 1 .. Len(s) : s[i] = rg[l]
  BY <1>1, <1>2
<1>4. PICK m : m = RL!Without(s, rg[l])
  OBVIOUS
<1>5. PICK k \in 1 .. n : /\ s[k] = rg[l] /\ m \in Seq(S) /\ Len(m) = n - 1
                          /\ \A i \in 1 .. (n - 1) : m[i] = IF i < k THEN s[i] ELSE s[i + 1]
  <2>1. PICK k \in 1 .. Len(s) :
           /\ s[k] = rg[l]
           /\ RL!Without(s, rg[l]) \in Seq(S) /\ Len(RL!Without(s, rg[l])) = Len(s) - 1
           /\ \A i \in 1 .. Len(RL!Without(s, rg[l])) :
                 RL!Without(s, rg[l])[i] = IF i < k THEN s[i] ELSE s[i + 1]
    BY <1>3, WithoutIs
  <2>2. /\ k \in 1 .. n /\ s[k] = rg[l] /\ m \in Seq(S) /\ Len(m) = n - 1
        /\ \A i \in 1 .. (n - 1) : m[i] = IF i < k THEN s[i] ELSE s[i + 1]
    BY <1>1, <1>4, <2>1, Zenon
  <2> QED
    BY <2>2, Zenon
<1> DEFINE Old(i) == IF i < k THEN i ELSE i + 1
           f2 == [i \in 1 .. (n - 1) |-> IF f[Old(i)] = l THEN f[k] ELSE f[Old(i)]]
<1>6. /\ \A i \in 1 .. (n - 1) : Old(i) \in 1 .. n /\ Old(i) # k
      /\ \A i \in 1 .. (n - 1), j \in 1 .. (n - 1) : Old(i) = Old(j) => i = j
      /\ \A j \in 1 .. n : j # k => \E i \in 1 .. (n - 1) : Old(i) = j
  <2>1. \A i \in 1 .. (n - 1) : Old(i) \in 1 .. n /\ Old(i) # k
    BY <1>5
  <2>2. \A i \in 1 .. (n - 1), j \in 1 .. (n - 1) : Old(i) = Old(j) => i = j
    BY <1>5
  <2>3. ASSUME NEW j \in 1 .. n, j # k PROVE \E i \in 1 .. (n - 1) : Old(i) = j
    <3>1. CASE j < k
      <4>1. j \in 1 .. (n - 1) /\ Old(j) = j
        BY <1>5, <3>1
      <4> QED
        BY <4>1
    <3>2. CASE j > k
      <4>1. j - 1 \in 1 .. (n - 1) /\ Old(j - 1) = j
        BY <1>5, <3>2
      <4> QED
        BY <4>1
    <3> QED
      BY <1>5, <2>3, <3>1, <3>2
  <2> QED
    BY <2>1, <2>2, <2>3
<1>7. /\ \A i \in 1 .. (n - 1) : m[i] = s[Old(i)] /\ f2[i] = IF f[Old(i)] = l THEN f[k] ELSE f[Old(i)]
      /\ DOMAIN f2 = 1 .. (n - 1)
  BY <1>5
<1>8. f2 = [i \in DOMAIN f2 |-> f2[i]]
  OBVIOUS
<1> HIDE DEF Old, f2
<1>9. ASSUME NEW i \in 1 .. (n - 1)
      PROVE  /\ f2[i] \in L \ {l} /\ m[i] = rg[f2[i]]
             /\ f[Old(i)] = l => f2[i] = f[k]
             /\ f[Old(i)] # l => f2[i] = f[Old(i)]
  <2>1. Old(i) \in 1 .. n /\ Old(i) # k /\ m[i] = s[Old(i)] /\ s[Old(i)] = rg[f[Old(i)]]
        /\ f[Old(i)] \in L /\ f[k] \in L /\ s[k] = rg[f[k]]
    BY <1>2, <1>5, <1>6, <1>7
  <2>2. f[Old(i)] # f[k]
    BY <1>2, <2>1
  <2> QED
    BY <1>5, <1>7, <2>1, <2>2
<1>10. ASSUME NEW i \in 1 .. (n - 1), NEW j \in 1 .. (n - 1), f2[i] = f2[j] PROVE i = j
  <2>1. /\ Old(i) \in 1 .. n /\ Old(i) # k /\ Old(j) \in 1 .. n /\ Old(j) # k
        /\ Old(i) = Old(j) => i = j
    BY <1>6
  <2>2. f[Old(i)] # f[k] /\ f[Old(j)] # f[k]
    BY <1>2, <1>5, <2>1
  <2>3. f[Old(i)] = f[Old(j)]
    BY <1>9, <1>10, <2>2
  <2> QED
    BY <1>2, <2>1, <2>3
<1>11. ASSUME NEW p \in L \ {l} PROVE \E i \in 1 .. (n - 1) : f2[i] = p
  <2>1. CASE f[k] = p
    <3>1. PICK j \in 1 .. n : f[j] = l
      BY <1>2
    <3>2. PICK i \in 1 .. (n - 1) : Old(i) = j
      BY <1>6, <2>1, <3>1
    <3> QED
      BY <1>9, <2>1, <3>1, <3>2
  <2>2. CASE f[k] # p
    <3>1. PICK j \in 1 .. n : f[j] = p
      BY <1>2
    <3>2. PICK i \in 1 .. (n - 1) : Old(i) = j
      BY <1>6, <2>2, <3>1
    <3> QED
      BY <1>9, <3>1, <3>2
  <2> QED
    BY <2>1, <2>2
<1>12. f2 \in [1 .. (n - 1) -> L \ {l}]
  BY <1>7, <1>8, <1>9
<1>13. ListedBy(f2, m, L \ {l}, rg)
  BY <1>5, <1>9, <1>10, <1>11, <1>12 DEF ListedBy
<1> QED
  BY <1>4, <1>13

\* There are as many ranges as lockers.
LEMMA ListsLength ==
    ASSUME NEW S, NEW s \in Seq(S), NEW L \in SUBSET Thread, NEW rg, NEW f, ListedBy(f, s, L, rg)
    PROVE  Len(s) = Cardinality(L)
<1>1. Len(s) \in Nat /\ f \in Bijection(1 .. Len(s), L)
  BY DEF ListedBy, Bijection, Injection, Surjection, IsInjective
<1>2. ExistsBijection(1 .. Len(s), L)
  BY <1>1 DEF ExistsBijection
<1> QED
  BY <1>1, <1>2, FS_CountingElements

\* Range r is listed as often as there are lockers of L with that range.
CountedAlike(s, L, rg, r) ==
    Cardinality({i \in 1 .. Len(s) : s[i] = r}) = Cardinality({l \in L : rg[l] = r})

\* Every range is listed as often as there are lockers with that range.
LEMMA ListsCount ==
    ASSUME NEW S, NEW s \in Seq(S), NEW L \in SUBSET Thread, NEW rg, NEW f, ListedBy(f, s, L, rg),
           NEW r
    PROVE  CountedAlike(s, L, rg, r)
<1> DEFINE I == {i \in 1 .. Len(s) : s[i] = r}
           K == {l \in L : rg[l] = r}
           f2 == [i \in I |-> f[i]]
<1>1. IsFiniteSet(I)
  <2>1. IsFiniteSet(1 .. Len(s))
    BY FS_Interval
  <2> QED
    BY <2>1, FS_Subset
<1>2. f2 \in Bijection(I, K)
  <2>1. \A i \in I : f2[i] = f[i] /\ f[i] \in K
    BY DEF ListedBy
  <2>2. f2 \in [I -> K]
    BY <2>1
  <2>3. \A i \in I, j \in I : f2[i] = f2[j] => i = j
    BY <2>1 DEF ListedBy
  <2>4. \A l \in K : \E i \in I : f2[i] = l
    <3>1. TAKE l \in K
    <3>2. PICK i \in 1 .. Len(s) : f[i] = l
      BY DEF ListedBy
    <3>3. i \in I
      BY <3>2 DEF ListedBy
    <3> QED
      BY <2>1, <3>2, <3>3
  <2> HIDE DEF f2, I, K
  <2> QED
    BY <2>2, <2>3, <2>4 DEF Bijection, Injection, Surjection, IsInjective
<1>3. ExistsBijection(I, K)
  BY <1>2 DEF ExistsBijection
<1> HIDE DEF I, K, f2
<1>4. Cardinality(K) = Cardinality(I)
  BY <1>1, <1>3, FS_Bijection
<1> QED
  BY <1>4 DEF I, K, CountedAlike

-----------------------------------------------------------------------------
(* Steps of writers *)

\* A thread that leaves the section completes the partition if it is the last one.
LEMMA PhaseLeave ==
    ASSUME RLTyped, RLPhase, NEW t \in Thread, ~completes[t], cIn[group[t]] > 0,
           cIn' = [cIn EXCEPT ![group[t]] = @ - 1],
           completes' = [completes EXCEPT ![t] = (group[t] # groupCurrent /\ cIn[group[t]] = 1)],
           groupCurrent' = groupCurrent, key' = key, signal' = signal,
           \A l \in Locker : at'[l] \in Waits <=> at[l] \in Waits
    PROVE  RLPhase'
<1>0. /\ groupCurrent \in {0, 1} /\ group[t] \in {0, 1} /\ cIn \in [{0, 1} -> Nat]
      /\ completes \in [Thread -> BOOLEAN]
  BY DEF RLTyped
<1>1. CASE group[t] = groupCurrent
  <2>1. completes' = completes
    BY <1>0, <1>1
  <2>2. cIn'[1 - groupCurrent] = cIn[1 - groupCurrent]
    BY <1>0, <1>1
  <2> QED
    BY <2>1, <2>2, PhaseStays
<1>2. CASE group[t] # groupCurrent
  <2>1. group[t] = 1 - groupCurrent
    BY <1>0, <1>2
  <2>2. PICK l \in Locker : at[l] \in Waits
    BY <1>0, <2>1 DEF RLPhase
  <2>3. signal = {} /\ Completing = {}
    BY <1>0, <2>1, <2>2 DEF RLPhase
  <2>4. /\ cIn'[1 - groupCurrent] = cIn[1 - groupCurrent] - 1
        /\ cIn[1 - groupCurrent] \in Nat
    BY <1>0, <2>1
  <2>5. \A u \in Thread : completes'[u] = IF u = t THEN cIn[1 - groupCurrent] = 1 ELSE completes[u]
    BY <1>0, <1>2, <2>1
  <2>6. \A u \in Thread : ~completes[u]
    BY <2>3 DEF Completing
  <2>7. IF cIn[1 - groupCurrent] = 1 THEN Completing' = {t} ELSE Completing' = {}
    BY <2>5, <2>6 DEF Completing
  <2>8. \A k \in Locker : at[k] \in Waits => key = k
    BY DEF RLPhase
  <2>9. /\ \A k \in Locker : at'[k] \in Waits => key' = k
        /\ \E k \in Locker : at'[k] \in Waits
    BY <2>2, <2>8
  <2>10. \/ cIn'[1 - groupCurrent'] > 0 /\ signal' = {} /\ Completing' = {}
         \/ cIn'[1 - groupCurrent'] = 0 /\ signal' = {} /\ Completing' = {t}
    BY <2>1, <2>3, <2>4, <2>7
  <2> QED
    BY <2>9, <2>10 DEF RLPhase
<1> QED
  BY <1>1, <1>2

\* A writer enters the current group.
LEMMA FEnterRangeLockStep ==
    ASSUME RLInv, NEW w \in Thread \ Locker, NEW p \in Page, RL!FEnterRangeLock(w, p)
    PROVE  RLInv'
<1>0. RLTyped /\ RLPlaces /\ RLCounts /\ RLPhase /\ RLArrays /\ RLFound
  BY DEF RLInv
<1>1. /\ at[w] = "idle"
      /\ cIn' = [cIn EXCEPT ![groupCurrent] = @ + 1]
      /\ group' = [group EXCEPT ![w] = groupCurrent]
      /\ at' = [at EXCEPT ![w] = "scan"] /\ page' = [page EXCEPT ![w] = p]
      /\ UNCHANGED <<groupCurrent, key, signal, semOwner, ranges, crangeMax, range, enters, completes>>
  BY DEF RL!FEnterRangeLock, RL!In, RL!Go, RL!GroupEnter, RL!fmp
<1>2. RLTyped'
  BY <1>0, <1>1 DEF RLTyped, Sections
<1>3. Only(w) /\ at'[w] = "scan" /\ group'[w] = groupCurrent /\ page'[w] = p
  BY <1>0, <1>1 DEF RLTyped, Only
<1>4. RLPlaces'
  BY <1>0, <1>1, <1>3 DEF RLPlaces, Only, Sections
<1>5. RLCounts'
  <2>1. ~Inside(w) /\ Inside(w)' /\ groupCurrent \in {0, 1}
    BY <1>0, <1>1, <1>3 DEF Inside, Sections, RLTyped
  <2>2. \A u \in Thread \ {w} : (Inside(u)' <=> Inside(u)) /\ group'[u] = group[u]
    BY <1>3 DEF Inside, Only
  <2> QED
    BY <1>0, <1>1, <1>3, <2>1, <2>2, CountsEnter
<1>6. RLPhase'
  <2>1. cIn'[1 - groupCurrent] = cIn[1 - groupCurrent]
    BY <1>0, <1>1 DEF RLTyped
  <2>2. \A l \in Locker : at'[l] \in Waits <=> at[l] \in Waits
    BY <1>3, LocksAssumption DEF Only
  <2> QED
    BY <1>0, <1>1, <2>1, <2>2, PhaseStays
<1>7. \A l \in Locker : at'[l] = at[l] /\ range'[l] = range[l] /\ group'[l] = group[l]
  BY <1>1, <1>3, LocksAssumption DEF Only
<1>8. RLArrays'
  BY <1>0, <1>1, <1>7, ArraysStay
<1>9. RLFound'
  <2>1. \A v \in Thread \ Locker : at'[v] = "write" =>
              at[v] = "write" /\ group'[v] = group[v] /\ page'[v] = page[v]
    BY <1>3 DEF Only
  <2> QED
    BY <1>0, <1>1, <1>7, <2>1, FoundStays
<1> QED
  BY <1>2, <1>4, <1>5, <1>6, <1>8, <1>9 DEF RLInv

\* A writer looks for its page in the array of its group.
LEMMA ScanStep ==
    ASSUME RLInv, NEW w \in Thread \ Locker, RL!Scan(w)
    PROVE  RLInv'
<1>0. RLTyped /\ RLPlaces /\ RLCounts /\ RLPhase /\ RLArrays /\ RLFound
  BY DEF RLInv
<1>1. PICK x \in {"leave", "write"} :
      /\ at[w] = "scan" /\ at' = [at EXCEPT ![w] = x]
      /\ x = "write" => ~\E i \in DOMAIN ranges[group[w]] : RL!FContains(ranges[group[w]][i], page[w])
      /\ UNCHANGED <<groupCurrent, cIn, key, signal, semOwner, ranges, crangeMax, group, page, range,
                     enters, completes>>
  BY DEF RL!Scan, RL!In, RL!Go, RL!ms, RL!fmp, RL!local
<1>2. RLTyped'
  BY <1>0, <1>1 DEF RLTyped, Sections
<1>3. Only(w) /\ at'[w] = x
  BY <1>0, <1>1 DEF RLTyped, Only
<1>4. RLPlaces'
  BY <1>0, <1>1, <1>3 DEF RLPlaces, Only, Sections
<1>5. RLCounts'
  <2>1. \A u \in Thread : Inside(u)' <=> Inside(u)
    BY <1>1, <1>3 DEF Inside, Only, Sections
  <2> QED
    BY <1>0, <1>1, <2>1, CountsStay
<1>6. \A l \in Locker : at'[l] = at[l] /\ range'[l] = range[l] /\ group'[l] = group[l]
  BY <1>1, <1>3, LocksAssumption DEF Only
<1>7. RLPhase'
  BY <1>0, <1>1, <1>6, PhaseStays
<1>8. RLArrays'
  BY <1>0, <1>1, <1>6, ArraysStay
<1>9. RLFound'
  <2>1. \A v \in Thread \ Locker : at'[v] = "write" => Outside(ranges[group[v]], page[v])
    <3>1. x = "write" => Outside(ranges[group[w]], page[w])
      <4>1. DOMAIN ranges[group[w]] = 1 .. Len(ranges[group[w]])
        BY <1>0 DEF RLTyped
      <4> QED
        BY <1>1, <4>1 DEF Outside
    <3> QED
      BY <1>0, <1>3, <3>1 DEF RLFound, Only
  <2> QED
    BY <1>0, <1>1, <1>6, <2>1 DEF RLFound, Outside, Alone
<1> QED
  BY <1>2, <1>4, <1>5, <1>7, <1>8, <1>9 DEF RLInv

\* It leaves.
LEMMA LeaveRangeLockStep ==
    ASSUME RLInv, NEW w \in Thread \ Locker, RL!LeaveRangeLock(w)
    PROVE  RLInv'
<1>0. RLTyped /\ RLPlaces /\ RLCounts /\ RLPhase /\ RLArrays /\ RLFound
  BY DEF RLInv
<1>1. /\ at[w] \in {"write", "leave"} /\ ~completes[w]
      /\ cIn' = [cIn EXCEPT ![group[w]] = @ - 1]
      /\ completes' = [completes EXCEPT ![w] = (group[w] # groupCurrent /\ cIn[group[w]] = 1)]
      /\ group' = [group EXCEPT ![w] = 0]
      /\ at' = [at EXCEPT ![w] = "idle"] /\ page' = [page EXCEPT ![w] = Nil]
      /\ UNCHANGED <<groupCurrent, key, signal, semOwner, ranges, crangeMax, range, enters>>
  BY DEF RL!LeaveRangeLock, RL!In, RL!Go, RL!MSLeave, RL!fmp
<1>2. Only(w) /\ at'[w] = "idle"
  BY <1>0, <1>1 DEF RLTyped, Only
<1>3. RLCounts' /\ cIn[group[w]] > 0
  <2>1. Inside(w) /\ ~Inside(w)'
    BY <1>1, <1>2 DEF Inside, Sections
  <2>2. \A u \in Thread \ {w} : (Inside(u)' <=> Inside(u)) /\ group'[u] = group[u]
    BY <1>2 DEF Inside, Only
  <2> QED
    BY <1>0, <1>1, <2>1, <2>2, CountsLeave
<1>4. RLTyped'
  <2>1. cIn' \in [{0, 1} -> Nat]
    BY <1>0, <1>1, <1>3 DEF RLTyped
  <2>2. completes' \in [Thread -> BOOLEAN]
    BY <1>0, <1>1 DEF RLTyped
  <2> QED
    BY <1>0, <1>1, <2>1, <2>2 DEF RLTyped
<1>5. RLPlaces'
  BY <1>0, <1>1, <1>2 DEF RLPlaces, Only
<1>6. \A l \in Locker : at'[l] = at[l] /\ range'[l] = range[l] /\ group'[l] = group[l]
  BY <1>1, <1>2, LocksAssumption DEF Only
<1>7. RLPhase'
  BY <1>0, <1>1, <1>3, <1>6, PhaseLeave
<1>8. RLArrays'
  BY <1>0, <1>1, <1>6, ArraysStay
<1>9. RLFound'
  <2>1. \A v \in Thread \ Locker : at'[v] = "write" =>
              at[v] = "write" /\ group'[v] = group[v] /\ page'[v] = page[v]
    BY <1>2 DEF Only
  <2> QED
    BY <1>0, <1>1, <1>6, <2>1, FoundStays
<1> QED
  BY <1>3, <1>4, <1>5, <1>7, <1>8, <1>9 DEF RLInv

-----------------------------------------------------------------------------
(* Steps of lockers *)

\* One locker at a time is busy; unless it waits, no partition is under way and nobody
\* is in the group that is not current.
LEMMA OneBusy ==
    ASSUME RLTyped, RLPlaces, RLCounts, RLPhase, NEW l \in Locker, at[l] \in Busy
    PROVE  /\ \A k \in Locker \ {l} : at[k] \notin Busy
           /\ at[l] \notin Waits => /\ cIn[1 - groupCurrent] = 0 /\ signal = {} /\ Completing = {}
                                    /\ \A u \in Thread : Inside(u) => group[u] = groupCurrent
<1>1. \A k \in Locker \ {l} : at[k] \notin Busy
  BY DEF RLPlaces
<1>2. ASSUME at[l] \notin Waits
      PROVE  cIn[1 - groupCurrent] = 0 /\ signal = {} /\ Completing = {}
  <2>1. \A k \in Locker : at[k] \notin Waits
    BY <1>1, <1>2 DEF Busy, Waits
  <2> QED
    BY <2>1 DEF RLPhase
<1>3. ASSUME at[l] \notin Waits, NEW u \in Thread, Inside(u) PROVE group[u] = groupCurrent
  <2>0. PICK g \in {0, 1} : g = 1 - groupCurrent
    BY DEF RLTyped
  <2>1. Cardinality(InGroup(g)) = 0
    BY <1>2, <1>3, <2>0 DEF RLCounts
  <2>2. InGroup(g) = {}
    BY <2>1, CountOf DEF InGroup
  <2> QED
    BY <1>3, <2>0, <2>2 DEF InGroup, RLTyped
<1> QED
  BY <1>1, <1>2, <1>3

\* A locker takes m_semRangeLock, with a range that may have to overlap no other.
LEMMA LockStep ==
    ASSUME RLInv, NEW l \in Locker, NEW r \in RL!PageRange, NEW e \in BOOLEAN,
           at[l] = "idle", semOwner = Nil, semOwner' = l,
           at' = [at EXCEPT ![l] = "add"], range' = [range EXCEPT ![l] = r],
           enters' = [enters EXCEPT ![l] = e],
           e => \A i \in DOMAIN ranges[groupCurrent] : ~RL!FOverlaps(ranges[groupCurrent][i], r),
           UNCHANGED <<groupCurrent, cIn, key, signal, ranges, crangeMax, group, page, completes>>
    PROVE  RLInv'
<1>0. RLTyped /\ RLPlaces /\ RLCounts /\ RLPhase /\ RLArrays /\ RLFound /\ l \in Thread
  BY LocksAssumption DEF RLInv
<1>1. RLTyped'
  BY <1>0 DEF RLTyped, Busy
<1>2. Only(l) /\ at'[l] = "add" /\ range'[l] = r /\ enters'[l] = e
  BY <1>0 DEF RLTyped, Only
<1>3. \A k \in Locker \ {l} : at'[k] = at[k] /\ range'[k] = range[k] /\ enters'[k] = enters[k]
  BY <1>2, LocksAssumption DEF Only
<1>4. \A w \in Thread \ Locker : at'[w] = at[w] /\ page'[w] = page[w]
  BY <1>2, LocksAssumption DEF Only
<1>5. RLPlaces'
  <2>1. \A k \in Locker : at[k] \notin Busy
    BY <1>0, LocksAssumption DEF RLPlaces
  <2>2. ASSUME NEW k \in Locker \ {l}
        PROVE  /\ at'[k] \notin Sections /\ (at'[k] \in Busy <=> semOwner' = k)
               /\ at'[k] = "idle" => ~enters'[k]
               /\ at'[k] \in {"enter", "unlock"} => enters'[k]
               /\ at'[k] # "idle" => range'[k] \in RL!PageRange
    BY <1>0, <1>3, <2>1 DEF RLPlaces
  <2>3. /\ at'[l] \notin Sections /\ (at'[l] \in Busy <=> semOwner' = l)
        /\ at'[l] # "idle" /\ at'[l] \notin {"enter", "unlock"}
        /\ range'[l] \in RL!PageRange
    BY <1>2 DEF Sections, Busy
  <2> QED
    BY <1>0, <1>4, <2>2, <2>3 DEF RLPlaces
<1>6. RLCounts'
  <2>1. \A u \in Thread : Inside(u)' <=> Inside(u)
    BY <1>0, <1>2 DEF Inside, Only, Sections
  <2> QED
    BY <1>0, <2>1, CountsStay
<1>7. RLPhase'
  <2>1. \A k \in Locker : at'[k] \in Waits <=> at[k] \in Waits
    BY <1>2, <1>3 DEF Waits
  <2> QED
    BY <1>0, <2>1, PhaseStays
<1>8. RLArrays'
  <2>1. \A k \in Locker :
              /\ at'[k] \in ListedAt <=> at[k] \in ListedAt
              /\ at'[k] # "idle" /\ at'[k] # "add" => range'[k] = range[k]
              /\ \A x \in {"swapIn", "swapOut"} : at'[k] = x => at[k] = x
              /\ at'[k] \in Waits => at[k] \in Waits
              /\ at'[k] \in {"held", "unlock"} => at[k] \in {"held", "unlock"}
    BY <1>2, <1>3 DEF Waits, ListedAt
  <2> QED
    BY <1>0, <2>1, ArraysStay
<1>9. RLFound'
  <2>1. DOMAIN ranges[groupCurrent] = 1 .. Len(ranges[groupCurrent])
    BY <1>0 DEF RLTyped
  <2>2. enters'[l] => \A i \in 1 .. Len(ranges[groupCurrent]) : ~RL!FOverlaps(ranges[groupCurrent][i], range'[l])
    BY <1>2, <2>1
  <2> QED
    BY <1>0, <1>2, <1>3, <1>4, <2>2 DEF RLFound, Outside, Alone
<1> QED
  BY <1>1, <1>5, <1>6, <1>7, <1>8, <1>9 DEF RLInv

\* ErrRangeLock and ErrRangeLockAndEnter.
LEMMA ErrRangeLockStep ==
    ASSUME RLInv, NEW l \in Locker, NEW r \in RL!PageRange,
           RL!ErrRangeLock(l, r) \/ RL!ErrRangeLockAndEnter(l, r)
    PROVE  RLInv'
<1>1. CASE RL!ErrRangeLock(l, r)
  <2>1. enters' = [enters EXCEPT ![l] = FALSE]
    BY <1>1 DEF RL!ErrRangeLock, RL!In, RLInv, RLTyped, RLPlaces
  <2> QED
    BY <1>1, <2>1, LockStep DEF RL!ErrRangeLock, RL!In, RL!Go, RL!ms
<1>2. CASE RL!ErrRangeLockAndEnter(l, r)
  BY <1>2, LockStep DEF RL!ErrRangeLockAndEnter, RL!In, RL!Go, RL!ms
<1> QED
  BY <1>1, <1>2

\* A larger array fits.
LEMMA PowerFits ==
    ASSUME NEW n \in Nat, n > 0, n <= 32768
    PROVE  RL!NextPowerOf2(n) \in Nat /\ n <= RL!NextPowerOf2(n)
<1> DEFINE P == {1, 2, 4, 8, 16, 32, 64, 128, 256, 512, 1024, 2048, 4096, 8192, 16384, 32768}
<1>1. \E m \in P : m >= n /\ (m \div 2 < n)
  <2>1. CASE n = 1
    <3>1. 1 \in P /\ 1 >= n /\ (1 \div 2 < n)
      BY <2>1
    <3> QED
      BY <3>1
  <2>2. CASE 1 < n /\ n <= 2
    <3>1. 2 \in P /\ 2 >= n /\ (2 \div 2 < n)
      BY <2>2
    <3> QED
      BY <3>1
  <2>3. CASE 2 < n /\ n <= 4
    <3>1. 4 \in P /\ 4 >= n /\ (4 \div 2 < n)
      BY <2>3
    <3> QED
      BY <3>1
  <2>4. CASE 4 < n /\ n <= 8
    <3>1. 8 \in P /\ 8 >= n /\ (8 \div 2 < n)
      BY <2>4
    <3> QED
      BY <3>1
  <2>5. CASE 8 < n /\ n <= 16
    <3>1. 16 \in P /\ 16 >= n /\ (16 \div 2 < n)
      BY <2>5
    <3> QED
      BY <3>1
  <2>6. CASE 16 < n /\ n <= 32
    <3>1. 32 \in P /\ 32 >= n /\ (32 \div 2 < n)
      BY <2>6
    <3> QED
      BY <3>1
  <2>7. CASE 32 < n /\ n <= 64
    <3>1. 64 \in P /\ 64 >= n /\ (64 \div 2 < n)
      BY <2>7
    <3> QED
      BY <3>1
  <2>8. CASE 64 < n /\ n <= 128
    <3>1. 128 \in P /\ 128 >= n /\ (128 \div 2 < n)
      BY <2>8
    <3> QED
      BY <3>1
  <2>9. CASE 128 < n /\ n <= 256
    <3>1. 256 \in P /\ 256 >= n /\ (256 \div 2 < n)
      BY <2>9
    <3> QED
      BY <3>1
  <2>10. CASE 256 < n /\ n <= 512
    <3>1. 512 \in P /\ 512 >= n /\ (512 \div 2 < n)
      BY <2>10
    <3> QED
      BY <3>1
  <2>11. CASE 512 < n /\ n <= 1024
    <3>1. 1024 \in P /\ 1024 >= n /\ (1024 \div 2 < n)
      BY <2>11
    <3> QED
      BY <3>1
  <2>12. CASE 1024 < n /\ n <= 2048
    <3>1. 2048 \in P /\ 2048 >= n /\ (2048 \div 2 < n)
      BY <2>12
    <3> QED
      BY <3>1
  <2>13. CASE 2048 < n /\ n <= 4096
    <3>1. 4096 \in P /\ 4096 >= n /\ (4096 \div 2 < n)
      BY <2>13
    <3> QED
      BY <3>1
  <2>14. CASE 4096 < n /\ n <= 8192
    <3>1. 8192 \in P /\ 8192 >= n /\ (8192 \div 2 < n)
      BY <2>14
    <3> QED
      BY <3>1
  <2>15. CASE 8192 < n /\ n <= 16384
    <3>1. 16384 \in P /\ 16384 >= n /\ (16384 \div 2 < n)
      BY <2>15
    <3> QED
      BY <3>1
  <2>16. CASE 16384 < n /\ n <= 32768
    <3>1. 32768 \in P /\ 32768 >= n /\ (32768 \div 2 < n)
      BY <2>16
    <3> QED
      BY <3>1
  <2> QED
    BY <2>1, <2>2, <2>3, <2>4, <2>5, <2>6, <2>7, <2>8, <2>9, <2>10, <2>11, <2>12, <2>13, <2>14, <2>15, <2>16
<1>2. P \in SUBSET Nat
  OBVIOUS
<1> DEFINE Q(m) == m >= n /\ (m \div 2 < n)
<1>3. RL!NextPowerOf2(n) = CHOOSE m \in P : Q(m)
  BY DEF RL!NextPowerOf2
<1>4. \E m \in P : Q(m)
  BY <1>1
<1> HIDE DEF P, Q
<1>5. RL!NextPowerOf2(n) \in P /\ Q(RL!NextPowerOf2(n))
  BY <1>3, <1>4
<1>6. PICK m \in P : m = RL!NextPowerOf2(n) /\ Q(m)
  BY <1>5
<1> QED
  BY <1>2, <1>6 DEF Q

\* What is found stays true while the array of the empty group is rewritten.
LEMMA FoundRewrite ==
    ASSUME RLTyped, RLPlaces, RLCounts, RLPhase, RLFound, NEW l \in Locker, at[l] \in {"add", "remove"},
           NEW x \in {"swapIn", "swapOut"}, Only(l), at'[l] = x, RLTyped',
           groupCurrent' = groupCurrent, ranges'[groupCurrent] = ranges[groupCurrent],
           enters' = enters, group' = group, range' = range, page' = page,
           enters[l] /\ x = "swapIn" => Alone(ranges'[1 - groupCurrent], range[l])
    PROVE  RLFound'
<1>1. \A k \in Locker \ {l} : at'[k] = at[k] /\ at'[k] \notin Busy
  BY OneBusy, LocksAssumption DEF Only, Busy
<1>2. \A u \in Thread : Inside(u) => group[u] = groupCurrent
  BY OneBusy DEF Busy, Waits
<1>3. ASSUME NEW w \in Thread \ Locker, at'[w] = "write" PROVE Outside(ranges'[group'[w]], page'[w])
  <2>1. at[w] = "write" /\ Inside(w)
    BY <1>3 DEF Only, Inside, Sections
  <2>2. Outside(ranges[groupCurrent], page[w]) /\ group[w] = groupCurrent
    BY <1>2, <2>1 DEF RLFound
  <2> QED
    BY <2>2
<1>4. ASSUME NEW k \in Locker \ {l}, enters'[k], at'[k] = "held" PROVE Alone(ranges'[group'[k]], range'[k])
  <2>1. at[k] = "held" /\ Inside(k) /\ k \in Thread
    BY <1>1, <1>4, LocksAssumption DEF Inside
  <2>2. Alone(ranges[groupCurrent], range[k]) /\ group[k] = groupCurrent
    BY <1>2, <1>4, <2>1 DEF RLFound
  <2> QED
    BY <2>2
<1>5. \A k \in Locker \ {l} : at'[k] \notin {"add", "swapIn", "waitIn", "enter"}
  BY <1>1 DEF Busy
<1>6. \A w \in Thread \ Locker : at'[w] = "write" => Outside(ranges'[group'[w]], page'[w])
  BY <1>3
<1>7. ASSUME NEW k \in Locker, enters'[k]
      PROVE  /\ at'[k] # "add"
             /\ at'[k] = "swapIn" => Alone(ranges'[1 - groupCurrent'], range'[k])
             /\ at'[k] \notin {"waitIn", "enter"}
             /\ at'[k] = "held" => Alone(ranges'[group'[k]], range'[k])
  BY <1>4, <1>5, <1>7
<1> QED
  BY <1>6, <1>7 DEF RLFound, Outside, Alone

\* A locker prepares the other array, with its range.
LEMMA ErrIAddRangeLockStep ==
    ASSUME RLInv, NEW l \in Locker, RL!ErrIAddRangeLock(l)
    PROVE  RLInv'
<1>0. RLTyped /\ RLPlaces /\ RLCounts /\ RLPhase /\ RLArrays /\ RLFound /\ l \in Thread
  BY LocksAssumption DEF RLInv
<1> DEFINE g == groupCurrent
           s == ranges[groupCurrent]
           new == Append(ranges[groupCurrent], range[l])
<1>1. /\ at[l] = "add" /\ at' = [at EXCEPT ![l] = "swapIn"]
      /\ ranges' = [ranges EXCEPT ![1 - g] = new]
      /\ crangeMax' = [crangeMax EXCEPT ![1 - g] =
                          IF crangeMax[1 - g] < Len(new) THEN RL!NextPowerOf2(Len(new)) ELSE crangeMax[1 - g]]
      /\ UNCHANGED <<groupCurrent, cIn, key, signal, semOwner, group, page, range, enters, completes>>
  BY <1>0 DEF RL!ErrIAddRangeLock, RL!In, RL!Go, RL!ms, RL!local, RL!GroupInactive, RLTyped
<1>2. /\ g \in {0, 1} /\ 1 - g \in {0, 1} /\ 1 - g # g /\ range[l] \in RL!PageRange
      /\ s \in Seq(RL!PageRange) /\ Len(s) \in Nat
      /\ new \in Seq(RL!PageRange) /\ Len(new) = Len(s) + 1
      /\ \A i \in 1 .. Len(s) : new[i] = s[i]
      /\ new[Len(s) + 1] = range[l]
  BY <1>0, <1>1 DEF RLTyped, RLPlaces
<1> HIDE DEF new
<1>3. PICK f : ListedBy(f, s, Listed, range)
  BY <1>0 DEF RLArrays
<1>4. Len(new) \in Nat /\ Len(new) > 0 /\ Len(new) <= 32768
  <2>1. Listed \in SUBSET Thread
    BY LocksAssumption DEF Listed
  <2>2. Len(s) = Cardinality(Listed) /\ Cardinality(Listed) <= Cardinality(Thread) /\ Cardinality(Thread) < 32767
        /\ Cardinality(Thread) \in Nat /\ Cardinality(Listed) \in Nat
    <3>1. Len(s) = Cardinality(Listed)
      BY <1>2, <1>3, <2>1, ListsLength
    <3>2. Thread \in SUBSET Thread
      OBVIOUS
    <3> QED
      BY <2>1, <3>1, <3>2, CountOf, ThreadAssumption
  <2>3. PICK n \in Nat, m \in Nat : n = Len(s) /\ m = Cardinality(Thread) /\ n <= m /\ m < 32767
    BY <1>2, <2>2
  <2>4. n + 1 \in Nat /\ n + 1 > 0 /\ n + 1 <= 32768
    BY <2>3
  <2> QED
    BY <1>2, <2>3, <2>4
<1>5. PICK c2 \in Nat : /\ c2 >= Len(new) /\ c2 >= crangeMax[1 - g]
                        /\ crangeMax' = [crangeMax EXCEPT ![1 - g] = c2]
  <2>1. PICK n \in Nat : n = Len(new) /\ n > 0 /\ n <= 32768
    BY <1>4
  <2>2. PICK m \in Nat, p \in Nat : m = crangeMax[1 - g] /\ p = RL!NextPowerOf2(n) /\ n <= p
    BY <1>0, <1>2, <2>1, PowerFits DEF RLTyped
  <2>3. PICK e \in Nat : e = IF m < n THEN p ELSE m
    OBVIOUS
  <2>4. e >= n /\ e >= m
    BY <2>2, <2>3
  <2>5. crangeMax' = [crangeMax EXCEPT ![1 - g] = e]
    BY <1>1, <2>1, <2>2, <2>3
  <2>6. e >= Len(new) /\ e >= crangeMax[1 - g]
    BY <2>1, <2>2, <2>4
  <2> QED
    BY <2>5, <2>6, Zenon
<1>6. RLTyped'
  <2>1. ranges' \in [{0, 1} -> Seq(RL!PageRange)]
    BY <1>0, <1>1, <1>2 DEF RLTyped
  <2> QED
    BY <1>0, <1>1, <1>5, <2>1 DEF RLTyped, Busy
<1>7. Only(l) /\ at'[l] = "swapIn"
  BY <1>0, <1>1 DEF RLTyped, Only
<1>8. \A k \in Locker \ {l} : at'[k] = at[k] /\ at[k] \notin Busy
  BY <1>0, <1>1, <1>7, OneBusy, LocksAssumption DEF Only, Busy
<1>9. RLPlaces'
  BY <1>0, <1>1, <1>7, <1>8 DEF RLPlaces, Only, Sections, Busy
<1>10. RLCounts'
  <2>1. \A u \in Thread : Inside(u)' <=> Inside(u)
    BY <1>0, <1>1, <1>7 DEF Inside, Only, Sections
  <2> QED
    BY <1>0, <1>1, <2>1, CountsStay
<1>11. RLPhase'
  <2>1. \A k \in Locker : at'[k] \in Waits <=> at[k] \in Waits
    BY <1>1, <1>7, <1>8 DEF Waits
  <2> QED
    BY <1>0, <1>1, <2>1, PhaseStays
<1>12. ranges'[g] = s /\ ranges'[1 - g] = new
  BY <1>0, <1>1, <1>2 DEF RLTyped
<1>13. RLArrays'
  <2>1. Listed' = Listed
    BY <1>1, <1>7, <1>8 DEF Listed, ListedAt
  <2>2. \E f2 : ListedBy(f2, ranges'[groupCurrent'], Listed', range')
    BY <1>1, <1>3, <1>12, <2>1
  <2>3. /\ crangeMax'[g] = crangeMax[g] /\ crangeMax'[1 - g] = c2
    BY <1>0, <1>2, <1>5 DEF RLTyped
  <2>4. Len(s) <= crangeMax[g] /\ Len(s) - 1 <= crangeMax[1 - g] /\ crangeMax[1 - g] \in Nat
    BY <1>0, <1>2 DEF RLArrays, RLTyped
  <2>5. \A h \in {0, 1} : Len(ranges'[h]) <= crangeMax'[h]
    <3>1. \A h \in {0, 1} : h = g \/ h = 1 - g
      BY <1>2
    <3>2. Len(ranges'[g]) <= crangeMax'[g] /\ Len(ranges'[1 - g]) <= crangeMax'[1 - g]
      <4>1. Len(new) <= c2
        BY <1>4, <1>5
      <4> QED
        BY <1>12, <2>3, <2>4, <4>1
    <3> QED
      BY <3>1, <3>2
  <2>6. Len(ranges'[groupCurrent']) - 1 <= crangeMax'[1 - groupCurrent']
    BY <1>1, <1>2, <1>5, <1>12, <2>3, <2>4
  <2>7. \A k \in Locker :
          /\ at'[k] = "swapIn" => ranges'[1 - groupCurrent'] = Append(ranges'[groupCurrent'], range'[k])
          /\ at'[k] # "swapOut" /\ at'[k] \notin Waits
    BY <1>1, <1>7, <1>8, <1>12 DEF Busy, Waits, new
  <2> QED
    BY <2>2, <2>5, <2>6, <2>7 DEF RLArrays
<1>14. RLFound'
  <2>1. ASSUME enters[l] PROVE Alone(ranges'[1 - groupCurrent], range[l])
    <3>1. \A i \in 1 .. Len(s) : ~RL!FOverlaps(s[i], range[l])
      BY <1>0, <1>1, <2>1 DEF RLFound
    <3>2. Len(s) + 1 \in 1 .. Len(new) /\ new[Len(s) + 1] = range[l]
      BY <1>2
    <3>3. \A j \in 1 .. Len(new) : j # Len(s) + 1 => ~RL!FOverlaps(new[j], range[l])
      <4>1. \A j \in 1 .. Len(new) : j # Len(s) + 1 => j \in 1 .. Len(s)
        BY <1>2
      <4> QED
        BY <1>2, <3>1, <4>1
    <3> QED
      BY <1>12, <3>2, <3>3 DEF Alone
  <2>2. RLTyped /\ RLPlaces /\ RLCounts /\ RLPhase /\ RLFound /\ at[l] \in {"add", "remove"}
    BY <1>0, <1>1
  <2>3. "swapIn" \in {"swapIn", "swapOut"}
    OBVIOUS
  <2> QED
    BY <1>1, <1>6, <1>7, <1>12, <2>1, <2>2, <2>3, FoundRewrite
<1> QED
  BY <1>6, <1>9, <1>10, <1>11, <1>13, <1>14 DEF RLInv

\* It prepares the other array without its range.
LEMMA IRemoveRangeLockStep ==
    ASSUME RLInv, NEW l \in Locker, RL!IRemoveRangeLock(l)
    PROVE  RLInv'
<1>0. RLTyped /\ RLPlaces /\ RLCounts /\ RLPhase /\ RLArrays /\ RLFound /\ l \in Thread
  BY LocksAssumption DEF RLInv
<1> DEFINE g == groupCurrent
           s == ranges[groupCurrent]
           new == RL!Without(ranges[groupCurrent], range[l])
<1>1. /\ at[l] = "remove" /\ at' = [at EXCEPT ![l] = "swapOut"]
      /\ ranges' = [ranges EXCEPT ![1 - g] = new]
      /\ UNCHANGED <<groupCurrent, cIn, key, signal, semOwner, crangeMax, group, page, range, enters, completes>>
  BY <1>0 DEF RL!IRemoveRangeLock, RL!In, RL!Go, RL!ms, RL!local, RL!GroupInactive
<1>2. g \in {0, 1} /\ 1 - g \in {0, 1} /\ 1 - g # g /\ s \in Seq(RL!PageRange) /\ Len(s) \in Nat
  BY <1>0 DEF RLTyped
<1>3. PICK f : ListedBy(f, s, Listed, range)
  BY <1>0 DEF RLArrays
<1>4. \E i \in 1 .. Len(s) : s[i] = range[l]
  <2>1. l \in Listed
    BY <1>1 DEF Listed, ListedAt
  <2> QED
    BY <1>3, <2>1 DEF ListedBy
<1>5. new \in Seq(RL!PageRange) /\ Len(new) = Len(s) - 1
  BY <1>2, <1>4, WithoutIs
<1> HIDE DEF new
<1>6. RLTyped'
  <2>1. ranges' \in [{0, 1} -> Seq(RL!PageRange)]
    BY <1>0, <1>1, <1>2, <1>5 DEF RLTyped
  <2> QED
    BY <1>0, <1>1, <2>1 DEF RLTyped, Busy
<1>7. Only(l) /\ at'[l] = "swapOut"
  BY <1>0, <1>1 DEF RLTyped, Only
<1>8. \A k \in Locker \ {l} : at'[k] = at[k] /\ at[k] \notin Busy
  BY <1>0, <1>1, <1>7, OneBusy, LocksAssumption DEF Only, Busy
<1>9. RLPlaces'
  BY <1>0, <1>1, <1>7, <1>8 DEF RLPlaces, Only, Sections, Busy
<1>10. RLCounts'
  <2>1. \A u \in Thread : Inside(u)' <=> Inside(u)
    BY <1>0, <1>1, <1>7 DEF Inside, Only, Sections
  <2> QED
    BY <1>0, <1>1, <2>1, CountsStay
<1>11. RLPhase'
  <2>1. \A k \in Locker : at'[k] \in Waits <=> at[k] \in Waits
    BY <1>1, <1>7, <1>8 DEF Waits
  <2> QED
    BY <1>0, <1>1, <2>1, PhaseStays
<1>12. ranges'[g] = s /\ ranges'[1 - g] = new
  BY <1>0, <1>1, <1>2 DEF RLTyped
<1>13. RLArrays'
  <2>1. Listed' = Listed
    BY <1>1, <1>7, <1>8 DEF Listed, ListedAt
  <2>2. \E f2 : ListedBy(f2, ranges'[groupCurrent'], Listed', range')
    BY <1>1, <1>3, <1>12, <2>1
  <2>3. Len(s) <= crangeMax[g] /\ Len(s) - 1 <= crangeMax[1 - g]
    BY <1>0, <1>2 DEF RLArrays
  <2>4. \A h \in {0, 1} : Len(ranges'[h]) <= crangeMax'[h]
    <3>1. \A h \in {0, 1} : h = g \/ h = 1 - g
      BY <1>2
    <3>2. Len(ranges'[g]) <= crangeMax'[g] /\ Len(ranges'[1 - g]) <= crangeMax'[1 - g]
      BY <1>1, <1>5, <1>12, <2>3
    <3> QED
      BY <3>1, <3>2
  <2>5. Len(ranges'[groupCurrent']) - 1 <= crangeMax'[1 - groupCurrent']
    BY <1>1, <1>12, <2>3
  <2>6. \A k \in Locker :
          /\ at'[k] = "swapOut" => ranges'[1 - groupCurrent'] = RL!Without(ranges'[groupCurrent'], range'[k])
          /\ at'[k] # "swapIn" /\ at'[k] \notin Waits
    BY <1>1, <1>7, <1>8, <1>12 DEF Busy, Waits, new
  <2> QED
    BY <2>2, <2>4, <2>5, <2>6 DEF RLArrays
<1>14. RLFound'
  <2>1. RLTyped /\ RLPlaces /\ RLCounts /\ RLPhase /\ RLFound /\ at[l] \in {"add", "remove"}
    BY <1>0, <1>1
  <2>2. "swapOut" \in {"swapIn", "swapOut"} /\ "swapOut" # "swapIn"
    OBVIOUS
  <2> QED
    BY <1>1, <1>6, <1>7, <1>12, <2>1, <2>2, FoundRewrite
<1> QED
  BY <1>6, <1>9, <1>10, <1>11, <1>13, <1>14 DEF RLInv

\* The groups change places.
LEMMA PartitionStep ==
    ASSUME RLInv, NEW l \in Locker, RL!Partition(l)
    PROVE  RLInv'
<1>0. RLTyped /\ RLPlaces /\ RLCounts /\ RLPhase /\ RLArrays /\ RLFound /\ l \in Thread
  BY LocksAssumption DEF RLInv
<1>1. PICK g \in {0, 1}, s \in Seq(RL!PageRange), m \in Seq(RL!PageRange) :
        g = groupCurrent /\ s = ranges[g] /\ m = ranges[1 - g]
  BY <1>0 DEF RLTyped
<1>2. 1 - g \in {0, 1} /\ 1 - g # g /\ 1 - (1 - g) = g /\ \A h \in {0, 1} : h = g \/ h = 1 - g
  BY <1>1, TwoGroups
<1>3. PICK x \in {"waitIn", "waitOut"} :
      /\ at[l] = IF x = "waitIn" THEN "swapIn" ELSE "swapOut"
      /\ at' = [at EXCEPT ![l] = x]
      /\ key' = l /\ groupCurrent' = 1 - g
      /\ completes' = [completes EXCEPT ![l] = (cIn[g] = 0)]
      /\ UNCHANGED <<cIn, signal, semOwner, ranges, crangeMax, group, page, range, enters>>
  BY <1>1 DEF RL!Partition, RL!In, RL!Go, RL!fmp, RL!GroupInactive
<1>4. RLTyped'
  BY <1>0, <1>2, <1>3 DEF RLTyped, Busy
<1>5. Only(l) /\ at'[l] = x /\ completes'[l] = (cIn[g] = 0)
  BY <1>0, <1>3 DEF RLTyped, Only
<1>6. \A k \in Locker \ {l} : at'[k] = at[k] /\ at[k] \notin Busy
  BY <1>0, <1>3, <1>5, OneBusy, LocksAssumption DEF Only, Busy
<1>7. /\ cIn[1 - g] = 0 /\ signal = {} /\ Completing = {}
      /\ \A u \in Thread : Inside(u) => group[u] = g
  BY <1>0, <1>1, <1>3, OneBusy DEF Busy, Waits
<1>8. RLPlaces'
  BY <1>0, <1>3, <1>5, <1>6 DEF RLPlaces, Only, Sections, Busy
<1>9. RLCounts'
  <2>1. \A u \in Thread : Inside(u)' <=> Inside(u)
    BY <1>0, <1>3, <1>5 DEF Inside, Only, Sections
  <2> QED
    BY <1>0, <1>3, <2>1, CountsStay
<1>10. RLPhase'
  <2>1. cIn[g] \in Nat /\ cIn'[1 - groupCurrent'] = cIn[g]
    BY <1>0, <1>1, <1>2, <1>3 DEF RLTyped
  <2>2. \A k \in Locker : at'[k] \in Waits <=> k = l
    BY <1>5, <1>6 DEF Busy, Waits
  <2>3. Completing' = IF cIn[g] = 0 THEN {l} ELSE {}
    <3>1. \A u \in Thread \ {l} : ~completes'[u]
      BY <1>5, <1>7 DEF Completing, Only
    <3> QED
      BY <1>0, <1>5, <3>1 DEF Completing
  <2>4. \/ cIn'[1 - groupCurrent'] > 0 /\ signal' = {} /\ Completing' = {}
        \/ cIn'[1 - groupCurrent'] = 0 /\ signal' = {} /\ \E t \in Thread : Completing' = {t}
    BY <1>0, <1>3, <1>7, <2>1, <2>3
  <2> QED
    BY <1>3, <2>2, <2>4 DEF RLPhase
<1>11. PICK f : ListedBy(f, s, Listed, range)
  BY <1>0, <1>1 DEF RLArrays
<1>12. /\ \A k \in Listed : \E i \in 1 .. Len(s) : s[i] = range[k]
       /\ Len(s) <= crangeMax[g] /\ Len(m) <= crangeMax[1 - g]
       /\ Len(s) \in Nat /\ crangeMax[g] \in Nat
  BY <1>0, <1>1, <1>2, <1>11 DEF RLArrays, ListedBy, RLTyped
<1>13. /\ x = "waitIn" => l \notin Listed /\ Listed' = Listed \cup {l} /\ m = Append(s, range[l])
       /\ x = "waitOut" => l \in Listed /\ Listed' = Listed \ {l} /\ m = RL!Without(s, range[l])
  <2>1. \A k \in Locker \ {l} : k \in Listed' <=> k \in Listed
    BY <1>6 DEF Listed
  <2>2. /\ x = "waitIn" => l \notin Listed /\ l \in Listed'
        /\ x = "waitOut" => l \in Listed /\ l \notin Listed'
    BY <1>3, <1>5 DEF Listed, ListedAt
  <2>3. Listed \in SUBSET Locker /\ Listed' \in SUBSET Locker
    BY DEF Listed
  <2>4. /\ x = "waitIn" => Listed' = Listed \cup {l}
        /\ x = "waitOut" => Listed' = Listed \ {l}
    BY <2>1, <2>2, <2>3
  <2>5. /\ x = "waitIn" => m = Append(s, range[l])
        /\ x = "waitOut" => m = RL!Without(s, range[l])
    BY <1>0, <1>1, <1>3 DEF RLArrays
  <2> QED
    BY <2>2, <2>4, <2>5
<1>14. (\E f2 : ListedBy(f2, m, Listed', range)) /\ Len(m) - 1 <= Len(s)
  <2>1. CASE x = "waitIn"
    <3>1. range[l] \in RL!PageRange
      BY <1>0, <1>3, <2>1 DEF RLPlaces
    <3>2. \E f2 : ListedBy(f2, Append(s, range[l]), Listed \cup {l}, range)
      BY <1>1, <1>11, <1>13, <2>1, <3>1, ListsMore
    <3>3. \E f2 : ListedBy(f2, m, Listed', range)
      BY <1>13, <2>1, <3>2, Zenon
    <3>4. Len(Append(s, range[l])) = Len(s) + 1
      BY <1>1, <3>1
    <3>5. Len(m) - 1 <= Len(s)
      BY <1>12, <1>13, <2>1, <3>4
    <3> QED
      BY <3>3, <3>5, Zenon
  <2>2. CASE x = "waitOut"
    <3>1. \E f2 : ListedBy(f2, RL!Without(s, range[l]), Listed \ {l}, range)
      BY <1>1, <1>11, <1>13, <2>2, ListsLess
    <3>2. \E i \in 1 .. Len(s) : s[i] = range[l]
      BY <1>12, <1>13, <2>2
    <3>3. Len(RL!Without(s, range[l])) = Len(s) - 1
      BY <1>1, <3>2, WithoutIs
    <3>4. \E f2 : ListedBy(f2, m, Listed', range)
      BY <1>13, <2>2, <3>1, Zenon
    <3>5. Len(m) - 1 <= Len(s)
      BY <1>12, <1>13, <2>2, <3>3
    <3> QED
      BY <3>4, <3>5, Zenon
  <2> QED
    BY <2>1, <2>2
<1>15. ranges'[groupCurrent'] = m /\ ranges'[1 - groupCurrent'] = s
  BY <1>1, <1>2, <1>3
<1>16. RLArrays'
  <2>1. \E f2 : ListedBy(f2, ranges'[groupCurrent'], Listed', range')
    BY <1>3, <1>14, <1>15
  <2>2. \A h \in {0, 1} : Len(ranges'[h]) <= crangeMax'[h]
    BY <1>0, <1>3 DEF RLArrays
  <2>3. Len(ranges'[groupCurrent']) - 1 <= crangeMax'[1 - groupCurrent']
    <3>1. PICK n \in Nat : n = Len(m)
      BY <1>1
    <3>2. n - 1 <= crangeMax[g]
      BY <1>12, <1>14, <3>1
    <3> QED
      BY <1>2, <1>3, <1>15, <3>1, <3>2
  <2>4. ASSUME NEW k \in Locker
        PROVE  /\ at'[k] # "swapIn" /\ at'[k] # "swapOut"
               /\ at'[k] \in {"held", "unlock"} =>
                     \E i \in 1 .. Len(ranges'[1 - groupCurrent']) : ranges'[1 - groupCurrent'][i] = range'[k]
    <3>1. at'[k] # "swapIn" /\ at'[k] # "swapOut"
      BY <1>5, <1>6 DEF Busy
    <3>2. ASSUME at'[k] \in {"held", "unlock"}
          PROVE  \E i \in 1 .. Len(s) : s[i] = range[k]
      <4>1. k \in Listed
        BY <1>5, <1>6, <3>2 DEF Listed, ListedAt
      <4> QED
        BY <1>12, <4>1
    <3> QED
      BY <1>3, <1>15, <3>1, <3>2
  <2> QED
    BY <2>1, <2>2, <2>3, <2>4 DEF RLArrays
<1>17. RLFound'
  <2>1. \A w \in Thread \ Locker : at'[w] = "write" => Outside(ranges'[group'[w]], page'[w])
    BY <1>0, <1>3, <1>5 DEF RLFound, Only
  <2>2. ASSUME NEW k \in Locker, enters'[k]
        PROVE  /\ at'[k] # "add" /\ at'[k] # "swapIn" /\ at'[k] # "enter"
               /\ at'[k] = "waitIn" => Alone(ranges'[groupCurrent'], range'[k])
               /\ at'[k] = "held" => Alone(ranges'[group'[k]], range'[k])
    <3>1. CASE k = l
      BY <1>0, <1>1, <1>3, <1>5, <1>15, <2>2, <3>1 DEF RLFound
    <3>2. CASE k # l
      BY <1>0, <1>3, <1>6, <2>2, <3>2 DEF RLFound, Busy
    <3> QED
      BY <3>1, <3>2
  <2> QED
    BY <2>1, <2>2 DEF RLFound, Outside, Alone
<1> QED
  BY <1>4, <1>8, <1>9, <1>10, <1>16, <1>17 DEF RLInv

\* The last to leave the old group sets the signal.
LEMMA PartitionCompleteStep ==
    ASSUME RLInv, NEW t \in Thread, RL!PartitionComplete(t)
    PROVE  RLInv'
<1>0. RLTyped /\ RLPlaces /\ RLCounts /\ RLPhase /\ RLArrays /\ RLFound
  BY DEF RLInv
<1>1. /\ completes[t] /\ completes' = [completes EXCEPT ![t] = FALSE]
      /\ signal' = signal \cup {key}
      /\ UNCHANGED <<groupCurrent, cIn, key, semOwner, ranges, crangeMax, at, group, page, range, enters>>
  BY DEF RL!PartitionComplete, RL!fmp
<1>2. PICK l \in Locker : at[l] \in Waits
  BY <1>0, <1>1 DEF RLPhase, Completing
<1>3. key = l /\ cIn[1 - groupCurrent] = 0 /\ signal = {} /\ Completing = {t}
  BY <1>0, <1>1, <1>2 DEF RLPhase, Completing
<1>4. RLTyped'
  BY <1>0, <1>1, <1>3 DEF RLTyped
<1>5. RLPlaces'
  BY <1>0, <1>1 DEF RLPlaces
<1>6. RLCounts'
  <2>1. \A u \in Thread : Inside(u)' <=> Inside(u)
    BY <1>1 DEF Inside
  <2> QED
    BY <1>0, <1>1, <2>1, CountsStay
<1>7. RLPhase'
  <2>1. Completing' = {}
    BY <1>0, <1>1, <1>3 DEF Completing, RLTyped
  <2>2. signal' = {l}
    BY <1>1, <1>3
  <2> QED
    BY <1>0, <1>1, <1>2, <1>3, <2>1, <2>2 DEF RLPhase
<1>8. RLArrays'
  BY <1>0, <1>1, ArraysStay
<1>9. RLFound'
  BY <1>0, <1>1, FoundStays
<1> QED
  BY <1>4, <1>5, <1>6, <1>7, <1>8, <1>9 DEF RLInv

\* A locker moves that is busy, does not enter or leave the section, and changes no
\* array: what is left to show.
LEMMA LockerMoves ==
    ASSUME RLInv, NEW l \in Locker, at[l] # "held", NEW x, x \in Busy \cup {"idle", "held"},
           at' = [at EXCEPT ![l] = x], RLTyped', RLPlaces', RLPhase', RLFound',
           x = "held" => ~enters[l],
           x \in ListedAt <=> at[l] \in ListedAt, x \notin {"swapIn", "swapOut"} \cup Waits,
           at[l] \in Busy,
           groupCurrent' = groupCurrent, cIn' = cIn, ranges' = ranges, crangeMax' = crangeMax,
           group' = group, \A k \in Locker \ {l} : range'[k] = range[k] /\ enters'[k] = enters[k],
           x # "idle" => range'[l] = range[l] /\ enters'[l] = enters[l]
    PROVE  RLInv'
<1>0. RLTyped /\ RLPlaces /\ RLCounts /\ RLPhase /\ RLArrays /\ RLFound /\ l \in Thread
  BY LocksAssumption DEF RLInv
<1>1. at'[l] = x /\ \A u \in Thread \ {l} : at'[u] = at[u]
  BY <1>0 DEF RLTyped
<1>2. \A k \in Locker \ {l} : at'[k] = at[k] /\ at[k] \notin Busy
  BY <1>0, <1>1, OneBusy, LocksAssumption
<1>3. RLCounts'
  <2>1. \A u \in Thread : Inside(u)' <=> Inside(u)
    BY <1>0, <1>1 DEF Inside, Sections, Busy
  <2> QED
    BY <1>0, <2>1, CountsStay
<1>4. RLArrays'
  <2>1. \A k \in Locker :
              /\ at'[k] \in ListedAt <=> at[k] \in ListedAt
              /\ at'[k] # "idle" /\ at'[k] # "add" => range'[k] = range[k]
              /\ \A y \in {"swapIn", "swapOut"} : at'[k] = y => at[k] = y
              /\ at'[k] \notin Waits
    BY <1>1, <1>2 DEF Busy, Waits
  <2> QED
    BY <1>0, <2>1, ArraysStay
<1> QED
  BY <1>3, <1>4 DEF RLInv

\* The new array cannot be allocated.
LEMMA OutOfMemoryStep ==
    ASSUME RLInv, NEW l \in Locker, RL!OutOfMemory(l)
    PROVE  RLInv'
<1>0. RLTyped /\ RLPlaces /\ RLCounts /\ RLPhase /\ RLArrays /\ RLFound /\ l \in Thread
  BY LocksAssumption DEF RLInv
<1>1. /\ at[l] = "add" /\ semOwner' = Nil /\ at' = [at EXCEPT ![l] = "idle"]
      /\ range' = [range EXCEPT ![l] = Nil] /\ enters' = [enters EXCEPT ![l] = FALSE]
      /\ UNCHANGED <<groupCurrent, cIn, key, signal, ranges, crangeMax, group, page, completes>>
  BY DEF RL!OutOfMemory, RL!In, RL!Go, RL!ms
<1>2. RLTyped'
  BY <1>0, <1>1 DEF RLTyped
<1>3. Only(l) /\ at'[l] = "idle" /\ ~enters'[l]
  BY <1>0, <1>1 DEF RLTyped, Only
<1>4. \A k \in Locker \ {l} : at'[k] = at[k] /\ at[k] \notin Busy /\ range'[k] = range[k] /\ enters'[k] = enters[k]
  BY <1>0, <1>1, <1>3, OneBusy, LocksAssumption DEF Only, Busy
<1>5. RLPlaces'
  BY <1>0, <1>1, <1>3, <1>4, LocksAssumption DEF RLPlaces, Only, Sections, Busy
<1>6. RLPhase'
  <2>1. \A k \in Locker : at'[k] \in Waits <=> at[k] \in Waits
    BY <1>1, <1>3, <1>4 DEF Waits
  <2> QED
    BY <1>0, <1>1, <2>1, PhaseStays
<1>7. RLFound'
  <2>1. \A w \in Thread \ Locker : at'[w] = at[w]
    BY <1>3, LocksAssumption DEF Only
  <2> QED
    BY <1>0, <1>1, <1>3, <1>4, <2>1, FoundStays
<1> QED
  BY <1>1, <1>2, <1>4, <1>5, <1>6, <1>7, LockerMoves DEF Busy, ListedAt, Waits

\* The range is out of the arrays that writers look at.
LEMMA UnlockedStep ==
    ASSUME RLInv, NEW l \in Locker, RL!Unlocked(l)
    PROVE  RLInv'
<1>0. RLTyped /\ RLPlaces /\ RLCounts /\ RLPhase /\ RLArrays /\ RLFound /\ l \in Thread
  BY LocksAssumption DEF RLInv
<1>1. /\ at[l] = "waitOut" /\ l \in signal /\ signal' = signal \ {l}
      /\ semOwner' = Nil /\ at' = [at EXCEPT ![l] = "idle"]
      /\ range' = [range EXCEPT ![l] = Nil] /\ enters' = [enters EXCEPT ![l] = FALSE]
      /\ UNCHANGED <<groupCurrent, cIn, key, ranges, crangeMax, group, page, completes>>
  BY DEF RL!Unlocked, RL!In, RL!Go
<1>2. RLTyped'
  BY <1>0, <1>1 DEF RLTyped
<1>3. Only(l) /\ at'[l] = "idle" /\ ~enters'[l]
  BY <1>0, <1>1 DEF RLTyped, Only
<1>4. \A k \in Locker \ {l} : at'[k] = at[k] /\ at[k] \notin Busy /\ range'[k] = range[k] /\ enters'[k] = enters[k]
  BY <1>0, <1>1, <1>3, OneBusy, LocksAssumption DEF Only, Busy
<1>5. RLPlaces'
  BY <1>0, <1>1, <1>3, <1>4, LocksAssumption DEF RLPlaces, Only, Sections, Busy
<1>6. RLPhase'
  <2>1. \A k \in Locker : at'[k] \notin Waits
    BY <1>3, <1>4 DEF Waits, Busy
  <2>2. cIn[1 - groupCurrent] = 0 /\ signal = {l} /\ Completing = {}
    BY <1>0, <1>1 DEF RLPhase, Waits
  <2>3. signal' = {} /\ Completing' = {}
    BY <1>1, <2>2 DEF Completing
  <2> QED
    BY <1>1, <2>1, <2>2, <2>3 DEF RLPhase
<1>7. RLFound'
  <2>1. \A w \in Thread \ Locker : at'[w] = at[w]
    BY <1>3, LocksAssumption DEF Only
  <2> QED
    BY <1>0, <1>1, <1>3, <1>4, <2>1, FoundStays
<1> QED
  BY <1>1, <1>2, <1>4, <1>5, <1>6, <1>7, LockerMoves DEF Busy, ListedAt, Waits

\* With too many threads in the section the range is to be taken out again.
LEMMA EnterFailsStep ==
    ASSUME RLInv, NEW l \in Locker, RL!EnterFails(l)
    PROVE  RLInv'
<1>0. RLTyped /\ RLPlaces /\ RLCounts /\ RLPhase /\ RLArrays /\ RLFound /\ l \in Thread
  BY LocksAssumption DEF RLInv
<1>1. /\ at[l] = "enter" /\ at' = [at EXCEPT ![l] = "remove"]
      /\ UNCHANGED <<groupCurrent, cIn, key, signal, semOwner, ranges, crangeMax, group, page, range,
                     enters, completes>>
  BY DEF RL!EnterFails, RL!In, RL!Go, RL!ms, RL!fmp, RL!local
<1>2. RLTyped'
  BY <1>0, <1>1 DEF RLTyped, Busy
<1>3. Only(l) /\ at'[l] = "remove"
  BY <1>0, <1>1 DEF RLTyped, Only
<1>4. \A k \in Locker \ {l} : at'[k] = at[k] /\ at[k] \notin Busy
  BY <1>0, <1>1, <1>3, OneBusy, LocksAssumption DEF Only, Busy
<1>5. RLPlaces'
  BY <1>0, <1>1, <1>3, <1>4, LocksAssumption DEF RLPlaces, Only, Sections, Busy
<1>6. RLPhase'
  <2>1. \A k \in Locker : at'[k] \in Waits <=> at[k] \in Waits
    BY <1>1, <1>3, <1>4 DEF Waits
  <2> QED
    BY <1>0, <1>1, <2>1, PhaseStays
<1>7. RLFound'
  <2>1. \A w \in Thread \ Locker : at'[w] = at[w]
    BY <1>3, LocksAssumption DEF Only
  <2> QED
    BY <1>0, <1>1, <1>3, <1>4, <2>1, FoundStays
<1> QED
  BY <1>1, <1>2, <1>4, <1>5, <1>6, <1>7, LockerMoves DEF Busy, ListedAt, Waits

\* The range is in the array that writers look at.
LEMMA LockedStep ==
    ASSUME RLInv, NEW l \in Locker, RL!Locked(l)
    PROVE  RLInv'
<1>0. RLTyped /\ RLPlaces /\ RLCounts /\ RLPhase /\ RLArrays /\ RLFound /\ l \in Thread
  BY LocksAssumption DEF RLInv
<1>1. PICK x \in {"enter", "held"} :
      /\ x = "enter" <=> enters[l]
      /\ at[l] = "waitIn" /\ l \in signal /\ signal' = signal \ {l}
      /\ semOwner' = (IF x = "enter" THEN l ELSE Nil) /\ at' = [at EXCEPT ![l] = x]
      /\ UNCHANGED <<groupCurrent, cIn, key, ranges, crangeMax, group, page, range, enters, completes>>
  BY DEF RL!Locked, RL!In, RL!Go, RL!local
<1>2. RLTyped'
  BY <1>0, <1>1 DEF RLTyped, Busy
<1>3. Only(l) /\ at'[l] = x
  BY <1>0, <1>1 DEF RLTyped, Only
<1>4. \A k \in Locker \ {l} : at'[k] = at[k] /\ at[k] \notin Busy
  BY <1>0, <1>1, <1>3, OneBusy, LocksAssumption DEF Only, Busy
<1>5. RLPlaces'
  BY <1>0, <1>1, <1>3, <1>4, LocksAssumption DEF RLPlaces, Only, Sections, Busy
<1>6. RLPhase'
  <2>1. \A k \in Locker : at'[k] \notin Waits
    BY <1>3, <1>4 DEF Waits, Busy
  <2>2. cIn[1 - groupCurrent] = 0 /\ signal = {l} /\ Completing = {}
    BY <1>0, <1>1 DEF RLPhase, Waits
  <2>3. signal' = {} /\ Completing' = {}
    BY <1>1, <2>2 DEF Completing
  <2> QED
    BY <1>1, <2>1, <2>2, <2>3 DEF RLPhase
<1>7. RLFound'
  <2>1. \A w \in Thread \ Locker : at'[w] = at[w]
    BY <1>3, LocksAssumption DEF Only
  <2> QED
    BY <1>0, <1>1, <1>3, <1>4, <2>1, FoundStays
<1> QED
  BY <1>1, <1>2, <1>4, <1>5, <1>6, <1>7, LockerMoves DEF Busy, ListedAt, Waits

\* ErrRangeLockAndEnter enters the current group.
LEMMA EnterLockedStep ==
    ASSUME RLInv, NEW l \in Locker, RL!EnterLocked(l)
    PROVE  RLInv'
<1>0. RLTyped /\ RLPlaces /\ RLCounts /\ RLPhase /\ RLArrays /\ RLFound /\ l \in Thread
  BY LocksAssumption DEF RLInv
<1>1. /\ at[l] = "enter" /\ at' = [at EXCEPT ![l] = "held"] /\ semOwner' = Nil
      /\ cIn' = [cIn EXCEPT ![groupCurrent] = @ + 1]
      /\ group' = [group EXCEPT ![l] = groupCurrent]
      /\ UNCHANGED <<groupCurrent, key, signal, ranges, crangeMax, page, range, enters, completes>>
  BY DEF RL!EnterLocked, RL!In, RL!Go, RL!GroupEnter
<1>2. RLTyped'
  BY <1>0, <1>1 DEF RLTyped, Busy
<1>3. Only(l) /\ at'[l] = "held" /\ group'[l] = groupCurrent
  BY <1>0, <1>1 DEF RLTyped, Only
<1>4. \A k \in Locker \ {l} : at'[k] = at[k] /\ at[k] \notin Busy /\ group'[k] = group[k]
  BY <1>0, <1>1, <1>3, OneBusy, LocksAssumption DEF Only, Busy
<1>5. RLPlaces'
  BY <1>0, <1>1, <1>3, <1>4, LocksAssumption DEF RLPlaces, Only, Sections, Busy
<1>6. RLCounts'
  <2>1. ~Inside(l) /\ Inside(l)' /\ groupCurrent \in {0, 1}
    BY <1>0, <1>1, <1>3 DEF Inside, Sections, RLTyped, RLPlaces
  <2>2. \A u \in Thread \ {l} : (Inside(u)' <=> Inside(u)) /\ group'[u] = group[u]
    BY <1>3 DEF Inside, Only
  <2> QED
    BY <1>0, <1>1, <1>3, <2>1, <2>2, CountsEnter
<1>7. \A k \in Locker : at'[k] \notin Waits /\ at[k] \notin Waits
  BY <1>1, <1>3, <1>4 DEF Waits, Busy
<1>8. RLPhase'
  <2>1. cIn'[1 - groupCurrent] = cIn[1 - groupCurrent]
    BY <1>0, <1>1 DEF RLTyped
  <2> QED
    BY <1>0, <1>1, <1>7, <2>1, PhaseStays
<1>9. RLArrays'
  <2>1. \A k \in Locker :
              /\ at'[k] \in ListedAt <=> at[k] \in ListedAt
              /\ \A y \in {"swapIn", "swapOut"} : at'[k] = y => at[k] = y
    BY <1>1, <1>3, <1>4 DEF ListedAt
  <2> QED
    BY <1>0, <1>1, <1>7, <2>1, ArraysStay
<1>10. RLFound'
  <2>1. \A w \in Thread \ Locker : at'[w] = at[w] /\ group'[w] = group[w]
    BY <1>3, LocksAssumption DEF Only
  <2>2. Alone(ranges[groupCurrent], range[l])
    BY <1>0, <1>1 DEF RLFound, RLPlaces
  <2> QED
    BY <1>0, <1>1, <1>3, <1>4, <2>1, <2>2 DEF RLFound, Outside, Alone
<1> QED
  BY <1>2, <1>5, <1>6, <1>8, <1>9, <1>10 DEF RLInv

\* RangeUnlockAndLeave leaves it.
LEMMA LeaveLockedStep ==
    ASSUME RLInv, NEW l \in Locker, RL!LeaveLocked(l)
    PROVE  RLInv'
<1>0. RLTyped /\ RLPlaces /\ RLCounts /\ RLPhase /\ RLArrays /\ RLFound /\ l \in Thread
  BY LocksAssumption DEF RLInv
<1>1. /\ at[l] = "held" /\ enters[l] /\ ~completes[l]
      /\ cIn' = [cIn EXCEPT ![group[l]] = @ - 1]
      /\ completes' = [completes EXCEPT ![l] = (group[l] # groupCurrent /\ cIn[group[l]] = 1)]
      /\ group' = [group EXCEPT ![l] = 0]
      /\ at' = [at EXCEPT ![l] = "unlock"]
      /\ UNCHANGED <<groupCurrent, key, signal, semOwner, ranges, crangeMax, page, range, enters>>
  BY DEF RL!LeaveLocked, RL!In, RL!Go, RL!MSLeave, RL!fmp
<1>2. Only(l) /\ at'[l] = "unlock"
  BY <1>0, <1>1 DEF RLTyped, Only
<1>3. RLCounts' /\ cIn[group[l]] > 0
  <2>1. Inside(l) /\ ~Inside(l)'
    BY <1>1, <1>2 DEF Inside, Sections
  <2>2. \A u \in Thread \ {l} : (Inside(u)' <=> Inside(u)) /\ group'[u] = group[u]
    BY <1>2 DEF Inside, Only
  <2> QED
    BY <1>0, <1>1, <2>1, <2>2, CountsLeave
<1>4. RLTyped'
  <2>1. cIn' \in [{0, 1} -> Nat]
    BY <1>0, <1>1, <1>3 DEF RLTyped
  <2>2. completes' \in [Thread -> BOOLEAN]
    BY <1>0, <1>1 DEF RLTyped
  <2> QED
    BY <1>0, <1>1, <2>1, <2>2 DEF RLTyped
<1>5. \A k \in Locker \ {l} : at'[k] = at[k] /\ group'[k] = group[k]
  BY <1>2, LocksAssumption DEF Only
<1>6. RLPlaces'
  BY <1>0, <1>1, <1>2, <1>5, LocksAssumption DEF RLPlaces, Only, Sections, Busy
<1>7. RLPhase'
  <2>1. \A k \in Locker : at'[k] \in Waits <=> at[k] \in Waits
    BY <1>1, <1>2, <1>5 DEF Waits
  <2> QED
    BY <1>0, <1>1, <1>3, <2>1, PhaseLeave
<1>8. RLArrays'
  <2>1. \A k \in Locker :
              /\ at'[k] \in ListedAt <=> at[k] \in ListedAt
              /\ \A y \in {"swapIn", "swapOut"} : at'[k] = y => at[k] = y
              /\ at'[k] \in Waits => at[k] \in Waits
              /\ at'[k] \in {"held", "unlock"} => at[k] \in {"held", "unlock"}
    BY <1>1, <1>2, <1>5 DEF ListedAt, Waits
  <2> QED
    BY <1>0, <1>1, <2>1, ArraysStay
<1>9. RLFound'
  <2>1. \A w \in Thread \ Locker : at'[w] = at[w] /\ group'[w] = group[w]
    BY <1>2, LocksAssumption DEF Only
  <2> QED
    BY <1>0, <1>1, <1>2, <1>5, <2>1, FoundStays
<1> QED
  BY <1>3, <1>4, <1>6, <1>7, <1>8, <1>9 DEF RLInv

\* A locker takes m_semRangeLock to unlock its range.
LEMMA RangeUnlockStep ==
    ASSUME RLInv, NEW l \in Locker, RL!RangeUnlock(l)
    PROVE  RLInv'
<1>0. RLTyped /\ RLPlaces /\ RLCounts /\ RLPhase /\ RLArrays /\ RLFound /\ l \in Thread
  BY LocksAssumption DEF RLInv
<1>1. /\ at[l] = (IF enters[l] THEN "unlock" ELSE "held") /\ semOwner = Nil /\ semOwner' = l
      /\ at' = [at EXCEPT ![l] = "remove"]
      /\ UNCHANGED <<groupCurrent, cIn, key, signal, ranges, crangeMax, group, page, range, enters, completes>>
  BY DEF RL!RangeUnlock, RL!In, RL!Go, RL!ms, RL!local
<1>2. RLTyped'
  BY <1>0, <1>1 DEF RLTyped, Busy
<1>3. Only(l) /\ at'[l] = "remove"
  BY <1>0, <1>1 DEF RLTyped, Only
<1>4. \A k \in Locker : at[k] \notin Busy
  BY <1>0, <1>1, LocksAssumption DEF RLPlaces
<1>5. \A k \in Locker \ {l} : at'[k] = at[k]
  BY <1>3, LocksAssumption DEF Only
<1>6. RLPlaces'
  BY <1>0, <1>1, <1>3, <1>4, <1>5, LocksAssumption DEF RLPlaces, Only, Sections, Busy
<1>7. RLCounts'
  <2>1. \A u \in Thread : Inside(u)' <=> Inside(u)
    BY <1>0, <1>1, <1>3 DEF Inside, Only, Sections
  <2> QED
    BY <1>0, <1>1, <2>1, CountsStay
<1>8. \A k \in Locker : at'[k] \notin Waits /\ at[k] \notin Waits
  BY <1>1, <1>3, <1>4, <1>5 DEF Waits, Busy
<1>9. RLPhase'
  BY <1>0, <1>1, <1>8, PhaseStays
<1>10. RLArrays'
  <2>1. \A k \in Locker :
              /\ at'[k] \in ListedAt <=> at[k] \in ListedAt
              /\ \A y \in {"swapIn", "swapOut"} : at'[k] = y => at[k] = y
    BY <1>1, <1>3, <1>5 DEF ListedAt
  <2> QED
    BY <1>0, <1>1, <1>8, <2>1, ArraysStay
<1>11. RLFound'
  <2>1. \A w \in Thread \ Locker : at'[w] = at[w]
    BY <1>3, LocksAssumption DEF Only
  <2> QED
    BY <1>0, <1>1, <1>3, <1>5, <2>1, FoundStays
<1> QED
  BY <1>2, <1>6, <1>7, <1>9, <1>10, <1>11 DEF RLInv

-----------------------------------------------------------------------------
(* The theorems *)

\* The invariant holds at first.
LEMMA RLInitInv ==
    ASSUME RL!Init
    PROVE  RLInv
<1>1. /\ groupCurrent = 0 /\ cIn = [g \in {0, 1} |-> 0] /\ key = Nil /\ signal = {} /\ semOwner = Nil
      /\ ranges = [g \in {0, 1} |-> <<>>] /\ crangeMax = [g \in {0, 1} |-> 1]
      /\ at = [t \in Thread |-> "idle"] /\ group = [t \in Thread |-> 0]
      /\ page = [t \in Thread \ Locker |-> Nil] /\ range = [t \in Locker |-> Nil]
      /\ enters = [t \in Locker |-> FALSE] /\ completes = [t \in Thread |-> FALSE]
  BY RLNames DEF RL!Init
<1>2. /\ \A g \in {0, 1} : ranges[g] = <<>> /\ Len(ranges[g]) = 0 /\ cIn[g] = 0 /\ crangeMax[g] = 1
      /\ \A t \in Thread : at[t] = "idle" /\ ~completes[t]
      /\ \A l \in Locker : at[l] = "idle" /\ ~enters[l]
  BY <1>1, LocksAssumption
<1>3. RLTyped
  <2>1. ranges \in [{0, 1} -> Seq(RL!PageRange)]
    BY <1>1
  <2> QED
    BY <1>1, <2>1 DEF RLTyped
<1>4. RLPlaces
  BY <1>1, <1>2, LocksAssumption DEF RLPlaces, Sections, Busy
<1>5. RLCounts
  <2>1. \A g \in {0, 1} : InGroup(g) = {}
    BY <1>2 DEF InGroup, Inside, Sections
  <2> QED
    BY <1>2, <2>1, FS_EmptySet DEF RLCounts
<1>6. RLPhase
  <2>1. Completing = {}
    BY <1>2 DEF Completing
  <2> QED
    BY <1>1, <1>2, <2>1 DEF RLPhase, Waits
<1>7. RLArrays
  <2>1. Listed = {}
    BY <1>2 DEF Listed, ListedAt
  <2>2. Len(ranges[groupCurrent]) = 0 /\ 1 .. 0 = {}
    BY <1>1, <1>2
  <2>3. ListedBy([i \in {} |-> i], ranges[groupCurrent], Listed, range)
    BY <2>1, <2>2 DEF ListedBy
  <2>4. /\ \A g \in {0, 1} : Len(ranges[g]) <= crangeMax[g]
        /\ Len(ranges[groupCurrent]) - 1 <= crangeMax[1 - groupCurrent]
    BY <1>1, <1>2
  <2> QED
    BY <1>2, <2>3, <2>4 DEF RLArrays, Waits
<1>8. RLFound
  BY <1>2 DEF RLFound
<1> QED
  BY <1>3, <1>4, <1>5, <1>6, <1>7, <1>8 DEF RLInv

\* Every step keeps it.
LEMMA RLNextInv ==
    ASSUME RLInv, RL!Next
    PROVE  RLInv'
<1>1. ASSUME NEW w \in Thread \ Locker, RL!Writes(w) PROVE RLInv'
  BY <1>1, ScanStep, LeaveRangeLockStep DEF RL!Writes
<1>2. ASSUME NEW w \in Thread \ Locker, NEW p \in Page, RL!FEnterRangeLock(w, p) PROVE RLInv'
  BY <1>2, FEnterRangeLockStep
<1>3. ASSUME NEW l \in Locker, RL!Locks(l) PROVE RLInv'
  BY <1>3, ErrIAddRangeLockStep, OutOfMemoryStep, LockedStep, EnterLockedStep, EnterFailsStep,
     LeaveLockedStep, IRemoveRangeLockStep, UnlockedStep, PartitionStep DEF RL!Locks
<1>4. ASSUME NEW l \in Locker, RL!RangeUnlock(l) PROVE RLInv'
  BY <1>4, RangeUnlockStep
<1>5. ASSUME NEW l \in Locker, NEW r \in RL!PageRange, RL!ErrRangeLock(l, r) \/ RL!ErrRangeLockAndEnter(l, r)
      PROVE  RLInv'
  BY <1>5, ErrRangeLockStep
<1>6. ASSUME NEW t \in Thread, RL!PartitionComplete(t) PROVE RLInv'
  BY <1>6, PartitionCompleteStep
<1> QED
  BY <1>1, <1>2, <1>3, <1>4, <1>5, <1>6, RLNames DEF RL!Next

\* The step of another primitive leaves the range locks alone.
LEMMA RLSteps ==
    ASSUME [LocksNext]_all
    PROVE  RL!Next \/ UNCHANGED rl
<1>1. CASE UNCHANGED all
  BY <1>1 DEF all
<1>2. CASE OnLatch(Next)
  BY <1>2 DEF OnLatch
<1>3. CASE OnRWLock(RW!Next)
  BY <1>3 DEF OnRWLock
<1>4. CASE OnBinaryLock(BL!Next)
  BY <1>4 DEF OnBinaryLock
<1>5. CASE OnRangeLock(RL!Next)
  BY <1>5 DEF OnRangeLock
<1>6. CASE OnSemaphores(SO!Next)
  BY <1>6 DEF OnSemaphores, OnSyncObjects
<1>7. CASE OnGates(SO!Next \/ (Asleep /\ UNCHANGED so))
  BY <1>7 DEF OnGates, OnSyncObjects
<1> QED
  BY <1>1, <1>2, <1>3, <1>4, <1>5, <1>6, <1>7 DEF LocksNext

\* What it leaves alone stays as it was.
LEMMA RLAlone ==
    ASSUME RLInv, UNCHANGED rl
    PROVE  RLInv'
<1>0. RLTyped /\ RLPlaces /\ RLCounts /\ RLPhase /\ RLArrays /\ RLFound
  BY DEF RLInv
<1>1. /\ \A u \in Thread : Inside(u)' <=> Inside(u)
      /\ UNCHANGED <<groupCurrent, cIn, key, signal, semOwner, ranges, crangeMax, at, group,
                     page, range, enters, completes>>
  BY DEF rl, Inside
<1>2. RLTyped' /\ RLPlaces'
  BY <1>0, <1>1 DEF RLTyped, RLPlaces
<1>3. RLCounts'
  BY <1>0, <1>1, CountsStay
<1>4. RLPhase'
  BY <1>0, <1>1, PhaseStays
<1>5. RLArrays'
  BY <1>0, <1>1, ArraysStay
<1>6. RLFound'
  BY <1>0, <1>1, FoundStays
<1> QED
  BY <1>2, <1>3, <1>4, <1>5, <1>6 DEF RLInv

\* The range of a locker that has it locked is in both arrays that writers look at.
LEMMA HeldIsListed ==
    ASSUME RLInv, NEW l \in Locker, at[l] = "held", NEW u \in Thread, Inside(u)
    PROVE  \E i \in 1 .. Len(ranges[group[u]]) : ranges[group[u]][i] = range[l]
<1>0. RLTyped /\ RLPlaces /\ RLCounts /\ RLPhase /\ RLArrays
  BY DEF RLInv
<1>1. CASE group[u] = groupCurrent
  <2>1. l \in Listed
    BY DEF Listed, ListedAt
  <2>2. PICK f : ListedBy(f, ranges[groupCurrent], Listed, range)
    BY <1>0 DEF RLArrays
  <2> QED
    BY <1>1, <2>1, <2>2 DEF ListedBy
<1>2. CASE group[u] # groupCurrent
  <2>1. group[u] = 1 - groupCurrent /\ group[u] \in {0, 1} /\ cIn[group[u]] \in Nat
    BY <1>0, <1>2 DEF RLTyped
  <2>2. PICK g \in {0, 1} : g = group[u]
    BY <2>1
  <2>3. u \in InGroup(g) /\ InGroup(g) \in SUBSET Thread
    BY <2>2 DEF InGroup
  <2>4. cIn[g] # 0
    BY <1>0, <2>3, CountOf DEF RLCounts
  <2>5. PICK k \in Locker : at[k] \in Waits
    BY <1>0, <2>1, <2>2, <2>4 DEF RLPhase
  <2> QED
    BY <1>0, <2>1, <2>5 DEF RLArrays
<1> QED
  BY <1>1, <1>2

\* No page of a locked range is being written.
LEMMA RLNoWrite ==
    ASSUME RLInv
    PROVE  RL!NoWriteInLockedRange
<1>1. ASSUME NEW w \in Thread \ Locker, NEW l \in Locker, at[w] = "write", at[l] = "held",
             RL!FContains(range[l], page[w])
      PROVE  FALSE
  <2>1. Inside(w)
    BY <1>1 DEF Inside, Sections
  <2>2. PICK i \in 1 .. Len(ranges[group[w]]) : ranges[group[w]][i] = range[l]
    BY <1>1, <2>1, HeldIsListed
  <2>3. Outside(ranges[group[w]], page[w])
    BY <1>1 DEF RLInv, RLFound
  <2> QED
    BY <1>1, <2>2, <2>3 DEF Outside
<1> QED
  BY <1>1 DEF RL!NoWriteInLockedRange

\* The arrays are as the code asserts.
LEMMA RLArraysSound ==
    ASSUME RLInv
    PROVE  RL!TypeOK /\ RL!ArrayIsStable /\ RL!NobodyInOldGroup /\ RL!RangesAgree
<1>0. RLTyped /\ RLPlaces /\ RLCounts /\ RLPhase /\ RLArrays /\ RLFound
  BY DEF RLInv
<1>1. RL!TypeOK
  <2>1. ASSUME NEW g \in {0, 1} PROVE cIn[g] \in 0 .. Cardinality(Thread)
    <3>1. InGroup(g) \in SUBSET Thread /\ Thread \in SUBSET Thread
      BY DEF InGroup
    <3>2. /\ Cardinality(InGroup(g)) \in Nat /\ Cardinality(InGroup(g)) <= Cardinality(Thread)
          /\ Cardinality(Thread) \in Nat
      BY <3>1, CountOf
    <3> QED
      BY <1>0, <3>2 DEF RLCounts
  <2>2. cIn \in [{0, 1} -> 0 .. RL!Cardinality(RL!Actor)]
    BY <1>0, <2>1, RLNames, RLCardinality DEF RLTyped
  <2> QED
    BY <1>0, <2>2, RLNames DEF RL!TypeOK, RLTyped
<1>2. \A g \in {0, 1} : DOMAIN ranges[g] = 1 .. Len(ranges[g]) /\ ranges[g] \in Seq(RL!PageRange)
  BY <1>0 DEF RLTyped
<1>3. RL!ArrayIsStable
  <2>1. ASSUME NEW w \in Thread \ Locker, at[w] = "write"
        PROVE  \A i \in DOMAIN ranges[group[w]] : ~RL!FContains(ranges[group[w]][i], page[w])
    <3>1. Outside(ranges[group[w]], page[w]) /\ group[w] \in {0, 1}
      BY <1>0, <2>1 DEF RLFound, RLTyped
    <3> QED
      BY <1>2, <3>1 DEF Outside
  <2>2. ASSUME NEW l \in Locker, at[l] = "held", enters[l]
        PROVE  \E i \in DOMAIN ranges[group[l]] :
                  /\ ranges[group[l]][i] = range[l]
                  /\ \A j \in DOMAIN ranges[group[l]] : j # i => ~RL!FOverlaps(ranges[group[l]][j], range[l])
    <3>1. Alone(ranges[group[l]], range[l]) /\ group[l] \in {0, 1}
      BY <1>0, <2>2, LocksAssumption DEF RLFound, RLTyped
    <3> QED
      BY <1>2, <3>1 DEF Alone
  <2> QED
    BY <2>1, <2>2 DEF RL!ArrayIsStable
<1>4. RL!NobodyInOldGroup
  <2>1. ASSUME NEW l \in Locker, at[l] \in {"add", "remove", "swapIn", "swapOut"}
        PROVE  cIn[1 - groupCurrent] = 0 /\ \A t \in Thread : ~completes[t]
    <3>1. at[l] \in Busy /\ at[l] \notin Waits
      BY <2>1 DEF Busy, Waits
    <3>2. cIn[1 - groupCurrent] = 0 /\ Completing = {}
      BY <1>0, <3>1, OneBusy
    <3> QED
      BY <3>2 DEF Completing
  <2> QED
    BY <2>1, RLNames DEF RL!NobodyInOldGroup
<1>5. RL!RangesAgree
  <2>1. PICK s \in Seq(RL!PageRange) : s = ranges[groupCurrent] /\ DOMAIN s = 1 .. Len(s)
    BY <1>0, <1>2 DEF RLTyped
  <2>2. PICK f : ListedBy(f, s, Listed, range)
    BY <1>0, <2>1 DEF RLArrays
  <2>3. ASSUME semOwner = Nil, NEW r \in RL!PageRange
        PROVE  RL!Cardinality({i \in DOMAIN s : s[i] = r})
             = RL!Cardinality({l \in Locker : range[l] = r /\ at[l] \in {"held", "unlock"}})
    <3>1. Listed \in SUBSET Thread
      BY LocksAssumption DEF Listed
    <3>2. Cardinality({i \in 1 .. Len(s) : s[i] = r}) = Cardinality({l \in Listed : range[l] = r})
      <4>1. CountedAlike(s, Listed, range, r)
        BY <2>1, <2>2, <3>1, ListsCount
      <4> QED
        BY <4>1 DEF CountedAlike
    <3>3. \A l \in Locker : at[l] \notin Busy
      BY <1>0, <2>3, LocksAssumption DEF RLPlaces
    <3>4. {l \in Listed : range[l] = r} = {l \in Locker : range[l] = r /\ at[l] \in {"held", "unlock"}}
      BY <3>3 DEF Listed, ListedAt, Busy
    <3> QED
      BY <2>1, <3>2, <3>4, RLCardinality
  <2>4. \A g \in {0, 1} : Len(ranges[g]) <= crangeMax[g]
    BY <1>0 DEF RLArrays
  <2>5. ASSUME NEW l \in Locker, at[l] = "remove"
        PROVE  range[l] \in RL!ToSet(s) /\ Len(s) - 1 <= crangeMax[1 - groupCurrent]
    <3>1. l \in Listed
      BY <2>5 DEF Listed, ListedAt
    <3>2. \E i \in DOMAIN s : s[i] = range[l]
      BY <2>1, <2>2, <3>1 DEF ListedBy
    <3> QED
      BY <1>0, <2>1, <3>2 DEF RLArrays, RL!ToSet
  <2> QED
    BY <2>1, <2>3, <2>4, <2>5, RLNames DEF RL!RangesAgree
<1> QED
  BY <1>1, <1>3, <1>4, <1>5

\* It is an inductive invariant.
LEMMA RLInductive ==
    /\ LocksInit => RLInv
    /\ RLInv /\ [LocksNext]_all => RLInv'
<1>1. LocksInit => RLInv
  BY RLInitInv DEF LocksInit
<1>2. RLInv /\ [LocksNext]_all => RLInv'
  BY RLSteps, RLNextInv, RLAlone
<1> QED
  BY <1>1, <1>2

\* While a range is locked the buffer manager writes none of its pages, whatever the
\* writers that were under way when it was locked, for any pages and threads.
THEOREM NoWriteInLockedRangeAlways == LocksSpec => []NoWriteInLockedRange
<1>1. RLInv => NoWriteInLockedRange
  BY RLNoWrite DEF NoWriteInLockedRange
<1> QED
  BY <1>1, RLInductive, PTL DEF LocksSpec

\* The array of a group does not change under a thread in the group, only the array
\* of an empty group is rewritten, between changes the current one holds exactly the
\* locked ranges, and there is always room for one range less.
THEOREM RangeArraysAlways == LocksSpec => []RangeArrays
<1>1. RLInv => RangeArrays
  BY RLArraysSound DEF RangeArrays
<1> QED
  BY <1>1, RLInductive, PTL DEF LocksSpec
=============================================================================
