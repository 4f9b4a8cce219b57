------------------------- MODULE BufferCache_proofs -------------------------
(***************************************************************************)
(* The buffer manager never loses an update and never gives out an old     *)
(* version of a page, for every number of pages, buffers, threads and      *)
(* updates.                                                                *)
(***************************************************************************)
EXTENDS BufferCache, TLAPS

-----------------------------------------------------------------------------
(* The inductive invariant: the cache *)

\* The hash table and the buffers agree on which buffer is current.
HashSound ==
    /\ \A p \in Page : hash[p] # Nil => bf[hash[p]].pgno = p
    /\ \A b \in Buffer :
         /\ bf[b].pgno = Nil => ~bf[b].cur /\ ~bf[b].dirty /\ bf[b].err = "ok" /\ io[b] = "none"
         /\ bf[b].pgno # Nil => /\ bf[b].cur <=> hash[bf[b].pgno] = b
                                /\ bf[b].old <=> ~bf[b].cur

\* The buffers on the chain of their page: the current one and those that hang
\* off it.
OnChain(b) == bf[b].cur \/ bf[b].prev # Nil

\* What the state of a buffer says about the I/O on it.
IOSound == \A b \in Buffer :
    /\ io[b] = "write" <=> bf[b].err = "pending" /\ bf[b].signal = "none"
    /\ bf[b].signal # "none" => bf[b].err = "pending"
    /\ bf[b].err = "pending" => OnChain(b) /\ bf[b].next = Nil
    /\ io[b] = "read" => bf[b].err = "fault"
    /\ bf[b].err \in {"fault", "unverified"} => bf[b].cur /\ ~bf[b].dirty /\ bf[b].next = Nil

\* The two ends of a link agree; the chain begins with the current buffer, and
\* there is an oldest one.
LinksSound == \A b \in Buffer :
    /\ bf[b].next # Nil => /\ OnChain(b) /\ OnChain(bf[b].next)
                           /\ bf[bf[b].next].pgno = bf[b].pgno
                           /\ bf[bf[b].next].prev = b
    /\ bf[b].prev # Nil => bf[bf[b].prev].next = b
    /\ OnChain(b) =>
         /\ bf[b].pgno # Nil
         /\ bf[b].prev = Nil <=> bf[b].cur
         /\ hash[bf[b].pgno] # Nil /\ OnChain(hash[bf[b].pgno])
         /\ \E c \in Buffer : OnChain(c) /\ bf[c].pgno = bf[b].pgno /\ bf[c].next = Nil

\* Dirty buffers are on the chain, below a dirty current one; an older version
\* that is clean ends the chain and was being written when it was copied.
DirtySound == \A b \in Buffer :
    /\ bf[b].dirty => OnChain(b) /\ bf[hash[bf[b].pgno]].dirty
    /\ ~bf[b].dirty /\ bf[b].prev # Nil => bf[b].next = Nil /\ bf[b].err \in {"pending", "ioerr"}

\* Two versions of one page.
Versions(b, c) == b # c /\ OnChain(b) /\ OnChain(c) /\ bf[b].pgno = bf[c].pgno

\* A rank of the buffers that puts the versions of every page in the order of
\* their chain: the age of a version does not tell copies of one age apart.
Ranked(rank) ==
    /\ \A b, c \in Buffer : Versions(b, c) =>
         /\ rank[b] # rank[c]
         /\ rank[b] < rank[c] => bf[b].pv <= bf[c].pv /\ bf[b].prev # Nil /\ bf[c].next # Nil
    /\ \A b, c \in Buffer : Versions(b, c) /\ bf[b].next # Nil =>
         /\ rank[bf[b].next] < rank[b]
         /\ rank[c] <= rank[bf[b].next] \/ rank[b] <= rank[c]

\* The chains are in order.
ChainsOrdered == \E rank \in [Buffer -> Nat] : Ranked(rank)

\* A buffer that was read into has a content.
Filled(b) == bf[b].dirty \/ bf[b].err \notin {"fault", "ioerr"}

\* What the content of a buffer is, where it has one ...
DataOf(b) ==
    /\ bf[b].pgno # Nil /\ Filled(b) => bf[b].pv # 0
    /\ bf[b].dirty => disk[bf[b].pgno] <= bf[b].pv
    /\ bf[b].dirty /\ bf[b].cur => bf[b].pv = latest[bf[b].pgno]
    /\ ~bf[b].dirty /\ bf[b].cur /\ bf[b].pv # 0 => bf[b].pv = disk[bf[b].pgno]
    /\ ~bf[b].dirty /\ bf[b].prev # Nil => bf[b].pv = disk[bf[b].pgno]
    /\ bf[b].signal = "ok" => bf[b].pv = disk[bf[b].pgno]

\* ... and that of the disk.
DataSound ==
    /\ \A b \in Buffer : DataOf(b)
    /\ \A p \in Page : disk[p] # 0
    /\ NoLostUpdate

CacheInv == HashSound /\ IOSound /\ LinksSound /\ DirtySound /\ ChainsOrdered /\ DataSound

-----------------------------------------------------------------------------
(* The inductive invariant: the threads *)

\* Where thread t is, and the latch it has there.
Place(t) ==
    /\ th[t].pc \in {"idle", "lookup", "miss"} <=> th[t].b = Nil
    /\ th[t].pc \in {"idle", "lookup", "miss", "wait"} <=> th[t].mode = "none"
    /\ th[t].pc \in {"upW", "rdwW", "readW", "flush"} => th[t].mode = "X"
    /\ th[t].pc = "read" => th[t].mode = "W"
    /\ th[t].pc \in {"copy", "mcopy"} => th[t].mode \in {"X", "W"}
    /\ th[t].pc \notin {"idle", "flush"} => th[t].pg # Nil /\ th[t].req # "none"
    /\ th[t].b # Nil => bf[th[t].b].pgno # Nil

\* The latch of a buffer excludes what Latch says it does; a read under way
\* owns it.
Compatible(m, n) == (m = "W" => n = "none") /\ (m = "X" => n \in {"none", "S"})

Excludes(t, u) == th[t].b = th[u].b => Compatible(th[t].mode, th[u].mode)

NoRead(t) == th[t].b # Nil /\ io[th[t].b] = "read" => th[t].mode = "none"

Has(t) == th[t].pc \in {"held", "rdwW", "readW", "mcopy"}

\* What a thread that owns a buffer may rely on.
Hold(t) ==
    /\ Has(t) \/ th[t].pc \in {"copy", "read"} => FBFICurrentPage(th[t].b, th[t].pg)
    /\ Has(t) => bf[th[t].b].err \notin {"fault", "unverified"} /\ bf[th[t].b].pv # 0
    /\ th[t].pc = "read" => bf[th[t].b].err = "fault"
    /\ th[t].pc = "copy" => bf[th[t].b].err = "pending"
    /\ th[t].pc = "mcopy" => bf[th[t].b].dirty \/ bf[th[t].b].err = "pending"
    /\ th[t].pc = "flush" => OnChain(th[t].b) /\ bf[th[t].b].err = "ok"
    /\ th[t].pc = "rdwW" \/ (th[t].pc = "held" /\ th[t].mode # "S") =>
         bf[th[t].b].err # "pending"

\* A buffer that is yet to be read into is somebody's to read.
FaultOwned(b) ==
    bf[b].err = "fault" =>
      io[b] = "read" \/ \E t \in Thread : th[t].b = b /\ th[t].pc = "read"

PlaceSound == \A t \in Thread : Place(t)

LatchSound ==
    /\ \A t, u \in Thread : t # u => Excludes(t, u)
    /\ \A t \in Thread : NoRead(t)

HoldSound == (\A t \in Thread : Hold(t)) /\ \A b \in Buffer : FaultOwned(b)

ThreadInv == PlaceSound /\ LatchSound /\ HoldSound

IInv == TypeOK /\ CacheInv /\ ThreadInv

-----------------------------------------------------------------------------
(* Buffers *)

\* The BF structure.
BFs == [pgno : Page \cup {Nil}, cur : BOOLEAN, old : BOOLEAN,
        err : Err, dirty : BOOLEAN, pv : Content,
        next : Buffer \cup {Nil}, prev : Buffer \cup {Nil},
        signal : {"none", "ok", "failed"}]

\* The types of the cache, and those of the threads.
CacheType ==
    /\ disk \in [Page -> Content] /\ latest \in [Page -> Content]
    /\ hash \in [Page -> Buffer \cup {Nil}]
    /\ bf \in [Buffer -> BFs]
    /\ io \in [Buffer -> {"none", "read", "write"}]

\* Nothing is both a buffer or a page and no buffer or page.
LEMMA NilApart == Nil \notin Page /\ Nil \notin Buffer
  BY BufferCacheAssumption

\* The fields of a buffer have their types.
LEMMA Fields ==
  ASSUME CacheType, NEW b \in Buffer
  PROVE  /\ bf[b].pgno \in Page \cup {Nil}
         /\ bf[b].cur \in BOOLEAN /\ bf[b].old \in BOOLEAN /\ bf[b].dirty \in BOOLEAN
         /\ bf[b].err \in Err
         /\ bf[b].pv \in Content /\ bf[b].pv \in Nat
         /\ bf[b].next \in Buffer \cup {Nil} /\ bf[b].prev \in Buffer \cup {Nil}
         /\ bf[b].signal \in {"none", "ok", "failed"}
         /\ io[b] \in {"none", "read", "write"}
<1>1. bf[b] \in BFs /\ io[b] \in {"none", "read", "write"}
  BY DEF CacheType
<1>2. QED
  BY <1>1, BufferCacheAssumption DEF BFs, Content

\* The tables of pages have their types.
LEMMA Tables ==
  ASSUME CacheType, NEW p \in Page
  PROVE  /\ hash[p] \in Buffer \cup {Nil}
         /\ disk[p] \in Nat /\ latest[p] \in Nat
  BY BufferCacheAssumption DEF CacheType, Content

\* Links that stay as they are stay sound.
LEMMA LinksKept ==
  ASSUME CacheType, LinksSound, hash' = hash,
         \A c \in Buffer : /\ bf'[c].pgno = bf[c].pgno /\ bf'[c].cur = bf[c].cur
                           /\ bf'[c].next = bf[c].next /\ bf'[c].prev = bf[c].prev
  PROVE  LinksSound'
<1>0. \A c \in Buffer : OnChain(c)' <=> OnChain(c)
  BY DEF OnChain
<1>1. ASSUME NEW c \in Buffer, bf'[c].next # Nil
      PROVE  /\ OnChain(c)' /\ OnChain(bf[c].next)'
             /\ bf'[bf'[c].next].pgno = bf'[c].pgno
             /\ bf'[bf'[c].next].prev = c
  BY <1>0, <1>1, Fields DEF LinksSound
<1>2. ASSUME NEW c \in Buffer, bf'[c].prev # Nil
      PROVE  bf'[bf'[c].prev].next = c
  BY <1>2, Fields DEF LinksSound
<1>3. ASSUME NEW c \in Buffer, OnChain(c)'
      PROVE  /\ bf'[c].pgno # Nil
             /\ bf'[c].prev = Nil <=> bf'[c].cur
             /\ hash'[bf'[c].pgno] # Nil /\ OnChain(hash[bf[c].pgno])'
             /\ \E d \in Buffer : OnChain(d)' /\ bf'[d].pgno = bf'[c].pgno /\ bf'[d].next = Nil
  <2>1. bf[c].pgno # Nil /\ bf[c].pgno \in Page /\ hash[bf[c].pgno] \in Buffer /\ OnChain(c)
    BY <1>0, <1>3, Fields, Tables DEF LinksSound
  <2>2. QED
    BY <1>0, <2>1 DEF LinksSound
<1>4. QED
  BY <1>1, <1>2, <1>3 DEF LinksSound, OnChain

\* What completing a flush does to the buffers: the buffer that was written
\* leaves its chain, one whose write failed only changes its state.
LEMMA CompleteFields ==
  ASSUME CacheType, NEW b \in Buffer, FlushEnded(b), bf' = BFIFlushComplete(bf, b), bf[b].prev # b
  PROVE  /\ bf' \in [Buffer -> BFs]
         /\ \A c \in Buffer : /\ bf'[c].pgno = bf[c].pgno /\ bf'[c].pv = bf[c].pv
                              /\ bf'[c].cur = bf[c].cur /\ bf'[c].old = bf[c].old
         /\ \A c \in Buffer \ {b} :
              /\ bf'[c].err = bf[c].err /\ bf'[c].dirty = bf[c].dirty
              /\ bf'[c].signal = bf[c].signal /\ bf'[c].prev = bf[c].prev
              /\ bf'[c].next = IF bf[b].signal = "ok" /\ bf[b].prev = c THEN Nil ELSE bf[c].next
         /\ bf'[b].signal = "none" /\ bf'[b].next = bf[b].next
         /\ bf[b].signal = "ok" => bf'[b].err = "ok" /\ bf'[b].dirty = FALSE /\ bf'[b].prev = Nil
         /\ bf[b].signal # "ok" => /\ bf'[b].err = "ioerr" /\ bf'[b].dirty = bf[b].dirty
                                   /\ bf'[b].prev = bf[b].prev
<1>1. bf \in [Buffer -> BFs] /\ bf[b] \in BFs
  BY DEF CacheType
<1>2. CASE bf[b].signal = "ok"
  <2>1. bf' = [Unlinked(bf, b) EXCEPT
                 ![b] = [@ EXCEPT !.signal = "none", !.err = "ok", !.dirty = FALSE]]
    BY <1>2 DEF BFIFlushComplete
  <2>2. /\ Unlinked(bf, b)[b] = [bf[b] EXCEPT !.prev = Nil]
        /\ \A c \in Buffer \ {b} : Unlinked(bf, b)[c] =
              IF bf[b].prev = c THEN [bf[c] EXCEPT !.next = Nil] ELSE bf[c]
        /\ Unlinked(bf, b) = [c \in Buffer |-> Unlinked(bf, b)[c]]
    BY DEF Unlinked
  <2>3. /\ bf' = [c \in Buffer |-> bf'[c]]
        /\ bf'[b] = [[bf[b] EXCEPT !.prev = Nil] EXCEPT !.signal = "none", !.err = "ok", !.dirty = FALSE]
        /\ \A c \in Buffer \ {b} : bf'[c] =
              IF bf[b].prev = c THEN [bf[c] EXCEPT !.next = Nil] ELSE bf[c]
    BY <2>1, <2>2
  <2>4. /\ bf'[b] \in BFs
        /\ bf'[b].pgno = bf[b].pgno /\ bf'[b].pv = bf[b].pv /\ bf'[b].cur = bf[b].cur
        /\ bf'[b].old = bf[b].old /\ bf'[b].next = bf[b].next
        /\ bf'[b].signal = "none" /\ bf'[b].err = "ok" /\ bf'[b].dirty = FALSE /\ bf'[b].prev = Nil
    BY <1>1, <2>3 DEF BFs, Err
  <2>5. ASSUME NEW c \in Buffer \ {b}
        PROVE  /\ bf'[c] \in BFs
               /\ bf'[c].pgno = bf[c].pgno /\ bf'[c].pv = bf[c].pv
               /\ bf'[c].cur = bf[c].cur /\ bf'[c].old = bf[c].old
               /\ bf'[c].err = bf[c].err /\ bf'[c].dirty = bf[c].dirty
               /\ bf'[c].signal = bf[c].signal /\ bf'[c].prev = bf[c].prev
               /\ bf'[c].next = IF bf[b].prev = c THEN Nil ELSE bf[c].next
    <3>1. bf[c] \in BFs
      BY <1>1
    <3>2. QED
      BY <2>3, <3>1 DEF BFs
  <2>6. QED
    BY <1>2, <2>3, <2>4, <2>5
<1>3. CASE bf[b].signal # "ok"
  <2>1. bf' = [bf EXCEPT ![b] = [@ EXCEPT !.signal = "none", !.err = "ioerr"]]
    BY <1>3 DEF BFIFlushComplete
  <2>2. bf'[b] = [bf[b] EXCEPT !.signal = "none", !.err = "ioerr"]
        /\ \A c \in Buffer \ {b} : bf'[c] = bf[c]
    BY <1>1, <2>1
  <2>3. /\ bf'[b] \in BFs
        /\ bf'[b].pgno = bf[b].pgno /\ bf'[b].pv = bf[b].pv /\ bf'[b].cur = bf[b].cur
        /\ bf'[b].old = bf[b].old /\ bf'[b].next = bf[b].next /\ bf'[b].prev = bf[b].prev
        /\ bf'[b].signal = "none" /\ bf'[b].err = "ioerr" /\ bf'[b].dirty = bf[b].dirty
    BY <1>1, <2>2 DEF BFs, Err
  <2>4. bf' \in [Buffer -> BFs]
    BY <1>1, <2>1, <2>2, <2>3
  <2>5. QED
    BY <1>3, <2>2, <2>3, <2>4
<1>4. QED
  BY <1>2, <1>3

\* The end of a chain is the oldest version of its page: the others are no
\* older, and it is the only end of the chain.
LEMMA OldestVersion ==
  ASSUME ChainsOrdered, NEW b \in Buffer, OnChain(b), bf[b].next = Nil
  PROVE  \A c \in Buffer : Versions(b, c) =>
            bf[b].pv <= bf[c].pv /\ bf[c].next # Nil /\ bf[b].prev # Nil
<1>1. PICK rank \in [Buffer -> Nat] : Ranked(rank)
  BY DEF ChainsOrdered
<1>2. SUFFICES ASSUME NEW c \in Buffer, Versions(b, c)
               PROVE  bf[b].pv <= bf[c].pv /\ bf[c].next # Nil /\ bf[b].prev # Nil
  OBVIOUS
<1>3. Versions(c, b)
  BY <1>2 DEF Versions
<1>4. ~ (rank[c] < rank[b])
  BY <1>1, <1>2, <1>3 DEF Ranked
<1>5. rank[b] < rank[c]
  BY <1>1, <1>2, <1>4 DEF Ranked
<1>6. QED
  BY <1>1, <1>2, <1>5 DEF Ranked

\* The chains stay in order when no version changes.
LEMMA OrderKept ==
  ASSUME CacheType, ChainsOrdered,
         \A c \in Buffer : /\ bf'[c].pgno = bf[c].pgno /\ bf'[c].cur = bf[c].cur
                           /\ bf'[c].next = bf[c].next /\ bf'[c].prev = bf[c].prev,
         \A c \in Buffer, d \in Buffer : Versions(c, d) => bf'[c].pv = bf[c].pv
  PROVE  ChainsOrdered'
<1>1. PICK rank \in [Buffer -> Nat] : Ranked(rank)
  BY DEF ChainsOrdered
<1>2. \A c, d \in Buffer : Versions(c, d)' => Versions(c, d) /\ Versions(d, c)
  BY DEF Versions, OnChain
<1>3. ASSUME NEW c \in Buffer, NEW d \in Buffer, Versions(c, d)'
      PROVE  /\ rank[c] # rank[d]
             /\ rank[c] < rank[d] => bf'[c].pv <= bf'[d].pv /\ bf'[c].prev # Nil /\ bf'[d].next # Nil
  <2>1. Versions(c, d) /\ bf'[c].pv = bf[c].pv /\ bf'[d].pv = bf[d].pv
    BY <1>2, <1>3
  <2>2. QED
    BY <1>1, <2>1 DEF Ranked
<1>4. ASSUME NEW c \in Buffer, NEW d \in Buffer, Versions(c, d)', bf'[c].next # Nil
      PROVE  /\ rank[bf'[c].next] < rank[c]
             /\ rank[d] <= rank[bf'[c].next] \/ rank[c] <= rank[d]
  BY <1>1, <1>2, <1>4 DEF Ranked
<1>5. QED
  BY <1>3, <1>4 DEF Ranked, ChainsOrdered

\* An older version at the end of its chain, or a buffer on no chain, leaves:
\* the other versions stay in order, and the one it hung off is the oldest.
LEMMA LeaveChain ==
  ASSUME CacheType, HashSound, LinksSound, ChainsOrdered, hash' = hash,
         NEW b \in Buffer, ~bf[b].cur, bf[b].next = Nil,
         ~bf'[b].cur, bf'[b].next = Nil, bf'[b].prev = Nil,
         \A c \in Buffer \ {b} :
           /\ bf'[c].pgno = bf[c].pgno /\ bf'[c].cur = bf[c].cur
           /\ bf'[c].pv = bf[c].pv /\ bf'[c].prev = bf[c].prev
           /\ bf'[c].next = IF bf[b].prev = c THEN Nil ELSE bf[c].next
  PROVE  LinksSound' /\ ChainsOrdered'
<1>0. \A c \in Buffer : OnChain(c)' <=> OnChain(c) /\ c # b
  BY DEF OnChain
<1>1. bf[b].prev # b
  BY BufferCacheAssumption DEF LinksSound
<1>2. ASSUME NEW c \in Buffer, bf'[c].next # Nil
      PROVE  /\ OnChain(c)' /\ OnChain(bf[c].next)' /\ bf'[c].next = bf[c].next
             /\ bf'[bf'[c].next].pgno = bf'[c].pgno
             /\ bf'[bf'[c].next].prev = c
  <2>1. c # b /\ bf'[c].next = bf[c].next /\ bf[c].next \in Buffer /\ bf[b].prev # c
    BY <1>2, Fields
  <2>2. bf[c].next # b
    BY <1>2, <2>1, NilApart DEF LinksSound
  <2>3. QED
    BY <1>0, <2>1, <2>2, NilApart DEF LinksSound
<1>3. ASSUME NEW c \in Buffer, bf'[c].prev # Nil
      PROVE  bf'[bf'[c].prev].next = c
  <2>1. c # b /\ bf'[c].prev = bf[c].prev /\ bf[c].prev \in Buffer
    BY <1>3, Fields
  <2>2. bf[bf[c].prev].next = c
    BY <2>1, NilApart DEF LinksSound
  <2>3. bf[c].prev # b
    BY <2>1, <2>2, NilApart
  <2>4. bf[b].prev # bf[c].prev
    BY <2>1, <2>2, NilApart DEF LinksSound
  <2>5. QED
    BY <2>1, <2>2, <2>3, <2>4
<1>4. ASSUME NEW c \in Buffer, OnChain(c)'
      PROVE  /\ bf'[c].pgno # Nil
             /\ bf'[c].prev = Nil <=> bf'[c].cur
             /\ hash'[bf'[c].pgno] # Nil /\ OnChain(hash[bf[c].pgno])' /\ bf'[c].pgno = bf[c].pgno
             /\ \E d \in Buffer : OnChain(d)' /\ bf'[d].pgno = bf'[c].pgno /\ bf'[d].next = Nil
  <2>1. c # b /\ OnChain(c) /\ bf'[c].pgno = bf[c].pgno
    BY <1>0, <1>4
  <2>2. bf'[c].pgno # Nil /\ (bf'[c].prev = Nil <=> bf'[c].cur)
    BY <2>1 DEF LinksSound
  <2>3. bf[c].pgno \in Page /\ hash[bf[c].pgno] \in Buffer /\ OnChain(hash[bf[c].pgno])
    BY <2>1, Fields, Tables DEF LinksSound
  <2>4. hash[bf[c].pgno] # b
    BY <2>3, NilApart DEF HashSound
  <2>5. PICK d \in Buffer : OnChain(d) /\ bf[d].pgno = bf[c].pgno /\ bf[d].next = Nil
    BY <2>1 DEF LinksSound
  <2>6. \E e \in Buffer : OnChain(e)' /\ bf'[e].pgno = bf'[c].pgno /\ bf'[e].next = Nil
    <3>1. CASE d # b
      BY <1>0, <2>1, <2>5, <3>1
    <3>2. CASE d = b
      <4>1. Versions(b, c)
        BY <2>1, <2>5, <3>2 DEF Versions
      <4>2. bf[b].prev \in Buffer
        BY <2>5, <3>2, <4>1, OldestVersion, Fields
      <4>3. PICK e \in Buffer : e = bf[b].prev
        BY <4>2
      <4>4. e # b /\ bf[e].next = b
        BY <1>1, <4>3, NilApart DEF LinksSound
      <4>5. OnChain(e) /\ bf[e].pgno = bf[b].pgno
        BY <4>4, NilApart DEF LinksSound
      <4>6. QED
        BY <1>0, <2>1, <2>5, <3>2, <4>3, <4>4, <4>5
    <3>3. QED
      BY <3>1, <3>2
  <2>7. QED
    BY <1>0, <2>1, <2>2, <2>3, <2>4, <2>6, NilApart
<1>5. LinksSound'
  BY <1>2, <1>3, <1>4 DEF LinksSound, OnChain
<1>6. PICK rank \in [Buffer -> Nat] : Ranked(rank)
  BY DEF ChainsOrdered
<1>7. \A c, d \in Buffer : Versions(c, d)' => Versions(c, d) /\ c # b /\ d # b
  BY <1>0 DEF Versions
<1>8. ASSUME NEW c \in Buffer, NEW d \in Buffer, Versions(c, d)'
      PROVE  /\ rank[c] # rank[d]
             /\ rank[c] < rank[d] => bf'[c].pv <= bf'[d].pv /\ bf'[c].prev # Nil /\ bf'[d].next # Nil
  <2>1. Versions(c, d) /\ Versions(d, c) /\ rank[c] # rank[d] /\ c # b /\ d # b
    BY <1>6, <1>7, <1>8 DEF Ranked, Versions
  <2>2. SUFFICES ASSUME rank[c] < rank[d]
                 PROVE  bf'[c].pv <= bf'[d].pv /\ bf'[c].prev # Nil /\ bf'[d].next # Nil
    BY <2>1
  <2>3. bf[c].pv <= bf[d].pv /\ bf[c].prev # Nil /\ bf[d].next # Nil
    BY <1>6, <2>1, <2>2 DEF Ranked
  <2>4. bf[b].prev # d
    <3>1. SUFFICES ASSUME bf[b].prev = d PROVE FALSE
      OBVIOUS
    <3>2. bf[d].next = b /\ OnChain(b) /\ bf[b].pgno = bf[d].pgno
      BY <3>1, NilApart DEF LinksSound
    <3>3. rank[c] <= rank[b]
      BY <1>6, <2>1, <2>2, <3>2, NilApart DEF Ranked
    <3>4. Versions(c, b) /\ Versions(b, c)
      BY <2>1, <3>2 DEF Versions
    <3>5. rank[c] # rank[b] /\ ~ (rank[c] < rank[b])
      BY <1>6, <3>4 DEF Ranked
    <3>6. QED
      BY <1>6, <3>3, <3>5
  <2>5. QED
    BY <2>1, <2>3, <2>4
<1>9. ASSUME NEW c \in Buffer, NEW d \in Buffer, Versions(c, d)', bf'[c].next # Nil
      PROVE  /\ rank[bf'[c].next] < rank[c]
             /\ rank[d] <= rank[bf'[c].next] \/ rank[c] <= rank[d]
  <2>1. Versions(c, d) /\ bf'[c].next = bf[c].next
    BY <1>2, <1>7, <1>9
  <2>2. QED
    BY <1>6, <1>9, <2>1 DEF Ranked
<1>10. Ranked(rank)'
  BY <1>8, <1>9 DEF Ranked
<1>11. QED
  BY <1>5, <1>10 DEF ChainsOrdered

\* A page leaves the cache: all of its chain is gone, and that of no other.
LEMMA PageGone ==
  ASSUME CacheType, HashSound, LinksSound, ChainsOrdered, NEW p \in Page,
         hash' = [hash EXCEPT ![p] = Nil],
         \A c \in Buffer : OnChain(c) /\ bf[c].pgno = p =>
           ~bf'[c].cur /\ bf'[c].next = Nil /\ bf'[c].prev = Nil,
         \A c \in Buffer : ~(OnChain(c) /\ bf[c].pgno = p) =>
           /\ OnChain(c) => bf'[c].pgno = bf[c].pgno
           /\ bf'[c].cur = bf[c].cur /\ bf'[c].pv = bf[c].pv
           /\ bf'[c].prev = bf[c].prev /\ bf'[c].next = bf[c].next
  PROVE  LinksSound' /\ ChainsOrdered'
<1>0. \A c \in Buffer : OnChain(c)' <=> OnChain(c) /\ bf[c].pgno # p
  BY DEF OnChain
<1>1. \A q \in Page : hash'[q] = IF q = p THEN Nil ELSE hash[q]
  BY DEF CacheType
<1>2. ASSUME NEW c \in Buffer, bf'[c].next # Nil
      PROVE  /\ OnChain(c)' /\ OnChain(bf[c].next)' /\ bf'[c].next = bf[c].next
             /\ bf'[bf'[c].next].pgno = bf'[c].pgno
             /\ bf'[bf'[c].next].prev = c
  <2>1. ~(OnChain(c) /\ bf[c].pgno = p) /\ bf'[c].next = bf[c].next /\ bf[c].next \in Buffer
    BY <1>2, Fields
  <2>2. OnChain(c) /\ OnChain(bf[c].next) /\ bf[bf[c].next].pgno = bf[c].pgno /\ bf[bf[c].next].prev = c
    BY <2>1, NilApart DEF LinksSound
  <2>3. QED
    BY <1>0, <2>1, <2>2
<1>3. ASSUME NEW c \in Buffer, bf'[c].prev # Nil
      PROVE  bf'[bf'[c].prev].next = c
  <2>1. ~(OnChain(c) /\ bf[c].pgno = p) /\ bf'[c].prev = bf[c].prev /\ bf[c].prev \in Buffer
    BY <1>3, Fields
  <2>2. OnChain(c) /\ bf[bf[c].prev].next = c
    BY <2>1, NilApart DEF LinksSound, OnChain
  <2>3. bf[bf[c].prev].pgno = bf[c].pgno
    BY <2>1, <2>2, NilApart DEF LinksSound
  <2>4. QED
    BY <2>1, <2>2, <2>3
<1>4. ASSUME NEW c \in Buffer, OnChain(c)'
      PROVE  /\ bf'[c].pgno # Nil
             /\ bf'[c].prev = Nil <=> bf'[c].cur
             /\ hash'[bf'[c].pgno] # Nil /\ OnChain(hash[bf[c].pgno])' /\ bf'[c].pgno = bf[c].pgno
             /\ hash'[bf'[c].pgno] = hash[bf[c].pgno]
             /\ \E d \in Buffer : OnChain(d)' /\ bf'[d].pgno = bf'[c].pgno /\ bf'[d].next = Nil
  <2>1. OnChain(c) /\ bf[c].pgno # p /\ bf'[c].pgno = bf[c].pgno
    BY <1>0, <1>4
  <2>2. bf'[c].pgno # Nil /\ (bf'[c].prev = Nil <=> bf'[c].cur)
    BY <2>1 DEF LinksSound
  <2>3. bf[c].pgno \in Page /\ hash[bf[c].pgno] \in Buffer /\ OnChain(hash[bf[c].pgno])
    BY <2>1, Fields, Tables DEF LinksSound
  <2>4. bf[hash[bf[c].pgno]].pgno = bf[c].pgno
    BY <2>3, NilApart DEF HashSound
  <2>5. PICK d \in Buffer : OnChain(d) /\ bf[d].pgno = bf[c].pgno /\ bf[d].next = Nil
    BY <2>1 DEF LinksSound
  <2>6. QED
    BY <1>0, <1>1, <2>1, <2>2, <2>3, <2>4, <2>5, NilApart
<1>5. LinksSound'
  BY <1>2, <1>3, <1>4 DEF LinksSound, OnChain
<1>6. PICK rank \in [Buffer -> Nat] : Ranked(rank)
  BY DEF ChainsOrdered
<1>7. \A c, d \in Buffer : Versions(c, d)' =>
        /\ Versions(c, d)
        /\ bf'[c].pv = bf[c].pv /\ bf'[c].prev = bf[c].prev /\ bf'[c].next = bf[c].next
        /\ bf'[d].pv = bf[d].pv /\ bf'[d].prev = bf[d].prev /\ bf'[d].next = bf[d].next
  BY <1>0 DEF Versions
<1>8. Ranked(rank)'
  BY <1>6, <1>7 DEF Ranked
<1>9. QED
  BY <1>5, <1>8 DEF ChainsOrdered

-----------------------------------------------------------------------------
(* What the operations do to the cache *)

\* Completing a flush.
LEMMA CompleteCache ==
  ASSUME CacheType, CacheInv, NEW b \in Buffer, FlushEnded(b), bf' = BFIFlushComplete(bf, b),
         UNCHANGED <<disk, hash, io, latest>>
  PROVE  CacheType' /\ CacheInv'
<1>0. HashSound /\ IOSound /\ LinksSound /\ DirtySound /\ ChainsOrdered /\ DataSound /\ NoLostUpdate
  BY DEF CacheInv, DataSound
<1>1. bf[b].prev # b /\ bf[b].next = Nil /\ OnChain(b) /\ bf[b].err = "pending" /\ bf[b].pgno \in Page
  BY <1>0, BufferCacheAssumption, Fields DEF LinksSound, IOSound, FlushEnded
<1>2. /\ bf' \in [Buffer -> BFs]
      /\ \A c \in Buffer : /\ bf'[c].pgno = bf[c].pgno /\ bf'[c].pv = bf[c].pv
                           /\ bf'[c].cur = bf[c].cur /\ bf'[c].old = bf[c].old
      /\ \A c \in Buffer \ {b} :
           /\ bf'[c].err = bf[c].err /\ bf'[c].dirty = bf[c].dirty
           /\ bf'[c].signal = bf[c].signal /\ bf'[c].prev = bf[c].prev
           /\ bf'[c].next = IF bf[b].signal = "ok" /\ bf[b].prev = c THEN Nil ELSE bf[c].next
      /\ bf'[b].signal = "none" /\ bf'[b].next = bf[b].next
      /\ bf[b].signal = "ok" => bf'[b].err = "ok" /\ bf'[b].dirty = FALSE /\ bf'[b].prev = Nil
      /\ bf[b].signal # "ok" => /\ bf'[b].err = "ioerr" /\ bf'[b].dirty = bf[b].dirty
                                /\ bf'[b].prev = bf[b].prev
  BY <1>1, CompleteFields
<1>3. CacheType'
  BY <1>2 DEF CacheType
<1>4. hash' = hash /\ io' = io /\ disk' = disk /\ latest' = latest
  OBVIOUS
<1>5. HashSound'
  BY <1>0, <1>1, <1>2, <1>4, Tables, Fields, NilApart DEF HashSound
<1>6. \A c \in Buffer \ {b} : OnChain(c)' <=> OnChain(c)
  BY <1>2 DEF OnChain
<1>7. IOSound'
  BY <1>0, <1>2, <1>4, <1>6, Fields DEF IOSound, FlushEnded
<1>8. LinksSound' /\ ChainsOrdered'
  <2>1. CASE bf[b].signal # "ok" \/ bf[b].prev = Nil
    <3>1. \A c \in Buffer : /\ bf'[c].pgno = bf[c].pgno /\ bf'[c].cur = bf[c].cur
                            /\ bf'[c].next = bf[c].next /\ bf'[c].prev = bf[c].prev
      BY <1>1, <1>2, <2>1, NilApart
    <3>2. QED
      BY <1>0, <1>2, <1>4, <3>1, LinksKept, OrderKept
  <2>2. CASE bf[b].signal = "ok" /\ bf[b].prev # Nil
    <3>1. ~bf[b].cur
      BY <1>0, <1>1, <2>2 DEF LinksSound
    <3>2. /\ ~bf'[b].cur /\ bf'[b].next = Nil /\ bf'[b].prev = Nil
          /\ \A c \in Buffer \ {b} : bf'[c].next = IF bf[b].prev = c THEN Nil ELSE bf[c].next
      BY <1>1, <1>2, <2>2, <3>1
    <3>3. QED
      BY <1>0, <1>1, <1>2, <1>4, <3>1, <3>2, LeaveChain
  <2>3. QED
    BY <2>1, <2>2
<1>9. DirtySound'
  <2>1. ASSUME NEW c \in Buffer \ {b}
        PROVE  /\ bf'[c].dirty => OnChain(c)' /\ bf'[hash[bf[c].pgno]].dirty
               /\ ~bf'[c].dirty /\ bf'[c].prev # Nil => bf'[c].next = Nil /\ bf'[c].err \in {"pending", "ioerr"}
    <3>1. bf[c].dirty => OnChain(c) /\ bf[c].pgno \in Page /\ hash[bf[c].pgno] \in Buffer
                         /\ bf[hash[bf[c].pgno]].dirty
      BY <1>0, Fields, Tables DEF DirtySound, LinksSound
    <3>2. bf[c].dirty => hash[bf[c].pgno] # b \/ bf[b].signal # "ok"
      <4>1. SUFFICES ASSUME bf[c].dirty, hash[bf[c].pgno] = b PROVE FALSE
        OBVIOUS
      <4>2. bf[b].pgno = bf[c].pgno /\ bf[b].cur
        BY <1>0, <3>1, <4>1, NilApart DEF HashSound
      <4>3. Versions(b, c)
        BY <1>1, <3>1, <4>1, <4>2 DEF Versions
      <4>4. QED
        BY <1>0, <1>1, <4>2, <4>3, OldestVersion DEF LinksSound
    <3>3. QED
      BY <1>0, <1>2, <1>6, <3>1, <3>2 DEF DirtySound
  <2>2. /\ bf'[b].dirty => OnChain(b)' /\ bf'[hash[bf[b].pgno]].dirty
        /\ ~bf'[b].dirty /\ bf'[b].prev # Nil => bf'[b].next = Nil /\ bf'[b].err \in {"pending", "ioerr"}
    <3>1. CASE bf[b].signal = "ok"
      BY <1>2, <3>1
    <3>2. CASE bf[b].signal # "ok"
      <4>1. \A c \in Buffer : bf'[c].dirty = bf[c].dirty
        BY <1>2, <3>2
      <4>2. hash[bf[b].pgno] \in Buffer
        BY <1>0, <1>1, Tables DEF LinksSound
      <4>3. OnChain(b)'
        BY <1>1, <1>2, <3>2 DEF OnChain
      <4>4. QED
        BY <1>0, <1>1, <1>2, <3>2, <4>1, <4>2, <4>3 DEF DirtySound
    <3>3. QED
      BY <3>1, <3>2
  <2>3. QED
    BY <1>2, <1>4, <2>1, <2>2 DEF DirtySound, OnChain
<1>10. DataSound'
  <2>1. ASSUME NEW c \in Buffer PROVE DataOf(c)'
    <3>1. CASE c # b
      BY <1>0, <1>2, <1>4, <3>1 DEF DataSound, DataOf, Filled
    <3>2. CASE c = b
      BY <1>0, <1>1, <1>2, <1>4, <3>2 DEF DataSound, DataOf, Filled
    <3>3. QED
      BY <3>1, <3>2
  <2>2. ASSUME NEW p \in Page
        PROVE  IF hash[p] # Nil /\ bf'[hash[p]].dirty
               THEN bf'[hash[p]].pv = latest[p]
               ELSE disk[p] = latest[p]
    <3>1. CASE hash[p] = b /\ bf[b].signal = "ok" /\ bf[b].dirty
      <4>1. bf[b].pgno = p /\ bf[b].cur
        BY <1>0, <3>1, NilApart DEF HashSound
      <4>2. bf[b].pv = disk[p] /\ bf[b].pv = latest[p]
        BY <1>0, <3>1, <4>1 DEF DataSound, DataOf
      <4>3. bf'[b].dirty = FALSE
        BY <1>2, <3>1
      <4>4. QED
        BY <3>1, <4>2, <4>3
    <3>2. CASE ~(hash[p] = b /\ bf[b].signal = "ok" /\ bf[b].dirty)
      <4>1. hash[p] # Nil => (bf'[hash[p]].dirty <=> bf[hash[p]].dirty) /\ bf'[hash[p]].pv = bf[hash[p]].pv
        BY <1>2, <3>2, Tables
      <4>2. QED
        BY <1>0, <4>1 DEF NoLostUpdate
    <3>3. QED
      BY <3>1, <3>2
  <2>3. QED
    BY <1>0, <1>4, <2>1, <2>2 DEF DataSound, NoLostUpdate
<1>11. QED
  BY <1>3, <1>5, <1>7, <1>8, <1>9, <1>10 DEF CacheInv

\* What taking a buffer out of the chain it ends does to the buffers.
LEMMA UnlinkFields ==
  ASSUME CacheType, NEW b \in Buffer, bf[b].prev # b, NEW f, f = Unlinked(bf, b)
  PROVE  /\ f \in [Buffer -> BFs]
         /\ \A c \in Buffer :
              /\ f[c].pgno = bf[c].pgno /\ f[c].cur = bf[c].cur /\ f[c].old = bf[c].old
              /\ f[c].err = bf[c].err /\ f[c].dirty = bf[c].dirty /\ f[c].pv = bf[c].pv
              /\ f[c].signal = bf[c].signal
              /\ f[c].prev = IF c = b THEN Nil ELSE bf[c].prev
              /\ f[c].next = IF bf[b].prev = c THEN Nil ELSE bf[c].next
<1>1. /\ f[b] = [bf[b] EXCEPT !.prev = Nil] /\ bf[b] \in BFs
      /\ \A c \in Buffer \ {b} :
           /\ f[c] = IF bf[b].prev = c THEN [bf[c] EXCEPT !.next = Nil] ELSE bf[c]
           /\ bf[c] \in BFs
      /\ f = [c \in Buffer |-> f[c]]
  BY DEF Unlinked, CacheType
<1>2. ASSUME NEW c \in Buffer
      PROVE  /\ f[c] \in BFs
             /\ f[c].pgno = bf[c].pgno /\ f[c].cur = bf[c].cur /\ f[c].old = bf[c].old
             /\ f[c].err = bf[c].err /\ f[c].dirty = bf[c].dirty /\ f[c].pv = bf[c].pv
             /\ f[c].signal = bf[c].signal
             /\ f[c].prev = IF c = b THEN Nil ELSE bf[c].prev
             /\ f[c].next = IF bf[b].prev = c THEN Nil ELSE bf[c].next
  <2>1. CASE c = b
    BY <1>1, <2>1 DEF BFs
  <2>2. CASE c # b /\ bf[b].prev = c
    <3>1. bf[c] \in BFs /\ f[c] = [bf[c] EXCEPT !.next = Nil]
      BY <1>1, <2>2
    <3>2. QED
      BY <2>2, <3>1 DEF BFs
  <2>3. CASE c # b /\ bf[b].prev # c
    BY <1>1, <2>3 DEF BFs
  <2>4. QED
    BY <2>1, <2>2, <2>3
<1>3. f \in [Buffer -> BFs]
  BY <1>1, <1>2
<1>4. QED
  BY <1>2, <1>3

\* A clean older version is taken out of the chain.
LEMMA RemoveCache ==
  ASSUME CacheType, CacheInv, NEW b \in Buffer, OnChain(b), bf[b].next = Nil, ~bf[b].cur,
         ~bf[b].dirty, bf[b].err # "pending", bf' = Unlinked(bf, b),
         UNCHANGED <<disk, hash, io, latest>>
  PROVE  /\ CacheType' /\ CacheInv'
         /\ \A c \in Buffer : /\ bf'[c].pgno = bf[c].pgno /\ bf'[c].cur = bf[c].cur /\ bf'[c].pv = bf[c].pv
                              /\ bf'[c].err = bf[c].err /\ bf'[c].dirty = bf[c].dirty
         /\ \A c \in Buffer \ {b} : bf'[c].prev = bf[c].prev
<1>0. HashSound /\ IOSound /\ LinksSound /\ DirtySound /\ ChainsOrdered /\ DataSound /\ NoLostUpdate
  BY DEF CacheInv, DataSound
<1>1. bf[b].prev # b
  BY <1>0, BufferCacheAssumption DEF LinksSound
<1>2. /\ bf' \in [Buffer -> BFs]
      /\ \A c \in Buffer : /\ bf'[c].pgno = bf[c].pgno /\ bf'[c].cur = bf[c].cur /\ bf'[c].old = bf[c].old
                           /\ bf'[c].err = bf[c].err /\ bf'[c].dirty = bf[c].dirty /\ bf'[c].pv = bf[c].pv
                           /\ bf'[c].signal = bf[c].signal
                           /\ bf'[c].prev = IF c = b THEN Nil ELSE bf[c].prev
                           /\ bf'[c].next = IF bf[b].prev = c THEN Nil ELSE bf[c].next
  <2>1. PICK f : f = Unlinked(bf, b)
    OBVIOUS
  <2>2. bf' = f
    BY <2>1
  <2>3. QED
    BY <1>1, <2>1, <2>2, UnlinkFields
<1>3. CacheType'
  BY <1>2 DEF CacheType
<1>4. hash' = hash /\ io' = io /\ disk' = disk /\ latest' = latest
  OBVIOUS
<1>5. HashSound'
  BY <1>0, <1>2, <1>4, Tables, NilApart DEF HashSound
<1>6. \A c \in Buffer \ {b} : OnChain(c)' <=> OnChain(c)
  BY <1>2 DEF OnChain
<1>7. IOSound'
  <2>1. ASSUME NEW c \in Buffer
        PROVE  /\ bf'[c].err = "pending" => OnChain(c)' /\ bf'[c].next = Nil
               /\ bf'[c].err \in {"fault", "unverified"} => bf'[c].cur /\ ~bf'[c].dirty /\ bf'[c].next = Nil
    BY <1>0, <1>2, <1>6 DEF IOSound
  <2>2. QED
    BY <1>0, <1>2, <1>4, <2>1 DEF IOSound, OnChain
<1>8. LinksSound' /\ ChainsOrdered'
  <2>1. /\ ~bf'[b].cur /\ bf'[b].next = Nil /\ bf'[b].prev = Nil
        /\ \A c \in Buffer \ {b} :
             /\ bf'[c].pgno = bf[c].pgno /\ bf'[c].cur = bf[c].cur
             /\ bf'[c].pv = bf[c].pv /\ bf'[c].prev = bf[c].prev
             /\ bf'[c].next = IF bf[b].prev = c THEN Nil ELSE bf[c].next
    BY <1>1, <1>2
  <2>2. QED
    BY <1>0, <1>4, <2>1, LeaveChain
<1>9. DirtySound'
  <2>1. \A c \in Buffer : bf[c].dirty => hash[bf[c].pgno] \in Buffer
    BY <1>0, Fields, Tables DEF DirtySound, LinksSound
  <2>2. ASSUME NEW c \in Buffer
        PROVE  /\ bf'[c].dirty => OnChain(c)' /\ bf'[hash[bf[c].pgno]].dirty
               /\ ~bf'[c].dirty /\ bf'[c].prev # Nil => bf'[c].next = Nil /\ bf'[c].err \in {"pending", "ioerr"}
    BY <1>0, <1>2, <1>6, <2>1 DEF DirtySound
  <2>3. QED
    BY <1>2, <1>4, <2>2 DEF DirtySound, OnChain
<1>10. DataSound'
  <2>1. \A c \in Buffer : DataOf(c)'
    BY <1>0, <1>2, <1>4 DEF DataSound, DataOf, Filled
  <2>2. \A p \in Page : IF hash[p] # Nil /\ bf'[hash[p]].dirty
                        THEN bf'[hash[p]].pv = latest[p]
                        ELSE disk[p] = latest[p]
    BY <1>0, <1>2, Tables DEF NoLostUpdate
  <2>3. QED
    BY <1>0, <1>4, <2>1, <2>2 DEF DataSound, NoLostUpdate
<1>11. QED
  BY <1>2, <1>3, <1>5, <1>7, <1>8, <1>9, <1>10 DEF CacheInv

\* Nothing done to the cache.
LEMMA SameCache ==
  ASSUME CacheType, CacheInv, UNCHANGED <<disk, hash, bf, io, latest>>
  PROVE  CacheType' /\ CacheInv'
BY DEF CacheType, CacheInv, HashSound, IOSound, OnChain, LinksSound, DirtySound, ChainsOrdered,
       Ranked, Versions, DataSound, DataOf, Filled, NoLostUpdate

\* When the marks of the buffers stay, but for the states of clean ones that no
\* chain needs, so does what dirty buffers rely on.
LEMMA DirtyKept ==
  ASSUME CacheType, LinksSound, DirtySound, hash' = hash,
         \A c \in Buffer :
           /\ bf'[c].pgno = bf[c].pgno /\ bf'[c].cur = bf[c].cur /\ bf'[c].dirty = bf[c].dirty
           /\ bf'[c].next = bf[c].next /\ bf'[c].prev = bf[c].prev
           /\ bf'[c].err = bf[c].err \/ bf'[c].err \in {"pending", "ioerr"} \/ bf[c].dirty \/ bf[c].prev = Nil
  PROVE  DirtySound'
<1>1. \A c \in Buffer : bf[c].dirty => hash[bf[c].pgno] \in Buffer
  BY Fields, Tables DEF DirtySound, LinksSound
<1>2. ASSUME NEW c \in Buffer
      PROVE  /\ bf'[c].dirty => OnChain(c) /\ bf'[hash[bf[c].pgno]].dirty
             /\ ~bf'[c].dirty /\ bf'[c].prev # Nil => bf'[c].next = Nil /\ bf'[c].err \in {"pending", "ioerr"}
  BY <1>1 DEF DirtySound
<1>3. \A c \in Buffer : OnChain(c)' <=> OnChain(c)
  BY DEF OnChain
<1>4. QED
  BY <1>2, <1>3 DEF DirtySound, OnChain

\* A read ends, or a page that was read ahead is verified: a clean buffer gets
\* a new state, and the content of the page unless it is an error.
LEMMA ReadCache ==
  ASSUME CacheType, CacheInv, NEW b \in Buffer,
         bf[b].err \in {"fault", "unverified"},
         bf' \in [Buffer -> BFs], \A c \in Buffer \ {b} : bf'[c] = bf[c],
         bf'[b].pgno = bf[b].pgno, bf'[b].cur = bf[b].cur, bf'[b].old = bf[b].old,
         bf'[b].dirty = bf[b].dirty, bf'[b].next = bf[b].next, bf'[b].prev = bf[b].prev,
         bf'[b].signal = bf[b].signal,
         bf'[b].err \in {"ok", "unverified", "ioerr"},
         bf'[b].pv = disk[bf[b].pgno] \/ (bf'[b].err = "ioerr" /\ bf'[b].pv = bf[b].pv),
         io' = [io EXCEPT ![b] = "none"],
         UNCHANGED <<disk, hash, latest>>
  PROVE  CacheType' /\ CacheInv'
<1>0. HashSound /\ IOSound /\ LinksSound /\ DirtySound /\ ChainsOrdered /\ DataSound /\ NoLostUpdate
  BY DEF CacheInv, DataSound
<1>1. CacheType'
  BY DEF CacheType
<1>2. /\ ~bf[b].dirty /\ bf[b].cur /\ bf[b].pgno \in Page /\ bf[b].signal = "none"
      /\ bf[b].next = Nil /\ bf[b].prev = Nil
  BY <1>0, Fields DEF IOSound, HashSound, LinksSound, OnChain
<1>3. \A c \in Buffer : /\ bf'[c].pgno = bf[c].pgno /\ bf'[c].cur = bf[c].cur /\ bf'[c].old = bf[c].old
                        /\ bf'[c].dirty = bf[c].dirty /\ bf'[c].signal = bf[c].signal
                        /\ bf'[c].next = bf[c].next /\ bf'[c].prev = bf[c].prev
  OBVIOUS
<1>4. hash' = hash /\ disk' = disk /\ latest' = latest
  OBVIOUS
<1>5. /\ io'[b] = "none" /\ \A c \in Buffer \ {b} : io'[c] = io[c] /\ bf'[c].err = bf[c].err
  BY DEF CacheType
<1>6. HashSound'
  BY <1>0, <1>2, <1>3, <1>4, <1>5, Tables, NilApart DEF HashSound
<1>7. IOSound'
  <2>1. \A c \in Buffer : OnChain(c)' <=> OnChain(c)
    BY <1>3 DEF OnChain
  <2>2. QED
    BY <1>0, <1>2, <1>3, <1>5, <2>1 DEF IOSound
<1>8. LinksSound' /\ ChainsOrdered'
  <2>1. \A c \in Buffer, d \in Buffer : Versions(c, d) => bf'[c].pv = bf[c].pv
    <3>1. SUFFICES ASSUME NEW c \in Buffer, NEW d \in Buffer, Versions(c, d), c = b PROVE FALSE
      OBVIOUS
    <3>2. QED
      BY <1>0, <1>2, <3>1, OldestVersion DEF Versions
  <2>2. QED
    BY <1>0, <1>3, <1>4, <2>1, LinksKept, OrderKept
<1>9. DirtySound'
  <2>1. \A c \in Buffer : bf'[c].err = bf[c].err \/ bf[c].prev = Nil
    BY <1>2, <1>5
  <2>2. QED
    BY <1>0, <1>3, <1>4, <2>1, DirtyKept
<1>10. DataSound'
  <2>1. ASSUME NEW c \in Buffer PROVE DataOf(c)'
    <3>1. CASE c # b
      BY <1>0, <1>4, <3>1 DEF DataSound, DataOf, Filled
    <3>2. CASE c = b
      <4>1. disk[bf[b].pgno] # 0 /\ DataOf(b)
        BY <1>0, <1>2 DEF DataSound
      <4>2. QED
        BY <1>2, <1>3, <1>4, <3>2, <4>1 DEF DataOf, Filled
    <3>3. QED
      BY <3>1, <3>2
  <2>2. ASSUME NEW p \in Page
        PROVE  IF hash[p] # Nil /\ bf'[hash[p]].dirty
               THEN bf'[hash[p]].pv = latest[p]
               ELSE disk[p] = latest[p]
    BY <1>0, <1>2, <1>3, Tables DEF NoLostUpdate
  <2>3. QED
    BY <1>0, <1>4, <2>1, <2>2 DEF DataSound, NoLostUpdate
<1>11. QED
  BY <1>1, <1>6, <1>7, <1>8, <1>9, <1>10 DEF CacheInv

\* The states of buffers become errors: that of a flush that failed, or that of
\* the flush of an older version.
LEMMA ErrorCache ==
  ASSUME CacheType, CacheInv, bf' \in [Buffer -> BFs],
         \A c \in Buffer :
           /\ bf'[c].pgno = bf[c].pgno /\ bf'[c].cur = bf[c].cur /\ bf'[c].old = bf[c].old
           /\ bf'[c].dirty = bf[c].dirty /\ bf'[c].pv = bf[c].pv
           /\ bf'[c].next = bf[c].next /\ bf'[c].prev = bf[c].prev
           /\ \/ bf'[c].err = bf[c].err /\ bf'[c].signal = bf[c].signal
              \/ /\ bf[c].err \in {"ok", "ioerr"} \/ FlushEnded(c)
                 /\ bf[c].pgno # Nil /\ bf'[c].err = "ioerr" /\ bf'[c].signal = "none",
         UNCHANGED <<disk, hash, io, latest>>
  PROVE  CacheType' /\ CacheInv'
<1>0. HashSound /\ IOSound /\ LinksSound /\ DirtySound /\ ChainsOrdered /\ DataSound /\ NoLostUpdate
  BY DEF CacheInv, DataSound
<1>1. hash' = hash /\ disk' = disk /\ latest' = latest /\ io' = io
  OBVIOUS
<1>2. CacheType'
  BY <1>1 DEF CacheType
<1>3. HashSound'
  BY <1>0, <1>1, Tables, NilApart DEF HashSound
<1>4. IOSound'
  <2>1. \A c \in Buffer : OnChain(c)' <=> OnChain(c)
    BY DEF OnChain
  <2>2. ASSUME NEW c \in Buffer
        PROVE  /\ io'[c] = "write" <=> bf'[c].err = "pending" /\ bf'[c].signal = "none"
               /\ bf'[c].signal # "none" => bf'[c].err = "pending"
               /\ bf'[c].err = "pending" => OnChain(c)' /\ bf'[c].next = Nil
               /\ io'[c] = "read" => bf'[c].err = "fault"
               /\ bf'[c].err \in {"fault", "unverified"} => bf'[c].cur /\ ~bf'[c].dirty /\ bf'[c].next = Nil
    <3>1. CASE bf'[c].err = bf[c].err /\ bf'[c].signal = bf[c].signal
      BY <1>0, <1>1, <2>1, <3>1 DEF IOSound
    <3>2. CASE /\ bf[c].err \in {"ok", "ioerr"} \/ FlushEnded(c)
               /\ bf'[c].err = "ioerr" /\ bf'[c].signal = "none"
      <4>1. io[c] # "write" /\ io[c] # "read"
        BY <1>0, <3>2 DEF IOSound, FlushEnded
      <4>2. QED
        BY <1>1, <3>2, <4>1
    <3>3. QED
      BY <3>1, <3>2
  <2>3. QED
    BY <2>2 DEF IOSound, OnChain
<1>5. LinksSound' /\ ChainsOrdered' /\ DirtySound'
  BY <1>0, <1>1, LinksKept, OrderKept, DirtyKept
<1>6. DataSound'
  <2>1. \A c \in Buffer : DataOf(c)'
    BY <1>0, <1>1 DEF DataSound, DataOf, Filled
  <2>2. \A p \in Page : IF hash[p] # Nil /\ bf'[hash[p]].dirty
                        THEN bf'[hash[p]].pv = latest[p]
                        ELSE disk[p] = latest[p]
    BY <1>0, Tables DEF NoLostUpdate
  <2>3. QED
    BY <1>0, <1>1, <2>1, <2>2 DEF DataSound, NoLostUpdate
<1>7. QED
  BY <1>2, <1>3, <1>4, <1>5, <1>6 DEF CacheInv

\* A write is issued: from here the buffer is marked.
LEMMA IssueCache ==
  ASSUME CacheType, CacheInv, NEW b \in Buffer,
         OnChain(b), bf[b].err = "ok", bf[b].next = Nil,
         bf' = BFIPrepareWritePage(bf, b), io' = [io EXCEPT ![b] = "write"],
         UNCHANGED <<disk, hash, latest>>
  PROVE  /\ CacheType' /\ CacheInv'
         /\ bf'[b].err = "pending" /\ \A c \in Buffer \ {b} : bf'[c] = bf[c]
         /\ \A c \in Buffer : /\ bf'[c].pgno = bf[c].pgno /\ bf'[c].cur = bf[c].cur
                              /\ bf'[c].dirty = bf[c].dirty /\ bf'[c].pv = bf[c].pv
                              /\ bf'[c].prev = bf[c].prev
<1>0. HashSound /\ IOSound /\ LinksSound /\ DirtySound /\ ChainsOrdered /\ DataSound /\ NoLostUpdate
  BY DEF CacheInv, DataSound
<1>1. /\ bf' \in [Buffer -> BFs] /\ bf'[b].err = "pending"
      /\ \A c \in Buffer \ {b} : bf'[c] = bf[c]
      /\ \A c \in Buffer : /\ bf'[c].pgno = bf[c].pgno /\ bf'[c].cur = bf[c].cur /\ bf'[c].old = bf[c].old
                           /\ bf'[c].dirty = bf[c].dirty /\ bf'[c].signal = bf[c].signal
                           /\ bf'[c].next = bf[c].next /\ bf'[c].prev = bf[c].prev
                           /\ bf'[c].pv = bf[c].pv
  <2>1. /\ bf'[b] = [bf[b] EXCEPT !.err = "pending"] /\ bf[b] \in BFs
        /\ \A c \in Buffer \ {b} : bf'[c] = bf[c] /\ bf'[c] \in BFs
        /\ bf' = [c \in Buffer |-> bf'[c]]
    BY DEF BFIPrepareWritePage, CacheType
  <2>2. bf'[b] \in BFs /\ bf'[b].err = "pending"
        /\ bf'[b].pgno = bf[b].pgno /\ bf'[b].cur = bf[b].cur /\ bf'[b].old = bf[b].old
        /\ bf'[b].dirty = bf[b].dirty /\ bf'[b].signal = bf[b].signal
        /\ bf'[b].next = bf[b].next /\ bf'[b].prev = bf[b].prev
        /\ bf'[b].pv = bf[b].pv
    BY <2>1 DEF BFs, Err
  <2>3. bf' \in [Buffer -> BFs]
    BY <2>1, <2>2
  <2>4. QED
    BY <2>1, <2>2, <2>3
<1>2. CacheType'
  BY <1>1 DEF CacheType
<1>3. bf[b].signal = "none" /\ bf[b].pgno # Nil
  BY <1>0 DEF IOSound, LinksSound
<1>4. hash' = hash /\ disk' = disk /\ latest' = latest
  OBVIOUS
<1>5. /\ io'[b] = "write" /\ \A c \in Buffer \ {b} : io'[c] = io[c] /\ bf'[c].err = bf[c].err
  BY <1>1 DEF CacheType
<1>6. HashSound'
  BY <1>0, <1>1, <1>3, <1>4, <1>5, Tables, NilApart DEF HashSound
<1>7. IOSound'
  <2>1. \A c \in Buffer : OnChain(c)' <=> OnChain(c)
    BY <1>1 DEF OnChain
  <2>2. QED
    BY <1>0, <1>1, <1>3, <1>5, <2>1 DEF IOSound
<1>8. LinksSound' /\ ChainsOrdered' /\ DirtySound'
  BY <1>0, <1>1, <1>4, <1>5, LinksKept, OrderKept, DirtyKept
<1>9. DataSound'
  <2>1. \A c \in Buffer : DataOf(c)'
    BY <1>0, <1>1, <1>3, <1>4 DEF DataSound, DataOf, Filled
  <2>2. \A p \in Page : IF hash[p] # Nil /\ bf'[hash[p]].dirty
                        THEN bf'[hash[p]].pv = latest[p]
                        ELSE disk[p] = latest[p]
    BY <1>0, <1>1, Tables DEF NoLostUpdate
  <2>3. QED
    BY <1>0, <1>4, <2>1, <2>2 DEF DataSound, NoLostUpdate
<1>10. QED
  BY <1>1, <1>2, <1>6, <1>7, <1>8, <1>9 DEF CacheInv

\* A write ends: the page is on disk, or not, and the result is left for the
\* next exclusive owner of the buffer.
LEMMA WrittenCache ==
  ASSUME CacheType, CacheInv, NEW b \in Buffer, BFIAsyncWriteComplete(b)
  PROVE  /\ CacheType' /\ CacheInv'
         /\ \A c \in Buffer \ {b} : bf'[c] = bf[c]
         /\ \A c \in Buffer : /\ bf'[c].pgno = bf[c].pgno /\ bf'[c].cur = bf[c].cur
                              /\ bf'[c].dirty = bf[c].dirty /\ bf'[c].err = bf[c].err
                              /\ bf'[c].pv = bf[c].pv /\ bf'[c].prev = bf[c].prev
         /\ \A p \in Page : disk'[p] >= disk[p]
<1>0. HashSound /\ IOSound /\ LinksSound /\ DirtySound /\ ChainsOrdered /\ DataSound /\ NoLostUpdate
  BY DEF CacheInv, DataSound
<1>1. PICK s \in {"ok", "failed"} : bf' = [bf EXCEPT ![b].signal = s]
                                    /\ (disk' = disk \/ disk' = [disk EXCEPT ![bf[b].pgno] = bf[b].pv])
                                    /\ (s = "ok" => disk' = [disk EXCEPT ![bf[b].pgno] = bf[b].pv])
  BY DEF BFIAsyncWriteComplete
<1>2. /\ bf' \in [Buffer -> BFs] /\ bf'[b].signal = s
      /\ \A c \in Buffer \ {b} : bf'[c] = bf[c]
      /\ \A c \in Buffer : /\ bf'[c].pgno = bf[c].pgno /\ bf'[c].cur = bf[c].cur /\ bf'[c].old = bf[c].old
                           /\ bf'[c].dirty = bf[c].dirty /\ bf'[c].err = bf[c].err
                           /\ bf'[c].next = bf[c].next /\ bf'[c].prev = bf[c].prev
                           /\ bf'[c].pv = bf[c].pv
  <2>1. /\ bf'[b] = [bf[b] EXCEPT !.signal = s] /\ bf[b] \in BFs
        /\ \A c \in Buffer \ {b} : bf'[c] = bf[c] /\ bf'[c] \in BFs
        /\ bf' = [c \in Buffer |-> bf'[c]]
    BY <1>1 DEF CacheType
  <2>2. bf'[b] \in BFs /\ bf'[b].signal = s
        /\ bf'[b].pgno = bf[b].pgno /\ bf'[b].cur = bf[b].cur /\ bf'[b].old = bf[b].old
        /\ bf'[b].dirty = bf[b].dirty /\ bf'[b].err = bf[b].err
        /\ bf'[b].next = bf[b].next /\ bf'[b].prev = bf[b].prev
        /\ bf'[b].pv = bf[b].pv
    BY <1>1, <2>1 DEF BFs
  <2>3. bf' \in [Buffer -> BFs]
    BY <2>1, <2>2
  <2>4. QED
    BY <2>1, <2>2, <2>3
<1>3. /\ hash' = hash /\ latest' = latest /\ io[b] = "write" /\ io' = [io EXCEPT ![b] = "none"]
  BY DEF BFIAsyncWriteComplete
<1>4. /\ bf[b].err = "pending" /\ OnChain(b) /\ bf[b].next = Nil /\ bf[b].signal = "none"
      /\ bf[b].pgno \in Page /\ bf[b].pv # 0
      /\ ~bf[b].dirty => bf[b].pv = disk[bf[b].pgno]
  <2>1. bf[b].err = "pending" /\ OnChain(b) /\ bf[b].next = Nil /\ bf[b].signal = "none" /\ bf[b].pgno \in Page
    BY <1>0, <1>3, Fields DEF IOSound, LinksSound
  <2>2. DataOf(b)
    BY <1>0 DEF DataSound
  <2>3. QED
    BY <2>1, <2>2, NilApart DEF DataOf, Filled, OnChain
<1>5. io'[b] = "none" /\ \A c \in Buffer \ {b} : io'[c] = io[c]
  BY <1>3 DEF CacheType
<1>6. CacheType'
  <2>1. disk' \in [Page -> Content]
    BY <1>1, <1>4, Fields DEF CacheType
  <2>2. QED
    BY <1>2, <1>3, <2>1 DEF CacheType
<1>7. /\ disk'[bf[b].pgno] \in {disk[bf[b].pgno], bf[b].pv}
      /\ s = "ok" => disk'[bf[b].pgno] = bf[b].pv
      /\ \A p \in Page : p # bf[b].pgno => disk'[p] = disk[p]
  BY <1>1, <1>4 DEF CacheType
<1>8. \A p \in Page : disk'[p] >= disk[p]
  <2>1. bf[b].dirty => disk[bf[b].pgno] <= bf[b].pv
    BY <1>0 DEF DataSound, DataOf
  <2>2. QED
    BY <1>4, <1>7, <2>1, Tables, Fields
<1>9. HashSound'
  BY <1>0, <1>2, <1>3, <1>4, <1>5, Tables, NilApart DEF HashSound
<1>10. IOSound'
  <2>1. \A c \in Buffer : OnChain(c)' <=> OnChain(c)
    BY <1>2 DEF OnChain
  <2>2. QED
    BY <1>0, <1>2, <1>4, <1>5, <2>1 DEF IOSound
<1>11. LinksSound' /\ ChainsOrdered' /\ DirtySound'
  BY <1>0, <1>2, <1>3, LinksKept, OrderKept, DirtyKept
<1>12. \A c \in Buffer : Versions(b, c) => bf[b].pv <= bf[c].pv /\ bf[c].next # Nil
  BY <1>0, <1>4, OldestVersion
<1>13. DataSound'
  <2>1. ASSUME NEW c \in Buffer PROVE DataOf(c)'
    <3>0. DataOf(c) /\ DataOf(b)
      BY <1>0 DEF DataSound
    <3>1. CASE bf[c].pgno # bf[b].pgno
      <4>1. c # b /\ bf'[c] = bf[c]
        BY <1>2, <3>1
      <4>2. CASE bf[c].pgno \in Page
        BY <1>3, <1>7, <3>0, <3>1, <4>1, <4>2 DEF DataOf, Filled
      <4>3. CASE bf[c].pgno = Nil
        <5>1. ~bf[c].dirty /\ ~bf[c].cur /\ bf[c].signal = "none" /\ bf[c].prev = Nil
          BY <1>0, <4>3, Fields DEF HashSound, IOSound, LinksSound, OnChain
        <5>2. QED
          BY <4>1, <4>3, <5>1 DEF DataOf
      <4>4. QED
        BY <4>2, <4>3, Fields
    <3>2. CASE c = b
      BY <1>2, <1>3, <1>4, <1>7, <3>0, <3>2, Tables, Fields DEF DataOf, Filled
    <3>3. CASE bf[c].pgno = bf[b].pgno /\ c # b
      <4>1. OnChain(c) => bf[b].pv <= bf[c].pv /\ bf[c].next # Nil
        BY <1>4, <1>12, <3>3 DEF Versions
      <4>2. bf[c].signal = "none"
        BY <1>0, <4>1, Fields DEF IOSound
      <4>3. bf[c].dirty => OnChain(c)
        BY <1>0 DEF DirtySound
      <4>4. bf[c].prev # Nil => bf[c].dirty
        BY <1>0, <4>1 DEF DirtySound, OnChain
      <4>5. bf[c].cur /\ ~bf[c].dirty => ~bf[b].dirty
        BY <1>0, <1>4, <3>3 DEF DirtySound, HashSound
      <4>6. bf[b].dirty \/ disk'[bf[b].pgno] = disk[bf[b].pgno]
        BY <1>4, <1>7
      <4>7. bf[c].dirty => disk'[bf[b].pgno] <= bf[c].pv
        BY <1>7, <3>0, <3>3, <4>1, <4>3 DEF DataOf
      <4>8. QED
        BY <1>2, <1>3, <3>0, <3>3, <4>2, <4>4, <4>5, <4>6, <4>7 DEF DataOf, Filled
    <3>4. QED
      BY <3>1, <3>2, <3>3
  <2>2. ASSUME NEW p \in Page
        PROVE  IF hash[p] # Nil /\ bf'[hash[p]].dirty
               THEN bf'[hash[p]].pv = latest[p]
               ELSE disk'[p] = latest[p]
    <3>1. p = bf[b].pgno /\ bf[b].dirty => hash[p] # Nil /\ bf[hash[p]].dirty
      BY <1>0, <1>4 DEF DirtySound, LinksSound
    <3>2. p # bf[b].pgno \/ ~bf[b].dirty => disk'[p] = disk[p]
      BY <1>4, <1>7
    <3>3. hash[p] # Nil => bf'[hash[p]].dirty = bf[hash[p]].dirty /\ bf'[hash[p]].pv = bf[hash[p]].pv
      BY <1>2, Tables
    <3>4. QED
      BY <1>0, <3>1, <3>2, <3>3 DEF NoLostUpdate
  <2>3. \A p \in Page : disk'[p] # 0
    BY <1>0, <1>4, <1>7 DEF DataSound
  <2>4. QED
    BY <1>3, <2>1, <2>2, <2>3 DEF DataSound, NoLostUpdate
<1>14. QED
  BY <1>2, <1>6, <1>8, <1>9, <1>10, <1>11, <1>13 DEF CacheInv

\* A clean buffer that nobody uses is freed: the current one of its page with
\* what is left of the chain, one clean version at most, or an older version.
LEMMA FreeCache ==
  ASSUME CacheType, CacheInv, NEW b \in Buffer, bf[b].pgno # Nil,
         ~bf[b].dirty, bf[b].err # "pending", io[b] = "none",
         NEW f, f = [f EXCEPT ![b] = Free], f \in [Buffer -> BFs], bf' = f,
         bf[b].next # Nil => /\ f[bf[b].next].next = Nil
                             /\ ~bf[bf[b].next].dirty /\ bf[bf[b].next].err # "pending",
         \A c \in Buffer \ {b} :
           /\ f[c].pgno = bf[c].pgno /\ f[c].cur = bf[c].cur /\ f[c].old = bf[c].old
           /\ f[c].err = bf[c].err /\ f[c].dirty = bf[c].dirty /\ f[c].pv = bf[c].pv
           /\ f[c].signal = bf[c].signal
           /\ f[c].prev = IF c = bf[b].next THEN Nil ELSE bf[c].prev
           /\ f[c].next = IF c = bf[b].prev THEN Nil ELSE bf[c].next,
         hash' = IF bf[b].cur THEN [hash EXCEPT ![bf[b].pgno] = Nil] ELSE hash,
         UNCHANGED <<disk, io, latest>>
  PROVE  /\ CacheType' /\ CacheInv'
<1>0. HashSound /\ IOSound /\ LinksSound /\ DirtySound /\ ChainsOrdered /\ DataSound /\ NoLostUpdate
  BY DEF CacheInv, DataSound
<1>1. /\ Free \in BFs /\ Free.pgno = Nil /\ Free.cur = FALSE /\ Free.old = FALSE /\ Free.err = "ok"
      /\ Free.dirty = FALSE /\ Free.next = Nil /\ Free.prev = Nil /\ Free.signal = "none"
  BY BufferCacheAssumption DEF Free, BFs, Err, Content
<1>2. bf'[b] = Free /\ bf' \in [Buffer -> BFs]
  BY <1>1
<1>3. /\ bf[b].signal = "none" /\ bf[b].pgno \in Page
      /\ bf[b].next # Nil => bf[b].cur /\ bf[b].next \in Buffer
  BY <1>0, Fields DEF LinksSound, IOSound, DirtySound, OnChain
<1>4. /\ io' = io /\ disk' = disk /\ latest' = latest
      /\ \A p \in Page : hash'[p] = IF p = bf[b].pgno /\ bf[b].cur THEN Nil ELSE hash[p]
      /\ hash' \in [Page -> Buffer \cup {Nil}]
  BY <1>3 DEF CacheType
<1>5. CacheType'
  BY <1>2, <1>4 DEF CacheType
<1>6. \A p \in Page : hash'[p] # b /\ (hash'[p] # Nil => hash'[p] = hash[p])
  BY <1>0, <1>3, <1>4, NilApart DEF HashSound
<1>7. \A c \in Buffer : ~(c = b) => (bf'[c].pgno = bf[c].pgno /\ (bf'[c].cur = bf[c].cur))
  OBVIOUS
<1>8. HashSound'
  <2>1. ASSUME NEW p \in Page, hash'[p] # Nil PROVE bf'[hash'[p]].pgno = p
    BY <1>0, <1>6, <1>7, <2>1, Tables DEF HashSound
  <2>2. ASSUME NEW c \in Buffer
        PROVE  /\ bf'[c].pgno = Nil => ~bf'[c].cur /\ ~bf'[c].dirty /\ bf'[c].err = "ok" /\ io'[c] = "none"
               /\ bf'[c].pgno # Nil => /\ bf'[c].cur <=> hash'[bf'[c].pgno] = c
                                       /\ bf'[c].old <=> ~bf'[c].cur
    <3>1. CASE c = b
      BY <1>1, <1>2, <1>4, <3>1
    <3>2. CASE c # b
      <4>1. bf[c].pgno # Nil => (hash'[bf[c].pgno] = c <=> hash[bf[c].pgno] = c)
        BY <1>0, <1>3, <1>4, <1>6, <3>2, Fields, NilApart DEF HashSound
      <4>2. QED
        BY <1>0, <1>4, <3>2, <4>1 DEF HashSound
    <3>3. QED
      BY <3>1, <3>2
  <2>3. QED
    BY <2>1, <2>2 DEF HashSound
<1>9. \A c \in Buffer : OnChain(c)' <=> OnChain(c) /\ c # b /\ c # bf[b].next
  <2>1. \A c \in Buffer : c = bf[b].next => ~bf[c].cur
    BY <1>0, <1>3, NilApart DEF LinksSound
  <2>2. QED
    BY <1>1, <1>2, <2>1 DEF OnChain
<1>10. IOSound'
  <2>1. ASSUME NEW c \in Buffer, c # b
        PROVE  /\ bf'[c].err = "pending" => OnChain(c)' /\ bf'[c].next = Nil
               /\ bf'[c].err \in {"fault", "unverified"} => bf'[c].cur /\ ~bf'[c].dirty /\ bf'[c].next = Nil
    <3>1. bf[c].err = "pending" => c # bf[b].next
      BY NilApart
    <3>2. QED
      BY <1>0, <1>9, <2>1, <3>1 DEF IOSound
  <2>2. ASSUME NEW c \in Buffer, c # b
        PROVE  /\ io'[c] = "write" <=> bf'[c].err = "pending" /\ bf'[c].signal = "none"
               /\ bf'[c].signal # "none" => bf'[c].err = "pending"
               /\ io'[c] = "read" => bf'[c].err = "fault"
    BY <1>0, <1>4, <2>2 DEF IOSound
  <2>3. QED
    BY <1>1, <1>2, <1>4, <2>1, <2>2 DEF IOSound, OnChain
<1>11. bf[b].cur => \A c \in Buffer : OnChain(c) /\ bf[c].pgno = bf[b].pgno <=> c \in {b, bf[b].next}
  <2>1. SUFFICES ASSUME bf[b].cur
                 PROVE  \A c \in Buffer : OnChain(c) /\ bf[c].pgno = bf[b].pgno <=> c \in {b, bf[b].next}
    OBVIOUS
  <2>2. \A c \in Buffer : c \in {b, bf[b].next} => OnChain(c) /\ bf[c].pgno = bf[b].pgno
    BY <1>0, <2>1, NilApart DEF LinksSound, OnChain
  <2>3. ASSUME NEW c \in Buffer, OnChain(c), bf[c].pgno = bf[b].pgno, c # b PROVE c = bf[b].next
    <3>1. Versions(b, c) /\ Versions(c, b)
      BY <2>1, <2>3 DEF Versions, OnChain
    <3>2. hash[bf[b].pgno] = b
      BY <1>0, <1>3, <2>1, NilApart DEF HashSound
    <3>3. ~bf[c].cur /\ ~bf[c].dirty
      BY <1>0, <1>3, <2>3, <3>2, NilApart DEF HashSound, DirtySound
    <3>4. bf[c].next = Nil
      BY <1>0, <2>3, <3>3 DEF DirtySound, OnChain
    <3>5. bf[b].next # Nil /\ bf[b].next \in Buffer
      BY <1>0, <1>3, <2>3, <3>1, <3>4, OldestVersion
    <3>6. SUFFICES ASSUME c # bf[b].next PROVE FALSE
      OBVIOUS
    <3>7. OnChain(bf[b].next) /\ bf[bf[b].next].pgno = bf[b].pgno
      BY <1>0, <3>5 DEF LinksSound
    <3>8. Versions(c, bf[b].next)
      BY <2>3, <3>5, <3>6, <3>7 DEF Versions
    <3>9. bf[bf[b].next].next # Nil
      BY <1>0, <2>3, <3>4, <3>5, <3>8, OldestVersion
    <3>10. bf[bf[b].next].dirty
      BY <1>0, <1>3, <3>5, <3>7, <3>9, NilApart DEF DirtySound, LinksSound
    <3>11. QED
      BY <3>5, <3>10
  <2>4. QED
    BY <2>2, <2>3
<1>12. LinksSound' /\ ChainsOrdered'
  <2>1. CASE ~bf[b].cur
    <3>1. bf[b].next = Nil /\ hash' = hash
      BY <1>3, <2>1
    <3>2. ~bf'[b].cur /\ bf'[b].next = Nil /\ bf'[b].prev = Nil
      BY <1>1, <1>2
    <3>3. \A c \in Buffer \ {b} :
            /\ bf'[c].pgno = bf[c].pgno /\ bf'[c].cur = bf[c].cur
            /\ bf'[c].pv = bf[c].pv /\ bf'[c].prev = bf[c].prev
            /\ bf'[c].next = IF bf[b].prev = c THEN Nil ELSE bf[c].next
      BY <3>1, NilApart
    <3>4. QED
      BY <1>0, <2>1, <3>1, <3>2, <3>3, LeaveChain
  <2>2. CASE bf[b].cur
    <3>1. bf[b].prev = Nil
      BY <1>0, <2>2 DEF LinksSound, OnChain
    <3>2. PICK p \in Page : p = bf[b].pgno
      BY <1>3
    <3>3. hash' = [hash EXCEPT ![p] = Nil]
      BY <2>2, <3>2
    <3>4. \A c \in Buffer : OnChain(c) /\ bf[c].pgno = p =>
            ~bf'[c].cur /\ bf'[c].next = Nil /\ bf'[c].prev = Nil
      <4>1. ASSUME NEW c \in Buffer, c = bf[b].next, c # b
            PROVE  ~bf'[c].cur /\ bf'[c].next = Nil /\ bf'[c].prev = Nil
        BY <1>0, <1>3, <4>1, NilApart DEF LinksSound
      <4>2. ~bf'[b].cur /\ bf'[b].next = Nil /\ bf'[b].prev = Nil
        BY <1>1, <1>2
      <4>3. QED
        BY <1>11, <2>2, <3>2, <4>1, <4>2
    <3>5. \A c \in Buffer : ~(OnChain(c) /\ bf[c].pgno = p) =>
            /\ OnChain(c) => bf'[c].pgno = bf[c].pgno
            /\ bf'[c].cur = bf[c].cur /\ bf'[c].pv = bf[c].pv
            /\ bf'[c].prev = bf[c].prev /\ bf'[c].next = bf[c].next
      BY <1>11, <2>2, <3>1, <3>2, NilApart
    <3>6. QED
      BY <1>0, <3>3, <3>4, <3>5, PageGone
  <2>3. QED
    BY <2>1, <2>2
<1>13. DirtySound'
  <2>1. ASSUME NEW c \in Buffer, bf'[c].dirty
        PROVE  OnChain(c)' /\ bf'[hash'[bf'[c].pgno]].dirty
    <3>1. c # b /\ bf[c].dirty /\ c # bf[b].next /\ bf'[c].pgno = bf[c].pgno
      BY <1>1, <1>2, <1>3, <2>1, NilApart
    <3>2. OnChain(c) /\ bf[c].pgno \in Page /\ hash[bf[c].pgno] \in Buffer /\ bf[hash[bf[c].pgno]].dirty
      BY <1>0, <3>1, Fields, Tables DEF DirtySound, LinksSound
    <3>3. hash[bf[c].pgno] # b /\ hash'[bf[c].pgno] = hash[bf[c].pgno]
      BY <1>0, <1>3, <1>4, <3>2, NilApart DEF HashSound
    <3>4. QED
      BY <1>9, <3>1, <3>2, <3>3
  <2>2. ASSUME NEW c \in Buffer, ~bf'[c].dirty, bf'[c].prev # Nil
        PROVE  bf'[c].next = Nil /\ bf'[c].err \in {"pending", "ioerr"}
    BY <1>0, <1>1, <1>2, <2>2 DEF DirtySound
  <2>3. QED
    BY <2>1, <2>2 DEF DirtySound, OnChain
<1>14. DataSound'
  <2>1. ASSUME NEW c \in Buffer PROVE DataOf(c)'
    <3>1. CASE c = b
      BY <1>1, <1>2, <3>1 DEF DataOf
    <3>2. CASE c # b
      BY <1>0, <1>4, <3>2 DEF DataSound, DataOf, Filled
    <3>3. QED
      BY <3>1, <3>2
  <2>2. ASSUME NEW p \in Page
        PROVE  IF hash'[p] # Nil /\ bf'[hash'[p]].dirty
               THEN bf'[hash'[p]].pv = latest[p]
               ELSE disk[p] = latest[p]
    <3>1. CASE hash[p] = b
      <4>1. hash'[p] = Nil
        BY <1>0, <1>3, <1>6, <3>1, NilApart DEF HashSound
      <4>2. QED
        BY <1>0, <3>1, <4>1, NilApart DEF NoLostUpdate
    <3>2. CASE hash[p] # b
      <4>1. hash'[p] = hash[p]
        BY <1>0, <1>3, <1>4, <3>2, NilApart DEF HashSound
      <4>2. hash[p] # Nil => bf'[hash[p]].dirty = bf[hash[p]].dirty /\ bf'[hash[p]].pv = bf[hash[p]].pv
        BY <3>2, Tables
      <4>3. QED
        BY <1>0, <4>1, <4>2 DEF NoLostUpdate
    <3>3. QED
      BY <3>1, <3>2
  <2>3. QED
    BY <1>0, <1>4, <2>1, <2>2 DEF DataSound, NoLostUpdate
<1>15. QED
  BY <1>5, <1>8, <1>10, <1>12, <1>13, <1>14 DEF CacheInv

\* A page is changed under the write latch, with its current content.
LEMMA DirtyCache ==
  ASSUME CacheType, CacheInv, NEW b \in Buffer, bf[b].cur, bf[b].pgno # Nil,
         bf[b].err \in {"ok", "ioerr"}, bf[b].pv # 0,
         latest[bf[b].pgno] <= MaxUpdate,
         bf' = [bf EXCEPT ![b] = [@ EXCEPT !.dirty = TRUE, !.pv = bf[b].pv + 1]],
         latest' = [latest EXCEPT ![bf[b].pgno] = @ + 1],
         UNCHANGED <<disk, hash, io>>
  PROVE  /\ CacheType' /\ CacheInv'
         /\ \A c \in Buffer \ {b} : bf'[c] = bf[c]
         /\ bf'[b].pgno = bf[b].pgno /\ bf'[b].cur = bf[b].cur /\ bf'[b].err = bf[b].err
         /\ bf'[b].dirty
<1>0. HashSound /\ IOSound /\ LinksSound /\ DirtySound /\ ChainsOrdered /\ DataSound /\ NoLostUpdate
  BY DEF CacheInv, DataSound
<1>1. bf[b].pgno \in Page /\ hash[bf[b].pgno] = b /\ bf[b].prev = Nil
      /\ bf[b].signal = "none" /\ bf[b].pv \in Nat
  BY <1>0, Fields DEF HashSound, IOSound, LinksSound, OnChain
<1>2. bf[b].pv = latest[bf[b].pgno]
  <2>1. DataOf(b)
    BY <1>0 DEF DataSound
  <2>2. QED
    BY <1>0, <1>1, <2>1, NilApart DEF DataOf, NoLostUpdate
<1>3. /\ bf' \in [Buffer -> BFs]
      /\ \A c \in Buffer \ {b} : bf'[c] = bf[c]
      /\ \A c \in Buffer : /\ bf'[c].pgno = bf[c].pgno /\ bf'[c].cur = bf[c].cur /\ bf'[c].old = bf[c].old
                           /\ bf'[c].err = bf[c].err /\ bf'[c].signal = bf[c].signal
                           /\ bf'[c].next = bf[c].next /\ bf'[c].prev = bf[c].prev
      /\ bf'[b].dirty = TRUE /\ bf'[b].pv = bf[b].pv + 1
  <2>1. /\ bf'[b] = [bf[b] EXCEPT !.dirty = TRUE, !.pv = bf[b].pv + 1] /\ bf[b] \in BFs
        /\ \A c \in Buffer \ {b} : bf'[c] = bf[c] /\ bf'[c] \in BFs
        /\ bf' = [c \in Buffer |-> bf'[c]]
    BY DEF CacheType
  <2>2. bf[b].pv + 1 \in Content
    BY <1>1, <1>2, BufferCacheAssumption DEF Content
  <2>3. /\ bf'[b] \in BFs /\ bf'[b].dirty = TRUE /\ bf'[b].pv = bf[b].pv + 1
        /\ bf'[b].pgno = bf[b].pgno /\ bf'[b].cur = bf[b].cur /\ bf'[b].old = bf[b].old
        /\ bf'[b].err = bf[b].err /\ bf'[b].signal = bf[b].signal
        /\ bf'[b].next = bf[b].next /\ bf'[b].prev = bf[b].prev
    BY <2>1, <2>2 DEF BFs
  <2>4. bf' \in [Buffer -> BFs]
    BY <2>1, <2>3
  <2>5. QED
    BY <2>1, <2>3, <2>4
<1>4. /\ hash' = hash /\ io' = io /\ disk' = disk
      /\ latest'[bf[b].pgno] = latest[bf[b].pgno] + 1
      /\ \A p \in Page : p # bf[b].pgno => latest'[p] = latest[p]
  BY <1>1 DEF CacheType
<1>5. CacheType'
  <2>1. latest' \in [Page -> Content]
    BY <1>1, Tables, BufferCacheAssumption DEF CacheType, Content
  <2>2. QED
    BY <1>3, <1>4, <2>1 DEF CacheType
<1>6. HashSound'
  BY <1>0, <1>1, <1>3, <1>4, Tables, NilApart DEF HashSound
<1>7. \A c \in Buffer : OnChain(c)' <=> OnChain(c)
  BY <1>3 DEF OnChain
<1>8. IOSound'
  BY <1>0, <1>1, <1>3, <1>4, <1>7 DEF IOSound
<1>9. LinksSound' /\ DirtySound'
  <2>1. LinksSound'
    BY <1>0, <1>3, <1>4, LinksKept
  <2>2. ASSUME NEW c \in Buffer, bf'[c].dirty
        PROVE  OnChain(c) /\ bf'[hash[bf[c].pgno]].dirty
    <3>1. CASE c = b
      BY <1>1, <1>3, <3>1 DEF OnChain
    <3>2. CASE c # b
      <4>1. bf[c].dirty /\ OnChain(c) /\ bf[hash[bf[c].pgno]].dirty
        BY <1>0, <1>3, <2>2, <3>2 DEF DirtySound
      <4>2. hash[bf[c].pgno] \in Buffer
        BY <1>0, <4>1, Fields, Tables DEF LinksSound
      <4>3. QED
        BY <1>3, <4>1, <4>2
    <3>3. QED
      BY <3>1, <3>2
  <2>3. ASSUME NEW c \in Buffer, ~bf'[c].dirty, bf'[c].prev # Nil
        PROVE  bf'[c].next = Nil /\ bf'[c].err \in {"pending", "ioerr"}
    BY <1>0, <1>3, <2>3 DEF DirtySound
  <2>4. QED
    BY <1>3, <1>4, <1>7, <2>1, <2>2, <2>3 DEF DirtySound, OnChain
<1>10. ChainsOrdered'
  <2>1. PICK rank \in [Buffer -> Nat] : Ranked(rank)
    BY <1>0 DEF ChainsOrdered
  <2>2. ASSUME NEW c \in Buffer, NEW d \in Buffer, Versions(c, d)'
        PROVE  Versions(c, d)
    BY <1>3, <1>7, <2>2 DEF Versions
  <2>3. ASSUME NEW c \in Buffer, NEW d \in Buffer, Versions(c, d)'
        PROVE  /\ rank[c] # rank[d]
               /\ rank[c] < rank[d] => bf'[c].pv <= bf'[d].pv /\ bf'[c].prev # Nil /\ bf'[d].next # Nil
               /\ bf'[c].next # Nil => /\ rank[bf'[c].next] < rank[c]
                                       /\ rank[d] <= rank[bf'[c].next] \/ rank[c] <= rank[d]
    <3>1. /\ rank[c] # rank[d]
          /\ rank[c] < rank[d] => bf[c].pv <= bf[d].pv /\ bf[c].prev # Nil /\ bf[d].next # Nil
          /\ bf[c].next # Nil => /\ rank[bf[c].next] < rank[c]
                                 /\ rank[d] <= rank[bf[c].next] \/ rank[c] <= rank[d]
      BY <2>1, <2>2, <2>3 DEF Ranked
    <3>2. /\ c # b => bf'[c].pv = bf[c].pv
          /\ bf'[d].pv >= bf[d].pv
      BY <1>1, <1>3, Fields
    <3>3. rank[c] < rank[d] => c # b
      BY <1>1, <3>1
    <3>4. rank[c] < rank[d] => bf'[c].pv <= bf'[d].pv
      <4>1. bf[c].pv \in Nat /\ bf[d].pv \in Nat /\ (bf'[d].pv = bf[d].pv \/ bf'[d].pv = bf[d].pv + 1)
        BY <1>3, Fields
      <4>2. QED
        BY <3>1, <3>2, <3>3, <4>1
    <3>5. QED
      BY <1>3, <3>1, <3>4
  <2>4. QED
    BY <2>3 DEF Ranked, ChainsOrdered
<1>11. DataSound'
  <2>1. disk[bf[b].pgno] <= bf[b].pv + 1
    <3>1. disk[bf[b].pgno] <= bf[b].pv
      <4>1. DataOf(b)
        BY <1>0 DEF DataSound
      <4>2. CASE bf[b].dirty
        BY <4>1, <4>2 DEF DataOf
      <4>3. CASE ~bf[b].dirty
        BY <1>1, <4>1, <4>3, Tables DEF DataOf
      <4>4. QED
        BY <4>2, <4>3
    <3>2. QED
      BY <1>1, <3>1, Tables
  <2>2. ASSUME NEW c \in Buffer PROVE DataOf(c)'
    <3>1. CASE c = b
      BY <1>1, <1>2, <1>3, <1>4, <2>1, <3>1 DEF DataOf
    <3>2. CASE c # b
      <4>1. bf'[c] = bf[c] /\ DataOf(c)
        BY <1>0, <1>3, <3>2 DEF DataSound
      <4>2. bf[c].cur => bf[c].pgno # bf[b].pgno /\ bf[c].pgno \in Page
        BY <1>0, <1>1, <3>2, Fields DEF HashSound
      <4>3. bf[c].dirty /\ bf[c].cur => bf[c].pv = latest'[bf[c].pgno]
        BY <1>4, <4>1, <4>2 DEF DataOf
      <4>4. QED
        BY <1>4, <4>1, <4>3 DEF DataOf, Filled
    <3>3. QED
      BY <3>1, <3>2
  <2>3. ASSUME NEW p \in Page
        PROVE  IF hash[p] # Nil /\ bf'[hash[p]].dirty
               THEN bf'[hash[p]].pv = latest'[p]
               ELSE disk[p] = latest'[p]
    <3>1. CASE p = bf[b].pgno
      BY <1>1, <1>2, <1>3, <1>4, <3>1, NilApart
    <3>2. CASE p # bf[b].pgno
      <4>1. hash[p] # Nil => hash[p] \in Buffer /\ hash[p] # b
        BY <1>0, <3>2, Tables DEF HashSound
      <4>2. QED
        BY <1>0, <1>3, <1>4, <3>2, <4>1 DEF NoLostUpdate
    <3>3. QED
      BY <3>1, <3>2
  <2>4. QED
    BY <1>0, <1>4, <2>2, <2>3 DEF DataSound, NoLostUpdate
<1>12. QED
  BY <1>3, <1>5, <1>6, <1>8, <1>9, <1>10, <1>11 DEF CacheInv

\* What an available buffer holds.
LEMMA AvailableFields ==
  ASSUME CacheType, NEW n \in Buffer, Available(n)
  PROVE  /\ bf[n].pgno = Nil /\ ~bf[n].cur /\ ~bf[n].old /\ ~bf[n].dirty /\ bf[n].err = "ok"
         /\ bf[n].next = Nil /\ bf[n].prev = Nil /\ bf[n].signal = "none" /\ bf[n].pv = 0
  BY DEF Available, Free

\* An available buffer becomes the current one of a page that has none, before
\* the page is read.
LEMMA CachedCache ==
  ASSUME CacheType, CacheInv, NEW p \in Page, NEW b \in Buffer,
         hash[p] = Nil, Available(b),
         hash' = [hash EXCEPT ![p] = b],
         bf' = [bf EXCEPT ![b] = [Free EXCEPT !.pgno = p, !.cur = TRUE, !.err = "fault"]],
         io' \in [Buffer -> {"none", "read", "write"}],
         io'[b] \in {"none", "read"}, \A c \in Buffer \ {b} : io'[c] = io[c],
         UNCHANGED <<disk, latest>>
  PROVE  /\ CacheType' /\ CacheInv'
         /\ \A c \in Buffer \ {b} : bf'[c] = bf[c]
         /\ bf'[b].pgno = p /\ bf'[b].cur = TRUE /\ bf'[b].err = "fault" /\ bf'[b].dirty = FALSE
<1>0. HashSound /\ IOSound /\ LinksSound /\ DirtySound /\ ChainsOrdered /\ DataSound /\ NoLostUpdate
  BY DEF CacheInv, DataSound
<1>1. Free \in BFs /\ Free.old = FALSE /\ Free.dirty = FALSE
      /\ Free.next = Nil /\ Free.prev = Nil /\ Free.signal = "none" /\ Free.pv = 0
  BY BufferCacheAssumption DEF Free, BFs, Err, Content
<1>2. /\ bf' \in [Buffer -> BFs]
      /\ \A c \in Buffer \ {b} : bf'[c] = bf[c]
      /\ bf'[b].pgno = p /\ bf'[b].cur = TRUE /\ bf'[b].old = FALSE /\ bf'[b].err = "fault"
      /\ bf'[b].dirty = FALSE /\ bf'[b].next = Nil /\ bf'[b].prev = Nil /\ bf'[b].signal = "none"
      /\ bf'[b].pv = 0
  <2>1. /\ bf'[b] = [Free EXCEPT !.pgno = p, !.cur = TRUE, !.err = "fault"]
        /\ \A c \in Buffer \ {b} : bf'[c] = bf[c] /\ bf'[c] \in BFs
        /\ bf' = [c \in Buffer |-> bf'[c]]
    BY DEF CacheType
  <2>2. /\ bf'[b] \in BFs
        /\ bf'[b].pgno = p /\ bf'[b].cur = TRUE /\ bf'[b].old = FALSE /\ bf'[b].err = "fault"
        /\ bf'[b].dirty = FALSE /\ bf'[b].next = Nil /\ bf'[b].prev = Nil /\ bf'[b].signal = "none"
        /\ bf'[b].pv = 0
    BY <1>1, <2>1 DEF BFs, Err
  <2>3. bf' \in [Buffer -> BFs]
    BY <2>1, <2>2
  <2>4. QED
    BY <2>1, <2>2, <2>3
<1>3. /\ bf[b].pgno = Nil /\ ~bf[b].cur /\ ~bf[b].dirty /\ bf[b].next = Nil /\ bf[b].prev = Nil
  BY AvailableFields
<1>4. /\ disk' = disk /\ latest' = latest
      /\ hash'[p] = b /\ \A q \in Page : q # p => hash'[q] = hash[q]
      /\ hash' \in [Page -> Buffer \cup {Nil}]
  BY DEF CacheType
<1>5. CacheType'
  BY <1>2, <1>4 DEF CacheType
<1>6. \A q \in Page : hash[q] # b
  BY <1>0, <1>3, NilApart DEF HashSound
<1>7. \A c \in Buffer : bf[c].pgno = p => ~OnChain(c) /\ ~bf[c].cur
  BY <1>0, NilApart DEF LinksSound, HashSound
<1>8. HashSound'
  <2>1. ASSUME NEW q \in Page, hash'[q] # Nil PROVE bf'[hash'[q]].pgno = q
    <3>1. CASE q = p
      BY <1>2, <1>4, <3>1
    <3>2. CASE q # p
      BY <1>0, <1>2, <1>4, <1>6, <2>1, <3>2, Tables DEF HashSound
    <3>3. QED
      BY <3>1, <3>2
  <2>2. ASSUME NEW c \in Buffer
        PROVE  /\ bf'[c].pgno = Nil => ~bf'[c].cur /\ ~bf'[c].dirty /\ bf'[c].err = "ok" /\ io'[c] = "none"
               /\ bf'[c].pgno # Nil => /\ bf'[c].cur <=> hash'[bf'[c].pgno] = c
                                       /\ bf'[c].old <=> ~bf'[c].cur
    <3>1. CASE c = b
      BY <1>2, <1>4, <3>1, NilApart
    <3>2. CASE c # b
      <4>1. bf'[c] = bf[c] /\ io'[c] = io[c] /\ (bf[c].pgno # Nil => bf[c].pgno \in Page)
        BY <1>2, <3>2, Fields
      <4>2. bf[c].pgno # Nil => (hash'[bf[c].pgno] = c <=> hash[bf[c].pgno] = c)
        BY <1>0, <1>4, <1>7, <3>2, <4>1, NilApart DEF HashSound
      <4>3. CASE bf[c].pgno = Nil
        <5>1. ~bf[c].cur /\ ~bf[c].dirty /\ bf[c].err = "ok" /\ io[c] = "none"
          BY <1>0, <4>3 DEF HashSound
        <5>2. QED
          BY <4>1, <4>3, <5>1
      <4>4. CASE bf[c].pgno # Nil
        BY <1>0, <4>1, <4>2, <4>4 DEF HashSound
      <4>5. QED
        BY <4>3, <4>4
    <3>3. QED
      BY <3>1, <3>2
  <2>3. QED
    BY <2>1, <2>2 DEF HashSound
<1>9. \A c \in Buffer : OnChain(c)' <=> OnChain(c) \/ c = b
  BY <1>2 DEF OnChain
<1>10. IOSound'
  BY <1>0, <1>2, <1>9 DEF IOSound
<1>11. \A c \in Buffer : /\ bf'[c].next # Nil \/ bf'[c].prev # Nil \/ bf'[c].dirty => c # b /\ bf'[c] = bf[c]
                         /\ OnChain(c) => c # b /\ bf'[c] = bf[c] /\ bf[c].pgno # p
  BY <1>2, <1>3, <1>7 DEF OnChain
<1>12. LinksSound'
  <2>1. ASSUME NEW c \in Buffer, bf'[c].next # Nil
        PROVE  /\ OnChain(c)' /\ bf'[c].next = bf[c].next /\ OnChain(bf[c].next)'
               /\ bf'[bf'[c].next].pgno = bf'[c].pgno
               /\ bf'[bf'[c].next].prev = c
    <3>1. bf'[c] = bf[c] /\ bf[c].next \in Buffer
      BY <1>11, <2>1, Fields
    <3>0. bf[c].next # Nil
      BY <2>1, <3>1
    <3>2. OnChain(c) /\ OnChain(bf[c].next) /\ bf[bf[c].next].pgno = bf[c].pgno /\ bf[bf[c].next].prev = c
      BY <1>0, <3>0 DEF LinksSound
    <3>3. QED
      BY <1>9, <1>11, <3>1, <3>2
  <2>2. ASSUME NEW c \in Buffer, bf'[c].prev # Nil
        PROVE  bf'[bf'[c].prev].next = c
    <3>1. bf'[c] = bf[c] /\ bf[c].prev \in Buffer /\ bf[c].prev # b
      BY <1>0, <1>3, <1>11, <2>2, Fields, NilApart DEF LinksSound
    <3>2. QED
      BY <1>0, <1>2, <2>2, <3>1 DEF LinksSound
  <2>3. ASSUME NEW c \in Buffer, OnChain(c)'
        PROVE  /\ bf'[c].pgno # Nil
               /\ bf'[c].prev = Nil <=> bf'[c].cur
               /\ hash'[bf'[c].pgno] # Nil /\ bf'[hash'[bf'[c].pgno]].cur
               /\ \E d \in Buffer : OnChain(d)' /\ bf'[d].pgno = bf'[c].pgno /\ bf'[d].next = Nil
    <3>1. CASE c = b
      BY <1>2, <1>4, <1>9, <3>1, NilApart
    <3>2. CASE c # b
      <4>1. OnChain(c) /\ bf'[c] = bf[c] /\ bf[c].pgno # p /\ bf[c].pgno \in Page
        BY <1>0, <1>9, <1>11, <2>3, <3>2, Fields DEF LinksSound
      <4>2. /\ hash'[bf[c].pgno] = hash[bf[c].pgno] /\ hash[bf[c].pgno] # Nil
            /\ hash[bf[c].pgno] \in Buffer \ {b}
        BY <1>0, <1>4, <1>6, <4>1, Tables DEF LinksSound
      <4>3. bf[hash[bf[c].pgno]].cur
        BY <1>0, <4>1, <4>2, NilApart DEF HashSound
      <4>4. bf'[hash[bf[c].pgno]] = bf[hash[bf[c].pgno]]
        BY <1>2, <4>2
      <4>5. PICK d \in Buffer : OnChain(d) /\ bf[d].pgno = bf[c].pgno /\ bf[d].next = Nil
        BY <1>0, <4>1 DEF LinksSound
      <4>6. bf'[d] = bf[d] /\ OnChain(d)'
        BY <1>9, <1>11, <4>5
      <4>7. bf[c].pgno # Nil /\ (bf[c].prev = Nil <=> bf[c].cur)
        BY <1>0, <4>1 DEF LinksSound
      <4>8. hash'[bf'[c].pgno] # Nil /\ bf'[hash'[bf'[c].pgno]].cur
        BY <4>1, <4>2, <4>3, <4>4
      <4>9. QED
        BY <4>1, <4>5, <4>6, <4>7, <4>8
    <3>3. QED
      BY <3>1, <3>2
  <2>4. QED
    BY <2>1, <2>2, <2>3 DEF LinksSound, OnChain
<1>13. ChainsOrdered'
  <2>1. PICK rank \in [Buffer -> Nat] : Ranked(rank)
    BY <1>0 DEF ChainsOrdered
  <2>2. \A c, d \in Buffer : Versions(c, d)' => Versions(c, d) /\ bf'[c] = bf[c] /\ bf'[d] = bf[d]
    <3>1. SUFFICES ASSUME NEW c \in Buffer, NEW d \in Buffer, Versions(c, d)'
                   PROVE  Versions(c, d) /\ bf'[c] = bf[c] /\ bf'[d] = bf[d]
      OBVIOUS
    <3>2. c # b /\ d # b
      BY <1>2, <1>9, <1>11, <3>1 DEF Versions
    <3>3. QED
      BY <1>9, <1>11, <3>1, <3>2 DEF Versions
  <2>3. ASSUME NEW c \in Buffer, NEW d \in Buffer, Versions(c, d)'
        PROVE  /\ rank[c] # rank[d]
               /\ rank[c] < rank[d] => bf'[c].pv <= bf'[d].pv /\ bf'[c].prev # Nil /\ bf'[d].next # Nil
               /\ bf'[c].next # Nil => /\ rank[bf'[c].next] < rank[c]
                                       /\ rank[d] <= rank[bf'[c].next] \/ rank[c] <= rank[d]
    BY <2>1, <2>2, <2>3 DEF Ranked
  <2>4. QED
    BY <2>3 DEF Ranked, ChainsOrdered
<1>14. DirtySound'
  <2>1. ASSUME NEW c \in Buffer, bf'[c].dirty
        PROVE  OnChain(c)' /\ bf'[hash'[bf'[c].pgno]].dirty
    <3>1. c # b /\ bf'[c] = bf[c] /\ bf[c].dirty /\ OnChain(c)
      BY <1>0, <1>11, <2>1 DEF DirtySound
    <3>2. bf[c].pgno \in Page /\ bf[c].pgno # p /\ hash[bf[c].pgno] \in Buffer \ {b} /\ bf[hash[bf[c].pgno]].dirty
      BY <1>0, <1>6, <1>11, <3>1, Fields, Tables DEF DirtySound, LinksSound
    <3>3. QED
      BY <1>2, <1>4, <1>9, <3>1, <3>2
  <2>2. ASSUME NEW c \in Buffer, ~bf'[c].dirty, bf'[c].prev # Nil
        PROVE  bf'[c].next = Nil /\ bf'[c].err \in {"pending", "ioerr"}
    BY <1>0, <1>11, <2>2 DEF DirtySound
  <2>3. QED
    BY <2>1, <2>2 DEF DirtySound, OnChain
<1>15. DataSound'
  <2>1. ASSUME NEW c \in Buffer PROVE DataOf(c)'
    <3>1. CASE c = b
      BY <1>2, <3>1 DEF DataOf, Filled
    <3>2. CASE c # b
      BY <1>0, <1>2, <1>4, <3>2 DEF DataSound, DataOf, Filled
    <3>3. QED
      BY <3>1, <3>2
  <2>2. ASSUME NEW q \in Page
        PROVE  IF hash'[q] # Nil /\ bf'[hash'[q]].dirty
               THEN bf'[hash'[q]].pv = latest[q]
               ELSE disk[q] = latest[q]
    <3>1. CASE q = p
      BY <1>0, <1>2, <1>4, <3>1, NilApart DEF NoLostUpdate
    <3>2. CASE q # p
      <4>1. hash'[q] = hash[q] /\ (hash[q] # Nil => hash[q] \in Buffer \ {b})
        BY <1>4, <1>6, <3>2, Tables
      <4>2. QED
        BY <1>0, <1>2, <4>1 DEF NoLostUpdate
    <3>3. QED
      BY <3>1, <3>2
  <2>3. QED
    BY <1>0, <1>4, <2>1, <2>2 DEF DataSound, NoLostUpdate
<1>16. QED
  BY <1>2, <1>5, <1>8, <1>10, <1>12, <1>13, <1>14, <1>15 DEF CacheInv

\* What ErrBFIVersionCopyPage does to the buffers.
LEMMA CopyFields ==
  ASSUME CacheType, NEW b \in Buffer, NEW n \in Buffer, n # b, bf' = VersionCopied(bf, n, b)
  PROVE  /\ bf' \in [Buffer -> BFs]
         /\ \A c \in Buffer \ {b, n} : bf'[c] = bf[c]
         /\ bf'[n].pgno = bf[b].pgno /\ bf'[n].cur = bf[b].cur /\ bf'[n].old = bf[b].old
         /\ bf'[n].dirty = bf[b].dirty /\ bf'[n].pv = bf[b].pv
         /\ bf'[n].err = IF bf[b].err = "pending" THEN "ok" ELSE bf[b].err
         /\ bf'[n].next = b /\ bf'[n].prev = Nil /\ bf'[n].signal = "none"
         /\ bf'[b].pgno = bf[b].pgno /\ bf'[b].cur = FALSE /\ bf'[b].old = TRUE
         /\ bf'[b].dirty = bf[b].dirty /\ bf'[b].pv = bf[b].pv /\ bf'[b].err = bf[b].err
         /\ bf'[b].next = bf[b].next /\ bf'[b].prev = n /\ bf'[b].signal = bf[b].signal
<1>1. bf[b] \in BFs
  BY DEF CacheType
<1> DEFINE e == IF bf[b].err = "pending" THEN "ok" ELSE bf[b].err
<1>2. /\ bf'[n] = [bf[b] EXCEPT !.err = e, !.next = b, !.prev = Nil, !.signal = "none"]
      /\ bf'[b] = [bf[b] EXCEPT !.prev = n, !.cur = FALSE, !.old = TRUE]
      /\ \A c \in Buffer \ {b, n} : bf'[c] = bf[c] /\ bf'[c] \in BFs
      /\ bf' = [c \in Buffer |-> bf'[c]]
  BY DEF CacheType, VersionCopied
<1>3. /\ bf'[n] \in BFs
      /\ bf'[n].pgno = bf[b].pgno /\ bf'[n].cur = bf[b].cur /\ bf'[n].old = bf[b].old
      /\ bf'[n].dirty = bf[b].dirty /\ bf'[n].pv = bf[b].pv
      /\ bf'[n].err = e
      /\ bf'[n].next = b /\ bf'[n].prev = Nil /\ bf'[n].signal = "none"
  <2>1. e \in Err
    BY Fields DEF Err
  <2>2. HIDE DEF e
  <2>3. QED
    BY <1>1, <1>2, <2>1 DEF BFs
<1>4. /\ bf'[b] \in BFs
      /\ bf'[b].pgno = bf[b].pgno /\ bf'[b].cur = FALSE /\ bf'[b].old = TRUE
      /\ bf'[b].dirty = bf[b].dirty /\ bf'[b].pv = bf[b].pv /\ bf'[b].err = bf[b].err
      /\ bf'[b].next = bf[b].next /\ bf'[b].prev = n /\ bf'[b].signal = bf[b].signal
  BY <1>1, <1>2 DEF BFs
<1>5. bf' \in [Buffer -> BFs]
  BY <1>2, <1>3, <1>4
<1>6. QED
  BY <1>2, <1>3, <1>4, <1>5

\* What ErrBFIVersionPage does to the buffers.
LEMMA VersionFields ==
  ASSUME CacheType, NEW b \in Buffer, NEW n \in Buffer, n # b, bf[b].next \notin {b, n},
         bf' = Versioned(bf, n, b)
  PROVE  /\ bf' \in [Buffer -> BFs]
         /\ \A c \in Buffer \ {b, n} :
              /\ bf'[c].pgno = bf[c].pgno /\ bf'[c].cur = bf[c].cur /\ bf'[c].old = bf[c].old
              /\ bf'[c].dirty = bf[c].dirty /\ bf'[c].pv = bf[c].pv /\ bf'[c].err = bf[c].err
              /\ bf'[c].next = bf[c].next /\ bf'[c].signal = bf[c].signal
              /\ bf'[c].prev = IF c = bf[b].next THEN n ELSE bf[c].prev
         /\ bf'[n].pgno = bf[b].pgno /\ bf'[n].cur = FALSE /\ bf'[n].old = TRUE
         /\ bf'[n].dirty = bf[b].dirty /\ bf'[n].pv = bf[b].pv /\ bf'[n].err = bf[b].err
         /\ bf'[n].next = bf[b].next /\ bf'[n].prev = b /\ bf'[n].signal = bf[b].signal
         /\ bf'[b].pgno = bf[b].pgno /\ bf'[b].cur = bf[b].cur /\ bf'[b].old = bf[b].old
         /\ bf'[b].dirty = TRUE /\ bf'[b].pv = bf[b].pv /\ bf'[b].err = bf[b].err
         /\ bf'[b].next = n /\ bf'[b].prev = bf[b].prev /\ bf'[b].signal = bf[b].signal
<1>1. bf[b] \in BFs
  BY DEF CacheType
<1>2. /\ bf'[n] = [bf[b] EXCEPT !.cur = FALSE, !.old = TRUE, !.prev = b]
      /\ bf'[b] = [bf[b] EXCEPT !.next = n, !.dirty = TRUE]
      /\ \A c \in Buffer \ {b, n} :
            bf'[c] = IF c = bf[b].next THEN [bf[c] EXCEPT !.prev = n] ELSE bf[c]
      /\ bf' = [c \in Buffer |-> bf'[c]]
  BY DEF Versioned
<1>3. /\ bf'[n] \in BFs
      /\ bf'[n].pgno = bf[b].pgno /\ bf'[n].cur = FALSE /\ bf'[n].old = TRUE
      /\ bf'[n].dirty = bf[b].dirty /\ bf'[n].pv = bf[b].pv /\ bf'[n].err = bf[b].err
      /\ bf'[n].next = bf[b].next /\ bf'[n].prev = b /\ bf'[n].signal = bf[b].signal
  BY <1>1, <1>2 DEF BFs
<1>4. /\ bf'[b] \in BFs
      /\ bf'[b].pgno = bf[b].pgno /\ bf'[b].cur = bf[b].cur /\ bf'[b].old = bf[b].old
      /\ bf'[b].dirty = TRUE /\ bf'[b].pv = bf[b].pv /\ bf'[b].err = bf[b].err
      /\ bf'[b].next = n /\ bf'[b].prev = bf[b].prev /\ bf'[b].signal = bf[b].signal
  BY <1>1, <1>2 DEF BFs
<1>5. ASSUME NEW c \in Buffer \ {b, n}
      PROVE  /\ bf'[c] \in BFs
             /\ bf'[c].pgno = bf[c].pgno /\ bf'[c].cur = bf[c].cur /\ bf'[c].old = bf[c].old
             /\ bf'[c].dirty = bf[c].dirty /\ bf'[c].pv = bf[c].pv /\ bf'[c].err = bf[c].err
             /\ bf'[c].next = bf[c].next /\ bf'[c].signal = bf[c].signal
             /\ bf'[c].prev = IF c = bf[b].next THEN n ELSE bf[c].prev
  <2>1. bf[c] \in BFs
    BY DEF CacheType
  <2>2. QED
    BY <1>2, <2>1 DEF BFs
<1>6. bf' \in [Buffer -> BFs]
  BY <1>2, <1>3, <1>4, <1>5
<1>7. QED
  BY <1>3, <1>4, <1>5, <1>6

\* The current version of a page is above all the others, and the next of a
\* version is below it.
LEMMA RankOfChain ==
  ASSUME CacheType, CacheInv, NEW rank \in [Buffer -> Nat], Ranked(rank)
  PROVE  /\ \A b, c \in Buffer : Versions(b, c) /\ bf[b].cur => rank[c] < rank[b]
         /\ \A b \in Buffer : bf[b].next # Nil =>
              bf[b].next \in Buffer /\ bf[b].next # b /\ rank[bf[b].next] < rank[b]
<1>1. ASSUME NEW b \in Buffer, NEW c \in Buffer, Versions(b, c), bf[b].cur
      PROVE  rank[c] < rank[b]
  <2>1. bf[b].prev = Nil
    BY <1>1 DEF CacheInv, LinksSound, Versions
  <2>2. rank[b] # rank[c] /\ ~ (rank[b] < rank[c])
    BY <1>1, <2>1 DEF Ranked
  <2>3. QED
    BY <2>2
<1>2. ASSUME NEW b \in Buffer, bf[b].next # Nil
      PROVE  bf[b].next \in Buffer /\ bf[b].next # b /\ rank[bf[b].next] < rank[b]
  <2>1. bf[b].next \in Buffer /\ OnChain(b)
    BY <1>2, Fields DEF CacheInv, LinksSound
  <2>2. PICK c \in Buffer : OnChain(c) /\ bf[c].pgno = bf[b].pgno /\ bf[c].next = Nil
    BY <2>1 DEF CacheInv, LinksSound
  <2>3. Versions(b, c)
    BY <1>2, <2>1, <2>2 DEF Versions
  <2>4. rank[bf[b].next] < rank[b]
    BY <1>2, <2>3 DEF Ranked
  <2>5. QED
    BY <2>1, <2>4
<1>3. QED
  BY <1>1, <1>2

\* The current version of a page is copied: the copy is current now.
LEMMA CopyCache ==
  ASSUME CacheType, CacheInv, NEW b \in Buffer, NEW n \in Buffer,
         bf[b].dirty \/ bf[b].err = "pending", bf[b].cur, Available(n),
         bf' = VersionCopied(bf, n, b), hash' = [hash EXCEPT ![bf[b].pgno] = n],
         UNCHANGED <<disk, io, latest>>
  PROVE  /\ CacheType' /\ CacheInv' /\ n # b
         /\ \A c \in Buffer \ {b, n} : bf'[c] = bf[c]
         /\ bf'[n].pgno = bf[b].pgno /\ bf'[n].cur = TRUE /\ bf'[n].dirty = bf[b].dirty
         /\ bf'[n].err \in {"ok", "ioerr"} /\ bf'[n].pv = bf[b].pv /\ bf[b].pv # 0
         /\ bf'[b].pgno = bf[b].pgno /\ bf'[b].dirty = bf[b].dirty /\ bf'[b].err = bf[b].err
         /\ bf'[b].pv = bf[b].pv /\ bf'[b].prev # Nil
<1>0. HashSound /\ IOSound /\ LinksSound /\ DirtySound /\ ChainsOrdered /\ DataSound /\ NoLostUpdate
  BY DEF CacheInv, DataSound
<1>1. /\ bf[n].pgno = Nil /\ ~bf[n].cur /\ ~bf[n].dirty /\ bf[n].next = Nil /\ bf[n].prev = Nil
      /\ bf[n].err = "ok"
  BY AvailableFields
<1>2. n # b /\ bf[b].pgno \in Page /\ hash[bf[b].pgno] = b /\ bf[b].prev = Nil /\ io[n] = "none"
      /\ bf[b].cur = TRUE /\ ~bf[b].old
  BY <1>0, <1>1, Fields DEF HashSound, LinksSound, OnChain
<1>3. /\ bf' \in [Buffer -> BFs]
      /\ \A c \in Buffer \ {b, n} : bf'[c] = bf[c]
      /\ bf'[n].pgno = bf[b].pgno /\ bf'[n].cur = bf[b].cur /\ bf'[n].old = bf[b].old
      /\ bf'[n].dirty = bf[b].dirty /\ bf'[n].pv = bf[b].pv
      /\ bf'[n].err = IF bf[b].err = "pending" THEN "ok" ELSE bf[b].err
      /\ bf'[n].next = b /\ bf'[n].prev = Nil /\ bf'[n].signal = "none"
      /\ bf'[b].pgno = bf[b].pgno /\ bf'[b].cur = FALSE /\ bf'[b].old = TRUE
      /\ bf'[b].dirty = bf[b].dirty /\ bf'[b].pv = bf[b].pv /\ bf'[b].err = bf[b].err
      /\ bf'[b].next = bf[b].next /\ bf'[b].prev = n /\ bf'[b].signal = bf[b].signal
  BY <1>2, CopyFields
<1>4. /\ disk' = disk /\ latest' = latest /\ io' = io
      /\ hash'[bf[b].pgno] = n /\ \A q \in Page : q # bf[b].pgno => hash'[q] = hash[q]
      /\ hash' \in [Page -> Buffer \cup {Nil}]
  BY <1>2 DEF CacheType
<1>5. CacheType'
  BY <1>3, <1>4 DEF CacheType
<1>6. \A q \in Page : q # bf[b].pgno => hash[q] # b /\ hash[q] # n
  BY <1>0, <1>1, NilApart DEF HashSound
<1>7. /\ bf[b].err \notin {"fault", "unverified"} /\ bf'[n].err \in {"ok", "ioerr"}
      /\ bf'[n].cur = TRUE /\ bf'[n].old = FALSE /\ bf'[n].dirty = bf[b].dirty /\ bf'[n].pgno = bf[b].pgno
      /\ bf'[n].pv = bf[b].pv /\ bf'[n].next = b /\ bf'[n].prev = Nil /\ bf'[n].signal = "none"
      /\ bf'[b].cur = FALSE /\ bf'[b].old = TRUE /\ bf'[b].dirty = bf[b].dirty /\ bf'[b].pgno = bf[b].pgno
      /\ bf'[b].pv = bf[b].pv /\ bf'[b].next = bf[b].next /\ bf'[b].prev = n
      /\ bf'[b].err = bf[b].err /\ bf'[b].signal = bf[b].signal
  <2>1. bf[b].err \notin {"fault", "unverified"}
    BY <1>0 DEF IOSound
  <2>2. bf'[n].err \in {"ok", "ioerr"}
    BY <1>3, <2>1, Fields DEF Err
  <2>3. bf[b].old = FALSE
    BY <1>2, Fields
  <2>4. QED
    BY <1>2, <1>3, <2>1, <2>2, <2>3
<1>8. HashSound'
  <2>1. ASSUME NEW q \in Page, hash'[q] # Nil PROVE bf'[hash'[q]].pgno = q
    <3>1. CASE q = bf[b].pgno
      BY <1>3, <1>4, <3>1
    <3>2. CASE q # bf[b].pgno
      BY <1>0, <1>3, <1>4, <1>6, <2>1, <3>2, Tables DEF HashSound
    <3>3. QED
      BY <3>1, <3>2
  <2>2. ASSUME NEW c \in Buffer
        PROVE  /\ bf'[c].pgno = Nil => ~bf'[c].cur /\ ~bf'[c].dirty /\ bf'[c].err = "ok" /\ io'[c] = "none"
               /\ bf'[c].pgno # Nil => /\ bf'[c].cur <=> hash'[bf'[c].pgno] = c
                                       /\ bf'[c].old <=> ~bf'[c].cur
    <3>1. CASE c = b
      BY <1>2, <1>4, <1>7, <3>1, NilApart
    <3>0. CASE c = n
      BY <1>2, <1>4, <1>7, <3>0, NilApart
    <3>2. CASE c # b /\ c # n
      <4>1. bf'[c] = bf[c] /\ io'[c] = io[c] /\ (bf[c].pgno # Nil => bf[c].pgno \in Page)
        BY <1>3, <1>4, <3>2, Fields
      <4>2. bf[c].pgno # Nil => (hash'[bf[c].pgno] = c <=> hash[bf[c].pgno] = c)
        BY <1>2, <1>4, <3>2, <4>1
      <4>3. CASE bf[c].pgno = Nil
        <5>1. ~bf[c].cur /\ ~bf[c].dirty /\ bf[c].err = "ok" /\ io[c] = "none"
          BY <1>0, <4>3 DEF HashSound
        <5>2. QED
          BY <4>1, <4>3, <5>1
      <4>4. CASE bf[c].pgno # Nil
        BY <1>0, <4>1, <4>2, <4>4 DEF HashSound
      <4>5. QED
        BY <4>3, <4>4
    <3>3. QED
      BY <3>0, <3>1, <3>2
  <2>3. QED
    BY <2>1, <2>2 DEF HashSound
<1>9. \A c \in Buffer : OnChain(c)' <=> OnChain(c) \/ c = n
  <2>1. OnChain(n)' /\ OnChain(b) /\ OnChain(b)'
    BY <1>2, <1>7, NilApart DEF OnChain
  <2>2. \A c \in Buffer \ {b, n} : OnChain(c)' <=> OnChain(c)
    BY <1>3 DEF OnChain
  <2>3. QED
    BY <2>1, <2>2
<1>10. IOSound' /\ LinksSound'
  <2>0. IOSound'
    <3>0. ASSUME NEW c \in Buffer
          PROVE  /\ io'[c] = "write" <=> bf'[c].err = "pending" /\ bf'[c].signal = "none"
                 /\ bf'[c].signal # "none" => bf'[c].err = "pending"
                 /\ bf'[c].err = "pending" => OnChain(c)' /\ bf'[c].next = Nil
                 /\ io'[c] = "read" => bf'[c].err = "fault"
                 /\ bf'[c].err \in {"fault", "unverified"} => bf'[c].cur /\ ~bf'[c].dirty /\ bf'[c].next = Nil
      <4>1. CASE c = n
        BY <1>2, <1>4, <1>7, <4>1
      <4>2. CASE c = b
        BY <1>0, <1>4, <1>7, <1>9, <4>2 DEF IOSound
      <4>3. CASE c # b /\ c # n
        BY <1>0, <1>3, <1>4, <1>9, <4>3 DEF IOSound
      <4>4. QED
        BY <4>1, <4>2, <4>3
    <3>1. QED
      BY <3>0 DEF IOSound, OnChain
  <2>1. ASSUME NEW c \in Buffer, bf'[c].next # Nil
        PROVE  /\ OnChain(c)' /\ bf'[c].next \in Buffer /\ (bf'[bf'[c].next].cur \/ bf'[bf'[c].next].prev # Nil)
               /\ bf'[bf'[c].next].pgno = bf'[c].pgno
               /\ bf'[bf'[c].next].prev = c
    <3>1. CASE c = n
      BY <1>2, <1>7, <1>9, <3>1, NilApart
    <3>2. CASE c # n
      <4>1. bf'[c].next = bf[c].next /\ bf'[c].pgno = bf[c].pgno
        BY <1>3, <3>2
      <4>2. bf[c].next \in Buffer /\ bf[c].next # n /\ bf[c].next # b
        BY <1>0, <1>1, <1>2, <2>1, <4>1, Fields, NilApart DEF LinksSound
      <4>3. OnChain(c) /\ bf[bf[c].next].pgno = bf[c].pgno /\ bf[bf[c].next].prev = c
        BY <1>0, <2>1, <4>1 DEF LinksSound
      <4>4. QED
        BY <1>3, <1>9, <4>1, <4>2, <4>3, NilApart
    <3>3. QED
      BY <3>1, <3>2
  <2>2. ASSUME NEW c \in Buffer, bf'[c].prev # Nil
        PROVE  bf'[bf'[c].prev].next = c
    <3>1. CASE c = b
      BY <1>2, <1>3, <3>1
    <3>2. CASE c # b
      <4>1. c # n /\ bf'[c] = bf[c] /\ bf[c].prev \in Buffer
        BY <1>3, <2>2, <3>2, Fields
      <4>2. bf[bf[c].prev].next = c
        BY <1>0, <2>2, <4>1 DEF LinksSound
      <4>3. bf[c].prev # n
        BY <1>1, <4>2, NilApart
      <4>4. QED
        BY <1>3, <4>1, <4>2, <4>3
    <3>3. QED
      BY <3>1, <3>2
  <2>3. ASSUME NEW c \in Buffer, OnChain(c)'
        PROVE  /\ bf'[c].pgno # Nil
               /\ bf'[c].prev = Nil <=> bf'[c].cur
               /\ hash'[bf'[c].pgno] # Nil /\ bf'[hash'[bf'[c].pgno]].cur
               /\ \E d \in Buffer : OnChain(d)' /\ bf'[d].pgno = bf'[c].pgno /\ bf'[d].next = Nil
    <3>1. bf'[c].pgno # Nil /\ bf'[c].pgno \in Page /\ (bf'[c].prev = Nil <=> bf'[c].cur)
      <4>1. CASE c = b \/ c = n
        BY <1>2, <1>7, <4>1, NilApart
      <4>2. CASE c # b /\ c # n
        BY <1>0, <1>3, <1>9, <2>3, <4>2, Fields DEF LinksSound
      <4>3. QED
        BY <4>1, <4>2
    <3>2. PICK d \in Buffer : OnChain(d) /\ bf[d].pgno = bf'[c].pgno /\ bf[d].next = Nil
      <4>1. PICK e \in Buffer : OnChain(e) /\ bf[e].pgno = bf'[c].pgno
        BY <1>2, <1>3, <1>9, <2>3 DEF OnChain
      <4>2. QED
        BY <1>0, <4>1 DEF LinksSound
    <3>3. OnChain(d)' /\ bf'[d].pgno = bf'[c].pgno /\ bf'[d].next = Nil
      <4>1. d # n
        BY <1>1, <3>2 DEF OnChain
      <4>2. CASE d = b
        BY <1>7, <1>9, <3>2, <4>2
      <4>3. CASE d # b
        BY <1>3, <1>9, <3>2, <4>1, <4>3
      <4>4. QED
        BY <4>2, <4>3
    <3>4. hash'[bf'[c].pgno] # Nil /\ bf'[hash'[bf'[c].pgno]].cur
      <4>1. CASE bf'[c].pgno = bf[b].pgno
        BY <1>2, <1>7, <1>4, <4>1, NilApart
      <4>2. CASE bf'[c].pgno # bf[b].pgno
        <5>1. c # b /\ c # n /\ bf'[c] = bf[c] /\ hash'[bf[c].pgno] = hash[bf[c].pgno] /\ OnChain(c)
          BY <1>3, <1>4, <1>9, <2>3, <3>1, <4>2
        <5>2. hash[bf[c].pgno] # Nil
          BY <1>0, <5>1 DEF LinksSound
        <5>3. hash[bf[c].pgno] \in Buffer \ {b, n}
          BY <1>6, <3>1, <4>2, <5>1, <5>2, Tables
        <5>4. bf[hash[bf[c].pgno]].cur
          BY <1>0, <3>1, <5>1, <5>2, <5>3, NilApart DEF HashSound
        <5>5. QED
          BY <1>3, <5>1, <5>2, <5>3, <5>4
      <4>3. QED
        BY <4>1, <4>2
    <3>5. QED
      BY <3>1, <3>3, <3>4
  <2>4. QED
    BY <2>0, <2>1, <2>2, <2>3 DEF LinksSound, OnChain
<1>11. ChainsOrdered'
  <2>1. PICK old \in [Buffer -> Nat] : Ranked(old)
    BY <1>0 DEF ChainsOrdered
  <2>2. /\ \A c \in Buffer : Versions(b, c) => old[c] < old[b]
        /\ \A c \in Buffer : bf[c].next # Nil =>
              bf[c].next \in Buffer /\ bf[c].next # c /\ old[bf[c].next] < old[c]
    BY <2>1, RankOfChain
  <2> DEFINE rank == [old EXCEPT ![n] = old[b] + 1]
  <2>3. /\ rank \in [Buffer -> Nat] /\ rank[n] = old[b] + 1
        /\ \A c \in Buffer \ {n} : rank[c] = old[c]
    BY <2>1
  <2> HIDE DEF rank
  <2>4. /\ \A c, d \in Buffer \ {n} : Versions(c, d)' => Versions(c, d) /\ Versions(d, c)
        /\ \A c \in Buffer \ {n} : Versions(c, n)' \/ Versions(n, c)' => c = b \/ Versions(b, c)
    <3>1. \A c \in Buffer : c # n => (OnChain(c)' <=> OnChain(c)) /\ bf'[c].pgno = bf[c].pgno
      BY <1>3, <1>9
    <3>2. bf'[n].pgno = bf[b].pgno /\ OnChain(b)
      BY <1>2, <1>7 DEF OnChain
    <3>3. QED
      BY <3>1, <3>2 DEF Versions
  <2>5. ASSUME NEW c \in Buffer, NEW d \in Buffer, Versions(c, d)'
        PROVE  /\ rank[c] # rank[d]
               /\ rank[c] < rank[d] => bf'[c].pv <= bf'[d].pv /\ bf'[c].prev # Nil /\ bf'[d].next # Nil
               /\ bf'[c].next # Nil => /\ rank[bf'[c].next] < rank[c]
                                       /\ rank[d] <= rank[bf'[c].next] \/ rank[c] <= rank[d]
    <3>0. c # d /\ old[c] \in Nat /\ old[d] \in Nat /\ old[b] \in Nat
      BY <2>1, <2>5 DEF Versions
    <3>1. CASE c = n
      <4>1. rank[d] <= old[b] /\ d # n
        BY <2>2, <2>3, <2>4, <2>5, <3>0, <3>1
      <4>2. bf'[c].next = b /\ rank[b] = old[b] /\ rank[c] = old[b] + 1
        BY <1>2, <1>3, <2>3, <3>1
      <4>3. rank[d] \in Nat
        BY <2>3
      <4>4. QED
        BY <3>0, <4>1, <4>2, <4>3
    <3>2. CASE d = n
      <4>1. c # n /\ rank[c] = old[c] /\ old[c] <= old[b] /\ (c = b \/ Versions(b, c))
        BY <2>2, <2>3, <2>4, <2>5, <3>0, <3>2
      <4>2. bf'[c].pv <= bf'[n].pv /\ bf'[c].prev # Nil /\ bf'[n].next # Nil
        <5>1. CASE c = b
          BY <1>3, <5>1, Fields, NilApart
        <5>2. CASE c # b
          <6>1. Versions(c, b) /\ old[c] < old[b]
            BY <2>2, <4>1, <5>2 DEF Versions
          <6>2. bf[c].pv <= bf[b].pv /\ bf[c].prev # Nil
            BY <2>1, <6>1 DEF Ranked
          <6>3. QED
            BY <1>3, <4>1, <5>2, <6>2, NilApart
        <5>3. QED
          BY <5>1, <5>2
      <4>3. bf'[c].next = bf[c].next
        BY <1>3, <4>1
      <4>4. bf[c].next # Nil => rank[bf[c].next] < rank[c]
        <5>1. bf[c].next # n
          BY <1>0, <1>1, NilApart DEF LinksSound
        <5>2. QED
          BY <2>2, <2>3, <4>1, <5>1
      <4>5. rank[c] < rank[n]
        BY <2>3, <3>0, <4>1
      <4>6. rank[c] \in Nat /\ rank[n] \in Nat
        BY <2>3
      <4>7. QED
        BY <3>2, <4>2, <4>3, <4>4, <4>5, <4>6
    <3>3. CASE c # n /\ d # n
      <4>1. Versions(c, d) /\ rank[c] = old[c] /\ rank[d] = old[d]
        BY <2>3, <2>4, <2>5, <3>3
      <4>2. /\ bf'[c].pv = bf[c].pv /\ bf'[d].pv = bf[d].pv
            /\ bf'[c].next = bf[c].next /\ bf'[d].next = bf[d].next
            /\ bf[c].prev # Nil => bf'[c].prev # Nil
        BY <1>3, <3>3, NilApart
      <4>3. bf[c].next # Nil => bf[c].next \in Buffer \ {n}
        BY <1>0, <1>1, Fields DEF LinksSound
      <4>4. QED
        BY <2>1, <2>3, <4>1, <4>2, <4>3 DEF Ranked
    <3>4. QED
      BY <3>1, <3>2, <3>3
  <2>6. Ranked(rank)'
    BY <2>5 DEF Ranked
  <2>7. QED
    BY <2>3, <2>6 DEF ChainsOrdered
<1>12. DirtySound'
  <2>1. ASSUME NEW c \in Buffer, bf'[c].dirty
        PROVE  OnChain(c)' /\ bf'[hash'[bf'[c].pgno]].dirty
    <3>1. PICK d \in Buffer : /\ bf[d].dirty /\ bf[d].pgno = bf'[c].pgno /\ d # n
                              /\ c = d \/ (c = n /\ d = b)
      BY <1>1, <1>2, <1>3, <1>7, <2>1
    <3>2. OnChain(d) /\ bf[d].pgno \in Page /\ hash[bf[d].pgno] \in Buffer /\ bf[hash[bf[d].pgno]].dirty
      BY <1>0, <3>1, Fields, Tables DEF DirtySound, LinksSound
    <3>3. CASE bf[d].pgno = bf[b].pgno
      BY <1>2, <1>4, <1>7, <1>9, <3>1, <3>2, <3>3
    <3>4. CASE bf[d].pgno # bf[b].pgno
      BY <1>3, <1>4, <1>6, <1>9, <3>1, <3>2, <3>4
    <3>5. QED
      BY <3>3, <3>4
  <2>2. ASSUME NEW c \in Buffer, ~bf'[c].dirty, bf'[c].prev # Nil
        PROVE  bf'[c].next = Nil /\ bf'[c].err \in {"pending", "ioerr"}
    <3>1. CASE c = b
      BY <1>0, <1>7, <2>2, <3>1 DEF IOSound
    <3>2. CASE c # b
      BY <1>0, <1>3, <1>7, <2>2, <3>2 DEF DirtySound
    <3>3. QED
      BY <3>1, <3>2
  <2>3. QED
    BY <2>1, <2>2 DEF DirtySound, OnChain
<1>13. bf[b].pv # 0
  <2>1. DataOf(b)
    BY <1>0 DEF DataSound
  <2>2. QED
    BY <1>2, <2>1, NilApart DEF DataOf, Filled
<1>14. DataSound'
  <2>1. ASSUME NEW c \in Buffer PROVE DataOf(c)'
    <3>0. DataOf(b) /\ DataOf(c)
      BY <1>0 DEF DataSound
    <3>1. CASE c = b
      BY <1>2, <1>4, <1>7, <1>13, <3>0, <3>1 DEF DataOf, Filled
    <3>2. CASE c = n
      BY <1>2, <1>4, <1>7, <1>13, <3>0, <3>2 DEF DataOf, Filled
    <3>3. CASE c # n /\ c # b
      BY <1>3, <1>4, <3>0, <3>3 DEF DataOf, Filled
    <3>4. QED
      BY <3>1, <3>2, <3>3
  <2>2. ASSUME NEW q \in Page
        PROVE  IF hash'[q] # Nil /\ bf'[hash'[q]].dirty
               THEN bf'[hash'[q]].pv = latest[q]
               ELSE disk[q] = latest[q]
    <3>1. CASE q = bf[b].pgno
      <4>1. IF bf[b].dirty THEN bf[b].pv = latest[q] ELSE disk[q] = latest[q]
        BY <1>0, <1>2, <3>1, NilApart DEF NoLostUpdate
      <4>2. QED
        BY <1>4, <1>7, <3>1, <4>1, NilApart
    <3>2. CASE q # bf[b].pgno
      <4>1. hash'[q] = hash[q] /\ (hash[q] # Nil => hash[q] \in Buffer \ {b, n})
        BY <1>4, <1>6, <3>2, Tables
      <4>2. QED
        BY <1>0, <1>3, <4>1 DEF NoLostUpdate
    <3>3. QED
      BY <3>1, <3>2
  <2>3. QED
    BY <1>0, <1>4, <2>1, <2>2 DEF DataSound, NoLostUpdate
<1>15. QED
  BY <1>2, <1>3, <1>5, <1>7, <1>8, <1>10, <1>11, <1>12, <1>13, <1>14, NilApart DEF CacheInv

\* The current version of a page is put behind a copy of it, and stays current.
LEMMA VersionCache ==
  ASSUME CacheType, CacheInv, NEW b \in Buffer, NEW n \in Buffer,
         bf[b].dirty, bf[b].cur, bf[b].err # "pending", Available(n),
         bf' = Versioned(bf, n, b), UNCHANGED <<disk, hash, io, latest>>
  PROVE  /\ CacheType' /\ CacheInv' /\ n # b
         /\ \A c \in Buffer \ {n} : /\ bf'[c].pgno = bf[c].pgno /\ bf'[c].cur = bf[c].cur
                                    /\ bf'[c].dirty = bf[c].dirty /\ bf'[c].err = bf[c].err
                                    /\ bf'[c].pv = bf[c].pv
                                    /\ bf[c].prev # Nil => bf'[c].prev # Nil
         /\ bf'[n].pgno # Nil /\ bf'[n].err # "fault"
<1>0. HashSound /\ IOSound /\ LinksSound /\ DirtySound /\ ChainsOrdered /\ DataSound /\ NoLostUpdate
  BY DEF CacheInv, DataSound
<1>1. /\ bf[n].pgno = Nil /\ ~bf[n].cur /\ ~bf[n].dirty /\ bf[n].next = Nil /\ bf[n].prev = Nil
      /\ bf[n].err = "ok"
  BY AvailableFields
<1>2. /\ n # b /\ bf[b].pgno \in Page /\ hash[bf[b].pgno] = b /\ bf[b].prev = Nil /\ io[n] = "none"
      /\ bf[b].dirty = TRUE /\ bf[b].cur = TRUE
      /\ bf[b].signal = "none" /\ bf[b].err \notin {"fault", "unverified", "pending"}
  BY <1>0, <1>1, Fields DEF HashSound, LinksSound, IOSound, OnChain
<1>3. bf[b].next \notin {b, n}
  BY <1>0, <1>1, <1>2, NilApart DEF LinksSound
<1>4. /\ bf' \in [Buffer -> BFs]
      /\ \A c \in Buffer \ {b, n} :
           /\ bf'[c].pgno = bf[c].pgno /\ bf'[c].cur = bf[c].cur /\ bf'[c].old = bf[c].old
           /\ bf'[c].dirty = bf[c].dirty /\ bf'[c].pv = bf[c].pv /\ bf'[c].err = bf[c].err
           /\ bf'[c].next = bf[c].next /\ bf'[c].signal = bf[c].signal
           /\ bf'[c].prev = IF c = bf[b].next THEN n ELSE bf[c].prev
      /\ bf'[n].pgno = bf[b].pgno /\ bf'[n].cur = FALSE /\ bf'[n].old = TRUE
      /\ bf'[n].dirty = TRUE /\ bf'[n].pv = bf[b].pv /\ bf'[n].err = bf[b].err
      /\ bf'[n].next = bf[b].next /\ bf'[n].prev = b /\ bf'[n].signal = "none"
      /\ bf'[b].pgno = bf[b].pgno /\ bf'[b].cur = TRUE /\ bf'[b].old = bf[b].old
      /\ bf'[b].dirty = TRUE /\ bf'[b].pv = bf[b].pv /\ bf'[b].err = bf[b].err
      /\ bf'[b].next = n /\ bf'[b].prev = Nil /\ bf'[b].signal = "none"
  <2>1. /\ bf' \in [Buffer -> BFs]
        /\ \A c \in Buffer \ {b, n} :
             /\ bf'[c].pgno = bf[c].pgno /\ bf'[c].cur = bf[c].cur /\ bf'[c].old = bf[c].old
             /\ bf'[c].dirty = bf[c].dirty /\ bf'[c].pv = bf[c].pv /\ bf'[c].err = bf[c].err
             /\ bf'[c].next = bf[c].next /\ bf'[c].signal = bf[c].signal
             /\ bf'[c].prev = IF c = bf[b].next THEN n ELSE bf[c].prev
        /\ bf'[n].pgno = bf[b].pgno /\ bf'[n].cur = FALSE /\ bf'[n].old = TRUE
        /\ bf'[n].dirty = bf[b].dirty /\ bf'[n].pv = bf[b].pv /\ bf'[n].err = bf[b].err
        /\ bf'[n].next = bf[b].next /\ bf'[n].prev = b /\ bf'[n].signal = bf[b].signal
        /\ bf'[b].pgno = bf[b].pgno /\ bf'[b].cur = bf[b].cur /\ bf'[b].old = bf[b].old
        /\ bf'[b].dirty = TRUE /\ bf'[b].pv = bf[b].pv /\ bf'[b].err = bf[b].err
        /\ bf'[b].next = n /\ bf'[b].prev = bf[b].prev /\ bf'[b].signal = bf[b].signal
    <3>1. n # b
      BY <1>2
    <3>2. QED
      BY <1>3, <3>1, VersionFields
  <2>2. QED
    BY <1>2, <2>1
<1>5. hash' = hash /\ disk' = disk /\ latest' = latest /\ io' = io
  OBVIOUS
<1>6. CacheType'
  BY <1>4, <1>5 DEF CacheType
<1>7. \A q \in Page : hash[q] # n
  BY <1>0, <1>1, NilApart DEF HashSound
<1>8. HashSound'
  <2>1. ASSUME NEW q \in Page, hash'[q] # Nil PROVE bf'[hash'[q]].pgno = q
    <3>1. hash'[q] = hash[q] /\ hash[q] \in Buffer \ {n} /\ bf[hash[q]].pgno = q
      BY <1>0, <1>5, <1>7, <2>1, Tables DEF HashSound
    <3>2. QED
      BY <1>4, <3>1
  <2>2. ASSUME NEW c \in Buffer
        PROVE  /\ bf'[c].pgno = Nil => ~bf'[c].cur /\ ~bf'[c].dirty /\ bf'[c].err = "ok" /\ io'[c] = "none"
               /\ bf'[c].pgno # Nil => /\ bf'[c].cur <=> hash'[bf'[c].pgno] = c
                                       /\ bf'[c].old <=> ~bf'[c].cur
    <3>1. CASE c = n
      BY <1>2, <1>4, <1>5, <3>1, NilApart
    <3>2. CASE c # n
      <4>1. /\ bf'[c].pgno = bf[c].pgno /\ bf'[c].cur = bf[c].cur /\ bf'[c].old = bf[c].old
            /\ bf'[c].dirty = bf[c].dirty /\ bf'[c].err = bf[c].err
        <5>1. CASE c = b
          BY <1>2, <1>4, <5>1
        <5>2. CASE c # b
          BY <1>4, <3>2, <5>2
        <5>3. QED
          BY <5>1, <5>2
      <4>2. QED
        BY <1>0, <1>5, <4>1 DEF HashSound
    <3>3. QED
      BY <3>1, <3>2
  <2>3. QED
    BY <2>1, <2>2 DEF HashSound
<1>9. \A c \in Buffer : OnChain(c)' <=> OnChain(c) \/ c = n
  <2>1. OnChain(n)' /\ OnChain(b) /\ OnChain(b)'
    BY <1>2, <1>4, NilApart DEF OnChain
  <2>2. ASSUME NEW c \in Buffer \ {b, n} PROVE OnChain(c)' <=> OnChain(c)
    <3>1. c = bf[b].next => OnChain(c)
      BY <1>0, NilApart DEF LinksSound
    <3>2. c = bf[b].next => bf'[c].prev # Nil
      BY <1>4, NilApart
    <3>3. c # bf[b].next => bf'[c].prev = bf[c].prev
      BY <1>4
    <3>4. QED
      BY <1>4, <3>1, <3>2, <3>3 DEF OnChain
  <2>3. QED
    BY <2>1, <2>2
<1>10. IOSound' /\ LinksSound'
  <2>0. IOSound'
    <3>0. ASSUME NEW c \in Buffer
          PROVE  /\ io'[c] = "write" <=> bf'[c].err = "pending" /\ bf'[c].signal = "none"
                 /\ bf'[c].signal # "none" => bf'[c].err = "pending"
                 /\ bf'[c].err = "pending" => OnChain(c)' /\ bf'[c].next = Nil
                 /\ io'[c] = "read" => bf'[c].err = "fault"
                 /\ bf'[c].err \in {"fault", "unverified"} => bf'[c].cur /\ ~bf'[c].dirty /\ bf'[c].next = Nil
      <4>1. CASE c = n
        BY <1>2, <1>4, <1>5, <4>1
      <4>2. CASE c = b
        BY <1>0, <1>2, <1>4, <1>5, <4>2 DEF IOSound
      <4>3. CASE c # b /\ c # n
        BY <1>0, <1>4, <1>5, <1>9, <4>3 DEF IOSound
      <4>4. QED
        BY <4>1, <4>2, <4>3
    <3>1. QED
      BY <3>0 DEF IOSound, OnChain
  <2>1. ASSUME NEW c \in Buffer, bf'[c].next # Nil
        PROVE  /\ OnChain(c)' /\ (bf'[bf'[c].next].cur \/ bf'[bf'[c].next].prev # Nil)
               /\ bf'[bf'[c].next].pgno = bf'[c].pgno
               /\ bf'[bf'[c].next].prev = c
    <3>1. CASE c = b
      BY <1>2, <1>4, <1>9, <3>1, NilApart DEF OnChain
    <3>2. CASE c = n
      <4>1. bf[b].next # Nil /\ bf[b].next \in Buffer \ {b, n}
        BY <1>3, <1>4, <2>1, <3>2, Fields
      <4>2. bf[bf[b].next].pgno = bf[b].pgno
        BY <1>0, <4>1 DEF LinksSound
      <4>3. QED
        BY <1>4, <1>9, <3>2, <4>1, <4>2, NilApart
    <3>3. CASE c # b /\ c # n
      <4>1. bf'[c].next = bf[c].next /\ bf'[c].pgno = bf[c].pgno
        BY <1>4, <3>3
      <4>2. /\ bf[c].next \in Buffer /\ OnChain(c)
            /\ bf[bf[c].next].pgno = bf[c].pgno /\ bf[bf[c].next].prev = c
        BY <1>0, <2>1, <4>1, Fields DEF LinksSound
      <4>3. bf[c].next # b /\ bf[c].next # n
        BY <1>1, <1>2, <4>2, NilApart
      <4>4. bf[c].next # bf[b].next
        BY <1>0, <2>1, <3>3, <4>1, <4>2, NilApart DEF LinksSound
      <4>5. QED
        BY <1>4, <1>9, <4>1, <4>2, <4>3, <4>4, NilApart
    <3>4. QED
      BY <3>1, <3>2, <3>3
  <2>2. ASSUME NEW c \in Buffer, bf'[c].prev # Nil
        PROVE  bf'[bf'[c].prev].next = c
    <3>1. CASE c = n
      BY <1>4, <3>1
    <3>2. CASE c = bf[b].next
      <4>1. c # b /\ c # n
        BY <1>3, <3>2
      <4>2. QED
        BY <1>4, <3>2, <4>1
    <3>3. CASE c # n /\ c # bf[b].next
      <4>1. c # b /\ bf'[c].prev = bf[c].prev /\ bf[c].prev \in Buffer
        BY <1>4, <2>2, <3>3, Fields
      <4>2. bf[bf[c].prev].next = c
        BY <1>0, <2>2, <4>1 DEF LinksSound
      <4>3. bf[c].prev # n /\ bf[c].prev # b
        BY <1>1, <3>3, <4>2, NilApart
      <4>4. QED
        BY <1>4, <4>1, <4>2, <4>3
    <3>4. QED
      BY <3>1, <3>2, <3>3
  <2>3. ASSUME NEW c \in Buffer, OnChain(c)'
        PROVE  /\ bf'[c].pgno # Nil
               /\ bf'[c].prev = Nil <=> bf'[c].cur
               /\ hash'[bf'[c].pgno] # Nil /\ bf'[hash'[bf'[c].pgno]].cur
               /\ \E d \in Buffer : OnChain(d)' /\ bf'[d].pgno = bf'[c].pgno /\ bf'[d].next = Nil
    <3>1. bf'[c].pgno # Nil /\ bf'[c].pgno \in Page /\ (bf'[c].prev = Nil <=> bf'[c].cur)
      <4>1. CASE c = b \/ c = n
        BY <1>2, <1>4, <4>1, NilApart
      <4>2. CASE c # b /\ c # n
        <5>1. OnChain(c) /\ bf[c].pgno # Nil /\ (bf[c].prev = Nil <=> bf[c].cur)
          BY <1>0, <1>9, <2>3, <4>2 DEF LinksSound
        <5>2. c = bf[b].next => bf[c].prev # Nil
          BY <1>0, NilApart DEF LinksSound
        <5>3. QED
          BY <1>4, <4>2, <5>1, <5>2, Fields, NilApart
      <4>3. QED
        BY <4>1, <4>2
    <3>2. PICK d \in Buffer : OnChain(d)' /\ bf'[d].pgno = bf'[c].pgno /\ bf'[d].next = Nil
      <4>1. CASE bf'[c].pgno = bf[b].pgno
        <5>1. CASE bf[b].next = Nil
          BY <1>4, <1>9, <4>1, <5>1
        <5>2. CASE bf[b].next # Nil
          <6>0. OnChain(b)
            BY <1>2 DEF OnChain
          <6>1. PICK e \in Buffer : OnChain(e) /\ bf[e].pgno = bf[b].pgno /\ bf[e].next = Nil
            BY <1>0, <6>0 DEF LinksSound
          <6>2. e # b /\ e # n
            BY <1>1, <5>2, <6>1 DEF OnChain
          <6>3. QED
            BY <1>4, <1>9, <4>1, <6>1, <6>2
        <5>3. QED
          BY <5>1, <5>2
      <4>2. CASE bf'[c].pgno # bf[b].pgno
        <5>1. c # b /\ c # n /\ OnChain(c) /\ bf[c].pgno = bf'[c].pgno
          BY <1>4, <1>9, <2>3, <4>2
        <5>2. PICK e \in Buffer : OnChain(e) /\ bf[e].pgno = bf[c].pgno /\ bf[e].next = Nil
          BY <1>0, <5>1 DEF LinksSound
        <5>3. e # b /\ e # n
          BY <1>1, <4>2, <5>1, <5>2 DEF OnChain
        <5>4. QED
          BY <1>4, <1>9, <5>1, <5>2, <5>3
      <4>3. QED
        BY <4>1, <4>2
    <3>3. hash'[bf'[c].pgno] # Nil /\ bf'[hash'[bf'[c].pgno]].cur
      <4>1. CASE bf'[c].pgno = bf[b].pgno
        BY <1>2, <1>4, <1>5, <4>1, NilApart
      <4>2. CASE bf'[c].pgno # bf[b].pgno
        <5>1. c # b /\ c # n /\ OnChain(c) /\ bf[c].pgno = bf'[c].pgno
          BY <1>4, <1>9, <2>3, <4>2
        <5>2. hash[bf[c].pgno] # Nil
          BY <1>0, <5>1 DEF LinksSound
        <5>3. hash[bf[c].pgno] \in Buffer \ {n} /\ bf[hash[bf[c].pgno]].cur
          BY <1>0, <1>7, <3>1, <5>1, <5>2, Tables, NilApart DEF HashSound
        <5>4. bf'[hash[bf[c].pgno]].cur
          BY <1>4, <5>3
        <5>5. QED
          BY <1>5, <5>1, <5>2, <5>4
      <4>3. QED
        BY <4>1, <4>2
    <3>4. QED
      BY <3>1, <3>2, <3>3
  <2>4. QED
    BY <2>0, <2>1, <2>2, <2>3 DEF LinksSound, OnChain
<1>11. ChainsOrdered'
  <2>1. PICK old \in [Buffer -> Nat] : Ranked(old)
    BY <1>0 DEF ChainsOrdered
  <2>2. /\ \A c \in Buffer : Versions(b, c) => old[c] < old[b]
        /\ \A c \in Buffer : bf[c].next # Nil =>
              bf[c].next \in Buffer /\ bf[c].next # c /\ old[bf[c].next] < old[c]
    BY <2>1, RankOfChain
  <2> DEFINE rank == [old EXCEPT ![n] = old[b], ![b] = old[b] + 1]
  <2>3. /\ rank \in [Buffer -> Nat] /\ rank[n] = old[b] /\ rank[b] = old[b] + 1
        /\ \A c \in Buffer \ {b, n} : rank[c] = old[c]
    BY <1>2, <2>1
  <2> HIDE DEF rank
  <2>4. /\ \A c, d \in Buffer \ {n} : Versions(c, d)' => Versions(c, d) /\ Versions(d, c)
        /\ \A c \in Buffer \ {n} : Versions(c, n)' \/ Versions(n, c)' => c = b \/ Versions(b, c)
    <3>1. \A c \in Buffer : c # n => (OnChain(c)' <=> OnChain(c)) /\ bf'[c].pgno = bf[c].pgno
      BY <1>4, <1>9
    <3>2. bf'[n].pgno = bf[b].pgno /\ OnChain(b)
      BY <1>2, <1>4 DEF OnChain
    <3>3. QED
      BY <3>1, <3>2 DEF Versions
  <2>5. ASSUME NEW c \in Buffer, NEW d \in Buffer, Versions(c, d)'
        PROVE  /\ rank[c] # rank[d]
               /\ rank[c] < rank[d] => bf'[c].pv <= bf'[d].pv /\ bf'[c].prev # Nil /\ bf'[d].next # Nil
    <3>0. c # d /\ old[c] \in Nat /\ old[d] \in Nat /\ old[b] \in Nat /\ bf[b].pv \in Nat
      BY <2>1, <2>5, Fields DEF Versions
    <3>1. CASE c = b
      <4>1. rank[d] <= old[b]
        BY <2>2, <2>3, <2>4, <2>5, <3>0, <3>1
      <4>2. QED
        BY <2>3, <3>0, <3>1, <4>1
    <3>2. CASE c = n /\ d = b
      BY <1>4, <2>3, <3>0, <3>2, NilApart
    <3>3. CASE c = n /\ d # b
      <4>1. Versions(b, d) /\ old[d] < old[b] /\ rank[d] = old[d]
        BY <2>2, <2>3, <2>4, <2>5, <3>0, <3>3
      <4>2. QED
        BY <2>3, <3>0, <3>3, <4>1
    <3>4. CASE c \notin {b, n} /\ d \in {b, n}
      <4>1. Versions(b, c) /\ Versions(c, b) /\ old[c] < old[b] /\ rank[c] = old[c]
        BY <2>2, <2>3, <2>4, <2>5, <3>4 DEF Versions
      <4>2. bf[c].pv <= bf[b].pv /\ bf[c].prev # Nil /\ bf[b].next # Nil
        BY <2>1, <4>1 DEF Ranked
      <4>3. bf'[c].prev # Nil /\ bf'[c].pv = bf[c].pv
        BY <1>4, <3>4, <4>2, NilApart
      <4>4. bf'[d].pv = bf[b].pv /\ bf'[d].next # Nil
        BY <1>4, <3>4, <4>2, NilApart
      <4>5. rank[c] # rank[d]
        BY <2>3, <3>0, <3>4, <4>1
      <4>6. QED
        BY <4>2, <4>3, <4>4, <4>5
    <3>5. CASE c \notin {b, n} /\ d \notin {b, n}
      <4>1. Versions(c, d) /\ rank[c] = old[c] /\ rank[d] = old[d]
        BY <2>3, <2>4, <2>5, <3>5
      <4>2. /\ bf'[c].pv = bf[c].pv /\ bf'[d].pv = bf[d].pv /\ bf'[d].next = bf[d].next
            /\ bf[c].prev # Nil => bf'[c].prev # Nil
        BY <1>4, <3>5, NilApart
      <4>3. QED
        BY <2>1, <4>1, <4>2 DEF Ranked
    <3>6. QED
      BY <3>1, <3>2, <3>3, <3>4, <3>5
  <2>6. ASSUME NEW c \in Buffer, NEW d \in Buffer, Versions(c, d)', bf'[c].next # Nil
        PROVE  /\ rank[bf'[c].next] < rank[c]
               /\ rank[d] <= rank[bf'[c].next] \/ rank[c] <= rank[d]
    <3>0. c # d /\ old[c] \in Nat /\ old[d] \in Nat /\ old[b] \in Nat
      BY <2>1, <2>6 DEF Versions
    <3>1. CASE c = b
      <4>1. rank[d] <= old[b]
        BY <2>2, <2>3, <2>4, <2>6, <3>0, <3>1
      <4>2. bf'[c].next = n
        BY <1>4, <3>1
      <4>3. QED
        BY <2>3, <3>0, <3>1, <4>1, <4>2
    <3>2. CASE c = n
      <4>1. bf'[c].next = bf[b].next /\ bf[b].next \in Buffer \ {b, n} /\ old[bf[b].next] < old[b]
        BY <1>3, <1>4, <2>2, <2>6, <3>2
      <4>2. rank[bf[b].next] = old[bf[b].next]
        BY <2>3, <4>1
      <4>3. CASE d = b
        BY <2>3, <3>0, <3>2, <4>1, <4>2, <4>3
      <4>4. CASE d # b
        <5>1. Versions(b, d) /\ rank[d] = old[d]
          BY <2>3, <2>4, <2>6, <3>0, <3>2, <4>4
        <5>2. old[d] <= old[bf[b].next] \/ old[b] <= old[d]
          BY <2>1, <2>6, <3>2, <4>1, <5>1, <1>4 DEF Ranked
        <5>3. QED
          BY <2>3, <3>2, <4>1, <4>2, <5>1, <5>2
      <4>5. QED
        BY <4>3, <4>4
    <3>3. CASE c \notin {b, n}
      <4>1. bf'[c].next = bf[c].next /\ bf[c].next # Nil /\ rank[c] = old[c]
        BY <1>4, <2>3, <2>6, <3>3
      <4>2. bf[c].next \in Buffer \ {b, n} /\ old[bf[c].next] < old[c]
        <5>1. bf[c].next \in Buffer /\ old[bf[c].next] < old[c]
          BY <2>2, <4>1
        <5>2. bf[bf[c].next].prev = c
          BY <1>0, <4>1 DEF LinksSound
        <5>3. QED
          BY <1>1, <1>2, <5>1, <5>2, NilApart
      <4>3. rank[bf[c].next] = old[bf[c].next]
        BY <2>3, <4>2
      <4>4. CASE d \in {b, n}
        <5>1. Versions(b, c)
          BY <2>4, <2>6, <3>3, <4>4 DEF Versions
        <5>2. old[c] < old[b]
          BY <2>2, <5>1
        <5>3. QED
          BY <2>3, <3>0, <4>1, <4>2, <4>3, <4>4, <5>2
      <4>5. CASE d \notin {b, n}
        <5>1. Versions(c, d) /\ rank[d] = old[d]
          BY <2>3, <2>4, <2>6, <3>3, <4>5
        <5>2. old[d] <= old[bf[c].next] \/ old[c] <= old[d]
          BY <2>1, <4>1, <5>1 DEF Ranked
        <5>3. QED
          BY <4>1, <4>2, <4>3, <5>1, <5>2
      <4>6. QED
        BY <4>4, <4>5
    <3>4. QED
      BY <3>1, <3>2, <3>3
  <2>7. Ranked(rank)'
    BY <2>5, <2>6 DEF Ranked
  <2>8. QED
    BY <2>3, <2>7 DEF ChainsOrdered
<1>12. DirtySound'
  <2>1. ASSUME NEW c \in Buffer, bf'[c].dirty
        PROVE  OnChain(c)' /\ bf'[hash'[bf'[c].pgno]].dirty
    <3>1. CASE c = n
      BY <1>2, <1>4, <1>5, <1>9, <3>1
    <3>2. CASE c # n
      <4>1. bf'[c].dirty = bf[c].dirty /\ bf'[c].pgno = bf[c].pgno
        BY <1>2, <1>4, <3>2
      <4>2. OnChain(c) /\ bf[c].pgno \in Page /\ hash[bf[c].pgno] \in Buffer \ {n} /\ bf[hash[bf[c].pgno]].dirty
        BY <1>0, <1>7, <2>1, <4>1, Fields, Tables DEF DirtySound, LinksSound
      <4>3. bf'[hash[bf[c].pgno]].dirty
        BY <1>4, <4>2
      <4>4. QED
        BY <1>5, <1>9, <4>1, <4>2, <4>3
    <3>3. QED
      BY <3>1, <3>2
  <2>2. ASSUME NEW c \in Buffer, ~bf'[c].dirty, bf'[c].prev # Nil
        PROVE  bf'[c].next = Nil /\ bf'[c].err \in {"pending", "ioerr"}
    <3>1. c # b /\ c # n /\ ~bf[c].dirty
      BY <1>4, <2>2
    <3>2. bf[c].prev # Nil
      <4>1. CASE c = bf[b].next
        BY <1>0, <4>1, NilApart DEF LinksSound
      <4>2. CASE c # bf[b].next
        BY <1>4, <2>2, <3>1, <4>2
      <4>3. QED
        BY <4>1, <4>2
    <3>3. QED
      BY <1>0, <1>4, <3>1, <3>2 DEF DirtySound
  <2>3. QED
    BY <2>1, <2>2 DEF DirtySound, OnChain
<1>13. DataSound'
  <2>1. ASSUME NEW c \in Buffer PROVE DataOf(c)'
    <3>0. DataOf(b) /\ DataOf(c)
      BY <1>0 DEF DataSound
    <3>1. CASE c = b \/ c = n
      BY <1>2, <1>4, <1>5, <3>0, <3>1, NilApart DEF DataOf, Filled
    <3>2. CASE c # n /\ c # b
      <4>1. bf'[c].prev # Nil => bf[c].prev # Nil
        <5>1. CASE c = bf[b].next
          BY <1>0, <5>1, NilApart DEF LinksSound
        <5>2. CASE c # bf[b].next
          BY <1>4, <3>2, <5>2
        <5>3. QED
          BY <5>1, <5>2
      <4>2. QED
        BY <1>4, <1>5, <3>0, <3>2, <4>1 DEF DataOf, Filled
    <3>3. QED
      BY <3>1, <3>2
  <2>2. ASSUME NEW q \in Page
        PROVE  IF hash[q] # Nil /\ bf'[hash[q]].dirty
               THEN bf'[hash[q]].pv = latest[q]
               ELSE disk[q] = latest[q]
    <3>1. hash[q] # Nil => /\ bf'[hash[q]].dirty = bf[hash[q]].dirty
                           /\ bf'[hash[q]].pv = bf[hash[q]].pv
      BY <1>2, <1>4, <1>7, Tables
    <3>2. QED
      BY <1>0, <3>1 DEF NoLostUpdate
  <2>3. QED
    BY <1>0, <1>5, <2>1, <2>2 DEF DataSound, NoLostUpdate
<1>14. QED
  <2>1. ASSUME NEW c \in Buffer \ {n}
        PROVE  /\ bf'[c].pgno = bf[c].pgno /\ bf'[c].cur = bf[c].cur
               /\ bf'[c].dirty = bf[c].dirty /\ bf'[c].err = bf[c].err
               /\ bf'[c].pv = bf[c].pv
               /\ bf[c].prev # Nil => bf'[c].prev # Nil
    <3>1. CASE c = b
      BY <1>2, <1>4, <3>1
    <3>2. CASE c # b
      BY <1>4, <3>2, NilApart
    <3>3. QED
      BY <3>1, <3>2
  <2>2. bf'[n].pgno # Nil /\ bf'[n].err # "fault"
    BY <1>2, <1>4, NilApart
  <2>3. CacheInv'
    BY <1>8, <1>10, <1>11, <1>12, <1>13 DEF CacheInv
  <2>4. QED
    BY <1>2, <1>6, <2>1, <2>2, <2>3

-----------------------------------------------------------------------------
(* Threads *)

PCs == {"idle", "lookup", "miss", "wait", "upW", "copy",
        "read", "held", "rdwW", "readW", "mcopy", "flush"}

Modes == {"none", "S", "X", "W"}

\* What is kept of a thread.
Threads == [pc : PCs, pg : Page \cup {Nil}, b : Buffer \cup {Nil}, req : Modes, mode : Modes]

ThreadType == th \in [Thread -> Threads]

\* The type invariant in its two parts: the cache, and the threads.
LEMMA Types == TypeOK <=> CacheType /\ ThreadType
  BY DEF TypeOK, CacheType, ThreadType, Threads, PCs, Modes, BFs

\* The fields of a thread have their types.
LEMMA ThreadFields ==
  ASSUME ThreadType, NEW t \in Thread
  PROVE  /\ th[t].pc \in PCs /\ th[t].pg \in Page \cup {Nil} /\ th[t].b \in Buffer \cup {Nil}
         /\ th[t].req \in Modes /\ th[t].mode \in Modes
<1>1. th[t] \in Threads
  BY DEF ThreadType
<1>2. QED
  BY <1>1 DEF Threads

\* A thread that goes somewhere, and one that leaves.
LEMMA Gone ==
  ASSUME ThreadType, NEW t \in Thread, NEW pc \in PCs, NEW b \in Buffer \cup {Nil},
         NEW m \in Modes, Goes(t, pc, b, m)
  PROVE  /\ ThreadType' /\ \A u \in Thread \ {t} : th'[u] = th[u]
         /\ th'[t].pc = pc /\ th'[t].b = b /\ th'[t].mode = m
         /\ th'[t].pg = th[t].pg /\ th'[t].req = th[t].req
<1>1. /\ th[t] \in Threads /\ th'[t] = [th[t] EXCEPT !.pc = pc, !.b = b, !.mode = m]
      /\ \A u \in Thread \ {t} : th'[u] = th[u] /\ th'[u] \in Threads
      /\ th' = [u \in Thread |-> th'[u]]
  BY DEF ThreadType, Goes
<1>2. /\ th'[t] \in Threads /\ th'[t].pc = pc /\ th'[t].b = b /\ th'[t].mode = m
      /\ th'[t].pg = th[t].pg /\ th'[t].req = th[t].req
  BY <1>1 DEF Threads
<1>3. ThreadType'
  BY <1>1, <1>2 DEF ThreadType
<1>4. QED
  BY <1>1, <1>2, <1>3

\* What is known of a thread that has left its operation.
LEMMA Left ==
  ASSUME ThreadType, NEW t \in Thread, Leaves(t)
  PROVE  /\ ThreadType' /\ \A u \in Thread \ {t} : th'[u] = th[u]
         /\ th'[t].pc = "idle" /\ th'[t].b = Nil /\ th'[t].mode = "none"
<1>1. Idle \in Threads /\ Idle.pc = "idle" /\ Idle.b = Nil /\ Idle.mode = "none"
  BY DEF Idle, Threads, PCs, Modes
<1>2. th'[t] = Idle /\ ThreadType' /\ \A u \in Thread \ {t} : th'[u] = th[u]
  BY <1>1 DEF ThreadType, Leaves
<1>3. QED
  BY <1>1, <1>2

\* What happens to buffers leaves thread u alone.
Undisturbed(u) ==
    /\ th'[u] = th[u]
    /\ th[u].b # Nil =>
         /\ bf'[th[u].b].pgno # Nil
         /\ io'[th[u].b] = "read" => io[th[u].b] = "read" \/ th[u].mode = "none"
         /\ \/ th[u].pc \in {"wait", "upW"}
            \/ /\ bf'[th[u].b].pgno = bf[th[u].b].pgno /\ bf'[th[u].b].cur = bf[th[u].b].cur
               /\ bf'[th[u].b].dirty = bf[th[u].b].dirty /\ bf'[th[u].b].err = bf[th[u].b].err
               /\ bf'[th[u].b].pv = bf[th[u].b].pv
               /\ bf[th[u].b].prev # Nil => bf'[th[u].b].prev # Nil
            \/ /\ th[u].mode = "S"
               /\ bf'[th[u].b].pgno = bf[th[u].b].pgno /\ bf'[th[u].b].cur = bf[th[u].b].cur
               /\ bf'[th[u].b].err \in {"fault", "unverified"} => bf'[th[u].b].err = bf[th[u].b].err
               /\ bf'[th[u].b].pv = bf[th[u].b].pv

\* A thread that a step does not disturb may rely on what it relied on before.
LEMMA UndisturbedKept ==
  ASSUME ThreadType, NEW u \in Thread, Place(u), Hold(u), NoRead(u), Undisturbed(u)
  PROVE  Place(u)' /\ Hold(u)' /\ NoRead(u)'
<1>1. th'[u] = th[u]
  BY DEF Undisturbed
<1>2. CASE th[u].b = Nil
  <2>1. th[u].pc \in {"idle", "lookup", "miss"}
    BY <1>2 DEF Place
  <2>2. QED
    BY <1>1, <1>2, <2>1 DEF Place, Hold, NoRead, Has
<1>3. CASE th[u].b # Nil
  <2>1. Place(u)' /\ NoRead(u)'
    BY <1>1, <1>3 DEF Place, NoRead, Undisturbed
  <2>2. CASE th[u].pc \in {"wait", "upW"}
    BY <1>1, <2>1, <2>2 DEF Hold, Has
  <2>3. CASE /\ bf'[th[u].b].pgno = bf[th[u].b].pgno /\ bf'[th[u].b].cur = bf[th[u].b].cur
             /\ bf'[th[u].b].dirty = bf[th[u].b].dirty /\ bf'[th[u].b].err = bf[th[u].b].err
             /\ bf'[th[u].b].pv = bf[th[u].b].pv
             /\ bf[th[u].b].prev # Nil => bf'[th[u].b].prev # Nil
    BY <1>1, <2>1, <2>3 DEF Hold, Has, FBFICurrentPage, OnChain
  <2>4. CASE /\ th[u].mode = "S"
             /\ bf'[th[u].b].pgno = bf[th[u].b].pgno /\ bf'[th[u].b].cur = bf[th[u].b].cur
             /\ bf'[th[u].b].err \in {"fault", "unverified"} => bf'[th[u].b].err = bf[th[u].b].err
             /\ bf'[th[u].b].pv = bf[th[u].b].pv
    <3>1. th[u].pc = "held"
      BY <1>3, <2>4, ThreadFields DEF Place, PCs
    <3>2. QED
      BY <1>1, <2>1, <2>4, <3>1 DEF Hold, Has, FBFICurrentPage
  <2>5. QED
    BY <1>3, <2>2, <2>3, <2>4 DEF Undisturbed
<1>4. QED
  BY <1>2, <1>3

\* A step of thread t that leaves the others alone.
LEMMA ThreadStep ==
  ASSUME ThreadType, ThreadInv, NEW t \in Thread,
         \A u \in Thread \ {t} : Undisturbed(u),
         Place(t)', Hold(t)', NoRead(t)',
         \A u \in Thread \ {t} : th[u].b = th'[t].b =>
            Compatible(th'[t].mode, th[u].mode) /\ Compatible(th[u].mode, th'[t].mode),
         \A b \in Buffer : FaultOwned(b)'
  PROVE  ThreadInv'
<1>1. \A u \in Thread \ {t} : th'[u] = th[u]
  BY DEF Undisturbed
<1>2. ASSUME NEW u \in Thread PROVE Place(u)' /\ Hold(u)' /\ NoRead(u)'
  <2>1. CASE u = t
    BY <2>1
  <2>2. CASE u # t
    <3>1. Place(u) /\ Hold(u) /\ NoRead(u) /\ Undisturbed(u)
      BY <2>2 DEF ThreadInv, PlaceSound, HoldSound, LatchSound
    <3>2. QED
      BY <3>1, UndisturbedKept
  <2>3. QED
    BY <2>1, <2>2
<1>3. ASSUME NEW u \in Thread, NEW v \in Thread, u # v PROVE Excludes(u, v)'
  <2>1. CASE u = t
    BY <1>1, <1>3, <2>1 DEF Excludes
  <2>2. CASE v = t
    BY <1>1, <1>3, <2>2 DEF Excludes
  <2>3. CASE u # t /\ v # t
    BY <1>1, <1>3, <2>3 DEF Excludes, ThreadInv, LatchSound
  <2>4. QED
    BY <2>1, <2>2, <2>3
<1>4. QED
  BY <1>2, <1>3 DEF ThreadInv, PlaceSound, HoldSound, LatchSound

\* Buffers to be read into stay somebody's, when no thread in the midst of
\* reading moves.
LEMMA FaultKept ==
  ASSUME ThreadInv, NEW t \in Thread, th[t].pc # "read",
         \A u \in Thread \ {t} : th'[u] = th[u],
         \A b \in Buffer : bf'[b].err = "fault" =>
            bf[b].err = "fault" /\ (io[b] = "read" => io'[b] = "read")
  PROVE  \A b \in Buffer : FaultOwned(b)'
<1>1. SUFFICES ASSUME NEW b \in Buffer, bf'[b].err = "fault", io'[b] # "read"
               PROVE  \E u \in Thread : th'[u].b = b /\ th'[u].pc = "read"
  BY DEF FaultOwned
<1>2. PICK u \in Thread : th[u].b = b /\ th[u].pc = "read"
  BY <1>1 DEF ThreadInv, HoldSound, FaultOwned
<1>3. QED
  BY <1>2

\* What the others may have of a buffer that a thread owns, or can own, in some
\* mode.
LEMMA OwnersMode ==
  ASSUME ThreadType, ThreadInv, NEW t \in Thread, NEW u \in Thread, u # t, th[u].b = th[t].b
  PROVE  /\ th[t].mode = "W" => th[u].mode = "none"
         /\ th[t].mode = "X" => th[u].mode \in {"none", "S"}
         /\ ~ReadersBut(t, th[t].b) /\ th[t].mode = "X" => th[u].mode = "none"
<1>1. Excludes(t, u)
  BY DEF ThreadInv, LatchSound
<1>2. QED
  BY <1>1 DEF Excludes, Compatible, ReadersBut, Owns

\* What holds of every thread.
LEMMA ThreadFacts ==
  ASSUME ThreadInv, NEW t \in Thread
  PROVE  Place(t) /\ Hold(t) /\ NoRead(t)
  BY DEF ThreadInv, PlaceSound, HoldSound, LatchSound

\* A thread is left alone when nothing it can see of its buffer changes.
LEMMA QuietUndisturbed ==
  ASSUME ThreadType, ThreadInv, NEW u \in Thread, th'[u] = th[u],
         \A c \in Buffer : th[u].b = c =>
            /\ bf'[c].pgno = bf[c].pgno /\ bf'[c].cur = bf[c].cur
            /\ bf'[c].dirty = bf[c].dirty /\ bf'[c].err = bf[c].err
            /\ bf'[c].pv = bf[c].pv /\ (bf[c].prev # Nil => bf'[c].prev # Nil)
            /\ io'[c] = "read" => io[c] = "read"
  PROVE  Undisturbed(u)
<1>1. SUFFICES ASSUME th[u].b # Nil
               PROVE  /\ bf'[th[u].b].pgno # Nil
                      /\ io'[th[u].b] = "read" => io[th[u].b] = "read"
                      /\ bf'[th[u].b].pgno = bf[th[u].b].pgno /\ bf'[th[u].b].cur = bf[th[u].b].cur
                      /\ bf'[th[u].b].dirty = bf[th[u].b].dirty /\ bf'[th[u].b].err = bf[th[u].b].err
                      /\ bf'[th[u].b].pv = bf[th[u].b].pv
                      /\ bf[th[u].b].prev # Nil => bf'[th[u].b].prev # Nil
  BY DEF Undisturbed
<1>2. th[u].b \in Buffer /\ bf[th[u].b].pgno # Nil
  BY <1>1, ThreadFields, ThreadFacts DEF Place
<1>3. QED
  BY <1>2

\* So is one that has no latch on the buffer that changes.
LEMMA WaitingUndisturbed ==
  ASSUME ThreadType, ThreadInv, NEW u \in Thread, th'[u] = th[u], NEW b \in Buffer,
         \A c \in Buffer \ {b} : th[u].b = c =>
            /\ bf'[c].pgno = bf[c].pgno /\ bf'[c].cur = bf[c].cur
            /\ bf'[c].dirty = bf[c].dirty /\ bf'[c].err = bf[c].err
            /\ bf'[c].pv = bf[c].pv /\ (bf[c].prev # Nil => bf'[c].prev # Nil)
            /\ io'[c] = "read" => io[c] = "read",
         th[u].b = b => th[u].mode = "none" /\ bf'[b].pgno # Nil
  PROVE  Undisturbed(u)
<1>1. CASE th[u].b = b
  <2>1. th[u].pc = "wait" /\ th[u].mode = "none" /\ bf'[b].pgno # Nil
    BY <1>1, ThreadFields, ThreadFacts, NilApart DEF Place
  <2>2. QED
    BY <1>1, <2>1 DEF Undisturbed
<1>2. CASE th[u].b # b
  BY <1>2, QuietUndisturbed
<1>3. QED
  BY <1>1, <1>2

\* A step that changes no buffer and no I/O disturbs nobody else.
LEMMA SameUndisturbed ==
  ASSUME ThreadType, ThreadInv, NEW u \in Thread, th'[u] = th[u], UNCHANGED <<bf, io>>
  PROVE  Undisturbed(u)
  BY QuietUndisturbed

\* A flush is completed if it has ended.
LEMMA CompleteStep ==
  ASSUME CacheType, CacheInv, NEW b \in Buffer, bf' = FBFICompleteFlushPage(b),
         UNCHANGED <<disk, hash, io, latest>>
  PROVE  /\ CacheType' /\ CacheInv'
         /\ \A c \in Buffer : /\ bf'[c].pgno = bf[c].pgno /\ bf'[c].cur = bf[c].cur
                              /\ bf'[c].pv = bf[c].pv
         /\ \A c \in Buffer \ {b} : /\ bf'[c].dirty = bf[c].dirty /\ bf'[c].err = bf[c].err
                                    /\ bf'[c].prev = bf[c].prev
         /\ bf' = bf \/ (FlushEnded(b) /\ bf'[b].err \in {"ok", "ioerr"})
         /\ bf'[b].err = "pending" => bf' = bf
<1>1. CASE ~FlushEnded(b)
  <2>1. bf' = bf
    BY <1>1 DEF FBFICompleteFlushPage
  <2>2. CacheType' /\ CacheInv'
    BY <2>1, SameCache
  <2>3. QED
    BY <2>1, <2>2
<1>2. CASE FlushEnded(b)
  <2>1. bf' = BFIFlushComplete(bf, b)
    BY <1>2 DEF FBFICompleteFlushPage
  <2>2. CacheType' /\ CacheInv'
    BY <1>2, <2>1, CompleteCache
  <2>3. bf[b].prev # b
    BY <1>2, Fields, NilApart DEF CacheInv, LinksSound, IOSound, FlushEnded
  <2>4. /\ \A c \in Buffer : /\ bf'[c].pgno = bf[c].pgno /\ bf'[c].pv = bf[c].pv
                             /\ bf'[c].cur = bf[c].cur /\ bf'[c].old = bf[c].old
        /\ \A c \in Buffer \ {b} :
             /\ bf'[c].err = bf[c].err /\ bf'[c].dirty = bf[c].dirty
             /\ bf'[c].signal = bf[c].signal /\ bf'[c].prev = bf[c].prev
             /\ bf'[c].next = IF bf[b].signal = "ok" /\ bf[b].prev = c THEN Nil ELSE bf[c].next
        /\ bf'[b].signal = "none" /\ bf'[b].next = bf[b].next
        /\ bf[b].signal = "ok" => bf'[b].err = "ok" /\ bf'[b].dirty = FALSE /\ bf'[b].prev = Nil
        /\ bf[b].signal # "ok" => /\ bf'[b].err = "ioerr" /\ bf'[b].dirty = bf[b].dirty
                                  /\ bf'[b].prev = bf[b].prev
    BY <1>2, <2>1, <2>3, CompleteFields
  <2>5. QED
    BY <1>2, <2>2, <2>3, <2>4
<1>3. QED
  BY <1>1, <1>2

\* The readers of a buffer do not notice that its flush is completed.
LEMMA CompleteUndisturbed ==
  ASSUME CacheType, CacheInv, ThreadType, ThreadInv, NEW b \in Buffer, NEW u \in Thread,
         bf' = FBFICompleteFlushPage(b), UNCHANGED <<disk, hash, io, latest>>,
         th'[u] = th[u], th[u].b = b => th[u].mode \in {"none", "S"}
  PROVE  Undisturbed(u)
<1>1. CASE th[u].b = b /\ bf' # bf
  <2>1. /\ bf'[b].err \in {"ok", "ioerr"} /\ bf'[b].pv = bf[b].pv
        /\ bf'[b].pgno = bf[b].pgno /\ bf'[b].cur = bf[b].cur
    BY <1>1, CompleteStep
  <2>2. bf[b].pgno # Nil /\ (th[u].mode = "none" => th[u].pc = "wait")
    BY <1>1, ThreadFacts, ThreadFields, NilApart DEF Place
  <2>3. QED
    BY <1>1, <2>1, <2>2 DEF Undisturbed
<1>2. CASE th[u].b # b
  <2>1. /\ \A c \in Buffer : /\ bf'[c].pgno = bf[c].pgno /\ bf'[c].cur = bf[c].cur
                             /\ bf'[c].pv = bf[c].pv
        /\ \A c \in Buffer \ {b} : /\ bf'[c].dirty = bf[c].dirty /\ bf'[c].err = bf[c].err
                                   /\ bf'[c].prev = bf[c].prev
    BY CompleteStep
  <2>2. QED
    BY <1>2, <2>1, QuietUndisturbed
<1>3. CASE bf' = bf
  BY <1>3, SameUndisturbed
<1>4. QED
  BY <1>1, <1>2, <1>3

\* A thread leaves.
LEMMA Leaving ==
  ASSUME ThreadType, ThreadInv, NEW t \in Thread, Leaves(t),
         \A u \in Thread \ {t} : Undisturbed(u), \A b \in Buffer : FaultOwned(b)'
  PROVE  ThreadType' /\ ThreadInv'
<1>1. /\ ThreadType' /\ th'[t].pc = "idle" /\ th'[t].b = Nil /\ th'[t].mode = "none"
  BY Left
<1>2. Place(t)' /\ Hold(t)' /\ NoRead(t)'
  BY <1>1 DEF Place, Hold, NoRead, Has
<1>3. \A u \in Thread : th[u].b = Nil => th[u].mode = "none"
  BY ThreadFacts DEF Place
<1>4. \A u \in Thread \ {t} : th[u].b = th'[t].b =>
         Compatible(th'[t].mode, th[u].mode) /\ Compatible(th[u].mode, th'[t].mode)
  BY <1>1, <1>3 DEF Compatible
<1>5. QED
  BY <1>1, <1>2, <1>4, ThreadStep

\* A thread looks its page up again.
LEMMA Retrying ==
  ASSUME ThreadType, ThreadInv, NEW t \in Thread, Retries(t), th[t].pc \notin {"idle", "flush"},
         \A u \in Thread \ {t} : Undisturbed(u), \A b \in Buffer : FaultOwned(b)'
  PROVE  ThreadType' /\ ThreadInv'
<1>1. /\ ThreadType' /\ th'[t].pc = "lookup" /\ th'[t].b = Nil /\ th'[t].mode = "none"
      /\ th'[t].pg = th[t].pg /\ th'[t].req = th[t].req
  BY Gone DEF Retries, PCs, Modes
<1>2. th[t].pg # Nil /\ th[t].req # "none"
  BY ThreadFacts DEF Place
<1>3. Place(t)' /\ Hold(t)' /\ NoRead(t)'
  BY <1>1, <1>2 DEF Place, Hold, NoRead, Has
<1>4. \A u \in Thread : th[u].b = Nil => th[u].mode = "none"
  BY ThreadFacts DEF Place
<1>5. \A u \in Thread \ {t} : th[u].b = th'[t].b =>
         Compatible(th'[t].mode, th[u].mode) /\ Compatible(th[u].mode, th'[t].mode)
  BY <1>1, <1>4 DEF Compatible
<1>6. QED
  BY <1>1, <1>3, <1>5, ThreadStep

\* A thread goes on with a latch in mode m on buffer b.
LEMMA GoesOn ==
  ASSUME ThreadType, ThreadInv, NEW t \in Thread, NEW b \in Buffer,
         NEW pc \in {"upW", "copy", "read", "held", "rdwW", "readW", "mcopy"},
         NEW m \in {"S", "X", "W"}, Goes(t, pc, b, m),
         th[t].pc \notin {"idle", "flush"},
         pc \in {"upW", "rdwW", "readW"} => m = "X",
         pc = "read" => m = "W", pc \in {"copy", "mcopy"} => m # "S",
         Hold(t)', bf'[b].pgno # Nil, io'[b] # "read",
         \A u \in Thread \ {t} : Undisturbed(u), \A c \in Buffer : FaultOwned(c)',
         \A u \in Thread \ {t} : th[u].b = b => Compatible(m, th[u].mode) /\ Compatible(th[u].mode, m)
  PROVE  ThreadType' /\ ThreadInv'
<1>1. /\ ThreadType' /\ th'[t].pc = pc /\ th'[t].b = b /\ th'[t].mode = m
      /\ th'[t].pg = th[t].pg /\ th'[t].req = th[t].req
  BY Gone DEF PCs, Modes
<1>2. th[t].pg # Nil /\ th[t].req # "none"
  BY ThreadFacts DEF Place
<1>3. Place(t)'
  BY <1>1, <1>2, NilApart DEF Place
<1>4. NoRead(t)'
  BY <1>1 DEF NoRead
<1>5. QED
  BY <1>1, <1>3, <1>4, ThreadStep

\* What no step does: change or give away a page that is being written, or put
\* an older version of a page on disk.
Steady ==
    /\ \A b \in Buffer : io[b] = "write" => bf'[b].pv = bf[b].pv /\ bf'[b].pgno = bf[b].pgno
    /\ \A p \in Page : disk'[p] >= disk[p]

\* A step that leaves the disk and what is being written alone is steady.
LEMMA SteadyDisk ==
  ASSUME CacheType, disk' = disk,
         \A b \in Buffer : io[b] = "write" => bf'[b].pv = bf[b].pv /\ bf'[b].pgno = bf[b].pgno
  PROVE  Steady
  BY Tables DEF Steady

-----------------------------------------------------------------------------
(* What a step of a thread does to the cache, as the other threads see it *)

\* Nothing.
LEMMA QuietMove ==
  ASSUME CacheType, CacheInv, ThreadType, ThreadInv, NEW t \in Thread, th[t].pc # "read",
         UNCHANGED <<disk, hash, bf, io, latest>>, \A u \in Thread \ {t} : th'[u] = th[u]
  PROVE  /\ CacheType' /\ CacheInv' /\ Steady
         /\ \A u \in Thread \ {t} : Undisturbed(u)
         /\ \A b \in Buffer : FaultOwned(b)'
<1>1. CacheType' /\ CacheInv' /\ Steady
  BY SameCache, SteadyDisk
<1>2. \A u \in Thread \ {t} : Undisturbed(u)
  BY SameUndisturbed
<1>3. \A b \in Buffer : FaultOwned(b)'
  BY FaultKept
<1>4. QED
  BY <1>1, <1>2, <1>3

\* A flush is completed by a thread that excludes all but readers.
LEMMA QuietComplete ==
  ASSUME CacheType, CacheInv, ThreadType, ThreadInv, NEW t \in Thread, th[t].pc # "read",
         NEW b \in Buffer, bf' = FBFICompleteFlushPage(b), UNCHANGED <<disk, hash, io, latest>>,
         \A u \in Thread \ {t} : th'[u] = th[u],
         \A u \in Thread \ {t} : th[u].b = b => th[u].mode \in {"none", "S"}
  PROVE  /\ CacheType' /\ CacheInv' /\ Steady
         /\ \A u \in Thread \ {t} : Undisturbed(u)
         /\ \A c \in Buffer : FaultOwned(c)'
<1>1. /\ CacheType' /\ CacheInv'
      /\ \A c \in Buffer : /\ bf'[c].pgno = bf[c].pgno /\ bf'[c].cur = bf[c].cur
                           /\ bf'[c].pv = bf[c].pv
      /\ \A c \in Buffer \ {b} : bf'[c].err = bf[c].err
      /\ bf' = bf \/ (FlushEnded(b) /\ bf'[b].err \in {"ok", "ioerr"})
  BY CompleteStep
<1>2. Steady
  BY <1>1, SteadyDisk
<1>3. \A u \in Thread \ {t} : Undisturbed(u)
  BY CompleteUndisturbed
<1>4. \A c \in Buffer : FaultOwned(c)'
  <2>1. \A c \in Buffer : bf'[c].err = "fault" => bf[c].err = "fault"
    BY <1>1
  <2>2. QED
    BY <2>1, FaultKept
<1>5. QED
  BY <1>1, <1>2, <1>3, <1>4

\* A page is copied by a thread that excludes everybody.
LEMMA QuietCopy ==
  ASSUME CacheType, CacheInv, ThreadType, ThreadInv, NEW t \in Thread, th[t].pc # "read",
         NEW b \in Buffer, NEW n \in Buffer, bf[b].cur, Available(n),
         bf[b].dirty \/ bf[b].err = "pending",
         bf' = VersionCopied(bf, n, b), hash' = [hash EXCEPT ![bf[b].pgno] = n],
         UNCHANGED <<disk, io, latest>>,
         \A u \in Thread \ {t} : th'[u] = th[u],
         \A u \in Thread \ {t} : th[u].b = b => th[u].mode = "none"
  PROVE  /\ CacheType' /\ CacheInv' /\ Steady
         /\ \A u \in Thread \ {t} : Undisturbed(u)
         /\ \A c \in Buffer : FaultOwned(c)'
         /\ bf'[n].cur /\ bf'[n].pgno = bf[b].pgno /\ bf'[n].err \in {"ok", "ioerr"}
         /\ bf'[n].pv # 0
         /\ bf'[n].pgno # Nil /\ io'[n] # "read" /\ \A u \in Thread : th[u].b # n
<1>1. /\ CacheType' /\ CacheInv' /\ n # b
      /\ \A c \in Buffer \ {b, n} : bf'[c] = bf[c]
      /\ bf'[n].pgno = bf[b].pgno /\ bf'[n].cur = TRUE /\ bf'[n].dirty = bf[b].dirty
      /\ bf'[n].err \in {"ok", "ioerr"} /\ bf'[n].pv = bf[b].pv /\ bf[b].pv # 0
      /\ bf'[b].pgno = bf[b].pgno /\ bf'[b].dirty = bf[b].dirty /\ bf'[b].err = bf[b].err
      /\ bf'[b].pv = bf[b].pv
  BY CopyCache
<1>2. bf[n].pgno = Nil /\ io[n] = "none" /\ io' = io /\ disk' = disk
  BY AvailableFields DEF CacheInv, HashSound
<1>3. \A u \in Thread : th[u].b # n
  BY <1>2, ThreadFacts, NilApart DEF Place
<1>4. bf[b].pgno # Nil
  BY DEF CacheInv, HashSound
<1>5. Steady
  <2>1. ASSUME NEW c \in Buffer, io[c] = "write"
        PROVE  bf'[c].pv = bf[c].pv /\ bf'[c].pgno = bf[c].pgno
    BY <1>1, <1>2, <2>1
  <2>2. QED
    BY <1>2, <2>1, SteadyDisk
<1>6. ASSUME NEW u \in Thread \ {t} PROVE Undisturbed(u)
  <2>1. \A c \in Buffer \ {b} : th[u].b = c =>
            /\ bf'[c].pgno = bf[c].pgno /\ bf'[c].cur = bf[c].cur
            /\ bf'[c].dirty = bf[c].dirty /\ bf'[c].err = bf[c].err
            /\ bf'[c].pv = bf[c].pv /\ (bf[c].prev # Nil => bf'[c].prev # Nil)
            /\ io'[c] = "read" => io[c] = "read"
    BY <1>1, <1>2, <1>3
  <2>2. QED
    BY <1>1, <1>4, <2>1, WaitingUndisturbed
<1>7. \A c \in Buffer : FaultOwned(c)'
  <2>1. \A c \in Buffer : bf'[c].err = "fault" => bf[c].err = "fault"
    BY <1>1
  <2>2. QED
    BY <1>2, <2>1, FaultKept
<1>8. QED
  BY <1>1, <1>2, <1>3, <1>4, <1>5, <1>6, <1>7

\* A page is versioned by a thread that excludes all but readers.
LEMMA QuietVersion ==
  ASSUME CacheType, CacheInv, ThreadType, ThreadInv, NEW t \in Thread, th[t].pc # "read",
         NEW b \in Buffer, NEW n \in Buffer, bf[b].dirty, bf[b].cur, bf[b].err # "pending",
         Available(n), bf' = Versioned(bf, n, b), UNCHANGED <<disk, hash, io, latest>>,
         \A u \in Thread \ {t} : th'[u] = th[u]
  PROVE  /\ CacheType' /\ CacheInv' /\ Steady
         /\ \A u \in Thread \ {t} : Undisturbed(u)
         /\ \A c \in Buffer : FaultOwned(c)'
         /\ bf'[b].cur = bf[b].cur /\ bf'[b].pgno = bf[b].pgno /\ bf'[b].dirty = bf[b].dirty
         /\ bf'[b].err = bf[b].err /\ bf'[b].pv = bf[b].pv
<1>1. /\ CacheType' /\ CacheInv' /\ n # b
      /\ \A c \in Buffer \ {n} : /\ bf'[c].pgno = bf[c].pgno /\ bf'[c].cur = bf[c].cur
                                 /\ bf'[c].dirty = bf[c].dirty /\ bf'[c].err = bf[c].err
                                 /\ bf'[c].pv = bf[c].pv
                                 /\ bf[c].prev # Nil => bf'[c].prev # Nil
      /\ bf'[n].pgno # Nil /\ bf'[n].err # "fault"
  BY VersionCache
<1>2. bf[n].pgno = Nil /\ io[n] = "none" /\ io' = io /\ disk' = disk
  BY AvailableFields DEF CacheInv, HashSound
<1>3. \A u \in Thread : th[u].b # n
  BY <1>2, ThreadFacts, NilApart DEF Place
<1>4. Steady
  <2>1. ASSUME NEW c \in Buffer, io[c] = "write"
        PROVE  bf'[c].pv = bf[c].pv /\ bf'[c].pgno = bf[c].pgno
    BY <1>1, <1>2, <2>1
  <2>2. QED
    BY <1>2, <2>1, SteadyDisk
<1>5. ASSUME NEW u \in Thread \ {t} PROVE Undisturbed(u)
  <2>1. \A c \in Buffer : th[u].b = c =>
            /\ bf'[c].pgno = bf[c].pgno /\ bf'[c].cur = bf[c].cur
            /\ bf'[c].dirty = bf[c].dirty /\ bf'[c].err = bf[c].err
            /\ bf'[c].pv = bf[c].pv /\ (bf[c].prev # Nil => bf'[c].prev # Nil)
            /\ io'[c] = "read" => io[c] = "read"
    BY <1>1, <1>2, <1>3
  <2>2. QED
    BY <2>1, QuietUndisturbed
<1>6. \A c \in Buffer : FaultOwned(c)'
  <2>1. \A c \in Buffer : bf'[c].err = "fault" => bf[c].err = "fault"
    BY <1>1
  <2>2. QED
    BY <1>2, <2>1, FaultKept
<1>7. QED
  BY <1>1, <1>4, <1>5, <1>6

\* A write is issued by a thread that excludes all but readers.
LEMMA QuietIssue ==
  ASSUME CacheType, CacheInv, ThreadType, ThreadInv, NEW t \in Thread, th[t].pc # "read",
         NEW b \in Buffer, OnChain(b), bf[b].err = "ok", bf[b].next = Nil,
         bf' = BFIPrepareWritePage(bf, b), io' = [io EXCEPT ![b] = "write"],
         UNCHANGED <<disk, hash, latest>>,
         \A u \in Thread \ {t} : th'[u] = th[u],
         \A u \in Thread \ {t} : th[u].b = b => th[u].mode \in {"none", "S"}
  PROVE  /\ CacheType' /\ CacheInv' /\ Steady
         /\ \A u \in Thread \ {t} : Undisturbed(u)
         /\ \A c \in Buffer : FaultOwned(c)'
<1>1. /\ CacheType' /\ CacheInv'
      /\ bf'[b].err = "pending" /\ \A c \in Buffer \ {b} : bf'[c] = bf[c]
      /\ \A c \in Buffer : /\ bf'[c].pgno = bf[c].pgno /\ bf'[c].cur = bf[c].cur
                           /\ bf'[c].dirty = bf[c].dirty /\ bf'[c].pv = bf[c].pv
                           /\ bf'[c].prev = bf[c].prev
  BY IssueCache
<1>2. io'[b] = "write" /\ \A c \in Buffer \ {b} : io'[c] = io[c]
  BY DEF CacheType
<1>3. io[b] # "write" /\ disk' = disk
  BY DEF CacheInv, IOSound
<1>4. Steady
  <2>1. ASSUME NEW c \in Buffer, io[c] = "write"
        PROVE  bf'[c].pv = bf[c].pv /\ bf'[c].pgno = bf[c].pgno
    BY <1>1, <1>3, <2>1
  <2>2. QED
    BY <1>3, <2>1, SteadyDisk
<1>5. ASSUME NEW u \in Thread \ {t} PROVE Undisturbed(u)
  <2>1. CASE th[u].b = b
    <3>1. bf[b].pgno # Nil /\ (th[u].mode = "none" => th[u].pc = "wait") /\ th[u].mode \in {"none", "S"}
      BY <2>1, ThreadFacts, ThreadFields, NilApart DEF Place
    <3>2. QED
      BY <1>1, <1>2, <2>1, <3>1 DEF Undisturbed
  <2>2. CASE th[u].b # b
    BY <1>1, <1>2, <2>2, QuietUndisturbed
  <2>3. QED
    BY <2>1, <2>2
<1>6. \A c \in Buffer : FaultOwned(c)'
  <2>1. \A c \in Buffer : bf'[c].err = "fault" => bf[c].err = "fault" /\ (io[c] = "read" => io'[c] = "read")
    BY <1>1, <1>2
  <2>2. QED
    BY <2>1, FaultKept
<1>7. QED
  BY <1>1, <1>4, <1>5, <1>6

-----------------------------------------------------------------------------
(* The actions *)

Good == CacheType /\ CacheInv /\ ThreadType /\ ThreadInv

\* The page is looked up.
LEMMA LookupStep ==
  ASSUME CacheType, CacheInv, ThreadType, ThreadInv, NEW t \in Thread,
         NEW p \in Page, NEW m \in {"S", "X", "W"}, ErrBFILatchPage(t, p, m)
  PROVE  Good' /\ Steady
<1>1. th[t].pc \in {"idle", "lookup"} /\ UNCHANGED <<disk, hash, bf, io, latest>>
  BY DEF ErrBFILatchPage
<1>2. /\ ThreadType' /\ \A u \in Thread \ {t} : th'[u] = th[u]
      /\ th'[t].pc = (IF hash[p] = Nil THEN "miss" ELSE "wait")
      /\ th'[t].b = hash[p] /\ th'[t].mode = "none" /\ th'[t].pg = p /\ th'[t].req = m
  <2> DEFINE new == [pc |-> IF hash[p] = Nil THEN "miss" ELSE "wait",
                     pg |-> p, b |-> hash[p], req |-> m, mode |-> "none"]
  <2>1. /\ new \in Threads /\ new.pc = (IF hash[p] = Nil THEN "miss" ELSE "wait")
        /\ new.b = hash[p] /\ new.mode = "none" /\ new.pg = p /\ new.req = m
    BY Tables DEF Threads, PCs, Modes
  <2>2. th' = [th EXCEPT ![t] = new]
    BY DEF ErrBFILatchPage
  <2> HIDE DEF new
  <2>3. QED
    BY <2>1, <2>2 DEF ThreadType
<1>3. /\ CacheType' /\ CacheInv' /\ Steady
      /\ \A u \in Thread \ {t} : Undisturbed(u)
      /\ \A b \in Buffer : FaultOwned(b)'
  BY <1>1, <1>2, QuietMove
<1>4. hash[p] # Nil => bf'[hash[p]].pgno = p
  BY <1>1 DEF CacheInv, HashSound
<1>5. Place(t)'
  BY <1>2, <1>4, NilApart DEF Place
<1>6. Hold(t)' /\ NoRead(t)'
  BY <1>2 DEF Hold, NoRead, Has
<1>7. ThreadInv'
  <2>1. \A u \in Thread \ {t} : th[u].b = th'[t].b =>
           Compatible(th'[t].mode, th[u].mode) /\ Compatible(th[u].mode, th'[t].mode)
    BY <1>2 DEF Compatible
  <2>2. QED
    BY <1>3, <1>5, <1>6, <2>1, ThreadStep
<1>8. QED
  BY <1>2, <1>3, <1>7 DEF Good

\* A hint is followed.
LEMMA HintStep ==
  ASSUME CacheType, CacheInv, ThreadType, ThreadInv, NEW t \in Thread,
         NEW p \in Page, NEW b \in Buffer, HintedReadLatch(t, p, b)
  PROVE  Good' /\ Steady
<1>1. th[t].pc = "idle" /\ UNCHANGED <<disk, hash, bf, io, latest>>
  BY DEF HintedReadLatch
<1>2. /\ ThreadType' /\ \A u \in Thread \ {t} : th'[u] = th[u]
      /\ th'[t].pc = "held" /\ th'[t].b = b /\ th'[t].mode = "S" /\ th'[t].pg = p /\ th'[t].req = "S"
  <2> DEFINE new == [pc |-> "held", pg |-> p, b |-> b, req |-> "S", mode |-> "S"]
  <2>1. /\ new \in Threads /\ new.pc = "held" /\ new.b = b /\ new.mode = "S" /\ new.pg = p
        /\ new.req = "S"
    BY DEF Threads, PCs, Modes
  <2>2. th' = [th EXCEPT ![t] = new]
    BY DEF HintedReadLatch
  <2> HIDE DEF new
  <2>3. QED
    BY <2>1, <2>2 DEF ThreadType
<1>3. /\ CacheType' /\ CacheInv' /\ Steady
      /\ \A u \in Thread \ {t} : Undisturbed(u)
      /\ \A c \in Buffer : FaultOwned(c)'
  BY <1>1, <1>2, QuietMove
<1>4. /\ io'[b] # "read" /\ \A u \in Thread : th[u].b = b => th[u].mode # "W"
      /\ bf'[b].cur /\ bf'[b].pgno = p /\ bf'[b].err \in {"ok", "pending"} /\ bf'[b].pv # 0
  <2>1. /\ io[b] # "read" /\ \A u \in Thread : th[u].b = b => th[u].mode # "W"
        /\ bf[b].cur /\ bf[b].pgno = p /\ bf[b].err \in {"ok", "pending"}
    BY DEF HintedReadLatch, CanShare, WriteOwned, Owns, FBFICurrentPage
  <2>2. bf[b].pv # 0
    BY <2>1, NilApart DEF CacheInv, DataSound, DataOf, Filled
  <2>3. QED
    BY <1>1, <2>1, <2>2
<1>5. Place(t)' /\ NoRead(t)'
  BY <1>2, <1>4, NilApart DEF Place, NoRead
<1>6. Hold(t)'
  BY <1>2, <1>4 DEF Hold, Has, FBFICurrentPage
<1>7. ThreadInv'
  <2>1. \A u \in Thread \ {t} : th[u].b = th'[t].b =>
           Compatible(th'[t].mode, th[u].mode) /\ Compatible(th[u].mode, th'[t].mode)
    BY <1>2, <1>4 DEF Compatible
  <2>2. QED
    BY <1>3, <1>5, <1>6, <2>1, ThreadStep
<1>8. QED
  BY <1>2, <1>3, <1>7 DEF Good

\* A thread becomes the owner of a buffer in mode m.
LEMMA LatchedStep ==
  ASSUME CacheType, CacheInv, ThreadType, ThreadInv, NEW t \in Thread, NEW b \in Buffer,
         NEW m \in {"S", "X", "W"}, th[t].pc \in {"wait", "upW"}, th[t].b = b, io[b] # "read",
         \A u \in Thread \ {t} : th[u].b = b => Compatible(m, th[u].mode) /\ Compatible(th[u].mode, m),
         Latched(t, b, m), UNCHANGED <<disk, hash, io, latest>>
  PROVE  Good' /\ Steady
<1> DEFINE f == IF m = "S" THEN bf ELSE FBFICompleteFlushPage(b)
<1>1. \A u \in Thread \ {t} : th[u].b = b /\ m # "S" => th[u].mode \in {"none", "S"}
  BY ThreadFields DEF Compatible, Modes
<1>2. CASE ~FBFICurrentPage(b, th[t].pg) /\ Retries(t) /\ UNCHANGED bf
  <2>1. \A u \in Thread \ {t} : th'[u] = th[u]
    BY <1>2, Gone DEF Retries, PCs, Modes
  <2>2. /\ CacheType' /\ CacheInv' /\ Steady
        /\ \A u \in Thread \ {t} : Undisturbed(u)
        /\ \A c \in Buffer : FaultOwned(c)'
    BY <1>2, <2>1, QuietMove
  <2>3. QED
    BY <1>2, <2>2, Retrying DEF Good
<1>3. CASE /\ FBFICurrentPage(b, th[t].pg) /\ m # "S" /\ ~FBFIUpdatablePage(f[b])
           /\ Goes(t, "copy", b, m) /\ UNCHANGED bf
  <2>1. bf[b].err = "pending"
    <3>1. f = FBFICompleteFlushPage(b) /\ f[b].err = "pending"
      BY <1>3 DEF FBFIUpdatablePage
    <3>2. CASE FlushEnded(b)
      BY <3>2 DEF FlushEnded
    <3>3. CASE ~FlushEnded(b)
      BY <3>1, <3>3 DEF FBFICompleteFlushPage
    <3>4. QED
      BY <3>2, <3>3
  <2>2. /\ \A u \in Thread \ {t} : th'[u] = th[u]
        /\ th'[t].pc = "copy" /\ th'[t].b = b /\ th'[t].mode = m /\ th'[t].pg = th[t].pg
    BY <1>3, Gone DEF PCs, Modes
  <2>3. /\ CacheType' /\ CacheInv' /\ Steady
        /\ \A u \in Thread \ {t} : Undisturbed(u)
        /\ \A c \in Buffer : FaultOwned(c)'
    BY <1>3, <2>2, QuietMove
  <2>4. Hold(t)' /\ bf'[b].pgno # Nil
    <3>1. bf' = bf /\ bf[b].cur /\ bf[b].pgno = th[t].pg /\ bf[b].pgno # Nil
      BY <1>3 DEF FBFICurrentPage, CacheInv, HashSound
    <3>2. QED
      BY <2>1, <2>2, <3>1 DEF Hold, Has, FBFICurrentPage
  <2>5. ThreadType' /\ ThreadInv'
    BY <1>3, <2>3, <2>4, GoesOn
  <2>6. QED
    BY <2>3, <2>5 DEF Good
<1>4. CASE /\ FBFICurrentPage(b, th[t].pg) /\ (m = "S" \/ FBFIUpdatablePage(f[b]))
           /\ f[b].err # "unverified" /\ bf' = f
           /\ IF f[b].err = "ioerr" /\ ~f[b].dirty THEN Leaves(t) ELSE Goes(t, "held", b, m)
  <2>1. \A u \in Thread \ {t} : th'[u] = th[u]
    BY <1>4, Gone, Left DEF PCs, Modes
  <2>2. /\ CacheType' /\ CacheInv' /\ Steady
        /\ \A u \in Thread \ {t} : Undisturbed(u)
        /\ \A c \in Buffer : FaultOwned(c)'
        /\ bf'[b].pgno = bf[b].pgno /\ bf'[b].cur = bf[b].cur
    <3>1. CASE m = "S"
      BY <1>4, <2>1, <3>1, QuietMove
    <3>2. CASE m # "S"
      <4>1. bf' = FBFICompleteFlushPage(b)
        BY <1>4, <3>2
      <4>2. /\ CacheType' /\ CacheInv' /\ Steady
            /\ \A u \in Thread \ {t} : Undisturbed(u)
            /\ \A c \in Buffer : FaultOwned(c)'
        BY <1>1, <2>1, <3>2, <4>1, QuietComplete
      <4>3. bf'[b].pgno = bf[b].pgno /\ bf'[b].cur = bf[b].cur
        BY <4>1, CompleteStep
      <4>4. QED
        BY <4>2, <4>3
    <3>3. QED
      BY <3>1, <3>2
  <2>3. CASE Leaves(t)
    BY <2>2, <2>3, Leaving DEF Good
  <2>4. CASE Goes(t, "held", b, m) /\ ~(f[b].err = "ioerr" /\ ~f[b].dirty)
    <3>1. th'[t].pc = "held" /\ th'[t].b = b /\ th'[t].mode = m /\ th'[t].pg = th[t].pg
      BY <2>4, Gone DEF PCs, Modes
    <3>2. bf'[b].err # "fault"
      <4>1. SUFFICES ASSUME bf'[b].err = "fault" PROVE FALSE
        OBVIOUS
      <4>2. PICK u \in Thread : th'[u].b = b /\ th'[u].pc = "read"
        BY <2>2, <4>1 DEF FaultOwned
      <4>3. u # t /\ th[u].b = b /\ th[u].pc = "read"
        BY <2>1, <3>1, <4>2
      <4>4. th[u].mode = "W"
        BY <4>3, ThreadFacts DEF Place
      <4>5. QED
        BY <4>3, <4>4 DEF Compatible
    <3>3. bf'[b].err \in Err /\ bf'[b].dirty \in BOOLEAN
      <4>1. bf'[b] \in BFs
        BY <2>2 DEF CacheType
      <4>2. QED
        BY <4>1 DEF BFs
    <3>4. bf'[b].err \in {"ok", "pending"} \/ (bf'[b].err = "ioerr" /\ bf'[b].dirty)
      BY <1>4, <2>4, <3>2, <3>3 DEF Err
    <3>5. bf'[b].cur /\ bf'[b].pgno = th[t].pg /\ bf'[b].pgno # Nil
      BY <1>4, <2>2 DEF FBFICurrentPage, CacheInv, HashSound
    <3>10. bf'[b].pv # 0
      BY <2>2, <3>4, <3>5 DEF CacheInv, DataSound, DataOf, Filled
    <3>6. m # "S" => bf'[b].err # "pending"
      BY <1>4 DEF FBFIUpdatablePage
    <3>7. Hold(t)'
      BY <3>1, <3>4, <3>5, <3>6, <3>10 DEF Hold, Has, FBFICurrentPage
    <3>8. ThreadType' /\ ThreadInv'
      BY <2>2, <2>4, <3>5, <3>7, GoesOn
    <3>9. QED
      BY <2>2, <3>8 DEF Good
  <2>5. QED
    BY <1>4, <2>3, <2>4
<1>5. ASSUME NEW e \in {"ok", "ioerr"}, FBFICurrentPage(b, th[t].pg), bf[b].err = "unverified",
             bf' = [bf EXCEPT ![b].err = e],
             IF e = "ioerr" THEN Leaves(t) ELSE Goes(t, "held", b, m)
      PROVE  Good' /\ Steady
  <2>1. \A u \in Thread \ {t} : th'[u] = th[u]
    BY <1>5, Gone, Left DEF PCs, Modes
  <2>2. /\ bf[b].cur /\ bf[b].pgno = th[t].pg /\ bf[b].pgno # Nil /\ ~bf[b].dirty /\ io[b] = "none"
        /\ bf[b].pv # 0
    <3>1. bf[b].cur /\ bf[b].pgno = th[t].pg /\ bf[b].pgno # Nil /\ ~bf[b].dirty /\ io[b] = "none"
      BY <1>5, Fields DEF FBFICurrentPage, CacheInv, HashSound, IOSound
    <3>2. QED
      BY <1>5, <3>1 DEF CacheInv, DataSound, DataOf, Filled
  <2>3. /\ bf' \in [Buffer -> BFs] /\ \A c \in Buffer \ {b} : bf'[c] = bf[c]
        /\ bf'[b].pgno = bf[b].pgno /\ bf'[b].cur = bf[b].cur /\ bf'[b].old = bf[b].old
        /\ bf'[b].dirty = bf[b].dirty /\ bf'[b].next = bf[b].next /\ bf'[b].prev = bf[b].prev
        /\ bf'[b].signal = bf[b].signal /\ bf'[b].pv = bf[b].pv /\ bf'[b].err = e
    <3>1. /\ bf'[b] = [bf[b] EXCEPT !.err = e] /\ bf[b] \in BFs
          /\ \A c \in Buffer \ {b} : bf'[c] = bf[c] /\ bf'[c] \in BFs
          /\ bf' = [c \in Buffer |-> bf'[c]]
      BY <1>5 DEF CacheType
    <3>2. bf'[b] \in BFs /\ bf'[b].err = e
          /\ bf'[b].pgno = bf[b].pgno /\ bf'[b].cur = bf[b].cur /\ bf'[b].old = bf[b].old
          /\ bf'[b].dirty = bf[b].dirty /\ bf'[b].signal = bf[b].signal
          /\ bf'[b].next = bf[b].next /\ bf'[b].prev = bf[b].prev
          /\ bf'[b].pv = bf[b].pv
      BY <3>1 DEF BFs, Err
    <3>3. bf' \in [Buffer -> BFs]
      BY <3>1, <3>2
    <3>4. QED
      BY <3>1, <3>2, <3>3
  <2>4. CacheType' /\ CacheInv'
    <3>1. bf'[b].pv = disk[bf[b].pgno]
      BY <2>2, <2>3 DEF CacheInv, DataSound, DataOf
    <3>2. io' = [io EXCEPT ![b] = "none"]
      BY <2>2 DEF CacheType
    <3>3. bf[b].err \in {"fault", "unverified"} /\ bf'[b].err \in {"ok", "unverified", "ioerr"}
      BY <1>5, <2>3
    <3>4. UNCHANGED <<disk, hash, latest>>
      OBVIOUS
    <3>5. QED
      BY <2>3, <3>1, <3>2, <3>3, <3>4, ReadCache
  <2>5. Steady
    BY <2>2, <2>3, SteadyDisk
  <2>6. ASSUME NEW u \in Thread \ {t} PROVE Undisturbed(u)
    <3>1. CASE th[u].b = b
      <4>1. th[u].pc \in {"wait", "upW"}
        <5>1. Place(u) /\ Hold(u) /\ th[u].pc \in PCs
          BY ThreadFacts, ThreadFields
        <5>2. QED
          BY <1>5, <2>2, <3>1, <5>1, NilApart DEF Place, Hold, Has, PCs
      <4>2. QED
        BY <2>1, <2>2, <2>3, <3>1, <4>1 DEF Undisturbed
    <3>2. CASE th[u].b # b
      BY <2>1, <2>3, <3>2, QuietUndisturbed
    <3>3. QED
      BY <3>1, <3>2
  <2>7. \A c \in Buffer : FaultOwned(c)'
    <3>1. \A c \in Buffer : bf'[c].err = "fault" => bf[c].err = "fault"
      BY <2>3
    <3>2. QED
      BY <2>1, <3>1, FaultKept
  <2>8. CASE Leaves(t)
    BY <2>4, <2>5, <2>6, <2>7, <2>8, Leaving DEF Good
  <2>9. CASE Goes(t, "held", b, m) /\ e = "ok"
    <3>1. th'[t].pc = "held" /\ th'[t].b = b /\ th'[t].mode = m /\ th'[t].pg = th[t].pg
      BY <2>9, Gone DEF PCs, Modes
    <3>2. Hold(t)'
      BY <2>2, <2>3, <2>9, <3>1 DEF Hold, Has, FBFICurrentPage
    <3>3. ThreadType' /\ ThreadInv'
      BY <2>2, <2>3, <2>6, <2>7, <2>9, <3>2, GoesOn
    <3>4. QED
      BY <2>4, <2>5, <3>3 DEF Good
  <2>10. QED
    BY <1>5, <2>8, <2>9
<1>6. CASE /\ FBFICurrentPage(b, th[t].pg) /\ bf[b].err = "unverified"
           /\ \E e \in {"ok"} \cup (IF MayFail THEN {"ioerr"} ELSE {}) :
                /\ bf' = [bf EXCEPT ![b].err = e]
                /\ IF e = "ioerr" THEN Leaves(t) ELSE Goes(t, "held", b, m)
  <2>1. PICK e \in {"ok", "ioerr"} : /\ bf' = [bf EXCEPT ![b].err = e]
                                     /\ IF e = "ioerr" THEN Leaves(t) ELSE Goes(t, "held", b, m)
    BY <1>6
  <2>2. QED
    BY <1>5, <1>6, <2>1
<1>7. QED
  BY <1>2, <1>3, <1>4, <1>6 DEF Latched

\* The latch is granted.
LEMMA GrantStep ==
  ASSUME CacheType, CacheInv, ThreadType, ThreadInv, NEW t \in Thread, LatchGranted(t)
  PROVE  Good' /\ Steady
<1> DEFINE b == th[t].b
<1>1. /\ th[t].pc = "wait" /\ th[t].b \in Buffer /\ th[t].req \in {"S", "X", "W"}
      /\ bf[th[t].b].pgno # Nil
  BY ThreadFacts, ThreadFields DEF LatchGranted, Place, Modes
<1>2. UNCHANGED <<disk, hash, io, latest>>
  BY DEF LatchGranted
<1>3. CASE th[t].req = "S"
  <2>1. io[b] # "read" /\ \A u \in Thread : th[u].b = b => th[u].mode # "W"
    BY <1>3 DEF LatchGranted, CanShare, WriteOwned, Owns
  <2>2. \A u \in Thread \ {t} : th[u].b = b => Compatible("S", th[u].mode) /\ Compatible(th[u].mode, "S")
    BY <2>1 DEF Compatible
  <2>3. Latched(t, b, "S")
    BY <1>3 DEF LatchGranted
  <2>4. QED
    BY <1>1, <1>2, <2>1, <2>2, <2>3, LatchedStep
<1>4. CASE th[t].req # "S"
  <2>1. io[b] # "read" /\ \A u \in Thread : th[u].b = b => th[u].mode \in {"none", "S"}
    BY <1>4, ThreadFields DEF LatchGranted, ExclusiveOwned, WriteOwned, Owns, Modes
  <2>2. \A u \in Thread \ {t} : th[u].b = b => Compatible("X", th[u].mode) /\ Compatible(th[u].mode, "X")
    BY <2>1 DEF Compatible
  <2>3. CASE th[t].req = "X"
    <3>1. Latched(t, b, "X")
      BY <2>3 DEF LatchGranted
    <3>2. QED
      BY <1>1, <1>2, <2>1, <2>2, <3>1, LatchedStep
  <2>4. CASE th[t].req = "W"
    <3>1. Goes(t, "upW", b, "X") /\ UNCHANGED bf
      BY <2>4 DEF LatchGranted
    <3>2. th'[t].pc = "upW" /\ \A u \in Thread \ {t} : th'[u] = th[u]
      BY <1>1, <3>1, Gone DEF PCs, Modes
    <3>3. /\ CacheType' /\ CacheInv' /\ Steady
          /\ \A u \in Thread \ {t} : Undisturbed(u)
          /\ \A c \in Buffer : FaultOwned(c)'
      BY <1>1, <1>2, <3>1, <3>2, QuietMove
    <3>4. Hold(t)' /\ bf'[b].pgno # Nil /\ io'[b] # "read"
      BY <1>1, <1>2, <2>1, <3>1, <3>2 DEF Hold, Has
    <3>5. ThreadType' /\ ThreadInv'
      BY <1>1, <2>2, <3>1, <3>3, <3>4, GoesOn
    <3>6. QED
      BY <3>3, <3>5 DEF Good
  <2>5. QED
    BY <1>1, <1>4, <2>3, <2>4
<1>5. QED
  BY <1>3, <1>4

\* The readers have left.
LEMMA UpgradeStep ==
  ASSUME CacheType, CacheInv, ThreadType, ThreadInv, NEW t \in Thread, LatchUpgraded(t)
  PROVE  Good' /\ Steady
<1>1. /\ th[t].pc = "upW" /\ th[t].b \in Buffer /\ th[t].mode = "X" /\ io[th[t].b] # "read"
  BY ThreadFacts, ThreadFields, NilApart DEF LatchUpgraded, Place, NoRead
<1>2. UNCHANGED <<disk, hash, io, latest>> /\ Latched(t, th[t].b, "W")
  BY DEF LatchUpgraded
<1>3. ~ReadersBut(t, th[t].b)
  BY DEF LatchUpgraded
<1>4. \A u \in Thread \ {t} : th[u].b = th[t].b => th[u].mode = "none"
  BY <1>1, <1>3, OwnersMode
<1>5. \A u \in Thread \ {t} : th[u].b = th[t].b =>
         Compatible("W", th[u].mode) /\ Compatible(th[u].mode, "W")
  BY <1>4 DEF Compatible
<1>6. QED
  BY <1>1, <1>2, <1>5, LatchedStep

\* The page is copied for a latch request.
LEMMA CopyForLatchStep ==
  ASSUME CacheType, CacheInv, ThreadType, ThreadInv, NEW t \in Thread, VersionCopyForLatch(t)
  PROVE  Good' /\ Steady
<1> DEFINE b == th[t].b
<1>1. /\ th[t].pc = "copy" /\ b \in Buffer /\ th[t].mode \in {"X", "W"}
      /\ bf[b].cur /\ bf[b].err = "pending"
  BY ThreadFacts, ThreadFields DEF VersionCopyForLatch, Place, Hold, FBFICurrentPage
<1>3. ~ReadersBut(t, b) /\ UNCHANGED <<disk, io, latest>>
  BY DEF VersionCopyForLatch
<1>4. \A u \in Thread \ {t} : th[u].b = b => th[u].mode = "none"
  BY <1>1, <1>3, OwnersMode
<1>5. CASE \E n \in Buffer : /\ Available(n) /\ bf' = VersionCopied(bf, n, b)
                             /\ hash' = [hash EXCEPT ![bf[b].pgno] = n]
                             /\ Retries(t)
  <2>1. PICK n \in Buffer : /\ Available(n) /\ bf' = VersionCopied(bf, n, b)
                            /\ hash' = [hash EXCEPT ![bf[b].pgno] = n]
                            /\ Retries(t)
    BY <1>5
  <2>2. \A u \in Thread \ {t} : th'[u] = th[u]
    BY <2>1, Gone DEF Retries, PCs, Modes
  <2>3. /\ CacheType' /\ CacheInv' /\ Steady
        /\ \A u \in Thread \ {t} : Undisturbed(u)
        /\ \A c \in Buffer : FaultOwned(c)'
    BY <1>1, <1>3, <1>4, <2>1, <2>2, QuietCopy
  <2>4. QED
    BY <1>1, <2>1, <2>3, Retrying DEF Good
<1>6. CASE Leaves(t) /\ UNCHANGED <<bf, hash>>
  <2>1. \A u \in Thread \ {t} : th'[u] = th[u]
    BY <1>6, Left
  <2>2. /\ CacheType' /\ CacheInv' /\ Steady
        /\ \A u \in Thread \ {t} : Undisturbed(u)
        /\ \A c \in Buffer : FaultOwned(c)'
    BY <1>1, <1>3, <1>6, <2>1, QuietMove
  <2>3. QED
    BY <1>6, <2>2, Leaving DEF Good
<1>7. QED
  BY <1>5, <1>6 DEF VersionCopyForLatch

\* A buffer for a page that is not cached.
LEMMA QuietCached ==
  ASSUME CacheType, CacheInv, ThreadType, ThreadInv, NEW p \in Page, NEW b \in Buffer,
         hash[p] = Nil, Available(b), hash' = [hash EXCEPT ![p] = b],
         bf' = [bf EXCEPT ![b] = [Free EXCEPT !.pgno = p, !.cur = TRUE, !.err = "fault"]],
         io' \in [Buffer -> {"none", "read", "write"}],
         io'[b] \in {"none", "read"}, \A c \in Buffer \ {b} : io'[c] = io[c],
         UNCHANGED <<disk, latest>>
  PROVE  /\ CacheType' /\ CacheInv' /\ Steady
         /\ \A u \in Thread : th[u].b # b /\ (th'[u] = th[u] => Undisturbed(u))
         /\ \A c \in Buffer \ {b} : bf'[c] = bf[c]
         /\ bf'[b].cur /\ bf'[b].pgno = p /\ bf'[b].err = "fault"
         /\ io[b] = "none"
<1>1. /\ CacheType' /\ CacheInv'
      /\ \A c \in Buffer \ {b} : bf'[c] = bf[c]
      /\ bf'[b].pgno = p /\ bf'[b].cur = TRUE /\ bf'[b].err = "fault"
  BY CachedCache
<1>2. bf[b].pgno = Nil /\ io[b] = "none"
  BY AvailableFields DEF CacheInv, HashSound
<1>3. \A u \in Thread : th[u].b # b
  BY <1>2, ThreadFacts, NilApart DEF Place
<1>4. Steady
  <2>1. ASSUME NEW c \in Buffer, io[c] = "write"
        PROVE  bf'[c].pv = bf[c].pv /\ bf'[c].pgno = bf[c].pgno
    BY <1>1, <1>2, <2>1
  <2>2. QED
    BY <2>1, SteadyDisk
<1>5. ASSUME NEW u \in Thread, th'[u] = th[u] PROVE Undisturbed(u)
  <2>1. \A c \in Buffer : th[u].b = c =>
            /\ bf'[c].pgno = bf[c].pgno /\ bf'[c].cur = bf[c].cur
            /\ bf'[c].dirty = bf[c].dirty /\ bf'[c].err = bf[c].err
            /\ bf'[c].pv = bf[c].pv /\ (bf[c].prev # Nil => bf'[c].prev # Nil)
            /\ io'[c] = "read" => io[c] = "read"
    BY <1>1, <1>3
  <2>2. QED
    BY <1>5, <2>1, QuietUndisturbed
<1>6. QED
  BY <1>1, <1>2, <1>3, <1>4, <1>5

\* A thread reads a page into a buffer.
LEMMA CachePageStep ==
  ASSUME CacheType, CacheInv, ThreadType, ThreadInv, NEW t \in Thread, ErrBFICachePage(t)
  PROVE  Good' /\ Steady
<1>1. th[t].pc = "miss" /\ th[t].pg \in Page
  BY ThreadFacts, ThreadFields DEF ErrBFICachePage, Place
<1>2. UNCHANGED <<disk, io, latest>>
  BY DEF ErrBFICachePage
<1>3. CASE \E b \in Buffer :
             /\ Available(b) /\ hash[th[t].pg] = Nil
             /\ hash' = [hash EXCEPT ![th[t].pg] = b]
             /\ bf' = [bf EXCEPT ![b] = [Free EXCEPT !.pgno = th[t].pg, !.cur = TRUE, !.err = "fault"]]
             /\ Goes(t, "read", b, "W")
  <2>1. PICK b \in Buffer :
             /\ Available(b) /\ hash[th[t].pg] = Nil
             /\ hash' = [hash EXCEPT ![th[t].pg] = b]
             /\ bf' = [bf EXCEPT ![b] = [Free EXCEPT !.pgno = th[t].pg, !.cur = TRUE, !.err = "fault"]]
             /\ Goes(t, "read", b, "W")
    BY <1>3
  <2>2. /\ \A u \in Thread \ {t} : th'[u] = th[u]
        /\ th'[t].pc = "read" /\ th'[t].b = b /\ th'[t].mode = "W" /\ th'[t].pg = th[t].pg
    BY <2>1, Gone DEF PCs, Modes
  <2>3. /\ io' \in [Buffer -> {"none", "read", "write"}] /\ io'[b] \in {"none", "read"}
        /\ \A c \in Buffer \ {b} : io'[c] = io[c]
    <3>1. io[b] = "none"
      BY <2>1, AvailableFields DEF CacheInv, HashSound
    <3>2. QED
      BY <1>2, <3>1 DEF CacheType
  <2>4. /\ CacheType' /\ CacheInv' /\ Steady
        /\ \A u \in Thread : th[u].b # b /\ (th'[u] = th[u] => Undisturbed(u))
        /\ \A c \in Buffer \ {b} : bf'[c] = bf[c]
        /\ bf'[b].cur /\ bf'[b].pgno = th[t].pg /\ bf'[b].err = "fault"
        /\ io[b] = "none"
    BY <1>1, <1>2, <2>1, <2>3, QuietCached
  <2>5. \A c \in Buffer : FaultOwned(c)'
    <3>1. FaultOwned(b)'
      BY <2>2 DEF FaultOwned
    <3>2. ASSUME NEW c \in Buffer \ {b} PROVE FaultOwned(c)'
      BY <1>1, <1>2, <2>2, <2>4 DEF FaultOwned, ThreadInv, HoldSound
    <3>3. QED
      BY <3>1, <3>2
  <2>6. Hold(t)'
    BY <2>2, <2>4 DEF Hold, Has, FBFICurrentPage
  <2>7. bf'[b].pgno # Nil /\ io'[b] # "read"
    BY <1>1, <1>2, <2>4, NilApart
  <2>8. ThreadType' /\ ThreadInv'
    BY <1>1, <2>1, <2>2, <2>4, <2>5, <2>6, <2>7, GoesOn
  <2>9. QED
    BY <2>4, <2>8 DEF Good
<1>4. CASE Retries(t) /\ UNCHANGED <<hash, bf>>
  <2>1. \A u \in Thread \ {t} : th'[u] = th[u]
    BY <1>4, Gone DEF Retries, PCs, Modes
  <2>2. /\ CacheType' /\ CacheInv' /\ Steady
        /\ \A u \in Thread \ {t} : Undisturbed(u)
        /\ \A c \in Buffer : FaultOwned(c)'
    BY <1>1, <1>2, <1>4, <2>1, QuietMove
  <2>3. QED
    BY <1>1, <1>4, <2>2, Retrying DEF Good
<1>5. CASE Leaves(t) /\ UNCHANGED <<hash, bf>>
  <2>1. \A u \in Thread \ {t} : th'[u] = th[u]
    BY <1>5, Left
  <2>2. /\ CacheType' /\ CacheInv' /\ Steady
        /\ \A u \in Thread \ {t} : Undisturbed(u)
        /\ \A c \in Buffer : FaultOwned(c)'
    BY <1>1, <1>2, <1>5, <2>1, QuietMove
  <2>3. QED
    BY <1>5, <2>2, Leaving DEF Good
<1>6. QED
  BY <1>3, <1>4, <1>5 DEF ErrBFICachePage

\* The page is read under the write latch.
LEMMA SyncReadStep ==
  ASSUME CacheType, CacheInv, ThreadType, ThreadInv, NEW t \in Thread, BFISyncRead(t)
  PROVE  Good' /\ Steady
<1> DEFINE b == th[t].b
<1>1. /\ th[t].pc = "read" /\ b \in Buffer /\ th[t].mode = "W" /\ io[b] # "read"
      /\ bf[b].cur /\ bf[b].pgno = th[t].pg /\ bf[b].err = "fault" /\ th[t].req \in {"S", "X", "W"}
  BY ThreadFacts, ThreadFields, NilApart
     DEF BFISyncRead, Place, Hold, NoRead, FBFICurrentPage, Modes
<1>2. UNCHANGED <<disk, hash, io, latest>>
  BY DEF BFISyncRead
<1>3. bf[b].pgno \in Page /\ io[b] = "none" /\ disk[bf[b].pgno] \in Content
  BY <1>1, Fields DEF CacheInv, HashSound, IOSound, CacheType
<1>4. \A u \in Thread \ {t} : th[u].b = b => th[u].mode = "none"
  BY <1>1, OwnersMode
<1>5. PICK e \in {"ok", "ioerr"}, pv \in Content :
        /\ bf' = [bf EXCEPT ![b] = [@ EXCEPT !.err = e, !.pv = pv]]
        /\ IF e = "ok" THEN pv = disk[bf[b].pgno] /\ Goes(t, "held", b, th[t].req)
                      ELSE pv = bf[b].pv /\ Leaves(t)
  <2>1. CASE /\ bf' = [bf EXCEPT ![b] = [@ EXCEPT !.err = "ok", !.pv = disk[bf[b].pgno]]]
             /\ Goes(t, "held", b, th[t].req)
    BY <1>3, <2>1
  <2>2. CASE bf' = [bf EXCEPT ![b].err = "ioerr"] /\ Leaves(t)
    <3>1. bf[b] \in BFs /\ bf[b].pv \in Content
      BY <1>1, Fields DEF CacheType
    <3>2. [bf[b] EXCEPT !.err = "ioerr"] = [bf[b] EXCEPT !.err = "ioerr", !.pv = bf[b].pv]
      BY <3>1 DEF BFs
    <3>3. bf' = [bf EXCEPT ![b] = [@ EXCEPT !.err = "ioerr", !.pv = bf[b].pv]]
      BY <2>2, <3>2
    <3>4. QED
      BY <2>2, <3>1, <3>3
  <2>3. QED
    BY <2>1, <2>2 DEF BFISyncRead
<1>6. /\ bf' \in [Buffer -> BFs] /\ \A c \in Buffer \ {b} : bf'[c] = bf[c]
      /\ bf'[b].pgno = bf[b].pgno /\ bf'[b].cur = bf[b].cur /\ bf'[b].old = bf[b].old
      /\ bf'[b].dirty = bf[b].dirty /\ bf'[b].next = bf[b].next /\ bf'[b].prev = bf[b].prev
      /\ bf'[b].signal = bf[b].signal /\ bf'[b].pv = pv /\ bf'[b].err = e
  <2>1. /\ bf'[b] = [bf[b] EXCEPT !.err = e, !.pv = pv] /\ bf[b] \in BFs
        /\ \A c \in Buffer \ {b} : bf'[c] = bf[c] /\ bf'[c] \in BFs
        /\ bf' = [c \in Buffer |-> bf'[c]]
    BY <1>1, <1>5 DEF CacheType
  <2>2. bf'[b] \in BFs /\ bf'[b].err = e /\ bf'[b].pv = pv
        /\ bf'[b].pgno = bf[b].pgno /\ bf'[b].cur = bf[b].cur /\ bf'[b].old = bf[b].old
        /\ bf'[b].dirty = bf[b].dirty /\ bf'[b].signal = bf[b].signal
        /\ bf'[b].next = bf[b].next /\ bf'[b].prev = bf[b].prev
    <3>1. e \in Err
      BY DEF Err
    <3> HIDE DEF b
    <3>2. QED
      BY <2>1, <3>1 DEF BFs
  <2>3. bf' \in [Buffer -> BFs]
    BY <2>1, <2>2
  <2>4. QED
    BY <2>1, <2>2, <2>3
<1>7. CacheType' /\ CacheInv'
  <2>1. io' = [io EXCEPT ![b] = "none"]
    BY <1>2, <1>3 DEF CacheType
  <2>2. /\ bf[b].err \in {"fault", "unverified"} /\ bf'[b].err \in {"ok", "unverified", "ioerr"}
        /\ bf'[b].pv = disk[bf[b].pgno] \/ (bf'[b].err = "ioerr" /\ bf'[b].pv = bf[b].pv)
    BY <1>1, <1>5, <1>6
  <2>3. UNCHANGED <<disk, hash, latest>>
    BY <1>2
  <2>4. QED
    BY <1>1, <1>6, <2>1, <2>2, <2>3, ReadCache
<1>8. Steady
  <2>1. ASSUME NEW c \in Buffer, io[c] = "write"
        PROVE  bf'[c].pv = bf[c].pv /\ bf'[c].pgno = bf[c].pgno
    BY <1>3, <1>6, <2>1
  <2>2. QED
    BY <1>2, <2>1, SteadyDisk
<1>9. \A u \in Thread \ {t} : th'[u] = th[u]
  BY <1>1, <1>5, Gone, Left DEF PCs, Modes
<1>10. ASSUME NEW u \in Thread \ {t} PROVE Undisturbed(u)
  <2>1. \A c \in Buffer \ {b} : th[u].b = c =>
            /\ bf'[c].pgno = bf[c].pgno /\ bf'[c].cur = bf[c].cur
            /\ bf'[c].dirty = bf[c].dirty /\ bf'[c].err = bf[c].err
            /\ bf'[c].pv = bf[c].pv /\ (bf[c].prev # Nil => bf'[c].prev # Nil)
            /\ io'[c] = "read" => io[c] = "read"
    BY <1>2, <1>6
  <2>2. th[u].b = b => th[u].mode = "none" /\ bf'[b].pgno # Nil
    BY <1>3, <1>4, <1>6, NilApart
  <2>3. th'[u] = th[u] /\ b \in Buffer
    BY <1>1, <1>9
  <2> HIDE DEF b
  <2>4. QED
    BY <2>1, <2>2, <2>3, WaitingUndisturbed
<1>11. ASSUME NEW c \in Buffer PROVE FaultOwned(c)'
  <2>1. CASE c = b
    BY <1>6, <2>1 DEF FaultOwned
  <2>2. CASE c # b
    BY <1>2, <1>6, <1>9, <2>2 DEF FaultOwned, ThreadInv, HoldSound
  <2>3. QED
    BY <2>1, <2>2
<1>12. CASE e = "ok"
  <2>1. Goes(t, "held", b, th[t].req)
    BY <1>5, <1>12
  <2>2. th'[t].pc = "held" /\ th'[t].b = b /\ th'[t].mode = th[t].req /\ th'[t].pg = th[t].pg
    BY <1>1, <2>1, Gone DEF PCs, Modes
  <2>3. Hold(t)'
    <3>1. bf'[b].pv # 0
      BY <1>3, <1>5, <1>6, <1>12 DEF CacheInv, DataSound
    <3>2. QED
      BY <1>1, <1>6, <1>12, <2>2, <3>1 DEF Hold, Has, FBFICurrentPage
  <2>4. bf'[b].pgno # Nil /\ io'[b] # "read"
    BY <1>1, <1>2, <1>3, <1>6, NilApart
  <2>5. \A u \in Thread \ {t} : th[u].b = b =>
           Compatible(th[t].req, th[u].mode) /\ Compatible(th[u].mode, th[t].req)
    BY <1>4 DEF Compatible
  <2>6. ThreadType' /\ ThreadInv'
    BY <1>1, <1>10, <1>11, <2>1, <2>3, <2>4, <2>5, GoesOn
  <2>7. QED
    BY <1>7, <1>8, <2>6 DEF Good
<1>13. CASE e = "ioerr"
  <2>1. ThreadType' /\ ThreadInv'
    BY <1>5, <1>10, <1>11, <1>13, Leaving
  <2>2. QED
    BY <1>7, <1>8, <2>1 DEF Good
<1>14. QED
  BY <1>12, <1>13

\* The page is changed.
LEMMA DirtyStep ==
  ASSUME CacheType, CacheInv, ThreadType, ThreadInv, NEW t \in Thread, BFDirty(t)
  PROVE  Good' /\ Steady
<1> DEFINE b == th[t].b
<1>1. /\ th[t].pc = "held" /\ b \in Buffer /\ th[t].mode = "W"
      /\ bf[b].cur /\ bf[b].pgno = th[t].pg /\ bf[b].pgno # Nil
      /\ bf[b].err \notin {"pending", "fault", "unverified"} /\ bf[b].pv # 0
  BY ThreadFacts, ThreadFields DEF BFDirty, Place, Hold, Has, FBFICurrentPage
<1>2. bf[b].err \in {"ok", "ioerr"} /\ io[b] # "write"
  BY <1>1, Fields DEF CacheInv, IOSound, Err
<1>3. /\ bf' = [bf EXCEPT ![b] = [@ EXCEPT !.dirty = TRUE, !.pv = bf[b].pv + 1]]
      /\ latest' = [latest EXCEPT ![bf[b].pgno] = @ + 1]
      /\ latest[bf[b].pgno] <= MaxUpdate
      /\ UNCHANGED <<disk, hash, io, th>>
  BY <1>1 DEF BFDirty
<1>4. /\ CacheType' /\ CacheInv'
      /\ \A c \in Buffer \ {b} : bf'[c] = bf[c]
      /\ bf'[b].pgno = bf[b].pgno /\ bf'[b].cur = bf[b].cur /\ bf'[b].err = bf[b].err
      /\ bf'[b].dirty /\ bf'[b].pv # 0
  <2>1. UNCHANGED <<disk, hash, io>>
    BY <1>3
  <2> HIDE DEF b
  <2>2. /\ CacheType' /\ CacheInv'
        /\ \A c \in Buffer \ {b} : bf'[c] = bf[c]
        /\ bf'[b].pgno = bf[b].pgno /\ bf'[b].cur = bf[b].cur /\ bf'[b].err = bf[b].err
        /\ bf'[b].dirty
    BY <1>1, <1>2, <1>3, <2>1, DirtyCache
  <2>3. bf'[b].pv # 0
    BY <1>1, <2>2 DEF CacheInv, DataSound, DataOf, Filled
  <2>4. QED
    BY <2>2, <2>3
<1>5. Steady
  <2>1. ASSUME NEW c \in Buffer, io[c] = "write"
        PROVE  bf'[c].pv = bf[c].pv /\ bf'[c].pgno = bf[c].pgno
    BY <1>2, <1>4, <2>1
  <2>2. QED
    BY <1>3, <2>1, SteadyDisk
<1>6. \A u \in Thread \ {t} : th[u].b = b => th[u].mode = "none"
  BY <1>1, OwnersMode
<1>7. ASSUME NEW u \in Thread \ {t} PROVE Undisturbed(u)
  <2>1. \A c \in Buffer \ {b} : th[u].b = c =>
            /\ bf'[c].pgno = bf[c].pgno /\ bf'[c].cur = bf[c].cur
            /\ bf'[c].dirty = bf[c].dirty /\ bf'[c].err = bf[c].err
            /\ bf'[c].pv = bf[c].pv /\ (bf[c].prev # Nil => bf'[c].prev # Nil)
            /\ io'[c] = "read" => io[c] = "read"
    BY <1>3, <1>4
  <2>2. th[u].b = b => th[u].mode = "none" /\ bf'[b].pgno # Nil
    BY <1>1, <1>4, <1>6
  <2>3. th'[u] = th[u] /\ b \in Buffer
    BY <1>1, <1>3
  <2> HIDE DEF b
  <2>4. QED
    BY <2>1, <2>2, <2>3, WaitingUndisturbed
<1>8. \A c \in Buffer : FaultOwned(c)'
  <2>1. \A c \in Buffer : bf'[c].err = "fault" => bf[c].err = "fault"
    BY <1>4
  <2>2. QED
    BY <1>1, <1>3, <2>1, FaultKept
<1>9. Place(t)' /\ NoRead(t)' /\ Hold(t)'
  <2>1. th' = th /\ io' = io /\ Place(t) /\ NoRead(t) /\ Hold(t)
    BY <1>3, ThreadFacts
  <2>2. Place(t)' /\ NoRead(t)'
    BY <1>1, <1>4, <2>1 DEF Place, NoRead
  <2>3. Hold(t)'
    BY <1>1, <1>4, <2>1 DEF Hold, Has, FBFICurrentPage
  <2>4. QED
    BY <2>2, <2>3
<1>10. ThreadType' /\ ThreadInv'
  <2>1. \A u \in Thread \ {t} : th[u].b = th'[t].b =>
           Compatible(th'[t].mode, th[u].mode) /\ Compatible(th[u].mode, th'[t].mode)
    BY <1>3, <1>6 DEF Compatible
  <2>2. ThreadInv'
    BY <1>7, <1>8, <1>9, <2>1, ThreadStep
  <2>3. QED
    BY <1>3, <2>2 DEF ThreadType
<1>11. QED
  BY <1>4, <1>5, <1>10 DEF Good

\* A client that owns the page exclusively may change it or has to copy it.
LEMMA MaintStep ==
  ASSUME CacheType, CacheInv, ThreadType, ThreadInv, NEW t \in Thread, NEW b \in Buffer,
         NEW m \in {"X", "W"}, th[t].pc \in {"held", "readW"}, th[t].b = b, io[b] # "read",
         \A u \in Thread \ {t} : th[u].b = b =>
            IF m = "X" THEN th[u].mode \in {"none", "S"} ELSE th[u].mode = "none",
         MaintImpedingPageLatch(t, b, m), UNCHANGED <<disk, hash, io, latest>>
  PROVE  Good' /\ Steady
<1>1. /\ bf[b].cur /\ bf[b].pgno = th[t].pg /\ bf[b].pgno # Nil
      /\ bf[b].err \notin {"fault", "unverified"} /\ bf[b].pv # 0
  BY ThreadFacts DEF Hold, Has, FBFICurrentPage, CacheInv, HashSound
<1>2. PICK pc \in {"held", "mcopy"} :
        /\ bf' = FBFICompleteFlushPage(b) /\ Goes(t, pc, b, m)
        /\ pc = "held" => bf'[b].err # "pending"
        /\ pc = "mcopy" => bf'[b].err = "pending" \/ bf'[b].dirty
  BY DEF MaintImpedingPageLatch, FBFIUpdatablePage, MayImpede
<1>3. /\ \A u \in Thread \ {t} : th'[u] = th[u]
      /\ th'[t].pc = pc /\ th'[t].b = b /\ th'[t].mode = m /\ th'[t].pg = th[t].pg
  BY <1>2, Gone DEF PCs, Modes
<1>4. \A u \in Thread \ {t} : th[u].b = b => th[u].mode \in {"none", "S"}
  OBVIOUS
<1>5. /\ CacheType' /\ CacheInv' /\ Steady
      /\ \A u \in Thread \ {t} : Undisturbed(u)
      /\ \A c \in Buffer : FaultOwned(c)'
  BY <1>2, <1>3, <1>4, QuietComplete
<1>6. /\ bf'[b].pgno = bf[b].pgno /\ bf'[b].cur = bf[b].cur /\ bf'[b].pv = bf[b].pv
      /\ bf' = bf \/ (FlushEnded(b) /\ bf'[b].err \in {"ok", "ioerr"})
  BY <1>2, CompleteStep
<1>7. bf'[b].err \notin {"fault", "unverified"} /\ bf'[b].pv # 0
  BY <1>1, <1>6
<1>9. Hold(t)'
  BY <1>1, <1>2, <1>3, <1>6, <1>7 DEF Hold, Has, FBFICurrentPage
<1>10. \A u \in Thread \ {t} : th[u].b = b => Compatible(m, th[u].mode) /\ Compatible(th[u].mode, m)
  BY DEF Compatible
<1>11. ThreadType' /\ ThreadInv'
  BY <1>1, <1>2, <1>5, <1>6, <1>9, <1>10, GoesOn
<1>12. QED
  BY <1>5, <1>11 DEF Good

\* What a thread that has a page has.
LEMMA Holder ==
  ASSUME CacheType, CacheInv, ThreadType, ThreadInv, NEW t \in Thread, Has(t)
  PROVE  /\ th[t].b \in Buffer /\ th[t].mode \in {"S", "X", "W"} /\ io[th[t].b] # "read"
         /\ bf[th[t].b].cur /\ bf[th[t].b].pgno = th[t].pg /\ bf[th[t].b].pgno # Nil
         /\ bf[th[t].b].err \notin {"fault", "unverified"} /\ bf[th[t].b].pv # 0
<1>1. th[t].b \in Buffer /\ th[t].mode \in {"S", "X", "W"}
  BY ThreadFacts, ThreadFields DEF Place, Has, Modes
<1>2. io[th[t].b] # "read"
  BY <1>1, ThreadFacts, NilApart DEF NoRead
<1>3. QED
  BY <1>1, <1>2, ThreadFacts, NilApart DEF Hold, Place, FBFICurrentPage

\* A read latch is upgraded to an RDW latch.
LEMMA ReadToRDWStep ==
  ASSUME CacheType, CacheInv, ThreadType, ThreadInv, NEW t \in Thread,
         ErrBFUpgradeReadLatchToRDWLatch(t)
  PROVE  Good' /\ Steady
<1>1. /\ th[t].pc = "held" /\ th[t].b \in Buffer /\ io[th[t].b] # "read"
  BY Holder DEF ErrBFUpgradeReadLatchToRDWLatch, Has
<1>2. \A u \in Thread \ {t} : th[u].b = th[t].b => th[u].mode \in {"none", "S"}
  BY ThreadFields
     DEF ErrBFUpgradeReadLatchToRDWLatch, CanTryExclusive, ExclusiveOwned, WriteOwned, Owns, Modes
<1>3. MaintImpedingPageLatch(t, th[t].b, "X") /\ UNCHANGED <<disk, hash, io, latest>>
  BY DEF ErrBFUpgradeReadLatchToRDWLatch
<1>4. QED
  BY <1>1, <1>2, <1>3, MaintStep

\* A read latch is upgraded to a write latch.
LEMMA ReadToWriteStep ==
  ASSUME CacheType, CacheInv, ThreadType, ThreadInv, NEW t \in Thread,
         ErrBFUpgradeReadLatchToWriteLatch(t)
  PROVE  Good' /\ Steady
<1> DEFINE b == th[t].b
<1>1. /\ th[t].pc = "held" /\ b \in Buffer /\ io[b] # "read"
      /\ bf[b].cur /\ bf[b].pgno = th[t].pg /\ bf[b].pgno # Nil
      /\ bf[b].err \notin {"fault", "unverified"} /\ bf[b].pv # 0
  BY Holder DEF ErrBFUpgradeReadLatchToWriteLatch, Has
<1>2. \A u \in Thread \ {t} : th[u].b = b => th[u].mode \in {"none", "S"}
  BY ThreadFields
     DEF ErrBFUpgradeReadLatchToWriteLatch, CanTryExclusive, ExclusiveOwned, WriteOwned, Owns, Modes
<1>3. Goes(t, "readW", b, "X") /\ UNCHANGED <<disk, hash, bf, io, latest>>
  BY DEF ErrBFUpgradeReadLatchToWriteLatch
<1>4. /\ \A u \in Thread \ {t} : th'[u] = th[u]
      /\ th'[t].pc = "readW" /\ th'[t].b = b /\ th'[t].mode = "X" /\ th'[t].pg = th[t].pg
  BY <1>1, <1>3, Gone DEF PCs, Modes
<1>5. /\ CacheType' /\ CacheInv' /\ Steady
      /\ \A u \in Thread \ {t} : Undisturbed(u)
      /\ \A c \in Buffer : FaultOwned(c)'
  BY <1>1, <1>3, <1>4, QuietMove
<1>6. Hold(t)' /\ bf'[b].pgno # Nil /\ io'[b] # "read"
  BY <1>1, <1>3, <1>4 DEF Hold, Has, FBFICurrentPage
<1>7. \A u \in Thread \ {t} : th[u].b = b => Compatible("X", th[u].mode) /\ Compatible(th[u].mode, "X")
  BY <1>2 DEF Compatible
<1>8. ThreadType' /\ ThreadInv'
  BY <1>1, <1>3, <1>5, <1>6, <1>7, GoesOn
<1>9. QED
  BY <1>5, <1>8 DEF Good

\* The upgrade of a read latch comes to its end.
LEMMA ReadUpgradedStep ==
  ASSUME CacheType, CacheInv, ThreadType, ThreadInv, NEW t \in Thread, ReadLatchUpgraded(t)
  PROVE  Good' /\ Steady
<1> DEFINE b == th[t].b
<1>1. /\ th[t].pc = "readW" /\ b \in Buffer /\ io[b] # "read" /\ th[t].mode = "X"
      /\ bf[b].cur /\ bf[b].pgno = th[t].pg /\ bf[b].pgno # Nil
      /\ bf[b].pv # 0
  BY Holder, ThreadFacts DEF ReadLatchUpgraded, Has, Place
<1>2. ~ReadersBut(t, b) /\ UNCHANGED <<disk, hash, io, latest>>
  BY DEF ReadLatchUpgraded
<1>3. \A u \in Thread \ {t} : th[u].b = b => th[u].mode = "none"
  BY <1>1, <1>2, OwnersMode
<1>4. CASE MaintImpedingPageLatch(t, b, "W")
  BY <1>1, <1>2, <1>3, <1>4, MaintStep
<1>5. CASE bf[b].err = "pending" /\ Goes(t, "held", b, "S") /\ UNCHANGED bf
  <2>1. /\ \A u \in Thread \ {t} : th'[u] = th[u]
        /\ th'[t].pc = "held" /\ th'[t].b = b /\ th'[t].mode = "S" /\ th'[t].pg = th[t].pg
    BY <1>1, <1>5, Gone DEF PCs, Modes
  <2>2. /\ CacheType' /\ CacheInv' /\ Steady
        /\ \A u \in Thread \ {t} : Undisturbed(u)
        /\ \A c \in Buffer : FaultOwned(c)'
    BY <1>1, <1>2, <1>5, <2>1, QuietMove
  <2>3. Hold(t)' /\ bf'[b].pgno # Nil /\ io'[b] # "read"
    BY <1>1, <1>2, <1>5, <2>1 DEF Hold, Has, FBFICurrentPage
  <2>4. \A u \in Thread \ {t} : th[u].b = b => Compatible("S", th[u].mode) /\ Compatible(th[u].mode, "S")
    BY <1>3 DEF Compatible
  <2>5. ThreadType' /\ ThreadInv'
    BY <1>1, <1>5, <2>2, <2>3, <2>4, GoesOn
  <2>6. QED
    BY <2>2, <2>5 DEF Good
<1>6. QED
  BY <1>4, <1>5 DEF ReadLatchUpgraded, FBFIUpdatablePage

\* The upgrade of a latch copies the page to a new version first.
LEMMA CopyForUpgradeStep ==
  ASSUME CacheType, CacheInv, ThreadType, ThreadInv, NEW t \in Thread, VersionCopyForUpgrade(t)
  PROVE  Good' /\ Steady
<1>0. PICK b \in Buffer : b = th[t].b
  BY Holder DEF VersionCopyForUpgrade, Has
<1>1. /\ th[t].pc = "mcopy" /\ io[b] # "read" /\ th[t].mode \in {"X", "W"}
      /\ bf[b].cur /\ bf[b].pgno = th[t].pg /\ bf[b].pgno # Nil
      /\ bf[b].err \notin {"fault", "unverified"} /\ bf[b].pv # 0
      /\ bf[b].dirty \/ bf[b].err = "pending"
  BY <1>0, Holder, ThreadFacts DEF VersionCopyForUpgrade, Has, Place, Hold
<1>2. ~ReadersBut(t, b) /\ UNCHANGED <<disk, io, latest>>
  BY <1>0 DEF VersionCopyForUpgrade
<1>3. \A u \in Thread \ {t} : th[u].b = b => th[u].mode = "none"
  BY <1>0, <1>1, <1>2, OwnersMode
<1>4. CASE \E n \in Buffer : /\ Available(n) /\ bf' = VersionCopied(bf, n, b)
                             /\ hash' = [hash EXCEPT ![bf[b].pgno] = n]
                             /\ Goes(t, "held", n, "S")
  <2>1. PICK n \in Buffer : /\ Available(n) /\ bf' = VersionCopied(bf, n, b)
                            /\ hash' = [hash EXCEPT ![bf[b].pgno] = n]
                            /\ Goes(t, "held", n, "S")
    BY <1>4
  <2>2. /\ \A u \in Thread \ {t} : th'[u] = th[u]
        /\ th'[t].pc = "held" /\ th'[t].b = n /\ th'[t].mode = "S" /\ th'[t].pg = th[t].pg
    BY <2>1, Gone DEF PCs, Modes
  <2>3. /\ CacheType' /\ CacheInv' /\ Steady
        /\ \A u \in Thread \ {t} : Undisturbed(u)
        /\ \A c \in Buffer : FaultOwned(c)'
        /\ bf'[n].cur /\ bf'[n].pgno = bf[b].pgno /\ bf'[n].err \in {"ok", "ioerr"}
        /\ bf'[n].pv # 0
        /\ bf'[n].pgno # Nil /\ io'[n] # "read" /\ \A u \in Thread : th[u].b # n
    <3>1. th[t].pc # "read" /\ (bf[b].dirty \/ bf[b].err = "pending") /\ bf[b].cur
      BY <1>1
    <3>2. Available(n) /\ bf' = VersionCopied(bf, n, b) /\ hash' = [hash EXCEPT ![bf[b].pgno] = n]
      BY <2>1
    <3>3. UNCHANGED <<disk, io, latest>>
      BY <1>2
    <3>4. \A u \in Thread \ {t} : th'[u] = th[u]
      BY <2>2
    <3>5. QED
      BY <1>3, <3>1, <3>2, <3>3, <3>4, QuietCopy
  <2>4. Hold(t)'
    BY <1>1, <2>2, <2>3 DEF Hold, Has, FBFICurrentPage
  <2>5. ThreadType' /\ ThreadInv'
    BY <1>1, <2>1, <2>3, <2>4, GoesOn
  <2>6. QED
    BY <2>3, <2>5 DEF Good
<1>5. CASE /\ Goes(t, "held", b, IF FBFIUpdatablePage(bf[b]) THEN th[t].mode ELSE "S")
           /\ UNCHANGED <<bf, hash>>
  <2>1. PICK m \in {"S", "X", "W"} : /\ Goes(t, "held", b, m) /\ (bf[b].err = "pending" => m = "S")
    BY <1>1, <1>5 DEF FBFIUpdatablePage
  <2>2. /\ \A u \in Thread \ {t} : th'[u] = th[u]
        /\ th'[t].pc = "held" /\ th'[t].b = b /\ th'[t].mode = m /\ th'[t].pg = th[t].pg
    BY <1>1, <2>1, Gone DEF PCs, Modes
  <2>3. /\ CacheType' /\ CacheInv' /\ Steady
        /\ \A u \in Thread \ {t} : Undisturbed(u)
        /\ \A c \in Buffer : FaultOwned(c)'
    BY <1>1, <1>2, <1>5, <2>2, QuietMove
  <2>4. Hold(t)' /\ bf'[b].pgno # Nil /\ io'[b] # "read"
    BY <1>1, <1>2, <1>5, <2>1, <2>2 DEF Hold, Has, FBFICurrentPage
  <2>5. \A u \in Thread \ {t} : th[u].b = b => Compatible(m, th[u].mode) /\ Compatible(th[u].mode, m)
    BY <1>3 DEF Compatible
  <2>6. ThreadType' /\ ThreadInv'
    BY <1>1, <2>1, <2>3, <2>4, <2>5, GoesOn
  <2>7. QED
    BY <2>3, <2>6 DEF Good
<1>6. QED
  BY <1>0, <1>4, <1>5 DEF VersionCopyForUpgrade

\* An RDW latch is upgraded to a write latch.
LEMMA RDWToWriteStep ==
  ASSUME CacheType, CacheInv, ThreadType, ThreadInv, NEW t \in Thread,
         ErrBFUpgradeRDWLatchToWriteLatch(t)
  PROVE  Good' /\ Steady
<1> DEFINE b == th[t].b
<1>1. /\ th[t].pc = "held" /\ b \in Buffer /\ io[b] # "read" /\ th[t].mode = "X"
      /\ bf[b].cur /\ bf[b].pgno = th[t].pg /\ bf[b].pgno # Nil
      /\ bf[b].err \notin {"fault", "unverified"} /\ bf[b].pv # 0
  BY Holder DEF ErrBFUpgradeRDWLatchToWriteLatch, Has
<1>2. bf[b].err # "pending"
  BY <1>1, ThreadFacts DEF Hold
<1>3. Goes(t, "rdwW", b, "X") /\ UNCHANGED <<disk, hash, bf, io, latest>>
  BY DEF ErrBFUpgradeRDWLatchToWriteLatch
<1>4. /\ \A u \in Thread \ {t} : th'[u] = th[u]
      /\ th'[t].pc = "rdwW" /\ th'[t].b = b /\ th'[t].mode = "X" /\ th'[t].pg = th[t].pg
  BY <1>1, <1>3, Gone DEF PCs, Modes
<1>5. /\ CacheType' /\ CacheInv' /\ Steady
      /\ \A u \in Thread \ {t} : Undisturbed(u)
      /\ \A c \in Buffer : FaultOwned(c)'
  BY <1>1, <1>3, <1>4, QuietMove
<1>6. Hold(t)' /\ bf'[b].pgno # Nil /\ io'[b] # "read"
  BY <1>1, <1>2, <1>3, <1>4 DEF Hold, Has, FBFICurrentPage
<1>7. \A u \in Thread \ {t} : th[u].b = b => Compatible("X", th[u].mode) /\ Compatible(th[u].mode, "X")
  BY <1>1, OwnersMode DEF Compatible
<1>8. ThreadType' /\ ThreadInv'
  BY <1>1, <1>3, <1>5, <1>6, <1>7, GoesOn
<1>9. QED
  BY <1>5, <1>8 DEF Good

\* The page is versioned, or not, by its exclusive owner, who goes on in mode m.
LEMMA VersionOrNot ==
  ASSUME CacheType, CacheInv, ThreadType, ThreadInv, NEW t \in Thread, NEW b \in Buffer,
         NEW m \in {"S", "W"}, Has(t), th[t].b = b, bf[b].err # "pending",
         \A u \in Thread \ {t} : th[u].b = b => Compatible(m, th[u].mode) /\ Compatible(th[u].mode, m),
         Goes(t, "held", b, m), UNCHANGED <<disk, hash, io, latest>>,
         \/ UNCHANGED bf
         \/ \E n \in Buffer : Available(n) /\ bf[b].dirty /\ bf' = Versioned(bf, n, b)
  PROVE  Good' /\ Steady
<1>1. /\ io[b] # "read" /\ th[t].pc \notin {"read", "idle", "flush"}
      /\ bf[b].cur /\ bf[b].pgno = th[t].pg /\ bf[b].pgno # Nil
      /\ bf[b].err \notin {"fault", "unverified"} /\ bf[b].pv # 0
  BY Holder DEF Has
<1>2. /\ \A u \in Thread \ {t} : th'[u] = th[u]
      /\ th'[t].pc = "held" /\ th'[t].b = b /\ th'[t].mode = m /\ th'[t].pg = th[t].pg
  BY Gone DEF PCs, Modes
<1>3. /\ CacheType' /\ CacheInv' /\ Steady
      /\ \A u \in Thread \ {t} : Undisturbed(u)
      /\ \A c \in Buffer : FaultOwned(c)'
      /\ bf'[b].cur = bf[b].cur /\ bf'[b].pgno = bf[b].pgno /\ bf'[b].dirty = bf[b].dirty
      /\ bf'[b].err = bf[b].err /\ bf'[b].pv = bf[b].pv
  <2>1. CASE UNCHANGED bf
    BY <1>1, <1>2, <2>1, QuietMove
  <2>2. CASE \E n \in Buffer : Available(n) /\ bf[b].dirty /\ bf' = Versioned(bf, n, b)
    <3>1. PICK n \in Buffer : Available(n) /\ bf[b].dirty /\ bf' = Versioned(bf, n, b)
      BY <2>2
    <3>2. th[t].pc # "read"
      BY <1>1
    <3>3. QED
      BY <1>1, <1>2, <3>1, <3>2, QuietVersion
  <2>3. QED
    BY <2>1, <2>2
<1>4. Hold(t)'
  BY <1>1, <1>2, <1>3 DEF Hold, Has, FBFICurrentPage
<1>5. bf'[b].pgno # Nil /\ io'[b] # "read"
  BY <1>1, <1>3
<1>6. ThreadType' /\ ThreadInv'
  BY <1>1, <1>3, <1>4, <1>5, GoesOn
<1>7. QED
  BY <1>3, <1>6 DEF Good

\* The upgrade of an RDW latch comes to its end.
LEMMA RDWUpgradedStep ==
  ASSUME CacheType, CacheInv, ThreadType, ThreadInv, NEW t \in Thread, RDWLatchUpgraded(t)
  PROVE  Good' /\ Steady
<1>1. /\ th[t].pc = "rdwW" /\ th[t].b \in Buffer /\ th[t].mode = "X" /\ Has(t)
      /\ bf[th[t].b].err # "pending"
  BY Holder, ThreadFacts DEF RDWLatchUpgraded, Has, Place, Hold
<1>2. ~ReadersBut(t, th[t].b) /\ UNCHANGED <<disk, hash, io, latest>> /\ Goes(t, "held", th[t].b, "W")
  BY DEF RDWLatchUpgraded
<1>3. \A u \in Thread \ {t} : th[u].b = th[t].b =>
         Compatible("W", th[u].mode) /\ Compatible(th[u].mode, "W")
  <2>1. \A u \in Thread \ {t} : th[u].b = th[t].b => th[u].mode = "none"
    BY <1>1, <1>2, OwnersMode
  <2>2. QED
    BY <2>1 DEF Compatible
<1>4. \/ UNCHANGED bf
      \/ \E n \in Buffer : Available(n) /\ bf[th[t].b].dirty /\ bf' = Versioned(bf, n, th[t].b)
  BY DEF RDWLatchUpgraded, MayImpede
<1>5. QED
  BY <1>1, <1>2, <1>3, <1>4, VersionOrNot

\* A latch is downgraded to a read latch.
LEMMA DowngradeStep ==
  ASSUME CacheType, CacheInv, ThreadType, ThreadInv, NEW t \in Thread, BFDowngradeToReadLatch(t)
  PROVE  Good' /\ Steady
<1>1. /\ th[t].pc = "held" /\ th[t].b \in Buffer /\ th[t].mode \in {"X", "W"} /\ Has(t)
      /\ bf[th[t].b].err # "pending"
  BY Holder, ThreadFacts DEF BFDowngradeToReadLatch, Has, Hold
<1>2. UNCHANGED <<disk, hash, io, latest>> /\ Goes(t, "held", th[t].b, "S")
  BY DEF BFDowngradeToReadLatch
<1>3. \A u \in Thread \ {t} : th[u].b = th[t].b =>
         Compatible("S", th[u].mode) /\ Compatible(th[u].mode, "S")
  BY <1>1, OwnersMode DEF Compatible
<1>4. \/ UNCHANGED bf
      \/ \E n \in Buffer : Available(n) /\ bf[th[t].b].dirty /\ bf' = Versioned(bf, n, th[t].b)
  BY DEF BFDowngradeToReadLatch, MayImpede
<1>5. QED
  BY <1>1, <1>2, <1>3, <1>4, VersionOrNot

\* A latch is released.
LEMMA UnlatchStep ==
  ASSUME CacheType, CacheInv, ThreadType, ThreadInv, NEW t \in Thread, BFUnlatch(t)
  PROVE  Good' /\ Steady
<1>0. PICK b \in Buffer : b = th[t].b
  BY Holder DEF BFUnlatch, Has
<1>1. th[t].pc = "held" /\ bf[b].cur
  BY <1>0, Holder DEF BFUnlatch, Has
<1>2. Leaves(t) /\ UNCHANGED <<disk, io, latest>>
  BY DEF BFUnlatch
<1>3. \A u \in Thread \ {t} : th'[u] = th[u]
  BY <1>2, Left
<1>4. /\ CacheType' /\ CacheInv' /\ Steady
      /\ \A u \in Thread \ {t} : Undisturbed(u)
      /\ \A c \in Buffer : FaultOwned(c)'
  <2>1. CASE UNCHANGED <<bf, hash>>
    BY <1>1, <1>2, <1>3, <2>1, QuietMove
  <2>2. CASE \E n \in Buffer : /\ th[t].mode = "W" /\ Available(n) /\ bf[b].dirty
                               /\ bf' = VersionCopied(bf, n, b)
                               /\ hash' = [hash EXCEPT ![bf[b].pgno] = n]
    <3>1. PICK n \in Buffer : /\ th[t].mode = "W" /\ Available(n) /\ bf[b].dirty
                              /\ bf' = VersionCopied(bf, n, b)
                              /\ hash' = [hash EXCEPT ![bf[b].pgno] = n]
      BY <2>2
    <3>2. \A u \in Thread \ {t} : th[u].b = b => th[u].mode = "none"
      BY <1>0, <3>1, OwnersMode
    <3>3. th[t].pc # "read" /\ bf[b].cur
      BY <1>1
    <3>4. /\ Available(n) /\ (bf[b].dirty \/ bf[b].err = "pending")
          /\ bf' = VersionCopied(bf, n, b)
      BY <3>1
    <3>5. hash' = [hash EXCEPT ![bf[b].pgno] = n]
      BY <3>1
    <3>6. UNCHANGED <<disk, io, latest>>
      BY <1>2
    <3>7. /\ CacheType' /\ CacheInv' /\ Steady
          /\ \A u \in Thread \ {t} : Undisturbed(u)
          /\ \A c \in Buffer : FaultOwned(c)'
          /\ bf'[n].cur /\ bf'[n].pgno = bf[b].pgno /\ bf'[n].err \in {"ok", "ioerr"}
          /\ bf'[n].pv # 0
          /\ bf'[n].pgno # Nil /\ io'[n] # "read" /\ \A u \in Thread : th[u].b # n
      BY <1>3, <3>2, <3>3, <3>4, <3>5, <3>6, QuietCopy
    <3>8. QED
      BY <3>7
  <2>3. QED
    BY <1>0, <2>1, <2>2 DEF BFUnlatch, MayImpede
<1>5. ThreadType' /\ ThreadInv'
  BY <1>2, <1>4, Leaving
<1>6. QED
  BY <1>4, <1>5 DEF Good

-----------------------------------------------------------------------------
(* Flushing *)

\* No thread moves.
LEMMA ThreadStay ==
  ASSUME ThreadType, ThreadInv, UNCHANGED th, \A u \in Thread : Undisturbed(u),
         \A b \in Buffer : FaultOwned(b)'
  PROVE  ThreadType' /\ ThreadInv'
<1>1. ThreadType'
  BY DEF ThreadType
<1>2. ASSUME NEW u \in Thread PROVE Place(u)' /\ Hold(u)' /\ NoRead(u)'
  <2>1. Place(u) /\ Hold(u) /\ NoRead(u) /\ Undisturbed(u)
    BY ThreadFacts
  <2>2. QED
    BY <2>1, UndisturbedKept
<1>3. \A u, v \in Thread : u # v => Excludes(u, v)'
  BY DEF Excludes, ThreadInv, LatchSound
<1>4. QED
  BY <1>1, <1>2, <1>3 DEF ThreadInv, PlaceSound, HoldSound, LatchSound

\* A page that could not be read stays with the thread that reads it.
LEMMA FaultStay ==
  ASSUME ThreadInv, UNCHANGED th,
         \A b \in Buffer : bf'[b].err = "fault" =>
            bf[b].err = "fault" /\ (io[b] = "read" => io'[b] = "read")
  PROVE  \A b \in Buffer : FaultOwned(b)'
  BY DEF FaultOwned, ThreadInv, HoldSound

\* What the others have of a buffer whose latch can be tried for.
LEMMA TryOwners ==
  ASSUME ThreadType, NEW b \in Buffer, CanTryExclusive(b)
  PROVE  /\ io[b] # "read"
         /\ \A u \in Thread : th[u].b = b => th[u].mode \in {"none", "S"}
  BY ThreadFields DEF CanTryExclusive, ExclusiveOwned, WriteOwned, Owns, Modes

\* A thread that has no more than a shared latch is left alone when the state of
\* its buffer becomes an error, or its flush is completed.
LEMMA ReaderUndisturbed ==
  ASSUME ThreadType, ThreadInv, NEW u \in Thread, th'[u] = th[u],
         \A c \in Buffer : th[u].b = c =>
            /\ th[u].mode \in {"none", "S"}
            /\ bf'[c].pgno = bf[c].pgno /\ bf'[c].cur = bf[c].cur /\ bf'[c].pv = bf[c].pv
            /\ bf'[c].err \in {"fault", "unverified"} => bf'[c].err = bf[c].err
            /\ io'[c] = "read" => io[c] = "read"
  PROVE  Undisturbed(u)
<1>1. SUFFICES ASSUME th[u].b # Nil
               PROVE  /\ bf'[th[u].b].pgno # Nil
                      /\ io'[th[u].b] = "read" => io[th[u].b] = "read"
                      /\ \/ th[u].pc = "wait"
                         \/ /\ th[u].mode = "S"
                            /\ bf'[th[u].b].pgno = bf[th[u].b].pgno /\ bf'[th[u].b].cur = bf[th[u].b].cur
                            /\ bf'[th[u].b].err \in {"fault", "unverified"} => bf'[th[u].b].err = bf[th[u].b].err
                            /\ bf'[th[u].b].pv = bf[th[u].b].pv
  BY DEF Undisturbed
<1>2. th[u].b \in Buffer /\ bf[th[u].b].pgno # Nil
  BY <1>1, ThreadFields, ThreadFacts DEF Place
<1>3. th[u].mode = "none" => th[u].pc = "wait"
  BY <1>1, ThreadFields, ThreadFacts DEF Place
<1>4. QED
  BY <1>2, <1>3

\* The end of the chain of a buffer that has an older version is another buffer
\* of the page, and not the current one.
LEMMA FlushOrderLeaf ==
  ASSUME CacheType, CacheInv, NEW b \in Buffer, bf[b].next # Nil,
         NEW l, l = PbfBFIGetFlushOrderLeaf(b)
  PROVE  /\ l \in Buffer /\ l # b /\ bf[l].next = Nil /\ bf[l].prev # Nil /\ OnChain(l) /\ ~bf[l].cur
         /\ bf[l].pgno = bf[b].pgno /\ bf[l].pgno # Nil /\ OnChain(b)
<1>1. OnChain(b)
  BY DEF CacheInv, LinksSound
<1>2. PICK c \in Buffer : OnChain(c) /\ bf[c].pgno = bf[b].pgno /\ bf[c].next = Nil
  BY <1>1 DEF CacheInv, LinksSound
<1>3. Versions(c, b)
  BY <1>1, <1>2 DEF Versions
<1>4. bf[c].prev # Nil
  BY <1>2, <1>3, OldestVersion DEF CacheInv
<1>5. \E d \in Buffer : bf[d].pgno = bf[b].pgno /\ bf[d].next = Nil /\
                        (d = b \/ (bf[d].prev # Nil /\ bf[b].next # Nil))
  BY <1>2, <1>4
<1>6. /\ l \in Buffer /\ bf[l].pgno = bf[b].pgno /\ bf[l].next = Nil
      /\ l = b \/ bf[l].prev # Nil
  BY <1>5 DEF PbfBFIGetFlushOrderLeaf
<1>7. l # b /\ bf[l].prev # Nil /\ OnChain(l)
  BY <1>6 DEF OnChain
<1>8. QED
  BY <1>1, <1>6, <1>7 DEF CacheInv, LinksSound

\* A clean version at the end of the chain is taken out, if there is one that
\* nobody is about to use.
LEMMA RemoveStep ==
  ASSUME CacheType, CacheInv, ThreadType, ThreadInv, NEW b \in Buffer,
         bf' = ErrBFIEvictRemoveCleanVersions(bf, b), UNCHANGED <<disk, hash, io, latest>>
  PROVE  /\ CacheType' /\ CacheInv'
         /\ \A c \in Buffer : /\ bf'[c].pgno = bf[c].pgno /\ bf'[c].cur = bf[c].cur
                              /\ bf'[c].pv = bf[c].pv /\ bf'[c].err = bf[c].err
                              /\ bf'[c].dirty = bf[c].dirty
         /\ \A u \in Thread : th'[u] = th[u] => Undisturbed(u)
<1>1. CASE bf' = bf
  BY <1>1, SameCache, SameUndisturbed
<1>2. CASE bf' # bf
  <2>1. PICK l : l = PbfBFIGetFlushOrderLeaf(b)
    OBVIOUS
  <2>2. /\ bf[b].next # Nil /\ ~bf[l].dirty /\ bf[l].err # "pending" /\ CanTryExclusive(l)
        /\ bf' = Unlinked(bf, l)
    BY <1>2, <2>1 DEF ErrBFIEvictRemoveCleanVersions, FBFIUpdatablePage
  <2>3. l \in Buffer /\ OnChain(l) /\ bf[l].next = Nil /\ ~bf[l].cur
    BY <2>1, <2>2, FlushOrderLeaf
  <2>4. /\ CacheType' /\ CacheInv'
        /\ \A c \in Buffer : /\ bf'[c].pgno = bf[c].pgno /\ bf'[c].cur = bf[c].cur /\ bf'[c].pv = bf[c].pv
                             /\ bf'[c].err = bf[c].err /\ bf'[c].dirty = bf[c].dirty
        /\ \A c \in Buffer \ {l} : bf'[c].prev = bf[c].prev
    BY <2>2, <2>3, RemoveCache
  <2>5. \A u \in Thread : th[u].b = l => th[u].mode \in {"none", "S"}
    BY <2>2, <2>3, TryOwners
  <2>6. ASSUME NEW u \in Thread, th'[u] = th[u] PROVE Undisturbed(u)
    <3>1. CASE th[u].b = l
      BY <2>4, <2>5, <2>6, <3>1, ReaderUndisturbed
    <3>2. CASE th[u].b # l
      BY <2>4, <2>6, <3>2, QuietUndisturbed
    <3>3. QED
      BY <3>1, <3>2
  <2>7. QED
    BY <2>4, <2>6
<1>3. QED
  BY <1>1, <1>2

\* A buffer is got ready for a flush, by a thread that can have its exclusive
\* latch.
LEMMA AcquireStep ==
  ASSUME CacheType, CacheInv, ThreadType, ThreadInv, NEW t \in Thread, th[t].pc # "read",
         NEW b \in Buffer, CanTryExclusive(b), bf' = ErrBFIAcquireExclusiveLatchForFlush(b),
         UNCHANGED <<disk, hash, io, latest>>, \A u \in Thread \ {t} : th'[u] = th[u]
  PROVE  /\ CacheType' /\ CacheInv' /\ Steady
         /\ \A u \in Thread \ {t} : Undisturbed(u)
         /\ \A c \in Buffer : FaultOwned(c)'
         /\ bf'[b].pgno = bf[b].pgno
<1>1. \A u \in Thread \ {t} : th[u].b = b => th[u].mode \in {"none", "S"}
  BY TryOwners
<1>2. CASE FlushEnded(b)
  <2>1. PICK f : f = FBFICompleteFlushPage(b)
    OBVIOUS
  <2>2. f[b].next = Nil
    <3>1. bf[b].err = "pending" /\ bf[b].next = Nil
      BY <1>2 DEF FlushEnded, CacheInv, IOSound
    <3>2. bf \in [Buffer -> BFs] /\ bf[b] \in BFs
      BY DEF CacheType
    <3>3. CASE bf[b].signal = "ok"
      <4>1. /\ Unlinked(bf, b)[b] = [bf[b] EXCEPT !.prev = Nil]
            /\ Unlinked(bf, b) = [c \in Buffer |-> Unlinked(bf, b)[c]]
        BY DEF Unlinked
      <4>2. f[b] = [[bf[b] EXCEPT !.prev = Nil] EXCEPT !.signal = "none", !.err = "ok", !.dirty = FALSE]
        BY <1>2, <2>1, <3>3, <4>1 DEF FBFICompleteFlushPage, BFIFlushComplete
      <4>3. QED
        BY <3>1, <3>2, <4>2 DEF BFs
    <3>4. CASE bf[b].signal # "ok"
      <4>1. f[b] = [bf[b] EXCEPT !.signal = "none", !.err = "ioerr"]
        BY <1>2, <2>1, <3>2, <3>4 DEF FBFICompleteFlushPage, BFIFlushComplete
      <4>2. QED
        BY <3>1, <3>2, <4>1 DEF BFs
    <3>5. QED
      BY <3>3, <3>4
  <2>3. bf' = FBFICompleteFlushPage(b)
    BY <2>1, <2>2 DEF ErrBFIAcquireExclusiveLatchForFlush, ErrBFIEvictRemoveCleanVersions
  <2>4. /\ CacheType' /\ CacheInv' /\ Steady
        /\ \A u \in Thread \ {t} : Undisturbed(u)
        /\ \A c \in Buffer : FaultOwned(c)'
    BY <1>1, <2>3, QuietComplete
  <2>5. bf'[b].pgno = bf[b].pgno
    BY <2>3, CompleteStep
  <2>6. QED
    BY <2>4, <2>5
<1>3. CASE ~FlushEnded(b)
  <2>1. bf' = ErrBFIEvictRemoveCleanVersions(bf, b)
    BY <1>3 DEF ErrBFIAcquireExclusiveLatchForFlush, FBFICompleteFlushPage
  <2>2. /\ CacheType' /\ CacheInv'
        /\ \A c \in Buffer : /\ bf'[c].pgno = bf[c].pgno /\ bf'[c].cur = bf[c].cur
                             /\ bf'[c].pv = bf[c].pv /\ bf'[c].err = bf[c].err
                             /\ bf'[c].dirty = bf[c].dirty
        /\ \A u \in Thread : th'[u] = th[u] => Undisturbed(u)
    BY <2>1, RemoveStep
  <2>3. Steady
    BY <2>2, SteadyDisk
  <2>4. \A c \in Buffer : FaultOwned(c)'
    <3>1. \A c \in Buffer : bf'[c].err = "fault" => bf[c].err = "fault"
      BY <2>2
    <3>2. QED
      BY <3>1, FaultKept
  <2>5. QED
    BY <2>2, <2>3, <2>4
<1>4. QED
  BY <1>2, <1>3

\* A thread that got a buffer ready for a flush flushes it, or not.
LEMMA FlushBegins ==
  ASSUME CacheType, CacheInv, ThreadType, ThreadInv, NEW t \in Thread, th[t].pc = "idle",
         NEW b \in Buffer, bf[b].pgno # Nil, CanTryExclusive(b),
         bf' = ErrBFIAcquireExclusiveLatchForFlush(b), UNCHANGED <<disk, hash, io, latest>>,
         \/ UNCHANGED th
         \/ /\ Goes(t, "flush", b, "X")
            /\ bf'[b].err = "ok" /\ (bf'[b].dirty \/ bf'[b].cur)
  PROVE  Good' /\ Steady
<1>1. io[b] # "read" /\ \A u \in Thread : th[u].b = b => th[u].mode \in {"none", "S"}
  BY TryOwners
<1>2. \A u \in Thread \ {t} : th'[u] = th[u]
  BY Gone DEF PCs, Modes
<1>3. /\ CacheType' /\ CacheInv' /\ Steady
      /\ \A u \in Thread \ {t} : Undisturbed(u)
      /\ \A c \in Buffer : FaultOwned(c)'
      /\ bf'[b].pgno = bf[b].pgno
  <2>1. th[t].pc # "read"
    OBVIOUS
  <2>2. QED
    BY <1>2, <2>1, AcquireStep
<1>4. CASE UNCHANGED th
  <2>1. th[t].b = Nil
    BY ThreadFacts DEF Place
  <2>2. Undisturbed(t)
    BY <1>4, <2>1 DEF Undisturbed
  <2>3. ThreadType' /\ ThreadInv'
    BY <1>3, <1>4, <2>2, ThreadStay
  <2>4. QED
    BY <1>3, <2>3 DEF Good
<1>5. CASE Goes(t, "flush", b, "X") /\ bf'[b].err = "ok" /\ (bf'[b].dirty \/ bf'[b].cur)
  <2>1. ThreadType' /\ th'[t].pc = "flush" /\ th'[t].b = b /\ th'[t].mode = "X"
    BY <1>5, Gone DEF PCs, Modes
  <2>2. bf'[b].cur \/ bf'[b].prev # Nil
    BY <1>3, <1>5 DEF CacheInv, DirtySound, OnChain
  <2>3. Place(t)'
    BY <1>3, <2>1, NilApart DEF Place
  <2>4. Hold(t)' /\ NoRead(t)'
    BY <1>1, <1>5, <2>1, <2>2 DEF Hold, Has, NoRead, OnChain
  <2>5. \A u \in Thread \ {t} : th[u].b = th'[t].b =>
         Compatible(th'[t].mode, th[u].mode) /\ Compatible(th[u].mode, th'[t].mode)
    BY <1>1, <2>1 DEF Compatible
  <2>6. ThreadInv'
    BY <1>3, <2>3, <2>4, <2>5, ThreadStep
  <2>7. QED
    BY <1>3, <2>1, <2>6 DEF Good
<1>6. QED
  BY <1>4, <1>5

\* A flush of a page begins.
LEMMA FlushPageStep ==
  ASSUME CacheType, CacheInv, ThreadType, ThreadInv, NEW t \in Thread, NEW b \in Buffer,
         ErrBFIFlushPage(t, b)
  PROVE  Good' /\ Steady
<1>1. /\ th[t].pc = "idle" /\ bf[b].pgno # Nil /\ CanTryExclusive(b)
      /\ bf' = ErrBFIAcquireExclusiveLatchForFlush(b) /\ UNCHANGED <<disk, hash, io, latest>>
      /\ \/ UNCHANGED th
         \/ /\ Goes(t, "flush", b, "X")
            /\ bf'[b].err = "ok" /\ (bf'[b].dirty \/ bf'[b].cur)
  BY DEF ErrBFIFlushPage
<1>2. QED
  BY <1>1, FlushBegins

\* A neighbour of a page is flushed with it.
LEMMA NeighborStep ==
  ASSUME CacheType, CacheInv, ThreadType, ThreadInv, NEW t \in Thread, NEW b \in Buffer,
         GetFlushableNeighboringBFs(t, b)
  PROVE  Good' /\ Steady
<1>1. /\ th[t].pc = "idle" /\ bf[b].pgno # Nil /\ CanTryExclusive(b)
      /\ bf' = ErrBFIAcquireExclusiveLatchForFlush(b) /\ UNCHANGED <<disk, hash, io, latest>>
      /\ \/ UNCHANGED th
         \/ /\ Goes(t, "flush", b, "X")
            /\ bf'[b].err = "ok" /\ (bf'[b].dirty \/ bf'[b].cur)
  BY DEF GetFlushableNeighboringBFs
<1>2. QED
  BY <1>1, FlushBegins

\* A buffer that is dirty and sound after its flush was completed, if it had
\* ended, was not being flushed.
LEMMA NotFlushed ==
  ASSUME CacheType, NEW b \in Buffer, FBFICompleteFlushPage(b)[b].dirty,
         FBFICompleteFlushPage(b)[b].err = "ok"
  PROVE  FBFICompleteFlushPage(b) = bf
<1>1. SUFFICES ASSUME FlushEnded(b) PROVE FALSE
  BY DEF FBFICompleteFlushPage
<1>2. bf[b] \in BFs /\ bf \in [Buffer -> BFs]
  BY DEF CacheType
<1>3. CASE bf[b].signal = "ok"
  <2>1. /\ Unlinked(bf, b)[b] = [bf[b] EXCEPT !.prev = Nil]
        /\ Unlinked(bf, b) = [c \in Buffer |-> Unlinked(bf, b)[c]]
    BY DEF Unlinked
  <2>2. FBFICompleteFlushPage(b)[b] =
           [[bf[b] EXCEPT !.prev = Nil] EXCEPT !.signal = "none", !.err = "ok", !.dirty = FALSE]
    BY <1>1, <1>3, <2>1 DEF FBFICompleteFlushPage, BFIFlushComplete
  <2>3. FBFICompleteFlushPage(b)[b].dirty = FALSE
    BY <1>2, <2>2 DEF BFs
  <2>4. QED
    BY <2>3
<1>4. CASE bf[b].signal # "ok"
  <2>1. FBFICompleteFlushPage(b)[b] = [bf[b] EXCEPT !.signal = "none", !.err = "ioerr"]
    BY <1>1, <1>2, <1>4 DEF FBFICompleteFlushPage, BFIFlushComplete
  <2>2. FBFICompleteFlushPage(b)[b].err = "ioerr"
    BY <1>2, <2>1 DEF BFs
  <2>3. QED
    BY <2>2
<1>5. QED
  BY <1>3, <1>4

\* The error of a write is the error of both versions.
BothFail(f, l, b) == [f EXCEPT ![l].err = "ioerr", ![b].err = "ioerr"]

\* The record of a buffer whose write has failed.
LEMMA FailedRecord ==
  ASSUME NEW r \in BFs, NEW s, s = [r EXCEPT !.signal = "none", !.err = "ioerr"]
  PROVE  /\ s \in BFs /\ s.err = "ioerr" /\ s.signal = "none"
         /\ s.pgno = r.pgno /\ s.cur = r.cur /\ s.old = r.old
         /\ s.dirty = r.dirty /\ s.pv = r.pv /\ s.next = r.next /\ s.prev = r.prev
BY DEF BFs, Err

\* What is known of a buffer that is dirty after its flush was completed, if it
\* had ended: the write had failed.
LEMMA FailedFields ==
  ASSUME CacheType, CacheInv, NEW l \in Buffer, NEW b \in Buffer, l # b,
         NEW f, f = FBFICompleteFlushPage(l), f[l].dirty, f[l].err \in {"ok", "ioerr"},
         NEW g, g = BothFail(f, l, b)
  PROVE  /\ g \in [Buffer -> BFs] /\ \A c \in Buffer \ {l, b} : g[c] = bf[c]
         /\ \A c \in Buffer :
              /\ g[c].pgno = bf[c].pgno /\ g[c].cur = bf[c].cur /\ g[c].old = bf[c].old
              /\ g[c].dirty = bf[c].dirty /\ g[c].pv = bf[c].pv
              /\ g[c].next = bf[c].next /\ g[c].prev = bf[c].prev
         /\ g[l].err = "ioerr" /\ g[b].err = "ioerr" /\ g[b].signal = bf[b].signal
         /\ \/ FlushEnded(l) /\ g[l].signal = "none"
            \/ bf[l].err \in {"ok", "ioerr"} /\ g[l].signal = bf[l].signal
<1>1. bf \in [Buffer -> BFs] /\ bf[l] \in BFs /\ bf[b] \in BFs /\ "ioerr" \in Err
  BY DEF CacheType, Err
<1>2. g[b] = [bf[b] EXCEPT !.err = "ioerr"] /\ (\A c \in Buffer \ {l, b} : g[c] = bf[c])
      /\ g = [c \in Buffer |-> g[c]]
      /\ \/ FlushEnded(l) /\ g[l] = [bf[l] EXCEPT !.signal = "none", !.err = "ioerr"]
         \/ bf[l].err \in {"ok", "ioerr"} /\ g[l] = [bf[l] EXCEPT !.err = "ioerr"]
  <2>0. g = [f EXCEPT ![l].err = "ioerr", ![b].err = "ioerr"]
    BY DEF BothFail
  <2>1. CASE ~FlushEnded(l)
    <3>1. f = bf
      BY <2>1 DEF FBFICompleteFlushPage
    <3>2. QED
      BY <1>1, <2>0, <2>1, <3>1
  <2>2. CASE FlushEnded(l) /\ bf[l].signal = "ok"
    <3>1. /\ Unlinked(bf, l)[l] = [bf[l] EXCEPT !.prev = Nil]
          /\ Unlinked(bf, l) = [c \in Buffer |-> Unlinked(bf, l)[c]]
      BY DEF Unlinked
    <3>2. f[l] =
             [[bf[l] EXCEPT !.prev = Nil] EXCEPT !.signal = "none", !.err = "ok", !.dirty = FALSE]
      BY <2>2, <3>1 DEF FBFICompleteFlushPage, BFIFlushComplete
    <3>3. f[l].dirty = FALSE
      BY <1>1, <3>2 DEF BFs
    <3>4. QED
      BY <3>3
  <2>3. CASE FlushEnded(l) /\ bf[l].signal # "ok"
    <3>2. f = [bf EXCEPT ![l] = [bf[l] EXCEPT !.signal = "none", !.err = "ioerr"]]
      BY <2>3 DEF FBFICompleteFlushPage, BFIFlushComplete
    <3>3. /\ f[l] = [bf[l] EXCEPT !.signal = "none", !.err = "ioerr"] /\ f[b] = bf[b]
          /\ \A c \in Buffer \ {l} : f[c] = bf[c]
          /\ f = [c \in Buffer |-> f[c]]
      BY <1>1, <3>2
    <3>4. [f[l] EXCEPT !.err = "ioerr"] = f[l]
      BY <1>1, <3>3 DEF BFs
    <3>5. QED
      BY <2>0, <2>3, <3>3, <3>4
  <2>4. QED
    BY <2>1, <2>2, <2>3
<1>3. /\ g[b] \in BFs /\ g[b].err = "ioerr" /\ g[b].signal = bf[b].signal
      /\ g[b].pgno = bf[b].pgno /\ g[b].cur = bf[b].cur /\ g[b].old = bf[b].old
      /\ g[b].dirty = bf[b].dirty /\ g[b].pv = bf[b].pv
      /\ g[b].next = bf[b].next /\ g[b].prev = bf[b].prev
  BY <1>1, <1>2 DEF BFs
<1>4. /\ g[l] \in BFs /\ g[l].err = "ioerr"
      /\ g[l].pgno = bf[l].pgno /\ g[l].cur = bf[l].cur /\ g[l].old = bf[l].old
      /\ g[l].dirty = bf[l].dirty /\ g[l].pv = bf[l].pv
      /\ g[l].next = bf[l].next /\ g[l].prev = bf[l].prev
      /\ \/ FlushEnded(l) /\ g[l].signal = "none"
         \/ bf[l].err \in {"ok", "ioerr"} /\ g[l].signal = bf[l].signal
  <2>1. CASE FlushEnded(l) /\ g[l] = [bf[l] EXCEPT !.signal = "none", !.err = "ioerr"]
    <3>1. /\ g[l] \in BFs /\ g[l].err = "ioerr" /\ g[l].signal = "none"
          /\ g[l].pgno = bf[l].pgno /\ g[l].cur = bf[l].cur /\ g[l].old = bf[l].old
          /\ g[l].dirty = bf[l].dirty /\ g[l].pv = bf[l].pv
          /\ g[l].next = bf[l].next /\ g[l].prev = bf[l].prev
      <4>1. PICK r \in BFs : r = bf[l]
        BY <1>1
      <4>2. PICK s : s = g[l]
        OBVIOUS
      <4>3. s = [r EXCEPT !.signal = "none", !.err = "ioerr"]
        BY <2>1, <4>1, <4>2
      <4>4. /\ s \in BFs /\ s.err = "ioerr" /\ s.signal = "none"
            /\ s.pgno = r.pgno /\ s.cur = r.cur /\ s.old = r.old
            /\ s.dirty = r.dirty /\ s.pv = r.pv /\ s.next = r.next /\ s.prev = r.prev
        BY <4>3, FailedRecord
      <4>5. QED
        BY <4>1, <4>2, <4>4
    <3>2. QED
      BY <2>1, <3>1
  <2>2. CASE bf[l].err \in {"ok", "ioerr"} /\ g[l] = [bf[l] EXCEPT !.err = "ioerr"]
    BY <1>1, <2>2 DEF BFs
  <2>3. QED
    BY <1>2, <2>1, <2>2
<1>5. g \in [Buffer -> BFs]
  BY <1>1, <1>2, <1>3, <1>4
<1>6. \A c \in Buffer \ {l, b} : g[c] = bf[c]
  BY <1>2
<1>7. ASSUME NEW c \in Buffer
      PROVE  /\ g[c].pgno = bf[c].pgno /\ g[c].cur = bf[c].cur /\ g[c].old = bf[c].old
             /\ g[c].dirty = bf[c].dirty /\ g[c].pv = bf[c].pv
             /\ g[c].next = bf[c].next /\ g[c].prev = bf[c].prev
  <2>1. CASE c = l
    BY <1>4, <2>1
  <2>2. CASE c = b
    BY <1>3, <2>2
  <2>3. CASE c \notin {l, b}
    BY <1>6, <2>3
  <2>4. QED
    BY <2>1, <2>2, <2>3
<1>8. /\ g[l].err = "ioerr" /\ g[b].err = "ioerr" /\ g[b].signal = bf[b].signal
      /\ \/ FlushEnded(l) /\ g[l].signal = "none"
         \/ bf[l].err \in {"ok", "ioerr"} /\ g[l].signal = bf[l].signal
  BY <1>3, <1>4
<1>9. QED
  BY <1>5, <1>6, <1>7, <1>8

\* A flush turns to an older version first, and meets an error.
LEMMA OlderFailedStep ==
  ASSUME CacheType, CacheInv, ThreadType, ThreadInv, NEW t \in Thread, NEW b \in Buffer, NEW l \in Buffer,
         th[t].pc = "flush", th[t].b = b, l # b, bf[l].pgno # Nil, CanTryExclusive(l),
         NEW f, f = FBFICompleteFlushPage(l), f[l].dirty, f[l].err \in {"ok", "ioerr"},
         NEW g, g = BothFail(f, l, b), bf' = g,
         Leaves(t), UNCHANGED <<disk, hash, io, latest>>
  PROVE  Good' /\ Steady
<1>1. /\ bf' \in [Buffer -> BFs] /\ \A c \in Buffer \ {l, b} : bf'[c] = bf[c]
      /\ \A c \in Buffer :
           /\ bf'[c].pgno = bf[c].pgno /\ bf'[c].cur = bf[c].cur /\ bf'[c].old = bf[c].old
           /\ bf'[c].dirty = bf[c].dirty /\ bf'[c].pv = bf[c].pv
           /\ bf'[c].next = bf[c].next /\ bf'[c].prev = bf[c].prev
      /\ bf'[l].err = "ioerr" /\ bf'[b].err = "ioerr" /\ bf'[b].signal = bf[b].signal
      /\ \/ FlushEnded(l) /\ bf'[l].signal = "none"
         \/ bf[l].err \in {"ok", "ioerr"} /\ bf'[l].signal = bf[l].signal
  <2>1. /\ g \in [Buffer -> BFs] /\ \A c \in Buffer \ {l, b} : g[c] = bf[c]
        /\ \A c \in Buffer :
             /\ g[c].pgno = bf[c].pgno /\ g[c].cur = bf[c].cur /\ g[c].old = bf[c].old
             /\ g[c].dirty = bf[c].dirty /\ g[c].pv = bf[c].pv
             /\ g[c].next = bf[c].next /\ g[c].prev = bf[c].prev
        /\ g[l].err = "ioerr" /\ g[b].err = "ioerr" /\ g[b].signal = bf[b].signal
        /\ \/ FlushEnded(l) /\ g[l].signal = "none"
           \/ bf[l].err \in {"ok", "ioerr"} /\ g[l].signal = bf[l].signal
    BY FailedFields
  <2>2. QED
    BY <2>1
<1>2. th[t].mode = "X" /\ bf[b].err = "ok" /\ bf[b].pgno # Nil
  BY ThreadFacts, NilApart DEF Place, Hold
<1>3. \A c \in Buffer : bf[c].err \in {"ok", "ioerr"} => bf[c].signal = "none"
  BY Fields DEF CacheInv, IOSound
<1>4. \A c \in Buffer :
        \/ bf'[c].err = bf[c].err /\ bf'[c].signal = bf[c].signal
        \/ /\ bf[c].err \in {"ok", "ioerr"} \/ FlushEnded(c)
           /\ bf[c].pgno # Nil /\ bf'[c].err = "ioerr" /\ bf'[c].signal = "none"
  BY <1>1, <1>2, <1>3
<1>5. CacheType' /\ CacheInv'
  BY <1>1, <1>4, ErrorCache
<1>6. \A u \in Thread \ {t} : th'[u] = th[u]
  BY Left
<1>7. Steady
  BY <1>1, SteadyDisk
<1>8. ASSUME NEW u \in Thread \ {t} PROVE Undisturbed(u)
  <2>1. CASE th[u].b \in {l, b}
    <3>1. th[u].mode \in {"none", "S"}
      BY <1>2, <2>1, TryOwners, OwnersMode
    <3>2. QED
      BY <1>1, <1>4, <1>6, <3>1, ReaderUndisturbed
  <2>2. CASE th[u].b \notin {l, b}
    BY <1>1, <1>6, <2>2, QuietUndisturbed
  <2>3. QED
    BY <2>1, <2>2
<1>9. \A c \in Buffer : FaultOwned(c)'
  <2>1. \A c \in Buffer : bf'[c].err = "fault" => bf[c].err = "fault"
    BY <1>4
  <2>2. th[t].pc # "read"
    OBVIOUS
  <2>3. QED
    BY <1>6, <2>1, <2>2, FaultKept
<1>10. ThreadType' /\ ThreadInv'
  BY <1>8, <1>9, Leaving
<1>11. QED
  BY <1>5, <1>7, <1>10 DEF Good

\* A flush turns to an older version first.
LEMMA FlushOlderStep ==
  ASSUME CacheType, CacheInv, ThreadType, ThreadInv, NEW t \in Thread, FlushOlderVersion(t)
  PROVE  Good' /\ Steady
<1>0. PICK b \in Buffer : b = th[t].b
  BY ThreadFields, ThreadFacts DEF FlushOlderVersion, Place
<1>1. th[t].pc = "flush" /\ bf[b].next # Nil
  BY <1>0 DEF FlushOlderVersion
<1>2. PICK l \in Buffer : l = PbfBFIGetFlushOrderLeaf(b)
  BY <1>1, FlushOrderLeaf
<1>3. l # b /\ bf[l].next = Nil /\ OnChain(l) /\ bf[l].pgno # Nil
  BY <1>1, <1>2, FlushOrderLeaf
<1>4. UNCHANGED <<disk, hash, latest>> /\ th[t].pc # "read"
  BY <1>1 DEF FlushOlderVersion
<1>5. CASE Leaves(t) /\ UNCHANGED <<bf, io>>
  <2>1. \A u \in Thread \ {t} : th'[u] = th[u]
    BY <1>5, Left
  <2>2. /\ CacheType' /\ CacheInv' /\ Steady
        /\ \A u \in Thread \ {t} : Undisturbed(u)
        /\ \A c \in Buffer : FaultOwned(c)'
    BY <1>4, <1>5, <2>1, QuietMove
  <2>3. ThreadType' /\ ThreadInv'
    BY <1>5, <2>2, Leaving
  <2>4. QED
    BY <2>2, <2>3 DEF Good
<1>6. CASE CanTryExclusive(l) /\ bf' = FBFICompleteFlushPage(l) /\ UNCHANGED <<th, io>>
  <2>1. \A u \in Thread \ {t} : th'[u] = th[u]
    BY <1>6
  <2>2. \A u \in Thread \ {t} : th[u].b = l => th[u].mode \in {"none", "S"}
    BY <1>6, TryOwners
  <2>3. /\ CacheType' /\ CacheInv' /\ Steady
        /\ \A u \in Thread \ {t} : Undisturbed(u)
        /\ \A c \in Buffer : FaultOwned(c)'
    BY <1>4, <1>6, <2>1, <2>2, QuietComplete
  <2>4. ThreadType' /\ ThreadInv'
    <3>1. th'[t] = th[t] /\ (th[t].b = l => th[t].mode \in {"none", "S"})
      BY <1>0, <1>3, <1>6
    <3>2. Undisturbed(t)
      BY <1>4, <1>6, <3>1, CompleteUndisturbed
    <3>3. QED
      BY <1>6, <2>3, <3>2, ThreadStay
  <2>5. QED
    BY <2>3, <2>4 DEF Good
<1>7. CASE /\ CanTryExclusive(l)
           /\ FBFICompleteFlushPage(l)[l].dirty /\ FBFICompleteFlushPage(l)[l].err = "ok"
           /\ bf' = BFIPrepareWritePage(FBFICompleteFlushPage(l), l)
           /\ io' = [io EXCEPT ![l] = "write"]
           /\ Leaves(t)
  <2>1. \A u \in Thread \ {t} : th'[u] = th[u]
    BY <1>7, Left
  <2>2. \A u \in Thread \ {t} : th[u].b = l => th[u].mode \in {"none", "S"}
    BY <1>7, TryOwners
  <2>3. FBFICompleteFlushPage(l) = bf
    BY <1>7, NotFlushed
  <2>4. /\ bf[l].err = "ok" /\ OnChain(l) /\ bf[l].next = Nil
        /\ bf' = BFIPrepareWritePage(bf, l) /\ io' = [io EXCEPT ![l] = "write"]
    BY <1>3, <1>7, <2>3
  <2>5. /\ CacheType' /\ CacheInv' /\ Steady
        /\ \A u \in Thread \ {t} : Undisturbed(u)
        /\ \A c \in Buffer : FaultOwned(c)'
    BY <1>4, <2>1, <2>2, <2>4, QuietIssue
  <2>6. ThreadType' /\ ThreadInv'
    BY <1>7, <2>5, Leaving
  <2>7. QED
    BY <2>5, <2>6 DEF Good
<1>8. CASE /\ CanTryExclusive(l)
           /\ FBFICompleteFlushPage(l)[l].dirty /\ FBFICompleteFlushPage(l)[l].err \in {"ok", "ioerr"}
           /\ bf' = [FBFICompleteFlushPage(l) EXCEPT ![l].err = "ioerr", ![b].err = "ioerr"]
           /\ Leaves(t)
           /\ UNCHANGED io
  <2>1. UNCHANGED <<disk, hash, io, latest>>
    BY <1>4, <1>8
  <2>2. PICK f : f = FBFICompleteFlushPage(l)
    OBVIOUS
  <2>3. /\ f[l].dirty /\ f[l].err \in {"ok", "ioerr"}
        /\ bf' = [f EXCEPT ![l].err = "ioerr", ![b].err = "ioerr"]
    BY <1>8, <2>2
  <2>6. PICK g : g = BothFail(f, l, b)
    OBVIOUS
  <2>7. bf' = g
    BY <2>3, <2>6 DEF BothFail
  <2>4. th[t].pc = "flush" /\ th[t].b = b /\ l # b /\ bf[l].pgno # Nil /\ CanTryExclusive(l) /\ Leaves(t)
    BY <1>0, <1>1, <1>3, <1>8
  <2>5. QED
    BY <2>1, <2>2, <2>3, <2>4, <2>6, <2>7, OlderFailedStep
<1>9. QED
  BY <1>0, <1>2, <1>5, <1>6, <1>7, <1>8 DEF FlushOlderVersion

\* A flush issues the write.
LEMMA AsyncWriteStep ==
  ASSUME CacheType, CacheInv, ThreadType, ThreadInv, NEW t \in Thread, ErrBFIAsyncWrite(t)
  PROVE  Good' /\ Steady
<1>0. PICK b \in Buffer : b = th[t].b
  BY ThreadFields, ThreadFacts DEF ErrBFIAsyncWrite, Place
<1>1. th[t].pc = "flush" /\ bf[b].next = Nil /\ OnChain(b) /\ bf[b].err = "ok" /\ th[t].mode = "X"
  BY <1>0, ThreadFacts DEF ErrBFIAsyncWrite, Hold, Place
<1>2. /\ bf' = BFIPrepareWritePage(bf, b) /\ io' = [io EXCEPT ![b] = "write"]
      /\ UNCHANGED <<disk, hash, latest>> /\ Leaves(t)
  BY <1>0 DEF ErrBFIAsyncWrite
<1>3. \A u \in Thread \ {t} : th'[u] = th[u]
  BY <1>2, Left
<1>4. \A u \in Thread \ {t} : th[u].b = b => th[u].mode \in {"none", "S"}
  BY <1>0, <1>1, OwnersMode
<1>5. th[t].pc # "read"
  BY <1>1
<1>6. /\ CacheType' /\ CacheInv' /\ Steady
      /\ \A u \in Thread \ {t} : Undisturbed(u)
      /\ \A c \in Buffer : FaultOwned(c)'
  BY <1>1, <1>2, <1>3, <1>4, <1>5, QuietIssue
<1>7. ThreadType' /\ ThreadInv'
  BY <1>2, <1>6, Leaving
<1>8. QED
  BY <1>6, <1>7 DEF Good

\* A flush gives up, and may leave an error behind.
LEMMA RefusedStep ==
  ASSUME CacheType, CacheInv, ThreadType, ThreadInv, NEW t \in Thread, FlushRefused(t)
  PROVE  Good' /\ Steady
<1>0. PICK b \in Buffer : b = th[t].b
  BY ThreadFields, ThreadFacts DEF FlushRefused, Place
<1>1. th[t].pc = "flush" /\ th[t].pc # "read" /\ UNCHANGED <<disk, hash, io, latest>> /\ Leaves(t)
  BY DEF FlushRefused
<1>2. \A u \in Thread \ {t} : th'[u] = th[u]
  BY <1>1, Left
<1>3. /\ CacheType' /\ CacheInv' /\ Steady
      /\ \A u \in Thread \ {t} : Undisturbed(u)
      /\ \A c \in Buffer : FaultOwned(c)'
  <2>1. CASE UNCHANGED bf
    BY <1>1, <1>2, <2>1, QuietMove
  <2>2. CASE bf' = [bf EXCEPT ![b].err = "ioerr"]
    <3>1. th[t].mode = "X" /\ bf[b].err = "ok" /\ bf[b].pgno # Nil /\ bf[b].signal = "none"
      <4>1. th[t].mode = "X" /\ bf[b].err = "ok" /\ bf[b].pgno # Nil
        BY <1>0, <1>1, ThreadFacts, NilApart DEF Place, Hold
      <4>2. QED
        BY <4>1, Fields DEF CacheInv, IOSound
    <3>2. /\ bf' \in [Buffer -> BFs] /\ \A c \in Buffer \ {b} : bf'[c] = bf[c]
          /\ bf'[b].pgno = bf[b].pgno /\ bf'[b].cur = bf[b].cur /\ bf'[b].old = bf[b].old
          /\ bf'[b].dirty = bf[b].dirty /\ bf'[b].pv = bf[b].pv
          /\ bf'[b].next = bf[b].next /\ bf'[b].prev = bf[b].prev
          /\ bf'[b].err = "ioerr" /\ bf'[b].signal = bf[b].signal
      <4>1. /\ bf'[b] = [bf[b] EXCEPT !.err = "ioerr"] /\ bf[b] \in BFs
            /\ \A c \in Buffer \ {b} : bf'[c] = bf[c] /\ bf'[c] \in BFs
            /\ bf' = [c \in Buffer |-> bf'[c]]
        BY <2>2 DEF CacheType
      <4>2. bf'[b] \in BFs /\ bf'[b].err = "ioerr" /\ bf'[b].signal = bf[b].signal
            /\ bf'[b].pgno = bf[b].pgno /\ bf'[b].cur = bf[b].cur /\ bf'[b].old = bf[b].old
            /\ bf'[b].dirty = bf[b].dirty /\ bf'[b].pv = bf[b].pv
            /\ bf'[b].next = bf[b].next /\ bf'[b].prev = bf[b].prev
        BY <4>1 DEF BFs, Err
      <4>3. bf' \in [Buffer -> BFs]
        BY <4>1, <4>2
      <4>4. QED
        BY <4>1, <4>2, <4>3
    <3>3. CacheType' /\ CacheInv'
      BY <1>1, <3>1, <3>2, ErrorCache
    <3>4. Steady
      <4>1. \A c \in Buffer : io[c] = "write" => bf'[c].pv = bf[c].pv /\ bf'[c].pgno = bf[c].pgno
        BY <3>2
      <4>2. QED
        BY <1>1, <4>1, SteadyDisk
    <3>5. ASSUME NEW u \in Thread \ {t} PROVE Undisturbed(u)
      <4>1. CASE th[u].b = b
        <5>1. th[u].mode \in {"none", "S"}
          BY <1>0, <3>1, <4>1, OwnersMode
        <5>2. QED
          BY <1>1, <1>2, <3>2, <4>1, <5>1, ReaderUndisturbed
      <4>2. CASE th[u].b # b
        BY <1>1, <1>2, <3>2, <4>2, QuietUndisturbed
      <4>3. QED
        BY <4>1, <4>2
    <3>6. \A c \in Buffer : FaultOwned(c)'
      <4>1. \A c \in Buffer : bf'[c].err = "fault" => bf[c].err = "fault"
        BY <3>2
      <4>2. QED
        BY <1>1, <1>2, <4>1, FaultKept
    <3>7. QED
      BY <3>3, <3>4, <3>5, <3>6
  <2>3. QED
    BY <1>0, <2>1, <2>2 DEF FlushRefused
<1>4. ThreadType' /\ ThreadInv'
  BY <1>1, <1>3, Leaving
<1>5. QED
  BY <1>3, <1>4 DEF Good

-----------------------------------------------------------------------------
(* I/O completion, reading ahead and evicting *)

\* A page is read ahead.
LEMMA PrereadStep ==
  ASSUME CacheType, CacheInv, ThreadType, ThreadInv, NEW p \in Page, NEW b \in Buffer,
         ErrBFIPrereadPage(p, b)
  PROVE  Good' /\ Steady
<1>1. /\ hash[p] = Nil /\ Available(b) /\ hash' = [hash EXCEPT ![p] = b]
      /\ bf' = [bf EXCEPT ![b] = [Free EXCEPT !.pgno = p, !.cur = TRUE, !.err = "fault"]]
      /\ UNCHANGED <<disk, latest>>
  BY DEF ErrBFIPrereadPage
<1>2. /\ io' \in [Buffer -> {"none", "read", "write"}]
      /\ io'[b] \in {"none", "read"} /\ \A c \in Buffer \ {b} : io'[c] = io[c]
      /\ io'[b] = "read" /\ th' = th
  BY DEF ErrBFIPrereadPage, CacheType
<1>3. /\ CacheType' /\ CacheInv' /\ Steady
      /\ \A u \in Thread : th[u].b # b /\ (th'[u] = th[u] => Undisturbed(u))
      /\ \A c \in Buffer \ {b} : bf'[c] = bf[c]
      /\ bf'[b].cur /\ bf'[b].pgno = p /\ bf'[b].err = "fault"
      /\ io[b] = "none"
  BY <1>1, <1>2, QuietCached
<1>4. \A u \in Thread : Undisturbed(u)
  BY <1>2, <1>3
<1>5. ASSUME NEW c \in Buffer PROVE FaultOwned(c)'
  <2>1. CASE c = b
    BY <1>2, <2>1 DEF FaultOwned
  <2>2. CASE c # b
    <3>1. bf'[c] = bf[c] /\ io'[c] = io[c] /\ th' = th
      BY <1>2, <1>3, <2>2
    <3>2. QED
      BY <3>1 DEF FaultOwned, ThreadInv, HoldSound
  <2>3. QED
    BY <2>1, <2>2
<1>6. ThreadType' /\ ThreadInv'
  BY <1>2, <1>4, <1>5, ThreadStay
<1>7. QED
  BY <1>3, <1>6 DEF Good

\* A read completes.
LEMMA ReadCompleteStep ==
  ASSUME CacheType, CacheInv, ThreadType, ThreadInv, NEW b \in Buffer, BFIAsyncReadComplete(b)
  PROVE  Good' /\ Steady
<1>1. /\ io[b] = "read" /\ io' = [io EXCEPT ![b] = "none"] /\ UNCHANGED <<disk, hash, latest>>
      /\ UNCHANGED th
  BY DEF BFIAsyncReadComplete
<1>2. bf[b].err = "fault" /\ bf[b].cur /\ bf[b].pgno # Nil /\ bf[b].pgno \in Page
  BY <1>1, Fields DEF CacheInv, IOSound, HashSound
<1>3. bf[b] \in BFs /\ bf \in [Buffer -> BFs] /\ disk[bf[b].pgno] \in Content
  BY <1>2 DEF CacheType
<1>4. /\ bf'[b] \in BFs /\ bf' = [bf EXCEPT ![b] = bf'[b]]
      /\ bf'[b].pgno = bf[b].pgno /\ bf'[b].cur = bf[b].cur /\ bf'[b].old = bf[b].old
      /\ bf'[b].dirty = bf[b].dirty /\ bf'[b].next = bf[b].next /\ bf'[b].prev = bf[b].prev
      /\ bf'[b].signal = bf[b].signal
      /\ bf'[b].err \in {"ok", "unverified", "ioerr"}
      /\ bf'[b].pv = disk[bf[b].pgno] \/ (bf'[b].err = "ioerr" /\ bf'[b].pv = bf[b].pv)
  <2>1. CASE bf' = [bf EXCEPT ![b] = [@ EXCEPT !.err = "unverified", !.pv = disk[bf[b].pgno]]]
    <3>1. bf'[b] = [bf[b] EXCEPT !.err = "unverified", !.pv = disk[bf[b].pgno]]
          /\ bf' = [bf EXCEPT ![b] = bf'[b]]
      BY <1>3, <2>1
    <3>2. "unverified" \in Err
      BY DEF Err
    <3>3. QED
      BY <1>3, <3>1, <3>2 DEF BFs
  <2>2. CASE bf' = [bf EXCEPT ![b].err = "ioerr"]
    <3>1. bf'[b] = [bf[b] EXCEPT !.err = "ioerr"] /\ bf' = [bf EXCEPT ![b] = bf'[b]]
      BY <1>3, <2>2
    <3>2. "ioerr" \in Err
      BY DEF Err
    <3>3. QED
      BY <1>3, <3>1, <3>2 DEF BFs
  <2>3. QED
    BY <2>1, <2>2 DEF BFIAsyncReadComplete
<1>5. bf' \in [Buffer -> BFs] /\ \A c \in Buffer \ {b} : bf'[c] = bf[c]
  BY <1>3, <1>4
<1>6. CacheType' /\ CacheInv'
  <2>1. bf[b].err \in {"fault", "unverified"}
    BY <1>2
  <2>2. QED
    BY <1>1, <1>4, <1>5, <2>1, ReadCache
<1>7. io'[b] = "none" /\ \A c \in Buffer \ {b} : io'[c] = io[c]
  BY <1>1 DEF CacheType
<1>8. ASSUME NEW u \in Thread PROVE Undisturbed(u)
  <2>1. th[u].b = b => th[u].mode = "none" /\ bf'[b].pgno # Nil
    BY <1>1, <1>2, <1>4, ThreadFacts, NilApart DEF NoRead
  <2>2. \A c \in Buffer \ {b} : th[u].b = c =>
            /\ bf'[c].pgno = bf[c].pgno /\ bf'[c].cur = bf[c].cur
            /\ bf'[c].dirty = bf[c].dirty /\ bf'[c].err = bf[c].err
            /\ bf'[c].pv = bf[c].pv /\ (bf[c].prev # Nil => bf'[c].prev # Nil)
            /\ io'[c] = "read" => io[c] = "read"
    BY <1>5, <1>7
  <2>3. th'[u] = th[u]
    BY <1>1
  <2>4. QED
    BY <2>1, <2>2, <2>3, WaitingUndisturbed
<1>9. \A c \in Buffer : FaultOwned(c)'
  <2>1. \A c \in Buffer : bf'[c].err = "fault" => bf[c].err = "fault" /\ (io[c] = "read" => io'[c] = "read")
    BY <1>4, <1>5, <1>7
  <2>2. QED
    BY <1>1, <2>1, FaultStay
<1>10. Steady
  <2>1. \A c \in Buffer : io[c] = "write" => bf'[c].pv = bf[c].pv /\ bf'[c].pgno = bf[c].pgno
    BY <1>1, <1>5
  <2>2. QED
    BY <1>1, <2>1, SteadyDisk
<1>11. ThreadType' /\ ThreadInv'
  BY <1>1, <1>8, <1>9, ThreadStay
<1>12. QED
  BY <1>6, <1>10, <1>11 DEF Good

\* A write completes.
LEMMA WriteCompleteStep ==
  ASSUME CacheType, CacheInv, ThreadType, ThreadInv, NEW b \in Buffer, BFIAsyncWriteComplete(b)
  PROVE  Good' /\ Steady
<1>1. /\ io[b] = "write" /\ io' = [io EXCEPT ![b] = "none"] /\ UNCHANGED th
  BY DEF BFIAsyncWriteComplete
<1>2. /\ CacheType' /\ CacheInv'
      /\ \A c \in Buffer \ {b} : bf'[c] = bf[c]
      /\ \A c \in Buffer : /\ bf'[c].pgno = bf[c].pgno /\ bf'[c].cur = bf[c].cur
                           /\ bf'[c].dirty = bf[c].dirty /\ bf'[c].err = bf[c].err
                           /\ bf'[c].pv = bf[c].pv /\ bf'[c].prev = bf[c].prev
      /\ \A p \in Page : disk'[p] >= disk[p]
  BY WrittenCache
<1>3. Steady
  BY <1>2 DEF Steady
<1>4. io'[b] = "none" /\ \A c \in Buffer \ {b} : io'[c] = io[c]
  BY <1>1 DEF CacheType
<1>5. ASSUME NEW u \in Thread PROVE Undisturbed(u)
  <2>1. th'[u] = th[u]
    BY <1>1
  <2>2. \A c \in Buffer : th[u].b = c =>
            /\ bf'[c].pgno = bf[c].pgno /\ bf'[c].cur = bf[c].cur
            /\ bf'[c].dirty = bf[c].dirty /\ bf'[c].err = bf[c].err
            /\ bf'[c].pv = bf[c].pv /\ (bf[c].prev # Nil => bf'[c].prev # Nil)
            /\ io'[c] = "read" => io[c] = "read"
    BY <1>2, <1>4
  <2>3. QED
    BY <2>1, <2>2, QuietUndisturbed
<1>6. \A c \in Buffer : FaultOwned(c)'
  <2>1. \A c \in Buffer : bf'[c].err = "fault" => bf[c].err = "fault" /\ (io[c] = "read" => io'[c] = "read")
    BY <1>1, <1>2, <1>4
  <2>2. QED
    BY <1>1, <2>1, FaultStay
<1>7. ThreadType' /\ ThreadInv'
  BY <1>1, <1>5, <1>6, ThreadStay
<1>8. QED
  BY <1>2, <1>3, <1>7 DEF Good

\* Taking clean versions out of a chain makes nothing dirty or clean.
LEMMA RemovedSame ==
  ASSUME CacheType, CacheInv, NEW b \in Buffer,
         NEW g, g = ErrBFIEvictRemoveCleanVersions(bf, b)
  PROVE  g[b].dirty = bf[b].dirty
<1>1. CASE g = bf
  BY <1>1
<1>2. CASE g # bf
  <2>1. PICK l : l = PbfBFIGetFlushOrderLeaf(b)
    OBVIOUS
  <2>2. bf[b].next # Nil /\ g = Unlinked(bf, l)
    BY <1>2, <2>1 DEF ErrBFIEvictRemoveCleanVersions
  <2>3. l \in Buffer /\ bf[l].next = Nil /\ bf[l].prev # Nil
    BY <2>1, <2>2, FlushOrderLeaf
  <2>4. bf[l].prev # l
    BY <2>3, NilApart DEF CacheInv, LinksSound
  <2>5. /\ g \in [Buffer -> BFs]
        /\ \A c \in Buffer :
             /\ g[c].pgno = bf[c].pgno /\ g[c].cur = bf[c].cur /\ g[c].old = bf[c].old
             /\ g[c].err = bf[c].err /\ g[c].dirty = bf[c].dirty /\ g[c].pv = bf[c].pv
             /\ g[c].signal = bf[c].signal
             /\ g[c].prev = IF c = l THEN Nil ELSE bf[c].prev
             /\ g[c].next = IF bf[l].prev = c THEN Nil ELSE bf[c].next
    BY <2>2, <2>3, <2>4, UnlinkFields
  <2>6. QED
    BY <2>5
<1>3. QED
  BY <1>1, <1>2

\* The buffers when buffer b is taken out of its chain and freed.
Freed(g, b) == [Unlinked(g, b) EXCEPT ![b] = Free]

\* What taking a buffer out of the chain and freeing it does to the buffers.
LEMMA FreedFields ==
  ASSUME NEW g \in [Buffer -> BFs], NEW b \in Buffer, g[b].prev # b,
         NEW h, h = Freed(g, b)
  PROVE  /\ h \in [Buffer -> BFs] /\ h = [h EXCEPT ![b] = Free]
         /\ \A c \in Buffer \ {b} :
              /\ h[c].pgno = g[c].pgno /\ h[c].cur = g[c].cur /\ h[c].old = g[c].old
              /\ h[c].err = g[c].err /\ h[c].dirty = g[c].dirty /\ h[c].pv = g[c].pv
              /\ h[c].signal = g[c].signal /\ h[c].prev = g[c].prev
              /\ h[c].next = IF c = g[b].prev THEN Nil ELSE g[c].next
<1>1. Free \in BFs
  BY BufferCacheAssumption DEF Free, BFs, Err, Content
<1>2. /\ \A c \in Buffer \ {b} : Unlinked(g, b)[c] =
            IF g[b].prev = c THEN [g[c] EXCEPT !.next = Nil] ELSE g[c]
      /\ Unlinked(g, b) = [c \in Buffer |-> Unlinked(g, b)[c]]
  BY DEF Unlinked
<1>3. /\ h = [c \in Buffer |-> h[c]] /\ h[b] = Free
      /\ \A c \in Buffer \ {b} : h[c] = IF g[b].prev = c THEN [g[c] EXCEPT !.next = Nil] ELSE g[c]
  BY <1>2 DEF Freed
<1>4. ASSUME NEW c \in Buffer \ {b}
      PROVE  /\ h[c] \in BFs
             /\ h[c].pgno = g[c].pgno /\ h[c].cur = g[c].cur /\ h[c].old = g[c].old
             /\ h[c].err = g[c].err /\ h[c].dirty = g[c].dirty /\ h[c].pv = g[c].pv
             /\ h[c].signal = g[c].signal /\ h[c].prev = g[c].prev
             /\ h[c].next = IF c = g[b].prev THEN Nil ELSE g[c].next
  <2>1. PICK r \in BFs : r = g[c]
    OBVIOUS
  <2>2. CASE g[b].prev = c
    <3>1. h[c] = [r EXCEPT !.next = Nil]
      BY <1>3, <2>1, <2>2
    <3>2. PICK s : s = h[c]
      OBVIOUS
    <3>3. /\ s \in BFs /\ s.next = Nil
          /\ s.pgno = r.pgno /\ s.cur = r.cur /\ s.old = r.old /\ s.err = r.err
          /\ s.dirty = r.dirty /\ s.pv = r.pv /\ s.signal = r.signal /\ s.prev = r.prev
      BY <3>1, <3>2 DEF BFs
    <3>4. QED
      BY <2>1, <2>2, <3>2, <3>3
  <2>3. CASE g[b].prev # c
    <3>1. h[c] = g[c]
      BY <1>3, <2>3
    <3>2. QED
      BY <2>1, <2>3, <3>1
  <2>4. QED
    BY <2>2, <2>3
<1>5. h \in [Buffer -> BFs] /\ h = [h EXCEPT ![b] = Free]
  BY <1>1, <1>3, <1>4
<1>6. QED
  BY <1>4, <1>5

\* What is left of the chain when the clean version at its end is taken out of
\* it, and nothing hangs off buffer b any more.
LEMMA RemovedFields ==
  ASSUME CacheType, CacheInv, ThreadType, NEW b \in Buffer, bf[b].pgno # Nil, ~bf[b].dirty,
         NEW g, g = ErrBFIEvictRemoveCleanVersions(bf, b), g[b].next = Nil
  PROVE  /\ g \in [Buffer -> BFs] /\ g[b].prev = bf[b].prev /\ bf[b].prev # b
         /\ bf[b].next # Nil => /\ bf[bf[b].next].next = Nil
                                /\ ~bf[bf[b].next].dirty /\ bf[bf[b].next].err # "pending"
                                /\ CanTryExclusive(bf[b].next)
         /\ \A c \in Buffer \ {b} :
              /\ g[c].pgno = bf[c].pgno /\ g[c].cur = bf[c].cur /\ g[c].old = bf[c].old
              /\ g[c].err = bf[c].err /\ g[c].dirty = bf[c].dirty /\ g[c].pv = bf[c].pv
              /\ g[c].signal = bf[c].signal
              /\ g[c].prev = IF c = bf[b].next THEN Nil ELSE bf[c].prev
              /\ g[c].next = bf[c].next
<1>0. LinksSound /\ DirtySound /\ IOSound /\ ChainsOrdered
  BY DEF CacheInv
<1>1. bf[b].prev # b
  <2>1. SUFFICES ASSUME bf[b].prev = b PROVE FALSE
    OBVIOUS
  <2>2. bf[b].next = b /\ bf[b].prev # Nil
    BY <1>0, <2>1, NilApart DEF LinksSound
  <2>3. QED
    BY <1>0, <2>2, NilApart DEF DirtySound
<1>2. CASE bf[b].next = Nil
  <2>1. g = bf
    BY <1>2 DEF ErrBFIEvictRemoveCleanVersions
  <2>2. \A c \in Buffer : c # bf[b].next
    BY <1>2, NilApart
  <2>3. QED
    BY <1>1, <1>2, <2>1, <2>2 DEF CacheType
<1>3. CASE bf[b].next # Nil
  <2>1. PICK l : l = PbfBFIGetFlushOrderLeaf(b)
    OBVIOUS
  <2>2. /\ ~bf[l].dirty /\ bf[l].err # "pending" /\ CanTryExclusive(l) /\ g = Unlinked(bf, l)
    <3>1. g # bf
      BY <1>3
    <3>2. QED
      BY <1>3, <2>1, <3>1 DEF ErrBFIEvictRemoveCleanVersions, FBFIUpdatablePage
  <2>3. l \in Buffer /\ l # b /\ bf[l].next = Nil /\ bf[l].prev # Nil
    BY <1>3, <2>1, FlushOrderLeaf
  <2>4. bf[l].prev # l
    BY <1>0, <2>3, NilApart DEF LinksSound
  <2>5. /\ g \in [Buffer -> BFs]
        /\ \A c \in Buffer :
             /\ g[c].pgno = bf[c].pgno /\ g[c].cur = bf[c].cur /\ g[c].old = bf[c].old
             /\ g[c].err = bf[c].err /\ g[c].dirty = bf[c].dirty /\ g[c].pv = bf[c].pv
             /\ g[c].signal = bf[c].signal
             /\ g[c].prev = IF c = l THEN Nil ELSE bf[c].prev
             /\ g[c].next = IF bf[l].prev = c THEN Nil ELSE bf[c].next
    BY <2>2, <2>3, <2>4, UnlinkFields
  <2>6. bf[l].prev = b
    BY <1>3, <2>5
  <2>7. bf[b].next = l
    BY <1>0, <2>3, <2>6 DEF LinksSound
  <2>8. /\ g[b].prev = bf[b].prev
        /\ \A c \in Buffer \ {b} :
              /\ g[c].pgno = bf[c].pgno /\ g[c].cur = bf[c].cur /\ g[c].old = bf[c].old
              /\ g[c].err = bf[c].err /\ g[c].dirty = bf[c].dirty /\ g[c].pv = bf[c].pv
              /\ g[c].signal = bf[c].signal
              /\ g[c].prev = IF c = bf[b].next THEN Nil ELSE bf[c].prev
              /\ g[c].next = bf[c].next
    BY <2>3, <2>5, <2>6, <2>7
  <2>9. /\ bf[bf[b].next].next = Nil /\ ~bf[bf[b].next].dirty /\ bf[bf[b].next].err # "pending"
        /\ CanTryExclusive(bf[b].next)
    BY <2>2, <2>3, <2>7
  <2>10. QED
    BY <1>1, <2>5, <2>8, <2>9
<1>4. QED
  BY <1>2, <1>3

\* What freeing a buffer of no more use does to the others.
LEMMA EvictedFields ==
  ASSUME CacheType, CacheInv, ThreadType, NEW b \in Buffer, bf[b].pgno # Nil, ~bf[b].dirty,
         NEW g, g = ErrBFIEvictRemoveCleanVersions(bf, b), g[b].next = Nil,
         NEW h, h = Freed(g, b)
  PROVE  /\ h \in [Buffer -> BFs] /\ h = [h EXCEPT ![b] = Free]
         /\ bf[b].next # Nil => /\ h[bf[b].next].next = Nil
                                /\ ~bf[bf[b].next].dirty /\ bf[bf[b].next].err # "pending"
                                /\ CanTryExclusive(bf[b].next)
         /\ \A c \in Buffer \ {b} :
              /\ h[c].pgno = bf[c].pgno /\ h[c].cur = bf[c].cur /\ h[c].old = bf[c].old
              /\ h[c].err = bf[c].err /\ h[c].dirty = bf[c].dirty /\ h[c].pv = bf[c].pv
              /\ h[c].signal = bf[c].signal
              /\ h[c].prev = IF c = bf[b].next THEN Nil ELSE bf[c].prev
              /\ h[c].next = IF c = bf[b].prev THEN Nil ELSE bf[c].next
<1>1. /\ g \in [Buffer -> BFs] /\ g[b].prev = bf[b].prev /\ bf[b].prev # b
      /\ bf[b].next # Nil => /\ bf[bf[b].next].next = Nil
                             /\ ~bf[bf[b].next].dirty /\ bf[bf[b].next].err # "pending"
                             /\ CanTryExclusive(bf[b].next)
      /\ \A c \in Buffer \ {b} :
           /\ g[c].pgno = bf[c].pgno /\ g[c].cur = bf[c].cur /\ g[c].old = bf[c].old
           /\ g[c].err = bf[c].err /\ g[c].dirty = bf[c].dirty /\ g[c].pv = bf[c].pv
           /\ g[c].signal = bf[c].signal
           /\ g[c].prev = IF c = bf[b].next THEN Nil ELSE bf[c].prev
           /\ g[c].next = bf[c].next
  BY RemovedFields
<1>2. /\ h \in [Buffer -> BFs] /\ h = [h EXCEPT ![b] = Free]
      /\ \A c \in Buffer \ {b} :
           /\ h[c].pgno = g[c].pgno /\ h[c].cur = g[c].cur /\ h[c].old = g[c].old
           /\ h[c].err = g[c].err /\ h[c].dirty = g[c].dirty /\ h[c].pv = g[c].pv
           /\ h[c].signal = g[c].signal /\ h[c].prev = g[c].prev
           /\ h[c].next = IF c = g[b].prev THEN Nil ELSE g[c].next
  BY <1>1, FreedFields
<1>3. ASSUME bf[b].next # Nil PROVE h[bf[b].next].next = Nil
  <2>1. bf[b].next \in Buffer /\ bf[b].next # b
    BY <1>1, <1>3, Fields DEF CacheInv, LinksSound
  <2>2. QED
    BY <1>1, <1>2, <1>3, <2>1
<1>4. QED
  BY <1>1, <1>2, <1>3

\* A clean buffer is freed.
LEMMA FreedStep ==
  ASSUME CacheType, CacheInv, ThreadType, ThreadInv, NEW b \in Buffer, bf[b].pgno # Nil, CanTryWrite(b),
         bf[b].err # "pending", ~bf[b].dirty,
         NEW h, h \in [Buffer -> BFs], h = [h EXCEPT ![b] = Free], bf' = h,
         bf[b].next # Nil => /\ h[bf[b].next].next = Nil
                             /\ ~bf[bf[b].next].dirty /\ bf[bf[b].next].err # "pending"
                             /\ CanTryExclusive(bf[b].next),
         \A c \in Buffer \ {b} :
           /\ h[c].pgno = bf[c].pgno /\ h[c].cur = bf[c].cur /\ h[c].old = bf[c].old
           /\ h[c].err = bf[c].err /\ h[c].dirty = bf[c].dirty /\ h[c].pv = bf[c].pv
           /\ h[c].signal = bf[c].signal
           /\ h[c].prev = IF c = bf[b].next THEN Nil ELSE bf[c].prev
           /\ h[c].next = IF c = bf[b].prev THEN Nil ELSE bf[c].next,
         hash' = IF bf[b].cur THEN [hash EXCEPT ![bf[b].pgno] = Nil] ELSE hash,
         UNCHANGED <<disk, io, th, latest>>
  PROVE  Good' /\ Steady
<1>1. io[b] = "none" /\ \A t \in Thread : th[t].b # b
  BY Fields DEF CanTryWrite, CacheInv, IOSound
<1>2. CacheType' /\ CacheInv'
  BY <1>1, FreeCache
<1>3. /\ bf'[b] = Free /\ Free.err = "ok"
      /\ \A c \in Buffer \ {b} :
           /\ bf'[c].pgno = bf[c].pgno /\ bf'[c].cur = bf[c].cur /\ bf'[c].dirty = bf[c].dirty
           /\ bf'[c].err = bf[c].err /\ bf'[c].pv = bf[c].pv
           /\ bf'[c].prev = IF c = bf[b].next THEN Nil ELSE bf[c].prev
  BY DEF Free
<1>4. Steady
  <2>1. \A c \in Buffer : io[c] = "write" => bf'[c].pv = bf[c].pv /\ bf'[c].pgno = bf[c].pgno
    BY <1>1, <1>3
  <2>2. QED
    BY <2>1, SteadyDisk
<1>5. ASSUME NEW u \in Thread PROVE Undisturbed(u)
  <2>1. th'[u] = th[u] /\ th[u].b # b
    BY <1>1
  <2>2. CASE th[u].b = bf[b].next
    <3>1. ASSUME NEW c \in Buffer, th[u].b = c
          PROVE  /\ th[u].mode \in {"none", "S"}
                 /\ bf'[c].pgno = bf[c].pgno /\ bf'[c].cur = bf[c].cur /\ bf'[c].pv = bf[c].pv
                 /\ bf'[c].err \in {"fault", "unverified"} => bf'[c].err = bf[c].err
                 /\ io'[c] = "read" => io[c] = "read"
      <4>1. CanTryExclusive(c)
        BY <2>2, <3>1, NilApart
      <4>2. th[u].mode \in {"none", "S"}
        BY <3>1, <4>1, TryOwners
      <4>3. QED
        BY <1>3, <2>1, <3>1, <4>2
    <3>2. QED
      BY <2>1, <3>1, ReaderUndisturbed
  <2>3. CASE th[u].b # bf[b].next
    <3>1. \A c \in Buffer : th[u].b = c =>
            /\ bf'[c].pgno = bf[c].pgno /\ bf'[c].cur = bf[c].cur
            /\ bf'[c].dirty = bf[c].dirty /\ bf'[c].err = bf[c].err
            /\ bf'[c].pv = bf[c].pv /\ (bf[c].prev # Nil => bf'[c].prev # Nil)
            /\ io'[c] = "read" => io[c] = "read"
      BY <1>3, <2>1, <2>3
    <3>2. QED
      BY <2>1, <3>1, QuietUndisturbed
  <2>4. QED
    BY <2>2, <2>3
<1>6. \A c \in Buffer : FaultOwned(c)'
  <2>1. \A c \in Buffer : bf'[c].err = "fault" => bf[c].err = "fault" /\ (io[c] = "read" => io'[c] = "read")
    BY <1>3
  <2>2. QED
    BY <2>1, FaultStay
<1>7. ThreadType' /\ ThreadInv'
  BY <1>5, <1>6, ThreadStay
<1>8. QED
  BY <1>2, <1>4, <1>7 DEF Good

\* A page is evicted.
LEMMA EvictStep ==
  ASSUME CacheType, CacheInv, ThreadType, ThreadInv, NEW b \in Buffer, ErrBFIEvictPage(b)
  PROVE  Good' /\ Steady
<1>1. /\ bf[b].pgno # Nil /\ CanTryWrite(b) /\ \A t \in Thread : th[t].b # b
      /\ UNCHANGED <<disk, io, th, latest>>
  BY DEF ErrBFIEvictPage, CanTryWrite
<1>2. CASE FlushEnded(b) /\ bf' = FBFICompleteFlushPage(b) /\ UNCHANGED hash
  <2>1. /\ CacheType' /\ CacheInv'
        /\ \A c \in Buffer : /\ bf'[c].pgno = bf[c].pgno /\ bf'[c].cur = bf[c].cur
                             /\ bf'[c].pv = bf[c].pv
        /\ \A c \in Buffer \ {b} : /\ bf'[c].dirty = bf[c].dirty /\ bf'[c].err = bf[c].err
                                   /\ bf'[c].prev = bf[c].prev
        /\ bf' = bf \/ (FlushEnded(b) /\ bf'[b].err \in {"ok", "ioerr"})
        /\ bf'[b].err = "pending" => bf' = bf
    BY <1>1, <1>2, CompleteStep
  <2>2. Steady
    BY <1>1, <1>2, <2>1, SteadyDisk
  <2>3. ASSUME NEW u \in Thread PROVE Undisturbed(u)
    <3>1. th'[u] = th[u] /\ (th[u].b = b => th[u].mode \in {"none", "S"})
      BY <1>1
    <3>2. UNCHANGED <<disk, hash, io, latest>>
      BY <1>1, <1>2
    <3>3. QED
      BY <1>2, <3>1, <3>2, CompleteUndisturbed
  <2>4. \A c \in Buffer : FaultOwned(c)'
    <3>1. \A c \in Buffer : bf'[c].err = "fault" => bf[c].err = "fault" /\ (io[c] = "read" => io'[c] = "read")
      BY <1>1, <2>1
    <3>2. QED
      BY <1>1, <3>1, FaultStay
  <2>5. ThreadType' /\ ThreadInv'
    BY <1>1, <2>3, <2>4, ThreadStay
  <2>6. QED
    BY <2>1, <2>2, <2>5 DEF Good
<1>3. CASE bf' = ErrBFIEvictRemoveCleanVersions(bf, b) /\ UNCHANGED hash
  <2>0. UNCHANGED <<disk, hash, io, latest>> /\ UNCHANGED th
    BY <1>1, <1>3
  <2>1. /\ CacheType' /\ CacheInv'
        /\ \A c \in Buffer : /\ bf'[c].pgno = bf[c].pgno /\ bf'[c].cur = bf[c].cur
                             /\ bf'[c].pv = bf[c].pv /\ bf'[c].err = bf[c].err
                             /\ bf'[c].dirty = bf[c].dirty
        /\ \A u \in Thread : th'[u] = th[u] => Undisturbed(u)
    BY <1>3, <2>0, RemoveStep
  <2>2. Steady
    BY <2>0, <2>1, SteadyDisk
  <2>3. \A u \in Thread : Undisturbed(u)
    BY <2>0, <2>1
  <2>4. \A c \in Buffer : FaultOwned(c)'
    <3>1. \A c \in Buffer : bf'[c].err = "fault" => bf[c].err = "fault" /\ (io[c] = "read" => io'[c] = "read")
      BY <2>0, <2>1
    <3>2. QED
      BY <2>0, <3>1, FaultStay
  <2>5. ThreadType' /\ ThreadInv'
    BY <2>0, <2>3, <2>4, ThreadStay
  <2>6. QED
    BY <2>1, <2>2, <2>5 DEF Good
<1>4. CASE /\ FBFIUpdatablePage(bf[b])
           /\ ~ErrBFIEvictRemoveCleanVersions(bf, b)[b].dirty
           /\ ErrBFIEvictRemoveCleanVersions(bf, b)[b].next = Nil
           /\ bf' = [Unlinked(ErrBFIEvictRemoveCleanVersions(bf, b), b) EXCEPT ![b] = Free]
           /\ hash' = IF bf[b].cur THEN [hash EXCEPT ![bf[b].pgno] = Nil] ELSE hash
  <2>1. PICK g : g = ErrBFIEvictRemoveCleanVersions(bf, b)
    OBVIOUS
  <2>2. PICK h : h = Freed(g, b)
    OBVIOUS
  <2>3. bf' = h /\ ~g[b].dirty /\ g[b].next = Nil /\ bf[b].err # "pending"
    BY <1>4, <2>1, <2>2 DEF FBFIUpdatablePage, Freed
  <2>4. ~bf[b].dirty
    BY <2>1, <2>3, RemovedSame
  <2>5. /\ h \in [Buffer -> BFs] /\ h = [h EXCEPT ![b] = Free]
        /\ bf[b].next # Nil => /\ h[bf[b].next].next = Nil
                               /\ ~bf[bf[b].next].dirty /\ bf[bf[b].next].err # "pending"
                               /\ CanTryExclusive(bf[b].next)
        /\ \A c \in Buffer \ {b} :
             /\ h[c].pgno = bf[c].pgno /\ h[c].cur = bf[c].cur /\ h[c].old = bf[c].old
             /\ h[c].err = bf[c].err /\ h[c].dirty = bf[c].dirty /\ h[c].pv = bf[c].pv
             /\ h[c].signal = bf[c].signal
             /\ h[c].prev = IF c = bf[b].next THEN Nil ELSE bf[c].prev
             /\ h[c].next = IF c = bf[b].prev THEN Nil ELSE bf[c].next
    BY <1>1, <2>1, <2>2, <2>3, <2>4, EvictedFields
  <2>6. hash' = IF bf[b].cur THEN [hash EXCEPT ![bf[b].pgno] = Nil] ELSE hash
    BY <1>4
  <2>7. QED
    BY <1>1, <2>3, <2>4, <2>5, <2>6, FreedStep
<1>5. QED
  BY <1>2, <1>3, <1>4 DEF ErrBFIEvictPage

-----------------------------------------------------------------------------
(* The theorems *)

\* Every step keeps the invariant.
LEMMA NextStep ==
  ASSUME Good, Next
  PROVE  Good' /\ Steady
<1> USE DEF Good
<1>1. ASSUME NEW t \in Thread, NEW p \in Page, NEW m \in {"S", "X", "W"}, ErrBFILatchPage(t, p, m)
      PROVE  Good' /\ Steady
  BY <1>1, LookupStep
<1>2. ASSUME NEW t \in Thread, NEW p \in Page, NEW b \in Buffer, HintedReadLatch(t, p, b)
      PROVE  Good' /\ Steady
  BY <1>2, HintStep
<1>3. ASSUME NEW t \in Thread, LatchGranted(t) PROVE Good' /\ Steady
  BY <1>3, GrantStep
<1>4. ASSUME NEW t \in Thread, LatchUpgraded(t) PROVE Good' /\ Steady
  BY <1>4, UpgradeStep
<1>5. ASSUME NEW t \in Thread, VersionCopyForLatch(t) PROVE Good' /\ Steady
  BY <1>5, CopyForLatchStep
<1>6. ASSUME NEW t \in Thread, ErrBFICachePage(t) PROVE Good' /\ Steady
  BY <1>6, CachePageStep
<1>7. ASSUME NEW t \in Thread, BFISyncRead(t) PROVE Good' /\ Steady
  BY <1>7, SyncReadStep
<1>8. ASSUME NEW t \in Thread, BFDirty(t) PROVE Good' /\ Steady
  BY <1>8, DirtyStep
<1>9. ASSUME NEW t \in Thread, ErrBFUpgradeReadLatchToRDWLatch(t) PROVE Good' /\ Steady
  BY <1>9, ReadToRDWStep
<1>10. ASSUME NEW t \in Thread, ErrBFUpgradeReadLatchToWriteLatch(t) PROVE Good' /\ Steady
  BY <1>10, ReadToWriteStep
<1>11. ASSUME NEW t \in Thread, ReadLatchUpgraded(t) PROVE Good' /\ Steady
  BY <1>11, ReadUpgradedStep
<1>12. ASSUME NEW t \in Thread, ErrBFUpgradeRDWLatchToWriteLatch(t) PROVE Good' /\ Steady
  BY <1>12, RDWToWriteStep
<1>13. ASSUME NEW t \in Thread, RDWLatchUpgraded(t) PROVE Good' /\ Steady
  BY <1>13, RDWUpgradedStep
<1>14. ASSUME NEW t \in Thread, VersionCopyForUpgrade(t) PROVE Good' /\ Steady
  BY <1>14, CopyForUpgradeStep
<1>15. ASSUME NEW t \in Thread, BFDowngradeToReadLatch(t) PROVE Good' /\ Steady
  BY <1>15, DowngradeStep
<1>16. ASSUME NEW t \in Thread, BFUnlatch(t) PROVE Good' /\ Steady
  BY <1>16, UnlatchStep
<1>17. ASSUME NEW t \in Thread, NEW b \in Buffer, ErrBFIFlushPage(t, b) PROVE Good' /\ Steady
  BY <1>17, FlushPageStep
<1>18. ASSUME NEW t \in Thread, FlushOlderVersion(t) PROVE Good' /\ Steady
  BY <1>18, FlushOlderStep
<1>19. ASSUME NEW t \in Thread, ErrBFIAsyncWrite(t) PROVE Good' /\ Steady
  BY <1>19, AsyncWriteStep
<1>20. ASSUME NEW t \in Thread, FlushRefused(t) PROVE Good' /\ Steady
  BY <1>20, RefusedStep
<1>21. ASSUME NEW p \in Page, NEW b \in Buffer, ErrBFIPrereadPage(p, b) PROVE Good' /\ Steady
  BY <1>21, PrereadStep
<1>22. ASSUME NEW b \in Buffer, BFIAsyncReadComplete(b) PROVE Good' /\ Steady
  BY <1>22, ReadCompleteStep
<1>23. ASSUME NEW b \in Buffer, BFIAsyncWriteComplete(b) PROVE Good' /\ Steady
  BY <1>23, WriteCompleteStep
<1>24. ASSUME NEW b \in Buffer, ErrBFIEvictPage(b) PROVE Good' /\ Steady
  BY <1>24, EvictStep
<1>25. ASSUME NEW t \in Thread, NEW b \in Buffer, GetFlushableNeighboringBFs(t, b)
       PROVE  Good' /\ Steady
  BY <1>25, NeighborStep
<1>26. QED
  BY <1>1, <1>2, <1>3, <1>4, <1>5, <1>6, <1>7, <1>8, <1>9, <1>10, <1>11, <1>12, <1>13,
     <1>14, <1>15, <1>16, <1>17, <1>18, <1>19, <1>20, <1>21, <1>22, <1>23, <1>24, <1>25, Zenon
     DEF Next

\* The cache is empty at first.
LEMMA InitGood ==
  ASSUME Init
  PROVE  Good
<1>1. /\ Free \in BFs /\ Free.pgno = Nil /\ Free.cur = FALSE /\ Free.dirty = FALSE /\ Free.err = "ok"
      /\ Free.next = Nil /\ Free.prev = Nil /\ Free.signal = "none"
  BY BufferCacheAssumption DEF Free, BFs, Err, Content
<1>2. /\ Idle \in Threads /\ Idle.pc = "idle" /\ Idle.b = Nil /\ Idle.mode = "none"
  BY DEF Idle, Threads, PCs, Modes
<1>3. \A b \in Buffer : bf[b] = Free /\ io[b] = "none"
  BY DEF Init
<1>4. \A p \in Page : hash[p] = Nil /\ disk[p] = latest[p]
  BY DEF Init
<1>5. \A t \in Thread : th[t] = Idle
  BY DEF Init
<1>6. CacheType
  BY <1>1, BufferCacheAssumption DEF Init, CacheType, Content
<1>7. ThreadType
  BY <1>2 DEF Init, ThreadType
<1>8. HashSound /\ IOSound /\ LinksSound /\ DirtySound /\ DataSound
  <2>1. \A b \in Buffer : ~OnChain(b)
    BY <1>1, <1>3 DEF OnChain
  <2>2. \A b \in Buffer : DataOf(b)
    BY <1>1, <1>3 DEF DataOf
  <2>3. \A p \in Page : disk[p] # 0
    BY DEF Init
  <2>4. QED
    BY <1>1, <1>3, <1>4, <2>1, <2>2, <2>3
       DEF HashSound, IOSound, LinksSound, DirtySound, DataSound, NoLostUpdate
<1>9. ChainsOrdered
  <2>1. [b \in Buffer |-> 0] \in [Buffer -> Nat] /\ Ranked([b \in Buffer |-> 0])
    BY <1>1, <1>3 DEF Ranked, Versions, OnChain
  <2>2. QED
    BY <2>1 DEF ChainsOrdered
<1>10. ThreadInv
  BY <1>1, <1>2, <1>3, <1>5
     DEF ThreadInv, PlaceSound, LatchSound, HoldSound, Place, Excludes, Compatible, NoRead, Hold,
         Has, FaultOwned
<1>11. QED
  BY <1>6, <1>7, <1>8, <1>9, <1>10 DEF Good, CacheInv

\* The invariant as the steps above state it is the inductive one.
LEMMA GoodIsIInv == Good <=> IInv
  BY Types DEF Good, IInv

\* What the invariant says of the versions of a page.
LEMMA InvChain ==
  ASSUME Good
  PROVE  Chain
<1>1. SUFFICES ASSUME NEW b \in Buffer, bf[b].pgno # Nil
               PROVE  LET p == bf[b].pgno n == bf[b].next IN
                      /\ bf[b].cur <=> hash[p] = b
                      /\ bf[b].cur <=> ~bf[b].old
                      /\ bf[b].dirty /\ ~bf[b].cur => bf[b].prev # Nil
                      /\ bf[b].cur => bf[b].prev = Nil
                      /\ n # Nil => /\ bf[n].pgno = p /\ bf[n].prev = b
                                    /\ bf[n].pv <= bf[b].pv
                                    /\ bf[b].err # "pending"
                                    /\ bf[n].dirty => bf[b].dirty
                                    /\ ~bf[n].dirty => /\ bf[n].next = Nil
                                                       /\ bf[n].err \in {"pending", "ioerr"}
                                                       /\ disk[p] = bf[n].pv
  BY DEF Chain
<1>2. CacheType /\ HashSound /\ IOSound /\ LinksSound /\ DirtySound /\ ChainsOrdered /\ DataSound
  BY DEF Good, CacheInv
<1>3. /\ bf[b].cur <=> hash[bf[b].pgno] = b
      /\ bf[b].cur <=> ~bf[b].old
  BY <1>1, <1>2, Fields DEF HashSound
<1>4. /\ bf[b].dirty /\ ~bf[b].cur => bf[b].prev # Nil
      /\ bf[b].cur => bf[b].prev = Nil
  BY <1>2 DEF LinksSound, DirtySound, OnChain
<1>5. ASSUME NEW n \in Buffer, bf[b].next = n
      PROVE  /\ bf[n].pgno = bf[b].pgno /\ bf[n].prev = b
             /\ bf[n].pv <= bf[b].pv
             /\ bf[b].err # "pending"
             /\ bf[n].dirty => bf[b].dirty
             /\ ~bf[n].dirty => /\ bf[n].next = Nil
                                /\ bf[n].err \in {"pending", "ioerr"}
                                /\ disk[bf[b].pgno] = bf[n].pv
  <2>1. n # Nil
    BY NilApart
  <2>2. OnChain(b) /\ OnChain(n) /\ bf[n].pgno = bf[b].pgno /\ bf[n].prev = b
    BY <1>2, <1>5, <2>1 DEF LinksSound
  <2>3. bf[b].err # "pending"
    BY <1>2, <1>5, <2>1 DEF IOSound
  <2>4. PICK rank \in [Buffer -> Nat] : Ranked(rank)
    BY <1>2 DEF ChainsOrdered
  <2>5. PICK c \in Buffer : OnChain(c) /\ bf[c].pgno = bf[b].pgno /\ bf[c].next = Nil
    BY <1>2, <2>2 DEF LinksSound
  <2>6. Versions(b, c)
    BY <1>5, <2>1, <2>2, <2>5 DEF Versions
  <2>7. rank[n] < rank[b]
    BY <1>5, <2>1, <2>4, <2>6 DEF Ranked
  <2>8. Versions(n, b)
    BY <2>2, <2>4, <2>7 DEF Versions
  <2>9. bf[n].pv <= bf[b].pv
    BY <2>4, <2>7, <2>8 DEF Ranked
  <2>10. b # Nil /\ bf[n].prev # Nil
    BY <2>2, NilApart
  <2>11. bf[n].dirty => bf[b].dirty
    <3>1. SUFFICES ASSUME bf[n].dirty, ~bf[b].dirty PROVE FALSE
      BY <1>2, Fields
    <3>2. bf[b].cur
      BY <1>2, <1>5, <2>1, <2>2, <3>1 DEF DirtySound, OnChain
    <3>3. hash[bf[n].pgno] = b
      BY <1>3, <2>2, <3>2
    <3>4. QED
      BY <1>2, <3>1, <3>3 DEF DirtySound
  <2>12. ~bf[n].dirty => /\ bf[n].next = Nil
                         /\ bf[n].err \in {"pending", "ioerr"}
                         /\ disk[bf[b].pgno] = bf[n].pv
    BY <1>2, <2>2, <2>10 DEF DirtySound, DataSound, DataOf
  <2>13. QED
    BY <2>2, <2>3, <2>9, <2>11, <2>12
<1>6. bf[b].next \in Buffer \cup {Nil}
  BY <1>2, Fields
<1>7. QED
  BY <1>3, <1>4, <1>5, <1>6

\* The invariant allows one I/O for a page.
LEMMA InvOneIO ==
  ASSUME Good
  PROVE  OneIO
<1>1. SUFFICES ASSUME NEW b \in Buffer, NEW c \in Buffer, b # c, io[b] # "none", io[c] # "none",
                      bf[b].pgno = bf[c].pgno
               PROVE  FALSE
  BY DEF OneIO
<1>2. CacheType /\ CacheInv /\ HashSound /\ IOSound /\ LinksSound
  BY DEF Good, CacheInv
<1>3. bf[b].pgno # Nil
  BY <1>1, <1>2 DEF HashSound
<1>4. ASSUME NEW d \in Buffer, NEW e \in Buffer, d # e, io[d] = "write", io[e] = "write",
             bf[d].pgno = bf[e].pgno
      PROVE  FALSE
  <2>1. OnChain(d) /\ bf[d].next = Nil /\ OnChain(e) /\ bf[e].next = Nil
    BY <1>2, <1>4 DEF IOSound
  <2>2. Versions(d, e)
    BY <1>4, <2>1 DEF Versions
  <2>3. QED
    BY <1>2, <2>1, <2>2, OldestVersion DEF CacheInv
<1>5. ASSUME NEW d \in Buffer, NEW e \in Buffer, io[d] = "write", io[e] = "read",
             bf[d].pgno = bf[e].pgno, bf[e].pgno # Nil
      PROVE  FALSE
  <2>1. OnChain(d) /\ bf[d].next = Nil /\ bf[e].cur /\ bf[e].next = Nil /\ d # e
    BY <1>2, <1>5 DEF IOSound
  <2>2. Versions(d, e)
    BY <1>5, <2>1 DEF Versions, OnChain
  <2>3. QED
    BY <1>2, <2>1, <2>2, OldestVersion DEF CacheInv
<1>6. CASE io[b] = "read" /\ io[c] = "read"
  BY <1>1, <1>2, <1>3, <1>6 DEF IOSound, HashSound
<1>7. io[b] \in {"none", "read", "write"} /\ io[c] \in {"none", "read", "write"}
  BY <1>2, Fields
<1>8. QED
  BY <1>1, <1>3, <1>4, <1>5, <1>6, <1>7

\* The invariant implies that a latched page is the latest.
LEMMA InvSeesLatest ==
  ASSUME Good
  PROVE  SeesLatest
<1>0. CacheType /\ CacheInv /\ ThreadType /\ ThreadInv
  BY DEF Good
<1>1. DOMAIN th = Thread
  BY <1>0 DEF ThreadType
<1>2. ASSUME NEW t \in Thread, th[t].pc = "held"
      PROVE  FBFICurrentPage(th[t].b, th[t].pg) /\ bf[th[t].b].pv = latest[th[t].pg]
  <2>1. Has(t)
    BY <1>2 DEF Has
  <2>2. PICK b \in Buffer : b = th[t].b
    BY <1>0, <2>1, Holder
  <2>3. bf[b].cur /\ bf[b].pgno = th[t].pg /\ bf[b].pgno # Nil /\ bf[b].pv # 0
    BY <1>0, <2>1, <2>2, Holder
  <2>4. bf[b].pgno \in Page /\ hash[bf[b].pgno] = b /\ b # Nil
    BY <1>0, <2>3, Fields, NilApart DEF CacheInv, HashSound
  <2>5. DataOf(b)
    BY <1>0 DEF CacheInv, DataSound
  <2>6. CASE bf[b].dirty
    BY <2>2, <2>3, <2>5, <2>6 DEF DataOf, FBFICurrentPage
  <2>7. CASE ~bf[b].dirty
    <3>1. bf[b].pv = disk[bf[b].pgno]
      BY <2>3, <2>5, <2>7 DEF DataOf
    <3>2. disk[bf[b].pgno] = latest[bf[b].pgno]
      BY <1>0, <2>4, <2>7 DEF CacheInv, DataSound, NoLostUpdate
    <3>3. QED
      BY <2>2, <2>3, <3>1, <3>2 DEF FBFICurrentPage
  <2>8. QED
    BY <2>6, <2>7
<1>3. QED
  BY <1>1, <1>2 DEF SeesLatest

\* The invariant of the cache and its users is inductive: whatever threads
\* latch, change, version, flush and evict, the hash table and the buffers
\* agree, the versions of a page are a chain in the order of their age, only
\* its oldest end is written, and the owners of a latch exclude each other
\* and own what they believe they own.
THEOREM CacheInvariant == Spec => []IInv
<1>1. Init => Good
  BY InitGood
<1>2. Good /\ [Next]_vars => Good'
  <2>1. Good /\ Next => Good'
    BY NextStep
  <2>2. Good /\ UNCHANGED vars => Good'
    <3>1. SUFFICES ASSUME Good, UNCHANGED vars PROVE Good'
      OBVIOUS
    <3>2. CacheType' /\ CacheInv'
      BY <3>1, SameCache DEF Good, vars
    <3>3. \A u \in Thread : Undisturbed(u)
      BY <3>1, SameUndisturbed DEF Good, vars
    <3>4. \A b \in Buffer : FaultOwned(b)'
      BY <3>1, FaultStay DEF Good, vars
    <3>5. ThreadType' /\ ThreadInv'
      BY <3>1, <3>3, <3>4, ThreadStay DEF Good, vars
    <3>6. QED
      BY <3>2, <3>5 DEF Good
  <2>3. QED
    BY <2>1, <2>2
<1>3. Good => IInv
  BY GoodIsIInv
<1>4. QED
  BY <1>1, <1>2, <1>3, PTL DEF Spec

\* A thread that has a page latched has its current version, with every update
\* made so far, whichever way it came by the latch.
THEOREM LatchedPageIsLatest == Spec => []SeesLatest
<1>1. IInv => SeesLatest
  BY GoodIsIInv, InvSeesLatest
<1>2. QED
  BY <1>1, CacheInvariant, PTL

\* No update is lost: it is in a dirty current buffer or on disk.
THEOREM UpdatesKept == Spec => []NoLostUpdate
<1>1. IInv => NoLostUpdate
  BY DEF IInv, CacheInv, DataSound
<1>2. QED
  BY <1>1, CacheInvariant, PTL

\* The versions of every page are a chain that the hash table starts, and at
\* most one I/O on a page is under way.
THEOREM CacheStaysSound == Spec => []CacheSound
<1>1. IInv => CacheSound
  BY GoodIsIInv, InvChain, InvOneIO DEF CacheSound, IInv
<1>2. QED
  BY <1>1, CacheInvariant, PTL

\* A page does not change, and its buffer stays the page's, while its write is
\* under way, though no latch is held.
THEOREM WritesAreStable == Spec => StableWrite
<1>1. IInv /\ [Next]_vars =>
        [\A b \in DOMAIN io : io[b] = "write" /\ io'[b] = "write" =>
            bf'[b].pv = bf[b].pv /\ bf'[b].pgno = bf[b].pgno]_vars
  <2>1. SUFFICES ASSUME Good, Next
                 PROVE  \A b \in DOMAIN io : io[b] = "write" /\ io'[b] = "write" =>
                           bf'[b].pv = bf[b].pv /\ bf'[b].pgno = bf[b].pgno
    BY GoodIsIInv
  <2>2. Steady /\ DOMAIN io = Buffer
    BY <2>1, NextStep DEF Good, CacheType
  <2>3. QED
    BY <2>2 DEF Steady
<1>2. QED
  BY <1>1, CacheInvariant, PTL DEF Spec, StableWrite

\* The disk never goes back to an older version of a page.
THEOREM DiskNeverGoesBack == Spec => DiskForward
<1>1. IInv /\ [Next]_vars => [\A p \in Page : disk'[p] >= disk[p]]_vars
  <2>1. SUFFICES ASSUME Good, Next PROVE \A p \in Page : disk'[p] >= disk[p]
    BY GoodIsIInv
  <2>2. QED
    BY <2>1, NextStep DEF Steady
<1>2. QED
  BY <1>1, CacheInvariant, PTL DEF Spec, DiskForward
=============================================================================
