--------------------------- MODULE UdpServer_proofs ---------------------------
(***************************************************************************)
(* Proofs about UdpServer, for any number of clients, of fragments and of  *)
(* frames, and any size and age of the retransmission cache.               *)
(***************************************************************************)
EXTENDS UdpServer, FiniteSetTheorems, SequenceTheorems, WellFoundedInduction, TLAPS

-----------------------------------------------------------------------------
(* The retransmission cache. *)

CacheEntry  == [seq : 1..MaxFrames, age : 0..MaxAge + 1]
StoredEntry == [seq : 1..MaxFrames, age : 0..MaxAge + 1, late : BOOLEAN]

LEMMA Sizes ==
    /\ Fragments \in Nat \ {0} /\ CacheFrames \in Nat \ {0} /\ MaxPerRequest \in Nat \ {0}
    /\ NackSizes \subseteq Nat \ {0} /\ CacheAge \in Nat \ {0} /\ ClientTimeout \in Nat \ {0}
    /\ MaxFrames \in Nat /\ MaxRequested \in Nat /\ MaxLag \in Nat
    /\ MaxAge \in Nat /\ MaxAge = CacheAge + MaxLag
  BY SizeAssumption, AgeAssumption, LimitAssumption DEF MaxAge

(* A nonempty set of positive numbers has a least element, so Min finds it. *)
LEMMA MinIsLeast ==
    ASSUME NEW I \in SUBSET Nat, I # {}
    PROVE  Min(I) \in I /\ \A j \in I : Min(I) <= j
  <1>1. PICK i \in I : \A j \in I : ~ (<<j, i>> \in OpToRel(<, Nat))
    BY NatLessThanWellFounded, WFMin
  <1>2. ASSUME NEW j \in I
        PROVE  i <= j
    <2>1. i \in Nat /\ j \in Nat
      OBVIOUS
    <2>2. j < i => <<j, i>> \in OpToRel(<, Nat)
      BY <2>1 DEF OpToRel
    <2>3. ~(j < i)
      BY <1>1, <2>2, Zenon
    <2> QED  BY <2>1, <2>3
  <1> QED  BY <1>2 DEF Min

(* Pruning cuts off the frames before the first one that is fresh. *)
LEMMA PruneCutsFront ==
    ASSUME NEW c \in Seq(CacheEntry), NEW lag \in Nat
    PROVE  \E k \in 0..Len(c) :
             /\ PruneRetransmitCache(c, lag) \in Seq(CacheEntry)
             /\ Len(PruneRetransmitCache(c, lag)) = Len(c) - k
             /\ \A i \in 1..Len(c) - k : PruneRetransmitCache(c, lag)[i] = c[i + k]
             /\ \A i \in 1..k : c[i].age - lag > CacheAge
             /\ k < Len(c) => c[k + 1].age - lag <= CacheAge
  <1> DEFINE I == {i \in 1..Len(c) : c[i].age - lag <= CacheAge}
  <1>1. CacheAge \in Nat /\ \A i \in 1..Len(c) : c[i].age \in Nat
    <2>1. \A i \in 1..Len(c) : c[i] \in CacheEntry
      OBVIOUS
    <2> QED  BY <2>1, Sizes DEF CacheEntry
  <1>2. FirstFresh(c, lag) = IF I # {} THEN Min(I) ELSE 0
    BY DEF FirstFresh, SelectInSeq
  <1>3. CASE I = {}
    <2>1. PruneRetransmitCache(c, lag) = << >>
      BY <1>2, <1>3 DEF PruneRetransmitCache
    <2>2. \A i \in 1..Len(c) : c[i].age - lag > CacheAge
      BY <1>1, <1>3
    <2> WITNESS Len(c) \in 0..Len(c)
    <2> QED  BY <2>1, <2>2
  <1>4. CASE I # {}
    <2> DEFINE m == Min(I)
    <2>1. I \in SUBSET Nat
      OBVIOUS
    <2>2. m \in I /\ \A j \in I : m <= j
      BY <1>4, <2>1, MinIsLeast
    <2>3. FirstFresh(c, lag) = m
      BY <1>2, <1>4
    <2> HIDE DEF m
    <2>4. m \in 1..Len(c) /\ Len(c) \in Nat /\ c[m].age - lag <= CacheAge
      BY <2>2
    <2>5. PruneRetransmitCache(c, lag) = SubSeq(c, m, Len(c))
      BY <2>3, <2>4 DEF PruneRetransmitCache
    <2>6. \A i \in m..Len(c) : c[i] \in CacheEntry
      BY <2>4
    <2>7. /\ SubSeq(c, m, Len(c)) \in Seq(CacheEntry)
          /\ Len(SubSeq(c, m, Len(c))) = Len(c) - m + 1
          /\ \A i \in 1..Len(c) - m + 1 : SubSeq(c, m, Len(c))[i] = c[m + i - 1]
      BY <2>4, <2>6, SubSeqProperties
    <2>8. ASSUME NEW i \in 1..m - 1
          PROVE  c[i].age - lag > CacheAge
      <3>1. i \in 1..Len(c) /\ ~(m <= i)
        BY <2>4
      <3>2. i \notin I
        BY <2>2, <3>1
      <3>3. ~(c[i].age - lag <= CacheAge)
        BY <3>1, <3>2
      <3>4. c[i].age \in Nat /\ CacheAge \in Nat
        BY <1>1, <3>1
      <3> QED  BY <3>3, <3>4
    <2>9. m - 1 \in 0..Len(c)
      BY <2>4
    <2> USE <2>9
    <2> WITNESS m - 1 \in 0..Len(c)
    <2> QED  BY <2>4, <2>5, <2>7, <2>8
  <1> QED  BY <1>3, <1>4

(* c runs from old to new, and everything in it is older than a frame of    *)
(* this number and age.                                                     *)
OldToNew(c) == \A i \in 1..Len(c) - 1 : c[i].seq < c[i + 1].seq /\ c[i].age >= c[i + 1].age
Before(c, seq, age) == \A i \in 1..Len(c) : c[i].seq < seq /\ c[i].age >= age

(* Caching a frame keeps the bound and the order. *)
LEMMA CachedKeepsOrder ==
    ASSUME NEW c \in Seq(CacheEntry), Len(c) <= CacheFrames, OldToNew(c),
           NEW f \in CacheEntry, Before(c, f.seq, f.age)
    PROVE  /\ Cached(c, f) \in Seq(CacheEntry)
           /\ Len(Cached(c, f)) <= CacheFrames
           /\ OldToNew(Cached(c, f))
           /\ \A i \in 1..Len(Cached(c, f)) : Cached(c, f)[i].seq <= f.seq
  <1> DEFINE p == PruneRetransmitCache(c, 0)
             longer == Append(p, f)
  <1>1. PICK k \in 0..Len(c) : p \in Seq(CacheEntry) /\ Len(p) = Len(c) - k /\ \A i \in 1..Len(c) - k : p[i] = c[i + k]
    BY PruneCutsFront
  <1> HIDE DEF p
  <1>2. /\ longer \in Seq(CacheEntry) /\ Len(longer) = Len(p) + 1 /\ longer[Len(p) + 1] = f
        /\ \A i \in 1..Len(p) : longer[i] = p[i]
    BY <1>1, AppendProperties
  <1> HIDE DEF longer
  <1>3. CacheFrames \in Nat \ {0} /\ Len(c) \in Nat /\ f.seq \in Nat /\ f.age \in Nat
    BY Sizes DEF CacheEntry
  <1>4. PICK d \in {0, 1} :
          /\ Cached(c, f) \in Seq(CacheEntry) /\ Len(Cached(c, f)) + d = Len(longer)
          /\ Len(Cached(c, f)) <= CacheFrames
          /\ \A i \in 1..Len(Cached(c, f)) : i + d \in 1..Len(longer) /\ Cached(c, f)[i] = longer[i + d]
    <2>1. CASE Len(longer) > CacheFrames
      <3>1. longer # << >> /\ Len(longer) = CacheFrames + 1
        BY <1>1, <1>2, <1>3, <2>1
      <3>2. /\ Tail(longer) \in Seq(CacheEntry) /\ Len(Tail(longer)) = Len(longer) - 1
            /\ \A i \in 1..Len(Tail(longer)) : Tail(longer)[i] = longer[i + 1]
        BY <1>2, <3>1, HeadTailProperties
      <3>3. Cached(c, f) = Tail(longer)
        BY <2>1 DEF Cached, longer, p
      <3> WITNESS 1 \in {0, 1}
      <3> QED  BY <1>3, <3>1, <3>2, <3>3
    <2>2. CASE ~(Len(longer) > CacheFrames)
      <3>1. Cached(c, f) = longer
        BY <2>2 DEF Cached, longer, p
      <3> WITNESS 0 \in {0, 1}
      <3> QED  BY <1>2, <1>3, <2>2, <3>1
    <2> QED  BY <2>1, <2>2
  <1>5. \A i \in 1..Len(c) : c[i].seq \in Nat /\ c[i].age \in Nat
    <2>1. \A i \in 1..Len(c) : c[i] \in CacheEntry
      OBVIOUS
    <2> QED  BY <2>1 DEF CacheEntry
  <1>6. ASSUME NEW i \in 1..Len(longer)
        PROVE  \/ i = Len(longer) /\ longer[i] = f
               \/ i < Len(longer) /\ longer[i] = c[i + k] /\ i + k \in 1..Len(c)
    <2>1. CASE i = Len(p) + 1
      BY <1>1, <1>2, <2>1
    <2>2. CASE i # Len(p) + 1
      <3>1. i \in 1..Len(p) /\ i \in 1..Len(c) - k /\ i + k \in 1..Len(c) /\ i < Len(longer)
        BY <1>1, <1>2, <1>3, <2>2
      <3> QED  BY <1>1, <1>2, <3>1
    <2> QED  BY <2>1, <2>2
  <1>7. OldToNew(longer)
    <2> SUFFICES ASSUME NEW i \in 1..Len(longer) - 1
                 PROVE  longer[i].seq < longer[i + 1].seq /\ longer[i].age >= longer[i + 1].age
      BY DEF OldToNew
    <2>1. longer[i] = c[i + k] /\ i + k \in 1..Len(c) /\ i + 1 \in 1..Len(longer)
      BY <1>2, <1>6
    <2>2. CASE longer[i + 1] = f
      BY <2>1, <2>2 DEF Before
    <2>3. CASE longer[i + 1] = c[(i + 1) + k] /\ (i + 1) + k \in 1..Len(c)
      <3>1. i + k \in 1..Len(c) - 1 /\ (i + k) + 1 = (i + 1) + k
        BY <2>1, <2>3
      <3> QED  BY <2>1, <2>3, <3>1 DEF OldToNew
    <2> QED  BY <1>6, <2>1, <2>2, <2>3
  <1>8. ASSUME NEW i \in 1..Len(longer)
        PROVE  longer[i].seq <= f.seq
    <2>1. CASE longer[i] = f
      BY <1>3, <2>1
    <2>2. CASE longer[i] = c[i + k] /\ i + k \in 1..Len(c)
      <3>1. c[i + k].seq < f.seq /\ c[i + k].seq \in Nat
        BY <1>5, <2>2 DEF Before
      <3> QED  BY <1>3, <2>2, <3>1
    <2> QED  BY <1>6, <2>1, <2>2
  <1>9. OldToNew(Cached(c, f))
    <2> SUFFICES ASSUME NEW i \in 1..Len(Cached(c, f)) - 1
                 PROVE  /\ Cached(c, f)[i].seq < Cached(c, f)[i + 1].seq
                        /\ Cached(c, f)[i].age >= Cached(c, f)[i + 1].age
      BY DEF OldToNew
    <2>1. /\ Cached(c, f)[i] = longer[i + d] /\ Cached(c, f)[i + 1] = longer[(i + d) + 1]
          /\ i + d \in 1..Len(longer) - 1
      <3>1. i \in 1..Len(Cached(c, f)) /\ i + 1 \in 1..Len(Cached(c, f)) /\ (i + 1) + d = (i + d) + 1
        BY <1>4
      <3> QED  BY <1>4, <3>1
    <2> QED  BY <1>7, <2>1 DEF OldToNew
  <1> QED  BY <1>4, <1>8, <1>9

(* Pruning keeps the order, and what was older than a frame.                *)
LEMMA PruneKeepsOrder ==
    ASSUME NEW c \in Seq(CacheEntry), OldToNew(c), NEW lag \in Nat
    PROVE  /\ PruneRetransmitCache(c, lag) \in Seq(CacheEntry)
           /\ Len(PruneRetransmitCache(c, lag)) <= Len(c)
           /\ OldToNew(PruneRetransmitCache(c, lag))
           /\ \A seq, age \in Nat : Before(c, seq, age) => Before(PruneRetransmitCache(c, lag), seq, age)
  <1> DEFINE p == PruneRetransmitCache(c, lag)
  <1>1. PICK k \in 0..Len(c) : p \in Seq(CacheEntry) /\ Len(p) = Len(c) - k /\ \A i \in 1..Len(c) - k : p[i] = c[i + k]
    BY PruneCutsFront
  <1> HIDE DEF p
  <1>2. ASSUME NEW i \in 1..Len(p) - 1
        PROVE  p[i].seq < p[i + 1].seq /\ p[i].age >= p[i + 1].age
    <2>1. /\ i \in 1..Len(c) - k /\ i + 1 \in 1..Len(c) - k
          /\ i + k \in 1..Len(c) - 1 /\ (i + 1) + k = (i + k) + 1
      BY <1>1
    <2>2. p[i] = c[i + k] /\ p[i + 1] = c[(i + 1) + k]
      BY <1>1, <2>1
    <2> QED  BY <2>1, <2>2 DEF OldToNew
  <1>3. \A i \in 1..Len(p) : p[i] = c[i + k] /\ i + k \in 1..Len(c)
    BY <1>1
  <1>4. \A seq, age \in Nat : Before(c, seq, age) => Before(p, seq, age)
    BY <1>3 DEF Before
  <1>5. Len(p) <= Len(c)
    BY <1>1
  <1> QED  BY <1>1, <1>2, <1>4, <1>5 DEF OldToNew, p

(* In an ordered cache pruning leaves exactly the frames that are fresh.    *)
LEMMA PruneLeavesFresh ==
    ASSUME NEW c \in Seq(CacheEntry), OldToNew(c), NEW lag \in Nat
    PROVE  \A i \in 1..Len(PruneRetransmitCache(c, lag)) : PruneRetransmitCache(c, lag)[i].age - lag <= CacheAge
  <1> DEFINE p == PruneRetransmitCache(c, lag)
  <1>1. PICK k \in 0..Len(c) :
          /\ Len(p) = Len(c) - k
          /\ \A i \in 1..Len(c) - k : p[i] = c[i + k]
          /\ k < Len(c) => c[k + 1].age - lag <= CacheAge
    BY PruneCutsFront
  <1> HIDE DEF p
  <1>2. \A i \in 1..Len(c) : c[i].age \in Nat
    <2>1. \A i \in 1..Len(c) : c[i] \in CacheEntry
      OBVIOUS
    <2> QED  BY <2>1 DEF CacheEntry
  <1> DEFINE J == {j \in 1..Len(c) : j > k /\ c[j].age - lag > CacheAge}
  <1>3. J = {}
    <2> SUFFICES ASSUME J # {}
                 PROVE  FALSE
      OBVIOUS
    <2>1. J \in SUBSET Nat
      OBVIOUS
    <2>2. PICK m \in J : \A j \in J : m <= j
      BY <2>1, MinIsLeast
    <2>3. m \in 1..Len(c) /\ m > k /\ c[m].age - lag > CacheAge
      OBVIOUS
    <2>4. m # k + 1
      BY <1>1, <1>2, <2>3, Sizes
    <2>5. m - 1 \in 1..Len(c) - 1 /\ m - 1 \in 1..Len(c) /\ m - 1 > k /\ (m - 1) + 1 = m
      BY <2>3, <2>4
    <2>6. m - 1 \notin J
      BY <2>2, <2>3
    <2>7. c[m - 1].age - lag <= CacheAge
      <3>1. ~(c[m - 1].age - lag > CacheAge)
        BY <2>5, <2>6
      <3>2. c[m - 1].age \in Nat /\ CacheAge \in Nat
        BY <1>2, <2>5, Sizes
      <3> QED  BY <3>1, <3>2
    <2>8. c[m - 1].age >= c[m].age
      BY <2>5 DEF OldToNew
    <2> DEFINE a == c[m - 1].age
               b == c[m].age
    <2>9. a \in Nat /\ b \in Nat /\ a - lag <= CacheAge /\ b - lag > CacheAge /\ a >= b
      BY <1>2, <2>3, <2>5, <2>7, <2>8
    <2> HIDE DEF a, b
    <2>10. CacheAge \in Nat
      BY Sizes
    <2> QED  BY <2>9, <2>10
  <1>4. ASSUME NEW i \in 1..Len(p)
        PROVE  p[i].age - lag <= CacheAge
    <2>1. i + k \in 1..Len(c) /\ i + k > k /\ i \in 1..Len(c) - k
      BY <1>1
    <2>2. p[i] = c[i + k]
      BY <1>1, <2>1
    <2>3. ~(c[i + k].age - lag > CacheAge)
      BY <1>3, <2>1
    <2>4. c[i + k].age \in Nat /\ CacheAge \in Nat
      BY <1>2, <2>1, Sizes
    <2> QED  BY <2>2, <2>3, <2>4
  <1> QED  BY <1>4 DEF p

-----------------------------------------------------------------------------
(* The inductive invariant. *)

(* The types the proofs need: those of TypeOK without the registry's and    *)
(* the counters'.                                                           *)
CacheType == cache \in Seq(CacheEntry) /\ Len(cache) <= CacheFrames
TxType    == /\ DOMAIN tx = {"seq", "to", "index", "age"}
             /\ tx.seq \in 0..MaxFrames /\ tx.age \in 0..MaxAge + 1
ReqType   == req \in [left : Int, lag : Nat]

TypeInv ==
    /\ state \in {"initialized", "running", "stopped", "failed"}
    /\ running \in BOOLEAN /\ socketFd \in BOOLEAN
    /\ CacheType
    /\ stored \in Seq(StoredEntry)
    /\ pc \in [bcast : {"idle", "data", "parity", "cache"},
               recv : {"none", "loop", "select", "prune", "limit", "serve", "exit"},
               stop : {"idle", "join"}]
    /\ TxType
    /\ pc["bcast"] # "idle" => tx.seq > 0
    /\ ReqType

(* The threads run only between start and the end of stop. *)
Phases ==
    /\ pc["bcast"] # "idle" => state = "running" /\ pc["stop"] = "idle"
    /\ pc["stop"] = "join" => state = "running"
    /\ state # "running" => pc["recv"] = "none" /\ ~running /\ ~socketFd
    /\ pc["stop"] = "join" => ~running /\ ~socketFd

(* A frame is cached once, after all frames before it: while it is sent the *)
(* cache holds only frames with lower numbers, which are at least as old.   *)
CacheBehind ==
    /\ \A i \in 1..Len(cache) : cache[i].seq <= tx.seq
    /\ pc["bcast"] # "idle" => Before(cache, tx.seq, tx.age)

(* The cache c is the end of what was stored, s; what went before has       *)
(* expired or was pushed out.                                               *)
Gone(c, s) == Len(s) - Len(c)
EndOf(c, s) ==
    /\ Len(c) <= Len(s)
    /\ \A i \in 1..Len(c) : s[i + Gone(c, s)].seq = c[i].seq /\ s[i + Gone(c, s)].age = c[i].age
    /\ \A i \in 1..Gone(c, s) : s[i].age > CacheAge \/ Len(s) - i >= CacheFrames

(* Nothing in the cache had expired lag ticks ago, except what was late.    *)
FreshOrLate(c, s, lag) ==
    \A i \in 1..Len(c) : c[i].age - lag <= CacheAge \/ s[i + Gone(c, s)].late

StoredFits == /\ EndOf(cache, stored)
              /\ pc["recv"] \in {"limit", "serve"} => FreshOrLate(cache, stored, req.lag)

IInv == TypeInv /\ Phases /\ CacheOldestFirst /\ CacheBehind /\ StoredFits /\ StoppedIsEmpty

-----------------------------------------------------------------------------
(* What each step does to the cache and to the frame being sent. *)

(* A tick adds one to an age, up to the limit. *)
LEMMA OlderFits ==
    ASSUME NEW a \in 0..MaxAge + 1
    PROVE  /\ Older(a, MaxAge) \in 0..MaxAge + 1 /\ Older(a, MaxAge) >= a /\ Older(a, MaxAge) <= a + 1
           /\ \A b \in 0..MaxAge + 1 : a >= b => Older(a, MaxAge) >= Older(b, MaxAge)
  BY Sizes DEF Older

(* Ageing keeps the order: it stops at the same limit for all.              *)
LEMMA AgeingKeepsOrder ==
    ASSUME NEW c \in Seq(CacheEntry), NEW d, d = Aged(c)
    PROVE  /\ d \in Seq(CacheEntry) /\ Len(d) = Len(c)
           /\ OldToNew(c) => OldToNew(d)
           /\ \A i \in 1..Len(c) : d[i].seq = c[i].seq /\ d[i].age = Older(c[i].age, MaxAge)
  <1>1. MaxAge \in Nat /\ \A i \in 1..Len(c) : c[i] \in CacheEntry
    BY Sizes
  <1>2. ASSUME NEW i \in 1..Len(c)
        PROVE  d[i] \in CacheEntry /\ d[i].seq = c[i].seq /\ d[i].age = Older(c[i].age, MaxAge)
    <2>1. c[i] \in CacheEntry
      OBVIOUS
    <2>2. c[i].age \in 0..MaxAge + 1
      BY <2>1 DEF CacheEntry
    <2>3. Older(c[i].age, MaxAge) \in 0..MaxAge + 1
      BY <2>2, OlderFits
    <2> QED  BY <2>1, <2>3 DEF CacheEntry, Aged
  <1>3. d \in Seq(CacheEntry) /\ Len(d) = Len(c)
    BY <1>2 DEF Aged
  <1>4. ASSUME OldToNew(c), NEW i \in 1..Len(c) - 1
        PROVE  d[i].seq < d[i + 1].seq /\ d[i].age >= d[i + 1].age
    <2>1. i \in 1..Len(c) /\ i + 1 \in 1..Len(c)
      OBVIOUS
    <2>2. c[i].age >= c[i + 1].age /\ c[i].seq < c[i + 1].seq
      BY <1>4 DEF OldToNew
    <2>4. c[i].age \in 0..MaxAge + 1 /\ c[i + 1].age \in 0..MaxAge + 1
      BY <1>1, <2>1 DEF CacheEntry
    <2>3. Older(c[i].age, MaxAge) >= Older(c[i + 1].age, MaxAge)
      BY <2>2, <2>4, OlderFits
    <2> QED  BY <1>2, <2>1, <2>2, <2>3
  <1> QED  BY <1>2, <1>3, <1>4 DEF OldToNew

(* Ageing keeps what the history is made of. *)
LEMMA AgeingKeepsStored ==
    ASSUME NEW s \in Seq(StoredEntry)
    PROVE  /\ Aged(s) \in Seq(StoredEntry) /\ Len(Aged(s)) = Len(s)
           /\ \A i \in 1..Len(s) : /\ Aged(s)[i].seq = s[i].seq /\ Aged(s)[i].late = s[i].late
                                   /\ Aged(s)[i].age = Older(s[i].age, MaxAge)
  <1> DEFINE d == Aged(s)
  <1>1. ASSUME NEW i \in 1..Len(s)
        PROVE  /\ d[i] \in StoredEntry
               /\ d[i].seq = s[i].seq /\ d[i].late = s[i].late /\ d[i].age = Older(s[i].age, MaxAge)
    <2>1. s[i] \in StoredEntry
      OBVIOUS
    <2>4. s[i].age \in 0..MaxAge + 1
      BY <2>1 DEF StoredEntry
    <2>2. Older(s[i].age, MaxAge) \in 0..MaxAge + 1
      BY <2>4, OlderFits
    <2>3. d[i] = [s[i] EXCEPT !.age = Older(s[i].age, MaxAge)]
      BY DEF Aged
    <2> QED  BY <2>1, <2>2, <2>3 DEF StoredEntry
  <1>2. d \in Seq(StoredEntry) /\ Len(d) = Len(s)
    BY <1>1 DEF Aged
  <1> QED  BY <1>1, <1>2

(* What Broadcast hands to the cache, and what the history records of it. *)
LEMMA FrameToCache ==
    ASSUME TxType, tx.seq > 0,
           NEW f, f = [seq |-> tx.seq, age |-> tx.age],
           NEW g, g = [seq |-> tx.seq, age |-> tx.age, late |-> tx.age > CacheAge]
    PROVE  /\ f \in CacheEntry /\ f.seq = tx.seq /\ f.age = tx.age
           /\ g \in StoredEntry /\ g.seq = f.seq /\ g.age = f.age /\ g.late = (f.age > CacheAge)
  <1>1. tx.seq \in 1..MaxFrames /\ tx.age \in 0..MaxAge + 1
    BY Sizes DEF TxType
  <1> DEFINE late == tx.age > CacheAge
  <1>2. late \in BOOLEAN
    <2>1. CASE late
      BY <2>1
    <2>2. CASE ~late
      BY <2>2
    <2> QED  BY <2>1, <2>2
  <1>3. g = [seq |-> tx.seq, age |-> tx.age, late |-> late]
    BY Zenon
  <1> HIDE DEF late
  <1>4. g \in StoredEntry
    BY <1>1, <1>2, <1>3 DEF StoredEntry
  <1>5. f \in CacheEntry
    BY <1>1 DEF CacheEntry
  <1>6. f.seq = tx.seq /\ f.age = tx.age /\ g.seq = tx.seq /\ g.age = tx.age
    OBVIOUS
  <1>7. g.late = late
    BY <1>3
  <1>8. g.late = (f.age > CacheAge)
    BY <1>6, <1>7, Zenon DEF late
  <1> QED  BY <1>4, <1>5, <1>6, <1>8

LEMMA TypeKept == IInv /\ [Next]_vars => TypeInv'
  <1> SUFFICES ASSUME IInv, [Next]_vars
               PROVE  TypeInv'
    OBVIOUS
  <1> USE DEF IInv, TypeInv, Goto
  <1>1. CASE RecvCheck \/ SelectStopped \/ SelectTimeout \/ RecvError
    <2>1. UNCHANGED <<cache, tx, req, stored>>
      BY <1>1 DEF RecvCheck, SelectStopped, SelectTimeout, RecvError
    <2>2. CacheType' /\ TxType' /\ ReqType'
      BY <2>1 DEF CacheType, TxType, ReqType
    <2> QED  BY <1>1, <2>1, <2>2 DEF RecvCheck, SelectStopped, SelectTimeout, RecvError
  <1>2. CASE RecvExit \/ StopBegin
    <2>1. running' \in BOOLEAN /\ socketFd' \in BOOLEAN
      BY <1>2 DEF RecvExit, StopBegin
    <2>2. UNCHANGED <<cache, tx, req, stored>>
      BY <1>2 DEF RecvExit, StopBegin
    <2>3. CacheType' /\ TxType' /\ ReqType'
      BY <2>2 DEF CacheType, TxType, ReqType
    <2> QED  BY <1>2, <2>1, <2>2, <2>3 DEF RecvExit, StopBegin
  <1>3. ASSUME NEW ok \in BOOLEAN, Start(ok)
        PROVE  TypeInv'
    <2>1. CacheType' /\ TxType' /\ ReqType'
      BY <1>3 DEF Start, CacheType, TxType, ReqType
    <2> QED  BY <1>3, <2>1 DEF Start
  <1>4. CASE StopJoin
    <2>1. CacheType' /\ TxType' /\ ReqType' /\ stored' \in Seq(StoredEntry)
      BY <1>4, Sizes DEF StopJoin, CacheType, TxType, ReqType
    <2> QED  BY <1>4, <2>1 DEF StopJoin
  <1>5. CASE BroadcastBegin
    <2>1. tx' = Sending(tx.seq + 1, Len(clients')) /\ tx.seq + 1 \in 0..MaxFrames /\ 0 \in 0..MaxAge + 1
      BY <1>5, Sizes DEF BroadcastBegin, TxType
    <2>2. TxType' /\ tx'.seq > 0
      BY <2>1 DEF TxType, Sending
    <2>3. CacheType' /\ ReqType'
      BY <1>5 DEF BroadcastBegin, CacheType, ReqType
    <2> QED  BY <1>5, <2>2, <2>3 DEF BroadcastBegin
  <1>6. ASSUME NEW n \in 0..Cardinality(Clients), SendFragment(n) \/ SendParity(n)
        PROVE  TypeInv'
    <2>1. tx' = Sent \/ tx' = [tx EXCEPT !.index = @ + 1] \/ tx' = tx
      BY <1>6 DEF SendFragment, SendParity
    <2>2. TxType' /\ tx'.seq = tx.seq
      <3>1. CASE tx' = Sent
        BY <3>1, Sizes DEF TxType, Sent, Sending
      <3>2. CASE tx' = [tx EXCEPT !.index = @ + 1] \/ tx' = tx
        BY <3>2 DEF TxType
      <3> QED  BY <2>1, <3>1, <3>2
    <2>3. CacheType' /\ ReqType'
      BY <1>6 DEF SendFragment, SendParity, CacheType, ReqType
    <2>4. \E label \in {"idle", "data", "parity", "cache"} : pc' = [pc EXCEPT !["bcast"] = label]
      BY <1>6 DEF SendFragment, SendParity, AfterData
    <2>5. pc["bcast"] # "idle"
      BY <1>6 DEF SendFragment, SendParity
    <2> QED  BY <1>6, <2>2, <2>3, <2>4, <2>5 DEF SendFragment, SendParity
  <1>7. CASE CacheFrameFragments
    <2>1. TxType' /\ tx'.seq = tx.seq
      BY <1>7, Sizes DEF CacheFrameFragments, Sent, Sending, TxType
    <2> DEFINE f == [seq |-> tx.seq, age |-> tx.age]
               g == [seq |-> tx.seq, age |-> tx.age, late |-> tx.age > CacheAge]
    <2>2. f \in CacheEntry /\ g \in StoredEntry /\ f.seq = tx.seq /\ f.age = tx.age
      BY <1>7, FrameToCache DEF CacheFrameFragments
    <2>3. \/ cache' = Cached(cache, f) /\ stored' = Append(stored, g)
          \/ cache' = cache /\ stored' = stored
      BY <1>7 DEF CacheFrameFragments
    <2> HIDE DEF f, g
    <2>4. OldToNew(cache) /\ Before(cache, f.seq, f.age)
      BY <1>7, <2>2 DEF CacheFrameFragments, OldToNew, CacheOldestFirst, CacheBehind
    <2>6. CacheType'
      <3>1. CASE cache' = Cached(cache, f)
        BY <2>2, <2>4, <3>1, CachedKeepsOrder DEF CacheType
      <3>2. CASE cache' = cache
        BY <3>2 DEF CacheType
      <3> QED  BY <2>3, <3>1, <3>2
    <2>7. stored' \in Seq(StoredEntry)
      BY <2>2, <2>3, AppendProperties
    <2>5. ReqType'
      BY <1>7 DEF CacheFrameFragments, ReqType
    <2> QED  BY <1>7, <2>1, <2>5, <2>6, <2>7 DEF CacheFrameFragments
  <1>8. ASSUME NEW c \in Clients, Hears(c)
        PROVE  TypeInv'
    <2>1. CacheType' /\ TxType' /\ UNCHANGED tx
      BY <1>8 DEF Hears, RecvKeepAlive, RecvNack, CacheType, TxType
    <2>2. req' = req \/ \E n \in NackSizes : req' = Request(n)
      BY <1>8 DEF Hears, RecvKeepAlive, RecvNack
    <2>3. ReqType'
      BY <2>2, Sizes DEF ReqType, Request
    <2> QED  BY <1>8, <2>1, <2>3 DEF Hears, RecvKeepAlive, RecvNack
  <1>9. CASE NackPrune
    <2>1. CacheType'
      <3>1. OldToNew(cache) /\ req.lag \in Nat
        BY DEF CacheOldestFirst, OldToNew, ReqType
      <3>2. cache' = PruneRetransmitCache(cache, req.lag) \/ cache' = cache
        BY <1>9 DEF NackPrune
      <3> QED  BY <3>1, <3>2, PruneKeepsOrder, Sizes DEF CacheType
    <2>2. TxType' /\ UNCHANGED tx
      BY <1>9 DEF NackPrune, TxType
    <2>3. ReqType'
      BY <1>9 DEF NackPrune, NoRequest, Request, ReqType
    <2> QED  BY <1>9, <2>1, <2>2, <2>3 DEF NackPrune
  <1>10. CASE NackLimit
    <2>1. CacheType' /\ TxType' /\ UNCHANGED tx
      BY <1>10 DEF NackLimit, CacheType, TxType
    <2>2. ReqType'
      <3>1. Allowed \in Int
        BY Sizes DEF Allowed, ReqType
      <3>2. req' = [req EXCEPT !.left = Allowed]
        BY <1>10 DEF NackLimit
      <3> QED  BY <3>1, <3>2 DEF ReqType
    <2> QED  BY <1>10, <2>1, <2>2 DEF NackLimit
  <1>11. ASSUME NEW item \in Items, NEW ok \in BOOLEAN, NackServe(item, ok)
         PROVE  TypeInv'
    <2>1. CacheType' /\ TxType' /\ UNCHANGED tx
      BY <1>11 DEF NackServe, CacheType, TxType
    <2>2. ReqType'
      BY <1>11 DEF NackServe, NoRequest, Request, ReqType
    <2> QED  BY <1>11, <2>1, <2>2 DEF NackServe
  <1>12. CASE Tick
    <2>1. CacheType' /\ stored' \in Seq(StoredEntry)
      BY <1>12, AgeingKeepsOrder, AgeingKeepsStored DEF Tick, CacheType
    <2>2. TxType' /\ tx'.seq = tx.seq
      <3>1. tx.age \in 0..MaxAge + 1
        BY DEF TxType
      <3>2. tx' = [tx EXCEPT !.age = tx.age] \/ tx' = [tx EXCEPT !.age = Older(tx.age, MaxAge)]
        BY <1>12 DEF Tick
      <3>3. Older(tx.age, MaxAge) \in 0..MaxAge + 1
        BY <3>1, OlderFits
      <3> QED  BY <3>2, <3>3 DEF TxType
    <2>3. ReqType'
      BY <1>12 DEF Tick, ReqType
    <2> QED  BY <1>12, <2>1, <2>2, <2>3 DEF Tick
  <1>13. CASE UNCHANGED vars
    BY <1>13 DEF vars, CacheType, TxType, ReqType
  <1> QED
    BY <1>1, <1>2, <1>3, <1>4, <1>5, <1>6, <1>7, <1>8, <1>9, <1>10, <1>11, <1>12, <1>13
    DEF Next, BcastSteps, RecvSteps

LEMMA PhasesKept == IInv /\ [Next]_vars => Phases' /\ StoppedIsEmpty'
  <1> SUFFICES ASSUME IInv, [Next]_vars
               PROVE  Phases' /\ StoppedIsEmpty'
    OBVIOUS
  <1> USE DEF IInv, TypeInv, Phases, StoppedIsEmpty, Goto
  <1>1. CASE RecvCheck \/ SelectStopped \/ SelectTimeout \/ RecvError \/ RecvExit
    BY <1>1 DEF RecvCheck, SelectStopped, SelectTimeout, RecvError, RecvExit
  <1>2. ASSUME NEW ok \in BOOLEAN, Start(ok)
        PROVE  Phases' /\ StoppedIsEmpty'
    BY <1>2 DEF Start
  <1>3. CASE StopBegin \/ StopJoin
    BY <1>3 DEF StopBegin, StopJoin, ReceiveJoined
  <1>4. CASE BroadcastBegin \/ CacheFrameFragments
    BY <1>4 DEF BroadcastBegin, CacheFrameFragments
  <1>5. ASSUME NEW n \in 0..Cardinality(Clients), SendFragment(n) \/ SendParity(n)
        PROVE  Phases' /\ StoppedIsEmpty'
    BY <1>5 DEF SendFragment, SendParity
  <1>6. ASSUME NEW c \in Clients, Hears(c)
        PROVE  Phases' /\ StoppedIsEmpty'
    BY <1>6 DEF Hears, RecvKeepAlive, RecvNack
  <1>7. CASE NackPrune \/ NackLimit
    BY <1>7 DEF NackPrune, NackLimit
  <1>8. ASSUME NEW item \in Items, NEW ok \in BOOLEAN, NackServe(item, ok)
        PROVE  Phases' /\ StoppedIsEmpty'
    BY <1>8 DEF NackServe
  <1>9. CASE Tick
    <2>1. clients = << >> /\ cache = << >> => clients' = << >> /\ cache' = << >>
      BY <1>9 DEF Tick, Aged
    <2> QED  BY <1>9, <2>1 DEF Tick
  <1>10. CASE UNCHANGED vars
    BY <1>10 DEF vars
  <1> QED
    BY <1>1, <1>2, <1>3, <1>4, <1>5, <1>6, <1>7, <1>8, <1>9, <1>10 DEF Next, BcastSteps, RecvSteps

(* The cache stays behind the frame being sent, and ordered. *)
LEMMA CacheOrderKept == IInv /\ [Next]_vars => CacheOldestFirst' /\ CacheBehind'
  <1> DEFINE Goal == OldToNew(cache') /\ CacheBehind'
  <1> SUFFICES ASSUME IInv, [Next]_vars
               PROVE  Goal
    BY DEF OldToNew, CacheOldestFirst
  <1>0. /\ cache \in Seq(CacheEntry) /\ Len(cache) <= CacheFrames /\ OldToNew(cache)
        /\ tx.seq \in Nat /\ tx.age \in Nat
        /\ \A i \in 1..Len(cache) : cache[i].seq \in Nat /\ cache[i].age \in Nat
    <2>1. cache \in Seq(CacheEntry) /\ Len(cache) <= CacheFrames /\ tx.seq \in Nat /\ tx.age \in Nat
      BY DEF IInv, TypeInv, CacheType, TxType
    <2>2. \A i \in 1..Len(cache) : cache[i] \in CacheEntry
      BY <2>1
    <2>3. OldToNew(cache)
      BY DEF IInv, OldToNew, CacheOldestFirst
    <2>4. \A i \in 1..Len(cache) : cache[i].seq \in Nat /\ cache[i].age \in Nat
      BY <2>2 DEF CacheEntry
    <2> QED  BY <2>1, <2>3, <2>4
  <1> USE DEF Goto
  (* The cache is left alone, and a frame whose sending goes on is the same. *)
  <1>1. ASSUME cache' = cache, tx'.seq = tx.seq, tx'.age = tx.age, pc'["bcast"] # "idle" => pc["bcast"] # "idle"
        PROVE  Goal
    BY <1>0, <1>1 DEF IInv, CacheBehind, Before
  <1>2. ASSUME cache' = cache, tx'.seq = tx.seq, pc'["bcast"] = "idle"
        PROVE  Goal
    BY <1>0, <1>2 DEF IInv, CacheBehind
  <1>3. CASE \/ RecvCheck \/ SelectStopped \/ SelectTimeout \/ RecvError \/ RecvExit \/ StopBegin
             \/ (\E ok \in BOOLEAN : Start(ok)) \/ (\E c \in Clients : Hears(c))
             \/ NackLimit \/ \E item \in Items, ok \in BOOLEAN : NackServe(item, ok)
    <2>1. cache' = cache /\ tx' = tx /\ pc'["bcast"] = pc["bcast"]
      BY <1>3 DEF RecvCheck, SelectStopped, SelectTimeout, RecvError, RecvExit, StopBegin, Start, Hears,
                  RecvKeepAlive, RecvNack, NackLimit, NackServe, IInv, TypeInv
    <2> QED  BY <1>1, <2>1
  <1>4. CASE StopJoin
    BY <1>4 DEF StopJoin, IInv, Phases, CacheBehind, Before, OldToNew
  <1>5. CASE BroadcastBegin
    <2>1. cache' = cache /\ tx'.seq = tx.seq + 1 /\ tx'.age = 0
      BY <1>5 DEF BroadcastBegin, Sending
    <2> QED  BY <1>0, <2>1 DEF IInv, CacheBehind, Before
  <1>6. ASSUME NEW n \in 0..Cardinality(Clients), SendFragment(n) \/ SendParity(n)
        PROVE  Goal
    <2>1. cache' = cache /\ pc["bcast"] # "idle"
      BY <1>6 DEF SendFragment, SendParity
    <2>2. CASE n = 0
      BY <1>2, <1>6, <2>1, <2>2 DEF SendFragment, SendParity, Sent, Sending, IInv, TypeInv
    <2>3. CASE n # 0
      <3>1. tx' = [tx EXCEPT !.index = @ + 1] \/ tx' = tx
        BY <1>6, <2>3 DEF SendFragment, SendParity
      <3>2. tx'.seq = tx.seq /\ tx'.age = tx.age
        BY <3>1 DEF IInv, TypeInv, TxType
      <3> QED  BY <1>1, <2>1, <3>2
    <2> QED  BY <2>2, <2>3
  <1>7. CASE CacheFrameFragments
    <2> DEFINE f == [seq |-> tx.seq, age |-> tx.age]
    <2>1. f \in CacheEntry /\ Before(cache, f.seq, f.age) /\ f.seq = tx.seq
      BY <1>7 DEF CacheFrameFragments, CacheEntry, IInv, TypeInv, TxType, CacheBehind
    <2>2. tx'.seq = tx.seq /\ pc'["bcast"] = "idle"
      BY <1>7 DEF CacheFrameFragments, Sent, Sending, IInv, TypeInv
    <2> HIDE DEF f
    <2>3. CASE cache' = Cached(cache, f)
      BY <1>0, <2>1, <2>2, <2>3, CachedKeepsOrder DEF CacheBehind
    <2>4. CASE cache' = cache
      BY <1>2, <2>2, <2>4
    <2> QED  BY <1>7, <2>3, <2>4 DEF CacheFrameFragments, f
  <1>8. CASE NackPrune
    <2>1. tx' = tx /\ pc'["bcast"] = pc["bcast"]
      BY <1>8 DEF NackPrune, IInv, TypeInv
    <2>2. CASE cache' = PruneRetransmitCache(cache, req.lag)
      <3>0. req.lag \in Nat
        BY DEF IInv, TypeInv, ReqType
      <3>1. PICK k \in 0..Len(cache) :
              /\ Len(cache') = Len(cache) - k
              /\ \A i \in 1..Len(cache) - k : cache'[i] = cache[i + k]
        BY <1>0, <2>2, <3>0, PruneCutsFront
      <3>2. \A i \in 1..Len(cache') : cache'[i].seq <= tx.seq
        <4> SUFFICES ASSUME NEW i \in 1..Len(cache')
                     PROVE  cache'[i].seq <= tx.seq
          OBVIOUS
        <4>1. i \in 1..Len(cache) - k /\ i + k \in 1..Len(cache)
          BY <1>0, <3>1
        <4> QED  BY <3>1, <4>1 DEF IInv, CacheBehind
      <3> QED  BY <1>0, <2>1, <2>2, <3>0, <3>2, PruneKeepsOrder DEF IInv, CacheBehind
    <2>3. CASE cache' = cache
      BY <1>1, <2>1, <2>3
    <2> QED  BY <1>8, <2>2, <2>3 DEF NackPrune
  <1>9. CASE Tick
    <2>1. /\ OldToNew(cache') /\ Len(cache') = Len(cache)
          /\ \A i \in 1..Len(cache) : cache'[i].seq = cache[i].seq /\ cache'[i].age = Older(cache[i].age, MaxAge)
      BY <1>0, <1>9, AgeingKeepsOrder DEF Tick
    <2>2. tx'.seq = tx.seq /\ pc' = pc /\ (pc["bcast"] # "idle" => tx'.age = Older(tx.age, MaxAge))
      BY <1>9 DEF Tick, IInv, TypeInv, TxType
    <2>3. \A a, b \in Nat : a >= b => Older(a, MaxAge) >= Older(b, MaxAge)
      BY Sizes DEF Older
    <2> QED  BY <1>0, <2>1, <2>2, <2>3 DEF IInv, CacheBehind, Before
  <1>10. CASE UNCHANGED vars
    BY <1>1, <1>10 DEF vars
  <1> QED
    BY <1>3, <1>4, <1>5, <1>6, <1>7, <1>8, <1>9, <1>10 DEF Next, BcastSteps, RecvSteps

(* Caching a frame: the cache stays the end of what was stored. *)
LEMMA CachedIsEnd ==
    ASSUME NEW c \in Seq(CacheEntry), Len(c) <= CacheFrames, NEW s \in Seq(StoredEntry), EndOf(c, s),
           NEW f \in CacheEntry, NEW g \in StoredEntry, g.seq = f.seq, g.age = f.age,
           g.late = (f.age > CacheAge)
    PROVE  /\ EndOf(Cached(c, f), Append(s, g))
           /\ \A lag \in Nat : FreshOrLate(c, s, lag) => FreshOrLate(Cached(c, f), Append(s, g), lag)
  <1> DEFINE p == PruneRetransmitCache(c, 0)
             longer == Append(p, f)
             t == Append(s, g)
             d == Gone(c, s)
             e == Cached(c, f)
  <1>1. PICK k \in 0..Len(c) :
          /\ p \in Seq(CacheEntry) /\ Len(p) = Len(c) - k
          /\ \A i \in 1..Len(c) - k : p[i] = c[i + k]
          /\ \A i \in 1..k : c[i].age - 0 > CacheAge
    BY PruneCutsFront
  <1> HIDE DEF p
  <1>2. /\ longer \in Seq(CacheEntry) /\ Len(longer) = Len(p) + 1 /\ longer[Len(p) + 1] = f
        /\ \A i \in 1..Len(p) : longer[i] = p[i]
    BY <1>1, AppendProperties
  <1> HIDE DEF longer
  <1>3. /\ t \in Seq(StoredEntry) /\ Len(t) = Len(s) + 1 /\ t[Len(s) + 1] = g
        /\ \A i \in 1..Len(s) : t[i] = s[i]
    BY AppendProperties
  <1> HIDE DEF t
  <1>4. /\ CacheFrames \in Nat \ {0} /\ CacheAge \in Nat /\ Len(c) \in Nat /\ Len(s) \in Nat
        /\ d \in Nat /\ d + Len(c) = Len(s) /\ f.age \in Nat
    <2>1. Len(c) \in Nat /\ Len(s) \in Nat /\ Len(c) <= Len(s)
      BY DEF EndOf
    <2>2. d = Len(s) - Len(c)
      BY DEF Gone
    <2>3. f.age \in Nat
      BY DEF CacheEntry
    <2> HIDE DEF d
    <2> QED  BY <2>1, <2>2, <2>3, Sizes
  <1>5. /\ \A i \in 1..Len(c) : s[i + d].seq = c[i].seq /\ s[i + d].age = c[i].age
        /\ \A i \in 1..d : s[i].age > CacheAge \/ Len(s) - i >= CacheFrames
    BY DEF EndOf
  <1>6. \A i \in 1..Len(c) : c[i].age \in Nat
    <2>1. \A i \in 1..Len(c) : c[i] \in CacheEntry
      OBVIOUS
    <2> QED  BY <2>1 DEF CacheEntry
  <1>7. PICK h \in {0, 1} :
          /\ e \in Seq(CacheEntry) /\ Len(e) + h = Len(longer)
          /\ h = 1 => Len(longer) = CacheFrames + 1
          /\ \A i \in 1..Len(e) : i + h \in 1..Len(longer) /\ e[i] = longer[i + h]
    <2>1. CASE Len(longer) > CacheFrames
      <3>1. longer # << >> /\ Len(longer) = CacheFrames + 1
        BY <1>1, <1>2, <1>4, <2>1
      <3>2. /\ Tail(longer) \in Seq(CacheEntry) /\ Len(Tail(longer)) = Len(longer) - 1
            /\ \A i \in 1..Len(Tail(longer)) : Tail(longer)[i] = longer[i + 1]
        BY <1>2, <3>1, HeadTailProperties
      <3>3. e = Tail(longer)
        BY <2>1 DEF Cached, longer, p
      <3> HIDE DEF e
      <3> WITNESS 1 \in {0, 1}
      <3> QED  BY <1>4, <3>1, <3>2, <3>3
    <2>2. CASE ~(Len(longer) > CacheFrames)
      <3>1. e = longer
        BY <2>2 DEF Cached, longer, p
      <3> HIDE DEF e
      <3> WITNESS 0 \in {0, 1}
      <3> QED  BY <1>2, <1>4, <2>2, <3>1
    <2> QED  BY <2>1, <2>2
  <1> HIDE DEF e, d
  <1> DEFINE m == d + k + h
  <1>8. /\ k \in Nat /\ k <= Len(c) /\ h \in Nat /\ h <= 1 /\ m \in Nat
        /\ Len(e) \in Nat /\ Len(p) \in Nat /\ Len(p) + k = Len(c) /\ Len(longer) = Len(p) + 1
        /\ Len(e) + h = Len(p) + 1
        /\ Len(t) = Len(s) + 1 /\ Len(t) - Len(e) = m /\ Len(e) <= Len(t)
    <2>1. k \in Nat /\ k <= Len(c) /\ h \in Nat /\ h <= 1
      BY <1>4
    <2>2. Len(e) \in Nat /\ Len(p) \in Nat /\ Len(longer) \in Nat
      BY <1>1, <1>2, <1>7
    <2>3. /\ Len(p) = Len(c) - k /\ Len(longer) = Len(p) + 1
          /\ Len(e) + h = Len(longer) /\ Len(t) = Len(s) + 1
      BY <1>1, <1>2, <1>3, <1>7
    <2>4. CacheFrames \in Nat \ {0} /\ Len(c) \in Nat /\ Len(s) \in Nat /\ d \in Nat /\ d + Len(c) = Len(s)
      BY <1>4
    <2>5. Len(p) + k = Len(c) /\ Len(e) + h = Len(p) + 1 /\ m \in Nat
      BY <2>1, <2>2, <2>3, <2>4
    <2>6. Len(t) - Len(e) = m /\ Len(e) <= Len(t)
      BY <2>1, <2>2, <2>3, <2>4, <2>5
    <2> QED  BY <2>1, <2>2, <2>3, <2>5, <2>6
  <1> HIDE DEF m
  (* An entry of the new cache is the new frame or one of the old entries. *)
  <1>9. ASSUME NEW i \in 1..Len(e)
        PROVE  \/ e[i] = f /\ t[i + m] = g
               \/ i + h + k \in 1..Len(c) /\ e[i] = c[i + h + k] /\ t[i + m] = s[(i + h + k) + d]
    <2>1. i + h \in 1..Len(p) + 1 /\ e[i] = longer[i + h] /\ Len(p) = Len(c) - k
      BY <1>1, <1>2, <1>7
    <2>2. CASE i + h = Len(p) + 1
      <3>1. i + m = Len(s) + 1
        <4>1. i \in Nat /\ d \in Nat /\ k \in Nat /\ h \in Nat /\ Len(p) \in Nat
          BY <1>4, <1>8
        <4>2. Len(s) = d + (Len(p) + k) /\ i + h = Len(p) + 1
          BY <1>4, <1>8, <2>2
        <4> QED  BY <4>1, <4>2 DEF m
      <3> QED  BY <1>2, <1>3, <2>1, <2>2, <3>1
    <2>3. CASE i + h # Len(p) + 1
      <3>1. /\ i + h \in 1..Len(p) /\ i + h \in 1..Len(c) - k /\ i + h + k \in 1..Len(c)
            /\ i + m = (i + h + k) + d /\ i + m \in 1..Len(s)
        <4>1. i \in Nat /\ i > 0 /\ d \in Nat /\ k \in Nat /\ h \in Nat /\ Len(p) \in Nat
          BY <1>4, <1>8
        <4>2. i + h < Len(p) + 1
          <5>1. i + h \in 1..Len(p) + 1 /\ i + h # Len(p) + 1
            BY <2>1, <2>3
          <5> QED  BY <4>1, <5>1
        <4>3. Len(c) = Len(p) + k /\ Len(s) = d + (Len(p) + k)
          BY <1>4, <1>8
        <4>4. i + m = (i + h + k) + d
          BY <4>1 DEF m
        <4>5. i + h \in 1..Len(p) /\ i + h + k \in 1..Len(p) + k /\ i + m \in 1..d + (Len(p) + k)
          BY <4>1, <4>2, <4>4
        <4>6. Len(c) - k = Len(p)
          BY <4>1, <4>3
        <4> QED  BY <4>3, <4>4, <4>5, <4>6
      <3>2. e[i] = c[i + h + k]
        BY <1>1, <1>2, <2>1, <3>1
      <3> QED  BY <1>3, <3>1, <3>2
    <2> QED  BY <2>2, <2>3
  <1>10. \A i \in 1..Len(e) : t[i + m].seq = e[i].seq /\ t[i + m].age = e[i].age
    BY <1>5, <1>9
  <1>11. ASSUME NEW i \in 1..m
         PROVE  t[i].age > CacheAge \/ Len(t) - i >= CacheFrames
    <2>1. i \in 1..Len(s) /\ t[i] = s[i]
      <3>1. i \in 1..Len(s)
        BY <1>4, <1>7, <1>8 DEF m
      <3> QED  BY <1>3, <3>1
    <2>2. CASE i \in 1..d
      <3>1. s[i].age > CacheAge \/ Len(s) - i >= CacheFrames
        BY <1>5, <2>2
      <3>2. Len(s) - i >= CacheFrames => Len(t) - i >= CacheFrames
        BY <1>4, <1>8, <2>1
      <3> QED  BY <2>1, <3>1, <3>2
    <2>3. CASE i \in d + 1..d + k
      <3>1. i - d \in 1..k /\ i - d \in 1..Len(c) /\ (i - d) + d = i
        BY <1>4, <1>8, <2>3
      <3> DEFINE a == c[i - d].age
      <3>2. s[i].age = a /\ a - 0 > CacheAge /\ a \in Nat
        BY <1>1, <1>5, <1>6, <3>1
      <3> HIDE DEF a
      <3>3. a > CacheAge
        BY <1>4, <3>2
      <3> QED  BY <2>1, <3>2, <3>3
    <2>4. CASE i = d + k + 1 /\ h = 1
      <3>1. Len(p) + 1 = CacheFrames + 1
        BY <1>7, <1>8, <2>4
      <3>2. Len(t) - i = Len(p)
        <4>1. Len(t) = (d + Len(c)) + 1 /\ Len(c) = Len(p) + k /\ i = d + k + 1
          BY <1>4, <1>8, <2>4
        <4>2. d \in Nat /\ k \in Nat /\ Len(p) \in Nat
          BY <1>4, <1>8
        <4> QED  BY <4>1, <4>2
      <3>3. Len(p) \in Nat /\ CacheFrames \in Nat
        BY <1>4, <1>8
      <3> QED  BY <3>1, <3>2, <3>3
    <2> QED  BY <1>4, <1>8, <2>2, <2>3, <2>4 DEF m
  <1>12. ASSUME NEW lag \in Nat, FreshOrLate(c, s, lag), NEW i \in 1..Len(e)
         PROVE  e[i].age - lag <= CacheAge \/ t[i + m].late
    <2>1. CASE e[i] = f /\ t[i + m] = g
      <3>1. CASE f.age > CacheAge
        BY <2>1, <3>1
      <3>2. CASE ~(f.age > CacheAge)
        BY <1>4, <2>1, <3>2
      <3> QED  BY <3>1, <3>2
    <2>2. CASE i + h + k \in 1..Len(c) /\ e[i] = c[i + h + k] /\ t[i + m] = s[(i + h + k) + d]
      BY <1>12, <2>2 DEF FreshOrLate, d
    <2> QED  BY <1>9, <2>1, <2>2
  <1>13. Gone(e, t) = m
    BY <1>8 DEF Gone
  <1>14. EndOf(e, t)
    BY <1>8, <1>10, <1>11, <1>13 DEF EndOf
  <1>15. \A lag \in Nat : FreshOrLate(c, s, lag) => FreshOrLate(e, t, lag)
    BY <1>12, <1>13 DEF FreshOrLate
  <1> QED  BY <1>14, <1>15 DEF e, t

(* Pruning by the reading of lag ticks ago leaves the end of the history,   *)
(* and in an ordered cache nothing that had expired then.                   *)
LEMMA PrunedIsEnd ==
    ASSUME NEW c \in Seq(CacheEntry), OldToNew(c), NEW s \in Seq(StoredEntry), EndOf(c, s), NEW lag \in Nat
    PROVE  /\ EndOf(PruneRetransmitCache(c, lag), s)
           /\ FreshOrLate(PruneRetransmitCache(c, lag), s, lag)
  <1> DEFINE p == PruneRetransmitCache(c, lag)
             d == Gone(c, s)
  <1>1. PICK k \in 0..Len(c) :
          /\ p \in Seq(CacheEntry) /\ Len(p) = Len(c) - k
          /\ \A i \in 1..Len(c) - k : p[i] = c[i + k]
          /\ \A i \in 1..k : c[i].age - lag > CacheAge
    BY PruneCutsFront
  <1>2. \A i \in 1..Len(p) : p[i].age - lag <= CacheAge
    BY PruneLeavesFresh
  <1> HIDE DEF p
  <1>3. /\ CacheAge \in Nat /\ Len(c) \in Nat /\ Len(s) \in Nat
        /\ d \in Nat /\ d + Len(c) = Len(s)
        /\ \A i \in 1..Len(c) : s[i + d].seq = c[i].seq /\ s[i + d].age = c[i].age
        /\ \A i \in 1..d : s[i].age > CacheAge \/ Len(s) - i >= CacheFrames
    BY Sizes DEF EndOf, Gone
  <1>4. \A i \in 1..Len(c) : c[i].age \in Nat
    <2>1. \A i \in 1..Len(c) : c[i] \in CacheEntry
      OBVIOUS
    <2> QED  BY <2>1 DEF CacheEntry
  <1> HIDE DEF d
  <1>5. Gone(p, s) = d + k /\ Len(p) \in Nat /\ Len(p) <= Len(s)
    <2>1. k \in Nat /\ k <= Len(c) /\ Len(p) \in Nat /\ Len(p) = Len(c) - k
      BY <1>1, <1>3
    <2>2. Len(c) \in Nat /\ Len(s) \in Nat /\ d \in Nat /\ d + Len(c) = Len(s)
      BY <1>3
    <2>3. Len(s) - Len(p) = d + k
      BY <2>1, <2>2
    <2>4. Len(p) <= Len(s)
      BY <2>1, <2>2
    <2> QED  BY <2>1, <2>3, <2>4 DEF Gone
  <1>6. ASSUME NEW i \in 1..Len(p)
        PROVE  s[i + (d + k)].seq = p[i].seq /\ s[i + (d + k)].age = p[i].age
    <2>1. i \in 1..Len(c) - k /\ i + k \in 1..Len(c) /\ i + (d + k) = (i + k) + d
      BY <1>1, <1>3
    <2> QED  BY <1>1, <1>3, <2>1
  <1>7. ASSUME NEW i \in 1..d + k
        PROVE  s[i].age > CacheAge \/ Len(s) - i >= CacheFrames
    <2>1. CASE i \in 1..d
      BY <1>3, <2>1
    <2>2. CASE i \in d + 1..d + k
      <3>1. i - d \in 1..k /\ i - d \in 1..Len(c) /\ (i - d) + d = i
        BY <1>1, <1>3, <2>2
      <3> DEFINE a == c[i - d].age
      <3>2. s[i].age = a /\ a - lag > CacheAge /\ a \in Nat
        BY <1>1, <1>3, <1>4, <3>1
      <3> HIDE DEF a
      <3>3. CacheAge \in Nat /\ (a - lag > CacheAge => a > CacheAge)
        BY <1>3, <3>2
      <3> QED  BY <3>2, <3>3
    <2> QED  BY <1>3, <2>1, <2>2
  <1> QED  BY <1>2, <1>5, <1>6, <1>7 DEF EndOf, FreshOrLate, p

(* A tick ages both alike. *)
LEMMA AgedIsEnd ==
    ASSUME NEW c \in Seq(CacheEntry), NEW s \in Seq(StoredEntry), EndOf(c, s)
    PROVE  /\ EndOf(Aged(c), Aged(s))
           /\ \A lag \in Nat : FreshOrLate(c, s, lag) => FreshOrLate(Aged(c), Aged(s), lag + 1)
  <1> DEFINE b == Aged(c)
             t == Aged(s)
             d == Gone(c, s)
  <1>1. Len(b) = Len(c) /\ \A i \in 1..Len(c) : b[i].seq = c[i].seq /\ b[i].age = Older(c[i].age, MaxAge)
    BY AgeingKeepsOrder
  <1>2. /\ Len(t) = Len(s)
        /\ \A i \in 1..Len(s) : /\ t[i].seq = s[i].seq /\ t[i].late = s[i].late
                                /\ t[i].age = Older(s[i].age, MaxAge)
    BY AgeingKeepsStored
  <1>3. /\ CacheAge \in Nat /\ MaxAge \in Nat /\ Len(c) \in Nat /\ Len(s) \in Nat
        /\ d \in Nat /\ d + Len(c) = Len(s)
        /\ \A i \in 1..Len(c) : s[i + d].seq = c[i].seq /\ s[i + d].age = c[i].age
        /\ \A i \in 1..d : s[i].age > CacheAge \/ Len(s) - i >= CacheFrames
    BY Sizes DEF EndOf, Gone
  <1>4. /\ \A i \in 1..Len(c) : c[i].age \in Nat
        /\ \A i \in 1..Len(s) : s[i].age \in Nat
    <2>1. \A i \in 1..Len(c) : c[i] \in CacheEntry
      OBVIOUS
    <2>2. \A i \in 1..Len(s) : s[i] \in StoredEntry
      OBVIOUS
    <2> QED  BY <2>1, <2>2 DEF CacheEntry, StoredEntry
  <1> HIDE DEF b, t, d
  <1>5. Gone(b, t) = d /\ Len(b) <= Len(t)
    BY <1>1, <1>2, <1>3 DEF Gone
  <1>6. \A a \in Nat : Older(a, MaxAge) >= a /\ Older(a, MaxAge) <= a + 1 /\ Older(a, MaxAge) \in Nat
    BY <1>3 DEF Older
  <1>7. \A i \in 1..Len(b) : t[i + d].seq = b[i].seq /\ t[i + d].age = b[i].age
    <2> SUFFICES ASSUME NEW i \in 1..Len(b)
                 PROVE  t[i + d].seq = b[i].seq /\ t[i + d].age = b[i].age
      OBVIOUS
    <2>1. i \in 1..Len(c) /\ i + d \in 1..Len(s)
      BY <1>1, <1>3
    <2> QED  BY <1>1, <1>2, <1>3, <2>1
  <1>8. \A i \in 1..d : t[i].age > CacheAge \/ Len(t) - i >= CacheFrames
    <2> SUFFICES ASSUME NEW i \in 1..d
                 PROVE  t[i].age > CacheAge \/ Len(t) - i >= CacheFrames
      OBVIOUS
    <2>1. i \in 1..Len(s) /\ t[i].age = Older(s[i].age, MaxAge) /\ s[i].age \in Nat
      BY <1>2, <1>3, <1>4
    <2> DEFINE a == s[i].age
               o == Older(a, MaxAge)
    <2>2. t[i].age = o /\ a \in Nat /\ o >= a /\ o \in Nat /\ Len(t) = Len(s)
      BY <1>2, <1>6, <2>1
    <2>3. a > CacheAge \/ Len(s) - i >= CacheFrames
      BY <1>3
    <2> HIDE DEF a, o
    <2>4. a > CacheAge => o > CacheAge
      BY <1>3, <2>2
    <2> QED  BY <2>2, <2>3, <2>4
  <1>9. ASSUME NEW lag \in Nat, FreshOrLate(c, s, lag), NEW i \in 1..Len(b)
        PROVE  b[i].age - (lag + 1) <= CacheAge \/ t[i + d].late
    <2>1. i \in 1..Len(c) /\ i + d \in 1..Len(s)
      BY <1>1, <1>3
    <2>2. CASE s[i + d].late
      BY <1>2, <2>1, <2>2
    <2>3. CASE ~s[i + d].late
      <3>1. c[i].age - lag <= CacheAge /\ c[i].age \in Nat
        BY <1>4, <1>9, <2>1, <2>3 DEF FreshOrLate, d
      <3>2. b[i].age <= c[i].age + 1 /\ b[i].age \in Nat
        BY <1>1, <1>6, <2>1, <3>1
      <3>3. \A a, x \in Nat : a - lag <= CacheAge /\ x <= a + 1 => x - (lag + 1) <= CacheAge
        BY <1>3
      <3> QED  BY <3>1, <3>2, <3>3
    <2> QED  BY <2>2, <2>3
  <1> QED  BY <1>5, <1>7, <1>8, <1>9 DEF EndOf, FreshOrLate, b, t

(* The cache stays the end of the history, whatever the order in which      *)
(* frames are cached and NACKs are pruned for and answered.                 *)
LEMMA StoredKept == IInv /\ [Next]_vars => StoredFits'
  <1> SUFFICES ASSUME IInv, [Next]_vars
               PROVE  StoredFits'
    OBVIOUS
  <1>0. /\ cache \in Seq(CacheEntry) /\ Len(cache) <= CacheFrames /\ stored \in Seq(StoredEntry)
        /\ OldToNew(cache) /\ EndOf(cache, stored) /\ req.lag \in Nat
        /\ pc["recv"] \in {"limit", "serve"} => FreshOrLate(cache, stored, req.lag)
    BY DEF IInv, TypeInv, CacheType, ReqType, OldToNew, CacheOldestFirst, StoredFits
  <1> USE DEF Goto
  (* Cache and history are left alone, and no NACK comes to its search. *)
  <1>1. ASSUME cache' = cache, stored' = stored,
               pc'["recv"] \in {"limit", "serve"} => pc["recv"] \in {"limit", "serve"} /\ req'.lag = req.lag
        PROVE  StoredFits'
    BY <1>0, <1>1 DEF StoredFits
  <1>2. CASE \/ RecvCheck \/ SelectStopped \/ SelectTimeout \/ RecvError \/ RecvExit \/ StopBegin
             \/ (\E ok \in BOOLEAN : Start(ok)) \/ (\E c \in Clients : Hears(c))
             \/ BroadcastBegin
    <2>1. /\ cache' = cache /\ stored' = stored
          /\ pc'["recv"] \in {"limit", "serve"} => pc["recv"] \in {"limit", "serve"} /\ req' = req
      BY <1>2 DEF RecvCheck, SelectStopped, SelectTimeout, RecvError, RecvExit, StopBegin, Start, Hears,
                  RecvKeepAlive, RecvNack, BroadcastBegin, IInv, TypeInv
    <2> QED  BY <1>1, <2>1
  <1>3. ASSUME NEW n \in 0..Cardinality(Clients), SendFragment(n) \/ SendParity(n)
        PROVE  StoredFits'
    <2>1. cache' = cache /\ stored' = stored /\ pc'["recv"] = pc["recv"] /\ req' = req
      BY <1>3 DEF SendFragment, SendParity, IInv, TypeInv
    <2> QED  BY <1>1, <2>1
  <1>4. CASE NackLimit
    <2>1. cache' = cache /\ stored' = stored /\ pc["recv"] = "limit" /\ req'.lag = req.lag
      BY <1>4 DEF NackLimit, IInv, TypeInv, ReqType
    <2> QED  BY <1>1, <2>1
  <1>5. ASSUME NEW item \in Items, NEW ok \in BOOLEAN, NackServe(item, ok)
        PROVE  StoredFits'
    <2>1. /\ cache' = cache /\ stored' = stored /\ pc["recv"] = "serve"
          /\ pc'["recv"] = (IF req.left = 1 THEN "loop" ELSE "serve")
      BY <1>5 DEF NackServe, IInv, TypeInv
    <2>2. req.left # 1 => req'.lag = req.lag
      BY <1>5 DEF NackServe, IInv, TypeInv, ReqType
    <2> QED  BY <1>1, <2>1, <2>2
  <1>6. CASE StopJoin
    <2>1. cache' = << >> /\ stored' = << >>
      BY <1>6 DEF StopJoin
    <2> QED  BY <2>1, Sizes DEF StoredFits, EndOf, FreshOrLate, Gone
  <1>7. CASE CacheFrameFragments
    <2> DEFINE f == [seq |-> tx.seq, age |-> tx.age]
               g == [seq |-> tx.seq, age |-> tx.age, late |-> tx.age > CacheAge]
    <2>1. f \in CacheEntry /\ g \in StoredEntry /\ g.seq = f.seq /\ g.age = f.age /\ g.late = (f.age > CacheAge)
      BY <1>7, FrameToCache DEF CacheFrameFragments, IInv, TypeInv
    <2>2. /\ \/ cache' = Cached(cache, f) /\ stored' = Append(stored, g)
             \/ cache' = cache /\ stored' = stored
          /\ pc'["recv"] = pc["recv"] /\ req' = req
      BY <1>7 DEF CacheFrameFragments, IInv, TypeInv
    <2> HIDE DEF f, g
    <2>3. CASE cache' = Cached(cache, f) /\ stored' = Append(stored, g)
      BY <1>0, <2>1, <2>2, <2>3, CachedIsEnd DEF StoredFits
    <2>4. CASE cache' = cache /\ stored' = stored
      BY <1>1, <2>2, <2>4
    <2> QED  BY <2>2, <2>3, <2>4
  <1>8. CASE NackPrune
    <2>1. CASE cache' = PruneRetransmitCache(cache, req.lag) /\ stored' = stored /\ req' = req
      BY <1>0, <2>1, PrunedIsEnd DEF StoredFits
    <2>2. CASE cache' = cache /\ stored' = stored /\ pc'["recv"] = "loop"
      BY <1>1, <2>2
    <2> QED  BY <1>8, <2>1, <2>2 DEF NackPrune, IInv, TypeInv
  <1>9. CASE Tick
    <2>1. cache' = Aged(cache) /\ stored' = Aged(stored) /\ pc' = pc
      BY <1>9 DEF Tick
    <2>2. pc["recv"] \in {"limit", "serve"} => req'.lag = req.lag + 1
      BY <1>9 DEF Tick, Handling, IInv, TypeInv, ReqType
    <2> QED  BY <1>0, <2>1, <2>2, AgedIsEnd DEF StoredFits
  <1>10. CASE UNCHANGED vars
    BY <1>1, <1>10 DEF vars
  <1> QED
    BY <1>2, <1>3, <1>4, <1>5, <1>6, <1>7, <1>8, <1>9, <1>10 DEF Next, BcastSteps, RecvSteps

-----------------------------------------------------------------------------
(* The theorems. *)

LEMMA InitFits == Init => IInv
  <1> SUFFICES ASSUME Init
               PROVE  IInv
    OBVIOUS
  <1> USE DEF Init
  <1>1. TypeInv
    <2>1. CacheType
      BY Sizes DEF CacheType
    <2>2. TxType
      BY Sizes DEF TxType, Sending
    <2>3. ReqType
      BY DEF ReqType, NoRequest, Request
    <2>4. stored \in Seq(StoredEntry)
      OBVIOUS
    <2> QED  BY <2>1, <2>2, <2>3, <2>4 DEF TypeInv
  <1>2. Phases /\ StoppedIsEmpty
    BY DEF Phases, StoppedIsEmpty
  <1>3. CacheOldestFirst /\ CacheBehind
    BY DEF CacheOldestFirst, CacheBehind
  <1>4. StoredFits
    BY DEF StoredFits, EndOf, Gone
  <1> QED  BY <1>1, <1>2, <1>3, <1>4 DEF IInv

LEMMA IInvKept == IInv /\ [Next]_vars => IInv'
  BY TypeKept, PhasesKept, CacheOrderKept, StoredKept DEF IInv

(* The retransmission cache runs from old to new, in numbers and in ages,   *)
(* so that a pruning that looks at its front only misses no expired frame   *)
(* and an eviction takes the oldest.                                        *)
THEOREM CacheStaysOrdered == Spec => []CacheOldestFirst
  <1>1. Init => IInv
    BY InitFits
  <1>2. IInv => CacheOldestFirst
    BY DEF IInv
  <1> QED  BY <1>1, <1>2, IInvKept, PTL DEF Spec

(* What an invariant search finds, from the shape of cache and history. *)
LEMMA SearchFindsWhatIsKept == IInv => NackFindsWhatIsKept
  <1> SUFFICES ASSUME IInv, pc["recv"] = "serve", NEW item \in Items
               PROVE  /\ (\E k \in 1..Len(stored) : Keeps(k, item) /\ stored[k].age <= CacheAge) => Found(item)
                      /\ Found(item) => \E k \in 1..Len(stored) :
                             Keeps(k, item) /\ (stored[k].late \/ stored[k].age - req.lag <= CacheAge)
    BY DEF NackFindsWhatIsKept
  <1> DEFINE d == Gone(cache, stored)
  <1>1. /\ CacheAge \in Nat /\ CacheFrames \in Nat /\ Len(cache) \in Nat /\ Len(stored) \in Nat
        /\ Len(cache) <= CacheFrames /\ d \in Nat /\ d + Len(cache) = Len(stored)
    BY Sizes DEF IInv, TypeInv, CacheType, StoredFits, EndOf, Gone
  <1>2. /\ \A i \in 1..Len(cache) : stored[i + d].seq = cache[i].seq /\ stored[i + d].age = cache[i].age
        /\ \A i \in 1..d : stored[i].age > CacheAge \/ Len(stored) - i >= CacheFrames
        /\ \A i \in 1..Len(cache) : cache[i].age - req.lag <= CacheAge \/ stored[i + d].late
    BY DEF IInv, StoredFits, EndOf, FreshOrLate
  <1>3. \A i \in 1..Len(stored) : stored[i].age \in Nat
    <2>1. \A i \in 1..Len(stored) : stored[i] \in StoredEntry
      BY DEF IInv, TypeInv
    <2> QED  BY <2>1 DEF StoredEntry
  <1> HIDE DEF d
  <1>4. ASSUME NEW k \in 1..Len(stored), Keeps(k, item), stored[k].age <= CacheAge
        PROVE  Found(item)
    <2>1. k \notin 1..d
      BY <1>1, <1>2, <1>3, <1>4 DEF Keeps
    <2>2. k - d \in 1..Len(cache) /\ (k - d) + d = k
      BY <1>1, <2>1
    <2>3. cache[k - d].seq = item.seq
      BY <1>2, <1>4, <2>2 DEF Keeps
    <2> QED  BY <1>4, <2>2, <2>3 DEF Found, Keeps
  <1>5. ASSUME Found(item)
        PROVE  \E k \in 1..Len(stored) :
                   Keeps(k, item) /\ (stored[k].late \/ stored[k].age - req.lag <= CacheAge)
    <2>1. PICK j \in 1..Len(cache) : cache[j].seq = item.seq
      BY <1>5 DEF Found
    <2>2. j + d \in 1..Len(stored) /\ Len(stored) - (j + d) < CacheFrames
      BY <1>1
    <2>3. Keeps(j + d, item)
      BY <1>2, <1>5, <2>1, <2>2 DEF Keeps, Found
    <2>4. stored[j + d].late \/ stored[j + d].age - req.lag <= CacheAge
      BY <1>2
    <2> QED  BY <2>2, <2>3, <2>4
  <1> QED  BY <1>4, <1>5

(* A NACK is answered from what the cache should keep: every fragment of    *)
(* one of the newest frames of this life that has not expired is found, and *)
(* none of another life, of an evicted frame, or of one that had expired    *)
(* when the NACK came unless it had when it was cached.                     *)
THEOREM AnswersFromWhatIsKept == Spec => []NackFindsWhatIsKept
  <1>1. Init => IInv
    BY InitFits
  <1> QED  BY <1>1, SearchFindsWhatIsKept, IInvKept, PTL DEF Spec

(* After stop the socket is closed, the receive thread is gone, and neither *)
(* a client nor a frame is left for the next start.                         *)
THEOREM StopLeavesNothing == Spec => []StoppedIsEmpty
  <1>1. Init => IInv
    BY InitFits
  <1>2. IInv => StoppedIsEmpty
    BY DEF IInv
  <1> QED  BY <1>1, <1>2, IInvKept, PTL DEF Spec
=============================================================================
