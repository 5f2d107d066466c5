-------------------------- MODULE UdpReceiver_proofs --------------------------
(***************************************************************************)
(* Proofs about UdpReceiver, for any number of frames, any sizes of frames *)
(* and fragments, any window of completed frames, and any thresholds.      *)
(***************************************************************************)
EXTENDS UdpReceiver, FiniteSetTheorems, SequenceTheorems, WellFoundedInduction, TLAPS

-----------------------------------------------------------------------------
(* What holds of the UDP state between two calls, and of what a call does   *)
(* to it.                                                                   *)

(* A frame holds the server's bytes when nothing, or just one of its        *)
(* fragments, was put in.                                                   *)
PatchFits(a) == \/ a.patch = NoPatch
                \/ \E i \in Fragments(a.size) :
                      a.patch = [index |-> i, at |-> i * MaxFragment, bytes |-> FragmentBytes(a.size, i)]

IsAssembly(a) == /\ DOMAIN a = DOMAIN NewAssembly(1)
                 /\ a.size \in Sizes
                 /\ a.got \subseteq Fragments(a.size)
                 /\ a.attempts \in 0..NackMaxRetries
                 /\ PatchFits(a)

Shaped(r) ==
    /\ DOMAIN r = {"asm", "buf", "next", "recent", "garbled"}
    /\ DOMAIN r.asm \subseteq Seqs
    /\ \A s \in DOMAIN r.asm : IsAssembly(r.asm[s])
    /\ DOMAIN r.buf \subseteq Seqs
    /\ r.next \in 0..MaxSeq + 1
    /\ r.recent \in Seq(Seqs) /\ Len(r.recent) <= Window
    /\ r.garbled = {}

(* With frames dl returned so far: no frame the window remembers is         *)
(* assembled, and a window that holds every frame remembers exactly those   *)
(* that were returned and those that wait.                                  *)
Kept(r, dl) ==
    /\ DOMAIN r.asm \cap ToSet(r.recent) = {}
    /\ MaxSeq <= Window =>
          /\ ToSet(r.recent) = ToSet(dl) \cup DOMAIN r.buf
          /\ ToSet(dl) \cap DOMAIN r.buf = {}
          /\ IsInjective(dl)
          /\ IsInjective(r.recent)

CompleteIn(r) == {s \in DOMAIN r.asm : Complete(r.asm[s])}

After(dl, out) == IF out # NoSeq THEN Append(dl, out) ELSE dl

Good(r, dl) == Shaped(r) /\ dl \in Seq(Seqs) /\ Kept(r, dl)
GoodCall(res, dl) == res.out \in 0..MaxSeq /\ Good(res.rx, After(dl, res.out))

(* The frames the loop has recovered are the only complete ones in the      *)
(* table; from the drain on nothing else can be recovered, so that the      *)
(* second call, which may return a frame in the middle of the loop, finds   *)
(* nothing to do.                                                           *)
NothingLeft ==
    /\ pc # "finalize" => todo = {}
    /\ jitterOn => CompleteIn(rx) \subseteq todo
    /\ pc \in {"finalize", "pop", "maintain"} => Ready(rx) = {}

Control == /\ pc \in {"top", "drain", "finalize", "pop", "maintain", "refinalize", "nack", "block"}
           /\ jitterOn \in JitterModes
           /\ drained \in BOOLEAN
           /\ todo \subseteq Seqs

IInv == Control /\ Good(rx, delivered) /\ NothingLeft

-----------------------------------------------------------------------------
(* Constants, least elements and sequences. *)

LEMMA Parameters ==
    /\ MaxSeq \in Nat \ {0} /\ Sizes \subseteq Nat /\ Window \in Nat \ {0}
    /\ NackMaxRetries \in Nat /\ MaxFragment \in Nat \ {0}
  BY BoundAssumption, LimitAssumption, MaxFragmentAssumption

(* A nonempty set of numbers has a least element. *)
LEMMA HasLeast ==
    ASSUME NEW I \in SUBSET Nat, I # {}
    PROVE  \E i \in I : \A j \in I : i <= j
  <1>1. PICK i \in I : \A j \in I : ~ (<<j, i>> \in OpToRel(<, Nat))
    BY NatLessThanWellFounded, WFMin
  <1>2. ASSUME NEW j \in I
        PROVE  i <= j
    <2>1. i \in Nat /\ j \in Nat
      OBVIOUS
    <2>2. j < i => <<j, i>> \in OpToRel(<, Nat)
      BY <2>1 DEF OpToRel
    <2>3. ~(j < i)
      BY <1>1, <2>2, Zenon
    <2> QED  BY <2>1, <2>3
  <1> QED  BY <1>2

(* So does a nonempty set of frame numbers, and Min finds it. *)
LEMMA MinIsMember ==
    ASSUME NEW I, I \subseteq Seqs, I # {}
    PROVE  Min(I) \in I
  <1>1. I \in SUBSET Nat
    BY DEF Seqs
  <1>2. PICK i \in I : \A j \in I : i <= j
    BY <1>1, HasLeast
  <1> QED  BY <1>2 DEF Min

(* What appending does to the members of a sequence without repetition. *)
LEMMA AppendMembers ==
    ASSUME NEW q \in Seq(Seqs), NEW s \in Seqs
    PROVE  /\ Append(q, s) \in Seq(Seqs)
           /\ ToSet(Append(q, s)) = ToSet(q) \cup {s}
           /\ ToSet(q) \subseteq Seqs
           /\ IsInjective(q) /\ s \notin ToSet(q) => IsInjective(Append(q, s))
  <1>1. /\ Append(q, s) \in Seq(Seqs) /\ Len(q) \in Nat
        /\ DOMAIN q = 1..Len(q) /\ DOMAIN Append(q, s) = 1..Len(q) + 1
        /\ \A i \in 1..Len(q) : Append(q, s)[i] = q[i] /\ q[i] \in Seqs
        /\ Append(q, s)[Len(q) + 1] = s
    OBVIOUS
  <1>2. ToSet(Append(q, s)) = ToSet(q) \cup {s}
    <2>1. \A x : x \in ToSet(Append(q, s)) <=> \E i \in 1..Len(q) + 1 : x = Append(q, s)[i]
      BY <1>1 DEF ToSet
    <2>2. \A x : x \in ToSet(q) <=> \E i \in 1..Len(q) : x = q[i]
      BY <1>1 DEF ToSet
    <2>3. ASSUME NEW x, x \in ToSet(Append(q, s))
          PROVE  x \in ToSet(q) \cup {s}
      BY <1>1, <2>1, <2>2, <2>3
    <2>4. ASSUME NEW x, x \in ToSet(q)
          PROVE  x \in ToSet(Append(q, s))
      <3>1. PICK i \in 1..Len(q) : x = q[i]
        BY <2>2, <2>4
      <3>2. i \in 1..Len(q) + 1 /\ x = Append(q, s)[i]
        BY <1>1, <3>1
      <3> QED  BY <2>1, <3>2
    <2>5. s \in ToSet(Append(q, s))
      BY <1>1, <2>1
    <2> QED  BY <2>3, <2>4, <2>5
  <1>3. ToSet(q) \subseteq Seqs
    BY <1>1 DEF ToSet
  <1>4. ASSUME IsInjective(q), s \notin ToSet(q)
        PROVE  IsInjective(Append(q, s))
    <2>1. \A i, j \in 1..Len(q) : q[i] = q[j] => i = j
      BY <1>1, <1>4 DEF IsInjective
    <2>2. \A i \in 1..Len(q) : q[i] # s
      BY <1>1, <1>4 DEF ToSet
    <2> QED  BY <1>1, <2>1, <2>2 DEF IsInjective
  <1> QED  BY <1>1, <1>2, <1>3, <1>4

(* A sequence of frames without repetition is no longer than there are      *)
(* frames, and shorter when a frame is not in it.                           *)
LEMMA ShorterWithout ==
    ASSUME NEW q \in Seq(Seqs), IsInjective(q), NEW s \in Seqs, s \notin ToSet(q)
    PROVE  Len(q) < MaxSeq
  <1> DEFINE L == Append(q, s)
             n == Len(q) + 1
  <1>1. /\ L \in Seq(Seqs) /\ IsInjective(L) /\ Len(L) = n /\ n \in Nat
    BY AppendMembers
  <1>2. L \in [1..n -> Seqs]
    <2> HIDE DEF L, n
    <2>1. L \in [1..Len(L) -> Seqs]
      BY <1>1, LenProperties
    <2> QED  BY <1>1, <2>1
  <1>3. IsFiniteSet(1..n) /\ Cardinality(1..n) = n /\ IsFiniteSet(Seqs) /\ Cardinality(Seqs) = MaxSeq
    <2>1. MaxSeq \in Nat
      BY Parameters
    <2> QED  BY <1>1, <2>1, FS_Interval DEF Seqs
  <1>4. ~(n > MaxSeq)
    <2>1. ASSUME n > MaxSeq
          PROVE  FALSE
      <3>1. \E x, y \in 1..n : x # y /\ L[x] = L[y]
        BY <1>2, <1>3, <2>1, FS_PigeonHole
      <3> QED  BY <1>1, <1>2, <3>1 DEF IsInjective
    <2> QED  BY <2>1
  <1> QED  BY <1>1, <1>4, Parameters

-----------------------------------------------------------------------------
(* The layout of a frame and its parity. *)

(* The fragments cover the frame: all but the last are full, and the last   *)
(* ends where the frame ends.                                               *)
LEMMA Layout ==
    ASSUME NEW size \in Nat
    PROVE  /\ FragmentCount(size) \in Nat \ {0}
           /\ size # 0 => /\ (FragmentCount(size) - 1) * MaxFragment < size
                          /\ size <= FragmentCount(size) * MaxFragment
  <1>1. MaxFragment \in Nat \ {0}
    BY Parameters
  <1>2. ASSUME size # 0
        PROVE  /\ FragmentCount(size) \in Nat \ {0}
               /\ (FragmentCount(size) - 1) * MaxFragment < size
               /\ size <= FragmentCount(size) * MaxFragment
    <2> DEFINE a == size + MaxFragment - 1
               c == a \div MaxFragment
    <2>1. a \in Nat /\ a >= MaxFragment
      BY <1>1, <1>2
    <2>2. FragmentCount(size) = c
      BY <1>2 DEF FragmentCount
    <2>3. \A x \in Nat : x \div MaxFragment \in Nat /\ (x \div MaxFragment) * MaxFragment <= x
                         /\ x < (x \div MaxFragment) * MaxFragment + MaxFragment
      BY <1>1
    <2>4. c \in Nat /\ c * MaxFragment <= a /\ a < c * MaxFragment + MaxFragment
      <3> HIDE DEF a
      <3> QED  BY <2>1, <2>3
    <2> HIDE DEF c
    <2>5. c # 0
      BY <1>1, <2>1, <2>4
    <2>6. (c - 1) * MaxFragment = c * MaxFragment - MaxFragment
      BY <1>1, <2>4
    <2>7. c * MaxFragment \in Nat
      BY <1>1, <2>4
    <2> QED  BY <1>1, <2>2, <2>4, <2>5, <2>6, <2>7
  <1>3. size = 0 => FragmentCount(size) = 1
    BY DEF FragmentCount
  <1> QED  BY <1>2, <1>3

(* Where a fragment begins and how long it is; what the receiver infers     *)
(* from the neighbours is the same.                                         *)
LEMMA FragmentPlace ==
    ASSUME NEW size \in Nat, NEW i \in 0..FragmentCount(size) - 1
    PROVE  /\ FragmentSize(size, i) \in 0..MaxFragment
           /\ i * MaxFragment \in Nat
           /\ i * MaxFragment + FragmentSize(size, i) <= size
           /\ size <= i * MaxFragment + FragmentSize(size, i) \/ FragmentSize(size, i) = MaxFragment
           /\ MissingOffset(i) = i * MaxFragment
           /\ MissingSize(size, i) = FragmentSize(size, i)
           /\ FragmentBytes(size, i) = [k \in 0..FragmentSize(size, i) - 1 |-> {i * MaxFragment + k}]
  <1> DEFINE n == FragmentCount(size)
             at == i * MaxFragment
  <1>1. /\ MaxFragment \in Nat \ {0} /\ n \in Nat \ {0} /\ i \in Nat /\ i <= n - 1
        /\ size # 0 => (n - 1) * MaxFragment < size /\ size <= n * MaxFragment
    BY Parameters, Layout
  <1>2. size = 0 => n = 1 /\ i = 0
    BY <1>1 DEF FragmentCount
  <1>3. at \in Nat /\ (i + 1) * MaxFragment = at + MaxFragment
    BY <1>1
  <1>4. i # 0 => (i - 1) * MaxFragment + MaxFragment = at
    BY <1>1
  <1>5. MissingOffset(i) = at
    <2>1. i = 0 => at = 0
      BY <1>1
    <2> QED  BY <1>4, <2>1 DEF MissingOffset, FragmentOffset
  <1>6. at <= size
    <2>1. CASE size = 0
      BY <1>1, <1>2, <2>1
    <2>2. CASE size # 0
      <3>1. \A x, y \in Nat : x <= y => x * MaxFragment <= y * MaxFragment
        BY <1>1
      <3>2. n - 1 \in Nat /\ (n - 1) * MaxFragment \in Nat
        BY <1>1
      <3>3. i * MaxFragment <= (n - 1) * MaxFragment
        <4> HIDE DEF n
        <4> QED  BY <1>1, <3>1, <3>2
      <3> HIDE DEF n, at
      <3> QED  BY <1>1, <1>3, <2>2, <3>2, <3>3 DEF at
    <2> QED  BY <2>1, <2>2
  <1>7. i + 1 < n => at + MaxFragment <= size
    <2> SUFFICES ASSUME i + 1 < n PROVE at + MaxFragment <= size
      OBVIOUS
    <2>1. size # 0
      BY <1>1, <1>2
    <2>2. i + 1 \in Nat /\ n - 1 \in Nat /\ i + 1 <= n - 1
      BY <1>1
    <2>3. \A x, y \in Nat : x <= y => x * MaxFragment <= y * MaxFragment
      BY <1>1
    <2>4. (i + 1) * MaxFragment <= (n - 1) * MaxFragment
      <3> HIDE DEF n
      <3> QED  BY <2>2, <2>3
    <2>5. (n - 1) * MaxFragment \in Nat
      BY <1>1
    <2> HIDE DEF n, at
    <2> QED  BY <1>1, <1>3, <2>1, <2>4, <2>5
  <1>8. ~(i + 1 < n) => size <= at + MaxFragment
    <2> SUFFICES ASSUME ~(i + 1 < n) PROVE size <= at + MaxFragment
      OBVIOUS
    <2>1. n = i + 1
      BY <1>1
    <2>2. n * MaxFragment = at + MaxFragment
      BY <1>3, <2>1
    <2> HIDE DEF n, at
    <2> QED  BY <1>1, <1>3, <2>2
  <1>9. FragmentSize(size, i) = IF size - at < MaxFragment THEN size - at ELSE MaxFragment
    BY DEF FragmentSize, FragmentOffset
  <1>10. MissingSize(size, i) = (IF i + 1 < n THEN at + MaxFragment ELSE size) - at
    BY <1>3, <1>5 DEF MissingSize, FragmentOffset
  <1>11. FragmentBytes(size, i) = [k \in 0..FragmentSize(size, i) - 1 |-> {at + k}]
    BY DEF FragmentBytes, FragmentOffset
  <1> HIDE DEF n, at
  <1>12. FragmentSize(size, i) \in 0..MaxFragment /\ at + FragmentSize(size, i) <= size
         /\ (size <= at + FragmentSize(size, i) \/ FragmentSize(size, i) = MaxFragment)
    BY <1>1, <1>3, <1>6, <1>9
  <1>13. MissingSize(size, i) = FragmentSize(size, i)
    BY <1>1, <1>3, <1>6, <1>7, <1>8, <1>9, <1>10
  <1> QED  BY <1>3, <1>5, <1>11, <1>12, <1>13 DEF at

(* The bytes of the first n fragments, of those in which, that meet at      *)
(* place k of the parity.                                                   *)
Meeting(size, which, n, k) ==
    {i * MaxFragment + k : i \in {j \in which : j < n /\ k \in 0..FragmentSize(size, j) - 1}}
Width(size, which, n) ==
    UNION {0..FragmentSize(size, i) - 1 : i \in {j \in which : j < n}}

(* What one more fragment does to a place of the parity. *)
LEMMA OneMoreMeets ==
    ASSUME NEW size \in Nat, NEW which \in SUBSET Fragments(size), NEW i \in which
    PROVE  /\ Width(size, which, i + 1) = Width(size, which, i) \cup (0..FragmentSize(size, i) - 1)
           /\ \A k \in Int :
                 /\ k \in 0..FragmentSize(size, i) - 1 =>
                       /\ Meeting(size, which, i + 1, k) = Meeting(size, which, i, k) \cup {i * MaxFragment + k}
                       /\ i * MaxFragment + k \notin Meeting(size, which, i, k)
                 /\ k \notin 0..FragmentSize(size, i) - 1 =>
                       Meeting(size, which, i + 1, k) = Meeting(size, which, i, k)
  <1> DEFINE In(j, k) == k \in 0..FragmentSize(size, j) - 1
             Before(n) == {j \in which : j < n}
             Here(n, k) == {j \in which : j < n /\ In(j, k)}
  <1>1. i \in Nat /\ which \subseteq Nat /\ MaxFragment \in Nat \ {0}
    BY Parameters, Layout DEF Fragments
  <1>10. \A j \in which : j < i + 1 <=> j < i \/ j = i
    BY <1>1
  <1>2. Before(i + 1) = Before(i) \cup {i}
    BY <1>10
  <1>3. \A k : Here(i + 1, k) = IF In(i, k) THEN Here(i, k) \cup {i} ELSE Here(i, k)
    <2> SUFFICES ASSUME NEW k PROVE Here(i + 1, k) = IF In(i, k) THEN Here(i, k) \cup {i} ELSE Here(i, k)
      OBVIOUS
    <2> HIDE DEF In
    <2>1. CASE In(i, k)
      BY <1>10, <2>1
    <2>2. CASE ~In(i, k)
      BY <1>10, <2>2
    <2> QED  BY <2>1, <2>2
  <1>4. Width(size, which, i + 1) = Width(size, which, i) \cup (0..FragmentSize(size, i) - 1)
    <2> DEFINE I(j) == 0..FragmentSize(size, j) - 1
    <2>1. \A n : Width(size, which, n) = UNION {I(j) : j \in Before(n)}
      BY DEF Width
    <2> HIDE DEF I, Before
    <2>2. (UNION {I(j) : j \in Before(i) \cup {i}}) = (UNION {I(j) : j \in Before(i)}) \cup I(i)
      OBVIOUS
    <2> QED  BY <1>2, <2>1, <2>2 DEF I
  <1>5. \A n, k : Meeting(size, which, n, k) = {j * MaxFragment + k : j \in Here(n, k)}
    BY DEF Meeting
  <1>6. \A k : \A j \in Here(i, k) : j \in Nat /\ j < i
    BY <1>1
  <1>7. \A k \in Int : i * MaxFragment + k \notin Meeting(size, which, i, k)
    <2> SUFFICES ASSUME NEW k \in Int, NEW j \in Here(i, k)
                 PROVE  j * MaxFragment + k # i * MaxFragment + k
      <3> HIDE DEF Here
      <3> QED  BY <1>5
    <2>1. j \in Nat /\ j < i
      BY <1>6
    <2>2. \A x, y \in Nat : x < y => x * MaxFragment < y * MaxFragment
      BY <1>1
    <2>3. j * MaxFragment < i * MaxFragment
      BY <1>1, <2>1, <2>2
    <2>4. j * MaxFragment \in Nat /\ i * MaxFragment \in Nat
      BY <1>1, <2>1
    <2> QED  BY <2>3, <2>4
  <1>8. ASSUME NEW k \in Int, In(i, k)
        PROVE  Meeting(size, which, i + 1, k) = Meeting(size, which, i, k) \cup {i * MaxFragment + k}
    <2> HIDE DEF Here, In
    <2>1. Here(i + 1, k) = Here(i, k) \cup {i}
      BY <1>3, <1>8
    <2> QED  BY <1>5, <2>1
  <1>9. ASSUME NEW k \in Int, ~In(i, k)
        PROVE  Meeting(size, which, i + 1, k) = Meeting(size, which, i, k)
    <2> HIDE DEF Here, In
    <2> QED  BY <1>3, <1>5, <1>9
  <1> QED  BY <1>4, <1>7, <1>8, <1>9

(* A fragment not in which changes nothing. *)
LEMMA NoneMoreMeets ==
    ASSUME NEW size \in Nat, NEW which \in SUBSET Fragments(size), NEW i \in Nat, i \notin which
    PROVE  /\ Width(size, which, i + 1) = Width(size, which, i)
           /\ \A k : Meeting(size, which, i + 1, k) = Meeting(size, which, i, k)
  <1> DEFINE In(j, k) == k \in 0..FragmentSize(size, j) - 1
  <1>1. which \subseteq Nat
    BY Layout DEF Fragments
  <1>2. \A j \in which : j < i + 1 <=> j < i
    BY <1>1
  <1>3. {j \in which : j < i + 1} = {j \in which : j < i}
    BY <1>2
  <1>4. \A k : {j \in which : j < i + 1 /\ In(j, k)} = {j \in which : j < i /\ In(j, k)}
    <2> HIDE DEF In
    <2> QED  BY <1>2
  <1> QED  BY <1>3, <1>4 DEF Width, Meeting

(* The fragments among the first n combined into from, place by place. *)
Sum(size, from, which, n) ==
    [k \in DOMAIN from \cup Width(size, which, n) |->
        Xor(ByteAt(from, k), Meeting(size, which, n, k))]

IsBuffer(from) == DOMAIN from \subseteq Int /\ from = [k \in DOMAIN from |-> from[k]]

(* Nothing combined yet: the buffer is the one begun with.                  *)
LEMMA NothingSummed ==
    ASSUME NEW size \in Nat, NEW which \in SUBSET Fragments(size), NEW from, IsBuffer(from)
    PROVE  Sum(size, from, which, 0) = from
  <1>1. which \subseteq Nat
    BY Layout DEF Fragments
  <1>2. {j \in which : j < 0} = {}
    <2>1. \A j \in which : ~(j < 0)
      BY <1>1
    <2> QED  BY <2>1, Zenon
  <1>3. \A k : {j \in which : j < 0 /\ k \in 0..FragmentSize(size, j) - 1} = {}
    BY <1>2
  <1>4. Width(size, which, 0) = {}
    BY <1>2, Zenon DEF Width
  <1>5. \A k : Meeting(size, which, 0, k) = {}
    BY <1>3, Zenon DEF Meeting
  <1>6. \A k \in DOMAIN from : Xor(ByteAt(from, k), {}) = from[k]
    BY DEF Xor, ByteAt
  <1>7. Sum(size, from, which, 0) = [k \in DOMAIN from |-> from[k]]
    <2>1. Sum(size, from, which, 0) = [k \in DOMAIN from |-> Xor(ByteAt(from, k), Meeting(size, which, 0, k))]
      BY <1>4 DEF Sum
    <2> QED  BY <1>5, <1>6, <2>1
  <1> QED  BY <1>7 DEF IsBuffer

(* A place past the end of the buffer counts as zero.                       *)
LEMMA SumAtPlace ==
    ASSUME NEW size, NEW from, NEW which, NEW n, NEW k
    PROVE  ByteAt(Sum(size, from, which, n), k) = Xor(ByteAt(from, k), Meeting(size, which, n, k))
  <1> DEFINE D == DOMAIN from \cup Width(size, which, n)
             S == Sum(size, from, which, n)
  <1>1. DOMAIN S = D /\ \A x \in D : S[x] = Xor(ByteAt(from, x), Meeting(size, which, n, x))
    BY DEF Sum
  <1> HIDE DEF S
  <1>2. CASE k \in D
    <2> HIDE DEF D
    <2>1. ByteAt(S, k) = S[k]
      BY <1>1, <1>2, Zenon DEF ByteAt
    <2>2. S[k] = Xor(ByteAt(from, k), Meeting(size, which, n, k))
      BY <1>1, <1>2, Zenon
    <2> QED  BY <2>1, <2>2 DEF S
  <1>3. CASE k \notin D
    <2>1. ByteAt(from, k) = {} /\ ByteAt(S, k) = {}
      BY <1>1, <1>3 DEF ByteAt
    <2>2. \A j \in which : j < n => k \notin 0..FragmentSize(size, j) - 1
      <3> DEFINE I(j) == 0..FragmentSize(size, j) - 1
      <3>1. k \notin UNION {I(j) : j \in {i \in which : i < n}}
        BY <1>3 DEF Width
      <3> HIDE DEF I
      <3>2. \A j \in which : j < n => k \notin I(j)
        BY <3>1
      <3> QED  BY <3>2 DEF I
    <2>3. Meeting(size, which, n, k) = {}
      BY <2>2, Zenon DEF Meeting
    <2> QED  BY <2>1, <2>3 DEF Xor, S
  <1> QED  BY <1>2, <1>3 DEF S

(* One turn of the loop combines one fragment more.                         *)
LEMMA SumGrows ==
    ASSUME NEW size \in Nat, NEW which \in SUBSET Fragments(size), NEW from, IsBuffer(from),
           NEW i \in 0..FragmentCount(size) - 1
    PROVE  Sum(size, from, which, i + 1) =
               IF i \in which THEN XorInto(Sum(size, from, which, i), FragmentBytes(size, i))
               ELSE Sum(size, from, which, i)
  <1> DEFINE S == Sum(size, from, which, i)
             B == FragmentBytes(size, i)
             W == 0..FragmentSize(size, i) - 1
             M(n, k) == Meeting(size, which, n, k)
             D == DOMAIN from \cup Width(size, which, i)
  <1>0. i \in Nat /\ FragmentCount(size) \in Nat
    BY Layout
  <1>1. CASE i \notin which
    BY <1>0, <1>1, NoneMoreMeets DEF Sum
  <1>2. CASE i \in which
    <2>1. B = [k \in W |-> {i * MaxFragment + k}]
      BY FragmentPlace
    <2>2. /\ Width(size, which, i + 1) = Width(size, which, i) \cup W
          /\ \A k \in Int : /\ k \in W => /\ M(i + 1, k) = M(i, k) \cup {i * MaxFragment + k}
                                          /\ i * MaxFragment + k \notin M(i, k)
                            /\ k \notin W => M(i + 1, k) = M(i, k)
      BY <1>2, OneMoreMeets
    <2>3. DOMAIN B = W /\ \A k : ByteAt(B, k) = IF k \in W THEN {i * MaxFragment + k} ELSE {}
      <3> HIDE DEF B, W
      <3> QED  BY <2>1 DEF ByteAt
    <2>4. \A k : ByteAt(S, k) = Xor(ByteAt(from, k), M(i, k))
      BY SumAtPlace
    <2>5. DOMAIN S = D /\ D \cup W \subseteq Int
      <3>1. DOMAIN S = D
        BY DEF Sum
      <3>2. D \subseteq Int
        <4> DEFINE I(j) == 0..FragmentSize(size, j) - 1
        <4>1. \A j : I(j) \subseteq Int
          OBVIOUS
        <4>2. Width(size, which, i) = UNION {I(j) : j \in {m \in which : m < i}}
          BY DEF Width
        <4> HIDE DEF I
        <4> QED  BY <4>1, <4>2 DEF IsBuffer
      <3> QED  BY <3>1, <3>2
    <2> HIDE DEF B, S, W, M
    <2>6. \A k \in D \cup W : Xor(ByteAt(S, k), ByteAt(B, k)) = Xor(ByteAt(from, k), M(i + 1, k))
      <3> SUFFICES ASSUME NEW k \in D \cup W
                   PROVE  Xor(ByteAt(S, k), ByteAt(B, k)) = Xor(ByteAt(from, k), M(i + 1, k))
        OBVIOUS
      <3>1. k \in Int
        BY <2>5
      <3>2. CASE k \in W
        <4> DEFINE x == i * MaxFragment + k
                   a == ByteAt(from, k)
                   m == M(i, k)
        <4>1. ByteAt(S, k) = Xor(a, m) /\ ByteAt(B, k) = {x} /\ M(i + 1, k) = m \cup {x} /\ x \notin m
          BY <2>2, <2>3, <2>4, <3>1, <3>2
        <4> HIDE DEF x, a, m
        <4>2. Xor(Xor(a, m), {x}) = Xor(a, m \cup {x})
          BY <4>1 DEF Xor
        <4> QED  BY <4>1, <4>2 DEF a
      <3>3. CASE k \notin W
        <4>1. M(i + 1, k) = M(i, k) /\ ByteAt(B, k) = {}
          BY <2>2, <2>3, <3>1, <3>3
        <4>2. Xor(ByteAt(S, k), {}) = ByteAt(S, k)
          BY <2>4 DEF Xor
        <4> QED  BY <2>4, <4>1, <4>2
      <3> QED  BY <3>2, <3>3
    <2>7. XorInto(S, B) = [k \in D \cup W |-> Xor(ByteAt(S, k), ByteAt(B, k))]
      BY <2>3, <2>5 DEF XorInto
    <2>8. Sum(size, from, which, i + 1) = [k \in D \cup W |-> Xor(ByteAt(from, k), M(i + 1, k))]
      <3>1. DOMAIN from \cup Width(size, which, i + 1) = D \cup W
        BY <2>2
      <3> QED  BY <3>1 DEF Sum, M
    <2> HIDE DEF D
    <2>9. Sum(size, from, which, i + 1) = XorInto(S, B)
      BY <2>6, <2>7, <2>8
    <2> QED  BY <1>2, <2>9 DEF S, B
  <1> QED  BY <1>1, <1>2

(* So the recursion of Combined has this solution, and only this one. *)
LEMMA CombinedIsSum ==
    ASSUME NEW size \in Nat, NEW which \in SUBSET Fragments(size), NEW from, IsBuffer(from)
    PROVE  Combined(size, from, which) = Sum(size, from, which, FragmentCount(size))
  <1> DEFINE c == FragmentCount(size)
             S(n) == Sum(size, from, which, n)
             next(n, b) == IF n - 1 \in which THEN XorInto(b, FragmentBytes(size, n - 1)) ELSE b
             step(f) == [n \in 0..c |-> IF n = 0 THEN from
                                        ELSE IF n - 1 \in which
                                        THEN XorInto(f[n - 1], FragmentBytes(size, n - 1))
                                        ELSE f[n - 1]]
             g == [n \in 0..c |-> S(n)]
             combined == CHOOSE f : f = step(f)
  <1>1. Combined(size, from, which) = combined[c]
    BY Zenon DEF Combined
  <1>2. c \in Nat
    BY Layout
  <1>3. S(0) = from
    BY NothingSummed
  <1>4. \A n \in 0..c : n # 0 => S(n) = next(n, S(n - 1))
    <2> SUFFICES ASSUME NEW n \in 0..c, n # 0 PROVE S(n) = next(n, S(n - 1))
      OBVIOUS
    <2>1. n - 1 \in 0..c - 1 /\ (n - 1) + 1 = n
      BY <1>2
    <2>2. S((n - 1) + 1) = next(n, S(n - 1))
      BY <2>1, SumGrows
    <2> QED  BY <2>1, <2>2
  <1> HIDE DEF S
  <1>5. \A n \in 0..c : g[n] = IF n = 0 THEN from ELSE next(n, g[n - 1])
    <2> SUFFICES ASSUME NEW n \in 0..c PROVE g[n] = IF n = 0 THEN from ELSE next(n, g[n - 1])
      OBVIOUS
    <2>1. n # 0 => n - 1 \in 0..c
      BY <1>2
    <2> HIDE DEF next
    <2> QED  BY <1>3, <1>4, <2>1
  <1>6. g = step(g)
    <2>1. step(g) = [n \in 0..c |-> IF n = 0 THEN from ELSE next(n, g[n - 1])]
      BY Zenon
    <2>2. g = [n \in 0..c |-> g[n]]
      OBVIOUS
    <2> HIDE DEF g, next, step
    <2> QED  BY <1>5, <2>1, <2>2
  <1> HIDE DEF g
  <1>7. combined = step(combined)
    <2> HIDE DEF step
    <2> QED  BY <1>6, Zenon
  <1> HIDE DEF combined
  <1>8. \A n \in 0..c : combined[n] = IF n = 0 THEN from ELSE next(n, combined[n - 1])
    BY <1>7
  <1> HIDE DEF next, step
  <1>9. \A n \in 0..c : combined[n] = g[n]
    <2> DEFINE T == {n \in 0..c : combined[n] # g[n]}
    <2>1. SUFFICES ASSUME T # {} PROVE FALSE
      OBVIOUS
    <2>2. T \in SUBSET Nat
      BY <1>2
    <2>3. PICK m \in T : \A k \in T : m <= k
      BY <2>1, <2>2, HasLeast
    <2>4. m \in 0..c /\ combined[m] # g[m]
      OBVIOUS
    <2>5. CASE m = 0
      BY <1>5, <1>8, <2>4, <2>5
    <2>6. CASE m # 0
      <3>1. m - 1 \in 0..c /\ ~(m <= m - 1)
        BY <1>2, <2>4, <2>6
      <3> HIDE DEF T
      <3>2. m - 1 \notin T
        BY <2>3, <3>1
      <3>3. combined[m - 1] = g[m - 1]
        BY <3>1, <3>2 DEF T
      <3> QED  BY <1>5, <1>8, <2>4, <2>6, <3>3
    <2> QED  BY <2>5, <2>6
  <1>10. combined[c] = S(c)
    <2>1. c \in 0..c
      BY <1>2
    <2> QED  BY <1>9, <2>1 DEF g
  <1> QED  BY <1>1, <1>10 DEF S

(* The parity is as long as the longest fragment and holds all of them.     *)
LEMMA ParityIsSum ==
    ASSUME NEW size \in Nat
    PROVE  /\ Parity(size) = Sum(size, << >>, Fragments(size), FragmentCount(size))
           /\ IsBuffer(Parity(size))
           /\ \A k : ByteAt(Parity(size), k) = Meeting(size, Fragments(size), FragmentCount(size), k)
           /\ \A i \in Fragments(size) : 0..FragmentSize(size, i) - 1 \subseteq DOMAIN Parity(size)
  <1> DEFINE c == FragmentCount(size)
             F == Fragments(size)
             P == Sum(size, << >>, F, c)
             I(j) == 0..FragmentSize(size, j) - 1
  <1>1. IsBuffer(<< >>)
    BY DEF IsBuffer
  <1>2. Parity(size) = P
    BY <1>1, CombinedIsSum DEF Parity, Fragments
  <1>3. DOMAIN P = Width(size, F, c) /\ P = [k \in DOMAIN P |-> P[k]]
    BY DEF Sum
  <1>4. Width(size, F, c) = UNION {I(j) : j \in F}
    <2>1. \A j \in F : j < c
      BY Layout DEF Fragments
    <2>2. {j \in F : j < c} = F
      BY <2>1
    <2> QED  BY <2>2 DEF Width
  <1>5. \A j : I(j) \subseteq Int
    OBVIOUS
  <1>6. \A k : ByteAt(P, k) = Meeting(size, F, c, k)
    <2> SUFFICES ASSUME NEW k PROVE ByteAt(P, k) = Meeting(size, F, c, k)
      OBVIOUS
    <2>1. ByteAt(P, k) = Xor(ByteAt(<< >>, k), Meeting(size, F, c, k))
      BY SumAtPlace
    <2>2. ByteAt(<< >>, k) = {}
      BY DEF ByteAt
    <2> QED  BY <2>1, <2>2 DEF Xor
  <1> HIDE DEF I, P
  <1>7. DOMAIN P \subseteq Int /\ \A i \in F : I(i) \subseteq DOMAIN P
    BY <1>3, <1>4, <1>5
  <1> QED  BY <1>2, <1>3, <1>6, <1>7 DEF I, P, IsBuffer

(* When all fragments but i have arrived, what is left of the parity is     *)
(* fragment i.                                                              *)
LEMMA LeftIsFragment ==
    ASSUME NEW size \in Nat, NEW i \in Fragments(size), NEW k \in 0..FragmentSize(size, i) - 1
    PROVE  Combined(size, Parity(size), Fragments(size) \ {i})[k] = {i * MaxFragment + k}
  <1> DEFINE c == FragmentCount(size)
             F == Fragments(size)
             P == Parity(size)
             got == F \ {i}
             x == i * MaxFragment + k
             In(j) == j < c /\ k \in 0..FragmentSize(size, j) - 1
  <1>1. Combined(size, P, got) = Sum(size, P, got, c)
    BY ParityIsSum, CombinedIsSum
  <1>2. k \in DOMAIN P /\ k \in DOMAIN Sum(size, P, got, c)
    BY ParityIsSum DEF Sum
  <1>3. Sum(size, P, got, c)[k] = Xor(Meeting(size, F, c, k), Meeting(size, got, c, k))
    <2>1. ByteAt(Sum(size, P, got, c), k) = Xor(ByteAt(P, k), Meeting(size, got, c, k))
      BY SumAtPlace
    <2>2. ByteAt(P, k) = Meeting(size, F, c, k)
      BY ParityIsSum
    <2> QED  BY <1>2, <2>1, <2>2 DEF ByteAt
  <1>4. i \in F /\ In(i)
    BY Layout DEF Fragments
  <1>5. Meeting(size, F, c, k) = Meeting(size, got, c, k) \cup {x}
    <2> DEFINE V(j) == j * MaxFragment + k
    <2>1. Meeting(size, F, c, k) = {V(j) : j \in {m \in F : In(m)}}
          /\ Meeting(size, got, c, k) = {V(j) : j \in {m \in got : In(m)}}
      BY DEF Meeting
    <2>2. {m \in F : In(m)} = {m \in got : In(m)} \cup {i}
      <3> HIDE DEF In, F
      <3> QED  BY <1>4
    <2> HIDE DEF V, In, got, F
    <2> QED  BY <2>1, <2>2 DEF V
  <1>6. x \notin Meeting(size, got, c, k)
    <2>1. MaxFragment \in Nat \ {0} /\ i \in Nat /\ got \subseteq Nat /\ k \in Int
      BY Parameters, Layout DEF Fragments
    <2>2. ASSUME NEW j \in got
          PROVE  j * MaxFragment + k # x
      <3>1. j \in Nat /\ j # i
        BY <2>1
      <3>2. \A y, z \in Nat : y < z => y * MaxFragment < z * MaxFragment
        BY <2>1
      <3>3. \A y \in Nat : y * MaxFragment \in Nat
        BY <2>1
      <3>4. j * MaxFragment \in Nat /\ i * MaxFragment \in Nat
            /\ (j * MaxFragment < i * MaxFragment \/ i * MaxFragment < j * MaxFragment)
        <4>1. j < i \/ i < j
          BY <2>1, <3>1
        <4> QED  BY <2>1, <3>1, <3>2, <3>3, <4>1
      <3> QED  BY <2>1, <3>4
    <2> HIDE DEF got, x
    <2> QED  BY <2>2 DEF Meeting
  <1> HIDE DEF x
  <1>7. Xor(Meeting(size, F, c, k), Meeting(size, got, c, k)) = {x}
    BY <1>5, <1>6 DEF Xor
  <1> QED  BY <1>1, <1>3, <1>7 DEF x

(* What the receiver puts in is the fragment the server sent.               *)
LEMMA PatchIsFragment ==
    ASSUME NEW size \in Nat, NEW i \in Fragments(size),
           Patch(size, Fragments(size) \ {i}) # NoPatch
    PROVE  Patch(size, Fragments(size) \ {i}) =
               [index |-> i, at |-> i * MaxFragment, bytes |-> FragmentBytes(size, i)]
  <1> DEFINE got == Fragments(size) \ {i}
             m == Max((0..FragmentCount(size) - 1) \ got)
             left == Combined(size, Parity(size), got)
  <1>1. m = i
    <2>1. (0..FragmentCount(size) - 1) \ got = {i}
      BY DEF Fragments
    <2>2. i \in Int /\ i >= i
      BY Layout DEF Fragments
    <2> QED  BY <2>1, <2>2 DEF Max
  <1>2. MissingOffset(i) = i * MaxFragment /\ MissingSize(size, i) = FragmentSize(size, i)
        /\ FragmentBytes(size, i) = [k \in 0..FragmentSize(size, i) - 1 |-> {i * MaxFragment + k}]
    BY FragmentPlace DEF Fragments
  <1>3. Patch(size, got) = [index |-> m, at |-> MissingOffset(m),
                            bytes |-> [k \in 0..MissingSize(size, m) - 1 |-> left[k]]]
    BY Zenon DEF Patch
  <1>4. \A k \in 0..FragmentSize(size, i) - 1 : left[k] = {i * MaxFragment + k}
    BY LeftIsFragment
  <1> HIDE DEF left, m
  <1>5. [k \in 0..FragmentSize(size, i) - 1 |-> left[k]] = FragmentBytes(size, i)
    BY <1>2, <1>4
  <1> QED  BY <1>1, <1>2, <1>3, <1>5

(* Of a frame that is not empty, any one fragment is recovered from the     *)
(* parity when the others have arrived: at its place, with its length and   *)
(* its bytes, for every size of frames and fragments.                       *)
THEOREM RecoverySucceeds ==
    ASSUME NEW size \in Nat \ {0}, NEW i \in Fragments(size)
    PROVE  Patch(size, Fragments(size) \ {i}) =
               [index |-> i, at |-> FragmentOffset(i), bytes |-> FragmentBytes(size, i)]
  <1> DEFINE got == Fragments(size) \ {i}
             m == Max((0..FragmentCount(size) - 1) \ got)
             left == Combined(size, Parity(size), got)
  <1>1. m = i
    <2>1. (0..FragmentCount(size) - 1) \ got = {i}
      BY DEF Fragments
    <2>2. i \in Int /\ i >= i
      BY Layout DEF Fragments
    <2> QED  BY <2>1, <2>2 DEF Max
  <1>2. /\ MissingOffset(i) = i * MaxFragment /\ MissingSize(size, i) = FragmentSize(size, i)
        /\ FragmentSize(size, i) \in 0..MaxFragment
        /\ i * MaxFragment \in Nat /\ i * MaxFragment + FragmentSize(size, i) <= size
        /\ size <= i * MaxFragment + FragmentSize(size, i) \/ FragmentSize(size, i) = MaxFragment
    BY FragmentPlace DEF Fragments
  <1>3. MissingSize(size, i) # 0
    <2>1. MaxFragment \in Nat \ {0} /\ i \in Nat /\ FragmentCount(size) \in Nat \ {0}
          /\ i <= FragmentCount(size) - 1 /\ (FragmentCount(size) - 1) * MaxFragment < size
      BY Parameters, Layout DEF Fragments
    <2>2. \A x, y \in Nat : x <= y => x * MaxFragment <= y * MaxFragment
      BY <2>1
    <2>3. FragmentCount(size) - 1 \in Nat
      BY <2>1
    <2>4. i * MaxFragment <= (FragmentCount(size) - 1) * MaxFragment
          /\ (FragmentCount(size) - 1) * MaxFragment \in Nat
      BY <2>1, <2>2, <2>3
    <2> QED  BY <1>2, <2>1, <2>4
  <1>4. MissingSize(size, i) - 1 \in DOMAIN Parity(size)
    <2>1. MissingSize(size, i) - 1 \in 0..FragmentSize(size, i) - 1
      BY <1>2, <1>3
    <2> QED  BY <2>1, ParityIsSum
  <1>5. ~(MissingOffset(i) + MissingSize(size, i) > size)
    BY <1>2
  <1>6. Patch(size, got) # NoPatch
    <2>1. Patch(size, got) = [index |-> m, at |-> MissingOffset(m),
                              bytes |-> [k \in 0..MissingSize(size, m) - 1 |-> left[k]]]
      <3> HIDE DEF left, m
      <3>1. ~(\/ MissingSize(size, m) = 0
              \/ MissingSize(size, m) - 1 \notin DOMAIN Parity(size)
              \/ MissingOffset(m) + MissingSize(size, m) > size)
        BY <1>1, <1>3, <1>4, <1>5
      <3> QED  BY <3>1, Zenon DEF Patch, m, left
    <2>2. i # -1
      BY Layout DEF Fragments
    <2> HIDE DEF left, m
    <2> QED  BY <1>1, <2>1, <2>2 DEF NoPatch
  <1> QED  BY <1>6, PatchIsFragment DEF FragmentOffset

(* Then the frame holds the bytes of the server.                            *)
LEMMA FittingIsNotGarbled ==
    ASSUME NEW a, a.size \in Nat, PatchFits(a)
    PROVE  ~Garbled(a)
  <1>1. CASE a.patch = NoPatch
    BY <1>1 DEF Garbled
  <1>2. ASSUME NEW i \in Fragments(a.size),
               a.patch = [index |-> i, at |-> i * MaxFragment, bytes |-> FragmentBytes(a.size, i)]
        PROVE  ~Garbled(a)
    <2> DEFINE size == a.size
               at == i * MaxFragment
               w == FragmentSize(size, i)
               byte(o) == IF o - a.patch.at \in DOMAIN a.patch.bytes THEN a.patch.bytes[o - a.patch.at]
                          ELSE IF o \div MaxFragment = a.patch.index THEN {} ELSE {o}
    <2>1. /\ w \in 0..MaxFragment /\ at \in Nat /\ at + w <= size
          /\ size <= at + w \/ w = MaxFragment
          /\ FragmentBytes(size, i) = [k \in 0..w - 1 |-> {at + k}]
      BY FragmentPlace DEF Fragments
    <2>2. a.patch.index = i /\ a.patch.at = at /\ a.patch.bytes = [k \in 0..w - 1 |-> {at + k}]
      BY <1>2, <2>1
    <2>3. MaxFragment \in Nat \ {0} /\ i \in Nat
      BY Parameters, Layout DEF Fragments
    <2>4. ASSUME NEW o \in 0..size - 1
          PROVE  byte(o) = {o}
      <3> HIDE DEF w
      <3>1. CASE o - at \in 0..w - 1
        <4>1. byte(o) = {at + (o - at)}
          BY <2>2, <3>1
        <4>2. at + (o - at) = o
          BY <2>1
        <4> QED  BY <4>1, <4>2
      <3>2. CASE o - at \notin 0..w - 1
        <4>1. o < at \/ o >= at + MaxFragment
          BY <2>1, <2>3, <3>2
        <4>2. o \div MaxFragment # i
          <5>1. \A x \in Nat : x \div MaxFragment \in Nat /\ (x \div MaxFragment) * MaxFragment <= x
                               /\ x < (x \div MaxFragment) * MaxFragment + MaxFragment
            BY <2>3
          <5>2. o \in Nat
            BY <2>1
          <5>3. SUFFICES ASSUME o \div MaxFragment = i PROVE FALSE
            OBVIOUS
          <5>4. at <= o /\ o < at + MaxFragment
            BY <5>1, <5>2, <5>3
          <5> QED  BY <2>1, <2>3, <4>1, <5>2, <5>4
        <4>3. o - a.patch.at \notin DOMAIN a.patch.bytes
          BY <2>2, <3>2
        <4> QED  BY <2>2, <4>2, <4>3
      <3> QED  BY <3>1, <3>2
    <2>5. Payload(a) = [o \in 0..size - 1 |-> byte(o)]
      BY DEF Payload
    <2> HIDE DEF byte, size
    <2>6. Payload(a) = [o \in 0..size - 1 |-> {o}]
      BY <2>4, <2>5
    <2> QED  BY <2>6 DEF Garbled, size
  <1> QED  BY <1>1, <1>2 DEF PatchFits

-----------------------------------------------------------------------------
(* Assemblies. *)

LEMMA FragmentsFinite ==
    ASSUME NEW size \in Sizes
    PROVE  IsFiniteSet(Fragments(size))
  <1>1. FragmentCount(size) \in Int
    BY Parameters DEF FragmentCount
  <1> QED  BY <1>1, FS_Interval DEF Fragments

(* The parity puts in the one fragment that is missing. *)
LEMMA RecoveredIsComplete ==
    ASSUME NEW a, IsAssembly(a), Recoverable(a)
    PROVE  IsAssembly(Recovered(a)) /\ Complete(Recovered(a))
  <1>1. PICK x : Missing(a) = {x}
    <2>1. IsFiniteSet(Missing(a))
      BY FragmentsFinite, FS_Subset DEF IsAssembly, Missing
    <2>2. Cardinality(Missing(a)) = 1
      BY DEF Recoverable
    <2> QED  BY <2>1, <2>2, FS_Singleton
  <1>2. Recovery(a) = Patch(a.size, a.got) /\ Recovery(a) # NoPatch
    <2>1. a.got \in SUBSET Fragments(a.size) /\ a.got # Fragments(a.size)
      BY <1>1 DEF IsAssembly, Missing
    <2>2. Recovery(a) = Patch(a.size, a.got)
      <3>1. a.size \in Sizes
        BY DEF IsAssembly
      <3> DEFINE G(n) == (SUBSET Fragments(n)) \ {Fragments(n)}
                 F(n) == [got \in G(n) |-> Patch(n, got)]
      <3>2. a.got \in G(a.size)
        BY <2>1
      <3> HIDE DEF G
      <3>3. F(a.size)[a.got] = Patch(a.size, a.got)
        BY <3>2
      <3> USE DEF G
      <3>4. Patches = [n \in Sizes |-> F(n)]
        BY DEF Patches
      <3> HIDE DEF F
      <3>5. Patches[a.size] = F(a.size)
        BY <3>1, <3>4
      <3> QED  BY <3>3, <3>5 DEF Recovery
    <2> QED  BY <2>2 DEF Recoverable
  <1>3. Recovery(a).index = x
    <2>1. Max(Missing(a)) = x
      <3>1. x \in Int
        BY <1>1, Parameters DEF Missing, Fragments, FragmentCount
      <3>2. x >= x
        BY <3>1
      <3> QED  BY <1>1, <3>2 DEF Max
    <2>2. Recovery(a).index = Max(Missing(a))
      <3> DEFINE M == (0..FragmentCount(a.size) - 1) \ a.got
      <3>1. \/ Patch(a.size, a.got) = NoPatch
            \/ Patch(a.size, a.got).index = Max(M)
        BY Zenon DEF Patch
      <3>2. M = Missing(a)
        BY DEF Missing, Fragments
      <3> HIDE DEF M
      <3> QED  BY <1>2, <3>1, <3>2
    <2> QED  BY <2>1, <2>2
  <1>4. /\ DOMAIN Recovered(a) = DOMAIN a
        /\ Recovered(a).size = a.size /\ Recovered(a).attempts = a.attempts
        /\ Recovered(a).got = a.got \cup {x} /\ Recovered(a).patch = Recovery(a)
    BY <1>3 DEF Recovered, IsAssembly, NewAssembly
  <1>5. Fragments(a.size) = a.got \cup {x}
    BY <1>1 DEF Missing, IsAssembly
  <1>6. IsAssembly(Recovered(a))
    <2>1. a.size \in Nat /\ x \in Fragments(a.size) /\ a.got = Fragments(a.size) \ {x}
      BY <1>1, Parameters DEF Missing, IsAssembly
    <2>2. Recovery(a) = [index |-> x, at |-> x * MaxFragment, bytes |-> FragmentBytes(a.size, x)]
      BY <1>2, <2>1, PatchIsFragment
    <2>3. PatchFits(Recovered(a))
      BY <1>4, <2>1, <2>2 DEF PatchFits
    <2> QED  BY <1>4, <1>5, <2>3 DEF IsAssembly
  <1>7. Complete(Recovered(a))
    BY <1>4, <1>5 DEF Complete, Missing
  <1> QED  BY <1>6, <1>7

(* A complete frame is not recovered again. *)
LEMMA CompleteIsNotRecoverable ==
    ASSUME NEW a, Complete(a)
    PROVE  ~Recoverable(a)
  BY FS_EmptySet DEF Complete, Recoverable

LEMMA NewIsAssembly ==
    ASSUME NEW size \in Sizes
    PROVE  IsAssembly(NewAssembly(size)) /\ NewAssembly(size).size = size
  BY Parameters DEF IsAssembly, NewAssembly, PatchFits

Valid == {d \in Datagrams : d.role # "invalid"}

LEMMA ValidDatagram ==
    ASSUME NEW d \in Valid
    PROVE  /\ d.seq \in Seqs /\ d.size \in Sizes /\ d.role \in {"data", "parity"}
           /\ d.role = "data" => d.index \in Fragments(d.size)
  <1> DEFINE D == UNION {DataOf(s, n) : s \in Seqs, n \in Sizes}
             P == [seq : Seqs, size : {n \in Sizes : FragmentCount(n) > 1}, role : {"parity"}]
  <1>1. d \in D \/ d \in P
    <2>1. d \in Datagrams /\ d.role # "invalid"
      BY DEF Valid
    <2>2. Datagrams = D \cup P \cup {[role |-> "invalid"]}
      BY DEF Datagrams
    <2> HIDE DEF D, P
    <2> QED  BY <2>1, <2>2
  <1>2. CASE d \in D
    <2>1. PICK s \in Seqs, n \in Sizes : d \in DataOf(s, n)
      BY <1>2
    <2>2. PICK i \in Fragments(n) : d = [seq |-> s, size |-> n, role |-> "data", index |-> i]
      BY <2>1, Zenon DEF DataOf
    <2> QED  BY <2>2
  <1>3. CASE d \in P
    BY <1>3
  <1> QED  BY <1>1, <1>2, <1>3

(* A datagram of the layout of an assembly leaves an assembly. *)
LEMMA AcceptedIsAssembly ==
    ASSUME NEW a, IsAssembly(a), NEW d \in Valid, d.size = a.size
    PROVE  IsAssembly(AfterAccept(a, d))
  <1>1. IsAssembly(Accept(a, d))
    <2>1. CASE d.role = "parity"
      <3>1. Accept(a, d) = [a EXCEPT !.parity = a.parity \/ FecOn, !.lastAge = 0]
        BY <2>1, Zenon DEF Accept
      <3>2. /\ DOMAIN Accept(a, d) = DOMAIN a /\ Accept(a, d).size = a.size
            /\ Accept(a, d).got = a.got /\ Accept(a, d).attempts = a.attempts
            /\ Accept(a, d).patch = a.patch
        BY <3>1 DEF IsAssembly, NewAssembly
      <3> QED  BY <3>2 DEF IsAssembly, PatchFits
    <2>2. CASE d.role = "data" /\ d.index \in a.got
      BY <2>2 DEF Accept
    <2>3. CASE d.role = "data" /\ d.index \notin a.got
      <3>1. Accept(a, d) = [a EXCEPT !.got = @ \cup {d.index}, !.lastAge = 0]
        BY <2>3 DEF Accept
      <3>2. /\ DOMAIN Accept(a, d) = DOMAIN a /\ Accept(a, d).size = a.size
            /\ Accept(a, d).got = a.got \cup {d.index} /\ Accept(a, d).attempts = a.attempts
            /\ Accept(a, d).patch = a.patch
        BY <3>1 DEF IsAssembly, NewAssembly
      <3>3. d.index \in Fragments(a.size)
        BY <2>3, ValidDatagram
      <3> QED  BY <3>2, <3>3 DEF IsAssembly, PatchFits
    <2> QED  BY <2>1, <2>2, <2>3, ValidDatagram
  <1> QED  BY <1>1, RecoveredIsComplete DEF AfterAccept

-----------------------------------------------------------------------------
(* The parts of the UDP state. *)

(* Replacing the assembly table by one without remembered frames. *)
LEMMA OtherTable ==
    ASSUME NEW r, NEW dl, Good(r, dl), NEW f,
           DOMAIN f \subseteq Seqs, \A s \in DOMAIN f : IsAssembly(f[s]),
           DOMAIN f \cap ToSet(r.recent) = {}
    PROVE  /\ Good([r EXCEPT !.asm = f], dl)
           /\ [r EXCEPT !.asm = f].asm = f
           /\ [r EXCEPT !.asm = f].recent = r.recent
  <1> DEFINE q == [r EXCEPT !.asm = f]
  <1>1. DOMAIN r = {"asm", "buf", "next", "recent", "garbled"}
    BY DEF Good, Shaped
  <1>2. /\ DOMAIN q = DOMAIN r /\ q.asm = f /\ q.buf = r.buf
        /\ q.next = r.next /\ q.recent = r.recent /\ q.garbled = r.garbled
    BY <1>1
  <1> HIDE DEF q
  <1>3. Shaped(q)
    BY <1>2 DEF Good, Shaped
  <1>4. Kept(q, dl)
    BY <1>2 DEF Good, Kept
  <1> QED  BY <1>2, <1>3, <1>4 DEF Good, q

(* A table that keeps some assemblies and may change them. *)
LEMMA SameFrames ==
    ASSUME NEW r, NEW dl, Good(r, dl), NEW f,
           DOMAIN f \subseteq DOMAIN r.asm, \A s \in DOMAIN f : IsAssembly(f[s])
    PROVE  /\ Good([r EXCEPT !.asm = f], dl)
           /\ [r EXCEPT !.asm = f].asm = f
           /\ [r EXCEPT !.asm = f].recent = r.recent
  <1>1. DOMAIN f \subseteq Seqs
    BY DEF Good, Shaped
  <1>2. DOMAIN f \cap ToSet(r.recent) = {}
    BY DEF Good, Kept
  <1> QED  BY <1>1, <1>2, OtherTable

LEMMA EraseKeeps ==
    ASSUME NEW f, NEW S
    PROVE  /\ DOMAIN Erase(f, S) = DOMAIN f \ S
           /\ \A x \in DOMAIN f \ S : Erase(f, S)[x] = f[x]
  BY DEF Erase, Restrict

LEMMA PutAdds ==
    ASSUME NEW f, NEW x, NEW v
    PROVE  /\ DOMAIN Put(f, x, v) = DOMAIN f \cup {x}
           /\ Put(f, x, v)[x] = v
           /\ \A y \in DOMAIN f \ {x} : Put(f, x, v)[y] = f[y]
  BY DEF Put

LEMMA EraseIsGood ==
    ASSUME NEW r, NEW dl, Good(r, dl), NEW S
    PROVE  /\ Good([r EXCEPT !.asm = Erase(@, S)], dl)
           /\ [r EXCEPT !.asm = Erase(@, S)].recent = r.recent
           /\ [r EXCEPT !.asm = Erase(@, S)].asm = Erase(r.asm, S)
           /\ CompleteIn([r EXCEPT !.asm = Erase(@, S)]) = CompleteIn(r) \ S
           /\ Ready([r EXCEPT !.asm = Erase(@, S)]) = Ready(r) \ S
  <1> DEFINE f == Erase(r.asm, S)
             q == [r EXCEPT !.asm = f]
  <1>1. DOMAIN f = DOMAIN r.asm \ S /\ \A s \in DOMAIN f : f[s] = r.asm[s]
    <2>1. DOMAIN f = DOMAIN r.asm \ S
      BY EraseKeeps
    <2>2. \A s \in DOMAIN r.asm \ S : f[s] = r.asm[s]
      BY EraseKeeps
    <2> HIDE DEF f
    <2> QED  BY <2>1, <2>2
  <1> HIDE DEF f
  <1>2. \A s \in DOMAIN f : IsAssembly(f[s])
    BY <1>1 DEF Good, Shaped
  <1>3. Good(q, dl) /\ q.asm = f /\ q.recent = r.recent
    BY <1>1, <1>2, SameFrames
  <1> HIDE DEF q
  <1>4. CompleteIn(q) = CompleteIn(r) \ S
    BY <1>1, <1>3 DEF CompleteIn
  <1>5. Ready(q) = Ready(r) \ S
    BY <1>1, <1>3 DEF Ready
  <1> QED  BY <1>3, <1>4, <1>5 DEF q, f

LEMMA PrunedIsGood ==
    ASSUME NEW r, NEW dl, Good(r, dl)
    PROVE  /\ Good(PruneExpiredUdpAssemblies(r), dl)
           /\ CompleteIn(PruneExpiredUdpAssemblies(r)) \subseteq CompleteIn(r)
           /\ Ready(PruneExpiredUdpAssemblies(r)) \subseteq Ready(r)
           /\ PruneExpiredUdpAssemblies(r).recent = r.recent
  <1> DEFINE S == {s \in DOMAIN r.asm : r.asm[s].lastAge > AssemblyTimeout}
  <1>1. PruneExpiredUdpAssemblies(r) = [r EXCEPT !.asm = Erase(@, S)]
    BY DEF PruneExpiredUdpAssemblies
  <1> HIDE DEF S
  <1> QED  BY <1>1, EraseIsGood

(* Asking for fragments again changes no assembly but for when and how      *)
(* often it was asked for.                                                  *)
LEMMA NackedIsGood ==
    ASSUME NEW r, NEW dl, Good(r, dl), NEW ok
    PROVE  /\ Good(MaybeSendUdpNackRequests(r, ok), dl)
           /\ CompleteIn(MaybeSendUdpNackRequests(r, ok)) = CompleteIn(r)
  <1> DEFINE g(a) == IF NackOn /\ NackDue(a) /\ ok
                     THEN Asked(a) ELSE a
             f == [s \in DOMAIN r.asm |-> g(r.asm[s])]
             q == [r EXCEPT !.asm = f]
  <1>1. MaybeSendUdpNackRequests(r, ok) = q
    BY Zenon DEF MaybeSendUdpNackRequests
  <1>2. ASSUME NEW a, IsAssembly(a)
        PROVE  IsAssembly(g(a)) /\ Complete(g(a)) = Complete(a)
    <2>1. CASE NackOn /\ NackDue(a) /\ ok
      <3>1. a.attempts < NackMaxRetries
        BY <2>1 DEF NackDue
      <3>2. g(a) = Asked(a)
        BY <2>1
      <3> HIDE DEF g
      <3>3. /\ DOMAIN g(a) = DOMAIN a /\ g(a).size = a.size /\ g(a).got = a.got
            /\ g(a).attempts = a.attempts + 1 /\ g(a).patch = a.patch
        BY <1>2, <3>2 DEF Asked, IsAssembly, NewAssembly
      <3>4. a.attempts + 1 \in 0..NackMaxRetries
        BY <1>2, <3>1, Parameters DEF IsAssembly
      <3>5. IsAssembly(g(a))
        BY <1>2, <3>3, <3>4 DEF IsAssembly, PatchFits
      <3>6. Complete(g(a)) = Complete(a)
        BY <3>3 DEF Complete, Missing
      <3> QED  BY <3>5, <3>6
    <2>2. CASE ~(NackOn /\ NackDue(a) /\ ok)
      <3>1. g(a) = a
        BY <2>2
      <3> QED  BY <1>2, <3>1
    <2> QED  BY <2>1, <2>2
  <1> HIDE DEF g
  <1>3. DOMAIN f = DOMAIN r.asm /\ \A s \in DOMAIN f : f[s] = g(r.asm[s])
    OBVIOUS
  <1>4. \A s \in DOMAIN r.asm : IsAssembly(r.asm[s])
    BY DEF Good, Shaped
  <1> HIDE DEF f
  <1>5. Good(q, dl) /\ q.asm = f
    BY <1>2, <1>3, <1>4, SameFrames
  <1> HIDE DEF q
  <1>6. CompleteIn(q) = CompleteIn(r)
    BY <1>2, <1>3, <1>4, <1>5 DEF CompleteIn
  <1> QED  BY <1>1, <1>5, <1>6

-----------------------------------------------------------------------------
(* The jitter buffer. *)

LEMMA OtherNext ==
    ASSUME NEW r, NEW dl, Good(r, dl), NEW n \in 0..MaxSeq + 1
    PROVE  Good([r EXCEPT !.next = n], dl) /\ [r EXCEPT !.next = n].asm = r.asm
  <1> DEFINE q == [r EXCEPT !.next = n]
  <1>1. DOMAIN r = {"asm", "buf", "next", "recent", "garbled"}
    BY DEF Good, Shaped
  <1>2. /\ DOMAIN q = DOMAIN r /\ q.asm = r.asm /\ q.buf = r.buf
        /\ q.next = n /\ q.recent = r.recent /\ q.garbled = r.garbled
    BY <1>1
  <1> HIDE DEF q
  <1>3. Shaped(q)
    BY <1>2 DEF Good, Shaped
  <1>4. Kept(q, dl)
    BY <1>2 DEF Good, Kept
  <1> QED  BY <1>2, <1>3, <1>4 DEF Good, q

(* A frame that leaves the buffer is one that was never returned. *)
LEMMA PopAtIsGood ==
    ASSUME NEW r, NEW dl, Good(r, dl), NEW s \in DOMAIN r.buf
    PROVE  GoodCall(PopAt(r, s), dl) /\ PopAt(r, s).rx.asm = r.asm
  <1> DEFINE left == Erase(r.buf, {s})
             n == IF DOMAIN left = {} THEN NoSeq ELSE s + 1
             q == [r EXCEPT !.buf = left, !.next = n]
  <1>1. PopAt(r, s) = [rx |-> q, out |-> s]
    BY DEF PopAt
  <1>2. DOMAIN left = DOMAIN r.buf \ {s}
    BY EraseKeeps
  <1>3. s \in Seqs /\ s \in 1..MaxSeq /\ s # NoSeq /\ n \in 0..MaxSeq + 1
    BY Parameters DEF Good, Shaped, Seqs, NoSeq
  <1> HIDE DEF n, left
  <1>4. DOMAIN r = {"asm", "buf", "next", "recent", "garbled"}
    BY DEF Good, Shaped
  <1>5. /\ DOMAIN q = DOMAIN r /\ q.asm = r.asm /\ q.buf = left
        /\ q.next = n /\ q.recent = r.recent /\ q.garbled = r.garbled
    BY <1>4
  <1> HIDE DEF q
  <1>6. Shaped(q)
    BY <1>2, <1>3, <1>5 DEF Good, Shaped
  <1>7. Append(dl, s) \in Seq(Seqs) /\ ToSet(Append(dl, s)) = ToSet(dl) \cup {s}
    BY <1>3, AppendMembers DEF Good
  <1>8. Kept(q, Append(dl, s))
    <2>1. DOMAIN q.asm \cap ToSet(q.recent) = {}
      BY <1>5 DEF Good, Kept
    <2>2. ASSUME MaxSeq <= Window
          PROVE  /\ ToSet(q.recent) = ToSet(Append(dl, s)) \cup DOMAIN q.buf
                 /\ ToSet(Append(dl, s)) \cap DOMAIN q.buf = {}
                 /\ IsInjective(Append(dl, s))
                 /\ IsInjective(q.recent)
      <3>1. /\ ToSet(r.recent) = ToSet(dl) \cup DOMAIN r.buf
            /\ ToSet(dl) \cap DOMAIN r.buf = {}
            /\ IsInjective(dl) /\ IsInjective(r.recent)
        BY <2>2 DEF Good, Kept
      <3>2. IsInjective(Append(dl, s))
        BY <1>3, <3>1, AppendMembers DEF Good
      <3>3. DOMAIN q.buf = DOMAIN r.buf \ {s}
        BY <1>2, <1>5
      <3> QED  BY <1>5, <1>7, <3>1, <3>2, <3>3
    <2> QED  BY <2>1, <2>2 DEF Kept
  <1>9. Good(q, Append(dl, s))
    BY <1>6, <1>7, <1>8 DEF Good
  <1>10. /\ PopAt(r, s).rx = q /\ PopAt(r, s).out = s
         /\ After(dl, s) = Append(dl, s)
    BY <1>1, <1>3 DEF After
  <1> QED  BY <1>3, <1>5, <1>9, <1>10 DEF GoodCall

LEMMA NothingReturned ==
    ASSUME NEW q, NEW dl, Good(q, dl)
    PROVE  /\ GoodCall([rx |-> q, out |-> NoSeq], dl)
           /\ [rx |-> q, out |-> NoSeq].rx = q
  BY Parameters DEF GoodCall, After, NoSeq

LEMMA TryPopIsGood ==
    ASSUME NEW r, NEW dl, Good(r, dl), NEW delay
    PROVE  /\ GoodCall(TryPopReadyUdpFrame(r, delay), dl)
           /\ TryPopReadyUdpFrame(r, delay).rx.asm = r.asm
  <1>1. CASE ~jitterOn \/ DOMAIN r.buf = {}
    <2>1. TryPopReadyUdpFrame(r, delay) = [rx |-> r, out |-> NoSeq]
      BY <1>1 DEF TryPopReadyUdpFrame
    <2> QED  BY <2>1, NothingReturned
  <1>2. CASE ~(~jitterOn \/ DOMAIN r.buf = {})
    <2> DEFINE oldest   == Min(DOMAIN r.buf)
               next     == IF r.next = NoSeq THEN oldest ELSE r.next
               expected == IF next \in DOMAIN r.buf THEN next ELSE oldest
               base     == [r EXCEPT !.next = next]
               holds    == next \notin DOMAIN r.buf /\ ~SkipMissing(r, oldest)
    <2>1. TryPopReadyUdpFrame(r, delay) =
             IF holds THEN [rx |-> base, out |-> NoSeq]
             ELSE IF ~Due(r, expected, delay)
                  THEN [rx |-> [r EXCEPT !.next = expected], out |-> NoSeq]
                  ELSE PopAt(r, expected)
      BY <1>2, Zenon DEF TryPopReadyUdpFrame
    <2>2. oldest \in DOMAIN r.buf /\ DOMAIN r.buf \subseteq Seqs
      BY <1>2, MinIsMember DEF Good, Shaped
    <2> HIDE DEF oldest
    <2>3. /\ next \in 0..MaxSeq + 1 /\ expected \in DOMAIN r.buf
          /\ expected \in 0..MaxSeq + 1
      BY <2>2, Parameters DEF Good, Shaped, Seqs
    <2> HIDE DEF next, expected, holds
    <2>4. Good(base, dl) /\ base.asm = r.asm
      BY <2>3, OtherNext
    <2>5. /\ Good([r EXCEPT !.next = expected], dl)
          /\ [r EXCEPT !.next = expected].asm = r.asm
      BY <2>3, OtherNext
    <2>6. GoodCall(PopAt(r, expected), dl) /\ PopAt(r, expected).rx.asm = r.asm
      BY <2>3, PopAtIsGood
    <2> HIDE DEF base
    <2>7. CASE holds
      BY <2>1, <2>4, <2>7, NothingReturned
    <2>8. CASE ~holds /\ ~Due(r, expected, delay)
      BY <2>1, <2>5, <2>8, NothingReturned
    <2>9. CASE ~holds /\ Due(r, expected, delay)
      BY <2>1, <2>6, <2>9
    <2> QED  BY <2>7, <2>8, <2>9
  <1> QED  BY <1>1, <1>2

-----------------------------------------------------------------------------
(* A frame that is complete. *)

(* The window takes in a frame it does not know; one that is as long as     *)
(* there are frames never forgets another for it.                           *)
LEMMA Remembered ==
    ASSUME NEW q \in Seq(Seqs), Len(q) <= Window, NEW s \in Seqs, s \notin ToSet(q)
    PROVE  /\ RememberCompleted(q, s) \in Seq(Seqs) /\ Len(RememberCompleted(q, s)) <= Window
           /\ ToSet(RememberCompleted(q, s)) \subseteq ToSet(q) \cup {s}
           /\ MaxSeq <= Window /\ IsInjective(q)
                 => /\ IsInjective(RememberCompleted(q, s))
                    /\ ToSet(RememberCompleted(q, s)) = ToSet(q) \cup {s}
  <1> DEFINE L == Append(q, s)
  <1>1. /\ L \in Seq(Seqs) /\ Len(L) = Len(q) + 1 /\ Len(q) \in Nat
        /\ ToSet(L) = ToSet(q) \cup {s}
        /\ IsInjective(q) => IsInjective(L)
    BY AppendMembers
  <1> HIDE DEF L
  <1>2. RememberCompleted(q, s) = IF Len(L) > Window THEN Tail(L) ELSE L
    BY DEF RememberCompleted, L
  <1>3. CASE Len(L) > Window
    <2>1. L # << >>
      BY <1>1
    <2>2. Tail(L) \in Seq(Seqs) /\ Len(Tail(L)) = Len(L) - 1
      BY <1>1, <2>1, HeadTailProperties
    <2>3. \A i \in 1..Len(Tail(L)) : Tail(L)[i] = L[i + 1]
      BY <1>1, <2>1, <2>2
    <2>4. ToSet(Tail(L)) \subseteq ToSet(L)
      BY <1>1, <2>2, <2>3 DEF ToSet
    <2>5. Len(Tail(L)) <= Window
      BY <1>1, <2>2, Parameters
    <2>6. ~(MaxSeq <= Window /\ IsInjective(q))
      BY <1>1, <1>3, ShorterWithout, Parameters
    <2> QED  BY <1>1, <1>2, <1>3, <2>2, <2>4, <2>5, <2>6
  <1>4. CASE ~(Len(L) > Window)
    BY <1>1, <1>2, <1>4, Parameters
  <1> QED  BY <1>3, <1>4

(* Completing a frame that is in the table and not yet remembered; it is    *)
(* then returned or buffered.                                               *)
LEMMA CompletedIsShaped ==
    ASSUME NEW r, NEW dl, Good(r, dl), NEW s \in DOMAIN r.asm
    PROVE  /\ Shaped(Completed(r, s))
           /\ Completed(r, s).buf = r.buf
           /\ DOMAIN Completed(r, s).asm = DOMAIN r.asm \ {s}
           /\ \A x \in DOMAIN r.asm \ {s} : Completed(r, s).asm[x] = r.asm[x]
           /\ Completed(r, s).recent = RememberCompleted(r.recent, s)
           /\ s \in Seqs /\ s \notin ToSet(r.recent)
  <1> DEFINE q == Completed(r, s)
             f == Erase(r.asm, {s})
             m == RememberCompleted(r.recent, s)
  <1>1. DOMAIN r = {"asm", "buf", "next", "recent", "garbled"}
    BY DEF Good, Shaped
  <1>2. s \in Seqs /\ s \notin ToSet(r.recent)
    BY DEF Good, Shaped, Kept
  <1>3. /\ DOMAIN q = DOMAIN r /\ q.asm = f /\ q.buf = r.buf
        /\ q.next = r.next /\ q.recent = m
        /\ q.garbled = IF Garbled(r.asm[s]) THEN r.garbled \cup {s} ELSE r.garbled
    BY <1>1 DEF Completed
  <1>4. m \in Seq(Seqs) /\ Len(m) <= Window
    BY <1>2, Remembered DEF Good, Shaped
  <1>5. /\ DOMAIN f = DOMAIN r.asm \ {s}
        /\ \A x \in DOMAIN r.asm \ {s} : f[x] = r.asm[x]
    BY EraseKeeps
  <1> HIDE DEF q, f, m
  <1>6. IsAssembly(r.asm[s]) /\ r.garbled = {}
    BY DEF Good, Shaped
  <1>7. ~Garbled(r.asm[s])
    <2>1. r.asm[s].size \in Nat /\ PatchFits(r.asm[s])
      BY <1>6, Parameters DEF IsAssembly
    <2> QED  BY <2>1, FittingIsNotGarbled
  <1>8. q.garbled = {}
    BY <1>3, <1>6, <1>7
  <1>9. Shaped(q)
    BY <1>3, <1>4, <1>5, <1>8 DEF Good, Shaped
  <1> QED  BY <1>2, <1>3, <1>5, <1>9 DEF q, m

(* The window after it, against the frames returned or waiting.             *)
LEMMA CompletedIsRemembered ==
    ASSUME NEW r, NEW dl, Good(r, dl), NEW s \in DOMAIN r.asm
    PROVE  /\ DOMAIN Completed(r, s).asm \cap ToSet(Completed(r, s).recent) = {}
           /\ MaxSeq <= Window =>
                 /\ ToSet(Completed(r, s).recent) = ToSet(dl) \cup DOMAIN r.buf \cup {s}
                 /\ ToSet(dl) \cap DOMAIN r.buf = {}
                 /\ s \notin ToSet(dl) /\ s \notin DOMAIN r.buf
                 /\ IsInjective(dl)
                 /\ IsInjective(Completed(r, s).recent)
  <1> DEFINE q == Completed(r, s)
  <1>1. /\ DOMAIN q.asm = DOMAIN r.asm \ {s} /\ q.recent = RememberCompleted(r.recent, s)
        /\ s \in Seqs /\ s \notin ToSet(r.recent)
    BY CompletedIsShaped
  <1>2. /\ ToSet(q.recent) \subseteq ToSet(r.recent) \cup {s}
        /\ MaxSeq <= Window /\ IsInjective(r.recent)
              => IsInjective(q.recent) /\ ToSet(q.recent) = ToSet(r.recent) \cup {s}
    BY <1>1, Remembered DEF Good, Shaped
  <1> HIDE DEF q
  <1>3. DOMAIN q.asm \cap ToSet(q.recent) = {}
    BY <1>1, <1>2 DEF Good, Kept
  <1>4. ASSUME MaxSeq <= Window
        PROVE  /\ ToSet(q.recent) = ToSet(dl) \cup DOMAIN r.buf \cup {s}
               /\ ToSet(dl) \cap DOMAIN r.buf = {}
               /\ s \notin ToSet(dl) /\ s \notin DOMAIN r.buf
               /\ IsInjective(dl)
               /\ IsInjective(q.recent)
    <2>1. /\ ToSet(r.recent) = ToSet(dl) \cup DOMAIN r.buf
          /\ ToSet(dl) \cap DOMAIN r.buf = {}
          /\ IsInjective(dl) /\ IsInjective(r.recent)
      BY <1>4 DEF Good, Kept
    <2> QED  BY <1>1, <1>2, <1>4, <2>1
  <1> QED  BY <1>3, <1>4 DEF q

(* Without the jitter buffer the frame is returned.                         *)
LEMMA ReturnedIsGood ==
    ASSUME NEW r, NEW dl, Good(r, dl), NEW s \in DOMAIN r.asm
    PROVE  GoodCall([rx |-> Completed(r, s), out |-> s], dl)
  <1> DEFINE q == Completed(r, s)
             d == Append(dl, s)
  <1>1. s \in Seqs /\ s # NoSeq /\ s \in 0..MaxSeq /\ Shaped(q) /\ q.buf = r.buf
    BY CompletedIsShaped, Parameters DEF Seqs, NoSeq
  <1>2. /\ d \in Seq(Seqs) /\ ToSet(d) = ToSet(dl) \cup {s}
        /\ IsInjective(dl) /\ s \notin ToSet(dl) => IsInjective(d)
    BY <1>1, AppendMembers DEF Good
  <1>3. /\ DOMAIN q.asm \cap ToSet(q.recent) = {}
        /\ MaxSeq <= Window =>
              /\ ToSet(q.recent) = ToSet(dl) \cup DOMAIN r.buf \cup {s}
              /\ ToSet(dl) \cap DOMAIN r.buf = {}
              /\ s \notin ToSet(dl) /\ s \notin DOMAIN r.buf
              /\ IsInjective(dl)
              /\ IsInjective(q.recent)
    BY CompletedIsRemembered
  <1> HIDE DEF q, d
  <1>4. Kept(q, d)
    BY <1>1, <1>2, <1>3 DEF Kept
  <1>5. Good(q, d)
    BY <1>1, <1>2, <1>4 DEF Good
  <1>6. After(dl, s) = d
    BY <1>1 DEF After, d
  <1> QED  BY <1>1, <1>5, <1>6 DEF GoodCall, q

(* With it the frame waits.                                                 *)
LEMMA BufferedIsGood ==
    ASSUME NEW r, NEW dl, Good(r, dl), NEW s \in DOMAIN r.asm
    PROVE  /\ Good(Buffered(Completed(r, s), s), dl)
           /\ Buffered(Completed(r, s), s).asm = Completed(r, s).asm
  <1> DEFINE c == Completed(r, s)
             b == IF s \in DOMAIN c.buf THEN c.buf ELSE Put(c.buf, s, 0)
             q == [c EXCEPT !.buf = b]
  <1>1. Buffered(c, s) = q
    BY Zenon DEF Buffered
  <1>2. s \in Seqs /\ Shaped(c) /\ c.buf = r.buf
    BY CompletedIsShaped
  <1>3. DOMAIN b = DOMAIN r.buf \cup {s}
    <2> HIDE DEF c
    <2>1. DOMAIN Put(c.buf, s, 0) = DOMAIN c.buf \cup {s}
      BY PutAdds
    <2>2. CASE s \in DOMAIN c.buf
      BY <1>2, <2>2
    <2>3. CASE s \notin DOMAIN c.buf
      BY <1>2, <2>1, <2>3
    <2> QED  BY <2>2, <2>3
  <1>4. /\ DOMAIN c.asm \cap ToSet(c.recent) = {}
        /\ MaxSeq <= Window =>
              /\ ToSet(c.recent) = ToSet(dl) \cup DOMAIN r.buf \cup {s}
              /\ ToSet(dl) \cap DOMAIN r.buf = {}
              /\ s \notin ToSet(dl) /\ s \notin DOMAIN r.buf
              /\ IsInjective(dl)
              /\ IsInjective(c.recent)
    BY CompletedIsRemembered
  <1> HIDE DEF b, c
  <1>5. /\ DOMAIN q = DOMAIN c /\ q.asm = c.asm /\ q.buf = b
        /\ q.next = c.next /\ q.recent = c.recent /\ q.garbled = c.garbled
    BY <1>2 DEF Shaped
  <1> HIDE DEF q
  <1>6. Shaped(q)
    BY <1>2, <1>3, <1>5 DEF Shaped
  <1>7. Kept(q, dl)
    BY <1>3, <1>4, <1>5 DEF Kept
  <1>8. Good(q, dl)
    BY <1>6, <1>7 DEF Good
  <1> QED  BY <1>1, <1>5, <1>8 DEF c


(* The whole call: nothing but the frame leaves the table, and what it      *)
(* returns was never returned before.                                       *)
LEMMA FinalizeIsGood ==
    ASSUME NEW r, NEW dl, Good(r, dl), NEW s \in DOMAIN r.asm, NEW defer \in BOOLEAN, NEW env
    PROVE  /\ GoodCall(FinalizeCompletedUdpFrame(r, s, defer, env), dl)
           /\ CompleteIn(FinalizeCompletedUdpFrame(r, s, defer, env).rx) = CompleteIn(r) \ {s}
           /\ defer /\ jitterOn => FinalizeCompletedUdpFrame(r, s, defer, env).out = NoSeq
           /\ ~jitterOn => FinalizeCompletedUdpFrame(r, s, defer, env).out # NoSeq
           /\ defer => Ready(FinalizeCompletedUdpFrame(r, s, defer, env).rx) \subseteq Ready(r)
  <1> DEFINE done == Completed(r, s)
             kept == Buffered(done, s)
             res  == FinalizeCompletedUdpFrame(r, s, defer, env)
             sent == MaybeSendUdpNackRequests(kept, env.ok)
             pop  == TryPopReadyUdpFrame(sent, env.delay)
  <1>1. /\ ~jitterOn => res = [rx |-> done, out |-> s]
        /\ jitterOn /\ defer => res = [rx |-> kept, out |-> NoSeq]
        /\ jitterOn /\ ~defer => res = pop
    BY DEF FinalizeCompletedUdpFrame
  <1>2. /\ DOMAIN done.asm = DOMAIN r.asm \ {s} /\ s \in Seqs
        /\ \A x \in DOMAIN r.asm \ {s} : done.asm[x] = r.asm[x]
    BY CompletedIsShaped
  <1>3. GoodCall([rx |-> done, out |-> s], dl)
    BY ReturnedIsGood
  <1>4. Good(kept, dl) /\ kept.asm = done.asm
    BY BufferedIsGood
  <1>5. s # NoSeq
    BY <1>2, Parameters DEF Seqs, NoSeq
  <1> HIDE DEF done, kept
  <1>6. CompleteIn(done) = CompleteIn(r) \ {s} /\ Ready(done) = Ready(r) \ {s}
    BY <1>2 DEF CompleteIn, Ready
  <1>7. CompleteIn(kept) = CompleteIn(done) /\ Ready(kept) = Ready(done)
    BY <1>4 DEF CompleteIn, Ready
  <1>8. Good(sent, dl) /\ CompleteIn(sent) = CompleteIn(kept)
    BY <1>4, NackedIsGood
  <1> HIDE DEF sent
  <1>9. GoodCall(pop, dl) /\ pop.rx.asm = sent.asm
    BY <1>8, TryPopIsGood
  <1>10. CompleteIn(pop.rx) = CompleteIn(sent)
    BY <1>9 DEF CompleteIn
  <1>11. GoodCall([rx |-> kept, out |-> NoSeq], dl)
    BY <1>4, NothingReturned
  <1> HIDE DEF res, pop
  <1>12. CASE ~jitterOn
    <2>1. res = [rx |-> done, out |-> s]
      BY <1>1, <1>12, Zenon
    <2>2. GoodCall(res, dl) /\ res.rx = done /\ res.out = s
      BY <1>3, <2>1
    <2>3. CompleteIn(res.rx) = CompleteIn(r) \ {s} /\ Ready(res.rx) \subseteq Ready(r)
      BY <1>6, <2>2
    <2> QED  BY <1>5, <1>12, <2>2, <2>3, Zenon DEF res
  <1>13. CASE jitterOn /\ defer
    <2>1. res = [rx |-> kept, out |-> NoSeq]
      BY <1>1, <1>13, Zenon
    <2>2. GoodCall(res, dl) /\ res.rx = kept /\ res.out = NoSeq
      BY <1>11, <2>1
    <2>3. CompleteIn(res.rx) = CompleteIn(r) \ {s} /\ Ready(res.rx) \subseteq Ready(r)
      BY <1>6, <1>7, <2>2
    <2> QED  BY <1>13, <2>2, <2>3, Zenon DEF res
  <1>14. CASE jitterOn /\ ~defer
    <2>1. res = pop
      BY <1>1, <1>14, Zenon
    <2>2. CompleteIn(res.rx) = CompleteIn(r) \ {s}
      BY <1>6, <1>7, <1>8, <1>10, <2>1
    <2> QED  BY <1>9, <1>14, <2>1, <2>2, Zenon DEF res
  <1> QED  BY <1>12, <1>13, <1>14, Zenon DEF res

-----------------------------------------------------------------------------
(* A datagram. *)

LEMMA ProcessedIsGood ==
    ASSUME NEW r0, NEW dl, Good(r0, dl), NEW d \in Datagrams, NEW defer \in BOOLEAN, NEW env
    PROVE  /\ GoodCall(ProcessUdpDatagram(r0, d, defer, env), dl)
           /\ CompleteIn(ProcessUdpDatagram(r0, d, defer, env).rx) \subseteq CompleteIn(r0)
  <1> DEFINE r     == PruneExpiredUdpAssemblies(r0)
             known == d.role # "invalid" /\ d.seq \in DOMAIN r.asm
             a     == IF known THEN r.asm[d.seq] ELSE NewAssembly(d.size)
             b     == AfterAccept(a, d)
             put   == [r EXCEPT !.asm = Put(@, d.seq, b)]
             gone  == [r EXCEPT !.asm = Erase(@, {d.seq})]
             res   == ProcessUdpDatagram(r0, d, defer, env)
  <1>1. Good(r, dl) /\ CompleteIn(r) \subseteq CompleteIn(r0)
    BY PrunedIsGood
  <1>2. /\ d.role = "invalid" => res = [rx |-> r, out |-> NoSeq]
        /\ d.role # "invalid" /\ Stale(r, d) => res = [rx |-> r, out |-> NoSeq]
        /\ d.role # "invalid" /\ ~Stale(r, d) /\ a.size # d.size => res = [rx |-> gone, out |-> NoSeq]
        /\ d.role # "invalid" /\ ~Stale(r, d) /\ a.size = d.size =>
              res = IF Complete(b) THEN FinalizeCompletedUdpFrame(put, d.seq, defer, env)
                    ELSE [rx |-> put, out |-> NoSeq]
    BY Zenon DEF ProcessUdpDatagram
  <1> HIDE DEF r, res
  <1>3. CASE d.role = "invalid" \/ Stale(r, d)
    <2>1. res = [rx |-> r, out |-> NoSeq]
      BY <1>2, <1>3, Zenon
    <2> QED  BY <1>1, <2>1, NothingReturned DEF res
  <1>4. CASE d.role # "invalid" /\ ~Stale(r, d) /\ a.size # d.size
    <2>1. res = [rx |-> gone, out |-> NoSeq]
      BY <1>2, <1>4, Zenon
    <2>2. Good(gone, dl) /\ CompleteIn(gone) \subseteq CompleteIn(r)
      BY <1>1, EraseIsGood
    <2> HIDE DEF gone
    <2> QED  BY <1>1, <2>1, <2>2, NothingReturned DEF res
  <1>5. CASE d.role # "invalid" /\ ~Stale(r, d) /\ a.size = d.size
    <2>1. d \in Valid /\ d.seq \in Seqs /\ d.size \in Sizes
      BY <1>5, ValidDatagram DEF Valid
    <2>2. IsAssembly(a)
      <3>1. CASE known
        BY <1>1, <3>1 DEF Good, Shaped
      <3>2. CASE ~known
        BY <2>1, <3>2, NewIsAssembly
      <3> QED  BY <3>1, <3>2
    <2>3. IsAssembly(b)
      BY <1>5, <2>1, <2>2, AcceptedIsAssembly
    <2> HIDE DEF a, b, known
    <2> DEFINE f == Put(r.asm, d.seq, b)
    <2>4. /\ DOMAIN f = DOMAIN r.asm \cup {d.seq} /\ f[d.seq] = b
          /\ \A y \in DOMAIN r.asm \ {d.seq} : f[y] = r.asm[y]
      <3>1. f = [y \in DOMAIN r.asm \cup {d.seq} |-> IF y = d.seq THEN b ELSE r.asm[y]]
        BY Zenon DEF Put
      <3> HIDE DEF f
      <3> QED  BY <3>1
    <2> HIDE DEF f
    <2>5. DOMAIN f \subseteq Seqs /\ \A s \in DOMAIN f : IsAssembly(f[s])
      BY <1>1, <2>1, <2>3, <2>4 DEF Good, Shaped
    <2>6. DOMAIN f \cap ToSet(r.recent) = {}
      <3>1. d.seq \notin ToSet(r.recent)
        BY <1>5 DEF Stale
      <3> QED  BY <1>1, <2>4, <3>1 DEF Good, Kept
    <2>7. put = [r EXCEPT !.asm = f]
      BY DEF f
    <2>8. Good(put, dl) /\ put.asm = f
      BY <1>1, <2>5, <2>6, <2>7, OtherTable
    <2> HIDE DEF put
    <2>9. /\ d.seq \in DOMAIN put.asm
          /\ CompleteIn(put) \ {d.seq} \subseteq CompleteIn(r)
          /\ ~Complete(b) => d.seq \notin CompleteIn(put)
      BY <2>4, <2>8 DEF CompleteIn
    <2>10. CASE Complete(b)
      <3>1. res = FinalizeCompletedUdpFrame(put, d.seq, defer, env)
        BY <1>2, <1>5, <2>10, Zenon
      <3> QED  BY <1>1, <2>8, <2>9, <3>1, FinalizeIsGood DEF res
    <2>11. CASE ~Complete(b)
      <3>1. res = [rx |-> put, out |-> NoSeq]
        BY <1>2, <1>5, <2>11, Zenon
      <3>2. CompleteIn(put) \subseteq CompleteIn(r)
        BY <2>9, <2>11
      <3> QED  BY <1>1, <2>8, <3>1, <3>2, NothingReturned DEF res
    <2> QED  BY <2>10, <2>11
  <1> QED  BY <1>3, <1>4, <1>5

-----------------------------------------------------------------------------
(* The recovery of what the parity completes, and time. *)

LEMMA RecoveryIsGood ==
    ASSUME NEW r, NEW dl, Good(r, dl)
    PROVE  /\ Good(RecoverReady(r), dl)
           /\ CompleteIn(RecoverReady(r)) \subseteq CompleteIn(r) \cup Ready(r)
           /\ Ready(RecoverReady(r)) = {}
           /\ Ready(r) \subseteq Seqs
  <1> DEFINE g(a) == IF Recoverable(a) THEN Recovered(a) ELSE a
             f == [s \in DOMAIN r.asm |-> g(r.asm[s])]
             q == [r EXCEPT !.asm = f]
  <1>1. RecoverReady(r) = q
    BY Zenon DEF RecoverReady
  <1>2. ASSUME NEW a, IsAssembly(a)
        PROVE  /\ IsAssembly(g(a)) /\ ~Recoverable(g(a))
               /\ ~Recoverable(a) => g(a) = a
    BY <1>2, RecoveredIsComplete, CompleteIsNotRecoverable
  <1> HIDE DEF g
  <1>3. DOMAIN f = DOMAIN r.asm /\ \A s \in DOMAIN f : f[s] = g(r.asm[s])
    OBVIOUS
  <1>4. \A s \in DOMAIN r.asm : IsAssembly(r.asm[s])
    BY DEF Good, Shaped
  <1> HIDE DEF f
  <1>5. Good(q, dl) /\ q.asm = f
    BY <1>2, <1>3, <1>4, SameFrames
  <1> HIDE DEF q
  <1>6. CompleteIn(q) \subseteq CompleteIn(r) \cup Ready(r)
    BY <1>2, <1>3, <1>4, <1>5 DEF CompleteIn, Ready
  <1>7. Ready(q) = {}
    BY <1>2, <1>3, <1>4, <1>5 DEF Ready
  <1>8. Ready(r) \subseteq Seqs
    BY DEF Ready, Good, Shaped
  <1> QED  BY <1>1, <1>5, <1>6, <1>7, <1>8

LEMMA AgedIsAssembly ==
    ASSUME NEW a, IsAssembly(a)
    PROVE  IsAssembly(Aged(a)) /\ Complete(Aged(a)) = Complete(a)
  <1>1. /\ DOMAIN Aged(a) = DOMAIN a /\ Aged(a).size = a.size
        /\ Aged(a).got = a.got /\ Aged(a).attempts = a.attempts /\ Aged(a).patch = a.patch
    BY DEF Aged, IsAssembly, NewAssembly
  <1> QED  BY <1>1 DEF IsAssembly, PatchFits, Complete, Missing

LEMMA TimeIsGood ==
    ASSUME NEW r, NEW dl, Good(r, dl), NEW h, DOMAIN h = DOMAIN r.buf
    PROVE  LET q == [r EXCEPT !.asm = [s \in DOMAIN r.asm |-> Aged(r.asm[s])], !.buf = h]
           IN  Good(q, dl) /\ CompleteIn(q) = CompleteIn(r)
  <1> DEFINE f == [s \in DOMAIN r.asm |-> Aged(r.asm[s])]
             q == [r EXCEPT !.asm = f, !.buf = h]
  <1>1. DOMAIN r = {"asm", "buf", "next", "recent", "garbled"}
    BY DEF Good, Shaped
  <1>2. DOMAIN f = DOMAIN r.asm /\ \A s \in DOMAIN r.asm : f[s] = Aged(r.asm[s])
    OBVIOUS
  <1>3. \A s \in DOMAIN r.asm : IsAssembly(f[s]) /\ Complete(f[s]) = Complete(r.asm[s])
    BY <1>2, AgedIsAssembly DEF Good, Shaped
  <1> HIDE DEF f
  <1>4. /\ DOMAIN q = DOMAIN r /\ q.asm = f /\ q.buf = h
        /\ q.next = r.next /\ q.recent = r.recent /\ q.garbled = r.garbled
    BY <1>1
  <1> HIDE DEF q
  <1>5. Shaped(q)
    BY <1>2, <1>3, <1>4 DEF Good, Shaped
  <1>6. Kept(q, dl)
    BY <1>2, <1>4 DEF Good, Kept
  <1>7. CompleteIn(q) = CompleteIn(r)
    BY <1>2, <1>3, <1>4 DEF CompleteIn
  <1>8. Good(q, dl)
    BY <1>5, <1>6 DEF Good
  <1> QED  BY <1>7, <1>8 DEF q, f

LEMMA ResetIsGood == Good(ResetUdpState, << >>) /\ CompleteIn(ResetUdpState) = {}
  <1> DEFINE q == ResetUdpState
  <1>1. /\ DOMAIN q = {"asm", "buf", "next", "recent", "garbled"}
        /\ q.asm = << >> /\ q.buf = << >> /\ q.next = 0 /\ q.recent = << >>
        /\ q.garbled = {}
    BY DEF ResetUdpState, NoSeq
  <1>2. DOMAIN << >> = {} /\ << >> \in Seq(Seqs) /\ Len(<< >>) = 0 /\ ToSet(<< >>) = {}
    BY DEF ToSet
  <1> HIDE DEF q
  <1>3. Shaped(q)
    BY <1>1, <1>2, Parameters DEF Shaped
  <1>4. Kept(q, << >>)
    BY <1>1, <1>2 DEF Kept, IsInjective
  <1>5. CompleteIn(q) = {}
    BY <1>1, <1>2 DEF CompleteIn
  <1> QED  BY <1>2, <1>3, <1>4, <1>5 DEF Good, q

-----------------------------------------------------------------------------
(* The inductive invariant. *)

Labels == {"top", "drain", "finalize", "pop", "maintain", "refinalize", "nack", "block"}

LEMMA InitOK == Init => IInv
  <1> SUFFICES ASSUME Init PROVE IInv
    OBVIOUS
  <1>1. rx = ResetUdpState /\ delivered = << >> /\ pc = "top" /\ todo = {}
    BY DEF Init
  <1>2. Control
    BY <1>1 DEF Init, Control
  <1>3. Good(rx, delivered)
    BY <1>1, ResetIsGood
  <1>4. CompleteIn(rx) = {}
    BY <1>1, ResetIsGood
  <1>5. NothingLeft
    BY <1>1, <1>4 DEF NothingLeft
  <1> QED  BY <1>2, <1>3, <1>5 DEF IInv

(* A call outside the finalizing loop that completes no frame and leaves it *)
(* in the table.                                                            *)
LEMMA CallKeeps ==
    ASSUME IInv, NEW res, GoodCall(res, delivered), CompleteIn(res.rx) \subseteq CompleteIn(rx),
           NEW label \in Labels \ {"finalize"},
           label \in {"pop", "maintain"} => Ready(res.rx) = {},
           pc # "finalize",
           rx' = res.rx, Return(res.out, label), todo' = todo, jitterOn' = jitterOn,
           drained' \in BOOLEAN
    PROVE  IInv'
  <1>1. delivered' = After(delivered, res.out) /\ pc' \in {"top", label}
    BY DEF Return, After
  <1>2. todo = {} /\ (jitterOn => CompleteIn(rx) = {})
    BY DEF IInv, NothingLeft
  <1>3. Good(rx, delivered)'
    <2>1. Good(res.rx, After(delivered, res.out))
      BY DEF GoodCall
    <2>2. Good(rx', delivered')
      BY <1>1, <2>1, Zenon
    <2> QED  BY <2>2 DEF Good, Shaped, Kept
  <1>4. Control'
    BY <1>1, <1>2 DEF IInv, Control, Labels
  <1>5. NothingLeft'
    <2>1. CompleteIn(rx)' = CompleteIn(res.rx) /\ Ready(rx)' = Ready(res.rx)
      BY DEF CompleteIn, Ready
    <2> QED  BY <1>1, <1>2, <2>1 DEF NothingLeft
  <1> QED  BY <1>3, <1>4, <1>5 DEF IInv


(* Of the frames the loop recovered one is finalized.                       *)
LEMMA FinalizeNextOK ==
    ASSUME IInv, NEW env, FinalizeNext(env)
    PROVE  IInv'
  <1> DEFINE s   == Min(todo)
             res == FinalizeRecovered(rx, s, pc = "finalize", env)
  <1>1. pc = "finalize" /\ todo # {}
    BY DEF FinalizeNext, IInv, NothingLeft
  <1>2. s \in todo
    BY <1>1, MinIsMember DEF IInv, Control
  <1>3. /\ rx' = res.rx /\ Return(res.out, pc)
        /\ todo' = IF res.out # NoSeq THEN {} ELSE todo \ {s}
        /\ jitterOn' = jitterOn /\ drained' = drained
    BY DEF FinalizeNext
  <1>4. Good(rx, delivered) /\ Ready(rx) = {} /\ (jitterOn => CompleteIn(rx) \subseteq todo)
    BY <1>1 DEF IInv, NothingLeft
  <1> HIDE DEF s
  <1>5. /\ GoodCall(res, delivered) /\ CompleteIn(res.rx) = CompleteIn(rx) \ {s}
        /\ jitterOn => res.out = NoSeq
        /\ Ready(res.rx) = {}
    <2>1. CASE s \in DOMAIN rx.asm /\ Complete(rx.asm[s])
      <3>1. res = FinalizeCompletedUdpFrame(rx, s, TRUE, env)
        BY <1>1, <2>1 DEF FinalizeRecovered
      <3> HIDE DEF res
      <3>2. /\ GoodCall(res, delivered) /\ CompleteIn(res.rx) = CompleteIn(rx) \ {s}
            /\ Ready(res.rx) \subseteq Ready(rx)
        BY <1>4, <2>1, <3>1, FinalizeIsGood
      <3>3. jitterOn => res.out = NoSeq
        BY <1>4, <2>1, <3>1, FinalizeIsGood
      <3> QED  BY <1>4, <3>2, <3>3
    <2>2. CASE ~(s \in DOMAIN rx.asm /\ Complete(rx.asm[s]))
      <3>1. res = [rx |-> rx, out |-> NoSeq]
        BY <2>2 DEF FinalizeRecovered
      <3> HIDE DEF res
      <3>2. GoodCall(res, delivered) /\ res.rx = rx /\ res.out = NoSeq
        BY <1>4, <3>1, NothingReturned
      <3>3. CompleteIn(rx) = CompleteIn(rx) \ {s}
        BY <2>2 DEF CompleteIn
      <3> QED  BY <1>4, <3>2, <3>3
    <2> QED  BY <2>1, <2>2
  <1> HIDE DEF res
  <1>6. delivered' = After(delivered, res.out) /\ pc' = IF res.out # NoSeq THEN "top" ELSE "finalize"
    BY <1>1, <1>3 DEF Return, After
  <1>7. Good(rx, delivered)'
    <2>1. Good(res.rx, After(delivered, res.out))
      BY <1>5 DEF GoodCall
    <2>2. Good(rx', delivered')
      BY <1>3, <1>6, <2>1, Zenon
    <2> QED  BY <2>2 DEF Good, Shaped, Kept
  <1>8. Control'
    BY <1>3, <1>6 DEF IInv, Control
  <1>9. NothingLeft'
    <2>1. CompleteIn(rx)' = CompleteIn(res.rx) /\ Ready(rx)' = Ready(res.rx)
      BY <1>3 DEF CompleteIn, Ready
    <2>2. (pc # "finalize" => todo = {})'
      BY <1>3, <1>6
    <2>3. (jitterOn => CompleteIn(rx) \subseteq todo)'
      BY <1>3, <1>4, <1>5, <2>1
    <2> QED  BY <1>5, <2>1, <2>2, <2>3 DEF NothingLeft
  <1> QED  BY <1>7, <1>8, <1>9 DEF IInv

(* What the parity completes is recovered, and is the loop's to finalize.   *)
LEMMA RecoverKeeps ==
    ASSUME IInv, pc # "finalize", NEW r, Good(r, delivered), CompleteIn(r) \subseteq CompleteIn(rx),
           NEW label \in {"finalize", "refinalize"},
           label = "refinalize" => Ready(r) = {},
           Recover(r, label)
    PROVE  IInv'
  <1>1. /\ rx' = RecoverReady(r) /\ todo' = Ready(r) /\ pc' = label
        /\ jitterOn' = jitterOn /\ drained' = drained /\ delivered' = delivered
    BY DEF Recover
  <1>2. /\ Good(RecoverReady(r), delivered)
        /\ CompleteIn(RecoverReady(r)) \subseteq CompleteIn(r) \cup Ready(r)
        /\ Ready(RecoverReady(r)) = {} /\ Ready(r) \subseteq Seqs
    BY RecoveryIsGood
  <1>3. Good(rx, delivered)'
    <2>1. Good(rx', delivered')
      BY <1>1, <1>2, Zenon
    <2> QED  BY <2>1 DEF Good, Shaped, Kept
  <1>4. Control'
    BY <1>1, <1>2 DEF IInv, Control
  <1>5. NothingLeft'
    <2>1. CompleteIn(rx)' = CompleteIn(RecoverReady(r)) /\ Ready(rx)' = Ready(RecoverReady(r))
      BY <1>1 DEF CompleteIn, Ready
    <2>2. jitterOn => CompleteIn(rx) = {}
      BY DEF IInv, NothingLeft
    <2>3. (jitterOn => CompleteIn(rx) \subseteq todo)'
      BY <1>1, <1>2, <2>1, <2>2
    <2>4. (pc # "finalize" => todo = {})'
      BY <1>1
    <2> QED  BY <1>2, <2>1, <2>3, <2>4 DEF NothingLeft
  <1> QED  BY <1>3, <1>4, <1>5 DEF IInv

(* A step that leaves the UDP state and the frames returned as they are.    *)
LEMMA IdleKeeps ==
    ASSUME IInv, todo = {}, rx' = rx, delivered' = delivered, todo' = todo, jitterOn' = jitterOn,
           drained' = drained, pc' \in Labels,
           pc' \in {"finalize", "pop", "maintain"} => Ready(rx) = {}
    PROVE  IInv'
  <1>1. Good(rx, delivered)'
    <2>1. Good(rx', delivered')
      BY Zenon DEF IInv
    <2> QED  BY <2>1 DEF Good, Shaped, Kept
  <1>2. CompleteIn(rx)' = CompleteIn(rx) /\ Ready(rx)' = Ready(rx)
    BY DEF CompleteIn, Ready
  <1>3. NothingLeft'
    BY <1>2 DEF IInv, NothingLeft
  <1>4. Control'
    BY DEF IInv, Control, Labels
  <1> QED  BY <1>1, <1>3, <1>4 DEF IInv


LEMMA StepOK == IInv /\ [Next]_vars => IInv'
  <1> SUFFICES ASSUME IInv, [Next]_vars PROVE IInv'
    OBVIOUS
  <1>1. /\ Good(rx, delivered) /\ drained \in BOOLEAN
        /\ pc # "finalize" => todo = {}
        /\ pc \in {"finalize", "pop", "maintain"} => Ready(rx) = {}
    BY DEF IInv, NothingLeft, Control
  <1>2. ASSUME NEW delay \in Delays, PopFirst(delay)
        PROVE  IInv'
    <2> DEFINE res == TryPopReadyUdpFrame(rx, delay)
    <2>1. /\ pc = "top" /\ rx' = res.rx /\ Return(res.out, "drain")
          /\ drained' \in BOOLEAN /\ jitterOn' = jitterOn /\ todo' = todo
      BY <1>2 DEF PopFirst
    <2>2. GoodCall(res, delivered) /\ res.rx.asm = rx.asm
      BY <1>1, TryPopIsGood
    <2> HIDE DEF res
    <2>3. CompleteIn(res.rx) = CompleteIn(rx)
      BY <2>2 DEF CompleteIn
    <2> QED  BY <2>1, <2>2, <2>3, CallKeeps DEF Labels
  <1>3. ASSUME NEW delay \in Delays, PopAfterDrain(delay)
        PROVE  IInv'
    <2> DEFINE res   == TryPopReadyUdpFrame(rx, delay)
               label == IF drained THEN "top" ELSE "maintain"
    <2>1. /\ pc = "pop" /\ rx' = res.rx /\ Return(res.out, label)
          /\ drained' = drained /\ jitterOn' = jitterOn /\ todo' = todo
      BY <1>3 DEF PopAfterDrain
    <2>2. GoodCall(res, delivered) /\ res.rx.asm = rx.asm
      BY <1>1, TryPopIsGood
    <2>3. label \in Labels \ {"finalize"}
      BY DEF Labels
    <2> HIDE DEF res, label
    <2>4. CompleteIn(res.rx) = CompleteIn(rx) /\ Ready(res.rx) = Ready(rx)
      BY <2>2 DEF CompleteIn, Ready
    <2> QED  BY <1>1, <2>1, <2>2, <2>3, <2>4, CallKeeps
  <1>4. ASSUME NEW env \in Env, NackThenPop(env)
        PROVE  IInv'
    <2> DEFINE sent == MaybeSendUdpNackRequests(rx, env.ok)
               res  == TryPopReadyUdpFrame(sent, env.delay)
    <2>1. /\ pc = "nack" /\ rx' = res.rx /\ Return(res.out, "block")
          /\ drained' = drained /\ jitterOn' = jitterOn /\ todo' = todo
      BY <1>4 DEF NackThenPop
    <2>2. Good(sent, delivered) /\ CompleteIn(sent) = CompleteIn(rx)
      BY <1>1, NackedIsGood
    <2> HIDE DEF sent
    <2>3. GoodCall(res, delivered) /\ res.rx.asm = sent.asm
      BY <2>2, TryPopIsGood
    <2> HIDE DEF res
    <2>4. CompleteIn(res.rx) = CompleteIn(rx)
      BY <2>2, <2>3 DEF CompleteIn
    <2> QED  BY <1>1, <2>1, <2>3, <2>4, CallKeeps DEF Labels
  <1>5. ASSUME NEW d \in Datagrams, DrainDatagram(d)
        PROVE  IInv'
    <2> DEFINE res == ProcessUdpDatagram(rx, d, TRUE, Deferred)
    <2>1. /\ pc = "drain" /\ rx' = res.rx /\ Return(res.out, "drain")
          /\ drained' \in BOOLEAN /\ jitterOn' = jitterOn /\ todo' = todo
      BY <1>5 DEF DrainDatagram
    <2>2. GoodCall(res, delivered) /\ CompleteIn(res.rx) \subseteq CompleteIn(rx)
      BY <1>1, ProcessedIsGood
    <2> HIDE DEF res
    <2> QED  BY <2>1, <2>2, CallKeeps DEF Labels
  <1>6. ASSUME NEW d \in Datagrams, NEW env \in Env, BlockDatagram(d, env)
        PROVE  IInv'
    <2> DEFINE res == ProcessUdpDatagram(rx, d, FALSE, env)
    <2>1. /\ pc = "block" /\ rx' = res.rx /\ Return(res.out, "top")
          /\ drained' = drained /\ jitterOn' = jitterOn /\ todo' = todo
      BY <1>6 DEF BlockDatagram
    <2>2. GoodCall(res, delivered) /\ CompleteIn(res.rx) \subseteq CompleteIn(rx)
      BY <1>1, ProcessedIsGood
    <2> HIDE DEF res
    <2> QED  BY <1>1, <2>1, <2>2, CallKeeps DEF Labels
  <1>7. ASSUME DrainEmpty
        PROVE  IInv'
    <2>1. pc = "drain" /\ Recover(rx, "finalize")
      BY <1>7 DEF DrainEmpty
    <2> QED  BY <1>1, <2>1, RecoverKeeps
  <1>8. ASSUME Maintain
        PROVE  IInv'
    <2> DEFINE r == PruneExpiredUdpAssemblies(rx)
    <2>1. pc = "maintain" /\ Recover(r, "refinalize")
      BY <1>8 DEF Maintain
    <2>2. /\ Good(r, delivered) /\ CompleteIn(r) \subseteq CompleteIn(rx)
          /\ Ready(r) \subseteq Ready(rx)
      BY <1>1, PrunedIsGood
    <2> HIDE DEF r
    <2>3. Ready(r) = {}
      BY <1>1, <2>1, <2>2
    <2> QED  BY <2>1, <2>2, <2>3, RecoverKeeps
  <1>9. ASSUME NEW env \in Env, FinalizeNext(env)
        PROVE  IInv'
    BY <1>9, FinalizeNextOK
  <1>10. ASSUME FinalizeEnd
         PROVE  IInv'
    <2>1. /\ pc \in {"finalize", "refinalize"} /\ todo = {}
          /\ pc' = IF pc = "finalize" THEN "pop" ELSE "nack"
          /\ rx' = rx /\ jitterOn' = jitterOn /\ drained' = drained
          /\ todo' = todo /\ delivered' = delivered
      BY <1>10 DEF FinalizeEnd
    <2> QED  BY <1>1, <2>1, IdleKeeps DEF Labels
  <1>11. ASSUME BlockTimeout
         PROVE  IInv'
    BY <1>1, <1>11, IdleKeeps DEF BlockTimeout, Labels
  <1>12. ASSUME Reconnect
         PROVE  IInv'
    <2>1. /\ rx' = ResetUdpState /\ pc' = "top" /\ delivered' = << >> /\ todo' = {}
          /\ jitterOn' = jitterOn /\ drained' = drained
      BY <1>1, <1>12 DEF Reconnect
    <2>2. Good(rx, delivered)'
      <3>1. Good(rx', delivered')
        BY <2>1, ResetIsGood, Zenon
      <3> QED  BY <3>1 DEF Good, Shaped, Kept
    <2>3. Control'
      BY <2>1 DEF IInv, Control
    <2>4. CompleteIn(rx)' = {}
      BY <2>1, ResetIsGood DEF CompleteIn
    <2>5. NothingLeft'
      BY <2>1, <2>4 DEF NothingLeft
    <2> QED  BY <2>2, <2>3, <2>5 DEF IInv
  <1>13. ASSUME Tick
         PROVE  IInv'
    <2> DEFINE h == [s \in DOMAIN rx.buf |-> Older(rx.buf[s], BufferCap)]
               q == [rx EXCEPT !.asm = [s \in DOMAIN rx.asm |-> Aged(rx.asm[s])], !.buf = h]
    <2>1. /\ pc \in {"top", "drain", "block"} /\ rx' = q /\ pc' = pc /\ jitterOn' = jitterOn
          /\ drained' = drained /\ todo' = todo /\ delivered' = delivered
      BY <1>13, Zenon DEF Tick
    <2>2. DOMAIN h = DOMAIN rx.buf
      OBVIOUS
    <2> HIDE DEF h
    <2>3. Good(q, delivered) /\ CompleteIn(q) = CompleteIn(rx)
      BY <1>1, <2>2, TimeIsGood
    <2> HIDE DEF q
    <2>4. Good(rx, delivered)'
      <3>1. Good(rx', delivered')
        BY <2>1, <2>3, Zenon
      <3> QED  BY <3>1 DEF Good, Shaped, Kept
    <2>5. Control'
      BY <2>1 DEF IInv, Control
    <2>6. NothingLeft'
      <3>1. CompleteIn(rx)' = CompleteIn(rx)
        BY <2>1, <2>3 DEF CompleteIn
      <3> QED  BY <2>1, <3>1 DEF IInv, NothingLeft
    <2> QED  BY <2>4, <2>5, <2>6 DEF IInv
  <1>14. CASE UNCHANGED vars
    <2>1. /\ rx' = rx /\ pc' = pc /\ jitterOn' = jitterOn /\ drained' = drained
          /\ todo' = todo /\ delivered' = delivered
      BY <1>14 DEF vars
    <2>2. Good(rx, delivered)'
      <3>1. Good(rx', delivered')
        BY <1>1, <2>1, Zenon
      <3> QED  BY <3>1 DEF Good, Shaped, Kept
    <2>3. Control'
      BY <2>1 DEF IInv, Control
    <2>4. NothingLeft'
      <3>1. CompleteIn(rx)' = CompleteIn(rx) /\ Ready(rx)' = Ready(rx)
        BY <2>1 DEF CompleteIn, Ready
      <3> QED  BY <2>1, <3>1 DEF IInv, NothingLeft
    <2> QED  BY <2>2, <2>3, <2>4 DEF IInv
  <1> QED  BY <1>2, <1>3, <1>4, <1>5, <1>6, <1>7, <1>8, <1>9, <1>10, <1>11, <1>12, <1>13, <1>14
           DEF Next, Round, Arrival

LEMMA InvariantOK == Spec => []IInv
  BY InitOK, StepOK, PTL DEF Spec

-----------------------------------------------------------------------------
(* The theorems. *)

(* Every part of the state of the UDP receiver has its type.                *)
THEOREM TypesOK == Spec => []TypeOK
  <1>1. IInv => TypeOK
    <2> SUFFICES ASSUME IInv PROVE TypeOK
      OBVIOUS
    <2>1. Control /\ Shaped(rx) /\ delivered \in Seq(Seqs)
      BY DEF IInv, Good
    <2> QED  BY <2>1 DEF Control, Shaped, IsAssembly, TypeOK
  <1> QED  BY <1>1, InvariantOK, PTL

(* ReceiveUdpFrame returns a frame at most once, never assembles one the    *)
(* window remembers, forgets none of those it completed, and with the       *)
(* jitter buffer leaves none in the table (StreamClientUdp.cpp: the window, *)
(* ProcessUdpDatagram, FinalizeRecoverableUdpFecFrames).                    *)
THEOREM FramesReturnedOnce == Spec => []CompletedIsKept
  <1>1. IInv => CompletedIsKept
    <2> SUFFICES ASSUME IInv PROVE CompletedIsKept
      OBVIOUS
    <2>1. Kept(rx, delivered)
      BY DEF IInv, Good
    <2>2. CompleteFrames = CompleteIn(rx)
      BY DEF CompleteFrames, CompleteIn
    <2>3. jitterOn /\ pc \in {"top", "block"} => CompleteFrames = {}
      BY <2>2 DEF IInv, NothingLeft
    <2> QED  BY <2>1, <2>3 DEF Kept, CompletedIsKept
  <1> QED  BY <1>1, InvariantOK, PTL

(* A frame that is completed holds exactly the bytes the server sent, also  *)
(* when MaybeRecoverWithUdpFec put a fragment in, be it the first, the last *)
(* and shorter than the parity, or one in the middle, and in whatever order *)
(* fragments, parity, duplicates and conflicting layouts arrived.           *)
THEOREM FramesHoldTheirBytes == Spec => []CompletedIsTheFrame
  <1>1. IInv => CompletedIsTheFrame
    BY DEF IInv, Good, Shaped, CompletedIsTheFrame
  <1> QED  BY InvariantOK, <1>1, PTL
=============================================================================
