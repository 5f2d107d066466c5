--------------------------- MODULE RtpStream_proofs ---------------------------
(***************************************************************************)
(* Proofs about RtpStream, for frames of any NAL units, any packet size,   *)
(* any pacing limits, any widths of the words and any number of frames and *)
(* starts.                                                                 *)
(***************************************************************************)
EXTENDS RtpStream, SequenceTheorems, WellFoundedInduction, TLAPS

-----------------------------------------------------------------------------
(* Constants, least and greatest elements. *)

(* What the parameters of packetizer and pacing are. *)
LEMMA Parameters ==
    /\ MaxPayload \in Nat /\ MaxPayload > 2
    /\ MaxWindow \in Nat /\ MinInterval \in Nat /\ Fallback \in Nat
    /\ PacedFrom \in Nat /\ PacedFrom > 1 /\ Fraction \in Nat \ {0}
    /\ Shapes \subseteq Seq(Nat) /\ Gap \in Nat \ {0}
    /\ Numbers \in Nat \ {0} /\ Stamps \in Nat \ {0} /\ Word \in Nat \ {0}
    /\ ClockRate \in Nat \ {0} /\ Second \in Nat \ {0}
    /\ FirstNumbers \subseteq 0..Numbers - 1 /\ MaxFrames \in Nat
  BY PayloadAssumption, PacingAssumption, InputAssumption, WidthAssumption, BoundAssumption

(* A nonempty set of numbers has a least element. *)
LEMMA HasLeast ==
    ASSUME NEW I \in SUBSET Nat, I # {}
    PROVE  \E i \in I : \A j \in I : i <= j
  <1>1. PICK i \in I : \A j \in I : ~ (<<j, i>> \in OpToRel(<, Nat))
    BY NatLessThanWellFounded, WFMin
  <1>2. ASSUME NEW j \in I
        PROVE  i <= j
    <2>1. i \in Nat /\ j \in Nat
      OBVIOUS
    <2>2. j < i => <<j, i>> \in OpToRel(<, Nat)
      BY <2>1 DEF OpToRel
    <2>3. ~(j < i)
      BY <1>1, <2>2, Zenon
    <2> QED  BY <2>1, <2>3
  <1> QED  BY <1>2

(* A nonempty set of numbers up to n has a greatest element, so Max finds   *)
(* it: the least of its upper bounds.                                       *)
LEMMA MaxIsGreatest ==
    ASSUME NEW n \in Nat, NEW I \in SUBSET (1..n), I # {}
    PROVE  Max(I) \in I /\ \A j \in I : j <= Max(I)
  <1> DEFINE U == {k \in 0..n : \A j \in I : j <= k}
  <1>1. n \in U /\ U \in SUBSET Nat /\ U # {}
    OBVIOUS
  <1>2. PICK u \in U : \A k \in U : u <= k
    BY <1>1, HasLeast
  <1>3. u \in I
    <2>1. SUFFICES ASSUME u \notin I PROVE FALSE
      OBVIOUS
    <2>2. \A j \in I : j <= u - 1
      BY <1>2, <2>1
    <2>3. u - 1 \in 0..n
      <3>1. PICK j \in I : j <= u
        BY <1>2
      <3> QED  BY <1>2, <3>1
    <2> QED  BY <1>2, <2>2, <2>3
  <1>4. u \in I /\ \A j \in I : u >= j
    BY <1>2, <1>3
  <1>5. Max(I) \in I /\ \A j \in I : Max(I) >= j
    BY <1>4 DEF Max
  <1> QED  BY <1>5

-----------------------------------------------------------------------------
(* Recursive functions on an initial piece of the numbers: what IsStep and  *)
(* IsSolution say of a recursion g[i] = F[<<i, g[i - 1]>>].                  *)

IsStep(F, n, S) == F \in [(1..n) \X S -> S]
IsSolution(g, F, n, S, first) ==
    g \in [0..n -> S] /\ g[0] = first /\ \A i \in 1..n : g[i] = F[<<i, g[i - 1]>>]

(* A recursion whose step is a function has a solution: else there would be *)
(* a least length without one.                                              *)
LEMMA RecursionHasSolution ==
    ASSUME NEW S, NEW n, NEW F, NEW first,
           n \in Nat, IsStep(F, n, S), first \in S
    PROVE  \E g : IsSolution(g, F, n, S, first)
  <1> USE DEF IsStep
  <1> DEFINE Solves(g, m) == /\ g \in [0..m -> S] /\ g[0] = first
                             /\ \A i \in 1..m : g[i] = F[<<i, g[i - 1]>>]
             T == {m \in 0..n : ~ \E g \in [0..m -> S] : Solves(g, m)}
  <1>1. SUFFICES ASSUME T # {} PROVE FALSE
    <2>1. n \in 0..n
      OBVIOUS
    <2>2. n \notin T => \E g \in [0..n -> S] : Solves(g, n)
      BY <2>1
    <2> QED  BY <2>2 DEF IsSolution
  <1>2. T \in SUBSET Nat
    OBVIOUS
  <1>3. PICK m \in T : \A k \in T : m <= k
    BY <1>1, <1>2, HasLeast
  <1>4. m \in 0..n /\ ~ \E g \in [0..m -> S] : Solves(g, m)
    OBVIOUS
  <1>5. CASE m = 0
    <2> DEFINE g == [i \in 0..0 |-> first]
    <2>1. g \in [0..m -> S] /\ Solves(g, m)
      BY <1>5
    <2> QED  BY <1>4, <2>1
  <1>6. CASE m # 0
    <2>1. m - 1 \in 0..n /\ m - 1 \notin T /\ m \in 1..n
      <3>1. m - 1 \in 0..n /\ m \in 1..n /\ ~(m <= m - 1)
        BY <1>4, <1>6
      <3> HIDE DEF T
      <3>2. m - 1 \notin T
        BY <1>3, <3>1
      <3> QED  BY <3>1, <3>2
    <2>2. PICK g \in [0..m - 1 -> S] : Solves(g, m - 1)
      BY <2>1
    <2> DEFINE h == [i \in 0..m |-> IF i = m THEN F[<<m, g[m - 1]>>] ELSE g[i]]
    <2>3. g[m - 1] \in S /\ F[<<m, g[m - 1]>>] \in S
      <3>1. m - 1 \in 0..m - 1
        BY <2>1
      <3>2. g[m - 1] \in S
        BY <2>2, <3>1
      <3>3. <<m, g[m - 1]>> \in (1..n) \X S
        BY <2>1, <3>2
      <3> QED  BY <3>2, <3>3
    <2>4. h \in [0..m -> S]
      BY <2>1, <2>3
    <2>5. h[0] = first
      BY <2>1, <2>2
    <2>6. \A i \in 1..m : h[i] = F[<<i, h[i - 1]>>]
      <3> SUFFICES ASSUME NEW i \in 1..m PROVE h[i] = F[<<i, h[i - 1]>>]
        OBVIOUS
      <3>1. i - 1 \in 0..m /\ i - 1 # m /\ h[i - 1] = g[i - 1]
        BY <2>1
      <3>2. CASE i = m
        BY <3>1, <3>2
      <3>3. CASE i # m
        <4>1. i \in 1..m - 1
          BY <2>1, <3>3
        <4>2. g[i] = F[<<i, g[i - 1]>>]
          BY <2>2, <4>1
        <4>3. h[i] = g[i]
          BY <3>3
        <4> QED  BY <3>1, <4>2, <4>3
      <3> QED  BY <3>2, <3>3
    <2> HIDE DEF h
    <2>7. Solves(h, m)
      BY <2>4, <2>5, <2>6
    <2> QED  BY <1>4, <2>4, <2>7
  <1> QED  BY <1>5, <1>6

(* The NAL units found in a frame are a sequence of nonzero lengths.        *)
LEMMA SplitIsSequence ==
    ASSUME NEW shape \in Seq(Nat)
    PROVE  SplitAnnexBNalus(shape) \in Seq(Nat \ {0})
  <1> DEFINE n == Len(shape)
             S == Seq(Nat \ {0})
             next(i, q) == IF shape[i] = 0 THEN q ELSE Append(q, shape[i])
             F == [p \in (1..n) \X S |-> next(p[1], p[2])]
             step(f) == [i \in 0..n |-> IF i = 0 THEN << >>
                                        ELSE IF shape[i] = 0 THEN f[i - 1]
                                        ELSE Append(f[i - 1], shape[i])]
             split == CHOOSE f : f = step(f)
  <1>1. SplitAnnexBNalus(shape) = split[n]
    BY Zenon DEF SplitAnnexBNalus
  <1>2. n \in Nat /\ \A i \in 1..n : shape[i] \in Nat
    OBVIOUS
  <1>3. IsStep(F, n, S)
    <2>1. ASSUME NEW i \in 1..n, NEW q \in S
          PROVE  next(i, q) \in S
      BY <1>2
    <2> HIDE DEF next, S
    <2> QED  BY <2>1 DEF IsStep
  <1>4. << >> \in S
    OBVIOUS
  <1> HIDE DEF S
  <1>5. \A i \in 1..n, q \in S : F[<<i, q>>] = next(i, q)
    OBVIOUS
  <1> HIDE DEF F, n
  <1>6. PICK g \in [0..n -> S] : g[0] = << >> /\ \A i \in 1..n : g[i] = F[<<i, g[i - 1]>>]
    <2>1. n \in Nat
      BY <1>2
    <2>2. \E g : IsSolution(g, F, n, S, << >>)
      BY <1>3, <1>4, <2>1, RecursionHasSolution, Zenon
    <2> QED  BY <2>2 DEF IsSolution
  <1>7. \A i \in 1..n : g[i] = next(i, g[i - 1])
    <2> SUFFICES ASSUME NEW i \in 1..n PROVE g[i] = next(i, g[i - 1])
      OBVIOUS
    <2>1. g[i - 1] \in S
      BY <1>2, <1>6
    <2> QED  BY <1>5, <1>6, <2>1
  <1>8. g = step(g)
    <2> DEFINE e(i) == IF i = 0 THEN << >>
                       ELSE IF shape[i] = 0 THEN g[i - 1] ELSE Append(g[i - 1], shape[i])
    <2>1. step(g) = [i \in 0..n |-> e(i)]
      OBVIOUS
    <2>2. ASSUME NEW i \in 0..n
          PROVE  g[i] = e(i)
      <3>1. CASE i = 0
        BY <1>6, <3>1
      <3>2. CASE i # 0
        <4>1. i \in 1..n
          BY <1>2, <3>2
        <4> QED  BY <1>7, <3>2, <4>1
      <3> QED  BY <3>1, <3>2
    <2>3. g = [i \in 0..n |-> g[i]]
      BY <1>6
    <2> HIDE DEF step, e
    <2> QED  BY <2>1, <2>2, <2>3
  <1> HIDE DEF step, next
  <1>9. split = step(split)
    BY <1>8, Zenon
  <1> HIDE DEF split
  <1>10. \A i \in 0..n : split[i] = g[i]
    <2> DEFINE T == {i \in 0..n : split[i] # g[i]}
    <2>1. SUFFICES ASSUME T # {} PROVE FALSE
      OBVIOUS
    <2>2. T \in SUBSET Nat
      BY <1>2
    <2>3. PICK m \in T : \A k \in T : m <= k
      BY <2>1, <2>2, HasLeast
    <2>4. m \in 0..n /\ split[m] # g[m]
      OBVIOUS
    <2>5. split[m] = IF m = 0 THEN << >> ELSE next(m, split[m - 1])
      BY <1>9, <2>4 DEF step, next
    <2>6. CASE m = 0
      BY <1>6, <2>4, <2>5, <2>6
    <2>7. CASE m # 0
      <3>1. m \in 1..n /\ m - 1 \in 0..n /\ ~(m <= m - 1)
        BY <1>2, <2>4, <2>7
      <3> HIDE DEF T
      <3>2. m - 1 \notin T
        BY <2>3, <3>1
      <3>3. split[m - 1] = g[m - 1]
        BY <3>1, <3>2 DEF T
      <3> QED  BY <1>7, <2>4, <2>5, <2>7, <3>1, <3>3
    <2> QED  BY <2>6, <2>7
  <1>11. split[n] \in S
    BY <1>2, <1>6, <1>10
  <1> QED  BY <1>1, <1>11 DEF S

(* Flattening puts one sequence after the other behind those before it: g[i] *)
(* is what the first i of them make.                                        *)
IsFlattening(g, R, seqs) ==
    /\ g \in [0..Len(seqs) -> Seq(R)] /\ g[0] = << >>
    /\ \A i \in 1..Len(seqs) : g[i - 1] \in Seq(R) /\ g[i] \in Seq(R) /\ g[i] = g[i - 1] \o seqs[i]

(* FlattenSeq has a solution: what it returns is what such a g makes of all.*)
LEMMA FlattenSolution ==
    ASSUME NEW R, NEW seqs \in Seq(Seq(R))
    PROVE  \E g : IsFlattening(g, R, seqs) /\ FlattenSeq(seqs) = g[Len(seqs)]
  <1> DEFINE n == Len(seqs)
             S == Seq(R)
             F == [p \in (1..n) \X S |-> p[2] \o seqs[p[1]]]
             step(f) == [i \in 1..n |-> IF i = 1 THEN seqs[i] ELSE f[i - 1] \o seqs[i]]
             flatten == CHOOSE f : f = step(f)
  <1>1. n \in Nat /\ \A i \in 1..n : seqs[i] \in S
    OBVIOUS
  <1>2. /\ n # 0 => FlattenSeq(seqs) = flatten[n]
        /\ n = 0 => FlattenSeq(seqs) = seqs /\ seqs = << >>
    <2>1. n # 0 => FlattenSeq(seqs) = flatten[n]
      BY Zenon DEF FlattenSeq
    <2>2. n = 0 => FlattenSeq(seqs) = seqs /\ seqs = << >>
      BY DEF FlattenSeq
    <2> QED  BY <2>1, <2>2
  <1>3. \A q, r \in S : /\ q \o r \in S /\ Len(q \o r) = Len(q) + Len(r)
                        /\ Len(q) \in Nat /\ Len(r) \in Nat
    OBVIOUS
  <1>4. << >> \in S /\ \A q \in S : << >> \o q = q
    OBVIOUS
  <1> HIDE DEF S
  <1>5. IsStep(F, n, S)
    BY <1>1, <1>3 DEF IsStep
  <1>6. \A i \in 1..n, q \in S : F[<<i, q>>] = q \o seqs[i]
    OBVIOUS
  <1> HIDE DEF F, n
  <1>7. PICK g \in [0..n -> S] : g[0] = << >> /\ \A i \in 1..n : g[i] = F[<<i, g[i - 1]>>]
    <2>1. n \in Nat
      BY <1>1
    <2>2. \E g : IsSolution(g, F, n, S, << >>)
      BY <1>4, <1>5, <2>1, RecursionHasSolution, Zenon
    <2> QED  BY <2>2 DEF IsSolution
  <1>8. \A i \in 1..n : g[i - 1] \in S /\ g[i] \in S /\ g[i] = g[i - 1] \o seqs[i]
    <2> SUFFICES ASSUME NEW i \in 1..n PROVE g[i - 1] \in S /\ g[i] \in S /\ g[i] = g[i - 1] \o seqs[i]
      OBVIOUS
    <2>1. g[i - 1] \in S /\ g[i] \in S
      BY <1>1, <1>7
    <2> QED  BY <1>6, <1>7, <2>1
  <1> DEFINE h == [i \in 1..n |-> g[i]]
  <1>9. h = step(h)
    <2>1. \A i \in 1..n : h[i] = IF i = 1 THEN seqs[i] ELSE h[i - 1] \o seqs[i]
      <3> SUFFICES ASSUME NEW i \in 1..n PROVE h[i] = IF i = 1 THEN seqs[i] ELSE h[i - 1] \o seqs[i]
        OBVIOUS
      <3>1. h[i] = g[i - 1] \o seqs[i]
        BY <1>8
      <3>2. CASE i = 1
        <4>1. g[i - 1] = << >> /\ seqs[i] \in S
          BY <1>1, <1>7, <3>2
        <4> QED  BY <1>4, <3>1, <3>2, <4>1
      <3>3. CASE i # 1
        <4>1. i - 1 \in 1..n
          BY <1>1, <3>3
        <4> QED  BY <3>1, <3>3, <4>1
      <3> QED  BY <3>2, <3>3
    <2> DEFINE e(i) == IF i = 1 THEN seqs[i] ELSE h[i - 1] \o seqs[i]
    <2>2. step(h) = [i \in 1..n |-> e(i)]
      OBVIOUS
    <2>3. \A i \in 1..n : g[i] = e(i)
      BY <2>1
    <2> HIDE DEF step, e
    <2> QED  BY <2>2, <2>3
  <1> HIDE DEF h, step
  <1>10. flatten = step(flatten)
    BY <1>9, Zenon
  <1> HIDE DEF flatten
  <1>11. \A i \in 1..n : flatten[i] = g[i]
    <2> DEFINE T == {i \in 1..n : flatten[i] # g[i]}
    <2>1. SUFFICES ASSUME T # {} PROVE FALSE
      OBVIOUS
    <2>2. T \in SUBSET Nat
      BY <1>1
    <2>3. PICK m \in T : \A k \in T : m <= k
      BY <2>1, <2>2, HasLeast
    <2>4. m \in 1..n /\ flatten[m] # g[m]
      OBVIOUS
    <2>5. flatten[m] = IF m = 1 THEN seqs[m] ELSE flatten[m - 1] \o seqs[m]
      BY <1>10, <2>4 DEF step
    <2>6. g[m] = g[m - 1] \o seqs[m]
      BY <1>8, <2>4
    <2>7. CASE m = 1
      <3>1. g[m - 1] = << >> /\ seqs[m] \in S
        BY <1>1, <1>7, <2>4, <2>7
      <3> QED  BY <1>4, <2>4, <2>5, <2>6, <2>7, <3>1
    <2>8. CASE m # 1
      <3>1. m - 1 \in 1..n /\ ~(m <= m - 1)
        BY <1>1, <2>4, <2>8
      <3> HIDE DEF T
      <3>2. m - 1 \notin T
        BY <2>3, <3>1
      <3>3. flatten[m - 1] = g[m - 1]
        BY <3>1, <3>2 DEF T
      <3> QED  BY <2>4, <2>5, <2>6, <2>8, <3>3
    <2> QED  BY <2>7, <2>8
  <1>12. FlattenSeq(seqs) = g[n]
    <2>1. CASE n = 0
      BY <1>2, <1>7, <2>1
    <2>2. CASE n # 0
      <3>1. n \in 1..n
        BY <1>1, <2>2
      <3> QED  BY <1>2, <1>11, <2>2, <3>1
    <2> QED  BY <2>1, <2>2
  <1>13. IsFlattening(g, R, seqs)
    BY <1>7, <1>8 DEF IsFlattening, n, S
  <1> QED  BY <1>12, <1>13 DEF n

(* A recursion of this kind has one solution, up to where it goes.          *)
Grows(g, n, seqs) == \A i \in 1..n : g[i] = g[i - 1] \o seqs[i]
Agree(n, seqs, more) == \A i \in 1..n : seqs[i] = more[i]

(* What two such recursions have made of equal sequences is equal.          *)
LEMMA FlattenUnique ==
    ASSUME NEW n, NEW g, NEW h, NEW seqs, NEW more, n \in Nat,
           g[0] = h[0], Grows(g, n, seqs), Grows(h, n, more), Agree(n, seqs, more)
    PROVE  g[n] = h[n]
  <1> USE DEF Grows, Agree
  <1> DEFINE T == {i \in 0..n : g[i] # h[i]}
  <1>1. SUFFICES ASSUME T # {} PROVE FALSE
    OBVIOUS
  <1>2. T \in SUBSET Nat
    OBVIOUS
  <1>3. PICK m \in T : \A k \in T : m <= k
    BY <1>1, <1>2, HasLeast
  <1>4. m \in 0..n /\ g[m] # h[m]
    OBVIOUS
  <1>5. m # 0
    BY <1>4
  <1>6. m \in 1..n /\ m - 1 \in 0..n /\ ~(m <= m - 1)
    BY <1>4, <1>5
  <1> HIDE DEF T
  <1>7. m - 1 \notin T
    BY <1>3, <1>6
  <1>8. g[m - 1] = h[m - 1]
    BY <1>6, <1>7 DEF T
  <1> QED  BY <1>4, <1>6, <1>8

-----------------------------------------------------------------------------
(* Parts of a frame. *)

(* Division rounds down, by less than one.                                  *)
LEMMA DivisionRoundsDown ==
    ASSUME NEW a \in Nat, NEW b \in Nat \ {0}
    PROVE  a \div b \in Nat /\ (a \div b) * b <= a /\ a < (a \div b + 1) * b
  OBVIOUS

(* What is sent of a NAL unit in one packet, and where that begins; the     *)
(* receiver puts the header byte back in front of a first fragment.         *)
PartType == [kind : {"single", "fu"}, start : BOOLEAN, end : BOOLEAN, from : Nat, to : Nat]
Begin(part) == IF part.start THEN 0 ELSE part.from

(* The parts q cover a NAL unit of n bytes without gap or overlap, and only *)
(* the first and the last are marked as such.                               *)
IsPiece(part, k, count, n) ==
    /\ part \in PartType
    /\ part.start <=> k = 1
    /\ part.end <=> k = count
    /\ part.end <=> part.to = n - 1
    /\ Begin(part) <= part.to /\ part.to < n
Covers(q, n) ==
    /\ Len(q) \in Nat \ {0} /\ DOMAIN q = 1..Len(q)
    /\ \A k \in 1..Len(q) : IsPiece(q[k], k, Len(q), n)
    /\ \A k \in 1..Len(q) - 1 : q[k + 1].from = q[k].to + 1

(* PacketizeSingleNalu and PacketizeFragmentedNalu send each byte once.     *)
LEMMA NaluIsCovered ==
    ASSUME NEW n \in Nat \ {0}
    PROVE  Covers(PacketizeNalu(n), n)
  <1>1. CASE n <= MaxPayload
    <2> DEFINE part == [kind |-> "single", start |-> TRUE, end |-> TRUE, from |-> 0, to |-> n - 1]
    <2>1. PacketizeNalu(n) = <<part>>
      BY <1>1 DEF PacketizeNalu
    <2>2. IsPiece(part, 1, 1, n)
      BY DEF IsPiece, PartType, Begin
    <2> HIDE DEF part
    <2>3. Len(<<part>>) = 1 /\ DOMAIN <<part>> = 1..1 /\ <<part>>[1] = part
      OBVIOUS
    <2> QED  BY <2>1, <2>2, <2>3 DEF Covers
  <1>2. CASE ~(n <= MaxPayload)
    <2> DEFINE c == FragmentCount(n)
               q == [i \in 1..c |-> Fragment(n, i)]
               At(i) == i * Room
    <2>1. n - 2 \in Nat /\ Room \in Nat \ {0}
      BY <1>2, Parameters DEF Room
    <2>2. c \in Nat \ {0} /\ At(c - 1) <= n - 2 /\ n - 2 < At(c)
      <3> DEFINE d == (n - 2) \div Room
      <3>1. d \in Nat /\ d * Room <= n - 2 /\ n - 2 < (d + 1) * Room
        BY <2>1, DivisionRoundsDown
      <3>2. c = d + 1
        BY DEF FragmentCount
      <3> HIDE DEF d, c
      <3>3. c \in Nat \ {0} /\ c - 1 = d
        BY <3>1, <3>2
      <3> QED  BY <3>1, <3>2, <3>3
    <2>3. PacketizeNalu(n) = q
      BY <1>2 DEF PacketizeNalu
    <2>4. \A i \in Nat : At(i) \in Nat /\ At(i + 1) = At(i) + Room
      BY <2>1
    <2>5. \A i, j \in Nat : i <= j => At(i) <= At(j)
      BY <2>1
    <2>6. \A i \in 1..c : Fragment(n, i) =
              [kind |-> "fu", start |-> i = 1, end |-> At(i) + 1 >= n,
               from |-> At(i - 1) + 1, to |-> Least(At(i), n - 1)]
      BY DEF Fragment
    <2> HIDE DEF c, At
    <2>7. ASSUME NEW i \in 1..c
          PROVE  /\ At(i) \in Nat /\ At(i - 1) \in Nat /\ At(i) = At(i - 1) + Room
                 /\ At(i - 1) <= n - 2
                 /\ i # c => At(i) <= n - 2
                 /\ i = c => n - 2 < At(i)
      <3>1. i - 1 \in Nat /\ i \in Nat /\ c - 1 \in Nat /\ i - 1 <= c - 1 /\ (i - 1) + 1 = i
        BY <2>2
      <3>2. At(i) \in Nat /\ At(i - 1) \in Nat /\ At(c - 1) \in Nat
        BY <2>4, <3>1
      <3>3. At(i) = At(i - 1) + Room
        BY <2>4, <3>1
      <3>4. At(i - 1) <= n - 2
        <4>1. At(i - 1) <= At(c - 1)
          BY <2>5, <3>1
        <4> QED  BY <2>1, <2>2, <3>2, <4>1
      <3>5. i # c => At(i) <= n - 2
        <4> SUFFICES ASSUME i # c PROVE At(i) <= n - 2
          OBVIOUS
        <4>1. i <= c - 1
          BY <2>2
        <4>2. At(i) <= At(c - 1)
          BY <2>5, <3>1, <4>1
        <4> QED  BY <2>1, <2>2, <3>2, <4>2
      <3> QED  BY <2>2, <3>2, <3>3, <3>4, <3>5
    <2>8. \A i \in 1..c : Fragment(n, i).to = (IF i = c THEN n - 1 ELSE At(i))
      <3> SUFFICES ASSUME NEW i \in 1..c
                   PROVE  Fragment(n, i).to = IF i = c THEN n - 1 ELSE At(i)
        OBVIOUS
      <3>1. Fragment(n, i).to = Least(At(i), n - 1)
        BY <2>6
      <3> QED  BY <2>1, <2>7, <3>1 DEF Least
    <2>9. \A i \in 1..c : IsPiece(Fragment(n, i), i, c, n)
      <3> SUFFICES ASSUME NEW i \in 1..c PROVE IsPiece(Fragment(n, i), i, c, n)
        OBVIOUS
      <3> DEFINE part == Fragment(n, i)
      <3>1. /\ part = [kind |-> part.kind, start |-> part.start, end |-> part.end,
                       from |-> part.from, to |-> part.to]
            /\ part.kind = "fu" /\ (part.start <=> i = 1) /\ (part.end <=> At(i) + 1 >= n)
            /\ part.start \in BOOLEAN /\ part.end \in BOOLEAN
            /\ part.from = At(i - 1) + 1 /\ part.to = (IF i = c THEN n - 1 ELSE At(i))
        <4> DEFINE begins == i = 1
                   ends == At(i) + 1 >= n
        <4>1. part = [kind |-> "fu", start |-> begins, end |-> ends,
                      from |-> At(i - 1) + 1, to |-> Least(At(i), n - 1)]
          BY <2>6
        <4>2. part.to = IF i = c THEN n - 1 ELSE At(i)
          BY <2>8
        <4>3. begins \in BOOLEAN /\ ends \in BOOLEAN
          OBVIOUS
        <4> HIDE DEF part, begins, ends
        <4>4. /\ part = [kind |-> part.kind, start |-> part.start, end |-> part.end,
                         from |-> part.from, to |-> part.to]
              /\ part.kind = "fu" /\ part.start = begins /\ part.end = ends
              /\ part.from = At(i - 1) + 1
          BY <4>1
        <4> QED  BY <4>2, <4>3, <4>4 DEF begins, ends
      <3> HIDE DEF part
      <3>2. part.from \in Nat /\ part.to \in Nat /\ part.from <= part.to /\ part.to < n
        BY <2>1, <2>7, <3>1
      <3>3. (part.end <=> i = c) /\ (part.end <=> part.to = n - 1)
        BY <2>1, <2>7, <3>1
      <3>5. part \in PartType
        BY <3>1, <3>2 DEF PartType
      <3> QED  BY <3>1, <3>2, <3>3, <3>5 DEF IsPiece, Begin, part
    <2>10. \A i \in 1..c - 1 : Fragment(n, i + 1).from = Fragment(n, i).to + 1
      <3> SUFFICES ASSUME NEW i \in 1..c - 1
                   PROVE  Fragment(n, i + 1).from = Fragment(n, i).to + 1
        OBVIOUS
      <3>1. i \in 1..c /\ i + 1 \in 1..c /\ i # c /\ (i + 1) - 1 = i
        BY <2>2
      <3>2. Fragment(n, i + 1).from = At((i + 1) - 1) + 1
        BY <2>6, <3>1
      <3> QED  BY <2>8, <3>1, <3>2
    <2>11. Len(q) = c /\ DOMAIN q = 1..c /\ \A i \in 1..c : q[i] = Fragment(n, i)
      BY <2>2
    <2>12. \A i \in 1..c - 1 : q[i + 1].from = q[i].to + 1
      <3>1. \A i \in 1..c - 1 : i \in 1..c /\ i + 1 \in 1..c
        BY <2>2
      <3> HIDE DEF q
      <3> QED  BY <2>10, <2>11, <3>1
    <2> HIDE DEF q
    <2> QED  BY <2>2, <2>3, <2>9, <2>11, <2>12 DEF Covers
  <1> QED  BY <1>1, <1>2

(* The parts q carry the NAL units from i to n: the next part goes on where *)
(* one ends, in the same NAL unit or at the beginning of the next.          *)
PartRecord == [part : PartType, nalu : Nat, marker : BOOLEAN]
IsPart(e, nalus) ==
    /\ e \in PartRecord
    /\ e.nalu \in 1..Len(nalus)
    /\ e.part.end <=> e.part.to = nalus[e.nalu] - 1
    /\ Begin(e.part) <= e.part.to /\ e.part.to < nalus[e.nalu]
    /\ e.marker <=> e.part.end /\ e.nalu = Len(nalus)
Follows(d, e) ==
    IF d.part.end THEN e.part.start /\ e.nalu = d.nalu + 1
    ELSE ~e.part.start /\ e.nalu = d.nalu /\ e.part.from = d.part.to + 1
Starts(e, n) == e.part.start /\ e.nalu = n
Ends(e, n) == e.part.end /\ e.nalu = n
Chain(q, nalus, i, n) ==
    /\ q \in Seq(PartRecord) /\ Len(q) # 0
    /\ \A k \in 1..Len(q) : IsPart(q[k], nalus) /\ q[k].nalu <= n
    /\ Starts(q[1], i) /\ Ends(q[Len(q)], n)
    /\ \A k \in 1..Len(q) - 1 : Follows(q[k], q[k + 1])

(* The parts of some NAL units and those of the next ones are a chain.      *)
LEMMA JoinChains ==
    ASSUME NEW nalus, NEW q, NEW w, NEW i \in Nat, NEW n \in Nat, NEW m \in Nat,
           Chain(q, nalus, i, n), Chain(w, nalus, n + 1, m), n < m
    PROVE  Chain(q \o w, nalus, i, m)
  <1> DEFINE a == Len(q)
             b == Len(w)
             s == q \o w
             Fits(e) == IsPart(e, nalus)
  <1>1. /\ q \in Seq(PartRecord) /\ w \in Seq(PartRecord)
        /\ a \in Nat \ {0} /\ b \in Nat \ {0}
    BY DEF Chain
  <1>2. /\ \A k \in 1..a : Fits(q[k]) /\ q[k].nalu <= n
        /\ \A k \in 1..b : Fits(w[k]) /\ w[k].nalu <= m
        /\ Starts(q[1], i) /\ Ends(q[a], n) /\ Starts(w[1], n + 1) /\ Ends(w[b], m)
        /\ \A k \in 1..a - 1 : Follows(q[k], q[k + 1])
        /\ \A k \in 1..b - 1 : Follows(w[k], w[k + 1])
    BY DEF Chain
  <1>3. /\ s \in Seq(PartRecord) /\ Len(s) = a + b
        /\ \A k \in 1..a : s[k] = q[k]
        /\ \A k \in a + 1..a + b : s[k] = w[k - a]
    <2> DEFINE R == PartRecord
    <2>1. q \in Seq(R) /\ w \in Seq(R)
      BY <1>1
    <2> HIDE DEF R
    <2>2. /\ s \in Seq(R) /\ Len(s) = a + b
          /\ \A k \in 1..a : s[k] = q[k]
          /\ \A k \in a + 1..a + b : s[k] = w[k - a]
      BY <2>1
    <2> QED  BY <2>2 DEF R
  <1>4. \A k \in 1..a : Fits(q[k]) => q[k].nalu \in Nat
    BY <1>2 DEF IsPart, PartRecord
  <1> HIDE DEF a, b, s, Fits
  <1>5. \A k \in a + 1..a + b : k - a \in 1..b
    BY <1>1
  <1>6. \A k \in 1..a + b : Fits(s[k]) /\ s[k].nalu <= m
    <2> SUFFICES ASSUME NEW k \in 1..a + b PROVE Fits(s[k]) /\ s[k].nalu <= m
      OBVIOUS
    <2>1. CASE k \in 1..a
      <3>1. s[k] = q[k] /\ Fits(q[k]) /\ q[k].nalu <= n /\ q[k].nalu \in Nat
        BY <1>2, <1>3, <1>4, <2>1
      <3> QED  BY <3>1
    <2>2. CASE k \in a + 1..a + b
      BY <1>2, <1>3, <1>5, <2>2
    <2>3. k \in 1..a \/ k \in a + 1..a + b
      BY <1>1
    <2> QED  BY <2>1, <2>2, <2>3
  <1>7. Starts(s[1], i) /\ Ends(s[a + b], m)
    <2>1. 1 \in 1..a /\ a + b \in a + 1..a + b /\ (a + b) - a = b
      BY <1>1
    <2>2. s[1] = q[1] /\ s[a + b] = w[(a + b) - a]
      BY <1>3, <2>1
    <2> QED  BY <1>2, <2>1, <2>2
  <1>8. \A k \in 1..(a + b) - 1 : Follows(s[k], s[k + 1])
    <2> SUFFICES ASSUME NEW k \in 1..(a + b) - 1 PROVE Follows(s[k], s[k + 1])
      OBVIOUS
    <2>1. CASE k < a
      <3>1. k \in 1..a /\ k + 1 \in 1..a /\ k \in 1..a - 1
        BY <1>1, <2>1
      <3> QED  BY <1>2, <1>3, <3>1
    <2>2. CASE k = a
      <3>1. a \in 1..a /\ a + 1 \in a + 1..a + b /\ (a + 1) - a = 1
        BY <1>1
      <3>2. s[a] = q[a] /\ s[a + 1] = w[(a + 1) - a]
        BY <1>3, <3>1
      <3>3. s[a] = q[a] /\ s[a + 1] = w[1]
        BY <3>1, <3>2
      <3> QED  BY <1>2, <2>2, <3>3 DEF Follows, Starts, Ends
    <2>3. CASE k > a
      <3>1. k \in a + 1..a + b /\ k + 1 \in a + 1..a + b /\ k - a \in 1..b - 1
            /\ (k + 1) - a = (k - a) + 1
        BY <1>1, <2>3
      <3>2. s[k] = w[k - a] /\ s[k + 1] = w[(k - a) + 1]
        BY <1>3, <3>1
      <3> QED  BY <1>2, <3>1, <3>2
    <2> QED  BY <1>1, <2>1, <2>2, <2>3
  <1>9. Len(s) # 0 /\ Len(s) - 1 = (a + b) - 1
    BY <1>1, <1>3
  <1> QED  BY <1>3, <1>6, <1>7, <1>8, <1>9 DEF Chain, s, Fits

(* The parts of one NAL unit of a frame. *)
NaluParts(nalus, i) ==
    [k \in 1..Len(PacketizeNalu(nalus[i])) |->
        [part |-> PacketizeNalu(nalus[i])[k], nalu |-> i,
         marker |-> Marker(PacketizeNalu(nalus[i])[k], i, nalus)]]

(* PacketizeNalu cuts a NAL unit into a chain that begins and ends with it. *)
LEMMA NaluIsChain ==
    ASSUME NEW nalus \in Seq(Nat \ {0}), NEW i \in 1..Len(nalus)
    PROVE  Chain(NaluParts(nalus, i), nalus, i, i)
  <1> DEFINE n == nalus[i]
             parts == PacketizeNalu(n)
             c == Len(parts)
             e(k) == [part |-> parts[k], nalu |-> i, marker |-> Marker(parts[k], i, nalus)]
             q == [k \in 1..c |-> e(k)]
  <1>1. n \in Nat \ {0} /\ i \in Nat
    OBVIOUS
  <1>2. /\ c \in Nat \ {0}
        /\ \A k \in 1..c : IsPiece(parts[k], k, c, n)
        /\ \A k \in 1..c - 1 : parts[k + 1].from = parts[k].to + 1
    BY <1>1, NaluIsCovered DEF Covers
  <1>3. NaluParts(nalus, i) = q
    BY DEF NaluParts
  <1> HIDE DEF parts, c
  <1>4. \A k \in 1..c : /\ IsPart(e(k), nalus) /\ e(k).nalu = i /\ e(k).part = parts[k]
                        /\ e(k) \in PartRecord
    <2> SUFFICES ASSUME NEW k \in 1..c
                 PROVE  /\ IsPart(e(k), nalus) /\ e(k).nalu = i /\ e(k).part = parts[k]
                        /\ e(k) \in PartRecord
      OBVIOUS
    <2> DEFINE part == parts[k]
    <2>1. /\ part \in PartType /\ (part.end <=> part.to = n - 1)
          /\ Begin(part) <= part.to /\ part.to < n
      BY <1>2 DEF IsPiece
    <2>2. e(k) = [part |-> part, nalu |-> i, marker |-> (part.end /\ i = Len(nalus))]
      BY DEF Marker
    <2> HIDE DEF part, e, n
    <2>3. e(k).part = part /\ e(k).nalu = i /\ (e(k).marker <=> part.end /\ i = Len(nalus))
      <3> DEFINE m == part.end /\ i = Len(nalus)
      <3>1. e(k) = [part |-> part, nalu |-> i, marker |-> m]
        BY <2>2
      <3> HIDE DEF m
      <3>2. e(k).part = part /\ e(k).nalu = i /\ e(k).marker = m
        BY <3>1
      <3> QED  BY <3>2 DEF m
    <2>4. e(k) \in PartRecord
      <3>1. (part.end /\ i = Len(nalus)) \in BOOLEAN
        OBVIOUS
      <3> QED  BY <1>1, <2>1, <2>2, <3>1 DEF PartRecord
    <2>5. IsPart(e(k), nalus)
      BY <2>1, <2>3, <2>4 DEF IsPart, n
    <2> QED  BY <2>3, <2>4, <2>5 DEF part
  <1> HIDE DEF e
  <1>5. Len(q) = c /\ q \in Seq(PartRecord) /\ \A k \in 1..c : q[k] = e(k)
    <2>1. q \in [1..c -> PartRecord]
      BY <1>4
    <2> QED  BY <1>2, <2>1
  <1> HIDE DEF q
  <1>6. \A k \in 1..c - 1 : Follows(q[k], q[k + 1])
    <2> SUFFICES ASSUME NEW k \in 1..c - 1 PROVE Follows(q[k], q[k + 1])
      OBVIOUS
    <2>1. k \in 1..c /\ k + 1 \in 1..c /\ k # c /\ k + 1 # 1
      BY <1>2
    <2>2. ~parts[k].end /\ ~parts[k + 1].start /\ parts[k + 1].from = parts[k].to + 1
      BY <1>2, <2>1 DEF IsPiece
    <2> QED  BY <1>4, <1>5, <2>1, <2>2 DEF Follows
  <1>7. Starts(q[1], i) /\ Ends(q[c], i)
    <2>1. 1 \in 1..c /\ c \in 1..c
      BY <1>2
    <2>2. parts[1].start /\ parts[c].end
      BY <1>2, <2>1 DEF IsPiece
    <2> QED  BY <1>4, <1>5, <2>1, <2>2 DEF Starts, Ends
  <1>8. \A k \in 1..c : IsPart(q[k], nalus) /\ q[k].nalu <= i
    BY <1>1, <1>4, <1>5
  <1> QED  BY <1>2, <1>3, <1>5, <1>6, <1>7, <1>8 DEF Chain

(* Packetize cuts a frame into a chain of parts of all its NAL units, in    *)
(* order; a frame without any has no parts.                                 *)
LEMMA FrameIsChain ==
    ASSUME NEW shape \in Seq(Nat)
    PROVE  LET nalus == SplitAnnexBNalus(shape)
           IN  IF nalus = << >> THEN Parts(shape) = << >>
               ELSE Chain(Parts(shape), nalus, 1, Len(nalus))
  <1> DEFINE nalus == SplitAnnexBNalus(shape)
             n == Len(nalus)
             seqs == [i \in 1..n |-> NaluParts(nalus, i)]
  <1>1. nalus \in Seq(Nat \ {0}) /\ n \in Nat
    BY SplitIsSequence
  <1>2. Parts(shape) = FlattenSeq(seqs)
    BY Zenon DEF Parts, NaluParts
  <1> HIDE DEF nalus
  <1>3. \A i \in 1..n : Chain(NaluParts(nalus, i), nalus, i, i)
    BY <1>1, NaluIsChain
  <1>4. \A i \in 1..n : NaluParts(nalus, i) \in Seq(PartRecord)
    BY <1>3 DEF Chain
  <1>5. seqs \in Seq(Seq(PartRecord)) /\ Len(seqs) = n /\ \A i \in 1..n : seqs[i] = NaluParts(nalus, i)
    <2> DEFINE R == Seq(PartRecord)
    <2>1. seqs \in [1..n -> R]
      BY <1>4
    <2> HIDE DEF R
    <2>2. seqs \in Seq(R) /\ Len(seqs) = n
      BY <1>1, <2>1
    <2> QED  BY <2>2 DEF R
  <1>6. PICK g : IsFlattening(g, PartRecord, seqs) /\ FlattenSeq(seqs) = g[Len(seqs)]
    BY <1>5, FlattenSolution
  <1> HIDE DEF seqs, n
  <1>7. /\ g[0] = << >> /\ FlattenSeq(seqs) = g[n]
        /\ \A i \in 1..n : g[i] = g[i - 1] \o NaluParts(nalus, i)
    BY <1>5, <1>6 DEF IsFlattening
  <1>8. \A m \in 1..n : Chain(g[m], nalus, 1, m)
    <2> DEFINE T == {m \in 1..n : ~Chain(g[m], nalus, 1, m)}
    <2>1. SUFFICES ASSUME T # {} PROVE FALSE
      OBVIOUS
    <2>2. T \in SUBSET Nat
      BY <1>1
    <2>3. PICK m \in T : \A k \in T : m <= k
      BY <2>1, <2>2, HasLeast
    <2>4. m \in 1..n /\ ~Chain(g[m], nalus, 1, m)
      OBVIOUS
    <2>5. g[m] = g[m - 1] \o NaluParts(nalus, m) /\ Chain(NaluParts(nalus, m), nalus, m, m)
      BY <1>3, <1>7, <2>4
    <2>6. CASE m = 1
      <3>1. NaluParts(nalus, m) \in Seq(PartRecord) /\ g[m - 1] = << >>
        BY <1>4, <1>7, <2>4, <2>6
      <3>2. g[m] = NaluParts(nalus, m)
        <4> DEFINE R == PartRecord
                   x == NaluParts(nalus, m)
        <4>1. x \in Seq(R)
          BY <3>1
        <4> HIDE DEF R, x
        <4>2. << >> \o x = x
          BY <4>1
        <4> QED  BY <2>5, <3>1, <4>2 DEF x
      <3> QED  BY <2>4, <2>5, <2>6, <3>2
    <2>7. CASE m # 1
      <3>1. /\ m - 1 \in 1..n /\ m - 1 \in Nat /\ m \in Nat
            /\ ~(m <= m - 1) /\ (m - 1) + 1 = m /\ m - 1 < m
        BY <1>1, <2>4, <2>7
      <3> HIDE DEF T
      <3>2. m - 1 \notin T
        BY <2>3, <3>1
      <3>3. Chain(g[m - 1], nalus, 1, m - 1)
        BY <3>1, <3>2 DEF T
      <3>4. Chain(NaluParts(nalus, m), nalus, (m - 1) + 1, m)
        BY <2>5, <3>1
      <3>5. Chain(g[m - 1] \o NaluParts(nalus, m), nalus, 1, m)
        BY <3>1, <3>3, <3>4, JoinChains
      <3> QED  BY <2>4, <2>5, <3>5
    <2> QED  BY <2>6, <2>7
  <1>9. CASE nalus = << >>
    <2>1. n = 0
      BY <1>9 DEF n
    <2> QED  BY <1>2, <1>7, <1>9, <2>1 DEF nalus
  <1>10. CASE nalus # << >>
    <2>1. n \in 1..n
      BY <1>1, <1>10 DEF n
    <2> QED  BY <1>2, <1>7, <1>8, <1>10, <2>1 DEF nalus, n
  <1> QED  BY <1>9, <1>10 DEF nalus

(* Packetize returns packets exactly for a frame with a NAL unit. *)
LEMMA FrameHasPackets ==
    ASSUME NEW shape \in Seq(Nat), NEW capture, NEW first
    PROVE  /\ Len(Parts(shape)) \in Nat
           /\ Len(Packetize(shape, capture, first)) = Len(Parts(shape))
           /\ Len(Parts(shape)) = 0 <=> SplitAnnexBNalus(shape) = << >>
  <1> DEFINE all == Parts(shape)
             packet(k) ==
                 [header |-> WriteRtpHeader([marker |-> all[k].marker, payloadType |-> ServerPt,
                                             seq |-> first + k - 1, ts |-> BuildTimestamp(capture)],
                                            IF config.ext THEN BuildRtpLatencyHeaderExtension(capture)
                                            ELSE << >>),
                  part |-> all[k].part, nalu |-> all[k].nalu,
                  frame |-> Len(frames) + 1, index |-> k, last |-> k = Len(all)]
  <1>1. Packetize(shape, capture, first) = [k \in 1..Len(all) |-> packet(k)]
    BY Zenon DEF Packetize
  <1>2. CASE SplitAnnexBNalus(shape) = << >>
    <2>1. all = << >>
      BY <1>2, FrameIsChain
    <2>2. Len(all) = 0
      BY <2>1
    <2> QED  BY <1>1, <1>2, <2>2
  <1>3. CASE SplitAnnexBNalus(shape) # << >>
    <2>1. Chain(all, SplitAnnexBNalus(shape), 1, Len(SplitAnnexBNalus(shape)))
      BY <1>3, FrameIsChain
    <2>2. all \in Seq(PartRecord) /\ Len(all) # 0
      BY <2>1 DEF Chain
    <2>3. Len(all) \in Nat \ {0}
      BY <2>2
    <2> HIDE DEF all, packet
    <2>4. Len([k \in 1..Len(all) |-> packet(k)]) = Len(all)
      BY <2>3
    <2> QED  BY <1>1, <1>3, <2>3, <2>4 DEF all
  <1> QED  BY <1>2, <1>3

(* What is known of part k of a frame. *)
LEMMA PartsFit ==
    ASSUME NEW shape \in Seq(Nat)
    PROVE  /\ SplitAnnexBNalus(shape) \in Seq(Nat \ {0})
           /\ Parts(shape) \in Seq(PartRecord)
           /\ \A k \in 1..Len(Parts(shape)) :
                 /\ IsPart(Parts(shape)[k], SplitAnnexBNalus(shape))
                 /\ Parts(shape)[k].marker <=> k = Len(Parts(shape))
           /\ \A k \in 1..Len(Parts(shape)) - 1 : Follows(Parts(shape)[k], Parts(shape)[k + 1])
           /\ Len(Parts(shape)) # 0 =>
                 /\ Starts(Parts(shape)[1], 1)
                 /\ Ends(Parts(shape)[Len(Parts(shape))], Len(SplitAnnexBNalus(shape)))
  <1> DEFINE nalus == SplitAnnexBNalus(shape)
             n == Len(nalus)
             parts == Parts(shape)
             c == Len(parts)
             Fits(e) == IsPart(e, nalus)
  <1>1. nalus \in Seq(Nat \ {0}) /\ n \in Nat
    BY SplitIsSequence
  <1>2. /\ nalus = << >> => parts = << >>
        /\ nalus # << >> => Chain(parts, nalus, 1, n)
    BY FrameIsChain
  <1>3. CASE nalus = << >>
    <2>1. parts = << >>
      BY <1>2, <1>3
    <2> HIDE DEF parts, nalus
    <2>2. c = 0 /\ parts \in Seq(PartRecord)
      BY <2>1
    <2> QED  BY <1>1, <2>2 DEF parts, nalus
  <1>4. CASE nalus # << >>
    <2>1. Chain(parts, nalus, 1, n)
      BY <1>2, <1>4
    <2> HIDE DEF parts, nalus
    <2>2. /\ parts \in Seq(PartRecord) /\ c # 0
          /\ \A k \in 1..c : Fits(parts[k]) /\ parts[k].nalu <= n
          /\ Starts(parts[1], 1) /\ Ends(parts[c], n)
          /\ \A k \in 1..c - 1 : Follows(parts[k], parts[k + 1])
      BY <2>1 DEF Chain
    <2>3. c \in Nat \ {0}
      BY <2>2
    <2>4. \A k \in 1..c : parts[k].marker <=> k = c
      <3> SUFFICES ASSUME NEW k \in 1..c PROVE parts[k].marker <=> k = c
        OBVIOUS
      <3>1. (parts[k].marker <=> parts[k].part.end /\ parts[k].nalu = n) /\ parts[k].nalu \in Nat
        BY <2>2 DEF IsPart, PartRecord
      <3>2. CASE k = c
        BY <2>2, <3>1, <3>2 DEF Ends
      <3>3. CASE k # c
        <4> SUFFICES ASSUME parts[k].part.end, parts[k].nalu = n PROVE FALSE
          BY <3>1, <3>3
        <4>1. k \in 1..c - 1 /\ k + 1 \in 1..c
          BY <2>3, <3>3
        <4>2. parts[k + 1].nalu = n + 1 /\ parts[k + 1].nalu <= n
          BY <2>2, <4>1 DEF Follows
        <4> QED  BY <1>1, <4>2
      <3> QED  BY <3>2, <3>3
    <2> QED  BY <1>1, <2>2, <2>4 DEF parts, nalus, Fits
  <1> QED  BY <1>3, <1>4

(* Later parts belong to the same NAL unit or to a later one. *)
LEMMA PartsInOrder ==
    ASSUME NEW shape \in Seq(Nat), NEW i \in 1..Len(Parts(shape)), NEW k \in i..Len(Parts(shape))
    PROVE  Parts(shape)[i].nalu <= Parts(shape)[k].nalu
  <1> DEFINE parts == Parts(shape)
             c == Len(parts)
             T == {x \in i..c : ~(parts[i].nalu <= parts[x].nalu)}
  <1>1. /\ c \in Nat /\ \A x \in 1..c : parts[x].nalu \in Nat
        /\ \A x \in 1..c - 1 : Follows(parts[x], parts[x + 1])
    <2>1. parts \in Seq(PartRecord) /\ \A x \in 1..c : IsPart(parts[x], SplitAnnexBNalus(shape))
      BY PartsFit
    <2>2. \A x \in 1..c : parts[x].nalu \in Nat
      BY <2>1 DEF IsPart, PartRecord
    <2> QED  BY <2>1, <2>2, PartsFit
  <1> HIDE DEF parts, c
  <1>2. SUFFICES ASSUME T # {} PROVE FALSE
    BY DEF parts, c
  <1>3. i \in 1..c
    BY DEF parts, c
  <1>4. T \in SUBSET Nat
    BY <1>1, <1>3
  <1>5. PICK m \in T : \A x \in T : m <= x
    BY <1>2, <1>4, HasLeast
  <1>6. m \in i..c /\ ~(parts[i].nalu <= parts[m].nalu)
    OBVIOUS
  <1>7. m # i
    BY <1>1, <1>3, <1>6
  <1>8. m - 1 \in i..c /\ m - 1 \in 1..c - 1 /\ m \in 1..c /\ (m - 1) + 1 = m /\ ~(m <= m - 1)
    BY <1>1, <1>3, <1>6, <1>7
  <1> HIDE DEF T
  <1>9. m - 1 \notin T
    BY <1>5, <1>8
  <1>10. parts[i].nalu <= parts[m - 1].nalu
    BY <1>8, <1>9 DEF T
  <1>11. Follows(parts[m - 1], parts[m])
    BY <1>1, <1>8
  <1>12. parts[m - 1].nalu <= parts[m].nalu
    <2>1. parts[m - 1].nalu \in Nat
      BY <1>1, <1>8
    <2> QED  BY <1>11, <2>1 DEF Follows
  <1>13. parts[i].nalu \in Nat /\ parts[m - 1].nalu \in Nat /\ parts[m].nalu \in Nat
    BY <1>1, <1>3, <1>8
  <1> QED  BY <1>6, <1>10, <1>12, <1>13

-----------------------------------------------------------------------------
(* Bytes. *)

(* The receiver's record of a part e of frame f, and those of parts i to k. *)
Piece(f, e) == [frame |-> f, nalu |-> e.nalu, from |-> Begin(e.part), to |-> e.part.to]
Pieces(f, shape, i, k) == [x \in 1..k - i + 1 |-> Piece(f, Parts(shape)[i + x - 1])]

(* The bytes a to b of NAL unit n of frame f. *)
Byte == Nat \X Nat \X Nat
Segment(f, n, a, b) == [x \in 1..b - a + 1 |-> <<f, n, a + x - 1>>]

(* A segment is a sequence of bytes.                                        *)
LEMMA SegmentIsBytes ==
    ASSUME NEW f \in Nat, NEW n \in Nat, NEW a \in Nat, NEW b \in Nat, a <= b
    PROVE  Segment(f, n, a, b) \in Seq(Byte)
  <1>1. b - a + 1 \in Nat /\ \A x \in 1..b - a + 1 : a + x - 1 \in Nat
    OBVIOUS
  <1>2. \A x \in 1..b - a + 1 : <<f, n, a + x - 1>> \in Byte
    BY <1>1 DEF Byte
  <1> HIDE DEF Byte
  <1>3. [x \in 1..b - a + 1 |-> <<f, n, a + x - 1>>] \in [1..b - a + 1 -> Byte]
    BY <1>2
  <1> QED  BY <1>1, <1>3 DEF Segment

(* A segment and the one that goes on where it ends.                        *)
Joined(f, n, a, b, c) ==
    /\ Segment(f, n, a, b) \in Seq(Byte) /\ Segment(f, n, b + 1, c) \in Seq(Byte)
    /\ Segment(f, n, a, b) \o Segment(f, n, b + 1, c) = Segment(f, n, a, c)

(* Two segments, one after the other, are one.                              *)
LEMMA SegmentsJoin ==
    ASSUME NEW f \in Nat, NEW n \in Nat, NEW a \in Nat, NEW b \in Nat, NEW c \in Nat,
           a <= b, b < c
    PROVE  Joined(f, n, a, b, c)
  <1> DEFINE At(y) == <<f, n, y>>
             Part(y, z) == [x \in 1..z - y + 1 |-> At(y + x - 1)]
             s == Part(a, b)
             t == Part(b + 1, c)
             u == Part(a, c)
  <1>1. \A y \in Nat : At(y) \in Byte
    BY DEF Byte
  <1>2. Segment(f, n, a, b) = s /\ Segment(f, n, b + 1, c) = t /\ Segment(f, n, a, c) = u
    BY DEF Segment
  <1> HIDE DEF At
  <1>3. ASSUME NEW y \in Nat, NEW z \in Nat, y <= z
        PROVE  /\ Part(y, z) \in Seq(Byte) /\ Len(Part(y, z)) = z - y + 1
               /\ \A x \in 1..z - y + 1 : Part(y, z)[x] = At(y + x - 1)
    <2>1. \A x \in 1..z - y + 1 : At(y + x - 1) \in Byte
      BY <1>1
    <2>2. z - y + 1 \in Nat
      BY <1>3
    <2> HIDE DEF Byte
    <2> QED  BY <2>1, <2>2
  <1>4. /\ s \in Seq(Byte) /\ Len(s) = b - a + 1 /\ \A x \in 1..b - a + 1 : s[x] = At(a + x - 1)
    BY <1>3
  <1>5. /\ t \in Seq(Byte) /\ Len(t) = c - (b + 1) + 1
        /\ \A x \in 1..c - (b + 1) + 1 : t[x] = At(b + 1 + x - 1)
    <2>1. b + 1 \in Nat /\ b + 1 <= c
      OBVIOUS
    <2> QED  BY <1>3, <2>1
  <1>6. /\ u \in Seq(Byte) /\ Len(u) = c - a + 1 /\ \A x \in 1..c - a + 1 : u[x] = At(a + x - 1)
    <2>1. a <= c
      OBVIOUS
    <2> QED  BY <1>3, <2>1
  <1> HIDE DEF s, t, u, Part
  <1>7. /\ s \o t \in Seq(Byte) /\ Len(s \o t) = Len(s) + Len(t)
        /\ \A x \in 1..Len(s) + Len(t) : (s \o t)[x] = IF x <= Len(s) THEN s[x] ELSE t[x - Len(s)]
    BY <1>4, <1>5, ConcatProperties
  <1>8. Len(s \o t) = Len(u)
    BY <1>4, <1>5, <1>6, <1>7
  <1>9. \A x \in 1..Len(s \o t) : (s \o t)[x] = u[x]
    <2> SUFFICES ASSUME NEW x \in 1..Len(s \o t) PROVE (s \o t)[x] = u[x]
      OBVIOUS
    <2>1. x \in 1..c - a + 1 /\ x \in 1..Len(s) + Len(t) /\ u[x] = At(a + x - 1)
      BY <1>6, <1>7, <1>8
    <2>2. CASE x <= Len(s)
      <3>1. x \in 1..b - a + 1
        BY <1>4, <2>1, <2>2
      <3> QED  BY <1>4, <1>7, <2>1, <2>2, <3>1
    <2>3. CASE ~(x <= Len(s))
      <3>1. /\ x - Len(s) \in 1..c - (b + 1) + 1
            /\ b + 1 + (x - Len(s)) - 1 = a + x - 1
        <4>1. Len(s) = b - a + 1
          BY <1>4
        <4>2. x \in 1..c - a + 1
          BY <2>1
        <4> QED  BY <2>3, <4>1, <4>2
      <3>2. t[x - Len(s)] = At(b + 1 + (x - Len(s)) - 1)
        BY <1>5, <3>1
      <3>3. (s \o t)[x] = t[x - Len(s)]
        BY <1>7, <2>1, <2>3
      <3> QED  BY <2>1, <3>1, <3>2, <3>3
    <2> QED  BY <2>2, <2>3
  <1>10. s \o t = u
    BY <1>6, <1>7, <1>8, <1>9, SeqEqual
  <1> QED  BY <1>2, <1>4, <1>5, <1>10 DEF Joined

(* Consecutive parts of a frame, from the first one of a NAL unit to the    *)
(* last of all, hold the bytes of the frame from that NAL unit on.          *)
LEMMA PiecesAreBytes ==
    ASSUME NEW f \in Nat, frames[f].shape \in Seq(Nat),
           NEW i \in 1..Len(Parts(frames[f].shape)), Parts(frames[f].shape)[i].part.start
    PROVE  LET shape == frames[f].shape
               j == Parts(shape)[i].nalu
           IN  /\ j \in 1..Len(SplitAnnexBNalus(shape))
               /\ PayloadBytes(Pieces(f, shape, i, Len(Parts(shape)))) = FrameBytes(f, j)
  <1> DEFINE shape == frames[f].shape
             nalus == SplitAnnexBNalus(shape)
             n == Len(nalus)
             parts == Parts(shape)
             c == Len(parts)
             j == parts[i].nalu
             part(x) == parts[i + x - 1]
             m == c - i + 1
             payload == Pieces(f, shape, i, c)
             segs == [x \in 1..Len(payload) |->
                        [b \in 1..payload[x].to - payload[x].from + 1 |->
                            <<payload[x].frame, payload[x].nalu, payload[x].from + b - 1>>]]
             Seg(x) == Segment(f, part(x).nalu, Begin(part(x).part), part(x).part.to)
             units == [x \in 1..n |-> IF x < j THEN << >> ELSE [b \in 1..nalus[x] |-> <<f, x, b - 1>>]]
             Unit(x) == IF x < j THEN << >> ELSE Segment(f, x, 0, nalus[x] - 1)
  <1>1. PayloadBytes(payload) = FlattenSeq(segs)
    BY Zenon DEF PayloadBytes
  <1>2. FrameBytes(f, j) = FlattenSeq(units)
    BY Zenon DEF FrameBytes
  <1>3. /\ nalus \in Seq(Nat \ {0}) /\ parts \in Seq(PartRecord)
        /\ \A k \in 1..c : IsPart(parts[k], nalus)
        /\ \A k \in 1..c - 1 : Follows(parts[k], parts[k + 1])
        /\ c # 0 => Ends(parts[c], n)
    BY PartsFit
  <1>4. \A k \in i..c : j <= parts[k].nalu
    BY PartsInOrder
  <1>5. i \in 1..c /\ parts[i].part.start
    OBVIOUS
  <1>6. payload = [x \in 1..m |-> Piece(f, part(x))]
    BY DEF Pieces
  <1>7. n \in Nat /\ c \in Nat \ {0} /\ m \in Nat \ {0} /\ \A x \in 1..n : nalus[x] \in Nat \ {0}
    <2>1. c \in Nat /\ n \in Nat /\ \A x \in 1..n : nalus[x] \in Nat \ {0}
      BY <1>3
    <2> QED  BY <1>5, <2>1
  <1> HIDE DEF parts, nalus, shape, payload, n, c, j, m
  <1>8. \A x \in 1..m : i + x - 1 \in i..c /\ i + x - 1 \in 1..c
    BY <1>5, <1>7 DEF m
  <1>9. \A x \in 1..m : IsPart(part(x), nalus) /\ j <= part(x).nalu
    BY <1>3, <1>4, <1>8
  <1>10. \A x \in 1..m : /\ part(x).nalu \in 1..n /\ part(x).part.to \in Nat
                         /\ Begin(part(x).part) \in Nat /\ Begin(part(x).part) <= part(x).part.to
                         /\ (part(x).part.end <=> part(x).part.to = nalus[part(x).nalu] - 1)
    <2> SUFFICES ASSUME NEW x \in 1..m
                 PROVE  /\ part(x).nalu \in 1..n /\ part(x).part.to \in Nat
                        /\ Begin(part(x).part) \in Nat /\ Begin(part(x).part) <= part(x).part.to
                        /\ (part(x).part.end <=> part(x).part.to = nalus[part(x).nalu] - 1)
      OBVIOUS
    <2> DEFINE e == part(x)
    <2>1. IsPart(e, nalus)
      BY <1>9
    <2> HIDE DEF e
    <2>2. e.part \in PartType
      BY <2>1 DEF IsPart, PartRecord
    <2>3. e.part.to \in Nat /\ Begin(e.part) \in Nat
      BY <2>2 DEF PartType, Begin
    <2>4. /\ e.nalu \in 1..n /\ Begin(e.part) <= e.part.to
          /\ (e.part.end <=> e.part.to = nalus[e.nalu] - 1)
      BY <2>1 DEF IsPart, n
    <2> QED  BY <2>3, <2>4 DEF e
  <1>11. j \in 1..n
    <2>1. 1 \in 1..m /\ i + 1 - 1 = i
      BY <1>5, <1>7
    <2>2. part(1) = parts[i]
      BY <2>1
    <2> HIDE DEF part
    <2> QED  BY <1>10, <2>1, <2>2 DEF j
  <1>12. \A x \in 1..m - 1 : part(x + 1) = parts[(i + x - 1) + 1] /\ Follows(part(x), part(x + 1))
    <2> SUFFICES ASSUME NEW x \in 1..m - 1
                 PROVE part(x + 1) = parts[(i + x - 1) + 1] /\ Follows(part(x), part(x + 1))
      OBVIOUS
    <2>1. i + x - 1 \in 1..c - 1 /\ i + (x + 1) - 1 = (i + x - 1) + 1
      BY <1>5, <1>7 DEF m
    <2> QED  BY <1>3, <2>1
  <1>13. part(1).part.start /\ part(1).nalu = j /\ Ends(part(m), n)
    <2>1. i + 1 - 1 = i /\ i + m - 1 = c /\ c # 0
      BY <1>5, <1>7 DEF m
    <2>2. part(1) = parts[i] /\ part(m) = parts[c]
      BY <2>1
    <2> QED  BY <1>3, <1>5, <2>1, <2>2 DEF j
  <1> HIDE DEF part
  <1>14. \A x \in 1..m : Seg(x) \in Seq(Byte)
    <2> SUFFICES ASSUME NEW x \in 1..m PROVE Seg(x) \in Seq(Byte)
      OBVIOUS
    <2> DEFINE a == Begin(part(x).part)
               b == part(x).part.to
               y == part(x).nalu
    <2>1. a \in Nat /\ b \in Nat /\ a <= b /\ y \in Nat
      BY <1>7, <1>10
    <2> HIDE DEF a, b, y
    <2>2. Segment(f, y, a, b) \in Seq(Byte)
      BY <2>1, SegmentIsBytes
    <2> QED  BY <2>2 DEF a, b, y
  <1>15. \A x \in 1..n : Unit(x) \in Seq(Byte)
    <2> SUFFICES ASSUME NEW x \in 1..n PROVE Unit(x) \in Seq(Byte)
      OBVIOUS
    <2>1. nalus[x] - 1 \in Nat /\ 0 <= nalus[x] - 1 /\ x \in Nat
      BY <1>7
    <2>2. Segment(f, x, 0, nalus[x] - 1) \in Seq(Byte)
      BY <2>1, SegmentIsBytes
    <2>3. << >> \in Seq(Byte)
      OBVIOUS
    <2> QED  BY <2>2, <2>3
  <1>16. segs = [x \in 1..m |-> Seg(x)]
    <2> DEFINE seg(x) == [b \in 1..payload[x].to - payload[x].from + 1 |->
                            <<payload[x].frame, payload[x].nalu, payload[x].from + b - 1>>]
    <2>1. Len(payload) = m /\ \A x \in 1..m : payload[x] = Piece(f, part(x))
      BY <1>6, <1>7
    <2>2. \A x \in 1..m : seg(x) = Seg(x)
      BY <2>1 DEF Piece, Segment
    <2>3. segs = [x \in 1..Len(payload) |-> seg(x)]
      OBVIOUS
    <2> HIDE DEF seg, Seg
    <2> QED  BY <2>1, <2>2, <2>3
  <1>17. units = [x \in 1..n |-> Unit(x)]
    <2> DEFINE unit(x) == IF x < j THEN << >> ELSE [b \in 1..nalus[x] |-> <<f, x, b - 1>>]
    <2>1. \A x \in 1..n : unit(x) = Unit(x)
      <3> SUFFICES ASSUME NEW x \in 1..n PROVE unit(x) = Unit(x)
        OBVIOUS
      <3> DEFINE w == nalus[x]
      <3>1. w \in Nat
        BY <1>7
      <3> HIDE DEF w
      <3>2. (w - 1) - 0 + 1 = w /\ \A b \in 1..w : 0 + b - 1 = b - 1
        BY <3>1
      <3>3. [b \in 1..(w - 1) - 0 + 1 |-> <<f, x, 0 + b - 1>>] = [b \in 1..w |-> <<f, x, b - 1>>]
        BY <3>2
      <3> QED  BY <3>3 DEF Segment, w
    <2> HIDE DEF unit, Unit
    <2>2. units = [x \in 1..n |-> unit(x)]
      BY DEF unit
    <2> QED  BY <2>1, <2>2
  <1> HIDE DEF segs, units
  <1>18. /\ segs \in Seq(Seq(Byte)) /\ Len(segs) = m /\ \A x \in 1..m : segs[x] = Seg(x)
         /\ units \in Seq(Seq(Byte)) /\ Len(units) = n /\ \A x \in 1..n : units[x] = Unit(x)
    <2> DEFINE R == Seq(Byte)
    <2>1. \A x \in 1..m : Seg(x) \in R
      BY <1>14
    <2>2. \A x \in 1..n : Unit(x) \in R
      BY <1>15
    <2> HIDE DEF R, Seg, Unit
    <2>3. segs \in [1..m -> R] /\ units \in [1..n -> R]
      BY <1>16, <1>17, <2>1, <2>2
    <2>4. segs \in Seq(R) /\ Len(segs) = m /\ units \in Seq(R) /\ Len(units) = n
      BY <1>7, <2>3
    <2> QED  BY <1>16, <1>17, <2>4 DEF R
  <1>19. PICK g : IsFlattening(g, Byte, segs) /\ FlattenSeq(segs) = g[Len(segs)]
    BY <1>18, FlattenSolution
  <1>20. PICK u : IsFlattening(u, Byte, units) /\ FlattenSeq(units) = u[Len(units)]
    BY <1>18, FlattenSolution
  <1> HIDE DEF Byte, Seg, Unit
  <1>21. g[0] = << >> /\ FlattenSeq(segs) = g[m] /\ \A x \in 1..m : g[x] = g[x - 1] \o segs[x]
    BY <1>18, <1>19 DEF IsFlattening
  <1>22. /\ u[0] = << >> /\ FlattenSeq(units) = u[n]
         /\ \A x \in 1..n : u[x - 1] \in Seq(Byte) /\ u[x] = u[x - 1] \o Unit(x)
    BY <1>18, <1>20 DEF IsFlattening
  (* Nothing comes before NAL unit j. *)
  <1>23. u[j - 1] = << >>
    <2> DEFINE h == [x \in 0..j - 1 |-> << >>]
               nil == [x \in 1..j - 1 |-> << >>]
    <2>1. j - 1 \in Nat /\ \A x \in 1..j - 1 : x \in 1..n /\ x < j
      BY <1>7, <1>11
    <2>2. \A x \in 1..j - 1 : units[x] = nil[x]
      BY <1>18, <2>1 DEF Unit
    <2>3. \A x \in 1..j - 1 : u[x] = u[x - 1] \o units[x]
      BY <1>18, <1>22, <2>1
    <2>4. \A x \in 1..j - 1 : h[x] = h[x - 1] \o nil[x]
      <3>1. << >> \o << >> = << >>
        OBVIOUS
      <3>2. \A x \in 1..j - 1 : h[x] = << >> /\ h[x - 1] = << >> /\ nil[x] = << >>
        BY <2>1
      <3> HIDE DEF h, nil
      <3> QED  BY <3>1, <3>2
    <2>5. h[0] = u[0] /\ h[j - 1] = << >>
      BY <1>22, <2>1
    <2> HIDE DEF h, nil
    <2>6. Grows(u, j - 1, units) /\ Grows(h, j - 1, nil) /\ Agree(j - 1, units, nil)
      BY <2>2, <2>3, <2>4 DEF Grows, Agree
    <2>7. u[0] = h[0] /\ j - 1 \in Nat
      BY <2>1, <2>5
    <2>8. u[j - 1] = h[j - 1]
      BY <2>6, <2>7, FlattenUnique, Zenon
    <2> QED  BY <2>5, <2>8
  (* After x parts: the NAL units before that of part x, and of that what     *)
  (* has been sent up to part x.                                             *)
  <1> DEFINE UpTo(x) == u[part(x).nalu - 1] \o Segment(f, part(x).nalu, 0, part(x).part.to)
             h == [x \in 0..m |-> IF x = 0 THEN << >> ELSE UpTo(x)]
  <1>24. \A x \in 1..m : Seg(x) \in Seq(Byte) /\ << >> \o Seg(x) = Seg(x)
    <2> SUFFICES ASSUME NEW x \in 1..m PROVE Seg(x) \in Seq(Byte) /\ << >> \o Seg(x) = Seg(x)
      OBVIOUS
    <2>1. Seg(x) \in Seq(Byte)
      BY <1>14
    <2> QED  BY <2>1, ConcatEmptySeq
  <1>25. \A x \in 1..m : part(x).part.end => UpTo(x) = u[part(x).nalu]
    <2> SUFFICES ASSUME NEW x \in 1..m, part(x).part.end PROVE UpTo(x) = u[part(x).nalu]
      OBVIOUS
    <2>1. part(x).nalu \in 1..n /\ part(x).part.to = nalus[part(x).nalu] - 1 /\ j <= part(x).nalu
      BY <1>9, <1>10
    <2>2. Unit(part(x).nalu) = Segment(f, part(x).nalu, 0, nalus[part(x).nalu] - 1)
      BY <1>7, <1>11, <2>1 DEF Unit
    <2> QED  BY <1>22, <2>1, <2>2
  <1>26. UpTo(1) = Seg(1)
    <2>1. 1 \in 1..m /\ Begin(part(1).part) = 0
      BY <1>7, <1>13 DEF Begin
    <2>2. UpTo(1) = << >> \o Segment(f, part(1).nalu, 0, part(1).part.to)
      BY <1>13, <1>23
    <2>3. Seg(1) = Segment(f, part(1).nalu, 0, part(1).part.to)
      BY <2>1 DEF Seg
    <2> QED  BY <1>24, <2>1, <2>2, <2>3
  <1>27. \A x \in 1..m - 1 : UpTo(x + 1) = UpTo(x) \o Seg(x + 1)
    <2> SUFFICES ASSUME NEW x \in 1..m - 1 PROVE UpTo(x + 1) = UpTo(x) \o Seg(x + 1)
      OBVIOUS
    <2> DEFINE d == part(x)
               e == part(x + 1)
    <2>1. x \in 1..m /\ x + 1 \in 1..m
      BY <1>7
    <2>2. /\ d.nalu \in 1..n /\ d.part.to \in Nat /\ e.nalu \in 1..n /\ e.part.to \in Nat
          /\ Begin(e.part) \in Nat /\ Begin(e.part) <= e.part.to
          /\ Follows(d, e)
      BY <1>10, <1>12, <2>1
    <2>3. Seg(x + 1) = Segment(f, e.nalu, Begin(e.part), e.part.to)
      BY DEF Seg
    <2>4. d.part.end => UpTo(x) = u[d.nalu]
      BY <1>25, <2>1
    <2>5. /\ UpTo(x) = u[d.nalu - 1] \o Segment(f, d.nalu, 0, d.part.to)
          /\ UpTo(x + 1) = u[e.nalu - 1] \o Segment(f, e.nalu, 0, e.part.to)
      OBVIOUS
    <2> HIDE DEF UpTo, d, e
    <2>6. CASE d.part.end
      <3>1. e.part.start /\ e.nalu = d.nalu + 1 /\ Begin(e.part) = 0
        BY <2>2, <2>6 DEF Follows, Begin
      <3>2. e.nalu - 1 = d.nalu
        BY <1>7, <2>2, <3>1
      <3> QED  BY <2>3, <2>4, <2>5, <2>6, <3>1, <3>2
    <2>7. CASE ~d.part.end
      <3>1. ~e.part.start /\ e.nalu = d.nalu /\ Begin(e.part) = d.part.to + 1
        BY <2>2, <2>7 DEF Follows, Begin
      <3>2. /\ d.nalu \in Nat /\ 0 <= d.part.to /\ d.part.to < e.part.to
        BY <1>7, <2>2, <3>1
      <3> DEFINE s == Segment(f, d.nalu, 0, d.part.to)
                 t == Segment(f, d.nalu, d.part.to + 1, e.part.to)
                 v == u[d.nalu - 1]
      <3>3. s \in Seq(Byte) /\ t \in Seq(Byte) /\ s \o t = Segment(f, d.nalu, 0, e.part.to)
        <4> DEFINE a == d.part.to
                   b == e.part.to
                   y == d.nalu
        <4>1. 0 \in Nat /\ y \in Nat /\ a \in Nat /\ b \in Nat /\ 0 <= a /\ a < b
          BY <2>2, <3>2
        <4> HIDE DEF a, b, y
        <4>2. Joined(f, y, 0, a, b)
          BY <4>1, SegmentsJoin
        <4> QED  BY <4>2, Zenon DEF Joined, a, b, y, s, t
      <3>4. v \in Seq(Byte)
        BY <1>22, <2>2
      <3>5. UpTo(x) = v \o s /\ Seg(x + 1) = t /\ UpTo(x + 1) = v \o Segment(f, d.nalu, 0, e.part.to)
        BY <2>3, <2>5, <3>1
      <3> HIDE DEF s, t, v
      <3>6. (v \o s) \o t = v \o (s \o t)
        <4>1. v \in Seq(Byte) /\ s \in Seq(Byte) /\ t \in Seq(Byte)
          BY <3>3, <3>4
        <4>2. \A B : \A p, q, r \in Seq(B) : (p \o q) \o r = p \o (q \o r)
          BY ConcatAssociative
        <4> QED  BY <4>1, <4>2
      <3> QED  BY <3>3, <3>5, <3>6
    <2> QED  BY <2>6, <2>7
  <1>28. h[0] = g[0] /\ h[m] = UpTo(m) /\ \A x \in 1..m : h[x] = h[x - 1] \o segs[x]
    <2>1. \A x \in 1..m : segs[x] = Seg(x)
      BY <1>18
    <2> HIDE DEF UpTo
    <2>2. h[0] = << >> /\ \A x \in 1..m : h[x] = UpTo(x)
      <3>1. 0 \in 0..m /\ \A x \in 1..m : x \in 0..m /\ x # 0
        BY <1>7
      <3> QED  BY <3>1
    <2> HIDE DEF h
    <2>3. ASSUME NEW x \in 1..m PROVE h[x] = h[x - 1] \o segs[x]
      <3>1. CASE x = 1
        <4>1. h[x - 1] = << >> /\ h[x] = UpTo(1) /\ << >> \o Seg(1) = Seg(1) /\ segs[x] = Seg(1)
          BY <1>24, <2>1, <2>2, <3>1
        <4> QED  BY <1>26, <4>1
      <3>2. CASE x # 1
        <4>1. x - 1 \in 1..m - 1 /\ x - 1 \in 1..m /\ (x - 1) + 1 = x
          BY <1>7, <3>2
        <4>2. UpTo((x - 1) + 1) = UpTo(x - 1) \o Seg((x - 1) + 1)
          BY <1>27, <4>1
        <4> QED  BY <2>1, <2>2, <4>1, <4>2
      <3> QED  BY <3>1, <3>2
    <2>4. m \in 1..m
      BY <1>7
    <2> QED  BY <1>21, <2>2, <2>3, <2>4
  <1>29. g[m] = h[m]
    <2>1. m \in Nat /\ g[0] = h[0]
      BY <1>7, <1>28
    <2> HIDE DEF h
    <2>2. Grows(g, m, segs) /\ Grows(h, m, segs) /\ Agree(m, segs, segs)
      BY <1>21, <1>28 DEF Grows, Agree
    <2> QED  BY <2>1, <2>2, FlattenUnique, Zenon
  <1>30. UpTo(m) = u[n]
    <2>1. m \in 1..m /\ part(m).part.end /\ part(m).nalu = n
      BY <1>7, <1>13 DEF Ends
    <2> HIDE DEF UpTo
    <2> QED  BY <1>25, <2>1
  <1>31. PayloadBytes(payload) = FrameBytes(f, j)
    BY <1>1, <1>2, <1>21, <1>22, <1>28, <1>29, <1>30
  <1> QED  BY <1>11, <1>31 DEF payload, n, nalus, j, parts, c, shape

-----------------------------------------------------------------------------
(* Pacing. *)

(* The frames of the present start that had packets. *)
Paced == {m \in 1..Len(frames) : /\ frames[m].start = starts
                                 /\ SplitAnnexBNalus(frames[m].shape) # << >>}

(* Frames are captured one after the other, by starts that were made. *)
Frame == [shape : Shapes, capture : Nat \ {0}, start : Nat, first : 0..Numbers - 1]
FramesFit ==
    /\ seqNo \in 0..Numbers - 1
    /\ Len(frames) <= MaxFrames
    /\ starts \in Nat
    /\ frames \in Seq(Frame)
    /\ \A m \in 1..Len(frames) : /\ frames[m].start <= starts
                                 /\ frames[m].capture = m * Gap
                                 /\ frames[m].capture <= frames[Len(frames)].capture

(* While the socket is open the next interval is measured from the last     *)
(* frame of this start that had packets; stop forgets it, and only stop     *)
(* makes way for the next start.                                            *)
PrevFits == server.fd /\ Paced # {} => prev = frames[Max(Paced)].capture

BurstShape == burst = [packets |-> burst.packets, total |-> burst.total,
                       interval |-> burst.interval]

PacingInv == FramesFit /\ PrevFits /\ BurstShape /\ PacingKeepsUp

(* Shares of a window that is a share of the gap: all waits of a burst,     *)
(* times Fraction, fit into the gap.                                        *)
LEMMA WaitsFitGap ==
    ASSUME NEW capture \in Nat \ {0}, prev \in Nat, prev # 0, prev < capture,
           NEW count \in Nat \ {0}
    PROVE  ComputePacingInterval(count, capture) * (count - 1) * Fraction <= capture - prev
  <1> DEFINE gap == capture - prev
             share == gap \div Fraction
             window == Least(MaxWindow, share)
             each == window \div (count - 1)
             paces == ~(count < PacedFrom \/ window < MinInterval \/ each < MinInterval)
  <1>1. gap \in Nat /\ Fraction \in Nat \ {0} /\ MaxWindow \in Nat
        /\ PacedFrom \in Nat /\ PacedFrom > 1
    BY Parameters
  <1>2. ComputePacingInterval(count, capture) = IF paces THEN each ELSE 0
    BY DEF ComputePacingInterval
  <1>3. CASE ~paces
    <2>1. 0 * (count - 1) * Fraction = 0
      BY <1>1
    <2> HIDE DEF paces
    <2> QED  BY <1>1, <1>2, <1>3, <2>1
  <1>4. CASE paces
    <2>1. count - 1 \in Nat \ {0}
      BY <1>1, <1>4
    <2> HIDE DEF paces, gap
    <2>2. share \in Nat /\ share * Fraction <= gap
      BY <1>1, DivisionRoundsDown
    <2> HIDE DEF share
    <2>3. window \in Nat /\ window <= share
      BY <1>1, <2>2 DEF Least
    <2> HIDE DEF window
    <2>4. each \in Nat /\ each * (count - 1) <= window
      BY <2>1, <2>3, DivisionRoundsDown
    <2> HIDE DEF each
    <2>5. each * (count - 1) \in Nat /\ each * (count - 1) <= share
      BY <2>1, <2>2, <2>3, <2>4
    <2>6. \A x, y \in Nat : x <= y => x * Fraction <= y * Fraction
      BY <1>1
    <2>7. each * (count - 1) * Fraction <= share * Fraction
      BY <2>2, <2>5, <2>6
    <2>8. each * (count - 1) * Fraction <= gap
      <3>1. each * (count - 1) * Fraction \in Nat /\ share * Fraction \in Nat
        BY <1>1, <2>2, <2>5
      <3> QED  BY <1>1, <2>2, <2>7, <3>1
    <2> QED  BY <1>2, <1>4, <2>8 DEF gap
  <1> QED  BY <1>3, <1>4

(* What is known of a single frame of the history. *)
LEMMA FrameTypes ==
    ASSUME FramesFit
    PROVE  /\ Len(frames) \in Nat /\ starts \in Nat
           /\ \A m \in 1..Len(frames) :
                  /\ frames[m] \in Frame
                  /\ frames[m].start \in Nat /\ frames[m].start <= starts
                  /\ frames[m].capture = m * Gap
                  /\ frames[m].capture <= frames[Len(frames)].capture
  <1>1. frames \in Seq(Frame) /\ starts \in Nat
    BY DEF FramesFit
  <1>2. \A m \in 1..Len(frames) : /\ frames[m].start <= starts
                                  /\ frames[m].capture = m * Gap
                                  /\ frames[m].capture <= frames[Len(frames)].capture
    BY Zenon DEF FramesFit
  <1>3. \A r \in Frame : r.start \in Nat
    BY DEF Frame
  <1>4. Len(frames) \in Nat /\ \A m \in 1..Len(frames) : frames[m] \in Frame
    BY <1>1
  <1> QED  BY <1>1, <1>2, <1>3, <1>4, Zenon

(* Before the first start nothing is paced. *)
LEMMA InitFits == Init => PacingInv
  <1> SUFFICES ASSUME Init PROVE PacingInv
    OBVIOUS
  <1>1. frames = << >> /\ starts = 0 /\ seqNo = 0 /\ server.fd = FALSE /\ burst = NoBurst
    BY DEF Init
  <1>2. FramesFit
    BY <1>1, Parameters DEF FramesFit
  <1>3. PrevFits
    BY <1>1 DEF PrevFits
  <1>4. BurstShape /\ PacingKeepsUp
    BY <1>1 DEF BurstShape, PacingKeepsUp, NoBurst
  <1> QED  BY <1>2, <1>3, <1>4 DEF PacingInv

(* What another step of the server or any step of the client leaves alone.  *)
LEMMA PacingUntouched ==
    ASSUME PacingInv, UNCHANGED <<server, starts, seqNo, frames, prev, burst>>
    PROVE  PacingInv'
  BY DEF PacingInv, FramesFit, PrevFits, Paced, BurstShape, PacingKeepsUp

(* A new start finds no frame of its own. *)
LEMMA PacingStart ==
    ASSUME PacingInv, NEW how \in StartOutcomes, NEW first \in FirstNumbers, Start(how, first)
    PROVE  PacingInv'
  <1>1. starts' = starts + 1 /\ starts \in Nat /\ UNCHANGED <<frames, prev, burst>>
    BY DEF PacingInv, FramesFit, Start
  <1>2. FramesFit'
    <2>1. \A m \in 1..Len(frames) : frames[m].start \in Nat
      BY FrameTypes DEF PacingInv
    <2>2. seqNo' = first \/ seqNo' = seqNo
      BY DEF Start
    <2>3. seqNo' \in 0..Numbers - 1
      BY <2>2, Parameters DEF PacingInv, FramesFit
    <2> QED  BY <1>1, <2>1, <2>3 DEF PacingInv, FramesFit
  <1>3. PrevFits'
    <2>1. \A m \in 1..Len(frames) : frames[m].start \in Nat /\ frames[m].start <= starts
      BY FrameTypes DEF PacingInv
    <2>2. \A m \in 1..Len(frames) : frames[m].start # starts + 1
      BY <1>1, <2>1
    <2>3. Paced' = {}
      BY <1>1, <2>2 DEF Paced
    <2> QED  BY <2>3 DEF PrevFits
  <1>4. BurstShape' /\ PacingKeepsUp'
    BY <1>1 DEF PacingInv, BurstShape, PacingKeepsUp
  <1> QED  BY <1>2, <1>3, <1>4 DEF PacingInv

(* stop closes the socket; no burst is under way. *)
LEMMA PacingStop ==
    ASSUME PacingInv, Stop
    PROVE  PacingInv'
  <1>1. server'.fd = FALSE /\ UNCHANGED <<starts, seqNo, frames, burst>>
    BY DEF Stop
  <1>2. PrevFits'
    BY <1>1 DEF PrevFits
  <1>3. FramesFit' /\ BurstShape' /\ PacingKeepsUp'
    BY <1>1 DEF PacingInv, FramesFit, BurstShape, PacingKeepsUp
  <1> QED  BY <1>2, <1>3 DEF PacingInv

(* A burst goes on with the interval it began with, or ends. *)
LEMMA PacingSend ==
    ASSUME PacingInv, SendPacket \/ SendFails
    PROVE  PacingInv'
  <1>1. UNCHANGED <<server, starts, seqNo, frames, prev>> /\ burst # NoBurst
    BY DEF SendPacket, SendFails
  <1>2. \/ burst' = NoBurst
        \/ burst' = [burst EXCEPT !.packets = Tail(@)]
    BY DEF SendPacket, SendFails
  <1>3. FramesFit' /\ PrevFits'
    BY <1>1 DEF PacingInv, FramesFit, PrevFits, Paced
  <1>4. CASE burst' = NoBurst
    BY <1>3, <1>4 DEF PacingInv, BurstShape, PacingKeepsUp, NoBurst
  <1>5. CASE burst' = [burst EXCEPT !.packets = Tail(@)]
    <2>1. burst = [packets |-> burst.packets, total |-> burst.total, interval |-> burst.interval]
      BY DEF PacingInv, BurstShape
    <2>2. burst' = [packets |-> Tail(burst.packets), total |-> burst.total,
                    interval |-> burst.interval]
      BY <1>5, <2>1
    <2>3. BurstShape' /\ burst'.total = burst.total /\ burst'.interval = burst.interval
      BY <2>2 DEF BurstShape
    <2>4. PacingKeepsUp'
      BY <1>1, <2>3 DEF PacingInv, PacingKeepsUp
    <2> QED  BY <1>3, <2>3, <2>4 DEF PacingInv
  <1> QED  BY <1>2, <1>4, <1>5

(* A frame with packets is measured from the last one of its start, and the *)
(* next is measured from it.                                                *)
LEMMA PacingBroadcast ==
    ASSUME PacingInv, NEW shape \in Shapes, Broadcast(shape)
    PROVE  PacingInv'
  <1> DEFINE n == Len(frames)
             last == IF frames = << >> THEN 0 ELSE Last(frames).capture
             capture == last + Gap
             packets == Packetize(shape, capture, seqNo)
             count == Len(packets)
             new == [shape |-> shape, capture |-> capture, start |-> starts, first |-> seqNo]
             none == SplitAnnexBNalus(shape) = << >>
             interval == ComputePacingInterval(count, capture)
             BeforeNow == {m \in 1..n : /\ frames[m].start = starts
                                        /\ SplitAnnexBNalus(frames[m].shape) # << >>}
  <1>1. /\ server.fd /\ UNCHANGED <<server, starts>> /\ burst = NoBurst
        /\ frames' = Append(frames, new) /\ n < MaxFrames /\ seqNo' = (seqNo + count) % Numbers
        /\ count = 0 => UNCHANGED <<burst, prev>>
        /\ count # 0 => /\ burst' = [packets |-> packets, total |-> count, interval |-> interval]
                        /\ prev' = capture
    BY Zenon DEF Broadcast, PreviousCapture
  <1>2. /\ frames \in Seq(Frame) /\ n \in Nat /\ starts \in Nat /\ seqNo \in 0..Numbers - 1
        /\ \A m \in 1..n : /\ frames[m] \in Frame
                           /\ frames[m].start <= starts
                           /\ frames[m].capture = m * Gap
                           /\ frames[m].capture <= frames[n].capture
    BY FrameTypes DEF PacingInv, FramesFit
  <1>3. /\ last \in Nat /\ capture \in Nat \ {0} /\ last < capture /\ capture = (n + 1) * Gap
        /\ \A m \in 1..n : frames[m].capture <= last
    <2>1. CASE n = 0
      BY <1>2, <2>1, Parameters
    <2>2. CASE n # 0
      <3>1. n \in 1..n /\ frames # << >> /\ last = frames[n].capture
        BY <1>2, <2>2 DEF Last
      <3>2. frames[n].capture \in Nat \ {0} /\ frames[n].capture = n * Gap
        BY <1>2, <3>1 DEF Frame
      <3>3. n * Gap + Gap = (n + 1) * Gap
        BY <1>2, Parameters
      <3> HIDE DEF last, n
      <3> QED  BY <1>2, <3>1, <3>2, <3>3, Parameters
    <2> QED  BY <2>1, <2>2
  <1>4. count \in Nat /\ (count = 0 <=> none)
    <2>1. shape \in Seq(Nat)
      BY Parameters
    <2> HIDE DEF capture
    <2> QED  BY <2>1, FrameHasPackets
  <1> HIDE DEF last, capture, packets, count, interval, none
  <1>5. new \in Frame
    BY <1>2, <1>3 DEF Frame
  <1>6. /\ frames' \in Seq(Frame) /\ Len(frames') = n + 1
        /\ frames'[n + 1] = new /\ \A m \in 1..n : frames'[m] = frames[m]
    <2> HIDE DEF new
    <2> QED  BY <1>1, <1>2, <1>5
  <1>7. FramesFit'
    <2>1. \A m \in 1..n + 1 : /\ frames'[m].start <= starts /\ frames'[m].capture <= capture
                              /\ frames'[m].capture = m * Gap
      <3> SUFFICES ASSUME NEW m \in 1..n + 1
                   PROVE  /\ frames'[m].start <= starts /\ frames'[m].capture <= capture
                          /\ frames'[m].capture = m * Gap
        OBVIOUS
      <3>1. CASE m = n + 1
        BY <1>2, <1>3, <1>6, <3>1
      <3>2. CASE m # n + 1
        <4>1. m \in 1..n
          BY <1>2, <3>2
        <4>2. frames'[m] = frames[m] /\ frames[m].start <= starts /\ frames[m].capture <= last
              /\ frames[m].capture \in Nat /\ frames[m].capture = m * Gap
          BY <1>2, <1>3, <1>6, <4>1 DEF Frame
        <4> QED  BY <1>3, <4>2
      <3> QED  BY <3>1, <3>2
    <2>2. frames'[n + 1].capture = capture
      BY <1>6
    <2>3. seqNo' \in 0..Numbers - 1
      BY <1>1, <1>2, <1>4, Parameters
    <2>4. Len(frames') <= MaxFrames
      BY <1>1, <1>2, <1>6, Parameters
    <2> HIDE DEF n, new
    <2> QED  BY <1>1, <1>2, <1>6, <2>1, <2>2, <2>3, <2>4 DEF FramesFit
  <1>8. BeforeNow = Paced
    BY DEF Paced
  <1>9. Paced' = IF none THEN BeforeNow ELSE BeforeNow \cup {n + 1}
    <2> DEFINE In(f, m) == f[m].start = starts /\ SplitAnnexBNalus(f[m].shape) # << >>
    <2>1. Paced' = {m \in 1..n + 1 : In(frames', m)}
      BY <1>1, <1>6 DEF Paced
    <2>2. BeforeNow = {m \in 1..n : In(frames, m)}
      OBVIOUS
    <2>3. In(frames', n + 1) <=> ~none
      BY <1>6 DEF none
    <2>4. \A m \in 1..n : In(frames', m) <=> In(frames, m)
      BY <1>6
    <2> HIDE DEF In, BeforeNow, n
    <2> QED  BY <1>2, <2>1, <2>2, <2>3, <2>4
  <1>10. BeforeNow \in SUBSET (1..n) /\ Paced' \in SUBSET (1..n + 1)
    BY <1>1, <1>6 DEF Paced
  <1>11. BeforeNow # {} => /\ Max(BeforeNow) \in 1..n /\ prev = frames[Max(BeforeNow)].capture
                           /\ prev \in Nat \ {0} /\ prev < capture
    <2> SUFFICES ASSUME BeforeNow # {}
                 PROVE  /\ Max(BeforeNow) \in 1..n /\ prev = frames[Max(BeforeNow)].capture
                        /\ prev \in Nat \ {0} /\ prev < capture
      OBVIOUS
    <2> HIDE DEF BeforeNow, n
    <2>1. Max(BeforeNow) \in BeforeNow
      BY <1>2, <1>10, MaxIsGreatest
    <2>2. Max(BeforeNow) \in 1..n
      BY <1>10, <2>1
    <2>3. prev = frames[Max(BeforeNow)].capture
      BY <1>1, <1>8 DEF PacingInv, PrevFits
    <2>4. frames[Max(BeforeNow)].capture \in Nat \ {0} /\ frames[Max(BeforeNow)].capture <= last
      BY <1>2, <1>3, <2>2 DEF Frame
    <2> QED  BY <1>3, <2>2, <2>3, <2>4
  <1>12. CASE none
    <2>1. count = 0 /\ UNCHANGED <<burst, prev>>
      BY <1>1, <1>4, <1>12
    <2>2. PrevFits'
      <3>1. Paced' = BeforeNow
        BY <1>9, <1>12
      <3> HIDE DEF BeforeNow, n, new
      <3>2. BeforeNow # {} => prev' = frames'[Max(BeforeNow)].capture
        BY <1>6, <1>11, <2>1
      <3> QED  BY <3>1, <3>2 DEF PrevFits
    <2>3. BurstShape' /\ PacingKeepsUp'
      BY <1>1, <2>1 DEF BurstShape, PacingKeepsUp, NoBurst
    <2> QED  BY <1>7, <2>2, <2>3 DEF PacingInv
  <1>13. CASE ~none
    <2>1. count \in Nat \ {0} /\ prev' = capture
          /\ burst' = [packets |-> packets, total |-> count, interval |-> interval]
      BY <1>1, <1>4, <1>13
    <2>2. PrevFits'
      <3>1. n + 1 \in Paced' /\ Paced' # {}
        BY <1>9, <1>13
      <3> HIDE DEF n, BeforeNow
      <3>2. Max(Paced') \in Paced' /\ \A j \in Paced' : j <= Max(Paced')
        <4>1. n + 1 \in Nat
          BY <1>2
        <4> QED  BY <1>10, <3>1, <4>1, MaxIsGreatest
      <3>3. Max(Paced') = n + 1
        <4>1. Max(Paced') \in 1..n + 1
          BY <1>10, <3>2
        <4>2. n + 1 <= Max(Paced')
          BY <3>1, <3>2
        <4> QED  BY <1>2, <4>1, <4>2
      <3>4. frames'[n + 1].capture = capture
        BY <1>6
      <3> QED  BY <2>1, <3>3, <3>4 DEF PrevFits
    <2>3. BurstShape' /\ burst'.interval = interval /\ burst'.total = count
      BY <2>1 DEF BurstShape
    <2>4. BeforeNow # {} => interval * (count - 1) * Fraction
                              <= capture - frames[Max(BeforeNow)].capture
      <3> SUFFICES ASSUME BeforeNow # {}
                   PROVE  interval * (count - 1) * Fraction
                            <= capture - frames[Max(BeforeNow)].capture
        OBVIOUS
      <3> HIDE DEF BeforeNow
      <3>1. prev \in Nat /\ prev # 0 /\ prev < capture
        BY <1>11
      <3>2. interval * (count - 1) * Fraction <= capture - prev
        BY <1>3, <2>1, <3>1, WaitsFitGap DEF interval
      <3> QED  BY <1>11, <3>2
    <2>5. PacingKeepsUp'
      <3> DEFINE before == {m \in 1..Len(frames') - 1 :
                               /\ frames'[m].start = frames'[Len(frames')].start
                               /\ SplitAnnexBNalus(frames'[m].shape) # << >>}
      <3>1. before = BeforeNow
        <4>1. Len(frames') - 1 = n /\ frames'[Len(frames')].start = starts
          BY <1>2, <1>6
        <4>2. before = {m \in 1..n : /\ frames'[m].start = starts
                                     /\ SplitAnnexBNalus(frames'[m].shape) # << >>}
          BY <4>1
        <4> QED  BY <1>6, <4>2
      <3>2. BeforeNow # {} => frames'[Max(BeforeNow)] = frames[Max(BeforeNow)]
        BY <1>6, <1>11
      <3>3. frames'[Len(frames')].capture = capture
        BY <1>6
      <3> HIDE DEF before, BeforeNow
      <3>4. before # {} => burst'.interval * (burst'.total - 1) * Fraction
                             <= frames'[Len(frames')].capture - frames'[Max(before)].capture
        BY <2>3, <2>4, <3>1, <3>2, <3>3
      <3> QED  BY <3>4, Zenon DEF PacingKeepsUp, before
    <2> QED  BY <1>7, <2>2, <2>3, <2>5 DEF PacingInv
  <1> QED  BY <1>12, <1>13

(* Every step of server and client keeps the invariant. *)
LEMMA PacingInvKept == PacingInv /\ [Next]_vars => PacingInv'
  <1> SUFFICES ASSUME PacingInv, [Next]_vars PROVE PacingInv'
    OBVIOUS
  <1>1. CASE UNCHANGED vars
    BY <1>1, PacingUntouched DEF vars
  <1>2. ASSUME NEW how \in StartOutcomes, NEW first \in FirstNumbers, Start(how, first)
        PROVE  PacingInv'
    BY <1>2, PacingStart
  <1>3. CASE Stop
    BY <1>3, PacingStop
  <1>4. ASSUME NEW shape \in Shapes, Broadcast(shape)
        PROVE  PacingInv'
    BY <1>4, PacingBroadcast
  <1>5. CASE SendPacket \/ SendFails
    BY <1>5, PacingSend
  <1>6. ASSUME NEW p \in sent, Receive(p)
        PROVE  PacingInv'
    BY <1>6, PacingUntouched DEF Receive, serverVars
  <1>7. CASE PopFrame \/ PopNotYet \/ Reconnect
    BY <1>7, PacingUntouched DEF PopFrame, PopNotYet, Reconnect, serverVars
  <1> QED  BY <1>1, <1>2, <1>3, <1>4, <1>5, <1>6, <1>7 DEF Next

(* Pacing never makes the server fall behind the encoder: the waits of a    *)
(* burst (PacePacketBurst) take no more than a fraction of the time since   *)
(* the last frame of this start that had packets, whatever frames of few or *)
(* no packets, failures to send, stops and starts lie between.              *)
THEOREM PacingInTime == Spec => []PacingKeepsUp
  <1>1. PacingInv => PacingKeepsUp
    BY DEF PacingInv
  <1> QED  BY InitFits, PacingInvKept, <1>1, PTL DEF Spec
-----------------------------------------------------------------------------
(* Packets. *)

(* Packet k of frame f, whose entry in frames is r, with its extension; the *)
(* one Packetize builds, and the ones sent, with the time of sending.       *)
Packet(r, f, k, ext) ==
    [header |-> WriteRtpHeader([marker |-> Parts(r.shape)[k].marker, payloadType |-> ServerPt,
                                seq |-> r.first + k - 1, ts |-> BuildTimestamp(r.capture)], ext),
     part |-> Parts(r.shape)[k].part, nalu |-> Parts(r.shape)[k].nalu,
     frame |-> f, index |-> k, last |-> k = Len(Parts(r.shape))]
Built(r, on) == IF on THEN BuildRtpLatencyHeaderExtension(r.capture) ELSE << >>
Stamped(r, on, now) == IF on THEN <<r.capture, now>> ELSE << >>
Rest(r, f, m, on) == [x \in 1..Len(Parts(r.shape)) - m |-> Packet(r, f, m + x, Built(r, on))]

(* Frames are cut into no more packets than there are numbers.              *)
LEMMA FrameParts ==
    ASSUME NEW r \in Frame
    PROVE  /\ r.shape \in Seq(Nat) /\ Parts(r.shape) \in Seq(PartRecord)
           /\ Len(Parts(r.shape)) \in 0..Numbers
           /\ r.first \in 0..Numbers - 1 /\ r.capture \in Nat \ {0}
           /\ BuildTimestamp(r.capture) \in 0..Stamps - 1
  <1>1. r.shape \in Shapes /\ r.first \in 0..Numbers - 1 /\ r.capture \in Nat \ {0}
    BY DEF Frame
  <1>2. r.shape \in Seq(Nat) /\ Len(Parts(r.shape)) <= Numbers
    BY <1>1, Parameters, WrapAssumption
  <1>3. Parts(r.shape) \in Seq(PartRecord)
    BY <1>2, PartsFit
  <1>4. Len(Parts(r.shape)) \in Nat
    BY <1>3
  <1>5. BuildTimestamp(r.capture) \in 0..Stamps - 1
    <2> DEFINE c == r.capture
               w == (c * ClockRate) % Word
               d == w \div Second
    <2>1. c \in Nat
      BY <1>1
    <2> HIDE DEF c
    <2>2. c * ClockRate \in Int
      BY <2>1, Parameters
    <2>3. w \in Nat
      BY <2>2, Parameters
    <2> HIDE DEF w
    <2>4. d \in Nat
      BY <2>3, Parameters, DivisionRoundsDown
    <2>5. BuildTimestamp(r.capture) = d % Stamps
      BY DEF BuildTimestamp, w, c
    <2> HIDE DEF d
    <2> QED  BY <2>4, <2>5, Parameters
  <1> QED  BY <1>1, <1>2, <1>3, <1>4, <1>5, Parameters

(* What ParseRtpHeader reads in a packet is what Packetize wrote.           *)
LEMMA HeaderIsRead ==
    ASSUME NEW r \in Frame, NEW f, NEW k \in 1..Len(Parts(r.shape)), NEW on \in BOOLEAN, NEW now
    PROVE  LET p == Packet(r, f, k, Stamped(r, on, now))
               h == ParseRtpHeader(p.header)
           IN  /\ h.marker <=> k = Len(Parts(r.shape))
               /\ h.seq = (r.first + k - 1) % Numbers
               /\ h.ts = BuildTimestamp(r.capture)
               /\ h.ext = Stamped(r, on, now)
               /\ p.header.seq = h.seq /\ p.header.ts = h.ts
               /\ p.part = Parts(r.shape)[k].part /\ p.nalu = Parts(r.shape)[k].nalu
               /\ p.frame = f /\ p.index = k /\ (p.last <=> k = Len(Parts(r.shape)))
  <1> DEFINE ext == Stamped(r, on, now)
             e == Parts(r.shape)[k]
             stamp == BuildTimestamp(r.capture)
             seq == r.first + k - 1
             last == k = Len(Parts(r.shape))
             fields == [marker |-> e.marker, payloadType |-> ServerPt, seq |-> seq, ts |-> stamp]
             head == WriteRtpHeader(fields, ext)
             p == Packet(r, f, k, ext)
             h == ParseRtpHeader(head)
  <1>1. /\ stamp \in 0..Stamps - 1 /\ stamp % Stamps = stamp /\ seq \in Int
        /\ e.marker \in BOOLEAN /\ (e.marker <=> last)
    <2>1. stamp \in 0..Stamps - 1 /\ r.first \in Nat /\ r.shape \in Seq(Nat)
      BY FrameParts
    <2>2. (e.marker <=> last) /\ e \in PartRecord
      BY <2>1, PartsFit DEF IsPart
    <2>3. e.marker \in BOOLEAN
      BY <2>2 DEF PartRecord
    <2> HIDE DEF stamp, e
    <2>4. stamp % Stamps = stamp
      BY <2>1, Parameters
    <2> QED  BY <2>1, <2>2, <2>3, <2>4
  <1>2. p = [header |-> head, part |-> e.part, nalu |-> e.nalu, frame |-> f, index |-> k, last |-> last]
    BY DEF Packet
  <1>3. (ext # << >>) = on
    BY DEF Stamped
  <1> HIDE DEF e, stamp, seq, ext, last
  <1>4. head = [first |-> 2 * 64 + (IF on THEN 16 ELSE 0),
                second |-> (IF e.marker THEN 128 ELSE 0) + (96 % 128),
                seq |-> seq % Numbers, ts |-> stamp, ext |-> ext]
    <2>1. head = [first |-> 2 * 64 + (IF ext # << >> THEN 16 ELSE 0),
                  second |-> (IF e.marker THEN 128 ELSE 0) + (96 % 128),
                  seq |-> seq % Numbers, ts |-> stamp % Stamps, ext |-> ext]
      BY DEF WriteRtpHeader, ServerPt
    <2> QED  BY <1>1, <1>3, <2>1
  <1> HIDE DEF head, p
  <1>5. head.seq = seq % Numbers /\ head.ts = stamp /\ head.ext = ext
    BY <1>4
  <1>6. HasExt(head) <=> on
    <2>1. head.first = IF on THEN 144 ELSE 128
      BY <1>4
    <2>2. (144 \div 16) % 2 = 1 /\ (128 \div 16) % 2 = 0
      OBVIOUS
    <2> QED  BY <2>1, <2>2 DEF HasExt
  <1>7. (head.second \div 128 = 1) <=> e.marker
    <2>1. head.second = IF e.marker THEN 224 ELSE 96
      BY <1>4
    <2>2. 224 \div 128 = 1 /\ 96 \div 128 = 0
      OBVIOUS
    <2> QED  BY <2>1, <2>2
  <1>8. ~on => ext = << >>
    BY DEF ext, Stamped
  <1>9. /\ h.marker = (head.second \div 128 = 1) /\ h.seq = head.seq /\ h.ts = head.ts
        /\ h.ext = IF HasExt(head) THEN head.ext ELSE << >>
    BY DEF ParseRtpHeader
  <1>10. (h.marker <=> last) /\ h.seq = seq % Numbers /\ h.ts = stamp /\ h.ext = ext
    BY <1>1, <1>5, <1>6, <1>7, <1>8, <1>9
  <1>11. /\ p.header = head /\ p.part = e.part /\ p.nalu = e.nalu
         /\ p.frame = f /\ p.index = k /\ (p.last <=> last)
    BY <1>2
  <1> HIDE DEF h
  <1> QED  BY <1>5, <1>10, <1>11 DEF h, p, e, stamp, seq, ext, last

(* The remainder, by the division.                                          *)
LEMMA Remainder ==
    ASSUME NEW a \in Int, NEW b \in Nat \ {0}
    PROVE  a % b = a - b * (a \div b)
  OBVIOUS

(* Numbers equal modulo Numbers and less than Numbers apart are equal.      *)
LEMMA NumbersTell ==
    ASSUME NEW a \in Int, NEW b \in Int, a % Numbers = b % Numbers, a - b < Numbers, b - a < Numbers
    PROVE  a = b
  <1> DEFINE x == a \div Numbers
             y == b \div Numbers
  <1>1. Numbers \in Nat \ {0}
    BY Parameters
  <1>2. x \in Int /\ y \in Int
    BY <1>1
  <1>3. a % Numbers = a - Numbers * x /\ b % Numbers = b - Numbers * y
    BY <1>1, Remainder
  <1> HIDE DEF x, y
  <1>4. Numbers * x \in Int /\ Numbers * y \in Int
    BY <1>1, <1>2
  <1>5. a - b = Numbers * x - Numbers * y
    <2> DEFINE u == Numbers * x
               v == Numbers * y
    <2>1. a - u = b - v
      BY <1>3
    <2>2. u \in Int /\ v \in Int
      BY <1>4
    <2> HIDE DEF u, v
    <2>3. a - b = u - v
      BY <2>1, <2>2
    <2> QED  BY <2>3 DEF u, v
  <1>6. \A u, v \in Int : u >= v + 1 => Numbers * u >= Numbers * v + Numbers
    <2> SUFFICES ASSUME NEW u \in Int, NEW v \in Int, u >= v + 1
                 PROVE  Numbers * u >= Numbers * v + Numbers
      OBVIOUS
    <2>1. u - v - 1 \in Nat
      OBVIOUS
    <2>2. Numbers * (u - v - 1) \in Nat
      BY <1>1, <2>1
    <2>3. Numbers * (u - v - 1) = Numbers * u - Numbers * v - Numbers
      BY <1>1
    <2>4. Numbers * u \in Int /\ Numbers * v \in Int
      BY <1>1
    <2> QED  BY <1>1, <2>2, <2>3, <2>4
  <1>7. x = y
    <2>1. ~(x >= y + 1)
      BY <1>1, <1>2, <1>4, <1>5, <1>6
    <2>2. ~(y >= x + 1)
      BY <1>1, <1>2, <1>4, <1>5, <1>6
    <2> QED  BY <1>2, <2>1, <2>2
  <1>8. a - b = 0
    BY <1>4, <1>5, <1>7
  <1> QED  BY <1>8

(* Two frames of the history have two timestamps.                           *)
LEMMA StampsTell ==
    ASSUME FramesFit, NEW f \in 1..Len(frames), NEW m \in 1..Len(frames),
           BuildTimestamp(frames[f].capture) = BuildTimestamp(frames[m].capture)
    PROVE  f = m
  <1>1. Len(frames) \in Nat /\ frames[f].capture = f * Gap /\ frames[m].capture = m * Gap
    BY FrameTypes
  <1>2. f \in 1..MaxFrames /\ m \in 1..MaxFrames
    BY <1>1, Parameters DEF FramesFit
  <1> QED  BY <1>1, <1>2, WrapAssumption

(* The number after the one of a packet is that of the next packet.         *)
LEMMA NumberGrows ==
    ASSUME NEW x \in Int
    PROVE  /\ ((x % Numbers) + 1) % Numbers = (x + 1) % Numbers
           /\ x % Numbers \in 0..Numbers - 1
  <1> DEFINE y == x % Numbers
             q == x \div Numbers
  <1>1. Numbers \in Nat \ {0}
    BY Parameters
  <1>2. y \in 0..Numbers - 1 /\ q \in Int /\ y = x - Numbers * q
    BY <1>1, Remainder
  <1>3. \A a, d \in Int : \A c \in 0..Numbers - 1 : a = Numbers * d + c => a % Numbers = c
    BY <1>1
  <1> HIDE DEF y, q
  <1>4. Numbers * q \in Int /\ Numbers * (q + 1) = Numbers * q + Numbers
    BY <1>1, <1>2
  <1> DEFINE w == Numbers * q
  <1> HIDE DEF w
  <1>5. w \in Int /\ y = x - w /\ Numbers * (q + 1) = w + Numbers
    BY <1>2, <1>4 DEF w
  <1>6. CASE y + 1 < Numbers
    <2>1. y + 1 \in 0..Numbers - 1 /\ x + 1 = w + (y + 1)
      BY <1>1, <1>2, <1>5, <1>6
    <2>2. x + 1 = Numbers * q + (y + 1)
      BY <2>1 DEF w
    <2>3. (x + 1) % Numbers = y + 1
      BY <1>2, <1>3, <2>1, <2>2
    <2>4. (y + 1) % Numbers = y + 1
      BY <1>1, <2>1
    <2> QED  BY <1>2, <2>3, <2>4 DEF y
  <1>7. CASE ~(y + 1 < Numbers)
    <2>1. y + 1 = Numbers
      BY <1>1, <1>2, <1>7
    <2>2. x + 1 = w + Numbers
      BY <1>1, <1>2, <1>5, <2>1
    <2>3. x + 1 = Numbers * (q + 1) + 0
      BY <1>1, <1>5, <2>2
    <2>4. (x + 1) % Numbers = 0
      BY <1>1, <1>2, <1>3, <2>3
    <2>5. Numbers % Numbers = 0
      <3>1. Numbers = Numbers * 1 + 0 /\ 0 \in 0..Numbers - 1 /\ Numbers \in Int
        BY <1>1
      <3> QED  BY <1>3, <3>1
    <2> QED  BY <1>2, <2>1, <2>4, <2>5 DEF y
  <1> QED  BY <1>6, <1>7

-----------------------------------------------------------------------------
(* What one packet does to the partial frame. *)

PieceType == [frame : Nat, nalu : Nat, from : Nat, to : Nat]
AsmType == [active : BOOLEAN, ts : 0..Stamps - 1, next : 0..Numbers - 1, payload : Seq(PieceType),
            meta : {"none", "have", "invalid"}, capture : Nat, lastSent : Nat,
            damaged : BOOLEAN, fu : BOOLEAN]

(* The times gathered are those of the frame, when they are sent and        *)
(* expected, and there are none otherwise.                                  *)
TimesFit(a, r, timed) ==
    IF timed THEN a.meta = "have" /\ a.capture = r.capture /\ a.lastSent > r.capture
    ELSE a.meta # "have"

(* Parts i to k of frame f have been gathered, and i begins a NAL unit.     *)
Gathers(a, r, f, i, k, timed) ==
    /\ a.active /\ ~a.damaged
    /\ i \in 1..k /\ Parts(r.shape)[i].part.start
    /\ a.ts = BuildTimestamp(r.capture)
    /\ a.next = (r.first + k) % Numbers
    /\ a.payload = Pieces(f, r.shape, i, k)
    /\ a.fu <=> ~Parts(r.shape)[k].part.end
    /\ TimesFit(a, r, timed)

(* Pieces i to k are those up to k - 1 and piece k after them.              *)
LEMMA PiecesGrow ==
    ASSUME NEW shape \in Seq(Nat), NEW f \in Nat, NEW i \in 1..Len(Parts(shape)),
           NEW k \in i..Len(Parts(shape))
    PROVE  /\ Piece(f, Parts(shape)[k]) \in PieceType
           /\ Pieces(f, shape, i, k) \in Seq(PieceType) /\ Len(Pieces(f, shape, i, k)) = k - i + 1
           /\ Pieces(f, shape, i, k) =
                  Append(IF k = i THEN << >> ELSE Pieces(f, shape, i, k - 1), Piece(f, Parts(shape)[k]))
  <1> DEFINE parts == Parts(shape)
             c == Len(parts)
             at(x) == Piece(f, parts[x])
             q(j) == [x \in 1..j - i + 1 |-> at(i + x - 1)]
  <1>1. c \in Nat /\ \A x \in 1..c : at(x) \in PieceType
    <2>1. parts \in Seq(PartRecord) /\ \A x \in 1..c : IsPart(parts[x], SplitAnnexBNalus(shape))
      BY PartsFit
    <2> SUFFICES ASSUME NEW x \in 1..c PROVE at(x) \in PieceType
      BY <2>1
    <2> DEFINE e == parts[x]
    <2>2. e \in PartRecord
      BY <2>1 DEF IsPart
    <2> HIDE DEF e
    <2>3. e.nalu \in Nat /\ e.part \in PartType
      BY <2>2 DEF PartRecord
    <2>4. e.part.to \in Nat /\ Begin(e.part) \in Nat
      BY <2>3 DEF PartType, Begin
    <2>5. Piece(f, e) \in PieceType
      BY <2>3, <2>4 DEF Piece, PieceType
    <2> QED  BY <2>5 DEF e
  <1>2. \A j : Pieces(f, shape, i, j) = q(j)
    BY DEF Pieces
  <1>3. i \in 1..c /\ k \in i..c
    OBVIOUS
  <1> HIDE DEF parts, c, at
  <1>4. ASSUME NEW j \in i..c
        PROVE  q(j) \in Seq(PieceType) /\ Len(q(j)) = j - i + 1
               /\ \A x \in 1..j - i + 1 : q(j)[x] = at(i + x - 1)
    <2>1. j - i + 1 \in Nat /\ \A x \in 1..j - i + 1 : i + x - 1 \in 1..c
      BY <1>1, <1>3
    <2>2. \A x \in 1..j - i + 1 : at(i + x - 1) \in PieceType
      BY <1>1, <2>1
    <2> HIDE DEF PieceType
    <2> QED  BY <2>1, <2>2
  <1>5. at(k) \in PieceType
    BY <1>1, <1>3
  <1> DEFINE s == IF k = i THEN << >> ELSE q(k - 1)
  <1>6. s \in Seq(PieceType) /\ Len(s) = k - i /\ \A x \in 1..k - i : s[x] = at(i + x - 1)
    <2>1. CASE k = i
      <3>1. s = << >> /\ k - i = 0
        BY <1>1, <1>3, <2>1
      <3> HIDE DEF s, PieceType
      <3> QED  BY <3>1
    <2>2. CASE k # i
      <3>1. k - 1 \in i..c /\ (k - 1) - i + 1 = k - i /\ s = q(k - 1)
        BY <1>1, <1>3, <2>2
      <3> HIDE DEF s, q
      <3> QED  BY <1>4, <3>1
    <2> QED  BY <2>1, <2>2
  <1>7. /\ q(k) \in Seq(PieceType) /\ Len(q(k)) = k - i + 1
        /\ \A x \in 1..k - i + 1 : q(k)[x] = at(i + x - 1)
    BY <1>3, <1>4
  <1> HIDE DEF s, q, PieceType
  <1> DEFINE t == Append(s, at(k))
  <1>8. /\ t \in Seq(PieceType) /\ Len(t) = k - i + 1
        /\ \A x \in 1..k - i + 1 : t[x] = at(i + x - 1)
    <2>1. t \in Seq(PieceType) /\ Len(t) = Len(s) + 1 /\ t[Len(s) + 1] = at(k)
          /\ \A x \in 1..Len(s) : t[x] = s[x]
      <3>1. s \in Seq(PieceType) /\ at(k) \in PieceType
        BY <1>5, <1>6
      <3> QED  BY <3>1
    <2> HIDE DEF t
    <2>2. i + (k - i + 1) - 1 = k /\ Len(s) + 1 = k - i + 1
          /\ \A x \in 1..k - i + 1 : x \in 1..k - i \/ x = k - i + 1
      BY <1>1, <1>3, <1>6
    <2>3. \A x \in 1..k - i : t[x] = at(i + x - 1)
      BY <1>6, <2>1
    <2>4. t[k - i + 1] = at(k)
      BY <2>1, <2>2
    <2> QED  BY <2>1, <2>2, <2>3, <2>4
  <1> HIDE DEF t
  <1>9. q(k) = t
    <2>1. Len(q(k)) = Len(t) /\ \A x \in 1..Len(q(k)) : q(k)[x] = t[x]
      BY <1>7, <1>8
    <2> QED  BY <1>7, <1>8, <2>1, SeqEqual
  <1>10. k = i \/ q(k - 1) = Pieces(f, shape, i, k - 1)
    BY <1>2
  <1>11. s = IF k = i THEN << >> ELSE Pieces(f, shape, i, k - 1)
    BY <1>10 DEF s
  <1>12. Pieces(f, shape, i, k) = Append(s, at(k))
    BY <1>2, <1>9 DEF t
  <1> QED  BY <1>2, <1>5, <1>7, <1>11, <1>12 DEF at, parts

(* The same, when k is not the first.                                       *)
LEMMA PiecesFollow ==
    ASSUME NEW shape \in Seq(Nat), NEW f \in Nat, NEW i \in 1..Len(Parts(shape)),
           NEW k \in i..Len(Parts(shape)), k # i
    PROVE  Pieces(f, shape, i, k) = Append(Pieces(f, shape, i, k - 1), Piece(f, Parts(shape)[k]))
  <1>1. Pieces(f, shape, i, k) =
            Append(IF k = i THEN << >> ELSE Pieces(f, shape, i, k - 1), Piece(f, Parts(shape)[k]))
    BY PiecesGrow, Zenon
  <1> QED  BY <1>1

(* The number and the timestamp of a packet: another frame begins, the      *)
(* packet is the next one, or the frame is damaged.                         *)
LEMMA SequencedIs ==
    ASSUME asm \in AsmType, NEW h, h.ts \in 0..Stamps - 1, h.seq \in 0..Numbers - 1
    PROVE  LET a == Sequenced(h)
           IN  /\ a \in AsmType /\ a.active /\ a.ts = h.ts /\ a.next = (h.seq + 1) % Numbers
               /\ ~Continues(h) => ~a.damaged /\ a.payload = << >> /\ a.meta = "none" /\ ~a.fu
               /\ Continues(h) /\ h.seq = asm.next =>
                      /\ a.payload = asm.payload /\ a.meta = asm.meta
                      /\ a.capture = asm.capture /\ a.lastSent = asm.lastSent
                      /\ a.damaged = asm.damaged /\ a.fu = asm.fu
               /\ Continues(h) /\ (asm.damaged \/ h.seq # asm.next) => a.damaged
  <1> DEFINE next == (h.seq + 1) % Numbers
  <1>1. next \in 0..Numbers - 1 /\ NextNumber(h) = next
    BY Parameters DEF NextNumber
  <1> HIDE DEF next
  <1>2. CASE ~Continues(h)
    <2>1. Sequenced(h) = [active |-> TRUE, ts |-> h.ts, next |-> next, payload |-> << >>,
                          meta |-> "none", capture |-> 0, lastSent |-> 0,
                          damaged |-> FALSE, fu |-> FALSE]
      BY <1>1, <1>2 DEF Sequenced, ResetRtpState
    <2>2. Sequenced(h) \in AsmType
      BY <1>1, <2>1 DEF AsmType
    <2>3. LET a == Sequenced(h)
          IN  a.active /\ a.ts = h.ts /\ a.next = next /\ ~a.damaged /\ a.payload = << >>
              /\ a.meta = "none" /\ ~a.fu
      BY <2>1
    <2> QED  BY <1>2, <2>2, <2>3 DEF next
  <1>3. CASE Continues(h) /\ h.seq # asm.next
    <2>1. Sequenced(h) = [asm EXCEPT !.damaged = TRUE, !.fu = FALSE, !.next = next]
      BY <1>1, <1>3 DEF Sequenced
    <2>2. asm.active /\ asm.ts = h.ts
      BY <1>3 DEF Continues
    <2>3. Sequenced(h) \in AsmType
      BY <1>1, <2>1 DEF AsmType
    <2> QED  BY <1>3, <2>1, <2>2, <2>3 DEF next, AsmType
  <1>4. CASE Continues(h) /\ h.seq = asm.next
    <2>1. Sequenced(h) = [asm EXCEPT !.next = next]
      BY <1>1, <1>4 DEF Sequenced
    <2>2. asm.active /\ asm.ts = h.ts
      BY <1>4 DEF Continues
    <2>3. Sequenced(h) \in AsmType
      BY <1>1, <2>1 DEF AsmType
    <2> QED  BY <1>4, <2>1, <2>2, <2>3 DEF next, AsmType
  <1> QED  BY <1>2, <1>3, <1>4

(* The times agree as long as they are those of one frame.                  *)
LEMMA MetadataIs ==
    ASSUME NEW a \in AsmType, NEW r \in Frame, NEW now \in Nat, now > r.capture,
           config.ext \in BOOLEAN, config.expect \in BOOLEAN
    PROVE  LET ext == Stamped(r, config.ext, now)
               m == Metadata(a, ext)
               timed == config.expect /\ config.ext
           IN  /\ m \in AsmType
               /\ m.active = a.active /\ m.ts = a.ts /\ m.next = a.next /\ m.payload = a.payload
               /\ m.damaged = a.damaged /\ m.fu = a.fu
               /\ a.meta = "none" \/ TimesFit(a, r, timed) => TimesFit(m, r, timed)
  <1> DEFINE ext == Stamped(r, config.ext, now)
             m == Metadata(a, ext)
             timed == config.expect /\ config.ext
  <1>1. r.capture \in Nat \ {0}
    BY FrameParts
  <1>2. a.meta \in {"none", "have", "invalid"}
    BY DEF AsmType
  <1>3. CASE ~config.expect \/ a.meta = "invalid"
    <2>1. m = a
      BY <1>3 DEF Metadata
    <2>2. a.meta = "none" \/ TimesFit(a, r, timed) => TimesFit(a, r, timed)
      BY <1>3 DEF TimesFit
    <2> HIDE DEF m, timed
    <2> QED  BY <2>1, <2>2 DEF m, timed
  <1>4. CASE config.expect /\ a.meta # "invalid" /\ config.ext
    <2>1. ext = <<r.capture, now>> /\ Len(ext) = 2 /\ ext[1] = r.capture /\ ext[2] = now
      BY <1>4 DEF Stamped
    <2>2. 0 \notin ToSet(ext)
      <3>1. ToSet(ext) = {r.capture, now}
        <4>1. ToSet(<<r.capture, now>>) = {r.capture, now}
          BY DEF ToSet
        <4> QED  BY <2>1, <4>1
      <3> QED  BY <1>1, <3>1
    <2> HIDE DEF ext
    <2>3. CASE a.meta = "have" /\ a.capture # r.capture
      <3>1. m = [a EXCEPT !.meta = "invalid"]
        BY <1>4, <2>1, <2>3 DEF Metadata, Disagrees
      <3>2. ~TimesFit(a, r, timed)
        BY <1>4, <2>3 DEF TimesFit
      <3>3. m \in AsmType
        BY <3>1 DEF AsmType
      <3> QED  BY <2>3, <3>1, <3>2, <3>3 DEF AsmType, ext
    <2>4. CASE ~(a.meta = "have" /\ a.capture # r.capture)
      <3>1. ~Disagrees(a, ext)
        BY <2>1, <2>2, <2>4 DEF Disagrees, ParseRtpLatencyExtension
      <3>2. m = [a EXCEPT !.meta = "have", !.capture = r.capture, !.lastSent = now]
        BY <1>4, <2>1, <3>1 DEF Metadata
      <3>3. m \in AsmType
        BY <1>1, <3>2 DEF AsmType
      <3>4. m.meta = "have" /\ m.capture = r.capture /\ m.lastSent = now
        BY <3>2 DEF AsmType
      <3>5. TimesFit(m, r, timed)
        BY <1>4, <3>4 DEF TimesFit
      <3> QED  BY <3>2, <3>3, <3>5 DEF AsmType, ext
    <2> QED  BY <2>3, <2>4
  <1>5. CASE config.expect /\ a.meta # "invalid" /\ ~config.ext
    <2>1. ext = << >>
      BY <1>5 DEF Stamped
    <2>2. Disagrees(a, ext)
      BY <2>1 DEF Disagrees, ParseRtpLatencyExtension
    <2>3. m = [a EXCEPT !.meta = "invalid"]
      BY <1>5, <2>2 DEF Metadata
    <2>4. m \in AsmType
      BY <2>3 DEF AsmType
    <2>5. TimesFit(m, r, timed)
      <3>1. m.meta = "invalid"
        BY <2>3 DEF AsmType
      <3> QED  BY <1>5, <3>1 DEF TimesFit
    <2> QED  BY <2>3, <2>4, <2>5 DEF AsmType
  <1> QED  BY <1>2, <1>3, <1>4, <1>5

(* The bytes of a packet are gathered, unless the beginning of its NAL unit *)
(* is missing.                                                              *)
LEMMA AssembledIs ==
    ASSUME NEW a \in AsmType, NEW p, p.part \in PartType, Bytes(p) \in PieceType
    PROVE  LET b == Assembled(a, p)
           IN  /\ b \in AsmType
               /\ b.active = a.active /\ b.ts = a.ts /\ b.next = a.next
               /\ b.meta = a.meta /\ b.capture = a.capture /\ b.lastSent = a.lastSent
               /\ a.damaged \/ ~(p.part.start \/ a.fu) => b.damaged
               /\ ~a.damaged /\ (p.part.start \/ a.fu) =>
                      /\ ~b.damaged /\ b.payload = Append(a.payload, Bytes(p))
                      /\ b.fu <=> ~p.part.end
  <1> DEFINE payload == IF a.damaged THEN << >> ELSE Append(a.payload, Bytes(p))
             open == ~p.part.end
  <1>1. p.part.start \in BOOLEAN /\ p.part.end \in BOOLEAN
    BY DEF PartType
  <1>2. payload \in Seq(PieceType)
    <2>1. a.payload \in Seq(PieceType)
      BY DEF AsmType
    <2> HIDE DEF PieceType
    <2>2. Append(a.payload, Bytes(p)) \in Seq(PieceType) /\ << >> \in Seq(PieceType)
      BY <2>1
    <2> QED  BY <2>2
  <1>3. Gathered(a, p) = payload
    BY DEF Gathered
  <1>4. open \in BOOLEAN
    OBVIOUS
  <1> HIDE DEF payload, open
  <1>5. CASE p.part.start \/ a.fu
    <2>1. Assembled(a, p) = [a EXCEPT !.payload = payload, !.fu = open]
      BY <1>3, <1>5 DEF Assembled, open
    <2>2. Assembled(a, p) \in AsmType
      BY <1>2, <1>4, <2>1 DEF AsmType
    <2>3. /\ Assembled(a, p).payload = payload /\ Assembled(a, p).fu = open
          /\ Assembled(a, p).damaged = a.damaged
      BY <2>1 DEF AsmType
    <2>4. (Assembled(a, p).fu <=> ~p.part.end) /\ (~a.damaged => payload = Append(a.payload, Bytes(p)))
      BY <2>3 DEF open, payload
    <2> QED  BY <1>5, <2>1, <2>2, <2>3, <2>4 DEF AsmType
  <1>6. CASE ~(p.part.start \/ a.fu)
    <2>1. Assembled(a, p) = [a EXCEPT !.payload = << >>, !.damaged = TRUE, !.fu = FALSE]
      BY <1>6 DEF Assembled
    <2>2. << >> \in Seq(PieceType)
      OBVIOUS
    <2>3. Assembled(a, p) \in AsmType
      BY <2>1, <2>2 DEF AsmType
    <2> QED  BY <1>6, <2>1, <2>3 DEF AsmType
  <1> QED  BY <1>5, <1>6

(* The packet as ReceiveRtpFrame reads it, and what it makes of the partial *)
(* frame; p is packet k of frame f, sent at now.                            *)
Header(p) == ParseRtpHeader(p.header)
After(p) == Assembled(Metadata(Sequenced(Header(p)), Header(p).ext), p)
Timed == config.expect /\ config.ext
IsPacket(p, r, f, k, now) ==
    /\ p = Packet(r, f, k, Stamped(r, config.ext, now))
    /\ r \in Frame /\ f \in Nat /\ k \in 1..Len(Parts(r.shape)) /\ now \in Nat /\ now > r.capture

(* The three steps one after the other, for part k of frame f.              *)
LEMMA AfterIs ==
    ASSUME asm \in AsmType, config.ext \in BOOLEAN, config.expect \in BOOLEAN,
           NEW p, NEW r, NEW f, NEW k, NEW now, IsPacket(p, r, f, k, now)
    PROVE  LET h == Header(p)
               a == Sequenced(h)
               b == After(p)
               e == Parts(r.shape)[k]
           IN  /\ h.ts = BuildTimestamp(r.capture) /\ h.seq = (r.first + k - 1) % Numbers
               /\ h.ts \in 0..Stamps - 1 /\ h.seq \in 0..Numbers - 1
               /\ h.marker <=> k = Len(Parts(r.shape))
               /\ b \in AsmType /\ b.active /\ b.ts = h.ts /\ b.next = (r.first + k) % Numbers
               /\ a.damaged \/ ~(e.part.start \/ a.fu) => b.damaged
               /\ ~a.damaged /\ (e.part.start \/ a.fu) =>
                      /\ ~b.damaged /\ b.payload = Append(a.payload, Piece(f, e))
                      /\ b.fu <=> ~e.part.end
               /\ a.meta = "none" \/ TimesFit(a, r, Timed) => TimesFit(b, r, Timed)
  <1> DEFINE ext == Stamped(r, config.ext, now)
             h == Header(p)
             a == Sequenced(h)
             m == Metadata(a, ext)
             b == After(p)
             e == Parts(r.shape)[k]
             c == Len(Parts(r.shape))
             stamp == BuildTimestamp(r.capture)
  <1>1. /\ p = Packet(r, f, k, ext) /\ r \in Frame /\ f \in Nat /\ k \in 1..c
        /\ now \in Nat /\ now > r.capture
    BY DEF IsPacket
  <1>2. /\ r.shape \in Seq(Nat) /\ c \in Nat /\ r.first \in 0..Numbers - 1 /\ stamp \in 0..Stamps - 1
        /\ r.first + k - 1 \in Int /\ (r.first + k - 1) + 1 = r.first + k
    <2>1. r.shape \in Seq(Nat) /\ c \in 0..Numbers /\ r.first \in 0..Numbers - 1 /\ stamp \in 0..Stamps - 1
      BY <1>1, FrameParts
    <2> HIDE DEF c, stamp
    <2> QED  BY <1>1, <2>1, Parameters
  <1>3. /\ h.marker <=> k = c
        /\ h.seq = (r.first + k - 1) % Numbers /\ h.ts = stamp /\ h.ext = ext
        /\ p.part = e.part /\ p.nalu = e.nalu /\ p.frame = f
    BY <1>1, HeaderIsRead DEF Header
  <1>4. e.part \in PartType /\ Piece(f, e) \in PieceType
    <2>1. e \in PartRecord
      BY <1>1, <1>2, PartsFit DEF IsPart
    <2>2. Piece(f, e) \in PieceType
      <3>1. k \in k..c
        BY <1>1, <1>2
      <3> QED  BY <1>1, <1>2, <3>1, PiecesGrow
    <2> QED  BY <2>1, <2>2 DEF PartRecord
  <1>5. Bytes(p) = Piece(f, e)
    BY <1>3 DEF Bytes, Piece, Begin
  <1>6. b = Assembled(m, p)
    BY <1>3 DEF After
  <1>7. h.seq \in 0..Numbers - 1 /\ (h.seq + 1) % Numbers = (r.first + k) % Numbers
    BY <1>2, <1>3, NumberGrows
  <1> HIDE DEF h, e, ext, stamp, c
  <1>8. a \in AsmType /\ a.active /\ a.ts = h.ts /\ a.next = (h.seq + 1) % Numbers
    BY <1>2, <1>3, <1>7, SequencedIs
  <1> HIDE DEF a
  <1>9. /\ m \in AsmType
        /\ m.active = a.active /\ m.ts = a.ts /\ m.next = a.next /\ m.payload = a.payload
        /\ m.damaged = a.damaged /\ m.fu = a.fu
        /\ a.meta = "none" \/ TimesFit(a, r, Timed) => TimesFit(m, r, Timed)
    BY <1>1, <1>8, MetadataIs DEF Timed, ext
  <1> HIDE DEF m
  <1>10. /\ b \in AsmType
         /\ b.active = m.active /\ b.ts = m.ts /\ b.next = m.next
         /\ b.meta = m.meta /\ b.capture = m.capture /\ b.lastSent = m.lastSent
         /\ m.damaged \/ ~(p.part.start \/ m.fu) => b.damaged
         /\ ~m.damaged /\ (p.part.start \/ m.fu) =>
                /\ ~b.damaged /\ b.payload = Append(m.payload, Bytes(p))
                /\ b.fu <=> ~p.part.end
    BY <1>3, <1>4, <1>5, <1>6, <1>9, AssembledIs
  <1> HIDE DEF b
  <1>11. TimesFit(m, r, Timed) => TimesFit(b, r, Timed)
    BY <1>10 DEF TimesFit
  <1>12. b.active /\ b.ts = h.ts /\ b.next = (r.first + k) % Numbers
    BY <1>7, <1>8, <1>9, <1>10
  <1>13. /\ a.damaged \/ ~(e.part.start \/ a.fu) => b.damaged
         /\ ~a.damaged /\ (e.part.start \/ a.fu) =>
                /\ ~b.damaged /\ b.payload = Append(a.payload, Piece(f, e))
                /\ b.fu <=> ~e.part.end
    BY <1>3, <1>5, <1>9, <1>10
  <1>14. h.ts = stamp /\ h.ts \in 0..Stamps - 1
    BY <1>2, <1>3
  <1> QED  BY <1>3, <1>7, <1>9, <1>10, <1>11, <1>12, <1>13, <1>14 DEF h, a, b, e, c, stamp

(* A packet of another frame than the one under assembly begins a new one.  *)
LEMMA AfterFirst ==
    ASSUME asm \in AsmType, config.ext \in BOOLEAN, config.expect \in BOOLEAN,
           NEW p, NEW r, NEW f, NEW k, NEW now, IsPacket(p, r, f, k, now), ~Continues(Header(p))
    PROVE  IF Parts(r.shape)[k].part.start THEN Gathers(After(p), r, f, k, k, Timed)
           ELSE After(p).damaged
  <1> DEFINE h == Header(p)
             a == Sequenced(h)
             b == After(p)
             e == Parts(r.shape)[k]
  <1>1. /\ h.ts = BuildTimestamp(r.capture) /\ h.ts \in 0..Stamps - 1 /\ h.seq \in 0..Numbers - 1
        /\ b.active /\ b.ts = h.ts /\ b.next = (r.first + k) % Numbers
        /\ a.damaged \/ ~(e.part.start \/ a.fu) => b.damaged
        /\ ~a.damaged /\ (e.part.start \/ a.fu) =>
               /\ ~b.damaged /\ b.payload = Append(a.payload, Piece(f, e))
               /\ b.fu <=> ~e.part.end
        /\ a.meta = "none" \/ TimesFit(a, r, Timed) => TimesFit(b, r, Timed)
    BY AfterIs
  <1>2. ~a.damaged /\ a.payload = << >> /\ a.meta = "none" /\ ~a.fu
    BY <1>1, SequencedIs
  <1>3. Pieces(f, r.shape, k, k) = Append(<< >>, Piece(f, e)) /\ k \in 1..k
    <2>1. r.shape \in Seq(Nat) /\ f \in Nat /\ k \in 1..Len(Parts(r.shape)) /\ Len(Parts(r.shape)) \in Nat
      BY FrameParts DEF IsPacket
    <2>2. k \in k..Len(Parts(r.shape)) /\ k \in 1..k
      BY <2>1
    <2> QED  BY <2>1, <2>2, PiecesGrow
  <1> HIDE DEF h, a, b, e
  <1>4. ~e.part.start => b.damaged
    BY <1>1, <1>2
  <1>5. e.part.start => /\ ~b.damaged /\ b.payload = Pieces(f, r.shape, k, k) /\ (b.fu <=> ~e.part.end)
                        /\ TimesFit(b, r, Timed)
    BY <1>1, <1>2, <1>3
  <1>6. e.part.start => Gathers(b, r, f, k, k, Timed)
    BY <1>1, <1>3, <1>5 DEF Gathers, e
  <1> QED  BY <1>4, <1>6 DEF b, e

(* The packet after the last one gathered goes on with its frame.           *)
LEMMA AfterNext ==
    ASSUME asm \in AsmType, config.ext \in BOOLEAN, config.expect \in BOOLEAN,
           NEW p, NEW r, NEW f, NEW k, NEW now, IsPacket(p, r, f, k, now), k # 1,
           NEW i, Gathers(asm, r, f, i, k - 1, Timed)
    PROVE  Continues(Header(p)) /\ Gathers(After(p), r, f, i, k, Timed)
  <1> DEFINE h == Header(p)
             a == Sequenced(h)
             b == After(p)
             parts == Parts(r.shape)
             e == parts[k]
             d == parts[k - 1]
  <1>1. /\ h.ts = BuildTimestamp(r.capture) /\ h.ts \in 0..Stamps - 1 /\ h.seq \in 0..Numbers - 1
        /\ h.seq = (r.first + k - 1) % Numbers
        /\ b.active /\ b.ts = h.ts /\ b.next = (r.first + k) % Numbers
        /\ ~a.damaged /\ (e.part.start \/ a.fu) =>
               /\ ~b.damaged /\ b.payload = Append(a.payload, Piece(f, e))
               /\ b.fu <=> ~e.part.end
        /\ a.meta = "none" \/ TimesFit(a, r, Timed) => TimesFit(b, r, Timed)
    BY AfterIs
  <1>2. /\ asm.active /\ ~asm.damaged /\ asm.ts = BuildTimestamp(r.capture)
        /\ asm.next = (r.first + (k - 1)) % Numbers /\ i \in 1..k - 1 /\ parts[i].part.start
        /\ asm.payload = Pieces(f, r.shape, i, k - 1) /\ (asm.fu <=> ~d.part.end)
        /\ TimesFit(asm, r, Timed)
    BY DEF Gathers
  <1>3. /\ r.shape \in Seq(Nat) /\ f \in Nat /\ k \in 1..Len(parts) /\ Len(parts) \in Nat
        /\ r.first \in Nat
    BY FrameParts, Parameters DEF IsPacket
  <1>4. Continues(h)
    BY <1>1, <1>2 DEF Continues
  <1>5. h.seq = asm.next
    <2>1. r.first + (k - 1) = r.first + k - 1
      BY <1>3
    <2> QED  BY <1>1, <1>2, <2>1
  <1>6. /\ a.payload = asm.payload /\ a.meta = asm.meta /\ a.capture = asm.capture
        /\ a.lastSent = asm.lastSent /\ a.damaged = asm.damaged /\ a.fu = asm.fu
    BY <1>1, <1>4, <1>5, SequencedIs
  <1>7. Follows(d, e)
    <2>1. k - 1 \in 1..Len(parts) - 1 /\ (k - 1) + 1 = k
      BY <1>3
    <2>2. \A x \in 1..Len(parts) - 1 : Follows(parts[x], parts[x + 1])
      BY <1>3, PartsFit
    <2> HIDE DEF parts
    <2>3. Follows(parts[k - 1], parts[(k - 1) + 1])
      BY <2>1, <2>2
    <2> QED  BY <2>1, <2>3
  <1>8. Pieces(f, r.shape, i, k) = Append(Pieces(f, r.shape, i, k - 1), Piece(f, e)) /\ i \in 1..k
    <2>1. i \in 1..Len(parts) /\ k \in i..Len(parts) /\ k # i /\ i \in 1..k
      BY <1>2, <1>3
    <2> HIDE DEF h, a, b, d
    <2> QED  BY <1>3, <2>1, PiecesFollow
  <1> HIDE DEF h, a, b, e, d, parts
  <1>9. ~a.damaged /\ (e.part.start \/ a.fu)
    BY <1>2, <1>6, <1>7 DEF Follows
  <1>10. TimesFit(a, r, Timed)
    BY <1>2, <1>6 DEF TimesFit
  <1>11. /\ ~b.damaged /\ b.payload = Pieces(f, r.shape, i, k) /\ (b.fu <=> ~e.part.end)
         /\ TimesFit(b, r, Timed)
    BY <1>1, <1>2, <1>6, <1>8, <1>9, <1>10
  <1>12. Gathers(b, r, f, i, k, Timed)
    BY <1>1, <1>2, <1>8, <1>11 DEF Gathers, e, parts
  <1> QED  BY <1>4, <1>12 DEF h, b

(* Any other packet of the frame damages it for good.                       *)
LEMMA AfterDamage ==
    ASSUME asm \in AsmType, config.ext \in BOOLEAN, config.expect \in BOOLEAN,
           NEW p, NEW r, NEW f, NEW k, NEW now, IsPacket(p, r, f, k, now), Continues(Header(p)),
           asm.damaged \/ Header(p).seq # asm.next
    PROVE  After(p).damaged
  <1>1. /\ Header(p).ts \in 0..Stamps - 1 /\ Header(p).seq \in 0..Numbers - 1
        /\ Sequenced(Header(p)).damaged => After(p).damaged
    BY AfterIs
  <1>2. Sequenced(Header(p)).damaged
    BY <1>1, SequencedIs
  <1> QED  BY <1>1, <1>2

-----------------------------------------------------------------------------
(* The server: what is still to be sent, and what was sent. *)

(* What Broadcast has still to send is the rest of the last frame.          *)
BurstFits ==
    burst # NoBurst =>
        /\ burst.total # 0
        /\ frames # << >>
        /\ \E m \in Nat : /\ m < Len(Parts(Last(frames).shape))
                          /\ burst.packets = Rest(Last(frames), Len(frames), m, config.ext)

(* A packet on the network is one of a frame of the history, sent after the *)
(* frame was captured.                                                      *)
PacketFits(p) ==
    \E f \in 1..Len(frames) : \E k, now \in Nat : IsPacket(p, frames[f], f, k, now)
SentFits == \A p \in sent : PacketFits(p)

ServerFits == config \in Configs /\ BurstFits /\ SentFits

(* The configuration stays, and frames are only ever appended to history.   *)
Grown == /\ config' = config
         /\ Len(frames) \in Nat /\ Len(frames') \in Nat /\ Len(frames) <= Len(frames')
         /\ \A m \in 1..Len(frames) : frames'[m] = frames[m]

(* The switches of the configuration are TRUE or FALSE.                     *)
LEMMA Switches ==
    ASSUME config \in Configs
    PROVE  config.ext \in BOOLEAN /\ config.expect \in BOOLEAN /\ config.jitter \in BOOLEAN
  BY InputAssumption

(* UpdateSendTimestamp writes the time of sending into the packet.          *)
Stamp(p, on, now) == IF on THEN [p EXCEPT !.header = UpdateSendTimestamp(@, now)] ELSE p

(* A packet that was built, with that time, is a packet as it is sent.      *)
LEMMA StampIsWritten ==
    ASSUME NEW r, NEW f, NEW k, NEW on \in BOOLEAN, NEW now
    PROVE  Stamp(Packet(r, f, k, Built(r, on)), on, now) = Packet(r, f, k, Stamped(r, on, now))
  <1> DEFINE parts == Parts(r.shape)
             fields == [marker |-> parts[k].marker, payloadType |-> ServerPt,
                        seq |-> r.first + k - 1, ts |-> BuildTimestamp(r.capture)]
             last == k = Len(parts)
             packet(head) == [header |-> head, part |-> parts[k].part, nalu |-> parts[k].nalu,
                              frame |-> f, index |-> k, last |-> last]
             head(ext) == WriteRtpHeader(fields, ext)
  <1>1. \A ext : Packet(r, f, k, ext) = packet(head(ext))
    BY DEF Packet
  <1> HIDE DEF parts, fields, last
  <1>2. CASE on
    <2>1. Built(r, on) = <<r.capture, 0>> /\ Stamped(r, on, now) = <<r.capture, now>>
      BY <1>2 DEF Built, BuildRtpLatencyHeaderExtension, Stamped
    <2>2. \A a, b : head(<<a, b>>) =
              [first |-> 144, second |-> (IF fields.marker THEN 128 ELSE 0) + (fields.payloadType % 128),
               seq |-> fields.seq % Numbers, ts |-> fields.ts % Stamps, ext |-> <<a, b>>]
      <3>1. \A a, b : <<a, b>> # << >>
        OBVIOUS
      <3> QED  BY <3>1 DEF WriteRtpHeader
    <2> DEFINE second == (IF fields.marker THEN 128 ELSE 0) + (fields.payloadType % 128)
               seq == fields.seq % Numbers
               ts == fields.ts % Stamps
               c == r.capture
    <2> HIDE DEF second, seq, ts, c
    <2>3. \A a, b : head(<<a, b>>) =
              [first |-> 144, second |-> second, seq |-> seq, ts |-> ts, ext |-> <<a, b>>]
      BY <2>2 DEF second, seq, ts
    <2>4. UpdateSendTimestamp(head(<<c, 0>>), now) = head(<<c, now>>)
      <3> DEFINE h == [first |-> 144, second |-> second, seq |-> seq, ts |-> ts, ext |-> <<c, 0>>]
      <3>1. [h EXCEPT !.ext = <<c, now>>] =
                [first |-> 144, second |-> second, seq |-> seq, ts |-> ts, ext |-> <<c, now>>]
        OBVIOUS
      <3>2. [<<c, 0>> EXCEPT ![2] = now] = <<c, now>>
        OBVIOUS
      <3>3. h.ext = <<c, 0>>
        OBVIOUS
      <3> HIDE DEF h
      <3>4. [h EXCEPT !.ext[2] = now] = [h EXCEPT !.ext = <<c, now>>]
        <4>1. [h EXCEPT !.ext[2] = now] = [h EXCEPT !.ext = [h.ext EXCEPT ![2] = now]]
          OBVIOUS
        <4> QED  BY <3>2, <3>3, <4>1
      <3>5. head(<<c, 0>>) = h
        BY <2>3 DEF h
      <3> HIDE DEF head
      <3> QED  BY <2>3, <3>1, <3>4, <3>5 DEF UpdateSendTimestamp
    <2> HIDE DEF head
    <2>5. [packet(head(<<c, 0>>)) EXCEPT !.header = UpdateSendTimestamp(@, now)]
              = packet(head(<<c, now>>))
      <3> DEFINE x == head(<<c, 0>>)
                 y == head(<<c, now>>)
      <3>1. UpdateSendTimestamp(x, now) = y
        BY <2>4
      <3> HIDE DEF x, y
      <3>2. [packet(x) EXCEPT !.header = UpdateSendTimestamp(@, now)] = packet(y)
        <4>1. [packet(x) EXCEPT !.header = UpdateSendTimestamp(packet(x).header, now)] = packet(y)
          BY <3>1
        <4> QED  BY <4>1
      <3> QED  BY <3>2 DEF x, y
    <2> QED  BY <1>1, <1>2, <2>1, <2>5 DEF c, Stamp
  <1>3. CASE ~on
    BY <1>3 DEF Built, Stamped, Stamp
  <1> QED  BY <1>2, <1>3

(* The first of the packets still to be sent, and the others.               *)
LEMMA RestShrinks ==
    ASSUME NEW r, NEW f, NEW on, Len(Parts(r.shape)) \in Nat, NEW m \in Nat, m < Len(Parts(r.shape))
    PROVE  /\ Head(Rest(r, f, m, on)) = Packet(r, f, m + 1, Built(r, on))
           /\ Tail(Rest(r, f, m, on)) = Rest(r, f, m + 1, on)
           /\ Rest(r, f, m, on) # << >>
  <1> DEFINE c == Len(Parts(r.shape))
             at(x) == Packet(r, f, x, Built(r, on))
             rest(j) == [x \in 1..c - j |-> at(j + x)]
  <1>1. \A j : Rest(r, f, j, on) = rest(j)
    BY DEF Rest
  <1>2. c \in Nat /\ m < c
    OBVIOUS
  <1> HIDE DEF c, at
  <1>3. /\ rest(m) \in Seq({at(x) : x \in Nat}) /\ Len(rest(m)) = c - m
        /\ rest(m + 1) \in Seq({at(x) : x \in Nat}) /\ Len(rest(m + 1)) = c - (m + 1)
    <2>1. c - m \in Nat /\ c - (m + 1) \in Nat
      BY <1>2
    <2> DEFINE B == {at(x) : x \in Nat}
    <2>2. \A x \in Nat : at(x) \in B
      OBVIOUS
    <2>3. \A x \in 1..c - m : at(m + x) \in B
      <3>1. \A x \in 1..c - m : m + x \in Nat
        BY <2>1
      <3> QED  BY <2>2, <3>1
    <2>4. \A x \in 1..c - (m + 1) : at(m + 1 + x) \in B
      <3>1. \A x \in 1..c - (m + 1) : m + 1 + x \in Nat
        BY <2>1
      <3> QED  BY <2>2, <3>1
    <2> HIDE DEF B
    <2>5. rest(m) \in Seq(B) /\ Len(rest(m)) = c - m
      BY <2>1, <2>3
    <2>6. rest(m + 1) \in Seq(B) /\ Len(rest(m + 1)) = c - (m + 1)
      BY <2>1, <2>4
    <2> QED  BY <2>5, <2>6 DEF B
  <1>4. rest(m) # << >> /\ Head(rest(m)) = at(m + 1)
    <2>1. 1 \in 1..c - m /\ c - m # 0
      BY <1>2
    <2> QED  BY <1>3, <2>1
  <1>5. Tail(rest(m)) = rest(m + 1)
    <2> DEFINE B == {at(x) : x \in Nat}
               s == rest(m)
               t == rest(m + 1)
    <2>1. s \in Seq(B) /\ t \in Seq(B) /\ Len(s) = c - m /\ Len(t) = c - (m + 1) /\ s # << >>
      BY <1>3, <1>4
    <2>2. \A x \in 1..c - (m + 1) : s[x + 1] = t[x]
      <3> SUFFICES ASSUME NEW x \in 1..c - (m + 1) PROVE s[x + 1] = t[x]
        OBVIOUS
      <3>1. x + 1 \in 1..c - m /\ m + (x + 1) = m + 1 + x
        BY <1>2
      <3> QED  BY <3>1
    <2> HIDE DEF B, s, t
    <2>3. Tail(s) \in Seq(B) /\ Len(Tail(s)) = c - (m + 1)
          /\ \A x \in 1..c - (m + 1) : Tail(s)[x] = s[x + 1]
      BY <1>2, <2>1
    <2>4. Tail(s) = t
      BY <2>1, <2>2, <2>3, SeqEqual
    <2> QED  BY <2>4 DEF s, t
  <1> QED  BY <1>1, <1>4, <1>5 DEF at

(* Only Broadcast changes the history, and it appends.                      *)
LEMMA HistoryGrows ==
    ASSUME PacingInv, [Next]_vars
    PROVE  Grown
  <1>1. frames \in Seq(Frame) /\ Len(frames) \in Nat
    BY DEF PacingInv, FramesFit
  <1>2. CASE UNCHANGED <<config, frames>>
    BY <1>1, <1>2 DEF Grown
  <1>3. ASSUME NEW shape \in Shapes, Broadcast(shape)
        PROVE  Grown
    <2>1. config' = config
      BY <1>3 DEF Broadcast
    <2>2. PICK new : frames' = Append(frames, new)
      BY <1>3 DEF Broadcast
    <2>3. frames \in Seq(Frame \cup {new}) /\ new \in Frame \cup {new}
      BY <1>1
    <2> DEFINE S == Frame \cup {new}
    <2> HIDE DEF S
    <2>4. frames \in Seq(S) /\ new \in S
      BY <2>3 DEF S
    <2>5. Len(frames') = Len(frames) + 1 /\ \A m \in 1..Len(frames) : frames'[m] = frames[m]
      BY <2>2, <2>4
    <2> QED  BY <1>1, <2>1, <2>5 DEF Grown
  <1>4. CASE UNCHANGED vars
    BY <1>2, <1>4 DEF vars
  <1>5. ASSUME NEW how \in StartOutcomes, NEW first \in FirstNumbers, Start(how, first)
        PROVE  Grown
    BY <1>2, <1>5 DEF Start
  <1>6. CASE Stop \/ SendPacket \/ SendFails
    BY <1>2, <1>6 DEF Stop, SendPacket, SendFails
  <1>7. ASSUME NEW p \in sent, Receive(p)
        PROVE  Grown
    BY <1>2, <1>7 DEF Receive, serverVars
  <1>8. CASE PopFrame \/ PopNotYet \/ Reconnect
    BY <1>2, <1>8 DEF PopFrame, PopNotYet, Reconnect, serverVars
  <1> QED  BY <1>3, <1>4, <1>5, <1>6, <1>7, <1>8 DEF Next

(* What was sent stays a packet of its frame.                               *)
LEMMA PacketStays ==
    ASSUME Grown, NEW p, PacketFits(p)
    PROVE  PacketFits(p)'
  <1>1. PICK f \in 1..Len(frames), k \in Nat, now \in Nat : IsPacket(p, frames[f], f, k, now)
    BY DEF PacketFits
  <1>2. config' = config /\ f \in 1..Len(frames') /\ frames'[f] = frames[f]
    BY DEF Grown
  <1>3. IsPacket(p, frames[f], f, k, now)'
    BY <1>1, <1>2, Zenon DEF IsPacket
  <1> QED  BY <1>2, <1>3 DEF PacketFits

(* No step that leaves the sending alone.                                   *)
LEMMA ServerUntouched ==
    ASSUME ServerFits, Grown, UNCHANGED <<frames, burst, sent>>
    PROVE  ServerFits'
  <1>1. config' = config
    BY DEF Grown
  <1>2. SentFits'
    BY PacketStays DEF ServerFits, SentFits
  <1>3. BurstFits'
    BY <1>1 DEF ServerFits, BurstFits
  <1> QED  BY <1>1, <1>2, <1>3 DEF ServerFits

(* Broadcast has all packets of its frame to send.                          *)
LEMMA ServerBroadcast ==
    ASSUME PacingInv, ServerFits, PacingInv', Grown, NEW shape \in Shapes, Broadcast(shape)
    PROVE  ServerFits'
  <1> DEFINE n == Len(frames)
             capture == (IF frames = << >> THEN 0 ELSE Last(frames).capture) + Gap
             packets == Packetize(shape, capture, seqNo)
             count == Len(packets)
             r == [shape |-> shape, capture |-> capture, start |-> starts, first |-> seqNo]
             c == Len(Parts(shape))
  <1>1. /\ frames' = Append(frames, r) /\ burst = NoBurst /\ sent' = sent
        /\ count = 0 => burst' = burst
        /\ count # 0 => burst' = [packets |-> packets, total |-> count,
                                  interval |-> ComputePacingInterval(count, capture)]
    BY Zenon DEF Broadcast
  <1>2. config' = config /\ n \in Nat /\ frames \in Seq(Frame) /\ frames' \in Seq(Frame)
    BY DEF Grown, PacingInv, FramesFit
  <1>3. shape \in Seq(Nat) /\ c \in Nat /\ count = c
    BY Parameters, FrameHasPackets
  <1>4. SentFits'
    BY <1>1, PacketStays DEF ServerFits, SentFits
  <1>5. CASE count = 0
    BY <1>1, <1>2, <1>4, <1>5 DEF ServerFits, BurstFits
  <1>6. CASE count # 0
    <2>1. frames' # << >> /\ Last(frames') = r /\ Len(frames') = n + 1
      <3> DEFINE S == Frame \cup {r}
      <3>1. frames \in Seq(S) /\ r \in S
        BY <1>2
      <3> HIDE DEF S, r
      <3>2. Len(frames') = n + 1 /\ frames'[n + 1] = r
        BY <1>1, <3>1
      <3> QED  BY <1>2, <3>2 DEF Last
    <2>2. packets = Rest(r, n + 1, 0, config.ext)
      <3>1. \A k : 0 + k = k \/ k \notin Nat
        OBVIOUS
      <3>2. packets = [k \in 1..c |-> Packet(r, n + 1, k, Built(r, config.ext))]
        BY Zenon DEF Packetize, Packet, Built
      <3> DEFINE at(k) == Packet(r, n + 1, k, Built(r, config.ext))
      <3>3. Rest(r, n + 1, 0, config.ext) = [k \in 1..c - 0 |-> at(0 + k)]
        BY DEF Rest
      <3> HIDE DEF at, packets, c, r
      <3>4. [k \in 1..c |-> at(k)] = [k \in 1..c - 0 |-> at(0 + k)]
        BY <1>3
      <3> QED  BY <3>2, <3>3, <3>4 DEF at
    <2> HIDE DEF packets, r, count, c
    <2>3. burst'.packets = packets /\ burst'.total = count
      BY <1>1, <1>6
    <2>4. 0 \in Nat /\ 0 < Len(Parts(r.shape))
      BY <1>3, <1>6 DEF r, c
    <2>5. BurstFits'
      BY <1>2, <1>6, <2>1, <2>2, <2>3, <2>4 DEF BurstFits
    <2> QED  BY <1>2, <1>4, <2>5 DEF ServerFits
  <1> QED  BY <1>5, <1>6

(* SendPacket takes the next packet of the frame, after its capture.        *)
LEMMA ServerSends ==
    ASSUME PacingInv, ServerFits, Grown, SendPacket
    PROVE  ServerFits'
  <1> DEFINE r == Last(frames)
             n == Len(frames)
             c == Len(Parts(r.shape))
             on == config.ext
             p == Head(burst.packets)
             now == r.capture + p.index
             q == Stamp(p, on, now)
  <1>1. /\ burst # NoBurst /\ frames' = frames /\ config' = config
        /\ sent' = sent \cup {q}
        /\ p.last => burst' = NoBurst
        /\ ~p.last => burst' = [burst EXCEPT !.packets = Tail(@)]
    BY Zenon DEF SendPacket, Grown, Stamp
  <1>2. burst.total # 0 /\ frames # << >>
    BY <1>1 DEF ServerFits, BurstFits
  <1>3. PICK m \in Nat : m < c /\ burst.packets = Rest(r, n, m, on)
    BY <1>1 DEF ServerFits, BurstFits
  <1>4. n \in 1..n /\ r \in Frame /\ r = frames[n]
    <2>1. frames \in Seq(Frame)
      BY DEF PacingInv, FramesFit
    <2> QED  BY <1>2, <2>1 DEF Last
  <1>5. c \in Nat /\ r.capture \in Nat /\ on \in BOOLEAN
    BY <1>4, FrameParts, Switches DEF ServerFits
  <1>6. p = Packet(r, n, m + 1, Built(r, on)) /\ Tail(burst.packets) = Rest(r, n, m + 1, on)
    <2> HIDE DEF r, n, on
    <2>1. Head(Rest(r, n, m, on)) = Packet(r, n, m + 1, Built(r, on))
          /\ Tail(Rest(r, n, m, on)) = Rest(r, n, m + 1, on)
      BY <1>3, <1>5, RestShrinks
    <2> QED  BY <1>3, <2>1
  <1>7. p.index = m + 1 /\ (p.last <=> m + 1 = c)
    <2> DEFINE k == m + 1
               last == k = c
               built == Built(r, on)
               head == WriteRtpHeader([marker |-> Parts(r.shape)[k].marker, payloadType |-> ServerPt,
                                       seq |-> r.first + k - 1, ts |-> BuildTimestamp(r.capture)], built)
               part == Parts(r.shape)[k].part
               nalu == Parts(r.shape)[k].nalu
    <2> HIDE DEF p, r, n, k, built
    <2>1. p = Packet(r, n, k, built)
      BY <1>6 DEF k, built
    <2>2. p = [header |-> head, part |-> part, nalu |-> nalu, frame |-> n, index |-> k, last |-> last]
      BY <2>1 DEF Packet
    <2> HIDE DEF head, part, nalu, last
    <2>3. p.index = k /\ p.last = last
      BY <2>2
    <2> QED  BY <2>3 DEF k, last
  <1>8. m + 1 \in 1..c /\ now \in Nat /\ now > r.capture
    BY <1>3, <1>5, <1>7
  <1>9. q = Packet(r, n, m + 1, Stamped(r, on, now))
    <2> HIDE DEF now, r, n, on, p
    <2> QED  BY <1>5, <1>6, StampIsWritten
  <1> HIDE DEF q, p, now
  <1>10. IsPacket(q, r, n, m + 1, now)
    BY <1>4, <1>8, <1>9 DEF IsPacket
  <1>11. PacketFits(q)
    <2>1. m + 1 \in Nat /\ n \in 1..n /\ now \in Nat /\ r = frames[n]
      BY <1>4, <1>8
    <2> HIDE DEF r
    <2> QED  BY <1>10, <2>1 DEF PacketFits
  <1>12. SentFits'
    BY <1>1, <1>11, PacketStays DEF ServerFits, SentFits
  <1>13. BurstFits'
    <2>1. CASE p.last
      BY <1>1, <2>1 DEF BurstFits
    <2>2. CASE ~p.last
      <3>1. burst = [packets |-> burst.packets, total |-> burst.total, interval |-> burst.interval]
        BY DEF PacingInv, BurstShape
      <3>2. burst'.packets = Tail(burst.packets) /\ burst'.total = burst.total
        BY <1>1, <2>2, <3>1
      <3>3. m + 1 \in Nat /\ m + 1 < c
        BY <1>3, <1>5, <1>7, <2>2
      <3> QED  BY <1>1, <1>2, <1>6, <3>2, <3>3 DEF BurstFits
    <2> QED  BY <2>1, <2>2
  <1> QED  BY <1>1, <1>12, <1>13 DEF ServerFits

(* At first nothing was sent.                                               *)
LEMMA ServerInit == Init => ServerFits
  BY DEF Init, ServerFits, BurstFits, SentFits

(* Every step keeps what is known of the packets.                           *)
LEMMA ServerKept ==
    ASSUME PacingInv, ServerFits, [Next]_vars
    PROVE  ServerFits'
  <1>1. PacingInv' /\ Grown
    BY PacingInvKept, HistoryGrows
  <1>2. CASE UNCHANGED <<frames, burst, sent>>
    BY <1>1, <1>2, ServerUntouched
  <1>3. CASE UNCHANGED vars
    BY <1>2, <1>3 DEF vars
  <1>4. ASSUME NEW how \in StartOutcomes, NEW first \in FirstNumbers, Start(how, first)
        PROVE  ServerFits'
    BY <1>2, <1>4 DEF Start
  <1>5. CASE Stop
    BY <1>2, <1>5 DEF Stop
  <1>6. ASSUME NEW shape \in Shapes, Broadcast(shape)
        PROVE  ServerFits'
    BY <1>1, <1>6, ServerBroadcast
  <1>7. CASE SendPacket
    BY <1>1, <1>7, ServerSends
  <1>8. CASE SendFails
    <2>1. burst' = NoBurst /\ UNCHANGED <<config, frames, sent>>
      BY <1>8 DEF SendFails
    <2> QED  BY <1>1, <2>1, PacketStays DEF ServerFits, BurstFits, SentFits
  <1>9. ASSUME NEW p \in sent, Receive(p)
        PROVE  ServerFits'
    BY <1>2, <1>9 DEF Receive, serverVars
  <1>10. CASE PopFrame \/ PopNotYet \/ Reconnect
    BY <1>2, <1>10 DEF PopFrame, PopNotYet, Reconnect, serverVars
  <1> QED  BY <1>3, <1>4, <1>5, <1>6, <1>7, <1>8, <1>9, <1>10 DEF Next

-----------------------------------------------------------------------------
(* The client: the partial frame, and the frames put together. *)

(* A frame that holds all parts of one frame of the server from the         *)
(* beginning of a NAL unit on, with the times of that frame.                *)
WholeFrame(g, r, f, timed) ==
    /\ \E i \in 1..Len(Parts(r.shape)) :
           Parts(r.shape)[i].part.start /\ g.payload = Pieces(f, r.shape, i, Len(Parts(r.shape)))
    /\ IF timed THEN g.capture = r.capture /\ g.lastSent > r.capture ELSE g.capture = 0
FrameFits(g, fs, timed) == g = NoFrame \/ \E f \in 1..Len(fs) : WholeFrame(g, fs[f], f, timed)

(* Unless it is damaged, the partial frame has gathered all packets of one  *)
(* frame from one that begins a NAL unit to the latest one.                 *)
AsmFits ==
    asm.active /\ ~asm.damaged =>
        \E f \in 1..Len(frames) : \E k \in 1..Len(Parts(frames[f].shape)) - 1 :
            \E i \in Nat : Gathers(asm, frames[f], f, i, k, Timed)

HeldFits ==
    /\ buffer = [held |-> buffer.held, next |-> buffer.next]
    /\ DOMAIN buffer.held \subseteq 0..Stamps - 1
    /\ FrameFits(returned, frames, Timed)
    /\ \A key \in DOMAIN buffer.held : FrameFits(buffer.held[key], frames, Timed)

(* Packets received in a row from the first one of a frame on are all in    *)
(* the partial frame.                                                       *)
RunFits ==
    run # NoRun =>
        /\ run.frame \in 1..Len(frames)
        /\ IF run.whole THEN run.count = Len(Parts(frames[run.frame].shape))
           ELSE /\ run.count \in 1..Len(Parts(frames[run.frame].shape)) - 1
                /\ Gathers(asm, frames[run.frame], run.frame, 1, run.count, Timed)

ClientFits == asm \in AsmType /\ AsmFits /\ HeldFits /\ RunFits

(* At first nothing was received.                                           *)
LEMMA ClientInit == Init => ClientFits
  <1> SUFFICES ASSUME Init PROVE ClientFits
    OBVIOUS
  <1>1. /\ asm = ResetRtpState /\ returned = NoFrame /\ run = NoRun
        /\ buffer = [held |-> << >>, next |-> NoKey]
    BY DEF Init
  <1>2. asm \in AsmType /\ AsmFits
    BY <1>1, Parameters DEF ResetRtpState, AsmType, AsmFits
  <1>3. HeldFits
    <2>1. DOMAIN << >> = {}
      OBVIOUS
    <2> QED  BY <1>1, <2>1 DEF HeldFits, FrameFits
  <1>4. RunFits
    BY <1>1 DEF RunFits
  <1> QED  BY <1>2, <1>3, <1>4 DEF ClientFits

(* A frame put together stays one of the history.                           *)
LEMMA FrameStays ==
    ASSUME Grown, NEW g, FrameFits(g, frames, Timed)
    PROVE  FrameFits(g, frames', Timed')
  <1>1. Timed' = Timed /\ \A f \in 1..Len(frames) : f \in 1..Len(frames') /\ frames'[f] = frames[f]
    BY DEF Grown, Timed
  <1>2. CASE g = NoFrame
    BY <1>2 DEF FrameFits
  <1>3. CASE \E f \in 1..Len(frames) : WholeFrame(g, frames[f], f, Timed)
    BY <1>1, <1>3 DEF FrameFits
  <1> QED  BY <1>2, <1>3 DEF FrameFits

(* No step of the server.                                                   *)
LEMMA ClientUntouched ==
    ASSUME ClientFits, Grown, UNCHANGED clientVars
    PROVE  ClientFits'
  <1>1. UNCHANGED <<asm, buffer, returned, run>>
    BY DEF clientVars
  <1>2. Timed' = Timed /\ \A f \in 1..Len(frames) : f \in 1..Len(frames') /\ frames'[f] = frames[f]
    BY DEF Grown, Timed
  <1>3. asm' \in AsmType
    BY <1>1 DEF ClientFits
  <1>4. AsmFits'
    <2> SUFFICES ASSUME asm.active, ~asm.damaged PROVE AsmFits'
      BY <1>1 DEF AsmFits
    <2>1. PICK f \in 1..Len(frames) : \E k \in 1..Len(Parts(frames[f].shape)) - 1 :
              \E i \in Nat : Gathers(asm, frames[f], f, i, k, Timed)
      BY DEF ClientFits, AsmFits
    <2>2. f \in 1..Len(frames') /\ frames'[f] = frames[f]
      BY <1>2
    <2> QED  BY <1>1, <1>2, <2>1, <2>2 DEF AsmFits
  <1>5. HeldFits'
    <2>1. /\ FrameFits(returned', frames', Timed')
          /\ \A key \in DOMAIN buffer.held : FrameFits(buffer'.held[key], frames', Timed')
      <3>1. \A g : FrameFits(g, frames, Timed) => FrameFits(g, frames', Timed')
        BY FrameStays
      <3>2. /\ FrameFits(returned, frames, Timed)
            /\ \A key \in DOMAIN buffer.held : FrameFits(buffer.held[key], frames, Timed)
        BY DEF ClientFits, HeldFits
      <3> QED  BY <1>1, <3>1, <3>2 DEF FrameFits
    <2> QED  BY <1>1, <2>1 DEF ClientFits, HeldFits
  <1>6. RunFits'
    <2> SUFFICES ASSUME run # NoRun PROVE RunFits'
      BY <1>1 DEF RunFits
    <2>1. run.frame \in 1..Len(frames') /\ frames'[run.frame] = frames[run.frame]
      BY <1>2 DEF ClientFits, RunFits
    <2> QED  BY <1>1, <1>2, <2>1 DEF ClientFits, RunFits
  <1> QED  BY <1>3, <1>4, <1>5, <1>6 DEF ClientFits

(* Whatever packet arrives, the partial frame has gathered its frame up to  *)
(* it, or is damaged.                                                       *)
LEMMA AfterFits ==
    ASSUME PacingInv, ServerFits, ClientFits, NEW p, NEW f \in 1..Len(frames), NEW k, NEW now,
           IsPacket(p, frames[f], f, k, now)
    PROVE  After(p).damaged \/ \E i \in 1..k : Gathers(After(p), frames[f], f, i, k, Timed)
  <1> DEFINE r == frames[f]
             h == Header(p)
             b == After(p)
             Good == b.damaged \/ \E i \in 1..k : Gathers(b, r, f, i, k, Timed)
  <1>1. /\ asm \in AsmType /\ config.ext \in BOOLEAN /\ config.expect \in BOOLEAN
        /\ IsPacket(p, r, f, k, now)
    BY Switches DEF ClientFits, ServerFits
  <1>2. h.ts = BuildTimestamp(r.capture) /\ h.seq = (r.first + k - 1) % Numbers
    BY <1>1, AfterIs
  <1>3. r \in Frame /\ k \in 1..Len(Parts(r.shape)) /\ Len(Parts(r.shape)) \in 0..Numbers
        /\ r.first \in Nat /\ Numbers \in Nat \ {0}
    BY <1>1, FrameParts, Parameters DEF IsPacket
  <1>4. ASSUME ~Continues(h) PROVE Good
    <2>1. b.damaged \/ Gathers(b, r, f, k, k, Timed)
      BY <1>1, <1>4, AfterFirst
    <2>2. k \in 1..k
      BY <1>3
    <2> HIDE DEF r, b
    <2> QED  BY <2>1, <2>2
  <1>5. ASSUME Continues(h), asm.damaged \/ h.seq # asm.next PROVE Good
    BY <1>1, <1>5, AfterDamage
  <1>6. ASSUME Continues(h), ~asm.damaged, h.seq = asm.next PROVE Good
    <2>1. asm.active /\ ~asm.damaged /\ asm.ts = h.ts
      BY <1>6 DEF Continues
    <2>2. PICK m \in 1..Len(frames) : \E l \in 1..Len(Parts(frames[m].shape)) - 1 :
              \E i \in Nat : Gathers(asm, frames[m], m, i, l, Timed)
      BY <2>1 DEF ClientFits, AsmFits
    <2>3. PICK l \in 1..Len(Parts(frames[m].shape)) - 1 :
              \E i \in Nat : Gathers(asm, frames[m], m, i, l, Timed)
      BY <2>2
    <2>4. PICK i \in Nat : Gathers(asm, frames[m], m, i, l, Timed)
      BY <2>3
    <2>5. asm.ts = BuildTimestamp(frames[m].capture) /\ asm.next = (frames[m].first + l) % Numbers
          /\ i \in 1..l
      BY <2>4 DEF Gathers
    <2>6. m = f
      <3>1. FramesFit /\ BuildTimestamp(frames[f].capture) = BuildTimestamp(frames[m].capture)
        BY <1>2, <2>1, <2>5 DEF PacingInv
      <3> QED  BY <3>1, StampsTell
    <2>7. l \in 1..Len(Parts(r.shape)) - 1 /\ (r.first + k - 1) % Numbers = (r.first + l) % Numbers
      BY <1>2, <1>6, <2>5, <2>6
    <2> HIDE DEF r, h, b
    <2>8. r.first + k - 1 = r.first + l
      <3>1. /\ r.first + k - 1 \in Int /\ r.first + l \in Int
            /\ (r.first + k - 1) - (r.first + l) < Numbers /\ (r.first + l) - (r.first + k - 1) < Numbers
        <4> DEFINE c == Len(Parts(r.shape))
                   x == r.first
        <4>1. c \in 0..Numbers /\ k \in 1..c /\ l \in 1..c - 1 /\ x \in Nat /\ Numbers \in Nat
          BY <1>3, <2>7
        <4> HIDE DEF c, x
        <4>2. /\ x + k - 1 \in Int /\ x + l \in Int
              /\ (x + k - 1) - (x + l) < Numbers /\ (x + l) - (x + k - 1) < Numbers
          BY <4>1
        <4> QED  BY <4>2 DEF x
      <3> QED  BY <2>7, <3>1, NumbersTell
    <2>9. l = k - 1 /\ k # 1 /\ i \in 1..k
      BY <1>3, <2>5, <2>7, <2>8
    <2>10. Gathers(asm, r, f, i, k - 1, Timed)
      BY <2>4, <2>6, <2>9 DEF r
    <2>11. Gathers(b, r, f, i, k, Timed)
      BY <1>1, <2>9, <2>10, AfterNext DEF b
    <2> QED  BY <2>9, <2>11
  <1> HIDE DEF Good, h
  <1>7. Good
    BY <1>4, <1>5, <1>6
  <1> QED  BY <1>7 DEF Good

(* CompletedFrame of a frame gathered to its last part.                     *)
LEMMA CompletedIsWhole ==
    ASSUME NEW a \in AsmType, NEW r \in Frame, NEW f, NEW i \in 1..Len(Parts(r.shape)),
           NEW timed \in BOOLEAN, Gathers(a, r, f, i, Len(Parts(r.shape)), timed)
    PROVE  WholeFrame(CompletedFrame(a), r, f, timed)
  <1>1. CompletedFrame(a).payload = Pieces(f, r.shape, i, Len(Parts(r.shape)))
        /\ Parts(r.shape)[i].part.start
    BY DEF CompletedFrame, Gathers
  <1>2. TimesFit(a, r, timed)
    BY DEF Gathers
  <1>3. /\ CompletedFrame(a).capture = IF a.meta = "have" THEN a.capture ELSE 0
        /\ CompletedFrame(a).lastSent = IF a.meta = "have" THEN a.lastSent ELSE 0
    BY DEF CompletedFrame
  <1>4. IF timed THEN CompletedFrame(a).capture = r.capture /\ CompletedFrame(a).lastSent > r.capture
        ELSE CompletedFrame(a).capture = 0
    BY <1>2, <1>3 DEF TimesFit
  <1> QED  BY <1>1, <1>4 DEF WholeFrame

(* BufferCompletedUdpFrame keeps what it holds.                             *)
LEMMA HeldKeeps ==
    ASSUME HeldFits, NEW key \in 0..Stamps - 1, NEW g, FrameFits(g, frames, Timed)
    PROVE  LET b == Held(key, g)
           IN  /\ b = [held |-> b.held, next |-> b.next] /\ DOMAIN b.held \subseteq 0..Stamps - 1
               /\ \A t \in DOMAIN b.held : FrameFits(b.held[t], frames, Timed)
               /\ key \in DOMAIN buffer.held \/ (key \in DOMAIN b.held /\ b.held[key] = g)
  <1> DEFINE held == [t \in DOMAIN buffer.held \cup {key} |-> IF t = key THEN g ELSE buffer.held[t]]
             next == buffer.next
  <1>1. /\ buffer = [held |-> buffer.held, next |-> next] /\ DOMAIN buffer.held \subseteq 0..Stamps - 1
        /\ \A t \in DOMAIN buffer.held : FrameFits(buffer.held[t], frames, Timed)
    BY DEF HeldFits
  <1>2. CASE key \in DOMAIN buffer.held
    <2>1. Held(key, g) = buffer
      BY <1>2 DEF Held
    <2> QED  BY <1>1, <1>2, <2>1
  <1>3. CASE key \notin DOMAIN buffer.held
    <2>1. /\ DOMAIN held = {key} \cup DOMAIN buffer.held
          /\ held[key] = g /\ \A t \in DOMAIN buffer.held : held[t] = buffer.held[t]
      BY <1>3
    <2>2. Held(key, g) = [buffer EXCEPT !.held = held]
      BY <1>3 DEF Held
    <2> HIDE DEF held, next
    <2>3. Held(key, g) = [held |-> held, next |-> next]
      BY <1>1, <2>2
    <2>4. Held(key, g).held = held /\ Held(key, g).next = next
      BY <2>3
    <2>5. \A t \in DOMAIN held : FrameFits(held[t], frames, Timed)
      BY <1>1, <2>1
    <2> QED  BY <1>1, <2>1, <2>3, <2>4, <2>5
  <1> QED  BY <1>2, <1>3

(* TryPopReadyRtpFrame takes a frame that is there.                         *)
LEMMA ClientPops ==
    ASSUME ClientFits, Grown, PopFrame, UNCHANGED frames
    PROVE  ClientFits'
  <1> DEFINE held == buffer.held
             key == IF Expected \in DOMAIN held THEN Expected ELSE Oldest
             left == Restrict(held, DOMAIN held \ {key})
             next == IF DOMAIN left = {} THEN NoKey ELSE key + 1
  <1>1. /\ UNCHANGED <<config, asm, run>> /\ DOMAIN held # {}
        /\ returned' = held[key] /\ buffer' = [held |-> left, next |-> next]
    BY DEF PopFrame
  <1>2. /\ DOMAIN held \subseteq 0..Stamps - 1
        /\ \A t \in DOMAIN held : FrameFits(held[t], frames, Timed)
    BY DEF ClientFits, HeldFits
  <1>3. key \in DOMAIN held
    <2>1. DOMAIN held \in SUBSET Nat
      BY <1>2
    <2>2. Oldest \in DOMAIN held
      <3> DEFINE S == DOMAIN held
      <3> HIDE DEF S
      <3>1. PICK m \in S : \A x \in S : m <= x
        BY <1>1, <2>1, HasLeast DEF S
      <3>2. Min(S) \in S
        BY <3>1 DEF Min
      <3> QED  BY <3>2 DEF S, Oldest
    <2> QED  BY <2>2
  <1>4. DOMAIN left = DOMAIN held \ {key} /\ \A t \in DOMAIN left : left[t] = held[t]
    BY DEF Restrict
  <1> HIDE DEF left, next, key
  <1>5. buffer'.held = left /\ buffer'.next = next
    BY <1>1
  <1>6. \A g : FrameFits(g, frames, Timed) => FrameFits(g, frames', Timed')
    BY FrameStays
  <1>7. FrameFits(held[key], frames', Timed') /\ \A t \in DOMAIN left : FrameFits(left[t], frames', Timed')
    BY <1>2, <1>3, <1>4, <1>6
  <1>8. HeldFits'
    <2>1. FrameFits(returned', frames', Timed')
      BY <1>1, <1>7 DEF FrameFits
    <2>2. \A t \in DOMAIN buffer'.held : FrameFits(buffer'.held[t], frames', Timed')
      BY <1>5, <1>7 DEF FrameFits
    <2> QED  BY <1>1, <1>2, <1>4, <1>5, <2>1, <2>2 DEF HeldFits
  <1>9. Timed' = Timed
    BY <1>1 DEF Timed
  <1>10. AsmFits' /\ RunFits' /\ asm' \in AsmType
    BY <1>1, <1>9 DEF ClientFits, AsmFits, RunFits
  <1> QED  BY <1>8, <1>10 DEF ClientFits

(* TryPopReadyRtpFrame without a frame only remembers what it waits for.    *)
LEMMA ClientWaits ==
    ASSUME ClientFits, Grown, PopNotYet, UNCHANGED frames
    PROVE  ClientFits'
  <1>1. /\ UNCHANGED <<config, asm, run, frames>> /\ returned' = NoFrame
        /\ buffer' = [buffer EXCEPT !.next = Expected]
    BY DEF PopNotYet
  <1>2. buffer = [held |-> buffer.held, next |-> buffer.next]
    BY DEF ClientFits, HeldFits
  <1>3. buffer' = [held |-> buffer.held, next |-> Expected]
    BY <1>1, <1>2
  <1>4. buffer'.held = buffer.held /\ buffer'.next = Expected
    BY <1>3
  <1>5. Timed' = Timed
    BY <1>1 DEF Timed
  <1>6. HeldFits'
    BY <1>1, <1>3, <1>4, <1>5 DEF ClientFits, HeldFits, FrameFits
  <1>7. AsmFits' /\ RunFits' /\ asm' \in AsmType
    BY <1>1, <1>5 DEF ClientFits, AsmFits, RunFits
  <1> QED  BY <1>6, <1>7 DEF ClientFits

(* A new connection begins with nothing.                                    *)
LEMMA ClientReconnects ==
    ASSUME Reconnect
    PROVE  ClientFits'
  <1>1. /\ asm' = ResetRtpState /\ returned' = NoFrame /\ run' = NoRun
        /\ buffer' = [held |-> << >>, next |-> NoKey]
    BY DEF Reconnect
  <1>2. asm' \in AsmType /\ AsmFits'
    BY <1>1, Parameters DEF ResetRtpState, AsmType, AsmFits
  <1>3. HeldFits'
    <2>1. DOMAIN << >> = {}
      OBVIOUS
    <2> QED  BY <1>1, <2>1 DEF HeldFits, FrameFits
  <1>4. RunFits'
    BY <1>1 DEF RunFits
  <1> QED  BY <1>2, <1>3, <1>4 DEF ClientFits

(* Receive: what it leaves in the partial frame, the buffer and the answer. *)
LEMMA ReceiveIs ==
    ASSUME NEW p \in sent, Receive(p)
    PROVE  LET b == After(p)
               done == Header(p).marker /\ Ready(b)
           IN  /\ UNCHANGED <<config, frames>>
               /\ asm' = IF Header(p).marker THEN ResetRtpState ELSE b
               /\ buffer' = IF done /\ config.jitter THEN Held(b.ts, CompletedFrame(b)) ELSE buffer
               /\ returned' = IF done /\ ~config.jitter THEN CompletedFrame(b) ELSE NoFrame
               /\ \/ run' = NoRun
                  \/ /\ p.index = 1 /\ ~Continues(Header(p))
                     /\ run' = [frame |-> p.frame, count |-> 1, whole |-> p.last]
                  \/ /\ run.frame = p.frame /\ p.index = run.count + 1 /\ p.index # 1
                     /\ run' = [frame |-> p.frame, count |-> p.index, whole |-> p.last]
  <1>1. UNCHANGED <<config, frames>>
    BY DEF Receive, serverVars
  <1>2. /\ asm' = IF Header(p).marker THEN ResetRtpState ELSE After(p)
        /\ buffer' = IF Header(p).marker /\ Ready(After(p)) /\ config.jitter
                     THEN Held(After(p).ts, CompletedFrame(After(p))) ELSE buffer
        /\ returned' = IF Header(p).marker /\ Ready(After(p)) /\ ~config.jitter
                       THEN CompletedFrame(After(p)) ELSE NoFrame
    BY Zenon DEF Receive, After, Header
  <1>3. run' = CASE p.index = 1 /\ ~Continues(Header(p))
                        -> [frame |-> p.frame, count |-> 1, whole |-> p.last]
                 [] run.frame = p.frame /\ p.index = run.count + 1 /\ p.index # 1
                        -> [frame |-> p.frame, count |-> p.index, whole |-> p.last]
                 [] OTHER -> NoRun
    BY Zenon DEF Receive, Header
  <1>4. \/ run' = NoRun
        \/ /\ p.index = 1 /\ ~Continues(Header(p))
           /\ run' = [frame |-> p.frame, count |-> 1, whole |-> p.last]
        \/ /\ run.frame = p.frame /\ p.index = run.count + 1 /\ p.index # 1
           /\ run' = [frame |-> p.frame, count |-> p.index, whole |-> p.last]
    BY <1>3
  <1> HIDE DEF After, Header, Receive
  <1> QED  BY <1>1, <1>2, <1>4, Zenon

(* What a packet sent is, when it arrives.                                  *)
LEMMA PacketIs ==
    ASSUME ServerFits, NEW p, NEW r, NEW f, NEW k, NEW now, IsPacket(p, r, f, k, now)
    PROVE  /\ r \in Frame /\ f \in Nat /\ k \in 1..Len(Parts(r.shape)) /\ Len(Parts(r.shape)) \in Nat
           /\ Header(p).marker <=> k = Len(Parts(r.shape))
           /\ Header(p).ts \in 0..Stamps - 1 /\ Header(p).seq \in 0..Numbers - 1
           /\ Header(p).ts = BuildTimestamp(r.capture)
           /\ p.header.seq \in 0..Numbers - 1 /\ p.header.ts \in 0..Stamps - 1
           /\ p.frame = f /\ p.index = k /\ (p.last <=> k = Len(Parts(r.shape)))
  <1>1. /\ p = Packet(r, f, k, Stamped(r, config.ext, now)) /\ config.ext \in BOOLEAN
        /\ r \in Frame /\ f \in Nat /\ k \in 1..Len(Parts(r.shape))
    BY Switches DEF IsPacket, ServerFits
  <1>2. /\ Len(Parts(r.shape)) \in Nat /\ r.first \in Nat /\ BuildTimestamp(r.capture) \in 0..Stamps - 1
    BY <1>1, FrameParts, Parameters
  <1>3. /\ Header(p).marker <=> k = Len(Parts(r.shape))
        /\ Header(p).seq = (r.first + k - 1) % Numbers
        /\ Header(p).ts = BuildTimestamp(r.capture)
        /\ p.header.seq = Header(p).seq /\ p.header.ts = Header(p).ts
        /\ p.frame = f /\ p.index = k /\ (p.last <=> k = Len(Parts(r.shape)))
    BY <1>1, HeaderIsRead DEF Header
  <1>4. Header(p).seq \in 0..Numbers - 1
    <2>1. r.first + k - 1 \in Int
      BY <1>1, <1>2
    <2> QED  BY <1>3, <2>1, NumberGrows
  <1> QED  BY <1>1, <1>2, <1>3, <1>4

(* A packet from the first of a frame on, or the next of such a run, is     *)
(* gathered.                                                                *)
LEMMA RunGathers ==
    ASSUME PacingInv, ServerFits, ClientFits, NEW p \in sent, Receive(p), run' # NoRun,
           NEW f \in 1..Len(frames), NEW k, NEW now, IsPacket(p, frames[f], f, k, now)
    PROVE  /\ run' = [frame |-> f, count |-> k, whole |-> p.last]
           /\ Gathers(After(p), frames[f], f, 1, k, Timed)
  <1> DEFINE r == frames[f]
             c == Len(Parts(r.shape))
  <1>1. /\ asm \in AsmType /\ config.ext \in BOOLEAN /\ config.expect \in BOOLEAN
        /\ IsPacket(p, r, f, k, now)
    BY Switches DEF ClientFits, ServerFits
  <1>2. r \in Frame /\ k \in 1..c /\ c \in Nat /\ p.frame = f /\ p.index = k
    BY <1>1, PacketIs
  <1>3. \/ /\ p.index = 1 /\ ~Continues(Header(p))
           /\ run' = [frame |-> p.frame, count |-> 1, whole |-> p.last]
        \/ /\ run.frame = p.frame /\ p.index = run.count + 1 /\ p.index # 1
           /\ run' = [frame |-> p.frame, count |-> p.index, whole |-> p.last]
    BY ReceiveIs
  <1>4. ASSUME p.index = 1, ~Continues(Header(p))
        PROVE  Gathers(After(p), r, f, 1, k, Timed)
    <2>1. k = 1
      BY <1>2, <1>4
    <2>2. Parts(r.shape)[1].part.start
      BY <1>2, FrameParts, PartsFit DEF Starts
    <2> HIDE DEF r
    <2> QED  BY <1>1, <1>4, <2>1, <2>2, AfterFirst
  <1>5. ASSUME run.frame = p.frame, p.index = run.count + 1, p.index # 1
        PROVE  Gathers(After(p), r, f, 1, k, Timed)
    <2>1. run # NoRun
      BY <1>2, <1>5 DEF NoRun
    <2>2. IF run.whole THEN run.count = c
          ELSE run.count \in 1..c - 1 /\ Gathers(asm, r, f, 1, run.count, Timed)
      BY <1>2, <1>5, <2>1 DEF ClientFits, RunFits
    <2>3. run.count = k - 1 /\ k # 1 /\ Gathers(asm, r, f, 1, k - 1, Timed)
      <3> HIDE DEF c, r
      <3>1. run.count \in Nat /\ k = run.count + 1 /\ k # 1
        BY <1>2, <1>5, <2>2
      <3>2. run.count # c
        BY <1>2, <3>1
      <3>3. run.count = k - 1
        BY <3>1
      <3> QED  BY <2>2, <3>1, <3>2, <3>3
    <2> HIDE DEF r
    <2> QED  BY <1>1, <2>3, AfterNext
  <1> QED  BY <1>2, <1>3, <1>4, <1>5

(* A packet received keeps what is known of partial and completed frames.   *)
LEMMA ClientReceives ==
    ASSUME PacingInv, ServerFits, ClientFits, Grown, NEW p \in sent, Receive(p)
    PROVE  ClientFits'
  <1> DEFINE h == Header(p)
             b == After(p)
             done == h.marker /\ Ready(b)
  <1>1. PICK f \in 1..Len(frames), k \in Nat, now \in Nat : IsPacket(p, frames[f], f, k, now)
    BY DEF ServerFits, SentFits, PacketFits
  <1> DEFINE r == frames[f]
             c == Len(Parts(r.shape))
  <1>2. /\ asm \in AsmType /\ config.ext \in BOOLEAN /\ config.expect \in BOOLEAN
        /\ Timed \in BOOLEAN
    BY Switches DEF ClientFits, ServerFits, Timed
  <1>3. /\ r \in Frame /\ f \in Nat /\ k \in 1..c /\ c \in Nat
        /\ h.marker <=> k = c
        /\ h.ts \in 0..Stamps - 1
        /\ p.frame = f /\ p.index = k /\ (p.last <=> k = c)
    BY <1>1, PacketIs
  <1>4. b \in AsmType /\ b.ts = h.ts
    BY <1>1, <1>2, AfterIs
  <1>5. b.damaged \/ \E i \in 1..k : Gathers(b, r, f, i, k, Timed)
    BY <1>1, AfterFits
  <1>6. /\ UNCHANGED <<config, frames>>
        /\ asm' = IF h.marker THEN ResetRtpState ELSE b
        /\ buffer' = IF done /\ config.jitter THEN Held(b.ts, CompletedFrame(b)) ELSE buffer
        /\ returned' = IF done /\ ~config.jitter THEN CompletedFrame(b) ELSE NoFrame
    BY ReceiveIs
  <1>7. Timed' = Timed
    BY <1>6 DEF Timed
  <1>8. run' # NoRun => /\ run' = [frame |-> f, count |-> k, whole |-> p.last]
                        /\ Gathers(b, r, f, 1, k, Timed)
    BY <1>1, RunGathers
  <1> HIDE DEF h, b
  <1>9. asm' \in AsmType
    <2>1. ResetRtpState \in AsmType
      BY Parameters DEF ResetRtpState, AsmType
    <2> QED  BY <1>4, <1>6, <2>1
  <1>10. ~h.marker => k \in 1..c - 1 /\ asm' = b
    <2> HIDE DEF c
    <2> QED  BY <1>3, <1>6
  <1>11. AsmFits'
    <2>1. CASE h.marker
      BY <1>6, <2>1 DEF ResetRtpState, AsmFits
    <2>2. CASE ~h.marker
      <3> SUFFICES ASSUME ~b.damaged PROVE AsmFits'
        BY <1>10, <2>2 DEF AsmFits
      <3>1. PICK i \in 1..k : Gathers(b, r, f, i, k, Timed)
        BY <1>5
      <3>2. i \in Nat /\ k \in 1..c - 1 /\ Gathers(asm', r, f, i, k, Timed)
        BY <1>10, <2>2, <3>1
      <3>3. frames' = frames /\ f \in 1..Len(frames)
        BY <1>6
      <3> HIDE DEF Timed
      <3> QED  BY <1>7, <3>2, <3>3 DEF AsmFits
    <2> QED  BY <2>1, <2>2
  <1>12. RunFits'
    <2> SUFFICES ASSUME run' # NoRun PROVE RunFits'
      BY DEF RunFits
    <2> DEFINE last == p.last
    <2>1. /\ run' = [frame |-> f, count |-> k, whole |-> last]
          /\ Gathers(b, r, f, 1, k, Timed)
      BY <1>8
    <2> HIDE DEF last
    <2>2. run'.frame = f /\ run'.count = k /\ run'.whole = last
      BY <2>1
    <2>3. CASE last
      <3>1. k = c
        BY <1>3, <2>3 DEF last
      <3> QED  BY <1>6, <2>2, <2>3, <3>1 DEF RunFits
    <2>4. CASE ~last
      <3>1. k \in 1..c - 1 /\ asm' = b
        BY <1>3, <1>10, <2>4 DEF last
      <3> QED  BY <1>6, <1>7, <2>1, <2>2, <2>4, <3>1 DEF RunFits
    <2> QED  BY <2>3, <2>4
  <1>13. done => FrameFits(CompletedFrame(b), frames, Timed)
    <2> SUFFICES ASSUME done PROVE FrameFits(CompletedFrame(b), frames, Timed)
      OBVIOUS
    <2>1. k = c /\ ~b.damaged
      BY <1>3 DEF Ready
    <2>2. PICK i \in 1..c : Gathers(b, r, f, i, c, Timed)
      BY <1>5, <2>1
    <2>3. WholeFrame(CompletedFrame(b), r, f, Timed)
      BY <1>2, <1>3, <1>4, <2>2, CompletedIsWhole
    <2> QED  BY <2>3 DEF FrameFits
  <1>14. HeldFits'
    <2>1. HeldFits
      BY DEF ClientFits
    <2>2. FrameFits(returned', frames, Timed)
      BY <1>6, <1>13 DEF FrameFits
    <2>3. CASE done /\ config.jitter
      <3>1. b.ts \in 0..Stamps - 1 /\ buffer' = Held(b.ts, CompletedFrame(b))
        BY <1>3, <1>4, <1>6, <2>3
      <3>2. FrameFits(CompletedFrame(b), frames, Timed)
        BY <1>13, <2>3
      <3>3. /\ buffer' = [held |-> buffer'.held, next |-> buffer'.next]
            /\ DOMAIN buffer'.held \subseteq 0..Stamps - 1
            /\ \A t \in DOMAIN buffer'.held : FrameFits(buffer'.held[t], frames, Timed)
        BY <2>1, <3>1, <3>2, HeldKeeps
      <3> QED  BY <1>6, <1>7, <2>2, <3>3 DEF HeldFits
    <2>4. CASE ~(done /\ config.jitter)
      <3>1. buffer' = buffer
        BY <1>6, <2>4
      <3> QED  BY <1>6, <1>7, <2>1, <2>2, <3>1 DEF HeldFits
    <2> QED  BY <2>3, <2>4
  <1> QED  BY <1>9, <1>11, <1>12, <1>14 DEF ClientFits

StreamInv == PacingInv /\ ServerFits /\ ClientFits

(* Every step of server, network and client keeps the invariant.            *)
LEMMA StreamKept == StreamInv /\ [Next]_vars => StreamInv'
  <1> SUFFICES ASSUME StreamInv, [Next]_vars PROVE StreamInv'
    OBVIOUS
  <1>1. PacingInv' /\ Grown /\ ServerFits'
    BY PacingInvKept, HistoryGrows, ServerKept DEF StreamInv
  <1>2. PacingInv /\ ServerFits /\ ClientFits
    BY DEF StreamInv
  <1>3. CASE UNCHANGED clientVars
    BY <1>1, <1>2, <1>3, ClientUntouched DEF StreamInv
  <1>4. CASE UNCHANGED vars
    BY <1>3, <1>4 DEF vars, clientVars
  <1>5. ASSUME NEW how \in StartOutcomes, NEW first \in FirstNumbers, Start(how, first)
        PROVE  StreamInv'
    BY <1>3, <1>5 DEF Start
  <1>6. ASSUME NEW shape \in Shapes, Broadcast(shape)
        PROVE  StreamInv'
    BY <1>3, <1>6 DEF Broadcast
  <1>7. CASE Stop \/ SendPacket \/ SendFails
    BY <1>3, <1>7 DEF Stop, SendPacket, SendFails
  <1>8. ASSUME NEW p \in sent, Receive(p)
        PROVE  StreamInv'
    BY <1>1, <1>2, <1>8, ClientReceives DEF StreamInv
  <1>9. CASE PopFrame
    <2>1. UNCHANGED frames
      BY <1>9 DEF PopFrame, serverVars
    <2> QED  BY <1>1, <1>2, <1>9, <2>1, ClientPops DEF StreamInv
  <1>10. CASE PopNotYet
    <2>1. UNCHANGED frames
      BY <1>10 DEF PopNotYet, serverVars
    <2> QED  BY <1>1, <1>2, <1>10, <2>1, ClientWaits DEF StreamInv
  <1>11. CASE Reconnect
    BY <1>1, <1>11, ClientReconnects DEF StreamInv
  <1> QED  BY <1>4, <1>5, <1>6, <1>7, <1>8, <1>9, <1>10, <1>11 DEF Next

(* What WholeFrame says of the bytes.                                       *)
LEMMA WholeHasBytes ==
    ASSUME PacingInv, NEW g, NEW f \in 1..Len(frames), WholeFrame(g, frames[f], f, Timed)
    PROVE  /\ g.payload # << >> /\ FrameOf(g) = f
           /\ \E j \in 1..Len(SplitAnnexBNalus(frames[f].shape)) :
                  PayloadBytes(g.payload) = FrameBytes(f, j)
  <1> DEFINE r == frames[f]
             c == Len(Parts(r.shape))
  <1>1. r \in Frame /\ f \in Nat
    <2>1. frames \in Seq(Frame)
      BY DEF PacingInv, FramesFit
    <2> QED  BY <2>1
  <1>2. r.shape \in Seq(Nat) /\ c \in Nat
    BY <1>1, FrameParts
  <1>3. PICK i \in 1..c : Parts(r.shape)[i].part.start /\ g.payload = Pieces(f, r.shape, i, c)
    BY DEF WholeFrame
  <1>4. /\ Parts(r.shape)[i].nalu \in 1..Len(SplitAnnexBNalus(r.shape))
        /\ PayloadBytes(Pieces(f, r.shape, i, c)) = FrameBytes(f, Parts(r.shape)[i].nalu)
    BY <1>1, <1>2, <1>3, PiecesAreBytes
  <1>5. c \in i..c
    BY <1>2
  <1>6. Pieces(f, r.shape, i, c) \in Seq(PieceType) /\ Len(Pieces(f, r.shape, i, c)) = c - i + 1
    BY <1>1, <1>2, <1>5, PiecesGrow
  <1>7. Pieces(f, r.shape, i, c)[1].frame = f
    <2>1. 1 \in 1..c - i + 1
      BY <1>2
    <2> QED  BY <2>1 DEF Pieces, Piece
  <1>8. g.payload # << >>
    BY <1>2, <1>3, <1>6
  <1> QED  BY <1>3, <1>4, <1>7, <1>8 DEF FrameOf

(* Whatever the network loses, repeats or delays, and whenever the server   *)
(* gives up a frame or restarts, a frame that ReceiveRtpFrame returns or    *)
(* buffers is one frame of the server from the beginning of one of its NAL  *)
(* units to its end, with its own times: for any packet size, frames,       *)
(* numbers and timestamps.                                                  *)
THEOREM FramesAreNotMixed == Spec => []ReturnedIsOneFrame
  <1>1. Init => StreamInv
    BY InitFits, ServerInit, ClientInit DEF StreamInv
  <1>2. StreamInv => ReturnedIsOneFrame
    <2> SUFFICES ASSUME StreamInv, NEW g \in Received, g.payload # << >>
                 PROVE  /\ \E j \in 1..Len(SplitAnnexBNalus(frames[FrameOf(g)].shape)) :
                               PayloadBytes(g.payload) = FrameBytes(FrameOf(g), j)
                        /\ IF config.expect /\ config.ext
                           THEN g.capture = frames[FrameOf(g)].capture /\ g.lastSent > g.capture
                           ELSE g.capture = 0
      BY DEF ReturnedIsOneFrame
    <2>1. FrameFits(g, frames, Timed)
      BY DEF StreamInv, ClientFits, HeldFits, Received
    <2>2. g # NoFrame
      BY DEF NoFrame
    <2>3. PICK f \in 1..Len(frames) : WholeFrame(g, frames[f], f, Timed)
      BY <2>1, <2>2 DEF FrameFits
    <2>4. /\ FrameOf(g) = f
          /\ \E j \in 1..Len(SplitAnnexBNalus(frames[f].shape)) :
                 PayloadBytes(g.payload) = FrameBytes(f, j)
      BY <2>3, WholeHasBytes DEF StreamInv
    <2>5. IF config.expect /\ config.ext
          THEN g.capture = frames[f].capture /\ g.lastSent > g.capture ELSE g.capture = 0
      BY <2>3 DEF WholeFrame, Timed
    <2> QED  BY <2>4, <2>5
  <1> QED  BY <1>1, <1>2, StreamKept, PTL DEF Spec

(* A frame gathered from its first part on is ready and holds all its bytes.*)
LEMMA WholeRun ==
    ASSUME PacingInv, NEW a \in AsmType, NEW f \in 1..Len(frames),
           LET c == Len(Parts(frames[f].shape))
           IN  c \in Nat \ {0} /\ Gathers(a, frames[f], f, 1, c, Timed)
    PROVE  Ready(a) /\ PayloadBytes(CompletedFrame(a).payload) = FrameBytes(f, 1)
  <1> DEFINE r == frames[f]
             c == Len(Parts(r.shape))
  <1>1. r \in Frame /\ f \in Nat /\ c \in Nat \ {0}
    <2>1. frames \in Seq(Frame)
      BY DEF PacingInv, FramesFit
    <2> QED  BY <2>1
  <1>2. r.shape \in Seq(Nat)
    BY <1>1, FrameParts
  <1>3. /\ ~a.damaged /\ a.payload = Pieces(f, r.shape, 1, c)
        /\ a.fu <=> ~Parts(r.shape)[c].part.end
    BY DEF Gathers
  <1>4. /\ Parts(r.shape)[1].part.start /\ Parts(r.shape)[1].nalu = 1
        /\ Parts(r.shape)[c].part.end
    BY <1>1, <1>2, PartsFit DEF Starts, Ends
  <1>5. PayloadBytes(Pieces(f, r.shape, 1, c)) = FrameBytes(f, 1)
    <2>1. 1 \in 1..c
      BY <1>1
    <2> QED  BY <1>1, <1>2, <1>4, <2>1, PiecesAreBytes
  <1>6. Pieces(f, r.shape, 1, c) # << >>
    <2>1. 1 \in 1..c /\ c \in 1..c
      BY <1>1
    <2>2. Pieces(f, r.shape, 1, c) \in Seq(PieceType) /\ Len(Pieces(f, r.shape, 1, c)) = c - 1 + 1
      BY <1>1, <1>2, <2>1, PiecesGrow
    <2> QED  BY <1>1, <2>2
  <1>7. Ready(a)
    BY <1>3, <1>4, <1>6 DEF Ready
  <1> QED  BY <1>3, <1>5, <1>7 DEF CompletedFrame

(* A frame whose packets arrive in a row, from the first on, is returned or *)
(* buffered whole, whatever ReceiveRtpFrame was assembling before, unless   *)
(* an earlier part of it holds its place in the jitter buffer.              *)
THEOREM CleanFramesArrive == Spec => CleanFrameArrives
  <1> DEFINE Arrives == run' # run /\ run'.whole =>
                 LET f    == run'.frame
                     kept == {returned'} \cup {buffer'.held[k] : k \in DOMAIN buffer'.held}
                 IN  \/ \E g \in kept : PayloadBytes(g.payload) = FrameBytes(f, 1)
                     \/ BuildTimestamp(frames[f].capture) \in DOMAIN buffer.held
  <1>1. Init => StreamInv
    BY InitFits, ServerInit, ClientInit DEF StreamInv
  <1>2. StreamInv /\ [Next]_vars => [Arrives]_vars
    <2> SUFFICES ASSUME StreamInv, Next, run' # run, run'.whole PROVE Arrives
      OBVIOUS
    <2>1. run' # NoRun
      BY DEF NoRun
    <2>2. PICK p \in sent : Receive(p)
      BY <2>1 DEF Next, Start, Stop, Broadcast, SendPacket, SendFails, PopFrame, PopNotYet,
                  Reconnect, clientVars
    <2>3. PacingInv /\ ServerFits /\ ClientFits
      BY DEF StreamInv
    <2>4. PICK f \in 1..Len(frames), k \in Nat, now \in Nat : IsPacket(p, frames[f], f, k, now)
      BY <2>3 DEF ServerFits, SentFits, PacketFits
    <2> DEFINE b == After(p)
               r == frames[f]
               c == Len(Parts(r.shape))
               last == p.last
    <2>5. /\ r \in Frame /\ k \in 1..c /\ c \in Nat
          /\ (Header(p).marker <=> k = c) /\ (last <=> k = c)
          /\ Header(p).ts = BuildTimestamp(r.capture) /\ Header(p).ts \in 0..Stamps - 1
      BY <2>3, <2>4, PacketIs
    <2>6. run' = [frame |-> f, count |-> k, whole |-> last] /\ Gathers(b, r, f, 1, k, Timed)
      BY <2>1, <2>2, <2>3, <2>4, RunGathers
    <2>7. run'.frame = f /\ k = c
      <3> HIDE DEF last
      <3>1. run'.frame = f /\ run'.whole = last
        BY <2>6
      <3> QED  BY <2>5, <3>1
    <2>8. b \in AsmType /\ b.ts = BuildTimestamp(r.capture)
      <3>1. asm \in AsmType /\ config.ext \in BOOLEAN /\ config.expect \in BOOLEAN
        BY <2>3, Switches DEF ClientFits, ServerFits
      <3> QED  BY <2>4, <2>5, <3>1, AfterIs
    <2>9. Ready(b) /\ PayloadBytes(CompletedFrame(b).payload) = FrameBytes(f, 1)
      <3>1. c \in Nat \ {0} /\ Gathers(b, r, f, 1, c, Timed)
        BY <2>5, <2>6, <2>7
      <3> HIDE DEF b
      <3> QED  BY <2>3, <2>8, <3>1, WholeRun
    <2>10. /\ config.jitter => buffer' = Held(b.ts, CompletedFrame(b))
           /\ ~config.jitter => returned' = CompletedFrame(b)
      BY <2>2, <2>5, <2>7, <2>9, ReceiveIs
    <2> DEFINE kept == {returned'} \cup {buffer'.held[x] : x \in DOMAIN buffer'.held}
    <2>11. CompletedFrame(b) \in kept \/ BuildTimestamp(r.capture) \in DOMAIN buffer.held
      <3>1. CASE config.jitter
        <4>1. b.ts \in 0..Stamps - 1 /\ HeldFits
          BY <2>3, <2>5, <2>8 DEF ClientFits
        <4>2. FrameFits(CompletedFrame(b), frames, Timed)
          <5>1. Timed \in BOOLEAN /\ 1 \in 1..c /\ Gathers(b, r, f, 1, c, Timed)
            BY <2>3, <2>5, <2>6, <2>7, Switches DEF ServerFits, Timed
          <5>2. WholeFrame(CompletedFrame(b), r, f, Timed)
            BY <2>5, <2>8, <5>1, CompletedIsWhole
          <5> QED  BY <5>2 DEF FrameFits
        <4>3. b.ts \in DOMAIN buffer.held
              \/ (b.ts \in DOMAIN buffer'.held /\ buffer'.held[b.ts] = CompletedFrame(b))
          BY <2>10, <3>1, <4>1, <4>2, HeldKeeps
        <4> HIDE DEF b
        <4> QED  BY <2>8, <4>3
      <3>2. CASE ~config.jitter
        BY <2>10, <3>2
      <3> QED  BY <3>1, <3>2
    <2> HIDE DEF b, kept
    <2>12. (\E g \in kept : PayloadBytes(g.payload) = FrameBytes(f, 1))
           \/ BuildTimestamp(r.capture) \in DOMAIN buffer.held
      BY <2>9, <2>11
    <2> QED  BY <2>7, <2>12 DEF kept
  <1> QED  BY <1>1, <1>2, StreamKept, PTL DEF Spec, CleanFrameArrives

-----------------------------------------------------------------------------
(* Types. *)

(* Every frame given to Broadcast is being sent, was sent or was counted    *)
(* among the failed ones.                                                   *)
CountsFit ==
    /\ server \in [state : {"initialized", "running", "stopped", "failed"},
                   fd : BOOLEAN, packetizer : BOOLEAN, remote : BOOLEAN]
    /\ starts \in 0..MaxStarts
    /\ stats \in [sent : Nat, failed : Nat]
    /\ Len(frames) = stats.sent + stats.failed + (IF burst = NoBurst THEN 0 ELSE 1)

(* At first nothing was broadcast.                                          *)
LEMMA CountsInit == Init => CountsFit
  <1> SUFFICES ASSUME Init PROVE CountsFit
    OBVIOUS
  <1>1. MaxStarts \in Nat
    BY BoundAssumption
  <1> QED  BY <1>1 DEF Init, CountsFit

(* The client does not count.                                               *)
LEMMA CountsUntouched ==
    ASSUME CountsFit, UNCHANGED serverVars
    PROVE  CountsFit'
  BY DEF CountsFit, serverVars

(* A start, complete or failed, counts no frame.                            *)
LEMMA CountsStart ==
    ASSUME CountsFit, NEW how \in StartOutcomes, NEW first \in FirstNumbers, Start(how, first)
    PROVE  CountsFit'
  <1>1. UNCHANGED <<frames, burst, stats>> /\ starts < MaxStarts /\ starts' = starts + 1
    BY DEF Start
  <1>2. starts' \in 0..MaxStarts
    BY <1>1, BoundAssumption DEF CountsFit
  <1> DEFINE written == WriteSdpFile(how)
             reached == ConfigureRemoteAddress(how)
  <1>3. written \in BOOLEAN /\ reached \in BOOLEAN
    BY DEF WriteSdpFile, OpenSocket, ConfigureRemoteAddress
  <1>4. \/ server' = [state |-> IF written THEN "running" ELSE "failed",
                      fd |-> written, packetizer |-> written, remote |-> reached]
        \/ server' = [server EXCEPT !.state = "running"]
    BY Zenon DEF Start
  <1> HIDE DEF written, reached
  <1>5. server' \in [state : {"initialized", "running", "stopped", "failed"},
                     fd : BOOLEAN, packetizer : BOOLEAN, remote : BOOLEAN]
    BY <1>3, <1>4 DEF CountsFit
  <1> QED  BY <1>1, <1>2, <1>5 DEF CountsFit

(* Nor does stop.                                                           *)
LEMMA CountsStop ==
    ASSUME CountsFit, Stop
    PROVE  CountsFit'
  <1>1. UNCHANGED <<starts, frames, burst, stats>>
        /\ server' = [state |-> "stopped", fd |-> FALSE, packetizer |-> FALSE, remote |-> FALSE]
    BY DEF Stop
  <1> QED  BY <1>1 DEF CountsFit

(* A frame without packets has failed; any other is being sent.             *)
LEMMA CountsBroadcast ==
    ASSUME PacingInv, CountsFit, NEW shape \in Shapes, Broadcast(shape)
    PROVE  CountsFit'
  <1> DEFINE capture == (IF frames = << >> THEN 0 ELSE Last(frames).capture) + Gap
             packets == Packetize(shape, capture, seqNo)
             count == Len(packets)
             r == [shape |-> shape, capture |-> capture, start |-> starts, first |-> seqNo]
  <1>1. /\ frames' = Append(frames, r) /\ burst = NoBurst /\ UNCHANGED <<server, starts>>
        /\ count = 0 => /\ burst' = burst
                        /\ stats' = [stats EXCEPT !.failed = FailedFrames(@)]
        /\ count # 0 => /\ stats' = stats
                        /\ burst' = [packets |-> packets, total |-> count,
                                     interval |-> ComputePacingInterval(count, capture)]
    BY Zenon DEF Broadcast
  <1>2. Len(frames') = Len(frames) + 1 /\ Len(frames) \in Nat
    <2> DEFINE S == Frame \cup {r}
    <2>1. frames \in Seq(S) /\ r \in S
      BY DEF PacingInv, FramesFit
    <2> HIDE DEF S, r
    <2> QED  BY <1>1, <2>1
  <1> HIDE DEF count, packets, capture
  <1>3. CASE count = 0
    <2>1. stats' = [stats EXCEPT !.failed = stats.failed + 1] /\ burst' = NoBurst
      BY <1>1, <1>3 DEF FailedFrames
    <2>2. stats' \in [sent : Nat, failed : Nat] /\ stats'.sent = stats.sent
          /\ stats'.failed = stats.failed + 1
      BY <2>1 DEF CountsFit
    <2> QED  BY <1>1, <1>2, <2>1, <2>2 DEF CountsFit
  <1>4. CASE count # 0
    <2>1. burst' # NoBurst /\ stats' = stats
      BY <1>1, <1>4 DEF NoBurst
    <2> QED  BY <1>1, <1>2, <2>1 DEF CountsFit
  <1> QED  BY <1>3, <1>4

(* The last packet makes it a sent frame, a failure a failed one.           *)
LEMMA CountsSend ==
    ASSUME PacingInv, ServerFits, CountsFit, SendPacket \/ SendFails
    PROVE  CountsFit'
  <1>1. UNCHANGED <<server, starts, frames>> /\ burst # NoBurst
    BY DEF SendPacket, SendFails
  <1>2. stats \in [sent : Nat, failed : Nat] /\ burst.total # 0
    BY <1>1 DEF CountsFit, ServerFits, BurstFits
  <1>3. \/ burst' = NoBurst /\ stats' = [stats EXCEPT !.sent = stats.sent + 1]
        \/ burst' = NoBurst /\ stats' = [stats EXCEPT !.failed = stats.failed + 1]
        \/ burst' = [burst EXCEPT !.packets = Tail(burst.packets)] /\ stats' = stats
    BY DEF SendPacket, SendFails, FailedFrames
  <1>4. CASE burst' = NoBurst /\ stats' = [stats EXCEPT !.sent = stats.sent + 1]
    <2>1. stats' \in [sent : Nat, failed : Nat] /\ stats'.sent = stats.sent + 1
          /\ stats'.failed = stats.failed
      BY <1>2, <1>4
    <2> QED  BY <1>1, <1>2, <1>4, <2>1 DEF CountsFit
  <1>5. CASE burst' = NoBurst /\ stats' = [stats EXCEPT !.failed = stats.failed + 1]
    <2>1. stats' \in [sent : Nat, failed : Nat] /\ stats'.sent = stats.sent
          /\ stats'.failed = stats.failed + 1
      BY <1>2, <1>5
    <2> QED  BY <1>1, <1>2, <1>5, <2>1 DEF CountsFit
  <1>6. CASE burst' = [burst EXCEPT !.packets = Tail(burst.packets)] /\ stats' = stats
    <2>1. burst' # NoBurst
      <3>1. burst = [packets |-> burst.packets, total |-> burst.total, interval |-> burst.interval]
        BY DEF PacingInv, BurstShape
      <3>2. burst'.total = burst.total
        BY <1>6, <3>1
      <3>3. NoBurst.total = 0
        BY DEF NoBurst
      <3> QED  BY <1>2, <3>2, <3>3
    <2> QED  BY <1>1, <1>6, <2>1 DEF CountsFit
  <1> QED  BY <1>3, <1>4, <1>5, <1>6

(* Every step keeps the counts.                                             *)
LEMMA CountsKept == StreamInv /\ CountsFit /\ [Next]_vars => CountsFit'
  <1> SUFFICES ASSUME StreamInv, CountsFit, [Next]_vars PROVE CountsFit'
    OBVIOUS
  <1>1. PacingInv /\ ServerFits
    BY DEF StreamInv
  <1>2. CASE UNCHANGED vars
    BY <1>2, CountsUntouched DEF vars, serverVars
  <1>3. ASSUME NEW how \in StartOutcomes, NEW first \in FirstNumbers, Start(how, first)
        PROVE  CountsFit'
    BY <1>3, CountsStart
  <1>4. CASE Stop
    BY <1>4, CountsStop
  <1>5. ASSUME NEW shape \in Shapes, Broadcast(shape)
        PROVE  CountsFit'
    BY <1>1, <1>5, CountsBroadcast
  <1>6. CASE SendPacket \/ SendFails
    BY <1>1, <1>6, CountsSend
  <1>7. ASSUME NEW p \in sent, Receive(p)
        PROVE  CountsFit'
    BY <1>7, CountsUntouched DEF Receive
  <1>8. CASE PopFrame \/ PopNotYet \/ Reconnect
    BY <1>8, CountsUntouched DEF PopFrame, PopNotYet, Reconnect
  <1> QED  BY <1>2, <1>3, <1>4, <1>5, <1>6, <1>7, <1>8 DEF Next

(* Every variable has its type, every packet carries a number and a         *)
(* timestamp of its width, and every frame given to Broadcast is counted    *)
(* exactly once.                                                            *)
THEOREM StreamTypes == Spec => []TypeOK
  <1>1. Init => StreamInv /\ CountsFit
    BY InitFits, ServerInit, ClientInit, CountsInit DEF StreamInv
  <1>2. StreamInv /\ CountsFit => TypeOK
    <2> SUFFICES ASSUME StreamInv, CountsFit PROVE TypeOK
      OBVIOUS
    <2>1. seqNo \in 0..Numbers - 1 /\ Len(frames) <= MaxFrames
      BY DEF StreamInv, PacingInv, FramesFit
    <2>2. \A p \in sent : p.header.seq \in 0..Numbers - 1 /\ p.header.ts \in 0..Stamps - 1
      <3> SUFFICES ASSUME NEW p \in sent
                   PROVE  p.header.seq \in 0..Numbers - 1 /\ p.header.ts \in 0..Stamps - 1
        OBVIOUS
      <3>1. ServerFits /\ PacketFits(p)
        BY DEF StreamInv, ServerFits, SentFits
      <3>2. PICK f \in 1..Len(frames), k \in Nat, now \in Nat : IsPacket(p, frames[f], f, k, now)
        BY <3>1 DEF PacketFits
      <3> QED  BY <3>1, <3>2, PacketIs
    <2>3. /\ asm.next \in 0..Numbers - 1 /\ asm.ts \in 0..Stamps - 1
          /\ asm.active \in BOOLEAN /\ asm.damaged \in BOOLEAN /\ asm.fu \in BOOLEAN
          /\ asm.meta \in {"none", "have", "invalid"}
      BY DEF StreamInv, ClientFits, AsmType
    <2>4. DOMAIN buffer.held \subseteq 0..Stamps - 1
      BY DEF StreamInv, ClientFits, HeldFits
    <2>5. {asm.active, asm.damaged, asm.fu} \subseteq BOOLEAN
      BY <2>3, Zenon
    <2> QED  BY <2>1, <2>2, <2>3, <2>4, <2>5 DEF TypeOK, CountsFit
  <1> QED  BY <1>1, <1>2, StreamKept, CountsKept, PTL DEF Spec
=============================================================================
