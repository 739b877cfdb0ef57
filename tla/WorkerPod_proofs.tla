--------------------------- MODULE WorkerPod_proofs ---------------------------
(***************************************************************************)
(* The two programs that run beside the workers of a worker pod, for any   *)
(* bounds: the log relay, whose lines, offsets and losses RelayOrderly     *)
(* accounts for over any number of restarts, and the supervisor, whose     *)
(* shutdown order and delays SupervisorOrderly keeps.                      *)
(***************************************************************************)
EXTENDS LogRelay, Supervisor, FiniteSetTheorems, WellFoundedInduction, SequenceTheorems, TLAPS

-----------------------------------------------------------------------------
(* The relay: a text and its lines                                          *)

(* How many line ends there are up to a place.                              *)
Rank(text, i) == Cardinality({k \in Ends(text) : k <= i})
EndCount(text) == Cardinality(Ends(text))
From(text, n) == IF n = 1 THEN 1 ELSE NthEnd(text, n - 1) + 1

LEMMA EndsFinite ==
  ASSUME NEW text \in Seq(Int)
  PROVE  /\ Ends(text) \subseteq 1..Len(text) /\ Ends(text) \subseteq Nat
         /\ IsFiniteSet(Ends(text)) /\ EndCount(text) \in Nat
         /\ \A i \in Ends(text) : text[i] % 2 = 0
<1>1. Ends(text) \subseteq 1..Len(text) /\ \A i \in Ends(text) : text[i] % 2 = 0
  BY DEF Ends
<1>2. IsFiniteSet(1..Len(text))
  BY FS_Interval
<1>3. IsFiniteSet(Ends(text))
  BY <1>1, <1>2, FS_Subset
<1>4. QED
  BY <1>1, <1>3, FS_CardinalityType DEF EndCount

LEMMA RankBounds ==
  ASSUME NEW text \in Seq(Int), NEW i \in Ends(text)
  PROVE  Rank(text, i) \in 1..EndCount(text)
<1> DEFINE Upto == {k \in Ends(text) : k <= i}
<1>1. IsFiniteSet(Ends(text)) /\ Upto \subseteq Ends(text) /\ i \in Upto
  BY EndsFinite
<1>2. IsFiniteSet(Upto) /\ Cardinality(Upto) <= Cardinality(Ends(text))
  BY <1>1, FS_Subset
<1>3. Cardinality(Upto) \in Nat /\ Cardinality(Ends(text)) \in Nat
  BY <1>1, <1>2, FS_CardinalityType
<1>4. Cardinality(Upto) # 0
  BY <1>1, <1>2, FS_EmptySet
<1>5. QED
  BY <1>2, <1>3, <1>4 DEF Rank, EndCount

LEMMA RankOrder ==
  ASSUME NEW text \in Seq(Int), NEW i \in Ends(text), NEW k \in Ends(text), i < k
  PROVE  Rank(text, i) < Rank(text, k)
<1> DEFINE Upto(n) == {e \in Ends(text) : e <= n}
<1>1. i \in Nat /\ k \in Nat /\ Ends(text) \subseteq Nat /\ IsFiniteSet(Ends(text))
  BY EndsFinite
<1>2. Upto(i) \subseteq Upto(k) /\ k \in Upto(k) /\ k \notin Upto(i)
  BY <1>1
<1>3. IsFiniteSet(Upto(k))
  <2>1. Upto(k) \in SUBSET Ends(text)
    OBVIOUS
  <2>2. QED
    BY <1>1, <2>1, FS_Subset
<1>4. Cardinality(Upto(i)) <= Cardinality(Upto(k)) /\ Cardinality(Upto(i)) # Cardinality(Upto(k))
  BY <1>2, <1>3, FS_Subset
<1>5. Rank(text, i) = Cardinality(Upto(i)) /\ Rank(text, k) = Cardinality(Upto(k))
  BY DEF Rank
<1>6. Rank(text, i) \in Nat /\ Rank(text, k) \in Nat
  BY RankBounds, EndsFinite
<1>7. QED
  BY <1>4, <1>5, <1>6

(* Every number of a line end has one.                                      *)
LEMMA NthEnds ==
  ASSUME NEW text \in Seq(Int), NEW n \in 1..EndCount(text)
  PROVE  NthEnd(text, n) \in Ends(text) /\ Rank(text, NthEnd(text, n)) = n
<1> DEFINE f == [i \in Ends(text) |-> Rank(text, i)]
           N == 1..EndCount(text)
<1>1. f \in [Ends(text) -> N]
  BY RankBounds
<1>2. ASSUME NEW i \in Ends(text), NEW k \in Ends(text), f[i] = f[k]
      PROVE  i = k
  <2>1. i \in Nat /\ k \in Nat
    BY EndsFinite
  <2>2. ~(i < k) /\ ~(k < i)
    <3>1. Rank(text, i) = Rank(text, k) /\ Rank(text, i) \in Nat
      BY <1>2, RankBounds, EndsFinite
    <3>2. QED
      BY <3>1, RankOrder
  <2>3. QED
    BY <2>1, <2>2
<1>3. f \in Injection(Ends(text), N)
  BY <1>1, <1>2 DEF Injection, IsInjective
<1>4. IsFiniteSet(N) /\ Cardinality(N) = Cardinality(Ends(text))
  <2>1. EndCount(text) \in Nat
    BY EndsFinite
  <2>2. QED
    BY <2>1, FS_Interval DEF EndCount
<1>5. f \in Surjection(Ends(text), N)
  BY <1>3, <1>4, FS_Injection
<1>6. \E i \in Ends(text) : f[i] = n
  BY <1>5 DEF Surjection
<1>7. \E i \in Ends(text) : Rank(text, i) = n
  BY <1>6
<1>8. QED
  BY <1>7 DEF NthEnd, Rank

LEMMA EndsInOrder ==
  ASSUME NEW text \in Seq(Int), NEW n \in 1..EndCount(text), NEW i \in Ends(text)
  PROVE  /\ i < NthEnd(text, n) <=> Rank(text, i) < n
         /\ i = NthEnd(text, n) <=> Rank(text, i) = n
<1>1. NthEnd(text, n) \in Ends(text) /\ Rank(text, NthEnd(text, n)) = n
  BY NthEnds
<1>2. i \in Nat /\ NthEnd(text, n) \in Nat /\ n \in Nat /\ Rank(text, i) \in Nat
  BY <1>1, EndsFinite, RankBounds
<1>3. i < NthEnd(text, n) => Rank(text, i) < n
  BY <1>1, RankOrder
<1>4. NthEnd(text, n) < i => n < Rank(text, i)
  BY <1>1, RankOrder
<1>5. QED
  BY <1>1, <1>2, <1>3, <1>4

LEMMA LastEnds ==
  ASSUME NEW text \in Seq(Int)
  PROVE  /\ LastEnd(text) \in 0..Len(text)
         /\ \A i \in Ends(text) : i <= LastEnd(text)
         /\ LastEnd(text) # 0 => LastEnd(text) \in Ends(text)
<1> DEFINE Best(i) == \A k \in Ends(text) : k <= i
<1>1. \E i \in Ends(text) \union {0} : Best(i)
  <2>1. CASE Ends(text) = {}
    BY <2>1
  <2>2. CASE Ends(text) # {}
    <3>1. EndCount(text) \in Nat /\ EndCount(text) # 0
      BY <2>2, EndsFinite, FS_EmptySet DEF EndCount
    <3>2. EndCount(text) \in 1..EndCount(text)
      BY <3>1
    <3> DEFINE last == NthEnd(text, EndCount(text))
    <3>3. last \in Ends(text) /\ last \in Nat
      BY <3>2, NthEnds, EndsFinite
    <3>4. ASSUME NEW k \in Ends(text)
          PROVE  k <= last
      <4>1. Rank(text, k) \in 1..EndCount(text) /\ k \in Nat
        BY RankBounds, EndsFinite
      <4>2. Rank(text, k) < EndCount(text) \/ Rank(text, k) = EndCount(text)
        BY <3>1, <4>1
      <4>3. k < last \/ k = last
        BY <3>2, <4>2, EndsInOrder
      <4>4. QED
        BY <3>3, <4>1, <4>3
    <3>5. QED
      BY <3>3, <3>4
  <2>3. QED
    BY <2>1, <2>2
<1>2. LastEnd(text) \in Ends(text) \union {0} /\ Best(LastEnd(text))
  BY <1>1 DEF LastEnd
<1>3. QED
  BY <1>2, EndsFinite

(* Where a line lies: it has one line end, at its end.                      *)
LEMMA LinePlace ==
  ASSUME NEW text \in Seq(Int), NEW n \in 1..EndCount(text)
  PROVE  /\ From(text, n) \in 1..NthEnd(text, n) /\ NthEnd(text, n) \in 1..LastEnd(text)
         /\ \A j \in From(text, n)..NthEnd(text, n) : text[j] % 2 = 0 <=> j = NthEnd(text, n)
<1>1. /\ NthEnd(text, n) \in Ends(text) /\ NthEnd(text, n) \in 1..Len(text)
      /\ LastEnd(text) \in 0..Len(text) /\ NthEnd(text, n) <= LastEnd(text) /\ EndCount(text) \in Nat
  BY NthEnds, EndsFinite, LastEnds
<1>2. CASE n = 1
  <2>1. From(text, n) = 1
    BY <1>2 DEF From
  <2>2. \A i \in Ends(text) : ~(i < NthEnd(text, n))
    <3>1. ASSUME NEW i \in Ends(text), i < NthEnd(text, n)
          PROVE  FALSE
      <4>1. Rank(text, i) < n
        BY <3>1, EndsInOrder
      <4>2. Rank(text, i) \in 1..EndCount(text)
        BY RankBounds
      <4>3. QED
        BY <1>1, <1>2, <4>1, <4>2
    <3>2. QED
      BY <3>1
  <2>3. ASSUME NEW j \in 1..NthEnd(text, n)
        PROVE  text[j] % 2 = 0 <=> j = NthEnd(text, n)
    <3>1. j \in DOMAIN text
      BY <1>1
    <3>2. text[j] % 2 = 0 => j \in Ends(text)
      BY <3>1 DEF Ends
    <3>3. QED
      BY <1>1, <2>2, <3>2, EndsFinite
  <2>4. QED
    BY <1>1, <2>1, <2>3
<1>3. CASE n # 1
  <2> DEFINE m == n - 1
  <2>1. m \in 1..EndCount(text) /\ m < n
    BY <1>1, <1>3
  <2>2. NthEnd(text, m) \in Ends(text) /\ Rank(text, NthEnd(text, m)) = m /\ NthEnd(text, m) \in 1..Len(text)
    BY <2>1, NthEnds, EndsFinite
  <2>3. NthEnd(text, m) < NthEnd(text, n)
    BY <2>1, <2>2, EndsInOrder
  <2>4. From(text, n) = NthEnd(text, m) + 1
    BY <1>3 DEF From
  <2>5. \A i \in Ends(text) : ~(NthEnd(text, m) < i /\ i < NthEnd(text, n))
    <3>1. ASSUME NEW i \in Ends(text), NthEnd(text, m) < i, i < NthEnd(text, n)
          PROVE  FALSE
      <4>1. Rank(text, i) < n
        BY <3>1, EndsInOrder
      <4>2. ~(Rank(text, i) < m) /\ Rank(text, i) # m
        BY <1>1, <2>1, <2>2, <3>1, EndsInOrder, EndsFinite
      <4>3. Rank(text, i) \in 1..EndCount(text)
        BY RankBounds
      <4>4. QED
        BY <1>1, <4>1, <4>2, <4>3
    <3>2. QED
      BY <3>1
  <2>6. ASSUME NEW j \in From(text, n)..NthEnd(text, n)
        PROVE  text[j] % 2 = 0 <=> j = NthEnd(text, n)
    <3>1. j \in DOMAIN text /\ NthEnd(text, m) < j
      BY <1>1, <2>2, <2>4
    <3>2. text[j] % 2 = 0 => j \in Ends(text)
      BY <3>1 DEF Ends
    <3>3. QED
      BY <1>1, <2>5, <3>1, <3>2, EndsFinite
  <2>7. From(text, n) \in 1..NthEnd(text, n)
    BY <1>1, <2>2, <2>3, <2>4
  <2>8. QED
    BY <1>1, <2>6, <2>7
<1>4. QED
  BY <1>2, <1>3

LEMMA LinesApart ==
  ASSUME NEW text \in Seq(Int), NEW n \in 1..EndCount(text), NEW m \in 1..EndCount(text), n < m
  PROVE  NthEnd(text, n) < From(text, m)
<1>1. EndCount(text) \in Nat
  BY EndsFinite
<1> DEFINE k == m - 1
<1>2. k \in 1..EndCount(text) /\ n <= k /\ m # 1
  BY <1>1
<1>3. /\ NthEnd(text, n) \in Ends(text) /\ Rank(text, NthEnd(text, n)) = n
      /\ NthEnd(text, k) \in Nat /\ NthEnd(text, n) \in Nat
  BY <1>2, NthEnds, EndsFinite
<1>4. NthEnd(text, n) < NthEnd(text, k) \/ NthEnd(text, n) = NthEnd(text, k)
  BY <1>1, <1>2, <1>3, EndsInOrder
<1>5. From(text, m) = NthEnd(text, k) + 1
  BY <1>2 DEF From
<1>6. QED
  BY <1>3, <1>4, <1>5

(* Of some natural numbers one is the least.                                *)
LEMMA LeastOf ==
  ASSUME NEW T, T \subseteq Nat, T # {}
  PROVE  \E k \in T : \A i \in T : k <= i
<1> DEFINE R == OpToRel(<, Nat)
<1>1. IsWellFoundedOn(R, Nat)
  BY NatLessThanWellFounded
<1>2. \A i, k \in Nat : <<i, k>> \in R <=> i < k
  BY DEF OpToRel
<1> HIDE DEF R
<1>3. PICK k \in T : \A i \in T : ~ (<<i, k>> \in R)
  BY <1>1, WFMin
<1>4. \A i \in T : i \in Nat /\ k \in Nat /\ ~(i < k)
  BY <1>2, <1>3
<1>5. \A i \in T : k <= i
  BY <1>4
<1>6. QED
  BY <1>5

(* No byte up to the last line end is left out.                             *)
LEMMA LinesCover ==
  ASSUME NEW text \in Seq(Int), NEW j \in 1..LastEnd(text)
  PROVE  \E n \in 1..EndCount(text) : j \in From(text, n)..NthEnd(text, n)
<1> DEFINE T == {k \in Ends(text) : j <= k}
<1>1. LastEnd(text) \in T /\ T \subseteq Nat /\ Ends(text) \subseteq Nat
  BY LastEnds, EndsFinite
<1>2. PICK e \in T : \A i \in T : e <= i
  BY <1>1, LeastOf
<1>3. e \in Ends(text) /\ j <= e /\ e \in Nat /\ EndCount(text) \in Nat
  BY <1>1, <1>2, EndsFinite
<1> DEFINE n == Rank(text, e)
<1>4. n \in 1..EndCount(text) /\ e = NthEnd(text, n)
  BY <1>3, RankBounds, EndsInOrder
<1> HIDE DEF n
<1>5. From(text, n) <= j
  <2>1. CASE n = 1
    BY <2>1 DEF From
  <2>2. CASE n # 1
    <3> DEFINE m == n - 1
    <3>1. m \in 1..EndCount(text) /\ m < n
      BY <1>3, <1>4, <2>2
    <3>2. NthEnd(text, m) \in Ends(text) /\ Rank(text, NthEnd(text, m)) = m /\ NthEnd(text, m) \in Nat
      BY <3>1, NthEnds, EndsFinite
    <3>3. NthEnd(text, m) < e
      BY <1>4, <3>1, <3>2, EndsInOrder
    <3>4. NthEnd(text, m) \notin T
      BY <1>2, <1>3, <3>2, <3>3
    <3>5. NthEnd(text, m) < j
      BY <3>2, <3>4
    <3>6. From(text, n) = NthEnd(text, m) + 1
      BY <2>2 DEF From
    <3>7. QED
      BY <3>2, <3>5, <3>6
  <2>3. QED
    BY <2>1, <2>2
<1>6. From(text, n) \in 1..e
  BY <1>4, LinePlace
<1>7. j \in From(text, n)..NthEnd(text, n)
  BY <1>3, <1>4, <1>5, <1>6
<1>8. QED
  BY <1>4, <1>7

(* The bytes of some lines, and lines in which they ascend.                 *)
BytesOf(ls) == UNION {ToSet(ls[i]) : i \in DOMAIN ls}
Ordered(ls) ==
  \A i, k \in DOMAIN ls : \A a \in DOMAIN ls[i], b \in DOMAIN ls[k] :
    i < k \/ (i = k /\ a < b) => ls[i][a] < ls[k][b]
Rising(text) == \A a, b \in DOMAIN text : a < b => text[a] < text[b]
Tail1(text) == SubSeq(text, LastEnd(text) + 1, Len(text))

(* A text over some integers is one over the integers.                      *)
LEMMA IntText ==
  ASSUME NEW S, S \subseteq Int, NEW text \in Seq(S)
  PROVE  /\ text \in Seq(Int) /\ Len(text) \in Nat /\ DOMAIN text = 1..Len(text)
         /\ \A i \in DOMAIN text : text[i] \in S /\ text[i] \in Int
<1>1. Len(text) \in Nat /\ DOMAIN text = 1..Len(text)
  OBVIOUS
<1>2. \A i \in 1..Len(text) : text[i] \in S
  OBVIOUS
<1>3. text \in [1..Len(text) -> Int]
  <2>1. text = [i \in 1..Len(text) |-> text[i]]
    OBVIOUS
  <2>2. \A i \in 1..Len(text) : text[i] \in Int
    BY <1>2
  <2>3. QED
    BY <2>1, <2>2
<1>4. text \in Seq(Int)
  BY <1>1, <1>3
<1>5. QED
  BY <1>1, <1>2, <1>4

LEMMA LineBytes ==
  ASSUME NEW S, S \subseteq Int, NEW text \in Seq(S), NEW n \in 1..EndCount(text)
  PROVE  LET line == CompleteLines(text)[n] IN
         /\ line \in Seq(S) /\ Len(line) = NthEnd(text, n) - From(text, n) + 1
         /\ \A a \in DOMAIN line : line[a] = text[From(text, n) + a - 1]
<1> DEFINE e == NthEnd(text, n)
           f == From(text, n)
<1>1. text \in Seq(Int) /\ Len(text) \in Nat
  BY IntText
<1>2. f \in 1..e /\ e \in 1..LastEnd(text) /\ LastEnd(text) \in 0..Len(text)
  BY <1>1, LinePlace, LastEnds
<1>3. CompleteLines(text)[n] = SubSeq(text, f, e)
  BY DEF CompleteLines, From, EndCount
<1> HIDE DEF e, f
<1>4. f \in Nat /\ e \in Nat /\ 1 <= f /\ f <= e /\ e <= Len(text)
  BY <1>1, <1>2
<1>5. SubSeq(text, f, e) \in Seq(S)
  BY <1>4, SubSeqProperties
<1>6. Len(SubSeq(text, f, e)) = e - f + 1
  BY <1>4
<1>7. \A a \in 1..(e - f + 1) : SubSeq(text, f, e)[a] = text[f + a - 1]
  BY <1>4
<1>8. DOMAIN SubSeq(text, f, e) = 1..(e - f + 1)
  BY <1>5, <1>6
<1>9. QED
  BY <1>3, <1>5, <1>6, <1>7, <1>8 DEF e, f

LEMMA LinesType ==
  ASSUME NEW S, S \subseteq Int, NEW text \in Seq(S)
  PROVE  /\ CompleteLines(text) \in Seq(Seq(S))
         /\ DOMAIN CompleteLines(text) = 1..EndCount(text)
<1>1. text \in Seq(Int)
  BY IntText
<1>2. EndCount(text) \in Nat
  BY <1>1, EndsFinite
<1>3. DOMAIN CompleteLines(text) = 1..EndCount(text)
  BY DEF CompleteLines, EndCount
<1>4. \A n \in 1..EndCount(text) : CompleteLines(text)[n] \in Seq(S)
  BY LineBytes
<1>5. CompleteLines(text) = [n \in 1..EndCount(text) |-> CompleteLines(text)[n]]
  BY DEF CompleteLines, EndCount
<1>6. CompleteLines(text) \in [1..EndCount(text) -> Seq(S)]
  BY <1>4, <1>5
<1>7. QED
  BY <1>2, <1>3, <1>6

LEMMA TailBytes ==
  ASSUME NEW S, S \subseteq Int, NEW text \in Seq(S)
  PROVE  /\ Tail1(text) \in Seq(S) /\ Len(Tail1(text)) = Len(text) - LastEnd(text)
         /\ \A b \in DOMAIN Tail1(text) : Tail1(text)[b] = text[LastEnd(text) + b]
<1>1. text \in Seq(Int) /\ Len(text) \in Nat
  BY IntText
<1> DEFINE e == LastEnd(text)
<1>2. e \in 0..Len(text)
  BY <1>1, LastEnds
<1> HIDE DEF e
<1>3. SubSeq(text, e + 1, Len(text)) \in Seq(S)
  BY <1>1, <1>2, SubSeqProperties
<1>4. Len(SubSeq(text, e + 1, Len(text))) = Len(text) - e
  BY <1>1, <1>2
<1>5. \A b \in 1..(Len(text) - e) : SubSeq(text, e + 1, Len(text))[b] = text[e + b]
  BY <1>1, <1>2
<1>6. QED
  BY <1>3, <1>4, <1>5 DEF e, Tail1

(* What the text says of its lines and of the rest.                         *)
LEMMA LinesShape ==
  ASSUME NEW S, S \subseteq Int, NEW text \in Seq(S)
  PROVE  /\ \A n \in DOMAIN CompleteLines(text) :
              LET line == CompleteLines(text)[n] IN
              line # <<>> /\ \A a \in DOMAIN line : line[a] % 2 = 0 <=> a = Len(line)
         /\ \A b \in DOMAIN Tail1(text) : Tail1(text)[b] % 2 = 1
<1>1. text \in Seq(Int) /\ Len(text) \in Nat /\ LastEnd(text) \in 0..Len(text)
  <2>1. text \in Seq(Int) /\ Len(text) \in Nat
    BY IntText
  <2>2. QED
    BY <2>1, LastEnds
<1>2. ASSUME NEW n \in DOMAIN CompleteLines(text)
      PROVE  LET line == CompleteLines(text)[n] IN
             line # <<>> /\ \A a \in DOMAIN line : line[a] % 2 = 0 <=> a = Len(line)
  <2> DEFINE line == CompleteLines(text)[n]
             e == NthEnd(text, n)
             f == From(text, n)
  <2>1. n \in 1..EndCount(text)
    BY <1>2, LinesType
  <2>2. line \in Seq(S) /\ Len(line) = e - f + 1 /\ \A a \in DOMAIN line : line[a] = text[f + a - 1]
    BY <2>1, LineBytes
  <2>3. f \in 1..e /\ e \in 1..LastEnd(text) /\ \A j \in f..e : text[j] % 2 = 0 <=> j = e
    BY <1>1, <2>1, LinePlace
  <2> HIDE DEF line, e, f
  <2>4. f \in Nat /\ e \in Nat /\ f <= e
    BY <1>1, <2>3
  <2>5. line # <<>>
    BY <2>2, <2>4
  <2>6. ASSUME NEW a \in DOMAIN line
        PROVE  line[a] % 2 = 0 <=> a = Len(line)
    <3>1. a \in 1..(e - f + 1) /\ f + a - 1 \in f..e
      BY <2>2, <2>4
    <3>2. text[f + a - 1] % 2 = 0 <=> f + a - 1 = e
      BY <2>3, <3>1
    <3> DEFINE l == Len(line)
    <3>0. l = e - f + 1 /\ a \in Nat
      BY <2>2, <3>1
    <3> HIDE DEF l
    <3>3. f + a - 1 = e <=> a = l
      BY <2>4, <3>0
    <3>5. line[a] = text[f + a - 1]
      BY <2>2
    <3>4. QED
      BY <3>2, <3>3, <3>5 DEF l
  <2>7. QED
    BY <2>5, <2>6 DEF line
<1>3. ASSUME NEW b \in DOMAIN Tail1(text)
      PROVE  Tail1(text)[b] % 2 = 1
  <2>1. Len(Tail1(text)) = Len(text) - LastEnd(text) /\ Tail1(text)[b] = text[LastEnd(text) + b]
        /\ Tail1(text) \in Seq(S)
    BY TailBytes
  <2>2. b \in 1..(Len(text) - LastEnd(text))
    BY <2>1
  <2> DEFINE j == LastEnd(text) + b
  <2>3. j \in DOMAIN text /\ ~(j <= LastEnd(text))
    BY <1>1, <2>2
  <2>4. j \notin Ends(text)
    BY <1>1, <2>3, LastEnds
  <2>5. text[j] % 2 # 0 /\ text[j] \in Int
    BY <2>3, <2>4, IntText DEF Ends
  <2>6. text[j] % 2 = 1
    BY <2>5
  <2>7. QED
    BY <2>1, <2>6
<1>4. QED
  BY <1>2, <1>3

(* Every byte of a text is in its lines or in the rest, and no other one.   *)
LEMMA CutBytes ==
  ASSUME NEW S, S \subseteq Int, NEW text \in Seq(S)
  PROVE  ToSet(text) = BytesOf(CompleteLines(text)) \union ToSet(Tail1(text))
<1> DEFINE ls == CompleteLines(text)
<1>0. text \in Seq(Int) /\ Len(text) \in Nat /\ LastEnd(text) \in 0..Len(text)
  <2>1. text \in Seq(Int) /\ Len(text) \in Nat
    BY IntText
  <2>2. QED
    BY <2>1, LastEnds
<1>1. DOMAIN ls = 1..EndCount(text) /\ DOMAIN text = 1..Len(text)
  BY LinesType, IntText
<1>2. ASSUME NEW j \in 1..Len(text)
      PROVE  text[j] \in BytesOf(ls) \union ToSet(Tail1(text))
  <2>1. CASE j <= LastEnd(text)
    <3>1. j \in 1..LastEnd(text)
      BY <1>0, <2>1
    <3>2. PICK n \in 1..EndCount(text) : j \in From(text, n)..NthEnd(text, n)
      BY <1>0, <3>1, LinesCover
    <3>3. /\ Len(ls[n]) = NthEnd(text, n) - From(text, n) + 1 /\ ls[n] \in Seq(S)
          /\ \A a \in DOMAIN ls[n] : ls[n][a] = text[From(text, n) + a - 1]
      BY LineBytes
    <3>4. From(text, n) \in Nat /\ NthEnd(text, n) \in Nat
      BY <1>0, LinePlace
    <3> DEFINE a == j - From(text, n) + 1
    <3>5. a \in 1..Len(ls[n]) /\ From(text, n) + a - 1 = j
      BY <1>0, <3>2, <3>3, <3>4
    <3>6. a \in DOMAIN ls[n]
      BY <3>3, <3>5
    <3>7. ls[n][a] = text[j]
      BY <3>3, <3>5, <3>6
    <3>8. text[j] \in ToSet(ls[n])
      BY <3>6, <3>7 DEF ToSet
    <3>9. QED
      BY <1>1, <3>8 DEF BytesOf
  <2>2. CASE ~(j <= LastEnd(text))
    <3> DEFINE b == j - LastEnd(text)
    <3>1. /\ Tail1(text) \in Seq(S) /\ Len(Tail1(text)) = Len(text) - LastEnd(text)
          /\ \A c \in DOMAIN Tail1(text) : Tail1(text)[c] = text[LastEnd(text) + c]
      BY TailBytes
    <3>2. b \in 1..Len(Tail1(text)) /\ LastEnd(text) + b = j
      BY <1>0, <2>2, <3>1
    <3>3. b \in DOMAIN Tail1(text)
      BY <3>1, <3>2
    <3>4. Tail1(text)[b] = text[j]
      BY <3>1, <3>2, <3>3
    <3>5. QED
      BY <3>3, <3>4 DEF ToSet
  <2>3. QED
    BY <2>1, <2>2
<1>3. ASSUME NEW n \in DOMAIN ls, NEW a \in DOMAIN ls[n]
      PROVE  \E j \in DOMAIN text : ls[n][a] = text[j]
  <2>1. n \in 1..EndCount(text)
    BY <1>1
  <2>2. /\ Len(ls[n]) = NthEnd(text, n) - From(text, n) + 1 /\ ls[n] \in Seq(S)
        /\ ls[n][a] = text[From(text, n) + a - 1]
    BY <2>1, <1>3, LineBytes
  <2>3. From(text, n) \in 1..NthEnd(text, n) /\ NthEnd(text, n) \in 1..LastEnd(text)
    BY <1>0, <2>1, LinePlace
  <2>4. a \in 1..(NthEnd(text, n) - From(text, n) + 1)
    BY <2>2, <1>3
  <2>5. From(text, n) + a - 1 \in 1..Len(text)
    BY <1>0, <2>3, <2>4
  <2>6. QED
    BY <1>1, <2>2, <2>5
<1>4. ASSUME NEW b \in DOMAIN Tail1(text)
      PROVE  \E j \in DOMAIN text : Tail1(text)[b] = text[j]
  <2>1. /\ Tail1(text) \in Seq(S) /\ Len(Tail1(text)) = Len(text) - LastEnd(text)
        /\ Tail1(text)[b] = text[LastEnd(text) + b]
    BY TailBytes
  <2>2. b \in 1..(Len(text) - LastEnd(text))
    BY <2>1
  <2>3. LastEnd(text) + b \in 1..Len(text)
    BY <1>0, <2>2
  <2>4. QED
    BY <1>1, <2>1, <2>3
<1> HIDE DEF ls
<1>5. ToSet(text) \subseteq BytesOf(ls) \union ToSet(Tail1(text))
  BY <1>1, <1>2 DEF ToSet
<1>6. BytesOf(ls) \subseteq ToSet(text)
  BY <1>3 DEF BytesOf, ToSet
<1>7. ToSet(Tail1(text)) \subseteq ToSet(text)
  BY <1>4 DEF ToSet
<1>8. QED
  BY <1>5, <1>6, <1>7 DEF ls

(* A rising text is cut into lines in order, before the rest.               *)
LEMMA CutInOrder ==
  ASSUME NEW S, S \subseteq Int, NEW text \in Seq(S), Rising(text)
  PROVE  /\ Ordered(CompleteLines(text)) /\ Rising(Tail1(text))
         /\ \A x \in BytesOf(CompleteLines(text)), y \in ToSet(Tail1(text)) : x < y
<1> DEFINE ls == CompleteLines(text)
           P(n, a) == From(text, n) + a - 1
<1>0. text \in Seq(Int) /\ Len(text) \in Nat /\ LastEnd(text) \in 0..Len(text)
  <2>1. text \in Seq(Int) /\ Len(text) \in Nat
    BY IntText
  <2>2. QED
    BY <2>1, LastEnds
<1>1. DOMAIN ls = 1..EndCount(text) /\ DOMAIN text = 1..Len(text) /\ EndCount(text) \in Nat
  BY <1>0, LinesType, EndsFinite, IntText
<1>2. ASSUME NEW n \in DOMAIN ls, NEW a \in DOMAIN ls[n]
      PROVE  /\ ls[n][a] = text[P(n, a)] /\ a \in Nat
             /\ From(text, n) \in Nat /\ NthEnd(text, n) \in Nat
             /\ From(text, n) <= P(n, a) /\ P(n, a) <= NthEnd(text, n)
             /\ P(n, a) \in DOMAIN text /\ P(n, a) <= LastEnd(text)
  <2>1. n \in 1..EndCount(text)
    BY <1>1
  <2>2. /\ Len(ls[n]) = NthEnd(text, n) - From(text, n) + 1 /\ ls[n] \in Seq(S)
        /\ ls[n][a] = text[P(n, a)]
    BY <2>1, <1>2, LineBytes
  <2>3. From(text, n) \in 1..NthEnd(text, n) /\ NthEnd(text, n) \in 1..LastEnd(text)
    BY <1>0, <2>1, LinePlace
  <2>4. a \in 1..(NthEnd(text, n) - From(text, n) + 1)
    BY <2>2, <1>2
  <2>5. a \in Nat /\ From(text, n) \in Nat /\ NthEnd(text, n) \in Nat
    BY <1>0, <2>3, <2>4
  <2>6. From(text, n) <= P(n, a) /\ P(n, a) <= NthEnd(text, n)
    BY <2>3, <2>4, <2>5
  <2>7. P(n, a) \in 1..Len(text) /\ P(n, a) <= LastEnd(text)
    BY <1>0, <2>3, <2>5, <2>6
  <2>8. QED
    BY <1>1, <2>2, <2>5, <2>6, <2>7
<1>3. ASSUME NEW b \in DOMAIN Tail1(text)
      PROVE  /\ Tail1(text)[b] = text[LastEnd(text) + b] /\ b \in Nat \ {0}
             /\ LastEnd(text) + b \in DOMAIN text
  <2>1. /\ Tail1(text) \in Seq(S) /\ Len(Tail1(text)) = Len(text) - LastEnd(text)
        /\ Tail1(text)[b] = text[LastEnd(text) + b]
    BY TailBytes
  <2>2. b \in 1..(Len(text) - LastEnd(text))
    BY <2>1
  <2>3. QED
    BY <1>0, <1>1, <2>1, <2>2
<1>4. ASSUME NEW n \in DOMAIN ls, NEW m \in DOMAIN ls, NEW a \in DOMAIN ls[n], NEW b \in DOMAIN ls[m],
             n < m \/ (n = m /\ a < b)
      PROVE  ls[n][a] < ls[m][b]
  <2>1. /\ ls[n][a] = text[P(n, a)] /\ a \in Nat /\ P(n, a) <= NthEnd(text, n)
        /\ From(text, n) \in Nat /\ NthEnd(text, n) \in Nat /\ P(n, a) \in DOMAIN text
    BY <1>2
  <2>2. /\ ls[m][b] = text[P(m, b)] /\ b \in Nat /\ From(text, m) <= P(m, b)
        /\ From(text, m) \in Nat /\ P(m, b) \in DOMAIN text
    BY <1>2
  <2>3. CASE n < m
    <3>1. NthEnd(text, n) < From(text, m)
      BY <1>0, <1>1, <2>3, LinesApart
    <3>2. P(n, a) < P(m, b)
      BY <2>1, <2>2, <3>1
    <3>3. QED
      BY <2>1, <2>2, <3>2 DEF Rising
  <2>4. CASE n = m /\ a < b
    <3>1. P(n, a) < P(m, b)
      BY <2>1, <2>2, <2>4
    <3>2. QED
      BY <2>1, <2>2, <3>1 DEF Rising
  <2>5. QED
    BY <1>4, <2>3, <2>4
<1>5. Rising(Tail1(text))
  <2>1. ASSUME NEW a \in DOMAIN Tail1(text), NEW b \in DOMAIN Tail1(text), a < b
        PROVE  Tail1(text)[a] < Tail1(text)[b]
    <3>1. LastEnd(text) + a < LastEnd(text) + b
      BY <1>0, <1>3, <2>1
    <3>2. QED
      BY <1>3, <3>1 DEF Rising
  <2>2. QED
    BY <2>1 DEF Rising
<1>6. ASSUME NEW n \in DOMAIN ls, NEW a \in DOMAIN ls[n], NEW b \in DOMAIN Tail1(text)
      PROVE  ls[n][a] < Tail1(text)[b]
  <2>1. ls[n][a] = text[P(n, a)] /\ P(n, a) \in DOMAIN text /\ P(n, a) <= LastEnd(text)
    BY <1>2
  <2>2. /\ Tail1(text)[b] = text[LastEnd(text) + b] /\ LastEnd(text) + b \in DOMAIN text
        /\ b \in Nat \ {0}
    BY <1>3
  <2>3. P(n, a) < LastEnd(text) + b
    BY <1>0, <1>1, <2>1, <2>2
  <2>4. QED
    BY <2>1, <2>2, <2>3 DEF Rising
<1> HIDE DEF ls, P
<1>7. Ordered(ls)
  BY <1>4 DEF Ordered
<1>8. \A x \in BytesOf(ls), y \in ToSet(Tail1(text)) : x < y
  BY <1>6 DEF BytesOf, ToSet
<1>9. QED
  BY <1>5, <1>7, <1>8 DEF ls

(* Two texts, or the lines of two texts, one after the other.               *)
LEMMA JoinPlaces ==
  ASSUME NEW S, NEW s \in Seq(S), NEW t \in Seq(S)
  PROVE  /\ s \o t \in Seq(S) /\ Len(s \o t) = Len(s) + Len(t)
         /\ Len(s) \in Nat /\ Len(t) \in Nat /\ DOMAIN s = 1..Len(s) /\ DOMAIN t = 1..Len(t)
         /\ \A i \in DOMAIN s : i \in DOMAIN (s \o t) /\ (s \o t)[i] = s[i]
         /\ \A k \in DOMAIN t : Len(s) + k \in DOMAIN (s \o t) /\ (s \o t)[Len(s) + k] = t[k]
         /\ \A j \in DOMAIN (s \o t) :
              \/ j \in DOMAIN s /\ (s \o t)[j] = s[j]
              \/ j > Len(s) /\ j - Len(s) \in DOMAIN t /\ (s \o t)[j] = t[j - Len(s)]
<1>1. s \o t \in Seq(S) /\ Len(s \o t) = Len(s) + Len(t)
  OBVIOUS
<1>2. Len(s) \in Nat /\ Len(t) \in Nat /\ DOMAIN s = 1..Len(s) /\ DOMAIN t = 1..Len(t)
  OBVIOUS
<1>3. DOMAIN (s \o t) = 1..(Len(s) + Len(t))
  BY <1>1
<1>4. \A j \in 1..(Len(s) + Len(t)) :
        (s \o t)[j] = IF j <= Len(s) THEN s[j] ELSE t[j - Len(s)]
  OBVIOUS
<1>5. ASSUME NEW i \in DOMAIN s
      PROVE  i \in DOMAIN (s \o t) /\ (s \o t)[i] = s[i]
  BY <1>2, <1>3, <1>4
<1>6. ASSUME NEW k \in DOMAIN t
      PROVE  Len(s) + k \in DOMAIN (s \o t) /\ (s \o t)[Len(s) + k] = t[k]
  <2>1. k \in Nat /\ 1 <= k /\ k <= Len(t)
    BY <1>2
  <2> DEFINE n == Len(s)
             m == Len(t)
  <2>2. n \in Nat /\ m \in Nat /\ k <= m
    BY <1>2, <2>1
  <2>3. n + k \in 1..(n + m) /\ ~(n + k <= n) /\ (n + k) - n = k
    <3> HIDE DEF n, m
    <3>1. QED
      BY <2>1, <2>2
  <2>4. QED
    BY <1>3, <1>4, <2>3
<1>7. ASSUME NEW j \in DOMAIN (s \o t)
      PROVE  \/ j \in DOMAIN s /\ (s \o t)[j] = s[j]
             \/ j > Len(s) /\ j - Len(s) \in DOMAIN t /\ (s \o t)[j] = t[j - Len(s)]
  BY <1>2, <1>3, <1>4
<1>8. QED
  BY <1>1, <1>2, <1>5, <1>6, <1>7

LEMMA JoinText ==
  ASSUME NEW S, S \subseteq Int, NEW s \in Seq(S), NEW t \in Seq(S)
  PROVE  /\ ToSet(s \o t) = ToSet(s) \union ToSet(t)
         /\ Rising(s) /\ Rising(t) /\ (\A x \in ToSet(s), y \in ToSet(t) : x < y) => Rising(s \o t)
<1> DEFINE u == s \o t
<1>1. /\ Len(s) \in Nat /\ Len(t) \in Nat /\ DOMAIN s = 1..Len(s) /\ DOMAIN t = 1..Len(t)
      /\ \A i \in DOMAIN s : i \in DOMAIN u /\ u[i] = s[i]
      /\ \A k \in DOMAIN t : Len(s) + k \in DOMAIN u /\ u[Len(s) + k] = t[k]
      /\ \A j \in DOMAIN u :
           \/ j \in DOMAIN s /\ u[j] = s[j]
           \/ j > Len(s) /\ j - Len(s) \in DOMAIN t /\ u[j] = t[j - Len(s)]
      /\ DOMAIN u \subseteq Nat
  <2>1. u \in Seq(S)
    BY JoinPlaces
  <2>2. DOMAIN u \subseteq Nat
    BY <2>1, IntText
  <2>3. QED
    BY <2>2, JoinPlaces
<1> HIDE DEF u
<1>2. ToSet(u) = ToSet(s) \union ToSet(t)
  BY <1>1 DEF ToSet
<1>3. ASSUME Rising(s), Rising(t), \A x \in ToSet(s), y \in ToSet(t) : x < y,
             NEW a \in DOMAIN u, NEW b \in DOMAIN u, a < b
      PROVE  u[a] < u[b]
  <2>1. CASE a \in DOMAIN s /\ u[a] = s[a] /\ b \in DOMAIN s /\ u[b] = s[b]
    BY <1>3, <2>1 DEF Rising
  <2>2. CASE /\ a \in DOMAIN s /\ u[a] = s[a]
             /\ b > Len(s) /\ b - Len(s) \in DOMAIN t /\ u[b] = t[b - Len(s)]
    BY <1>3, <2>2 DEF ToSet
  <2>3. CASE /\ a > Len(s) /\ a - Len(s) \in DOMAIN t /\ u[a] = t[a - Len(s)]
             /\ b \in DOMAIN s /\ u[b] = s[b]
    BY <1>1, <1>3, <2>3
  <2>4. CASE /\ a > Len(s) /\ a - Len(s) \in DOMAIN t /\ u[a] = t[a - Len(s)]
             /\ b > Len(s) /\ b - Len(s) \in DOMAIN t /\ u[b] = t[b - Len(s)]
    <3>1. a - Len(s) < b - Len(s)
      BY <1>1, <1>3
    <3>2. QED
      BY <1>3, <2>4, <3>1 DEF Rising
  <2>5. QED
    BY <1>1, <2>1, <2>2, <2>3, <2>4
<1>4. Rising(s) /\ Rising(t) /\ (\A x \in ToSet(s), y \in ToSet(t) : x < y) => Rising(u)
  BY <1>3 DEF Rising
<1>5. QED
  BY <1>2, <1>4 DEF u

LEMMA JoinLines ==
  ASSUME NEW S, S \subseteq Int, NEW ls \in Seq(Seq(S)), NEW ms \in Seq(Seq(S))
  PROVE  /\ BytesOf(ls \o ms) = BytesOf(ls) \union BytesOf(ms)
         /\ Ordered(ls) /\ Ordered(ms) /\ (\A x \in BytesOf(ls), y \in BytesOf(ms) : x < y)
              => Ordered(ls \o ms)
<1> DEFINE u == ls \o ms
<1>1. /\ Len(ls) \in Nat /\ DOMAIN ls = 1..Len(ls)
      /\ \A i \in DOMAIN ls : i \in DOMAIN u /\ u[i] = ls[i]
      /\ \A k \in DOMAIN ms : Len(ls) + k \in DOMAIN u /\ u[Len(ls) + k] = ms[k]
      /\ \A j \in DOMAIN u :
           \/ j \in DOMAIN ls /\ u[j] = ls[j]
           \/ j > Len(ls) /\ j - Len(ls) \in DOMAIN ms /\ u[j] = ms[j - Len(ls)]
      /\ DOMAIN u \subseteq Nat
  <2> DEFINE T == Seq(S)
  <2>1. ls \in Seq(T) /\ ms \in Seq(T)
    OBVIOUS
  <2> HIDE DEF T
  <2>2. u \in Seq(T) /\ Len(ls) \in Nat /\ DOMAIN ls = 1..Len(ls)
    BY <2>1, JoinPlaces
  <2>3. DOMAIN u \subseteq Nat
    BY <2>2
  <2>4. \A i \in DOMAIN ls : i \in DOMAIN u /\ u[i] = ls[i]
    BY <2>1, JoinPlaces
  <2>5. \A k \in DOMAIN ms : Len(ls) + k \in DOMAIN u /\ u[Len(ls) + k] = ms[k]
    BY <2>1, JoinPlaces
  <2>6. \A j \in DOMAIN u :
          \/ j \in DOMAIN ls /\ u[j] = ls[j]
          \/ j > Len(ls) /\ j - Len(ls) \in DOMAIN ms /\ u[j] = ms[j - Len(ls)]
    BY <2>1, JoinPlaces
  <2>7. QED
    BY <2>2, <2>3, <2>4, <2>5, <2>6
<1> HIDE DEF u
<1>2. BytesOf(u) = BytesOf(ls) \union BytesOf(ms)
  <2>1. BytesOf(u) \subseteq BytesOf(ls) \union BytesOf(ms)
    BY <1>1 DEF BytesOf
  <2>2. BytesOf(ls) \subseteq BytesOf(u)
    BY <1>1 DEF BytesOf
  <2>3. BytesOf(ms) \subseteq BytesOf(u)
    BY <1>1 DEF BytesOf
  <2>4. QED
    BY <2>1, <2>2, <2>3
<1>3. ASSUME Ordered(ls), Ordered(ms), \A x \in BytesOf(ls), y \in BytesOf(ms) : x < y,
             NEW i \in DOMAIN u, NEW k \in DOMAIN u, NEW a \in DOMAIN u[i], NEW b \in DOMAIN u[k],
             i < k \/ (i = k /\ a < b)
      PROVE  u[i][a] < u[k][b]
  <2>1. CASE i \in DOMAIN ls /\ u[i] = ls[i] /\ k \in DOMAIN ls /\ u[k] = ls[k]
    BY <1>3, <2>1 DEF Ordered
  <2>2. CASE /\ i \in DOMAIN ls /\ u[i] = ls[i]
             /\ k > Len(ls) /\ k - Len(ls) \in DOMAIN ms /\ u[k] = ms[k - Len(ls)]
    <3>1. u[i][a] \in BytesOf(ls)
      BY <1>3, <2>2 DEF BytesOf, ToSet
    <3>2. u[k][b] \in BytesOf(ms)
      BY <1>3, <2>2 DEF BytesOf, ToSet
    <3>3. QED
      BY <1>3, <3>1, <3>2
  <2>3. CASE /\ i > Len(ls) /\ i - Len(ls) \in DOMAIN ms /\ u[i] = ms[i - Len(ls)]
             /\ k \in DOMAIN ls /\ u[k] = ls[k]
    BY <1>1, <1>3, <2>3
  <2>4. CASE /\ i > Len(ls) /\ i - Len(ls) \in DOMAIN ms /\ u[i] = ms[i - Len(ls)]
             /\ k > Len(ls) /\ k - Len(ls) \in DOMAIN ms /\ u[k] = ms[k - Len(ls)]
    <3>1. i \in Nat /\ k \in Nat
      BY <1>1
    <3>2. i < k => i - Len(ls) < k - Len(ls)
      BY <1>1, <3>1
    <3>3. i = k => i - Len(ls) = k - Len(ls)
      OBVIOUS
    <3>4. a \in DOMAIN ms[i - Len(ls)] /\ b \in DOMAIN ms[k - Len(ls)]
      BY <1>3, <2>4
    <3>5. ms[i - Len(ls)][a] < ms[k - Len(ls)][b]
      BY <1>3, <2>4, <3>2, <3>3, <3>4 DEF Ordered
    <3>6. QED
      BY <2>4, <3>5
  <2>5. QED
    BY <1>1, <2>1, <2>2, <2>3, <2>4
<1>4. Ordered(ls) /\ Ordered(ms) /\ (\A x \in BytesOf(ls), y \in BytesOf(ms) : x < y) => Ordered(u)
  <2>1. SUFFICES ASSUME Ordered(ls), Ordered(ms), \A x \in BytesOf(ls), y \in BytesOf(ms) : x < y
                 PROVE  Ordered(u)
    OBVIOUS
  <2>2. QED
    BY <1>3, <2>1 DEF Ordered
<1>5. QED
  BY <1>2, <1>4 DEF u

(* A piece of a text whose bytes are consecutive.                           *)
Consecutive(f, g) == \A i \in DOMAIN f : f[i] = g + i

LEMMA PieceOf ==
  ASSUME RelayAssumption, NEW f \in Seq(Bytes), NEW g \in Nat, Consecutive(f, g),
         NEW o \in Nat, NEW l \in 0..Len(f)
  PROVE  LET piece == SubSeq(f, o + 1, l) IN
         /\ piece \in Seq(Bytes) /\ Len(piece) = (IF o < l THEN l - o ELSE 0)
         /\ DOMAIN piece = 1..Len(piece)
         /\ \A a \in DOMAIN piece : piece[a] = g + o + a
         /\ ToSet(piece) = (g + o + 1)..(g + l) /\ Rising(piece)
<1> DEFINE piece == SubSeq(f, o + 1, l)
<1>1. Len(f) \in Nat /\ l \in Nat /\ l <= Len(f) /\ DOMAIN f = 1..Len(f)
  OBVIOUS
<1>2. g \in Nat /\ \A i \in 1..Len(f) : f[i] = g + i
  BY <1>1 DEF Consecutive
<1>3. piece \in Seq(Bytes)
  BY <1>1, SubSeqProperties
<1>4. Len(piece) = IF o < l THEN l - o ELSE 0
  BY <1>1
<1>5. DOMAIN piece = 1..Len(piece)
  BY <1>3
<1>6. ASSUME NEW a \in DOMAIN piece
      PROVE  piece[a] = g + o + a
  <2>1. a \in 1..(l - o) /\ o < l /\ a \in Nat
    BY <1>1, <1>4, <1>5
  <2>2. piece[a] = f[o + a]
    BY <1>1, <2>1
  <2>3. o + a \in 1..Len(f)
    BY <1>1, <2>1
  <2>4. f[o + a] = g + (o + a)
    BY <1>2, <2>3
  <2>5. g + (o + a) = g + o + a
    BY <1>2, <2>1
  <2>6. QED
    BY <2>2, <2>4, <2>5
<1> HIDE DEF piece
<1>7. ToSet(piece) = (g + o + 1)..(g + l)
  <2>1. ToSet(piece) \subseteq (g + o + 1)..(g + l)
    BY <1>1, <1>2, <1>4, <1>5, <1>6 DEF ToSet
  <2>2. ASSUME NEW x \in (g + o + 1)..(g + l)
        PROVE  x \in ToSet(piece)
    <3> DEFINE a == x - g - o
    <3>1. o < l /\ a \in 1..(l - o) /\ g + o + a = x
      BY <1>1, <1>2
    <3>2. a \in DOMAIN piece
      BY <1>4, <1>5, <3>1
    <3>3. piece[a] = x
      BY <1>6, <3>1, <3>2
    <3>4. QED
      BY <3>2, <3>3 DEF ToSet
  <2>3. QED
    BY <2>1, <2>2
<1>8. Rising(piece)
  <2>1. ASSUME NEW a \in DOMAIN piece, NEW b \in DOMAIN piece, a < b
        PROVE  piece[a] < piece[b]
    <3>1. a \in Nat /\ b \in Nat
      BY <1>5
    <3>2. piece[a] = g + o + a /\ piece[b] = g + o + b
      BY <1>6
    <3>3. QED
      BY <1>2, <2>1, <3>1, <3>2
  <2>2. QED
    BY <2>1 DEF Rising
<1>9. QED
  BY <1>3, <1>4, <1>5, <1>6, <1>7, <1>8 DEF piece

-----------------------------------------------------------------------------
(* The file holds the last bytes written; before it, as many are gone.      *)
Gone == written - Len(file)
FileTail ==
  /\ Len(file) <= written
  /\ Consecutive(file, Gone)

(* What the relay has not read, and what it reads.                          *)
LEMMA RestBytes ==
  ASSUME RelayAssumption, NEW f \in Seq(Bytes), NEW w \in Nat, Len(f) <= w,
         Consecutive(f, w - Len(f)), NEW o \in Nat
  PROVE  ToSet(SubSeq(f, o + 1, Len(f))) = (w - Len(f) + o + 1)..w
<1> DEFINE g == w - Len(f)
<1>1. Len(f) \in Nat /\ Bytes \subseteq Int
  BY DEF Bytes, RelayAssumption
<1>2. g \in Nat /\ g + Len(f) = w /\ Len(f) \in 0..Len(f)
  BY <1>1
<1>3. Consecutive(f, g)
  OBVIOUS
<1> HIDE DEF g
<1>4. ToSet(SubSeq(f, o + 1, Len(f))) = (g + o + 1)..(g + Len(f))
  BY <1>1, <1>2, <1>3, PieceOf
<1>5. QED
  BY <1>2, <1>4 DEF g

LEMMA GainedBytes ==
  ASSUME RelayTypeOK, FileTail, RelayAssumption
  PROVE  /\ Gained \in Seq(Bytes) /\ Len(Gained) \in Nat
         /\ offset <= Len(file) => offset + Len(Gained) <= Len(file)
         /\ offset > Len(file) => Len(Gained) = 0
         /\ ToSet(Gained) = (Gone + offset + 1)..(Gone + offset + Len(Gained)) /\ Rising(Gained)
<1>1. Len(file) \in Nat /\ written \in Nat /\ Len(file) <= written /\ size \in Nat /\ offset \in Nat
  BY DEF RelayTypeOK, RelayAssumption, FileTail
<1>2. Gone \in Nat /\ file \in Seq(Bytes) /\ Bytes \subseteq Int /\ Consecutive(file, Gone)
  BY <1>1 DEF Gone, FileTail, Bytes, RelayTypeOK, RelayAssumption
<1> DEFINE l == IF size < Len(file) THEN size ELSE Len(file)
<1>3. l \in 0..Len(file)
  BY <1>1
<1> HIDE DEF l
<1>4. Gained = SubSeq(file, offset + 1, l)
  BY DEF Gained, l
<1>5. /\ Gained \in Seq(Bytes) /\ Len(Gained) = (IF offset < l THEN l - offset ELSE 0)
      /\ ToSet(Gained) = (Gone + offset + 1)..(Gone + l) /\ Rising(Gained)
  BY <1>1, <1>2, <1>3, <1>4, PieceOf
<1>6. Len(Gained) \in Nat
  BY <1>5
<1>7. offset <= Len(file) => offset + Len(Gained) <= Len(file)
  BY <1>1, <1>3, <1>5
<1>8. offset > Len(file) => Len(Gained) = 0
  BY <1>1, <1>3, <1>5
<1>9. (Gone + offset + 1)..(Gone + l) = (Gone + offset + 1)..(Gone + offset + Len(Gained))
  <2>1. CASE offset < l
    <3>1. Gone + l = Gone + offset + Len(Gained)
      BY <1>1, <1>2, <1>3, <1>5, <2>1
    <3>2. QED
      BY <3>1
  <2>2. CASE ~(offset < l)
    BY <1>1, <1>2, <1>3, <1>5, <2>2
  <2>3. QED
    BY <2>1, <2>2
<1>10. QED
  BY <1>5, <1>6, <1>7, <1>8, <1>9

LEMMA RelayedBytes == Relayed = BytesOf(stdout) /\ Relayed' = BytesOf(stdout')
  BY DEF Relayed, BytesOf

Kept == ToSet(partial)

(* What a read does with the bytes it gains, and with those that waited.    *)
LEMMA ReadCuts ==
  ASSUME RelayTypeOK, FileTail, RelayAssumption, Read
  PROVE  LET text == partial \o Gained
             full == CompleteLines(text) IN
         /\ text \in Seq(Bytes) /\ full \in Seq(Seq(Bytes))
         /\ offset' = offset + Len(Gained) /\ stdout' = stdout \o full /\ partial' = Tail1(text)
         /\ Kept \union ToSet(Gained) = BytesOf(full) \union Kept'
         /\ Relayed' = Relayed \union BytesOf(full)
<1> DEFINE text == partial \o Gained
           full == CompleteLines(text)
<1>1. Bytes \subseteq Int
  BY DEF Bytes, RelayAssumption
<1>2. partial \in Seq(Bytes) /\ stdout \in Seq(Seq(Bytes)) /\ Gained \in Seq(Bytes)
  BY GainedBytes DEF RelayTypeOK
<1>3. text \in Seq(Bytes)
  BY <1>2, JoinPlaces
<1>4. ToSet(text) = Kept \union ToSet(Gained)
  <2>1. \A s, t \in Seq(Bytes) : ToSet(s \o t) = ToSet(s) \union ToSet(t)
    BY <1>1, JoinText, ZenonT(60)
  <2>2. QED
    BY <1>2, <2>1 DEF Kept
<1>5. offset' = offset + Len(Gained) /\ stdout' = stdout \o full /\ partial' = Tail1(text)
  BY DEF Read, Tail1
<1> HIDE DEF text
<1>6. full \in Seq(Seq(Bytes))
  BY <1>1, <1>3, LinesType
<1>7. ToSet(text) = BytesOf(full) \union ToSet(Tail1(text))
  BY <1>1, <1>3, CutBytes
<1> HIDE DEF full
<1>8. BytesOf(stdout \o full) = BytesOf(stdout) \union BytesOf(full)
  <2>1. \A ls, ms \in Seq(Seq(Bytes)) : BytesOf(ls \o ms) = BytesOf(ls) \union BytesOf(ms)
    BY <1>1, JoinLines, ZenonT(60)
  <2>2. QED
    BY <1>2, <1>6, <2>1
<1>9. Relayed' = Relayed \union BytesOf(full)
  BY <1>5, <1>8, RelayedBytes
<1>10. Kept' = ToSet(Tail1(text))
  BY <1>5 DEF Kept
<1>11. Kept \union ToSet(Gained) = BytesOf(full) \union Kept'
  BY <1>4, <1>7, <1>10
<1>12. QED
  BY <1>3, <1>5, <1>6, <1>9, <1>11 DEF text, full

-----------------------------------------------------------------------------
(* What lies between the relay and its file                                 *)

(* The last byte that a relay with offset o has behind it: one that is too  *)
(* large is of a content that is gone, and is set back.                     *)
Reach(o) == Gone + (IF o > Len(file) THEN 0 ELSE o)
Place == IF at = "down" THEN saved ELSE offset
Behind == Reach(Place)
InMemory == IF at = "down" THEN {} ELSE Kept

OffsetsInOrder ==
  /\ at = "sleep" => offset = saved
  /\ at \in {"sleep", "read", "save"} => offset <= MaxBytes
  /\ saved <= MaxBytes
  /\ ~strayed /\ at \in {"sleep", "read"} => offset = saved
  /\ ~strayed => IF at = "down" THEN saved <= Len(file) ELSE offset <= Len(file)

(* A line ends with its one line end, and what waits in memory has none.    *)
LineEnds(ls) ==
  \A i \in DOMAIN ls :
    ls[i] # <<>> /\ \A a \in DOMAIN ls[i] : ls[i][a] % 2 = 0 <=> a = Len(ls[i])
NoEnd(text) == \A b \in DOMAIN text : text[b] % 2 = 1
LinesEnd == LineEnds(stdout) /\ NoEnd(partial)

(* Lines in order, then what waits in memory, then what is still to be read.*)
ReadOnce ==
  /\ Ordered(stdout) /\ Rising(partial) /\ \A x \in Relayed, y \in Kept : x < y
  /\ \A x \in Relayed \union Kept :
       /\ at # "down" => x <= Reach(offset)
       /\ at \in {"sleep", "read", "down"} => x <= Reach(saved)

(* Where every byte is that the relay has behind it.                        *)
Accounted == 1..Behind \subseteq Relayed \union InMemory \union cut \union dropped

(* Of a wide line that the relay has half behind it, a poll read that half;  *)
(* and a byte that was decoded without the other part of its character is   *)
(* of such a line, or what was before it is lost.                           *)
HalvesInOrder ==
  /\ \A n \in Wide : 2 * n - 1 \in Relayed \union InMemory /\ 2 * n > Behind => n \in halved
  /\ \A b \in garbled : \/ \E n \in halved : b = 2 * n - 1 \/ b = 2 * n
                        \/ b - 1 \in cut \union dropped

RelayOrderly ==
  /\ RelayTypeOK /\ FileTail /\ OffsetsInOrder /\ LinesEnd /\ NothingLost
  /\ ~replayed => ReadOnce
  /\ ~replayed /\ ~strayed => Accounted /\ HalvesInOrder

LEMMA RelayOrderlyInit ==
  ASSUME RelayAssumption, RelayInit
  PROVE  RelayOrderly
<1>1. Bytes \subseteq Int /\ MaxBytes \in Nat
  BY DEF Bytes, RelayAssumption
<1>2. RelayTypeOK
  BY DEF RelayTypeOK, RelayInit, RelayAssumption
<1>3. FileTail /\ Len(file) = 0 /\ written = 0
  BY DEF FileTail, Consecutive, RelayInit
<1>4. OffsetsInOrder
  BY <1>1, <1>3 DEF OffsetsInOrder, RelayInit
<1>5. LinesEnd
  BY DEF LinesEnd, LineEnds, NoEnd, RelayInit
<1>6. NothingLost
  BY DEF NothingLost, RelayInit
<1>7. Relayed = {} /\ Kept = {}
  BY DEF Relayed, Kept, ToSet, RelayInit
<1>8. Ordered(stdout) /\ Rising(partial)
  BY DEF Ordered, Rising, RelayInit
<1>9. ReadOnce
  BY <1>7, <1>8 DEF ReadOnce
<1>10. Behind = 0
  <2>1. Gone = 0 /\ offset = 0 /\ at = "sleep"
    <3>1. Gone = 0
      BY <1>3 DEF Gone
    <3>2. QED
      BY <3>1 DEF RelayInit
  <2>2. Reach(0) = 0
    BY <1>3, <2>1 DEF Reach
  <2>3. QED
    BY <2>1, <2>2 DEF Behind, Place
<1>11. Accounted
  BY <1>10 DEF Accounted
<1>12. HalvesInOrder
  <2>1. InMemory = {} /\ garbled = {}
    BY <1>7 DEF InMemory, RelayInit
  <2>2. QED
    BY <1>7, <2>1 DEF HalvesInOrder
<1>13. QED
  BY <1>2, <1>3, <1>4, <1>5, <1>6, <1>9, <1>11, <1>12 DEF RelayOrderly

(* The types and the file                                                   *)
LEMMA RelayTypesStep ==
  ASSUME RelayAssumption, RelayTypeOK, FileTail, RelayNext
  PROVE  RelayTypeOK' /\ FileTail'
<1>1. /\ Lines \in Nat /\ written \in 0..(2 * Lines) /\ file \in Seq(Bytes) /\ partial \in Seq(Bytes)
      /\ stdout \in Seq(Seq(Bytes)) /\ Len(file) \in Nat /\ Len(file) <= written /\ Bytes = 1..(2 * Lines)
      /\ offset \in Nat /\ saved \in Nat /\ written \in Nat
  BY DEF RelayTypeOK, RelayAssumption, FileTail, Bytes
<1>2. ToSet(partial) \subseteq Bytes
  <2>1. \A a \in DOMAIN partial : partial[a] \in Bytes
    BY <1>1
  <2>2. QED
    BY <2>1 DEF ToSet
<1>3. ASSUME NEW o \in Nat
      PROVE  ToSet(Rest(o)) \subseteq Bytes
  <2>1. Rest(o) \in Seq(Bytes)
    <3>1. SubSeq(file, o + 1, Len(file)) \in Seq(Bytes)
      BY <1>1, SubSeqProperties
    <3>2. QED
      BY <3>1 DEF Rest
  <2>2. \A a \in DOMAIN Rest(o) : Rest(o)[a] \in Bytes
    BY <2>1
  <2>3. QED
    BY <2>2 DEF ToSet
<1>4. file' = <<>> => file' \in Seq(Bytes) /\ Len(file') = 0 /\ DOMAIN file' = {}
  OBVIOUS
<1>5. CASE Append1
  <2>1. written + 1 \in Bytes /\ written' = written + 1 /\ file' = Append(file, written + 1)
    BY <1>1, <1>5 DEF Append1
  <2>2. file' \in Seq(Bytes) /\ Len(file') = Len(file) + 1
    BY <1>1, <2>1
  <2>3. written' \in 0..(2 * Lines) /\ Len(file') <= written'
    BY <1>1, <1>5, <2>1, <2>2 DEF Append1
  <2>4. RelayTypeOK'
    BY <1>5, <2>2, <2>3 DEF RelayTypeOK, Append1, relay, relayHistory, decoded
  <2>5. Gone' = Gone
    BY <1>1, <2>1, <2>2 DEF Gone
  <2>6. ASSUME NEW i \in DOMAIN file'
        PROVE  file'[i] = Gone + i
    <3>1. i \in 1..(Len(file) + 1)
      BY <2>2
    <3>2. CASE i \in DOMAIN file
      <4>1. file'[i] = file[i]
        BY <1>1, <2>1, <3>2
      <4>2. QED
        BY <3>2, <4>1 DEF FileTail, Consecutive
    <3>3. CASE i = Len(file) + 1
      <4>1. file'[i] = written + 1
        BY <1>1, <2>1, <3>3
      <4>2. Gone + i = written + 1
        BY <1>1, <3>3 DEF Gone
      <4>3. QED
        BY <4>1, <4>2
    <3>4. QED
      BY <1>1, <3>1, <3>2, <3>3
  <2>7. FileTail'
    BY <2>3, <2>5, <2>6 DEF FileTail, Consecutive
  <2>8. QED
    BY <2>4, <2>7
<1>6. CASE Empty
  <2>1. RelayTypeOK'
    BY <1>4, <1>6 DEF RelayTypeOK, Empty, relay, decoded
  <2>2. QED
    BY <1>1, <1>4, <1>6, <2>1 DEF FileTail, Consecutive, Empty
<1>7. CASE AskedToStop
  BY <1>7 DEF RelayTypeOK, FileTail, Gone, AskedToStop, relayHistory, decoded
<1>8. CASE Stat
  <2>1. offset' \in Nat /\ size' \in Nat /\ at' \in {"read", "save"} /\ sigterm' \in {"no", "asked", "last"}
    BY <1>1, <1>8 DEF Stat, RelayTypeOK
  <2>2. QED
    BY <1>8, <2>1 DEF RelayTypeOK, FileTail, Gone, Stat, relayHistory, decoded
<1>9. CASE Read
  <2> DEFINE text == partial \o Gained
             full == CompleteLines(text)
  <2>1. /\ text \in Seq(Bytes) /\ full \in Seq(Seq(Bytes)) /\ partial' = Tail1(text)
        /\ offset' = offset + Len(Gained) /\ stdout' = stdout \o full /\ Len(Gained) \in Nat
    BY <1>9, ReadCuts, GainedBytes
  <2> HIDE DEF text, full
  <2>2. Bytes \subseteq Int
    BY <1>1
  <2>3. partial' \in Seq(Bytes)
    BY <2>1, <2>2, TailBytes
  <2>4. stdout' \in Seq(Seq(Bytes))
    BY <1>1, <2>1, JoinPlaces
  <2>5. offset' \in Nat
    BY <1>1, <2>1
  <2>6. at' \in {"truncate", "save"} /\ UNCHANGED <<file, written, sigterm, size, saved, dropped, cut>>
    BY <1>9 DEF Read, relayHistory
  <2>7. garbled' \subseteq Bytes /\ halved' \subseteq Wide
    <3>1. ToSet(Gained) \subseteq Bytes
      <4>1. \A i \in DOMAIN Gained : Gained[i] \in Bytes
        BY GainedBytes
      <4>2. QED
        BY <4>1 DEF ToSet
    <3>2. Decode(Gained) /\ garbled \subseteq Bytes /\ halved \subseteq Wide
      BY <1>9 DEF Read, RelayTypeOK
    <3>3. garbled' \subseteq garbled \union ToSet(Gained) /\ halved' \subseteq halved \union Wide
      BY <3>2 DEF Decode
    <3>4. QED
      BY <3>1, <3>2, <3>3
  <2>8. QED
    BY <2>3, <2>4, <2>5, <2>6, <2>7 DEF RelayTypeOK, FileTail, Gone
<1>10. CASE Truncate
  <2>1. dropped' \subseteq Bytes
    BY <1>1, <1>3, <1>10 DEF Truncate, RelayTypeOK
  <2>2. RelayTypeOK'
    BY <1>4, <1>10, <2>1 DEF RelayTypeOK, Truncate, decoded
  <2>3. QED
    BY <1>1, <1>4, <1>10, <2>2 DEF FileTail, Consecutive, Truncate
<1>11. CASE Save
  <2>1. OnlyHere \subseteq Bytes
    BY <1>2 DEF OnlyHere
  <2>2. cut' \subseteq Bytes /\ at' \in {"down", "sleep"} /\ saved' \in Nat
    BY <1>1, <1>11, <2>1 DEF Save, RelayTypeOK
  <2>3. QED
    BY <1>11, <2>2 DEF RelayTypeOK, FileTail, Gone, Save, decoded
<1>12. CASE Crash
  <2>1. OnlyHere \subseteq Bytes
    BY <1>2 DEF OnlyHere
  <2>2. cut' \subseteq Bytes
    BY <1>12, <2>1 DEF Crash, RelayTypeOK
  <2>3. QED
    BY <1>12, <2>2 DEF RelayTypeOK, FileTail, Gone, Crash, decoded
<1>13. CASE Restart
  BY <1>13 DEF RelayTypeOK, FileTail, Gone, Restart, relayHistory, decoded
<1>14. QED
  BY <1>5, <1>6, <1>7, <1>8, <1>9, <1>10, <1>11, <1>12, <1>13 DEF RelayNext, Poll

(* The offsets, in memory and on the volume                                 *)
LEMMA OffsetsStep ==
  ASSUME RelayAssumption, RelayTypeOK, FileTail, OffsetsInOrder, RelayNext
  PROVE  OffsetsInOrder'
<1>1. /\ offset \in Nat /\ saved \in Nat /\ MaxBytes \in Nat \ {0} /\ Len(file) \in Nat
      /\ at \in {"sleep", "read", "truncate", "save", "down"}
  BY DEF RelayTypeOK, RelayAssumption
<1>2. CASE Append1
  <2>1. Len(file') = Len(file) + 1
    BY <1>2 DEF Append1, RelayTypeOK
  <2>2. UNCHANGED <<at, offset, saved, strayed>>
    BY <1>2 DEF Append1, relay, relayHistory
  <2>3. QED
    BY <1>1, <2>1, <2>2 DEF OffsetsInOrder
<1>3. CASE Empty
  BY <1>3 DEF OffsetsInOrder, Empty, relay
<1>4. CASE AskedToStop
  BY <1>4 DEF OffsetsInOrder, AskedToStop, relayHistory
<1>5. CASE Stat
  <2>1. /\ at = "sleep" /\ at' \in {"read", "save"} /\ offset' = (IF Len(file) < offset THEN 0 ELSE offset)
        /\ UNCHANGED <<file, saved, strayed>>
    BY <1>5 DEF Stat, relayHistory
  <2>2. ~strayed => offset <= Len(file) /\ offset = saved
    BY <1>1, <2>1 DEF OffsetsInOrder
  <2>3. offset' <= MaxBytes
    BY <1>1, <2>1 DEF OffsetsInOrder
  <2>4. ~strayed => offset' = saved /\ offset' <= Len(file)
    BY <1>1, <2>1, <2>2
  <2>5. QED
    BY <2>1, <2>3, <2>4 DEF OffsetsInOrder
<1>6. CASE Read
  <2>1. offset' = offset + Len(Gained)
    BY <1>6, ReadCuts
  <2>2. Len(Gained) \in Nat /\ (offset <= Len(file) => offset + Len(Gained) <= Len(file))
    BY GainedBytes
  <2>3. /\ at = "read" /\ at' = (IF offset' > MaxBytes THEN "truncate" ELSE "save")
        /\ UNCHANGED <<file, saved, strayed>>
    BY <1>6 DEF Read, relayHistory
  <2>4. ~strayed => offset' <= Len(file)
    BY <2>1, <2>2, <2>3 DEF OffsetsInOrder
  <2>5. at' = "save" => offset' <= MaxBytes
    BY <1>1, <2>1, <2>2, <2>3
  <2>6. at' \in {"truncate", "save"}
    BY <2>3
  <2>7. QED
    BY <2>3, <2>4, <2>5, <2>6 DEF OffsetsInOrder
<1>7. CASE Truncate
  BY <1>1, <1>7 DEF OffsetsInOrder, Truncate
<1>8. CASE Save
  <2>1. at' \in {"down", "sleep"} /\ at = "save" /\ saved' = offset /\ UNCHANGED <<file, offset, strayed>>
    BY <1>8 DEF Save
  <2>2. QED
    BY <2>1 DEF OffsetsInOrder
<1>9. CASE Crash
  <2>1. /\ at # "down" /\ at' = "down" /\ saved' = saved /\ UNCHANGED <<file, offset>>
        /\ ~strayed' => ~strayed /\ ~(offset < saved)
    BY <1>9 DEF Crash
  <2>2. ~strayed' => saved <= Len(file)
    BY <1>1, <2>1 DEF OffsetsInOrder
  <2>3. saved <= MaxBytes
    BY DEF OffsetsInOrder
  <2>4. QED
    BY <2>1, <2>2, <2>3 DEF OffsetsInOrder
<1>10. CASE Restart
  BY <1>10 DEF OffsetsInOrder, Restart, relayHistory
<1>11. QED
  BY <1>2, <1>3, <1>4, <1>5, <1>6, <1>7, <1>8, <1>9, <1>10 DEF RelayNext, Poll

LEMMA LinesEndStep ==
  ASSUME RelayAssumption, RelayTypeOK, FileTail, LinesEnd, RelayNext
  PROVE  LinesEnd'
<1>1. CASE Read
  <2> DEFINE text == partial \o Gained
             full == CompleteLines(text)
  <2>1. /\ text \in Seq(Bytes) /\ full \in Seq(Seq(Bytes)) /\ partial' = Tail1(text)
        /\ stdout' = stdout \o full
    BY <1>1, ReadCuts
  <2>2. Bytes \subseteq Int /\ stdout \in Seq(Seq(Bytes))
    BY DEF Bytes, RelayTypeOK, RelayAssumption
  <2> HIDE DEF text
  <2>3. LineEnds(full) /\ NoEnd(Tail1(text))
    BY <2>1, <2>2, LinesShape DEF LineEnds, NoEnd
  <2> HIDE DEF full
  <2>4. \A j \in DOMAIN stdout' : \/ j \in DOMAIN stdout /\ stdout'[j] = stdout[j]
                                  \/ \E m \in DOMAIN full : stdout'[j] = full[m]
    BY <2>1, <2>2, JoinPlaces
  <2>5. LineEnds(stdout')
    BY <2>3, <2>4 DEF LinesEnd, LineEnds
  <2>6. QED
    BY <2>1, <2>3, <2>5 DEF LinesEnd
<1>2. CASE Restart
  BY <1>2 DEF LinesEnd, NoEnd, Restart
<1>3. CASE ~Read /\ ~Restart
  <2>1. UNCHANGED <<stdout, partial>>
    BY <1>3 DEF RelayNext, Poll, Append1, Empty, AskedToStop, Stat, Truncate, Save, Crash, relay
  <2>2. QED
    BY <2>1 DEF LinesEnd
<1>4. QED
  BY <1>1, <1>2, <1>3

-----------------------------------------------------------------------------
(* How far the relay has come                                               *)

LEMMA ReachBounds ==
  ASSUME RelayAssumption, RelayTypeOK, FileTail, NEW o \in Nat
  PROVE  /\ Reach(o) \in Nat /\ Reach(o) <= written /\ Gone \in Nat /\ Len(file) \in Nat
         /\ written \in Nat /\ Gone + Len(file) = written
<1>1. Len(file) \in Nat /\ written \in Nat /\ Len(file) <= written
  BY DEF RelayTypeOK, RelayAssumption, FileTail
<1>2. Gone \in Nat /\ Gone + Len(file) = written
  BY <1>1 DEF Gone
<1> HIDE DEF Gone
<1>3. CASE o > Len(file)
  BY <1>1, <1>2, <1>3 DEF Reach
<1>4. CASE ~(o > Len(file))
  BY <1>1, <1>2, <1>4 DEF Reach
<1>5. QED
  BY <1>1, <1>2, <1>3, <1>4

(* No step but a restart takes a place back.                                *)
LEMMA ReachGrows ==
  ASSUME RelayAssumption, RelayTypeOK, FileTail, RelayNext, NEW o \in Nat
  PROVE  /\ Reach(o) <= Reach(o)'
         /\ file' = file => Reach(o) = Reach(o)'
         /\ file' = <<>> => Reach(o)' = written
<1>1. /\ Reach(o) \in Nat /\ Reach(o) <= written /\ Gone \in Nat /\ Len(file) \in Nat
      /\ written \in Nat /\ Gone + Len(file) = written
  BY ReachBounds
<1>2. CASE Append1
  <2>1. Len(file') = Len(file) + 1 /\ written' = written + 1
    BY <1>2 DEF Append1, RelayTypeOK
  <2>2. Gone' = Gone
    BY <1>1, <2>1 DEF Gone
  <2>3. file' # file
    BY <1>1, <2>1
  <2>4. file' # <<>>
    BY <1>1, <2>1
  <2>5. Reach(o)' = Gone + (IF o > Len(file) + 1 THEN 0 ELSE o)
    BY <2>1, <2>2 DEF Reach
  <2>6. Reach(o) <= Reach(o)'
    BY <1>1, <2>5 DEF Reach
  <2>7. QED
    BY <2>3, <2>4, <2>6
<1>3. CASE ~Append1
  <2>1. written' = written /\ (file' = file \/ file' = <<>>)
    BY <1>3 DEF RelayNext, Poll, Empty, AskedToStop, Stat, Read, Truncate, Save, Crash, Restart
  <2>2. file' = file => Reach(o)' = Reach(o)
    BY <2>1 DEF Reach, Gone
  <2>3. ASSUME file' = <<>>
        PROVE  Reach(o)' = written
    <3>1. Len(file') = 0 /\ Gone' = written
      BY <1>1, <2>1, <2>3 DEF Gone
    <3>2. (IF o > Len(file') THEN 0 ELSE o) = 0
      BY <3>1
    <3>3. Reach(o)' = written + 0
      BY <3>1, <3>2 DEF Reach
    <3>4. QED
      BY <1>1, <3>3
  <2>4. QED
    BY <1>1, <2>1, <2>2, <2>3
<1>4. QED
  BY <1>2, <1>3

(* A read brings the relay forward, by what it gains.                       *)
LEMMA ReadReaches ==
  ASSUME RelayAssumption, RelayTypeOK, FileTail, Read
  PROVE  /\ Reach(offset)' \in Nat /\ Reach(offset) <= Reach(offset)'
         /\ ToSet(Gained) = (Reach(offset) + 1)..Reach(offset)'
<1>1. /\ Reach(offset) \in Nat /\ Reach(offset) <= written /\ Gone \in Nat /\ Len(file) \in Nat
      /\ offset \in Nat
  BY ReachBounds DEF RelayTypeOK
<1>2. /\ offset' = offset + Len(Gained) /\ Len(Gained) \in Nat
      /\ offset <= Len(file) => offset + Len(Gained) <= Len(file)
      /\ offset > Len(file) => Len(Gained) = 0
      /\ ToSet(Gained) = (Gone + offset + 1)..(Gone + offset + Len(Gained))
  BY ReadCuts, GainedBytes
<1>3. Gone' = Gone /\ Len(file') = Len(file)
  BY DEF Gone, Read
<1>4. Reach(offset)' = Gone + (IF offset' > Len(file) THEN 0 ELSE offset')
  BY <1>3 DEF Reach
<1>5. Reach(offset) = Gone + (IF offset > Len(file) THEN 0 ELSE offset)
  BY DEF Reach
<1> HIDE DEF Gone, Reach
<1>6. CASE offset <= Len(file)
  <2>1. Reach(offset) = Gone + offset /\ Reach(offset)' = Gone + offset + Len(Gained)
    BY <1>1, <1>2, <1>4, <1>5, <1>6
  <2>2. QED
    BY <1>1, <1>2, <2>1
<1>7. CASE offset > Len(file)
  <2>1. Len(Gained) = 0 /\ Reach(offset) = Gone /\ Reach(offset)' = Gone
    BY <1>1, <1>2, <1>4, <1>5, <1>7
  <2>2. ToSet(Gained) = {}
    BY <1>1, <1>2, <2>1
  <2>3. (Reach(offset) + 1)..Reach(offset)' = {}
    BY <1>1, <2>1
  <2>4. QED
    BY <1>1, <2>1, <2>2, <2>3
<1>8. QED
  BY <1>1, <1>6, <1>7

LEMMA BytesTyped ==
  ASSUME RelayAssumption, RelayTypeOK
  PROVE  Relayed \subseteq Bytes /\ Kept \subseteq Bytes /\ Bytes \subseteq Nat \ {0} /\ Bytes \subseteq Int
<1>1. Bytes \subseteq Nat \ {0} /\ Bytes \subseteq Int
  BY DEF Bytes, RelayAssumption
<1>2. \A a \in DOMAIN partial : partial[a] \in Bytes
  BY DEF RelayTypeOK
<1>3. \A i \in DOMAIN stdout : stdout[i] \in Seq(Bytes)
  BY DEF RelayTypeOK
<1>4. \A i \in DOMAIN stdout : \A a \in DOMAIN stdout[i] : stdout[i][a] \in Bytes
  BY <1>3
<1>5. QED
  BY <1>1, <1>2, <1>4 DEF Relayed, Kept, ToSet

(* The place that the relay has in memory, or on its volume, over a step    *)
(* that leaves it alone.                                                    *)
LEMMA PlacesStay ==
  ASSUME RelayAssumption, RelayTypeOK, FileTail, RelayNext
  PROVE  /\ offset' = offset => Reach(offset) <= Reach(offset)'
         /\ saved' = saved => Reach(saved) <= Reach(saved)'
         /\ file' = file /\ offset' = offset => Reach(offset)' = Reach(offset)
         /\ file' = file /\ saved' = saved => Reach(saved)' = Reach(saved)
         /\ file' = file /\ saved' = offset => Reach(saved)' = Reach(offset)
         /\ file' = file /\ offset' = saved => Reach(offset)' = Reach(saved)
<1>1. PICK o \in Nat : o = offset
  BY DEF RelayTypeOK
<1>2. PICK s \in Nat : s = saved
  BY DEF RelayTypeOK
<1>3. Reach(o) <= Reach(o)' /\ Reach(s) <= Reach(s)'
  BY ReachGrows
<1>4. file' = file => Reach(o)' = Reach(o) /\ Reach(s)' = Reach(s)
  BY ReachGrows
<1>5. Reach(offset) = Reach(o) /\ Reach(saved) = Reach(s)
  BY <1>1, <1>2
<1>6. (offset' = o => Reach(offset)' = Reach(o)') /\ (saved' = s => Reach(saved)' = Reach(s)')
  BY DEF Reach
<1>7. (saved' = o => Reach(saved)' = Reach(o)') /\ (offset' = s => Reach(offset)' = Reach(s)')
  BY DEF Reach
<1>8. QED
  BY <1>1, <1>2, <1>3, <1>4, <1>5, <1>6, <1>7

(* Lines stay in order, and no byte is read again.                          *)
LEMMA ReadOnceStep ==
  ASSUME RelayAssumption, RelayTypeOK, FileTail, OffsetsInOrder, RelayNext,
         ~replayed => ReadOnce, ~replayed'
  PROVE  ReadOnce'
<1>1. ~replayed
  BY DEF RelayNext, Poll, Append1, Empty, AskedToStop, Stat, Read, Truncate, Save, Crash, Restart,
     relayHistory
<1>2. /\ Ordered(stdout) /\ Rising(partial) /\ \A x \in Relayed, y \in Kept : x < y
      /\ \A x \in Relayed \union Kept :
           /\ at # "down" => x <= Reach(offset)
           /\ at \in {"sleep", "read", "down"} => x <= Reach(saved)
  BY <1>1 DEF ReadOnce
<1>3. /\ Relayed \union Kept \subseteq Int /\ Reach(offset) \in Nat /\ Reach(saved) \in Nat
      /\ Reach(offset) <= written /\ written \in Nat /\ offset \in Nat /\ saved \in Nat
  <2>1. offset \in Nat /\ saved \in Nat
    BY DEF RelayTypeOK
  <2>2. QED
    BY <2>1, BytesTyped, ReachBounds
<1>4. Reach(offset)' \in Nat /\ Reach(saved)' \in Nat
  <2>1. RelayTypeOK' /\ FileTail'
    BY RelayTypesStep
  <2>2. Gone' \in Nat /\ offset' \in Nat /\ saved' \in Nat
    <3>1. Len(file') \in Nat /\ written' \in Nat /\ Len(file') <= written' /\ offset' \in Nat /\ saved' \in Nat
      BY <2>1 DEF RelayTypeOK, FileTail, RelayAssumption
    <3>2. QED
      BY <3>1 DEF Gone
  <2>3. PICK g \in Nat : g = Gone'
    BY <2>2
  <2>4. PICK l \in Nat : l = Len(file')
    BY <2>1 DEF RelayTypeOK
  <2>5. PICK o \in Nat : o = offset'
    BY <2>2
  <2>6. PICK s \in Nat : s = saved'
    BY <2>2
  <2>7. /\ g + (IF o > l THEN 0 ELSE o) \in Nat
        /\ g + (IF s > l THEN 0 ELSE s) \in Nat
    OBVIOUS
  <2>8. Reach(offset)' = g + (IF o > l THEN 0 ELSE o)
    BY <2>3, <2>4, <2>5 DEF Reach
  <2>9. Reach(saved)' = g + (IF s > l THEN 0 ELSE s)
    BY <2>3, <2>4, <2>6 DEF Reach
  <2>10. QED
    BY <2>7, <2>8, <2>9
<1>5. ASSUME UNCHANGED <<stdout, partial>>,
             \A x \in Relayed \union Kept :
               /\ at' # "down" => x <= Reach(offset)'
               /\ at' \in {"sleep", "read", "down"} => x <= Reach(saved)'
      PROVE  ReadOnce'
  <2>1. Relayed' = Relayed /\ Kept' = Kept
    BY <1>5 DEF Relayed, Kept
  <2>2. QED
    BY <1>2, <1>5, <2>1 DEF ReadOnce
<1>6. CASE Append1 \/ Empty \/ AskedToStop
  <2>1. UNCHANGED <<stdout, partial, at, offset, saved>>
    BY <1>6 DEF Append1, Empty, AskedToStop, relay
  <2>2. Reach(offset) <= Reach(offset)' /\ Reach(saved) <= Reach(saved)'
    BY <2>1, PlacesStay
  <2>3. ASSUME NEW x \in Relayed \union Kept
        PROVE  /\ at' # "down" => x <= Reach(offset)'
               /\ at' \in {"sleep", "read", "down"} => x <= Reach(saved)'
    <3>1. x \in Int
      BY <1>3
    <3>2. at' # "down" => x <= Reach(offset)'
      BY <1>2, <1>3, <1>4, <2>1, <2>2, <3>1
    <3>3. at' \in {"sleep", "read", "down"} => x <= Reach(saved)'
      BY <1>2, <1>3, <1>4, <2>1, <2>2, <3>1
    <3>4. QED
      BY <3>2, <3>3
  <2>4. QED
    BY <1>5, <2>1, <2>3
<1>7. CASE Stat
  <2>1. /\ UNCHANGED <<stdout, partial, saved, file, written>> /\ at = "sleep"
        /\ offset' = IF Len(file) < offset THEN 0 ELSE offset
    BY <1>7 DEF Stat
  <2>2. Reach(saved)' = Reach(saved)
    BY <2>1, PlacesStay
  <2>3. Reach(offset)' = Reach(offset)
    <3>1. Len(file) \in Nat
      BY DEF RelayTypeOK
    <3>2. Reach(offset)' = Gone + (IF offset' > Len(file) THEN 0 ELSE offset')
      BY <2>1 DEF Reach, Gone
    <3>3. (IF offset' > Len(file) THEN 0 ELSE offset') = (IF offset > Len(file) THEN 0 ELSE offset)
      BY <1>3, <2>1, <3>1
    <3>4. QED
      BY <3>2, <3>3 DEF Reach
  <2>4. QED
    BY <1>2, <1>5, <2>1, <2>2, <2>3
<1>8. CASE Read
  <2> DEFINE text == partial \o Gained
             full == CompleteLines(text)
  <2>1. /\ text \in Seq(Bytes) /\ full \in Seq(Seq(Bytes)) /\ partial' = Tail1(text)
        /\ stdout' = stdout \o full /\ Kept \union ToSet(Gained) = BytesOf(full) \union Kept'
        /\ Relayed' = Relayed \union BytesOf(full)
    BY <1>8, ReadCuts
  <2>2. /\ Reach(offset) <= Reach(offset)' /\ ToSet(Gained) = (Reach(offset) + 1)..Reach(offset)'
        /\ Rising(Gained) /\ Gained \in Seq(Bytes)
    BY <1>8, ReadReaches, GainedBytes
  <2>3. Bytes \subseteq Int /\ partial \in Seq(Bytes) /\ stdout \in Seq(Seq(Bytes))
    BY BytesTyped DEF RelayTypeOK
  <2>4. \A x \in Relayed \union Kept, y \in ToSet(Gained) : x < y
    <3>1. at # "down"
      BY <1>8 DEF Read
    <3>2. ASSUME NEW x \in Relayed \union Kept, NEW y \in ToSet(Gained)
          PROVE  x < y
      <4>1. x \in Int /\ x <= Reach(offset)
        BY <1>2, <1>3, <3>1
      <4>2. y \in Int /\ Reach(offset) < y
        BY <1>3, <1>4, <2>2
      <4>3. QED
        BY <1>3, <4>1, <4>2
    <3>3. QED
      BY <3>2
  <2>5. Rising(text)
    <3>1. \A x \in ToSet(partial), y \in ToSet(Gained) : x < y
      BY <2>4 DEF Kept
    <3>2. QED
      BY <1>2, <2>2, <2>3, <3>1, JoinText
  <2> HIDE DEF text
  <2>6. /\ Ordered(full) /\ Rising(partial')
        /\ \A x \in BytesOf(full), y \in Kept' : x < y
    BY <2>1, <2>3, <2>5, CutInOrder DEF Kept
  <2> HIDE DEF full
  <2>7. \A x \in Relayed, y \in BytesOf(full) \union Kept' : x < y
    BY <1>2, <2>1, <2>4
  <2>8. Ordered(stdout')
    <3>1. \A x \in BytesOf(stdout), y \in BytesOf(full) : x < y
      BY <2>7, RelayedBytes
    <3>2. QED
      BY <1>2, <2>1, <2>3, <2>6, <3>1, JoinLines
  <2>9. \A x \in Relayed', y \in Kept' : x < y
    BY <2>1, <2>6, <2>7
  <2>10. ASSUME NEW x \in Relayed' \union Kept'
         PROVE  x <= Reach(offset)'
    <3>1. x \in Relayed \union Kept \union ToSet(Gained)
      BY <2>1
    <3>2. CASE x \in ToSet(Gained)
      BY <1>3, <1>4, <2>2, <3>2
    <3>3. CASE x \in Relayed \union Kept
      <4>1. at # "down"
        BY <1>8 DEF Read
      <4>2. x \in Int /\ x <= Reach(offset)
        BY <1>2, <1>3, <3>3, <4>1
      <4>3. QED
        BY <1>3, <1>4, <2>2, <4>2
    <3>4. QED
      BY <3>1, <3>2, <3>3
  <2>11. at' \in {"truncate", "save"}
    BY <1>8 DEF Read
  <2>12. QED
    BY <2>6, <2>8, <2>9, <2>10, <2>11 DEF ReadOnce
<1>9. CASE Truncate
  <2>1. /\ UNCHANGED <<stdout, partial>> /\ at = "truncate" /\ at' = "save" /\ offset' = 0 /\ file' = <<>>
    BY <1>9 DEF Truncate
  <2>2. PICK o \in Nat : o = 0
    OBVIOUS
  <2>3. Reach(o)' = written
    BY <2>1, ReachGrows
  <2>4. Reach(offset)' = written
    BY <2>1, <2>2, <2>3 DEF Reach
  <2>5. \A x \in Relayed \union Kept : x <= written
    BY <1>2, <1>3, <2>1
  <2>6. QED
    BY <1>5, <2>1, <2>4, <2>5
<1>10. CASE Save
  <2>1. /\ UNCHANGED <<stdout, partial, offset, file>> /\ at = "save" /\ saved' = offset
    BY <1>10 DEF Save
  <2>2. Reach(offset)' = Reach(offset) /\ Reach(saved)' = Reach(offset)
    BY <2>1, PlacesStay
  <2>3. QED
    BY <1>2, <1>5, <2>1, <2>2
<1>11. CASE Crash
  <2>1. /\ UNCHANGED <<stdout, partial, offset, file>> /\ at # "down" /\ at' = "down" /\ saved' = saved
        /\ at \in {"truncate", "save"} => offset = saved
    BY <1>11 DEF Crash
  <2>2. Reach(saved)' = Reach(saved)
    BY <2>1, PlacesStay
  <2>3. offset = saved => Reach(offset) = Reach(saved)
    OBVIOUS
  <2>4. at \in {"sleep", "read"} \/ offset = saved
    BY <2>1 DEF RelayTypeOK
  <2>5. \A x \in Relayed \union Kept : x <= Reach(saved)
    BY <1>2, <2>1, <2>3, <2>4
  <2>6. QED
    BY <1>5, <2>1, <2>2, <2>5
<1>12. CASE Restart
  <2>1. /\ UNCHANGED <<stdout, saved, file>> /\ at = "down" /\ at' = "sleep" /\ partial' = <<>>
        /\ offset' = saved
    BY <1>12 DEF Restart
  <2>2. Reach(saved)' = Reach(saved) /\ Reach(offset)' = Reach(saved)
    BY <2>1, PlacesStay
  <2>3. Relayed' = Relayed /\ Kept' = {} /\ Rising(partial')
    BY <2>1 DEF Relayed, Kept, ToSet, Rising
  <2>4. QED
    BY <1>2, <2>1, <2>2, <2>3 DEF ReadOnce
<1>13. QED
  BY <1>6, <1>7, <1>8, <1>9, <1>10, <1>11, <1>12 DEF RelayNext, Poll

(* What the relay has not read, in terms of places.                         *)
LEMMA RestPlaces ==
  ASSUME RelayAssumption, RelayTypeOK, FileTail, NEW o \in Nat
  PROVE  ToSet(Rest(o)) = (Gone + o + 1)..written
<1>1. file \in Seq(Bytes) /\ written \in Nat /\ Len(file) <= written
  BY DEF RelayTypeOK, RelayAssumption, FileTail
<1>2. PICK f \in Seq(Bytes) : f = file
  BY <1>1
<1>3. PICK w \in Nat : w = written
  BY <1>1
<1>4. Len(f) <= w /\ Consecutive(f, w - Len(f))
  BY <1>2, <1>3 DEF FileTail, Gone
<1>5. ToSet(SubSeq(f, o + 1, Len(f))) = (w - Len(f) + o + 1)..w
  BY <1>4, RestBytes
<1>6. QED
  BY <1>2, <1>3, <1>5 DEF Rest, Gone

LEMMA RestPlacesNext ==
  ASSUME RelayAssumption, RelayTypeOK', FileTail', NEW o \in Nat
  PROVE  ToSet(SubSeq(file', o + 1, Len(file'))) = (Gone' + o + 1)..written'
<1>1. file' \in Seq(Bytes) /\ written' \in Nat /\ Len(file') <= written'
  BY DEF RelayTypeOK, RelayAssumption, FileTail
<1>2. PICK f \in Seq(Bytes) : f = file'
  BY <1>1
<1>3. PICK w \in Nat : w = written'
  BY <1>1
<1>4. Len(f) <= w /\ Consecutive(f, w - Len(f))
  BY <1>2, <1>3 DEF FileTail, Gone
<1>5. ToSet(SubSeq(f, o + 1, Len(f))) = (w - Len(f) + o + 1)..w
  BY <1>4, RestBytes
<1>6. QED
  BY <1>2, <1>3, <1>5 DEF Gone

LEMMA Above ==
  ASSUME NEW g \in Nat, NEW k \in Nat, NEW m \in Nat, m > g + k
  PROVE  /\ \A j \in Nat : j <= k => m > g + j
         /\ \A w \in Nat : m <= w => m \in (g + k + 1)..w
  OBVIOUS

(* The end of every line is on stdout, dropped, or not yet read.            *)
LEMMA EndsPlaced ==
  ASSUME RelayAssumption, RelayTypeOK, FileTail, NothingLost, ~strayed,
         NEW n \in 1..written, n % 2 = 0
  PROVE  n \in Relayed \/ n \in dropped \/ n > Gone + Place
<1>1. PICK o \in Nat : o = Place
  BY DEF RelayTypeOK, Place
<1>2. ToSet(Rest(o)) = (Gone + o + 1)..written /\ Gone \in Nat
  BY RestPlaces, ReachBounds
<1>3. n \in Relayed \/ n \in dropped \/ n \in ToSet(Rest(Place))
  BY DEF NothingLost, Place
<1>4. Rest(Place) = Rest(o)
  BY <1>1
<1>5. QED
  BY <1>1, <1>2, <1>3, <1>4

LEMMA EndsPlacedNext ==
  ASSUME RelayAssumption, RelayTypeOK, FileTail, OffsetsInOrder, LinesEnd', NothingLost, RelayNext,
         NEW o \in Nat, o = Place', ~strayed',
         NEW n \in Nat, n \in 1..written', n % 2 = 0, n \notin Relayed', n \notin dropped'
  PROVE  n > Gone' + o
<1>1. /\ Gone \in Nat /\ Len(file) \in Nat /\ written \in Nat /\ Gone + Len(file) = written
      /\ offset \in Nat /\ saved \in Nat /\ Place \in Nat
  BY ReachBounds DEF RelayTypeOK, Place
<1>2. ~strayed
  BY DEF RelayNext, Poll, Append1, Empty, AskedToStop, Stat, Read, Truncate, Save, Crash, Restart,
       relayHistory
<1>3. Place <= Len(file)
  BY <1>2 DEF OffsetsInOrder, Place
<1>4. CASE Append1
  <2>1. /\ UNCHANGED <<stdout, dropped, at, saved, offset>> /\ written' = written + 1
        /\ Len(file') = Len(file) + 1
    BY <1>4 DEF Append1, relay, relayHistory, RelayTypeOK
  <2>2. Gone' = Gone /\ o = Place /\ Relayed' = Relayed
    BY <1>1, <2>1 DEF Gone, Place, Relayed
  <2>3. CASE n \in 1..written
    BY <1>2, <2>1, <2>2, <2>3, EndsPlaced
  <2>4. CASE n = written + 1
    BY <1>1, <1>3, <2>2, <2>4
  <2>5. QED
    BY <1>1, <2>1, <2>3, <2>4
<1>5. CASE Empty
  BY <1>5 DEF Empty
<1>6. CASE AskedToStop \/ Stat
  <2>1. /\ UNCHANGED <<stdout, dropped, saved, file, written>> /\ at # "down" /\ at' # "down"
        /\ offset' = offset
    <3>1. CASE AskedToStop
      BY <3>1 DEF AskedToStop, relayHistory
    <3>2. CASE Stat
      BY <1>1, <1>3, <3>2 DEF Stat, relayHistory, Place
    <3>3. QED
      BY <1>6, <3>1, <3>2
  <2>2. Gone' = Gone /\ o = Place /\ Relayed' = Relayed
    BY <2>1 DEF Gone, Place, Relayed
  <2>3. QED
    BY <1>2, <2>1, <2>2, EndsPlaced
<1>7. CASE Read
  <2> DEFINE text == partial \o Gained
             full == CompleteLines(text)
  <2>1. /\ Kept \union ToSet(Gained) = BytesOf(full) \union Kept' /\ Relayed' = Relayed \union BytesOf(full)
        /\ offset' = offset + Len(Gained)
        /\ ToSet(Gained) = (Gone + offset + 1)..(Gone + offset + Len(Gained)) /\ Len(Gained) \in Nat
    BY <1>7, ReadCuts, GainedBytes
  <2> HIDE DEF full
  <2>2. Gone' = Gone /\ Place = offset /\ o = offset' /\ written' = written /\ dropped' = dropped
    BY <1>7 DEF Gone, Place, Read, relayHistory
  <2>3. n \notin Kept'
    BY DEF LinesEnd, NoEnd, Kept, ToSet
  <2>4. n \notin ToSet(Gained) /\ n \notin Relayed
    BY <2>1, <2>3
  <2>5. n > Gone + Place
    BY <1>2, <2>2, <2>4, EndsPlaced
  <2>6. QED
    BY <1>1, <2>1, <2>2, <2>4, <2>5
<1>8. CASE Truncate
  <2>1. /\ UNCHANGED <<stdout, written>> /\ dropped' = dropped \union ToSet(Rest(offset))
        /\ at = "truncate"
    BY <1>8 DEF Truncate
  <2>2. n \notin Relayed /\ n \notin dropped /\ n \notin ToSet(Rest(offset))
    BY <2>1 DEF Relayed
  <2>3. QED
    BY <1>2, <2>1, <2>2 DEF NothingLost
<1>9. CASE Save \/ Crash \/ Restart
  <2>1. UNCHANGED <<stdout, dropped, file, written>> /\ o <= Place
    <3>1. CASE Save
      BY <1>1, <3>1 DEF Save, Place
    <3>2. CASE Crash
      <4>1. saved <= offset
        <5>1. ~(offset < saved)
          BY <3>2 DEF Crash
        <5>2. QED
          BY <1>1, <5>1
      <4>2. Place = offset /\ Place' = saved /\ UNCHANGED <<stdout, dropped, file, written>>
        BY <3>2 DEF Crash, Place
      <4>3. QED
        BY <1>1, <4>1, <4>2
    <3>3. CASE Restart
      BY <1>1, <3>3 DEF Restart, Place, relayHistory
    <3>4. QED
      BY <1>9, <3>1, <3>2, <3>3
  <2>2. Gone' = Gone /\ Relayed' = Relayed
    BY <2>1 DEF Gone, Relayed
  <2>3. n > Gone + Place
    BY <1>2, <2>1, <2>2, EndsPlaced
  <2>4. n \in Nat
    OBVIOUS
  <2>5. PICK p \in Nat : p = Place
    BY <1>1
  <2>6. PICK g \in Nat : g = Gone
    BY <1>1
  <2>7. n > g + p /\ o <= p
    BY <2>1, <2>3, <2>5, <2>6
  <2>8. n > g + o
    BY <2>4, <2>5, <2>6, <2>7, Above
  <2>9. QED
    BY <2>2, <2>6, <2>8
<1>10. QED
  BY <1>4, <1>5, <1>6, <1>7, <1>8, <1>9 DEF RelayNext, Poll

LEMMA NothingLostStep ==
  ASSUME RelayAssumption, RelayTypeOK, FileTail, OffsetsInOrder, LinesEnd', NothingLost, RelayNext
  PROVE  NothingLost'
<1>1. RelayTypeOK' /\ FileTail'
  BY RelayTypesStep
<1>2. PICK o \in Nat : o = Place'
  BY <1>1 DEF RelayTypeOK, Place
<1>3. ToSet(Rest(Place))' = (Gone' + o + 1)..written'
  <2>1. ToSet(SubSeq(file', o + 1, Len(file'))) = (Gone' + o + 1)..written'
    BY <1>1, RestPlacesNext
  <2>2. QED
    BY <1>2, <2>1 DEF Rest
<1>4. Gone' \in Nat /\ written' \in Nat
  BY <1>1 DEF RelayTypeOK, FileTail, Gone, RelayAssumption
<1>5. ASSUME ~strayed', NEW n \in Nat, n \in 1..written', n % 2 = 0, n \notin Relayed', n \notin dropped'
      PROVE  n \in ToSet(Rest(Place))'
  <2>1. n > Gone' + o
    BY <1>2, <1>5, EndsPlacedNext
  <2>2. n \in (Gone' + o + 1)..written'
    <3>1. PICK g \in Nat : g = Gone'
      BY <1>4
    <3>2. PICK w \in Nat : w = written'
      BY <1>4
    <3>0. n \in 1..w /\ n > g + o
      BY <1>5, <2>1, <3>1, <3>2
    <3>3. n <= w /\ n > g + o
      <4>1. \A m \in Nat, k \in Nat : m \in 1..k => m <= k
        OBVIOUS
      <4>2. QED
        BY <3>0, <3>2, <4>1
    <3>4. n \in (g + o + 1)..w
      BY <1>2, <3>3, Above
    <3>5. QED
      BY <3>1, <3>2, <3>4
  <2>3. QED
    BY <1>3, <2>2
<1>6. 1..written' \subseteq Nat
  BY <1>4
<1>7. QED
  BY <1>5, <1>6 DEF NothingLost, Place

(* As long as no offset is of an earlier content, it counts from Gone.      *)
LEMMA BehindThePlace ==
  ASSUME RelayAssumption, RelayTypeOK, OffsetsInOrder, ~strayed
  PROVE  Behind = Gone + Place /\ Place \in Nat /\ Place <= Len(file)
<1>1. Place \in Nat /\ Place <= Len(file) /\ Len(file) \in Nat
  BY DEF OffsetsInOrder, Place, RelayTypeOK
<1>2. (IF Place > Len(file) THEN 0 ELSE Place) = Place
  BY <1>1
<1>3. QED
  BY <1>1, <1>2 DEF Behind, Reach

LEMMA BehindThePlaceNext ==
  ASSUME RelayAssumption, RelayTypeOK', OffsetsInOrder', ~strayed'
  PROVE  Behind' = Gone' + Place' /\ Place' \in Nat
<1>1. Place' \in Nat /\ Place' <= Len(file') /\ Len(file') \in Nat
  BY DEF OffsetsInOrder, Place, RelayTypeOK
<1>2. (IF Place' > Len(file') THEN 0 ELSE Place') = Place'
  BY <1>1
<1>3. QED
  BY <1>1, <1>2 DEF Behind, Reach

LEMMA Below ==
  ASSUME NEW g \in Nat, NEW k \in Nat, NEW m \in Nat, m <= g + k
  PROVE  /\ \A j \in Nat : k <= j => m <= g + j
         /\ \A w \in Nat : m \notin (g + k + 1)..w
  OBVIOUS

LEMMA AccountedNext ==
  ASSUME RelayAssumption, RelayTypeOK, FileTail, OffsetsInOrder, RelayNext, Accounted,
         ~strayed, ~strayed', NEW x \in Nat \ {0}, x <= Gone' + Place'
  PROVE  x \in Relayed' \/ x \in InMemory' \/ x \in cut' \/ x \in dropped'
<1>1. /\ Gone \in Nat /\ written \in Nat /\ Gone + Len(file) = written /\ Len(file) \in Nat
      /\ offset \in Nat /\ saved \in Nat /\ Place \in Nat /\ Place <= Len(file)
  BY ReachBounds, BehindThePlace DEF RelayTypeOK
<1>2. x <= Gone + Place => x \in Relayed \/ x \in InMemory \/ x \in cut \/ x \in dropped
  <2>1. Behind = Gone + Place
    BY BehindThePlace
  <2>2. ASSUME x <= Gone + Place
        PROVE  x \in 1..(Gone + Place)
    BY <1>1, <2>2
  <2>3. QED
    BY <2>1, <2>2 DEF Accounted
<1>3. CASE Append1
  <2>1. UNCHANGED <<stdout, at, saved, offset, partial, dropped, cut>>
    BY <1>3 DEF Append1, relay, relayHistory
  <2>2. Gone' = Gone
    <3>1. written' = written + 1 /\ Len(file') = Len(file) + 1
      BY <1>3 DEF Append1, RelayTypeOK
    <3>2. QED
      BY <1>1, <3>1 DEF Gone
  <2>3. Relayed' = Relayed /\ InMemory' = InMemory /\ Place' = Place
    BY <2>1 DEF Relayed, InMemory, Kept, Place
  <2>4. QED
    BY <1>2, <2>1, <2>2, <2>3
<1>4. CASE Empty
  BY <1>4 DEF Empty
<1>5. CASE AskedToStop \/ Stat
  <2>1. /\ UNCHANGED <<stdout, saved, partial, file, written, dropped, cut>> /\ at # "down" /\ at' # "down"
        /\ offset' = offset
    <3>1. CASE AskedToStop
      BY <3>1 DEF AskedToStop, relayHistory
    <3>2. CASE Stat
      BY <1>1, <3>2 DEF Stat, relayHistory, Place
    <3>3. QED
      BY <1>5, <3>1, <3>2
  <2>2. Relayed' = Relayed /\ InMemory' = InMemory /\ Place' = Place /\ Gone' = Gone
    BY <2>1 DEF Relayed, InMemory, Kept, Place, Gone
  <2>3. QED
    BY <1>2, <2>1, <2>2
<1>6. CASE Read
  <2> DEFINE full == CompleteLines(partial \o Gained)
  <2>1. /\ Kept \union ToSet(Gained) = BytesOf(full) \union Kept' /\ Relayed' = Relayed \union BytesOf(full)
        /\ offset' = offset + Len(Gained)
        /\ ToSet(Gained) = (Gone + offset + 1)..(Gone + offset + Len(Gained)) /\ Len(Gained) \in Nat
    BY <1>6, ReadCuts, GainedBytes
  <2> HIDE DEF full
  <2>2. /\ Gone' = Gone /\ Place = offset /\ Place' = offset' /\ dropped' = dropped /\ cut' = cut
        /\ InMemory = Kept /\ InMemory' = Kept'
    BY <1>6 DEF Gone, Place, Read, relayHistory, InMemory
  <2>3. x <= Gone + Place \/ x \in ToSet(Gained)
    BY <1>1, <2>1, <2>2
  <2>4. QED
    BY <1>2, <2>1, <2>2, <2>3
<1>7. CASE Truncate
  <2>1. /\ UNCHANGED <<stdout, partial, written, cut>> /\ dropped' = dropped \union ToSet(Rest(offset))
        /\ at = "truncate" /\ at' = "save" /\ offset' = 0 /\ file' = <<>>
    BY <1>7 DEF Truncate
  <2>2. Relayed' = Relayed /\ InMemory' = InMemory /\ Place = offset /\ Place' = 0
    BY <2>1 DEF Relayed, InMemory, Kept, Place
  <2>3. Gone' = written
    <3>1. Len(file') = 0 /\ written' = written
      BY <2>1
    <3>2. QED
      BY <1>1, <3>1 DEF Gone
  <2>4. PICK o \in Nat : o = offset
    BY <1>1
  <2>5. ToSet(Rest(o)) = (Gone + o + 1)..written
    BY RestPlaces
  <2>6. x <= written
    BY <1>1, <2>2, <2>3
  <2>7. x <= Gone + Place \/ x \in (Gone + o + 1)..written
    BY <1>1, <2>2, <2>4, <2>6
  <2>8. x <= Gone + Place \/ x \in ToSet(Rest(offset))
    BY <2>4, <2>5, <2>7
  <2>9. QED
    BY <1>2, <2>1, <2>2, <2>8
<1>8. CASE Save \/ Crash
  <2>1. /\ UNCHANGED <<stdout, partial, file, written, dropped>> /\ saved' \in Nat /\ saved' <= offset
        /\ Place = offset /\ (at' # "down" => cut' = cut) /\ (at' = "down" => cut' = cut \union OnlyHere)
        /\ at # "down" /\ (at' # "down" => Place' = Place) /\ (at' = "down" => Place' = saved')
    <3>1. CASE Save
      <4>1. /\ UNCHANGED <<stdout, partial, file, written, dropped, offset>> /\ saved' = offset /\ at = "save"
            /\ (at' # "down" => cut' = cut) /\ (at' = "down" => cut' = cut \union OnlyHere)
        BY <3>1 DEF Save
      <4>2. QED
        BY <1>1, <4>1 DEF Place
    <3>2. CASE Crash
      <4>1. /\ UNCHANGED <<stdout, partial, file, written, dropped, offset>> /\ saved' = saved
            /\ at # "down" /\ at' = "down" /\ cut' = cut \union OnlyHere
        BY <3>2 DEF Crash
      <4>2. ~(offset < saved)
        BY <3>2 DEF Crash
      <4>3. saved <= offset
        BY <1>1, <4>2
      <4>4. QED
        BY <1>1, <4>1, <4>3 DEF Place
    <3>3. QED
      BY <1>8, <3>1, <3>2
  <2>2. Relayed' = Relayed /\ Kept' = Kept /\ Gone' = Gone /\ InMemory = Kept
    BY <2>1 DEF Relayed, Kept, Gone, InMemory
  <2>3. Place' <= Place /\ Place' \in Nat
    BY <1>1, <2>1
  <2>4. x <= Gone + Place
    <3>1. PICK q \in Nat : q = Place'
      BY <2>3
    <3>2. x <= Gone + q /\ q <= Place /\ x \in Nat
      BY <2>2, <2>3, <3>1
    <3>3. QED
      BY <1>1, <3>2, Below
  <2>5. CASE at' # "down"
    <3>1. InMemory' = Kept
      BY <2>2, <2>5 DEF InMemory
    <3>2. QED
      BY <1>2, <2>1, <2>2, <2>4, <2>5, <3>1
  <2>6. CASE at' = "down"
    <3>1. PICK s \in Nat : s = saved'
      BY <2>1
    <3>2. ToSet(Rest(s)) = (Gone + s + 1)..written
      BY RestPlaces
    <3>3. x <= Gone + s
      BY <2>1, <2>2, <2>6, <3>1
    <3>4. x \notin (Gone + s + 1)..written
      BY <1>1, <3>1, <3>3, Below
    <3>5. x \notin ToSet(Rest(saved'))
      BY <3>1, <3>2, <3>4
    <3>6. x \in Kept => x \in cut'
      BY <2>1, <2>6, <3>5 DEF OnlyHere, Kept
    <3>7. QED
      BY <1>2, <2>1, <2>2, <2>4, <2>6, <3>6
  <2>7. QED
    BY <2>5, <2>6
<1>9. CASE Restart
  <2>1. /\ UNCHANGED <<stdout, file, written, dropped, cut>> /\ at = "down" /\ at' = "sleep" /\ offset' = saved
    BY <1>9 DEF Restart, relayHistory
  <2>2. Relayed' = Relayed /\ InMemory = {} /\ Gone' = Gone /\ Place' = Place
    BY <2>1 DEF Relayed, InMemory, Gone, Place
  <2>3. QED
    BY <1>2, <2>1, <2>2
<1>10. QED
  BY <1>3, <1>4, <1>5, <1>6, <1>7, <1>8, <1>9 DEF RelayNext, Poll

LEMMA AccountedStep ==
  ASSUME RelayAssumption, RelayTypeOK, FileTail, OffsetsInOrder, RelayNext,
         ~replayed /\ ~strayed => Accounted, ~replayed', ~strayed'
  PROVE  Accounted'
<1>1. ~replayed /\ ~strayed
  <2>1. ~replayed
    BY DEF RelayNext, Poll, Append1, Empty, AskedToStop, Stat, Read, Truncate, Save, Crash, Restart,
       relayHistory
  <2>2. ~strayed
    BY DEF RelayNext, Poll, Append1, Empty, AskedToStop, Stat, Read, Truncate, Save, Crash, Restart,
       relayHistory
  <2>3. QED
    BY <2>1, <2>2
<1>2. RelayTypeOK' /\ FileTail' /\ OffsetsInOrder'
  BY RelayTypesStep, OffsetsStep
<1>3. Behind' = Gone' + Place' /\ Place' \in Nat
  BY <1>2, BehindThePlaceNext
<1>4. Gone' \in Nat
  BY <1>2 DEF RelayTypeOK, FileTail, Gone, RelayAssumption
<1>5. ASSUME NEW x \in 1..Behind'
      PROVE  x \in Relayed' \/ x \in InMemory' \/ x \in cut' \/ x \in dropped'
  <2>1. x \in Nat \ {0} /\ x <= Gone' + Place'
    <3>1. PICK g \in Nat : g = Gone'
      BY <1>4
    <3>2. PICK p \in Nat : p = Place'
      BY <1>3
    <3>3. x \in 1..(g + p)
      BY <1>3, <3>1, <3>2
    <3>4. \A m \in 1..(g + p) : m \in Nat \ {0} /\ m <= g + p
      OBVIOUS
    <3>5. QED
      BY <3>1, <3>2, <3>3, <3>4
  <2>2. QED
    BY <1>1, <2>1, AccountedNext
<1>6. QED
  BY <1>5 DEF Accounted

(* Wide lines                                                               *)

(* Until the relay loses its place, no step takes it back.                  *)
LEMMA BehindGrows ==
  ASSUME RelayAssumption, RelayTypeOK, FileTail, OffsetsInOrder, RelayNext, ~replayed', ~strayed'
  PROVE  Behind <= Behind'
<1>1. ~strayed /\ ~replayed
  <2>1. ~replayed
    BY DEF RelayNext, Poll, Append1, Empty, AskedToStop, Stat, Read, Truncate, Save, Crash, Restart,
       relayHistory
  <2>2. ~strayed
    BY DEF RelayNext, Poll, Append1, Empty, AskedToStop, Stat, Read, Truncate, Save, Crash, Restart,
       relayHistory
  <2>3. QED
    BY <2>1, <2>2
<1>2. /\ offset' = offset => Reach(offset) <= Reach(offset)'
      /\ saved' = saved => Reach(saved) <= Reach(saved)'
      /\ file' = file /\ saved' = saved => Reach(saved)' = Reach(saved)
      /\ file' = file /\ saved' = offset => Reach(saved)' = Reach(offset)
      /\ file' = file /\ offset' = saved => Reach(offset)' = Reach(saved)
  BY PlacesStay
<1>3. PICK o \in Nat : o = offset
  BY DEF RelayTypeOK
<1>4. PICK s \in Nat : s = saved
  BY DEF RelayTypeOK
<1>5. Reach(o) \in Nat /\ Reach(s) \in Nat /\ Reach(o) <= written
  BY ReachBounds
<1>6. Behind = (IF at = "down" THEN Reach(s) ELSE Reach(o))
  BY <1>3, <1>4 DEF Behind, Place
<1>7. Behind' = (IF at' = "down" THEN Reach(saved)' ELSE Reach(offset)')
  BY DEF Behind, Place, Reach
<1>8. Reach(o) = Reach(offset) /\ Reach(s) = Reach(saved)
  BY <1>3, <1>4
<1> HIDE DEF Reach, Behind
<1>9. CASE Append1 \/ AskedToStop
  <2>1. UNCHANGED <<at, offset, saved>>
    BY <1>9 DEF Append1, AskedToStop, relay
  <2>2. QED
    BY <1>2, <1>6, <1>7, <1>8, <2>1
<1>10. CASE Empty
  BY <1>10 DEF Empty
<1>11. CASE Stat
  <2>1. offset <= Len(file) /\ Len(file) \in Nat /\ at = "sleep" /\ at' # "down"
    BY <1>1, <1>11 DEF Stat, OffsetsInOrder, RelayTypeOK
  <2>2. offset' = offset
    BY <1>3, <1>11, <2>1 DEF Stat
  <2>3. QED
    BY <1>2, <1>6, <1>7, <1>8, <2>1, <2>2
<1>12. CASE Read
  <2>1. at = "read" /\ at' # "down"
    BY <1>12 DEF Read
  <2>2. QED
    BY <1>6, <1>7, <1>8, <1>12, <2>1, ReadReaches
<1>13. CASE Truncate
  <2>1. at = "truncate" /\ at' = "save" /\ file' = <<>> /\ offset' = 0
    BY <1>13 DEF Truncate
  <2>2. Reach(0)' = written
    BY <2>1, ReachGrows
  <2>3. Reach(offset)' = Reach(0)'
    BY <2>1 DEF Reach
  <2>4. QED
    BY <1>5, <1>6, <1>7, <2>1, <2>2, <2>3
<1>14. CASE Save
  <2>1. at = "save" /\ file' = file /\ offset' = offset /\ saved' = offset
    BY <1>14 DEF Save
  <2>2. QED
    BY <1>2, <1>5, <1>6, <1>7, <1>8, <2>1
<1>15. CASE Crash
  <2>1. at # "down" /\ at' = "down" /\ file' = file /\ saved' = saved
    BY <1>15 DEF Crash
  <2>2. ~(at \in {"truncate", "save"} /\ offset # saved)
    BY <1>15 DEF Crash
  <2>3. offset = saved
    BY <1>1, <2>1, <2>2 DEF OffsetsInOrder, RelayTypeOK
  <2>4. QED
    BY <1>2, <1>3, <1>4, <1>5, <1>6, <1>7, <1>8, <2>1, <2>3
<1>16. CASE Restart
  <2>1. at = "down" /\ at' = "sleep" /\ file' = file /\ offset' = saved
    BY <1>16 DEF Restart
  <2>2. QED
    BY <1>2, <1>5, <1>6, <1>7, <1>8, <2>1
<1>17. QED
  BY <1>9, <1>10, <1>11, <1>12, <1>13, <1>14, <1>15, <1>16 DEF RelayNext, Poll

LEMMA HalvesStep ==
  ASSUME RelayAssumption, RelayOrderly, RelayNext, ~replayed', ~strayed'
  PROVE  HalvesInOrder'
<1>1. ~strayed /\ ~replayed
  <2>1. ~replayed
    BY DEF RelayNext, Poll, Append1, Empty, AskedToStop, Stat, Read, Truncate, Save, Crash, Restart,
       relayHistory
  <2>2. ~strayed
    BY DEF RelayNext, Poll, Append1, Empty, AskedToStop, Stat, Read, Truncate, Save, Crash, Restart,
       relayHistory
  <2>3. QED
    BY <2>1, <2>2
<1>2. RelayTypeOK /\ FileTail /\ OffsetsInOrder /\ Accounted /\ HalvesInOrder
  BY <1>1 DEF RelayOrderly
<1>3. Wide \subseteq Nat \ {0} /\ \A n \in Wide : 2 * n - 1 \in Nat \ {0} /\ 2 * n \in Nat
  BY DEF RelayAssumption
<1>4. PICK B \in Nat : B = Behind
  <2>1. Behind = Gone + Place /\ Place \in Nat
    BY <1>1, <1>2, BehindThePlace
  <2>2. Gone \in Nat
    BY <1>2, ReachBounds
  <2>3. QED
    BY <2>1, <2>2
<1>5. PICK C \in Nat : C = Behind'
  <2>1. RelayTypeOK' /\ FileTail' /\ OffsetsInOrder'
    BY <1>2, RelayTypesStep, OffsetsStep
  <2>2. Behind' = Gone' + Place' /\ Place' \in Nat
    BY <2>1, BehindThePlaceNext
  <2>3. Gone' \in Nat
    BY <2>1 DEF RelayTypeOK, FileTail, Gone, RelayAssumption
  <2>4. \A g, q \in Nat : g + q \in Nat
    OBVIOUS
  <2>5. Gone' + Place' \in Nat
    BY <2>2, <2>3, <2>4
  <2>6. QED
    BY <2>2, <2>5
<1>6. B <= C
  BY <1>2, <1>4, <1>5, BehindGrows
<1>7. \A n \in Wide : 2 * n - 1 \in Relayed \union InMemory /\ 2 * n > B => n \in halved
  BY <1>2, <1>4 DEF HalvesInOrder
<1>8. \A b \in garbled : \/ \E n \in halved : b = 2 * n - 1 \/ b = 2 * n
                         \/ b - 1 \in cut \union dropped
  BY <1>2 DEF HalvesInOrder
<1>9. cut \subseteq cut' /\ dropped \subseteq dropped'
  BY DEF RelayNext, Poll, Append1, Empty, AskedToStop, Stat, Read, Truncate, Save, Crash, Restart,
     relayHistory
<1> HIDE DEF Behind
<1>10. CASE ~Read
  <2>1. UNCHANGED <<garbled, halved>> /\ Relayed' = Relayed
    BY <1>10 DEF RelayNext, Poll, Append1, Empty, AskedToStop, Stat, Truncate, Save, Crash, Restart,
       relayHistory, decoded, Relayed
  <2>2. InMemory' \subseteq InMemory
    <3>1. CASE Restart
      <4>1. ToSet(<<>>) = {}
        BY DEF ToSet
      <4>2. QED
        BY <3>1, <4>1 DEF Restart, InMemory, Kept
    <3>2. CASE ~Restart
      <4>1. partial' = partial /\ (at = "down" => at' = "down")
        BY <1>10, <3>2 DEF RelayNext, Poll, Append1, Empty, AskedToStop, Stat, Truncate, Save, Crash,
           relay
      <4>2. QED
        BY <4>1 DEF InMemory, Kept
    <3>3. QED
      BY <3>1, <3>2
  <2>3. \A n \in Wide : 2 * n - 1 \in Relayed' \union InMemory' /\ 2 * n > C => n \in halved'
    <3>1. ASSUME NEW n \in Wide, 2 * n - 1 \in Relayed' \union InMemory', 2 * n > C
          PROVE  n \in halved'
      <4>1. 2 * n > B
        BY <1>3, <1>6, <3>1
      <4>2. 2 * n - 1 \in Relayed \union InMemory
        BY <2>1, <2>2, <3>1
      <4>3. QED
        BY <1>7, <2>1, <4>1, <4>2
    <3>2. QED
      BY <3>1
  <2>4. QED
    BY <1>5, <1>8, <1>9, <2>1, <2>3 DEF HalvesInOrder
<1>11. CASE Read
  <2> DEFINE got == ToSet(Gained)
  <2>1. at = "read" /\ at' # "down" /\ Decode(Gained)
    BY <1>11 DEF Read
  <2>2. B = Reach(offset) /\ C = Reach(offset)'
    BY <1>4, <1>5, <2>1 DEF Behind, Place, Reach
  <2>3. got = (B + 1)..C
    BY <1>2, <1>11, <2>2, ReadReaches
  <2>4. InMemory = Kept /\ InMemory' = Kept'
    BY <2>1 DEF InMemory
  <2>5. Relayed' \union InMemory' \subseteq Relayed \union InMemory \union got
    BY <1>2, <1>11, <2>4, ReadCuts
  <2> HIDE DEF got
  <2>6. /\ garbled' = (garbled \ got) \union {b \in got : \E n \in Wide : {2 * n - 1, 2 * n} \cap got = {b}}
        /\ halved' = halved \union {n \in Wide : 2 * n - 1 \in got /\ 2 * n \notin got}
    BY <2>1 DEF Decode, got
  <2>7. ASSUME NEW n \in Wide, 2 * n - 1 \in Relayed' \union InMemory', 2 * n > C
        PROVE  n \in halved'
    <3>1. CASE 2 * n - 1 \in Relayed \union InMemory
      <4>1. 2 * n > B
        BY <1>3, <1>6, <2>7
      <4>2. QED
        BY <1>7, <2>6, <3>1, <4>1
    <3>2. CASE 2 * n - 1 \in got
      <4>1. 2 * n \notin got
        BY <1>3, <2>3, <2>7
      <4>2. QED
        BY <2>6, <3>2, <4>1
    <3>3. QED
      BY <2>5, <2>7, <3>1, <3>2
  <2>8. ASSUME NEW n \in Wide, 2 * n \in got, 2 * n - 1 \notin got
        PROVE  n \in halved \/ 2 * n - 1 \in cut \union dropped
    <3>1. 2 * n - 1 \in 1..B /\ 2 * n > B
      BY <1>3, <2>3, <2>8
    <3>2. 2 * n - 1 \in Relayed \union InMemory \union cut \union dropped
      BY <1>2, <1>4, <3>1 DEF Accounted
    <3>3. QED
      BY <1>7, <3>1, <3>2
  <2>9. ASSUME NEW b \in garbled'
        PROVE  \/ \E n \in halved' : b = 2 * n - 1 \/ b = 2 * n
               \/ b - 1 \in cut' \union dropped'
    <3>1. CASE b \in garbled
      BY <1>8, <1>9, <2>6, <3>1
    <3>2. CASE b \notin garbled
      <4>1. PICK n \in Wide : b \in got /\ {2 * n - 1, 2 * n} \cap got = {b}
        BY <2>6, <2>9, <3>2
      <4>2. CASE b = 2 * n - 1
        <5>1. 2 * n \notin got
          BY <1>3, <4>1, <4>2
        <5>2. QED
          BY <2>6, <4>1, <4>2, <5>1
      <4>3. CASE b = 2 * n
        <5>1. 2 * n - 1 \notin got
          BY <1>3, <4>1, <4>3
        <5>2. n \in halved \/ b - 1 \in cut \union dropped
          BY <2>8, <4>1, <4>3, <5>1
        <5>3. QED
          BY <1>9, <2>6, <4>3, <5>2
      <4>4. QED
        BY <4>1, <4>2, <4>3
    <3>3. QED
      BY <3>1, <3>2
  <2>10. QED
    BY <1>5, <2>7, <2>9 DEF HalvesInOrder
<1>12. QED
  BY <1>10, <1>11

LEMMA RelayOrderlyStep ==
  ASSUME RelayAssumption, RelayOrderly, [RelayNext]_relayVars
  PROVE  RelayOrderly'
<1>1. /\ RelayTypeOK /\ FileTail /\ OffsetsInOrder /\ LinesEnd /\ NothingLost
      /\ ~replayed => ReadOnce
      /\ ~replayed /\ ~strayed => Accounted /\ HalvesInOrder
  BY DEF RelayOrderly
<1>2. CASE RelayNext
  <2>1. RelayTypeOK' /\ FileTail'
    BY <1>1, <1>2, RelayTypesStep
  <2>2. OffsetsInOrder'
    BY <1>1, <1>2, OffsetsStep
  <2>3. LinesEnd'
    BY <1>1, <1>2, LinesEndStep
  <2>4. NothingLost'
    BY <1>1, <1>2, <2>3, NothingLostStep
  <2>5. ~replayed' => ReadOnce'
    BY <1>1, <1>2, ReadOnceStep
  <2>6. ~replayed' /\ ~strayed' => Accounted'
    BY <1>1, <1>2, AccountedStep
  <2>7. ~replayed' /\ ~strayed' => HalvesInOrder'
    BY <1>2, HalvesStep
  <2>8. QED
    BY <2>1, <2>2, <2>3, <2>4, <2>5, <2>6, <2>7 DEF RelayOrderly
<1>3. CASE UNCHANGED relayVars
  <2>1. UNCHANGED <<file, written, at, sigterm, size, offset, partial, saved, stdout,
                    garbled, halved, replayed, strayed, dropped, cut>>
    BY <1>3 DEF relayVars, relay, decoded, relayHistory
  <2>2. RelayTypeOK' /\ FileTail' /\ OffsetsInOrder' /\ LinesEnd'
    BY <1>1, <2>1 DEF RelayTypeOK, FileTail, Gone, OffsetsInOrder, LinesEnd
  <2>3. Relayed' = Relayed /\ Kept' = Kept /\ Gone' = Gone
    BY <2>1 DEF Relayed, Kept, Gone
  <2>4. NothingLost'
    BY <1>1, <2>1, <2>3 DEF NothingLost, Rest
  <2>5. Reach(offset)' = Reach(offset) /\ Reach(saved)' = Reach(saved)
    BY <2>1, <2>3 DEF Reach
  <2>6. ~replayed' => ReadOnce'
    BY <1>1, <2>1, <2>3, <2>5 DEF ReadOnce
  <2>7. InMemory' = InMemory /\ Behind' = Behind
    BY <2>1, <2>3 DEF InMemory, Behind, Reach, Place
  <2>8. ~replayed' /\ ~strayed' => Accounted'
    BY <1>1, <2>1, <2>3, <2>7 DEF Accounted
  <2>9. ~replayed' /\ ~strayed' => HalvesInOrder'
    BY <1>1, <2>1, <2>3, <2>7 DEF HalvesInOrder
  <2>10. QED
    BY <2>2, <2>4, <2>6, <2>8, <2>9 DEF RelayOrderly
<1>4. QED
  BY <1>2, <1>3

-----------------------------------------------------------------------------
(* Whole lines                                                              *)

(* A byte between the one before a line and the line's end is on stdout, if *)
(* nothing there was dropped or cut: no later line can hold it, and of an   *)
(* earlier one it is before the line.                                       *)
LEMMA ByteOnStdout ==
  ASSUME RelayAssumption, RelayOrderly, ~strayed, ~replayed, NEW i \in DOMAIN stdout,
         NEW z, z = stdout[i][Len(stdout[i])], NEW x \in Nat \ {0}, x <= z,
         x \notin cut, x \notin dropped
  PROVE  \E k \in DOMAIN stdout : \E b \in DOMAIN stdout[k] : stdout[k][b] = x
<1>1. RelayTypeOK /\ FileTail /\ OffsetsInOrder /\ LinesEnd /\ ReadOnce /\ Accounted
  BY DEF RelayOrderly
<1>2. z \in Relayed
  <2>1. stdout[i] \in Seq(Bytes) /\ stdout[i] # <<>>
    BY <1>1 DEF RelayTypeOK, LinesEnd, LineEnds
  <2>2. Len(stdout[i]) \in DOMAIN stdout[i]
    BY <2>1
  <2>3. QED
    BY <2>2 DEF Relayed, ToSet
<1>3. z \in Nat
  BY <1>1, <1>2, BytesTyped
<1>4. z <= Behind
  <2>1. CASE at = "down"
    BY <1>1, <1>2, <2>1 DEF ReadOnce, Behind, Place
  <2>2. CASE at # "down"
    BY <1>1, <1>2, <2>2 DEF ReadOnce, Behind, Place
  <2>3. QED
    BY <2>1, <2>2
<1>5. Behind \in Nat
  <2>1. Behind = Gone + Place /\ Place \in Nat
    BY <1>1, BehindThePlace
  <2>2. Gone \in Nat
    BY <1>1, ReachBounds
  <2>3. QED
    BY <2>1, <2>2
<1>6. x \in 1..Behind
  BY <1>3, <1>4, <1>5
<1>7. x \in Relayed \/ x \in InMemory
  BY <1>1, <1>6 DEF Accounted
<1>8. x \notin InMemory
  <2>1. x \in Kept => z < x
    BY <1>1, <1>2 DEF ReadOnce
  <2>2. ~(z < x)
    BY <1>3
  <2>3. QED
    BY <2>1, <2>2 DEF InMemory
<1>9. QED
  BY <1>7, <1>8 DEF Relayed, ToSet

LEMMA LinesAreWhole ==
  ASSUME RelayAssumption, RelayOrderly, ~strayed, ~replayed, NEW i \in DOMAIN stdout,
         \A n \in cut \union dropped :
           ~(stdout[i][1] - 1 <= n /\ n <= stdout[i][Len(stdout[i])])
  PROVE  Whole(stdout[i])
<1> DEFINE line == stdout[i]
           l == Len(line)
           z == line[l]
<1>1. RelayTypeOK /\ LinesEnd /\ ReadOnce
  BY DEF RelayOrderly
<1>2. line \in Seq(Bytes) /\ line # <<>> /\ l \in Nat \ {0} /\ DOMAIN line = 1..l
  <2>1. line \in Seq(Bytes) /\ line # <<>>
    BY <1>1 DEF RelayTypeOK, LinesEnd, LineEnds
  <2>2. QED
    BY <2>1
<1>3. \A a \in 1..l : line[a] \in Nat \ {0} /\ (line[a] % 2 = 0 <=> a = l)
  <2>1. \A a \in 1..l : line[a] \in Bytes
    BY <1>2
  <2>2. \A a \in 1..l : line[a] % 2 = 0 <=> a = l
    BY <1>1, <1>2 DEF LinesEnd, LineEnds
  <2>3. Bytes \subseteq Nat \ {0}
    BY <1>1, BytesTyped
  <2>4. QED
    BY <2>1, <2>2, <2>3
<1>4. \A k, j \in DOMAIN stdout : \A a \in DOMAIN stdout[k], b \in DOMAIN stdout[j] :
        k < j \/ (k = j /\ a < b) => stdout[k][a] < stdout[j][b]
  BY <1>1 DEF ReadOnce, Ordered
<1>5. DOMAIN stdout \subseteq Nat /\ \A k \in DOMAIN stdout : stdout[k] \in Seq(Bytes)
  BY <1>1 DEF RelayTypeOK
<1>6. l \in 1..l /\ 1 \in 1..l
  BY <1>2
<1>7. z \in Nat /\ z % 2 = 0 /\ line[1] \in Nat \ {0} /\ line[1] <= z
  <2>1. z \in Nat /\ z % 2 = 0 /\ line[1] \in Nat \ {0}
    BY <1>3, <1>6
  <2>2. line[1] <= z
    <3>1. CASE l = 1
      BY <2>1, <3>1
    <3>2. CASE l # 1
      <4>1. 1 < l
        BY <1>2, <3>2
      <4>2. line[1] < z
        BY <1>2, <1>4, <1>6, <4>1
      <4>3. QED
        BY <2>1, <4>2
    <3>3. QED
      BY <3>1, <3>2
  <2>3. QED
    BY <2>1, <2>2
<1>8. ASSUME NEW x \in Nat \ {0}, line[1] - 1 <= x, x <= z
      PROVE  \E k \in DOMAIN stdout : \E b \in DOMAIN stdout[k] : stdout[k][b] = x
  <2>1. x \notin cut /\ x \notin dropped
    BY <1>8
  <2>2. QED
    BY <1>8, <2>1, ByteOnStdout
(* The byte before the end is on this line.                                 *)
<1>9. \E b \in 1..l : line[b] = z - 1
  <2>1. z - 1 \in Nat \ {0} /\ line[1] - 1 <= z - 1 /\ z - 1 <= z /\ (z - 1) % 2 = 1
    <3>1. \A m \in Nat \ {0}, f \in Nat \ {0} : m % 2 = 0 /\ f <= m =>
            m - 1 \in Nat \ {0} /\ f - 1 <= m - 1 /\ m - 1 <= m /\ (m - 1) % 2 = 1
      OBVIOUS
    <3> HIDE DEF line, z
    <3>2. z # 0
      BY <1>7
    <3>3. QED
      BY <1>7, <3>1, <3>2
  <2> HIDE DEF line, z, l
  <2>2. PICK k \in DOMAIN stdout : \E b \in DOMAIN stdout[k] : stdout[k][b] = z - 1
    BY <1>8, <2>1
  <2>3. PICK b \in DOMAIN stdout[k] : stdout[k][b] = z - 1
    BY <2>2
  <2>4. ~(i < k)
    <3>1. i < k => z < stdout[k][b]
      BY <1>2, <1>4, <1>6 DEF line, z, l
    <3>2. ~(z < z - 1)
      BY <1>7
    <3>3. QED
      BY <2>3, <3>1, <3>2
  <2>5. ~(k < i)
    <3>1. SUFFICES ASSUME k < i
                   PROVE  FALSE
      OBVIOUS
    <3> DEFINE e == Len(stdout[k])
    <3>2. stdout[k] \in Seq(Bytes) /\ b \in 1..e /\ e \in 1..e /\ DOMAIN stdout[k] = 1..e /\ e \in Nat
      BY <1>5
    <3>3. stdout[k][b] % 2 = 0 <=> b = e
      BY <1>1 DEF LinesEnd, LineEnds
    <3>4. b # e
      BY <2>1, <2>3, <3>3
    <3>5. b < e
      BY <3>2, <3>4
    <3>6. stdout[k][b] < stdout[k][e]
      BY <1>4, <3>2, <3>5
    <3>7. stdout[k][e] < line[1]
      BY <1>2, <1>4, <1>6, <3>1, <3>2 DEF line
    <3>8. stdout[k][e] \in Nat
      <4>1. stdout[k][e] \in Bytes
        BY <3>2
      <4>2. QED
        BY <1>1, <4>1, BytesTyped
    <3> HIDE DEF e
    <3>9. QED
      BY <1>7, <2>3, <3>6, <3>7, <3>8
  <2>6. k = i
    BY <1>5, <2>4, <2>5
  <2>7. QED
    BY <1>2, <2>3, <2>6 DEF line
<1>10. l >= 2 /\ line[l - 1] = z - 1
  <2>1. PICK b \in 1..l : line[b] = z - 1
    BY <1>9
  <2>2. b # l
    <3>1. z # z - 1
      BY <1>7
    <3>2. QED
      BY <2>1, <3>1
  <2>3. b < l /\ b \in Nat /\ l \in Nat
    <3>1. \A m \in Nat, c \in Nat : c \in 1..m /\ c # m => c < m
      OBVIOUS
    <3> HIDE DEF l, z, line
    <3>2. l \in Nat /\ b \in Nat
      BY <1>2
    <3>3. QED
      BY <2>1, <2>2, <3>1, <3>2
  <2>4. ~(b < l - 1)
    <3>1. SUFFICES ASSUME b < l - 1
                   PROVE  FALSE
      OBVIOUS
    <3>2. l - 1 \in 1..l /\ l - 1 < l
      BY <2>3, <3>1
    <3>3. line[b] < line[l - 1] /\ line[l - 1] < z
      BY <1>2, <1>4, <1>6, <2>1, <3>1, <3>2
    <3>4. line[l - 1] \in Nat
      BY <1>3, <3>2
    <3> HIDE DEF z, line
    <3>5. QED
      BY <1>7, <2>1, <3>3, <3>4
  <2> HIDE DEF l, z, line
  <2>5. b = l - 1
    BY <2>3, <2>4
  <2>6. QED
    BY <2>1, <2>3, <2>5
(* The byte before that is not: it would end a line.                        *)
<1>11. l = 2
  <2>1. SUFFICES ASSUME l # 2
                 PROVE  FALSE
    OBVIOUS
  <2>2. l - 2 \in 1..l /\ l - 2 < l - 1 /\ l - 1 \in 1..l /\ l - 2 # l
    <3>1. \A m \in Nat : m >= 2 /\ m # 2 =>
            m - 2 \in 1..m /\ m - 2 < m - 1 /\ m - 1 \in 1..m /\ m - 2 # m
      OBVIOUS
    <3> HIDE DEF l, z, line
    <3>2. QED
      BY <1>2, <1>10, <2>1, <3>1
  <2> DEFINE y == line[l - 2]
  <2>3. y \in Nat \ {0} /\ y % 2 # 0
    BY <1>3, <2>2
  <2>4. y < z - 1
    BY <1>2, <1>4, <1>10, <2>2
  <2>5. line[1] <= y
    <3>1. CASE l - 2 = 1
      <4>1. y = line[1]
        BY <3>1
      <4>2. QED
        BY <1>7, <2>3, <4>1
    <3>2. CASE l - 2 # 1
      <4>1. 1 < l - 2
        <5>1. \A m \in Nat : \A c \in 1..m : c # 1 => 1 < c
          OBVIOUS
        <5> HIDE DEF l
        <5>2. QED
          BY <1>2, <2>2, <3>2, <5>1
      <4>2. line[1] < y
        BY <1>2, <1>4, <1>6, <2>2, <4>1
      <4>3. QED
        BY <1>7, <2>3, <4>2
    <3>3. QED
      BY <3>1, <3>2
  <2> HIDE DEF y, z, line, l
  <2>6. z - 2 \in Nat \ {0} /\ y <= z - 2 /\ (z - 2) % 2 = 0
    <3>1. \A m \in Nat, p \in Nat \ {0} : m % 2 = 0 /\ p % 2 # 0 /\ p < m - 1 =>
            m - 2 \in Nat \ {0} /\ p <= m - 2 /\ (m - 2) % 2 = 0
      OBVIOUS
    <3>2. QED
      BY <1>7, <2>3, <2>4, <3>1
  <2>7. line[1] - 1 <= z - 2 /\ line[1] <= z - 2 /\ z - 2 <= z
    BY <1>7, <2>3, <2>5, <2>6
  <2>8. PICK k \in DOMAIN stdout : \E b \in DOMAIN stdout[k] : stdout[k][b] = z - 2
    BY <1>8, <2>6, <2>7
  <2>9. PICK b \in DOMAIN stdout[k] : stdout[k][b] = z - 2
    BY <2>8
  <2>10. ~(i < k)
    <3>1. i < k => z < stdout[k][b]
      BY <1>2, <1>4, <1>6 DEF line, z, l
    <3>2. ~(z < z - 2)
      BY <1>7
    <3>3. QED
      BY <2>9, <3>1, <3>2
  <2>11. ~(k < i)
    <3>1. k < i => stdout[k][b] < line[1]
      BY <1>2, <1>4, <1>6 DEF line
    <3>2. ~(z - 2 < line[1])
      BY <1>7, <2>6, <2>7
    <3>3. QED
      BY <2>9, <3>1, <3>2
  <2>12. k = i
    BY <1>5, <2>10, <2>11
  <2>13. b \in 1..l /\ line[b] = z - 2
    BY <1>2, <2>9, <2>12 DEF line
  <2>14. b = l
    BY <1>3, <2>6, <2>13
  <2>15. z = z - 2
    BY <2>13, <2>14 DEF z
  <2>16. QED
    BY <1>7, <2>15
<1>12. line[1] = z - 1 /\ line[2] = z
  BY <1>10, <1>11
<1> HIDE DEF z
<1>13. line[1] % 2 = 1
  <2>1. \A m \in Nat : m % 2 = 0 => (m - 1) % 2 = 1
    OBVIOUS
  <2>2. QED
    BY <1>7, <1>12, <2>1
<1>14. line[2] = line[1] + 1
  BY <1>7, <1>12
<1>15. QED
  BY <1>11, <1>13, <1>14 DEF Whole

(* A whole line is as MISP wrote it, or a poll read its first byte only.    *)
LEMMA LinesUnharmed ==
  ASSUME RelayAssumption, HalvesInOrder, halved \subseteq Wide, NEW line \in Seq(Bytes), Whole(line),
         \A n \in cut \union dropped : ~(line[1] - 1 <= n /\ n <= line[Len(line)])
  PROVE  ToSet(line) \cap garbled = {} \/ \E n \in halved : Last(line) = 2 * n
<1>1. PICK o \in Nat : Len(line) = 2 /\ line[1] = o /\ line[2] = o + 1 /\ o % 2 = 1
  <2>1. line[1] \in Nat
    BY DEF Whole, Bytes, RelayAssumption
  <2>2. QED
    BY <2>1 DEF Whole
<1>2. Last(line) = o + 1
  BY <1>1 DEF Last
<1>3. ASSUME NEW b \in ToSet(line) \cap garbled
      PROVE  \E n \in halved : o + 1 = 2 * n
  <2>1. b = o \/ b = o + 1
    BY <1>1, <1>3 DEF ToSet
  <2>2. b - 1 \notin cut \union dropped
    <3>1. o - 1 <= b - 1 /\ b - 1 <= o + 1
      BY <2>1
    <3>2. QED
      BY <1>1, <3>1
  <2>3. PICK n \in halved : b = 2 * n - 1 \/ b = 2 * n
    BY <1>3, <2>2 DEF HalvesInOrder
  <2>4. n \in Nat
    BY DEF RelayAssumption
  <2>5. o + 1 = 2 * n
    BY <1>1, <2>1, <2>3, <2>4
  <2>6. QED
    BY <2>5
<1>4. QED
  BY <1>2, <1>3

LEMMA RelayOrderlySafe ==
  ASSUME RelayAssumption, RelayOrderly
  PROVE  RelayInv /\ OnceInOrder /\ NothingLost
<1>1. /\ RelayTypeOK /\ OffsetsInOrder /\ NothingLost
      /\ ~replayed => ReadOnce
  BY DEF RelayOrderly
<1>2. OnceInOrder
  BY <1>1 DEF OnceInOrder, ReadOnce, Ordered
<1>3. LinesWhole
  <2>1. SUFFICES ASSUME ~strayed, ~replayed, NEW i \in DOMAIN stdout,
                        ~ \E n \in cut \union dropped : stdout[i][1] - 1 <= n /\ n <= Last(stdout[i])
                 PROVE  /\ Whole(stdout[i])
                        /\ \/ ToSet(stdout[i]) \cap garbled = {}
                           \/ \E n \in halved : Last(stdout[i]) = 2 * n
    BY DEF LinesWhole
  <2>2. \A n \in cut \union dropped :
          ~(stdout[i][1] - 1 <= n /\ n <= stdout[i][Len(stdout[i])])
    BY <2>1 DEF Last
  <2>3. Whole(stdout[i])
    BY <2>1, <2>2, LinesAreWhole
  <2>4. HalvesInOrder /\ halved \subseteq Wide
    BY <1>1, <2>1 DEF RelayOrderly, RelayTypeOK
  <2>5. stdout[i] \in Seq(Bytes)
    BY <1>1 DEF RelayTypeOK
  <2>6. QED
    BY <2>2, <2>3, <2>4, <2>5, LinesUnharmed
<1>4. (at = "sleep" => offset = saved) /\ saved <= MaxBytes
  BY <1>1 DEF OffsetsInOrder
<1>5. QED
  BY <1>1, <1>2, <1>3, <1>4 DEF RelayInv

LEMMA AlwaysRelayOrderly == RelaySpec => []RelayOrderly
<1>1. RelayInit => RelayOrderly
  BY RelayAssumption, RelayOrderlyInit
<1>2. RelayOrderly /\ [RelayNext]_relayVars => RelayOrderly'
  BY RelayAssumption, RelayOrderlyStep
<1>3. QED
  BY <1>1, <1>2, PTL DEF RelaySpec

(* The relay's state is of its types, between two polls the volume knows    *)
(* its place, and a line comes out whole unless one of its bytes, or the    *)
(* one before it, was dropped or cut, and as MISP wrote it unless a poll    *)
(* divided one of its characters (logrelay.Relay.poll).                    *)
THEOREM RelayInvariant == RelaySpec => []RelayInv
<1>1. RelayOrderly => RelayInv
  BY RelayAssumption, RelayOrderlySafe
<1>2. QED
  BY <1>1, AlwaysRelayOrderly, PTL

(* No byte goes to stdout twice or out of order, over any number of         *)
(* restarts, unless a relay died between its lines and its save.            *)
THEOREM RelayedOnceInOrder == RelaySpec => []OnceInOrder
<1>1. RelayOrderly => OnceInOrder
  BY RelayAssumption, RelayOrderlySafe
<1>2. QED
  BY <1>1, AlwaysRelayOrderly, PTL

(* The end of every line is on stdout or still to be read, unless it was    *)
(* appended just before a truncate or the relay has lost its place.         *)
THEOREM NoLineIsLost == RelaySpec => []NothingLost
<1>1. RelayOrderly => NothingLost
  BY RelayAssumption, RelayOrderlySafe
<1>2. QED
  BY <1>1, AlwaysRelayOrderly, PTL

-----------------------------------------------------------------------------
(* The back-off *)

(* There are as many subsets of 1..n. *)
LEMMA PowerOfTwo == \A n \in Nat : 2 ^ n \in Nat
<1>1. ASSUME NEW n \in Nat
      PROVE  2 ^ n \in Nat
  <2>1. IsFiniteSet(1..n) /\ Cardinality(1..n) = n
    BY FS_Interval
  <2>2. IsFiniteSet(SUBSET (1..n)) /\ Cardinality(SUBSET (1..n)) = 2 ^ n
    BY <2>1, FS_SUBSET
  <2>3. QED
    BY <2>2, FS_CardinalityType
<1>2. QED
  BY <1>1

LEMMA DelayBounds == Delay(0) = 0 /\ \A n \in 0..MaxFailures : Delay(n) \in 0..MaxDelay
<1>1. Delay(0) = 0
  BY DEF Delay
<1>2. ASSUME NEW n \in 0..MaxFailures
      PROVE  Delay(n) \in 0..MaxDelay
  <2>1. CASE n = 0
    BY <2>1, <1>1, SupervisorAssumption
  <2>2. CASE n # 0
    <3> DEFINE m == 2 ^ (n - 1)
    <3>1. n - 1 \in Nat
      BY <2>2, SupervisorAssumption
    <3>2. m \in Nat
      BY <3>1, PowerOfTwo
    <3>3. Delay(n) = Least(m, MaxDelay)
      BY <2>2 DEF Delay
    <3> HIDE DEF m
    <3>4. QED
      BY <3>2, <3>3, SupervisorAssumption DEF Least
  <2>3. QED
    BY <2>1, <2>2
<1>3. QED
  BY <1>1, <1>2

-----------------------------------------------------------------------------
(* The strengthening *)

(* Each program's failures and its wait are what its exits have earned it.  *)
DelaysInOrder ==
  \A p \in Program :
    /\ proc[p] = "none" => rapid[p] = failures[p] /\ idle[p] + wait[p] = Delay(failures[p])
    /\ proc[p] = "up" => rapid[p] = failures[p] /\ idle[p] = 0
    /\ proc[p] = "exited" /\ sup = "loop" => rapid[p] = Counted(p) /\ idle[p] = 0

(* First the workers are told and end, then the relay; until it ends, it    *)
(* runs or its absence is known.                                            *)
ShutdownInOrder ==
  /\ sup = "loop" => told = {}
  /\ sup # "loop" => stopping
  /\ sup = "workers" => /\ Up(Worker) \subseteq told /\ told \subseteq Worker
                        /\ relayLost \/ proc[Relay] = "up"
  /\ sup = "relay" => /\ Up(Worker) = {} /\ Up({Relay}) \subseteq told
                      /\ ~lines \/ relayLost \/ orphan \/ proc[Relay] = "up"
  /\ sup = "ended" => /\ Up(Program) = {}
                      /\ ~lines \/ relayLost \/ orphan

JobsRun == \A p \in job : proc[p] = "up"

SupervisorOrderly == SupervisorTypeOK /\ JobsRun /\ ShutdownInOrder /\ DelaysInOrder

-----------------------------------------------------------------------------
(* Types *)

LEMMA SupervisorTypesInit == Init => SupervisorTypeOK
<1> SUFFICES ASSUME Init
             PROVE  SupervisorTypeOK
  OBVIOUS
<1>1. /\ proc \in [Program -> {"none", "up", "exited"}]
      /\ age \in [Program -> 0..RapidExit] /\ wait \in [Program -> 0..MaxDelay]
  BY SupervisorAssumption DEF Init, All
<1>2. /\ failures \in [Program -> 0..MaxFailures] /\ rapid \in [Program -> 0..MaxFailures]
      /\ idle \in [Program -> 0..(MaxDelay + 1)]
  BY SupervisorAssumption DEF Init, All
<1>3. left \in 0..(Grace + RelayGrace)
  BY SupervisorAssumption DEF Init
<1>4. QED
  BY <1>1, <1>2, <1>3 DEF Init, SupervisorTypeOK

LEMMA CountedBounds ==
  ASSUME SupervisorTypeOK, NEW p \in Program
  PROVE  Counted(p) \in 0..MaxFailures
<1>1. failures[p] \in 0..MaxFailures
  BY DEF SupervisorTypeOK
<1>2. QED
  BY <1>1, SupervisorAssumption DEF Counted, Least

(* The types of what one turn of the loop makes of a program.               *)
LEMMA LoopTypes ==
  ASSUME SupervisorTypeOK, Loop, NEW p \in Program
  PROVE  /\ proc'[p] \in {"none", "up", "exited"} /\ age'[p] \in 0..RapidExit
         /\ wait'[p] \in 0..MaxDelay /\ failures'[p] \in 0..MaxFailures
         /\ idle'[p] \in 0..(MaxDelay + 1)
<1>1. /\ proc[p] \in {"none", "up", "exited"} /\ age[p] \in 0..RapidExit
      /\ wait[p] \in 0..MaxDelay /\ failures[p] \in 0..MaxFailures
      /\ idle[p] \in 0..(MaxDelay + 1)
  BY DEF SupervisorTypeOK
<1>2. Counted(p) \in 0..MaxFailures
  BY CountedBounds
<1>3. Delay(Counted(p)) \in 0..MaxDelay
  BY <1>2, DelayBounds
<1>4. proc'[p] = IF Due(p) THEN "up" ELSE IF Reaped(p) THEN "none" ELSE proc[p]
  BY DEF Loop
<1>5. failures'[p] = IF Reaped(p) THEN Counted(p) ELSE failures[p]
  BY DEF Loop
<1>6. age'[p] = IF proc'[p] # "up" THEN 0 ELSE IF Due(p) THEN 1 ELSE Least(age[p] + 1, RapidExit)
  BY DEF Loop
<1>7. wait'[p] = IF proc'[p] = "up" THEN 0
                 ELSE IF Reaped(p) THEN OnePollLess(Delay(Counted(p))) ELSE OnePollLess(wait[p])
  BY DEF Loop
<1>8. idle'[p] = IF proc'[p] = "up" THEN 0
                 ELSE IF Reaped(p) THEN 1 ELSE Least(idle[p] + 1, MaxDelay + 1)
  BY DEF Loop
<1>9. proc'[p] \in {"none", "up", "exited"}
  BY <1>1, <1>4
<1>10. age'[p] \in 0..RapidExit
  BY <1>1, <1>6, SupervisorAssumption DEF Least
<1>11. wait'[p] \in 0..MaxDelay
  BY <1>1, <1>3, <1>7, SupervisorAssumption DEF OnePollLess
<1>12. failures'[p] \in 0..MaxFailures
  BY <1>1, <1>2, <1>5
<1>13. idle'[p] \in 0..(MaxDelay + 1)
  BY <1>1, <1>8, SupervisorAssumption DEF Least
<1>14. QED
  BY <1>9, <1>10, <1>11, <1>12, <1>13

(* An exit changes two things only.                                         *)
LEMMA ExitTypes ==
  ASSUME SupervisorTypeOK, NEW p \in Program, Exit(p)
  PROVE  /\ proc' \in [Program -> {"none", "up", "exited"}]
         /\ rapid' \in [Program -> 0..MaxFailures]
         /\ UNCHANGED <<age, wait, failures, told, sup, stopping, left, idle>>
<1>1. rapid[p] \in 0..MaxFailures
  BY DEF SupervisorTypeOK
<1>2. (IF age[p] < RapidExit THEN Least(rapid[p] + 1, MaxFailures) ELSE 0) \in 0..MaxFailures
  BY <1>1, SupervisorAssumption DEF Least
<1>3. rapid' \in [Program -> 0..MaxFailures]
  BY <1>2 DEF Exit, SupervisorTypeOK
<1>4. QED
  BY <1>3 DEF Exit, SupervisorTypeOK, supervisor

LEMMA SupervisorTypesStep == SupervisorTypeOK /\ [Next]_vars => SupervisorTypeOK'
<1> SUFFICES ASSUME SupervisorTypeOK, [Next]_vars
             PROVE  SupervisorTypeOK'
  OBVIOUS
<1> USE DEF SupervisorTypeOK
<1>1. CASE Loop
  <2>1. /\ proc' \in [Program -> {"none", "up", "exited"}]
        /\ age' \in [Program -> 0..RapidExit] /\ wait' \in [Program -> 0..MaxDelay]
        /\ failures' \in [Program -> 0..MaxFailures] /\ idle' \in [Program -> 0..(MaxDelay + 1)]
    <3>1. /\ DOMAIN proc' = Program /\ proc' = [p \in Program |-> proc'[p]]
          /\ age' = [p \in Program |-> age'[p]] /\ wait' = [p \in Program |-> wait'[p]]
          /\ failures' = [p \in Program |-> failures'[p]] /\ idle' = [p \in Program |-> idle'[p]]
      BY <1>1 DEF Loop
    <3>2. QED
      BY <1>1, <3>1, LoopTypes
  <2>2. UNCHANGED <<supervisor, work, rapid, relayLost>>
    BY <1>1 DEF Loop
  <2>3. QED
    BY <2>1, <2>2 DEF supervisor, work
<1>2. CASE AskToStop
  BY <1>2 DEF AskToStop, programs, work, history
<1>3. CASE StopWorkers
  BY <1>3, SupervisorAssumption DEF StopWorkers, programs, Up, Program
<1>4. CASE WaitPoll
  BY <1>4, SupervisorAssumption DEF WaitPoll, programs, work, history
<1>5. CASE KillWorkers
  BY <1>5, SupervisorAssumption DEF KillWorkers, Up, Program, history
<1>6. CASE End
  BY <1>6 DEF End, work, Up
<1>7. ASSUME NEW p \in Worker, TakeJob(p)
      PROVE  SupervisorTypeOK'
  BY <1>7 DEF TakeJob, programs, supervisor, history
<1>8. ASSUME NEW p \in Worker, FinishJob(p)
      PROVE  SupervisorTypeOK'
  BY <1>8 DEF FinishJob, programs, supervisor, history
<1>9. ASSUME NEW p \in Worker, WorkerExits(p)
      PROVE  SupervisorTypeOK'
  BY <1>9, ExitTypes DEF WorkerExits, work, Program
<1>10. ASSUME NEW p \in Worker, WorkerDies(p)
       PROVE  SupervisorTypeOK'
  BY <1>10, ExitTypes DEF WorkerDies, Program
<1>11. CASE Logs
  BY <1>11 DEF Logs, programs, supervisor, history
<1>12. CASE Relays
  BY <1>12 DEF Relays, programs, supervisor, history
<1>13. CASE RelayExits
  BY <1>13, ExitTypes DEF RelayExits, Program
<1>14. CASE RelayDies
  <2>1. relayLost' \in BOOLEAN
    BY <1>14 DEF RelayDies
  <2>2. QED
    BY <1>14, <2>1, ExitTypes DEF RelayDies, work, Program
<1>15. CASE UNCHANGED vars
  BY <1>15 DEF vars, programs, supervisor, work, history
<1>16. QED
  BY <1>1, <1>2, <1>3, <1>4, <1>5, <1>6, <1>7, <1>8, <1>9, <1>10, <1>11, <1>12, <1>13, <1>14, <1>15
  DEF Next

-----------------------------------------------------------------------------
(* The order of a shutdown *)

LEMMA ShutdownStep ==
  SupervisorTypeOK /\ JobsRun /\ ShutdownInOrder /\ [Next]_vars => JobsRun' /\ ShutdownInOrder'
<1> SUFFICES ASSUME SupervisorTypeOK, JobsRun, ShutdownInOrder, [Next]_vars
             PROVE  JobsRun' /\ ShutdownInOrder'
  OBVIOUS
<1>0. /\ DOMAIN proc = Program /\ job \subseteq Worker /\ Worker \subseteq Program /\ Relay \in Program
      /\ Relay \notin Worker /\ sup \in {"loop", "workers", "relay", "ended"}
  BY SupervisorAssumption DEF SupervisorTypeOK, Program
<1> USE <1>0 DEF JobsRun, ShutdownInOrder, Up
<1>1. CASE Loop
  <2>1. /\ sup = "loop" /\ UNCHANGED <<sup, told, stopping, job, lines, orphan, relayLost>>
    BY <1>1 DEF Loop, supervisor, work
  <2>2. ASSUME NEW p \in job
        PROVE  proc'[p] = "up"
    BY <1>1, <2>2 DEF Loop, Reaped
  <2>3. QED
    BY <2>1, <2>2
<1>2. CASE AskToStop
  BY <1>2 DEF AskToStop, programs, work, history
<1>3. CASE StopWorkers
  BY <1>3 DEF StopWorkers, programs
<1>4. CASE WaitPoll
  BY <1>4 DEF WaitPoll, programs, work, history
<1>5. CASE KillWorkers
  <2>1. /\ sup = "workers" /\ sup' = "relay" /\ stopping' = stopping
        /\ proc' = [p \in Program |-> IF p \in Up(told) THEN "exited" ELSE proc[p]]
        /\ job' = job \ Up(told) /\ told' = told \union Up({Relay})
        /\ UNCHANGED <<lines, orphan, relayLost>>
    BY <1>5 DEF KillWorkers, history
  <2>2. /\ Up(Worker) \subseteq told /\ told \subseteq Worker
        /\ relayLost \/ proc[Relay] = "up"
    BY <2>1
  <2>3. \A p \in job' : proc'[p] = "up"
    BY <2>1
  <2>4. Up(Worker)' = {}
    BY <2>1, <2>2
  <2>5. Relay \notin Up(told) /\ proc'[Relay] = proc[Relay]
    BY <2>1, <2>2
  <2>6. Up({Relay})' \subseteq told'
    BY <2>1, <2>5
  <2>7. relayLost' \/ proc'[Relay] = "up"
    BY <2>1, <2>2, <2>5
  <2>8. QED
    BY <2>1, <2>3, <2>4, <2>6, <2>7
<1>6. CASE End
  <2>1. /\ sup = "relay" /\ sup' = "ended" /\ stopping' = stopping
        /\ proc' = [p \in Program |-> IF p \in Up(told) THEN "exited" ELSE proc[p]]
        /\ relayLost' = (relayLost \/ Up({Relay}) # {})
        /\ UNCHANGED <<job, lines, orphan, told>>
    BY <1>6 DEF End, work
  <2>2. /\ Up(Worker) = {} /\ Up({Relay}) \subseteq told
        /\ ~lines \/ relayLost \/ orphan \/ proc[Relay] = "up"
    BY <2>1
  <2>3. job = {}
    BY <2>2
  <2>4. Up(Program)' = {}
    BY <2>1, <2>2 DEF Program
  <2>5. ~lines' \/ relayLost' \/ orphan'
    BY <2>1, <2>2
  <2>6. QED
    BY <2>1, <2>3, <2>4, <2>5
<1>7. ASSUME NEW p \in Worker, TakeJob(p)
      PROVE  JobsRun' /\ ShutdownInOrder'
  BY <1>7 DEF TakeJob, programs, supervisor, history
<1>8. ASSUME NEW p \in Worker, FinishJob(p)
      PROVE  JobsRun' /\ ShutdownInOrder'
  BY <1>8 DEF FinishJob, programs, supervisor, history
<1>9. ASSUME NEW p \in Worker, WorkerExits(p)
      PROVE  JobsRun' /\ ShutdownInOrder'
  <2>1. /\ p \notin job /\ proc' = [proc EXCEPT ![p] = "exited"] /\ p # Relay
        /\ UNCHANGED <<job, lines, orphan, told, sup, stopping, relayLost>>
    BY <1>9 DEF WorkerExits, Exit, work, supervisor
  <2>2. proc'[Relay] = proc[Relay] /\ \A q \in Program : proc'[q] = "up" => proc[q] = "up"
    BY <2>1
  <2>3. \A q \in job' : proc'[q] = "up"
    BY <2>1
  <2>4. QED
    BY <2>1, <2>2, <2>3
<1>10. ASSUME NEW p \in Worker, WorkerDies(p)
       PROVE  JobsRun' /\ ShutdownInOrder'
  <2>1. /\ job' = job \ {p} /\ proc' = [proc EXCEPT ![p] = "exited"] /\ p # Relay /\ orphan' = TRUE
        /\ UNCHANGED <<lines, told, sup, stopping, relayLost>>
    BY <1>10 DEF WorkerDies, Exit, supervisor
  <2>2. proc'[Relay] = proc[Relay] /\ \A q \in Program : proc'[q] = "up" => proc[q] = "up"
    BY <2>1
  <2>3. \A q \in job' : proc'[q] = "up"
    BY <2>1
  <2>4. QED
    BY <2>1, <2>2, <2>3
<1>11. CASE Logs
  <2>1. /\ sup # "ended" /\ (job # {} \/ orphan)
        /\ UNCHANGED <<proc, told, sup, stopping, job, orphan, relayLost>>
    BY <1>11 DEF Logs, Running, programs, supervisor, history
  <2>2. sup = "relay" => orphan
    BY <2>1
  <2>3. QED
    BY <2>1, <2>2
<1>12. CASE Relays
  BY <1>12 DEF Relays, programs, supervisor, history
<1>13. CASE RelayExits
  <2>1. /\ sup # "ended" /\ Relay \in told /\ proc' = [proc EXCEPT ![Relay] = "exited"] /\ lines' = FALSE
        /\ UNCHANGED <<told, sup, stopping, job, orphan, relayLost>>
    BY <1>13 DEF RelayExits, Exit, Running, supervisor
  <2>2. sup = "relay"
    BY <2>1
  <2>3. \A q \in Program : proc'[q] = "up" => proc[q] = "up"
    BY <2>1
  <2>4. \A q \in job' : proc'[q] = "up"
    BY <2>1
  <2>5. QED
    BY <2>1, <2>2, <2>3, <2>4
<1>14. CASE RelayDies
  <2>1. /\ sup # "ended" /\ proc' = [proc EXCEPT ![Relay] = "exited"] /\ relayLost' = (relayLost \/ sup # "loop")
        /\ UNCHANGED <<told, sup, stopping, job, orphan, lines>>
    BY <1>14 DEF RelayDies, Exit, Running, supervisor, work
  <2>2. \A q \in Program : proc'[q] = "up" => proc[q] = "up"
    BY <2>1
  <2>3. \A q \in job' : proc'[q] = "up"
    BY <2>1
  <2>4. QED
    BY <2>1, <2>2, <2>3
<1>15. CASE UNCHANGED vars
  BY <1>15 DEF vars, programs, supervisor, work, history
<1>16. QED
  BY <1>1, <1>2, <1>3, <1>4, <1>5, <1>6, <1>7, <1>8, <1>9, <1>10, <1>11, <1>12, <1>13, <1>14, <1>15
  DEF Next

-----------------------------------------------------------------------------
(* The delays *)

DelayOf(p) ==
  /\ proc[p] = "none" => rapid[p] = failures[p] /\ idle[p] + wait[p] = Delay(failures[p])
  /\ proc[p] = "up" => rapid[p] = failures[p] /\ idle[p] = 0
  /\ proc[p] = "exited" /\ sup = "loop" => rapid[p] = Counted(p) /\ idle[p] = 0

(* A turn of the loop.                                                      *)
LEMMA LoopDelay ==
  ASSUME SupervisorTypeOK, Loop, NEW p \in Program, DelayOf(p)
  PROVE  DelayOf(p)'
<1>1. /\ proc[p] \in {"none", "up", "exited"} /\ wait[p] \in 0..MaxDelay
      /\ failures[p] \in 0..MaxFailures /\ idle[p] \in 0..(MaxDelay + 1)
  BY DEF SupervisorTypeOK
<1>2. Counted(p) \in 0..MaxFailures /\ Delay(Counted(p)) \in 0..MaxDelay
  BY CountedBounds, DelayBounds
<1>3. Delay(failures[p]) \in 0..MaxDelay
  BY <1>1, DelayBounds
<1>4. proc'[p] = IF Due(p) THEN "up" ELSE IF Reaped(p) THEN "none" ELSE proc[p]
  BY DEF Loop
<1>5. failures'[p] = IF Reaped(p) THEN Counted(p) ELSE failures[p]
  BY DEF Loop
<1>6. wait'[p] = IF proc'[p] = "up" THEN 0
                 ELSE IF Reaped(p) THEN OnePollLess(Delay(Counted(p))) ELSE OnePollLess(wait[p])
  BY DEF Loop
<1>7. idle'[p] = IF proc'[p] = "up" THEN 0
                 ELSE IF Reaped(p) THEN 1 ELSE Least(idle[p] + 1, MaxDelay + 1)
  BY DEF Loop
<1>8. rapid' = rapid /\ sup = "loop"
  BY DEF Loop
<1>9. CASE proc[p] = "exited"
  <2>1. rapid[p] = Counted(p)
    BY <1>8, <1>9 DEF DelayOf
  <2>2. failures'[p] = Counted(p) /\ rapid'[p] = failures'[p]
    BY <1>5, <1>8, <1>9, <2>1 DEF Reaped
  <2>3. CASE Delay(Counted(p)) = 0
    <3>1. proc'[p] = "up" /\ idle'[p] = 0
      BY <1>4, <1>7, <1>9, <2>3 DEF Due, Reaped
    <3>2. QED
      BY <2>2, <3>1 DEF DelayOf
  <2>4. CASE Delay(Counted(p)) # 0
    <3>1. proc'[p] = "none" /\ idle'[p] = 1
      BY <1>4, <1>7, <1>9, <2>4 DEF Due, Reaped
    <3>2. wait'[p] = Delay(Counted(p)) - 1
      BY <1>6, <1>9, <2>4, <3>1 DEF Reaped, OnePollLess
    <3>3. idle'[p] + wait'[p] = Delay(failures'[p])
      BY <1>2, <2>2, <3>1, <3>2
    <3>4. QED
      BY <2>2, <3>1, <3>3 DEF DelayOf
  <2>5. QED
    BY <2>3, <2>4
<1>10. CASE proc[p] = "none"
  <2>1. rapid[p] = failures[p] /\ idle[p] + wait[p] = Delay(failures[p])
    BY <1>10 DEF DelayOf
  <2>2. failures'[p] = failures[p] /\ rapid'[p] = failures'[p]
    BY <1>5, <1>8, <1>10, <2>1 DEF Reaped
  <2>3. CASE wait[p] = 0
    <3>1. proc'[p] = "up" /\ idle'[p] = 0
      BY <1>4, <1>7, <1>10, <2>3 DEF Due, Reaped
    <3>2. QED
      BY <2>2, <3>1 DEF DelayOf
  <2>4. CASE wait[p] # 0
    <3>1. proc'[p] = "none" /\ wait'[p] = wait[p] - 1
      BY <1>4, <1>6, <1>10, <2>4 DEF Due, Reaped, OnePollLess
    <3>2. idle'[p] = Least(idle[p] + 1, MaxDelay + 1)
      BY <1>7, <1>10, <3>1 DEF Reaped
    <3>3. idle'[p] = idle[p] + 1
      BY <1>1, <1>3, <2>1, <2>4, <3>2, SupervisorAssumption DEF Least
    <3>4. idle'[p] + wait'[p] = Delay(failures'[p])
      BY <1>1, <2>1, <2>2, <3>1, <3>3
    <3>5. QED
      BY <2>2, <3>1, <3>4 DEF DelayOf
  <2>5. QED
    BY <2>3, <2>4
<1>11. CASE proc[p] = "up"
  <2>1. rapid[p] = failures[p]
    BY <1>11 DEF DelayOf
  <2>2. proc'[p] = "up" /\ idle'[p] = 0 /\ failures'[p] = failures[p]
    BY <1>4, <1>5, <1>7, <1>11 DEF Due, Reaped
  <2>3. QED
    BY <1>8, <2>1, <2>2 DEF DelayOf
<1>12. QED
  BY <1>1, <1>9, <1>10, <1>11

(* A process that ends has one more rapid exit, or none.                    *)
LEMMA ExitDelay ==
  ASSUME SupervisorTypeOK, NEW p \in Program, proc[p] = "up", Exit(p), NEW q \in Program, DelayOf(q)
  PROVE  DelayOf(q)'
<1>1. UNCHANGED <<age, wait, failures, sup, idle>>
  BY DEF Exit, supervisor
<1>2. CASE q = p
  <2>1. proc'[p] = "exited"
    BY DEF Exit, SupervisorTypeOK
  <2>2. rapid'[p] = IF age[p] < RapidExit THEN Least(rapid[p] + 1, MaxFailures) ELSE 0
    BY DEF Exit, SupervisorTypeOK
  <2>3. rapid[p] = failures[p] /\ idle[p] = 0
    BY <1>2 DEF DelayOf
  <2>4. rapid'[p] = Counted(p)'
    BY <1>1, <2>2, <2>3 DEF Counted
  <2>5. QED
    BY <1>1, <1>2, <2>1, <2>3, <2>4 DEF DelayOf
<1>3. CASE q # p
  <2>1. proc'[q] = proc[q] /\ rapid'[q] = rapid[q]
    BY <1>3 DEF Exit, SupervisorTypeOK
  <2>2. QED
    BY <1>1, <2>1 DEF DelayOf, Counted
<1>4. QED
  BY <1>2, <1>3

(* What the shutdown kills is not started again.                            *)
LEMMA KillDelay ==
  ASSUME SupervisorTypeOK, NEW q \in Program, DelayOf(q), sup' # "loop",
         proc'[q] = proc[q] \/ proc'[q] = "exited",
         UNCHANGED <<age, wait, failures, rapid, idle>>
  PROVE  DelayOf(q)'
BY DEF DelayOf, Counted

LEMMA DelaysStep == SupervisorTypeOK /\ DelaysInOrder /\ [Next]_vars => DelaysInOrder'
<1> SUFFICES ASSUME SupervisorTypeOK, DelaysInOrder, [Next]_vars, NEW q \in Program
             PROVE  DelayOf(q)'
  BY DEF DelaysInOrder, DelayOf
<1>0. DelayOf(q)
  BY DEF DelaysInOrder, DelayOf
<1>1. CASE Loop
  BY <1>0, <1>1, LoopDelay
<1>2. CASE StopWorkers
  BY <1>0, <1>2 DEF StopWorkers, programs, DelayOf, Counted
<1>3. CASE KillWorkers \/ End
  BY <1>0, <1>3, KillDelay DEF KillWorkers, End, history
<1>4. ASSUME NEW p \in Worker, WorkerExits(p) \/ WorkerDies(p)
      PROVE  DelayOf(q)'
  BY <1>0, <1>4, ExitDelay DEF WorkerExits, WorkerDies, Program
<1>5. CASE RelayExits \/ RelayDies
  BY <1>0, <1>5, ExitDelay DEF RelayExits, RelayDies, Program
<1>6. CASE \/ AskToStop \/ WaitPoll \/ Logs \/ Relays
           \/ \E p \in Worker : TakeJob(p) \/ FinishJob(p)
           \/ UNCHANGED vars
  <2>1. UNCHANGED <<programs, sup, rapid, idle>>
    BY <1>6
    DEF AskToStop, WaitPoll, Logs, Relays, TakeJob, FinishJob, vars, supervisor, history
  <2>2. QED
    BY <1>0, <2>1 DEF programs, DelayOf, Counted
<1>7. QED
  BY <1>1, <1>2, <1>3, <1>4, <1>5, <1>6 DEF Next

-----------------------------------------------------------------------------
(* The theorems *)

LEMMA SupervisorOrderlyInit == Init => SupervisorOrderly
<1> SUFFICES ASSUME Init
             PROVE  SupervisorOrderly
  OBVIOUS
<1>1. SupervisorTypeOK
  BY SupervisorTypesInit
<1>2. JobsRun /\ ShutdownInOrder
  BY DEF Init, JobsRun, ShutdownInOrder
<1>3. ASSUME NEW p \in Program
      PROVE  proc[p] = "none" /\ rapid[p] = 0 /\ failures[p] = 0 /\ idle[p] = 0 /\ wait[p] = 0
  BY DEF Init, All
<1>4. DelaysInOrder
  BY <1>3, DelayBounds DEF DelaysInOrder
<1>5. QED
  BY <1>1, <1>2, <1>4 DEF SupervisorOrderly

LEMMA AlwaysSupervisorOrderly == Spec => []SupervisorOrderly
<1>1. SupervisorOrderly /\ [Next]_vars => SupervisorOrderly'
  BY SupervisorTypesStep, ShutdownStep, DelaysStep DEF SupervisorOrderly
<1>2. QED
  BY <1>1, SupervisorOrderlyInit, PTL DEF Spec

(* The types; when the supervisor ends, every program has ended, and no job *)
(* of a worker runs on (Supervisor.shutdown): for any workers and graces.   *)
THEOREM SupervisorInvariant == Spec => []SupervisorInv
<1>1. SupervisorOrderly => SupervisorInv
  BY SupervisorAssumption
  DEF SupervisorOrderly, SupervisorInv, JobsRun, ShutdownInOrder, SupervisorTypeOK, Program, Up
<1>2. QED
  BY <1>1, AlwaysSupervisorOrderly, PTL

(* "The log relay stops after the workers, so it relays the lines of their  *)
(* last jobs" (worker.py).                                                  *)
THEOREM LastLinesAreRelayed == Spec => []LastLinesRelayed
<1>1. SupervisorOrderly => LastLinesRelayed
  BY DEF SupervisorOrderly, ShutdownInOrder, LastLinesRelayed
<1>2. QED
  BY <1>1, AlwaysSupervisorOrderly, PTL

(* Every start of a program comes after exactly the delay that its rapid    *)
(* exits in a row demand (reap, start_due), for any RAPID_EXIT and MAX_DELAY.*)
THEOREM BackoffIsExact == Spec => BackoffExact
<1>1. ASSUME SupervisorOrderly, [Next]_vars, NEW p \in Program, proc[p] # "up", proc'[p] = "up"
      PROVE  idle[p] = IF rapid[p] = 0 THEN 0 ELSE Least(2 ^ (rapid[p] - 1), MaxDelay)
  <2>1. Loop
    <3>1. DOMAIN proc = Program /\ Worker \subseteq Program /\ Relay \in Program
      BY <1>1 DEF SupervisorOrderly, SupervisorTypeOK, Program
    <3>2. CASE KillWorkers \/ End
      BY <1>1, <3>2 DEF KillWorkers, End
    <3>3. ASSUME NEW q \in Program, Exit(q)
          PROVE  FALSE
      BY <1>1, <3>1, <3>3 DEF Exit
    <3>4. CASE \/ AskToStop \/ StopWorkers \/ WaitPoll \/ Logs \/ Relays
               \/ \E q \in Worker : TakeJob(q) \/ FinishJob(q)
               \/ UNCHANGED vars
      BY <1>1, <3>4
      DEF AskToStop, StopWorkers, WaitPoll, Logs, Relays, TakeJob, FinishJob, vars, programs
    <3>5. QED
      BY <1>1, <3>1, <3>2, <3>3, <3>4 DEF Next, WorkerExits, WorkerDies, RelayExits, RelayDies
  <2>2. proc[p] \in {"none", "up", "exited"} /\ Due(p) /\ sup = "loop"
    BY <1>1, <2>1 DEF Loop, Reaped, SupervisorOrderly, SupervisorTypeOK
  <2>3. idle[p] = Delay(rapid[p])
    <3>1. CASE proc[p] = "exited"
      BY <1>1, <2>2, <3>1 DEF SupervisorOrderly, DelaysInOrder, Due, Reaped
    <3>2. CASE proc[p] = "none"
      <4>1. idle[p] \in Nat /\ wait[p] = 0 /\ idle[p] + wait[p] = Delay(rapid[p])
        BY <1>1, <2>2, <3>2, SupervisorAssumption
        DEF SupervisorOrderly, SupervisorTypeOK, DelaysInOrder, Due, Reaped
      <4>2. QED
        BY <4>1
    <3>3. QED
      BY <1>1, <2>2, <3>1, <3>2
  <2>4. QED
    BY <2>3 DEF Delay
<1>2. SupervisorOrderly /\ [Next]_vars =>
        [\A p \in Program : proc[p] # "up" /\ proc'[p] = "up" =>
           idle[p] = IF rapid[p] = 0 THEN 0 ELSE Least(2 ^ (rapid[p] - 1), MaxDelay)]_vars
  BY <1>1
<1>3. QED
  BY <1>2, AlwaysSupervisorOrderly, PTL DEF Spec, BackoffExact
===============================================================================
