---------------------------- MODULE SpeechProofs ----------------------------
(***************************************************************************)
(* Proofs about SpeechDocument, SpeechParser and VoiceNav: what order and  *)
(* chunks do to a set of numbers, that the parser's loop finds what the    *)
(* document has, and that turns keep pages and sessions together.          *)
(***************************************************************************)
EXTENDS SpeechParser, VoiceNav, FiniteSetTheorems, SequenceTheorems, TLAPS

\* How many members of S are below k.
Rank(S, k) == Cardinality({j \in S : j < k})

LEMMA RankFacts ==
  ASSUME NEW S, S \subseteq Nat, IsFiniteSet(S)
  PROVE  /\ Cardinality(S) \in Nat
         /\ \A k \in S : Rank(S, k) \in 0..Cardinality(S) - 1
         /\ \A k, l \in S : k < l => Rank(S, k) < Rank(S, l)
         /\ \A i \in 1..Cardinality(S) : \E k \in S : Rank(S, k) = i - 1
  <1> DEFINE n == Cardinality(S)
             Below(k) == {j \in S : j < k}
             r == [k \in S |-> Rank(S, k)]
  <1>1. n \in Nat BY FS_CardinalityType
  <1>2. ASSUME NEW k \in S
        PROVE  Below(k) \in SUBSET S /\ IsFiniteSet(Below(k)) /\ Rank(S, k) \in 0..n - 1
    <2>1. Below(k) \in SUBSET S /\ Below(k) # S BY k \notin Below(k)
    <2>2. IsFiniteSet(Below(k)) /\ Cardinality(Below(k)) <= n /\ Cardinality(Below(k)) # n
      BY <2>1, FS_Subset
    <2>3. Cardinality(Below(k)) \in Nat BY <2>2, FS_CardinalityType
    <2> QED BY <1>1, <2>1, <2>2, <2>3 DEF Rank
  <1>3. ASSUME NEW k \in S, NEW l \in S, k < l PROVE Rank(S, k) < Rank(S, l)
    <2> DEFINE A == Below(k)
               B == Below(l)
    <2>1. k \in Nat /\ l \in Nat /\ \A j \in S : j \in Nat OBVIOUS
    <2>2. \A j \in S : j < k => j < l BY <1>3, <2>1
    <2>3. A \in SUBSET B /\ k \in B /\ k \notin A
      <3>1. A \subseteq B BY <2>2
      <3>2. k \in B BY <1>3
      <3>3. k \notin A BY <2>1
      <3> QED BY <3>1, <3>2, <3>3
    <2>4. IsFiniteSet(B) /\ Rank(S, k) = Cardinality(A) /\ Rank(S, l) = Cardinality(B)
          /\ Rank(S, k) \in Nat /\ Rank(S, l) \in Nat
      BY <1>1, <1>2 DEF Rank
    <2> HIDE DEF A, B
    <2>5. Cardinality(A) <= Cardinality(B) /\ (Cardinality(A) = Cardinality(B) => A = B)
      BY <2>3, <2>4, FS_Subset
    <2> QED BY <2>3, <2>4, <2>5
  <1> HIDE DEF Below
  <1>4. r \in [S -> 0..n - 1] BY <1>2
  <1>5. ASSUME NEW k \in S, NEW l \in S, r[k] = r[l] PROVE k = l
    <2>1. k \in Nat /\ l \in Nat /\ Rank(S, k) = Rank(S, l) /\ Rank(S, k) \in Nat
      BY <1>1, <1>2, <1>5
    <2>2. ~(k < l) /\ ~(l < k) BY <1>3, <2>1
    <2> QED BY <2>1, <2>2
  <1> HIDE DEF r
  <1>6. r \in Injection(S, 0..n - 1) BY <1>4, <1>5 DEF Injection, IsInjective
  <1>7. IsFiniteSet(0..n - 1) /\ Cardinality(0..n - 1) = n
    <2>1. n - 1 \in Int /\ 0 \in Int BY <1>1
    <2> HIDE DEF n
    <2>2. IsFiniteSet(0..n - 1) /\ Cardinality(0..n - 1) = IF 0 > n - 1 THEN 0 ELSE (n - 1) - 0 + 1
      BY <2>1, FS_Interval
    <2> QED BY <1>1, <2>2
  <1>8. r \in Surjection(S, 0..n - 1) BY <1>6, <1>7, FS_Injection
  <1>9. ASSUME NEW i \in 1..n PROVE \E k \in S : Rank(S, k) = i - 1
    <2>1. i - 1 \in 0..n - 1 BY <1>1
    <2>2. \E k \in S : r[k] = i - 1 BY <1>8, <2>1 DEF Surjection
    <2> QED BY <2>2 DEF r
  <1> QED BY <1>1, <1>2, <1>3, <1>9

\* InOrder enumerates the set, each member once, in increasing order.
LEMMA InOrderFacts ==
  ASSUME NEW S, S \subseteq Nat, IsFiniteSet(S)
  PROVE  /\ Cardinality(S) \in Nat
         /\ InOrder(S) \in [1..Cardinality(S) -> S]
         /\ \A i, j \in 1..Cardinality(S) : InOrder(S)[i] < InOrder(S)[j] <=> i < j
         /\ \A k \in S : \E i \in 1..Cardinality(S) : InOrder(S)[i] = k
         /\ \A i \in 1..Cardinality(S), k \in S : InOrder(S)[i] = k <=> Rank(S, k) = i - 1
  <1> DEFINE n == Cardinality(S)
             nth(i) == CHOOSE k \in S : Rank(S, k) = i - 1
             s == InOrder(S)
  <1>1. /\ n \in Nat
        /\ \A k \in S : Rank(S, k) \in 0..n - 1
        /\ \A k, l \in S : k < l => Rank(S, k) < Rank(S, l)
        /\ \A i \in 1..n : \E k \in S : Rank(S, k) = i - 1
    BY RankFacts
  <1>2. s = [i \in 1..n |-> nth(i)] BY DEF InOrder, Rank
  <1>3. \A i \in 1..n : nth(i) \in S /\ Rank(S, nth(i)) = i - 1
    BY <1>1
  <1> HIDE DEF n, nth, s
  <1>4. s \in [1..n -> S] /\ \A i \in 1..n : Rank(S, s[i]) = i - 1
    BY <1>2, <1>3
  <1>5. ASSUME NEW k \in S, NEW l \in S, Rank(S, k) = Rank(S, l) PROVE k = l
    <2>1. k \in Nat /\ l \in Nat /\ Rank(S, k) \in Nat BY <1>1
    <2>2. ~(k < l) /\ ~(l < k) BY <1>1, <1>5, <2>1
    <2> QED BY <2>1, <2>2
  <1>6. \A i \in 1..n, k \in S : s[i] = k <=> Rank(S, k) = i - 1 BY <1>4, <1>5
  <1>7. ASSUME NEW k \in S PROVE \E i \in 1..n : s[i] = k
    <2>1. Rank(S, k) + 1 \in 1..n /\ Rank(S, k) = (Rank(S, k) + 1) - 1 BY <1>1
    <2> QED BY <1>6, <2>1
  <1>8. ASSUME NEW i \in 1..n, NEW j \in 1..n PROVE s[i] < s[j] <=> i < j
    <2>1. PICK k \in S, l \in S : s[i] = k /\ s[j] = l /\ Rank(S, k) = i - 1 /\ Rank(S, l) = j - 1
      BY <1>4
    <2>2. k \in Nat /\ l \in Nat OBVIOUS
    <2>3. k < l => i - 1 < j - 1 BY <1>1, <2>1
    <2>4. l < k => j - 1 < i - 1 BY <1>1, <2>1
    <2>5. k = l => i - 1 = j - 1 BY <2>1
    <2> QED BY <1>1, <2>1, <2>2, <2>3, <2>4, <2>5
  <1> QED BY <1>1, <1>4, <1>6, <1>7, <1>8 DEF n, s

LEMMA InOrderEmpty == InOrder({}) = <<>>
  BY FS_EmptySet DEF InOrder

\* A new largest number comes last.
LEMMA InOrderAppend ==
  ASSUME NEW S, S \subseteq Nat, IsFiniteSet(S), NEW m \in Nat, \A k \in S : k < m
  PROVE  InOrder(S \cup {m}) = Append(InOrder(S), m)
  <1> DEFINE T == S \cup {m}
             n == Cardinality(S)
             s == InOrder(S)
             t == InOrder(T)
  <1>1. T \subseteq Nat /\ IsFiniteSet(T) /\ Cardinality(T) = n + 1 /\ n \in Nat
    BY FS_AddElement, FS_CardinalityType
  <1>2. ASSUME NEW k \in S PROVE Rank(T, k) = Rank(S, k)
    <2>1. k < m /\ k \in Nat /\ ~(m < k) OBVIOUS
    <2>2. {j \in T : j < k} = {j \in S : j < k} BY <2>1
    <2> QED BY <2>2 DEF Rank
  <1>3. Rank(T, m) = n
    <2>1. ~(m < m) OBVIOUS
    <2>2. {j \in T : j < m} = S BY <2>1
    <2> QED BY <2>2 DEF Rank
  <1>4. m \in T /\ S \subseteq T /\ T \subseteq Nat /\ s = InOrder(S) /\ t = InOrder(T) OBVIOUS
  <1>5. s \in [1..n -> S] /\ \A i \in 1..n, k \in S : s[i] = k <=> Rank(S, k) = i - 1
    BY InOrderFacts
  <1> HIDE DEF T
  <1>6. t \in [1..n + 1 -> T] /\ \A i \in 1..n + 1, k \in T : t[i] = k <=> Rank(T, k) = i - 1
    BY <1>1, InOrderFacts
  <1> HIDE DEF s, t, n
  <1>7. ASSUME NEW i \in 1..n PROVE t[i] = s[i]
    <2>1. i \in 1..n + 1 BY <1>1
    <2>2. PICK k \in S : s[i] = k BY <1>5
    <2>3. k \in T /\ Rank(T, k) = i - 1 BY <1>2, <1>4, <1>5, <2>2
    <2> QED BY <1>6, <2>1, <2>2, <2>3
  <1>8. t[n + 1] = m
    <2>1. n + 1 \in 1..n + 1 /\ n = (n + 1) - 1 BY <1>1
    <2> QED BY <1>3, <1>4, <1>6, <2>1
  <1>9. s \in [1..n -> Nat] BY <1>5
  <1>10. s \in Seq(Nat) /\ Len(s) = n BY <1>1, <1>9
  <1>11. /\ Append(s, m) \in Seq(Nat) /\ Len(Append(s, m)) = n + 1
         /\ Append(s, m)[n + 1] = m /\ \A i \in 1..n : Append(s, m)[i] = s[i]
    BY <1>10, AppendProperties
  <1>12. t \in [1..n + 1 -> Nat] BY <1>1, <1>6
  <1>13. t \in Seq(Nat) /\ Len(t) = n + 1 BY <1>1, <1>12
  <1>14. \A i \in 1..n + 1 : t[i] = Append(s, m)[i]
    <2> SUFFICES ASSUME NEW i \in 1..n + 1 PROVE t[i] = Append(s, m)[i] OBVIOUS
    <2>1. i = n + 1 \/ i \in 1..n BY <1>1
    <2> QED BY <1>7, <1>8, <1>11, <2>1
  <1>15. t = Append(s, m) BY <1>11, <1>13, <1>14, SeqEqual
  <1> QED BY <1>4, <1>15 DEF T

\* Numbers.
LEMMA Divide ==
  ASSUME NEW a \in Nat, NEW b \in Nat \ {0}
  PROVE  a \div b \in Nat /\ (a \div b) * b <= a /\ a < (a \div b) * b + b
  OBVIOUS

LEMMA Multiply ==
  ASSUME NEW a \in Nat, NEW b \in Nat, NEW c \in Nat
  PROVE  a * c \in Nat /\ (a + 1) * c = a * c + c /\ (a <= b => a * c <= b * c)
         /\ (a < b => a * c + c <= b * c)
  <1>1. a * c \in Nat /\ b * c \in Nat /\ (a + 1) * c = a * c + c OBVIOUS
  <1>2. ASSUME a <= b PROVE a * c <= b * c
    <2>1. PICK d \in Nat : b = a + d
      <3>1. b - a \in Nat /\ b = a + (b - a) BY <1>2
      <3> QED BY <3>1
    <2>2. b * c = a * c + d * c /\ d * c \in Nat BY <2>1
    <2> QED BY <1>1, <2>2
  <1>3. ASSUME a < b PROVE a * c + c <= b * c
    <2>1. PICK d \in Nat : b = (a + 1) + d
      <3>1. b - (a + 1) \in Nat /\ b = (a + 1) + (b - (a + 1)) BY <1>3
      <3> QED BY <3>1
    <2>2. b * c = (a * c + c) + d * c /\ d * c \in Nat BY <2>1
    <2> QED BY <1>1, <2>2
  <1> QED BY <1>1, <1>2, <1>3

\* A list that is cut: where the chunks begin and end.
LEMMA ChunkPlaces ==
  ASSUME NEW count \in Nat \ {0}, NEW size, size = ChunkSize(count),
         NEW number, number = (count + size - 1) \div size
  PROVE  /\ size \in Nat \ {0} /\ number \in 1..MaxBuckets
         /\ \A n \in 1..number : (n - 1) * size \in Nat /\ (n - 1) * size < count /\ n * size = (n - 1) * size + size
         /\ \A m, n \in 1..number : m < n => m * size <= (n - 1) * size
         /\ \A q \in 1..count : \E n \in 1..number : (n - 1) * size < q /\ q <= n * size
  <1> DEFINE most == Least(MaxBuckets, count)
  <1>1. most \in Nat \ {0} /\ most <= MaxBuckets /\ MaxBuckets \in Nat
    BY DocumentConstants DEF Least, DocumentConstants
  <1>2. size = (count + most - 1) \div most BY DEF ChunkSize
  <1> HIDE DEF most
  <1>3. size \in Nat /\ count + most - 1 < size * most + most
    <2>1. count + most - 1 \in Nat BY <1>1
    <2> QED BY <1>1, <1>2, <2>1, Divide
  <1>4. size # 0 /\ count <= size * most
    <2>1. size * most \in Nat BY <1>1, <1>3, Multiply
    <2>2. count <= size * most BY <1>1, <1>3, <2>1
    <2>3. size = 0 => size * most = 0 BY <1>1
    <2> QED BY <2>2, <2>3
  <1>5. number \in Nat /\ number * size <= count + size - 1 /\ count + size - 1 < number * size + size
    <2>1. count + size - 1 \in Nat BY <1>3, <1>4
    <2> QED BY <1>3, <1>4, <2>1, Divide
  <1>6. number * size \in Nat /\ count <= number * size BY <1>3, <1>5, Multiply
  <1>7. number # 0
    <2>1. 0 * size = 0 BY <1>3
    <2> QED BY <1>6, <2>1
  <1>8. number - 1 \in Nat /\ (number - 1) * size \in Nat /\ number * size = (number - 1) * size + size
    <2>1. number - 1 \in Nat /\ (number - 1) + 1 = number BY <1>5, <1>7
    <2> QED BY <1>3, <2>1, Multiply
  <1>9. (number - 1) * size < count BY <1>3, <1>5, <1>8
  <1>10. number <= most
    <2>1. most <= number - 1 => most * size <= (number - 1) * size BY <1>1, <1>3, <1>8, Multiply
    <2>2. most * size = size * most BY <1>1, <1>3
    <2>3. most * size \in Nat BY <1>1, <1>3, Multiply
    <2> QED BY <1>1, <1>4, <1>5, <1>8, <1>9, <2>1, <2>2, <2>3
  <1>11. ASSUME NEW n \in 1..number
         PROVE  (n - 1) * size \in Nat /\ (n - 1) * size < count /\ n * size = (n - 1) * size + size
    <2>1. n - 1 \in Nat /\ (n - 1) + 1 = n /\ n - 1 <= number - 1 BY <1>5
    <2>2. (n - 1) * size \in Nat /\ n * size = (n - 1) * size + size
      BY <1>3, <2>1, Multiply
    <2>3. (n - 1) * size <= (number - 1) * size BY <1>3, <1>8, <2>1, Multiply
    <2> QED BY <1>8, <1>9, <2>2, <2>3
  <1>12. ASSUME NEW m \in 1..number, NEW n \in 1..number, m < n
         PROVE  m * size <= (n - 1) * size
    <2>1. m \in Nat /\ n - 1 \in Nat /\ m <= n - 1 BY <1>5, <1>12
    <2> QED BY <1>3, <2>1, Multiply
  <1>13. ASSUME NEW q \in 1..count
         PROVE  \E n \in 1..number : (n - 1) * size < q /\ q <= n * size
    <2> DEFINE d == (q - 1) \div size
    <2>1. d \in Nat /\ d * size <= q - 1 /\ q - 1 < d * size + size
      <3>1. q - 1 \in Nat OBVIOUS
      <3> QED BY <1>3, <1>4, <3>1, Divide
    <2> HIDE DEF d
    <2>2. d * size \in Nat /\ (d + 1) * size = d * size + size BY <1>3, <2>1, Multiply
    <2>3. number <= d => number * size <= d * size BY <1>3, <1>5, <2>1, Multiply
    <2>4. d + 1 \in 1..number BY <1>5, <1>6, <2>1, <2>2, <2>3
    <2>5. (d + 1) - 1 = d BY <2>1
    <2>6. d * size < q /\ q <= (d + 1) * size BY <1>3, <2>1, <2>2
    <2> QED BY <2>4, <2>5, <2>6
  <1>14. size \in Nat \ {0} /\ number \in 1..MaxBuckets BY <1>1, <1>3, <1>4, <1>5, <1>7, <1>10
  <1> QED BY <1>11, <1>12, <1>13, <1>14

-----------------------------------------------------------------------------
(* Groups of items.                                                         *)

\* Sequences that are not empty and go up, one after the other.
Grouped(g) ==
    /\ g \in Seq(Seq(Nat)) /\ \A n \in 1..Len(g) : g[n] # <<>>
    /\ \A n \in 1..Len(g) : \A i, j \in 1..Len(g[n]) : i < j => g[n][i] < g[n][j]
    /\ \A m, n \in 1..Len(g) : m < n =>
          \A i \in 1..Len(g[m]), j \in 1..Len(g[n]) : g[m][i] < g[n][j]

\* The order of the items is that of the groups, and in a group that of its places.
LEMMA GroupedOrder ==
  ASSUME NEW g, Grouped(g), NEW m \in 1..Len(g), NEW n \in 1..Len(g),
         NEW i \in 1..Len(g[m]), NEW j \in 1..Len(g[n])
  PROVE  g[m][i] < g[n][j] <=> m < n \/ (m = n /\ i < j)
  <1>1. g[m] \in Seq(Nat) /\ g[n] \in Seq(Nat) BY DEF Grouped
  <1>2. g[m][i] \in Nat /\ g[n][j] \in Nat /\ i \in Nat /\ j \in Nat BY <1>1
  <1>3. m < n => g[m][i] < g[n][j] BY DEF Grouped
  <1>4. n < m => g[n][j] < g[m][i] BY DEF Grouped
  <1>5. CASE m = n
    <2>1. i < j => g[m][i] < g[n][j] BY <1>5 DEF Grouped
    <2>2. j < i => g[n][j] < g[m][i] BY <1>5 DEF Grouped
    <2>3. i = j => g[n][j] = g[m][i] BY <1>5
    <2> QED BY <1>2, <1>5, <2>1, <2>2, <2>3
  <1>6. CASE m < n BY <1>2, <1>3, <1>6
  <1>7. CASE n < m BY <1>2, <1>4, <1>7
  <1> QED BY <1>5, <1>6, <1>7

LEMMA ChunksAreGroups ==
  ASSUME NEW list \in Seq(Nat), list # <<>>,
         \A i, j \in 1..Len(list) : i < j => list[i] < list[j]
  PROVE  /\ Grouped(Chunks(list)) /\ Len(Chunks(list)) \in 1..MaxBuckets
         /\ \A k \in 1..Len(list) : \E n \in 1..Len(Chunks(list)) :
               \E i \in 1..Len(Chunks(list)[n]) : Chunks(list)[n][i] = list[k]
  <1> DEFINE count == Len(list)
             size == ChunkSize(count)
             number == (count + size - 1) \div size
             low(n) == (n - 1) * size
             high(n) == n * size
             chunk(n) == SubSeq(list, low(n) + 1, Least(high(n), count))
             g == Chunks(list)
  <1>1. count \in Nat \ {0} BY EmptySeq
  <1>2. /\ size \in Nat \ {0} /\ number \in 1..MaxBuckets
        /\ \A n \in 1..number : low(n) \in Nat /\ low(n) < count /\ high(n) = low(n) + size
        /\ \A m, n \in 1..number : m < n => high(m) <= low(n)
        /\ \A q \in 1..count : \E n \in 1..number : low(n) < q /\ q <= high(n)
    <2> HIDE DEF count
    <2> QED BY <1>1, ChunkPlaces
  <1>3. g = [n \in 1..number |-> chunk(n)] BY DEF Chunks
  <1> HIDE DEF g, size, number, low, high
  <1>4. ASSUME NEW n \in 1..number
        PROVE  /\ chunk(n) \in Seq(Nat)
               /\ Len(chunk(n)) = Least(high(n), count) - low(n)
               /\ Len(chunk(n)) \in Nat \ {0}
               /\ \A i \in 1..Len(chunk(n)) :
                     low(n) + i \in 1..count /\ low(n) + i <= high(n) /\ chunk(n)[i] = list[low(n) + i]
    <2> DEFINE from == low(n)
               to == Least(high(n), count)
    <2>1. from \in Nat /\ from < count /\ high(n) = from + size BY <1>2
    <2>2. to \in Nat /\ from + 1 <= to /\ to <= count /\ to <= high(n)
      <3>1. high(n) \in Nat /\ from + 1 <= high(n) /\ from + 1 <= count /\ count \in Nat
        BY <1>1, <1>2, <2>1
      <3> HIDE DEF from, count
      <3> QED BY <3>1 DEF Least
    <2>3. \A i \in from + 1..to : list[i] \in Nat
      <3>1. \A i \in 1..count : list[i] \in Nat OBVIOUS
      <3> QED BY <2>1, <2>2, <3>1
    <2> HIDE DEF from, to, count
    <2>4. /\ SubSeq(list, from + 1, to) \in Seq(Nat)
          /\ Len(SubSeq(list, from + 1, to)) = to - from
          /\ \A i \in 1..to - from : SubSeq(list, from + 1, to)[i] = list[from + i]
      <3>1. from + 1 \in Int /\ to \in Int BY <2>1, <2>2
      <3>2. /\ SubSeq(list, from + 1, to) \in Seq(Nat)
            /\ Len(SubSeq(list, from + 1, to)) = IF from + 1 <= to THEN to - (from + 1) + 1 ELSE 0
            /\ \A i \in 1..to - (from + 1) + 1 : SubSeq(list, from + 1, to)[i] = list[from + 1 + i - 1]
        BY <2>3, <3>1, SubSeqProperties
      <3>3. to - (from + 1) + 1 = to - from /\ \A i \in Int : from + 1 + i - 1 = from + i BY <2>1, <2>2
      <3> QED BY <2>1, <2>2, <3>2, <3>3
    <2>5. to - from \in Nat \ {0} /\ \A i \in 1..to - from : from + i \in 1..count /\ from + i <= high(n)
      <3>1. high(n) \in Nat BY <1>2, <2>1
      <3> QED BY <1>1, <2>1, <2>2, <3>1
    <2> QED BY <2>4, <2>5 DEF from, to
  <1>0. \A i, j \in 1..count : i < j => list[i] < list[j] OBVIOUS
  <1> HIDE DEF chunk, count
  <1>5. g \in [1..number -> Seq(Nat)] /\ number \in Nat BY <1>2, <1>3, <1>4
  <1>6. g \in Seq(Seq(Nat)) /\ Len(g) = number BY <1>5
  <1>7. ASSUME NEW n \in 1..number, NEW i \in 1..Len(g[n]), NEW j \in 1..Len(g[n]), i < j
        PROVE  g[n][i] < g[n][j]
    <2>1. g[n] = chunk(n) BY <1>3
    <2>2. low(n) + i < low(n) + j BY <1>2, <1>4, <1>7, <2>1
    <2>3. low(n) + i \in 1..count /\ low(n) + j \in 1..count BY <1>4, <2>1
    <2>4. g[n][i] = list[low(n) + i] /\ g[n][j] = list[low(n) + j] BY <1>4, <2>1
    <2> QED BY <1>0, <2>2, <2>3, <2>4
  <1>8. ASSUME NEW m \in 1..number, NEW n \in 1..number, m < n,
               NEW i \in 1..Len(g[m]), NEW j \in 1..Len(g[n])
        PROVE  g[m][i] < g[n][j]
    <2>1. g[n] = chunk(n) /\ g[m] = chunk(m) BY <1>3
    <2>2. /\ low(m) + i <= high(m) /\ high(m) <= low(n)
          /\ low(m) \in Nat /\ low(n) \in Nat /\ high(m) = low(m) + size
      BY <1>2, <1>4, <1>8, <2>1
    <2>3. i \in Nat /\ j \in Nat \ {0} /\ Len(chunk(m)) \in Nat /\ Len(chunk(n)) \in Nat
      BY <1>4, <2>1
    <2>4. low(m) + i < low(n) + j BY <1>2, <2>2, <2>3
    <2>5. low(m) + i \in 1..count /\ low(n) + j \in 1..count BY <1>4, <2>1
    <2>6. g[m][i] = list[low(m) + i] /\ g[n][j] = list[low(n) + j] BY <1>4, <2>1
    <2> QED BY <1>0, <2>4, <2>5, <2>6
  <1>9. ASSUME NEW k \in 1..count PROVE \E n \in 1..number : \E i \in 1..Len(g[n]) : g[n][i] = list[k]
    <2>1. PICK n \in 1..number : low(n) < k /\ k <= high(n) BY <1>2
    <2> DEFINE i == k - low(n)
    <2>2. low(n) \in Nat /\ high(n) = low(n) + size BY <1>2
    <2>3. i \in 1..Len(chunk(n))
      <3>1. Len(chunk(n)) = Least(high(n), count) - low(n) BY <1>4
      <3>4. high(n) \in Nat
        <4>1. size \in Nat BY <1>2
        <4> QED BY <2>2, <4>1
      <3>2. k \in 1..count /\ count \in Nat BY <1>1
      <3>3. k <= Least(high(n), count) /\ Least(high(n), count) \in Nat BY <2>1, <3>4, <3>2 DEF Least
      <3> QED BY <2>1, <2>2, <3>1, <3>2, <3>3
    <2>4. low(n) + i = k BY <2>1, <2>2
    <2>5. g[n] = chunk(n) BY <1>3
    <2> HIDE DEF i
    <2>6. chunk(n)[i] = list[k] BY <1>4, <2>3, <2>4
    <2> QED BY <2>3, <2>5, <2>6
  <1>10. \A n \in 1..number : g[n] # <<>>
    <2> SUFFICES ASSUME NEW n \in 1..number PROVE g[n] # <<>> OBVIOUS
    <2>1. g[n] = chunk(n) /\ Len(chunk(n)) # 0 BY <1>3, <1>4
    <2> QED BY <2>1, EmptySeq
  <1> QED BY <1>2, <1>6, <1>7, <1>8, <1>9, <1>10 DEF Grouped, g, count

\* The lines of a reply.
LEMMA LineFacts ==
  ASSUME NEW text \in Seq(LineKinds)
  PROVE  /\ DOMAIN text \subseteq Nat \ {0} /\ IsFiniteSet(DOMAIN text)
         /\ \A S \in SUBSET DOMAIN text : S \subseteq Nat /\ IsFiniteSet(S)
         /\ ItemLines(text) \subseteq DOMAIN text /\ Headed(text) \subseteq DOMAIN text
         /\ \A h : Under(text, h) \subseteq ItemLines(text)
  <1>1. DOMAIN text = 1..Len(text) /\ Len(text) \in Nat BY LenProperties
  <1>2. IsFiniteSet(1..Len(text)) BY <1>1, FS_Interval
  <1>3. DOMAIN text \subseteq Nat \ {0} BY <1>1
  <1>4. \A S \in SUBSET DOMAIN text : S \subseteq Nat /\ IsFiniteSet(S)
    BY <1>1, <1>2, <1>3, FS_Subset
  <1> QED BY <1>1, <1>2, <1>3, <1>4 DEF ItemLines, Headed, Under

\* The items under a heading.
LEMMA SectionItemsFacts ==
  ASSUME NEW text \in Seq(LineKinds), NEW h \in Headed(text)
  PROVE  /\ h \in Nat
         /\ SectionItems(text, h) \in Seq(Nat) /\ SectionItems(text, h) # <<>>
         /\ \A i \in 1..Len(SectionItems(text, h)) : SectionItems(text, h)[i] \in Under(text, h)
         /\ \A i, j \in 1..Len(SectionItems(text, h)) :
               i < j => SectionItems(text, h)[i] < SectionItems(text, h)[j]
  <1> DEFINE U == Under(text, h)
             s == SectionItems(text, h)
  <1>1. U \subseteq Nat /\ IsFiniteSet(U) /\ h \in Nat BY LineFacts
  <1>2. U # {} BY DEF Headed
  <1>3. s = InOrder(U) BY DEF SectionItems
  <1> HIDE DEF U, s
  <1>4. /\ Cardinality(U) \in Nat /\ s \in [1..Cardinality(U) -> U]
        /\ \A i, j \in 1..Cardinality(U) : s[i] < s[j] <=> i < j
    BY <1>1, <1>3, InOrderFacts
  <1>5. Cardinality(U) # 0 BY <1>1, <1>2, FS_EmptySet
  <1>6. s \in [1..Cardinality(U) -> Nat] BY <1>1, <1>4
  <1>7. s \in Seq(Nat) /\ Len(s) = Cardinality(U) BY <1>4, <1>6
  <1>8. s # <<>> BY <1>5, <1>7, EmptySeq
  <1> QED BY <1>1, <1>4, <1>7, <1>8 DEF U, s

\* Items under different headings.
LEMMA SectionsFollow ==
  ASSUME NEW text \in Seq(LineKinds), NEW h \in Headed(text), NEW g \in Headed(text), h < g,
         NEW k \in Under(text, h), NEW l \in Under(text, g)
  PROVE  k < l
  <1>1. h \in Nat /\ g \in Nat /\ k \in Nat /\ l \in Nat BY LineFacts
  <1>2. text[g] \in Marks /\ g < l /\ \A j \in h + 1..k : text[j] \notin Marks
    BY DEF Headed, Under, Marks
  <1>3. ~(g <= k) BY <1>1, <1>2
  <1> QED BY <1>1, <1>2, <1>3

LEMMA SectionsAreGroups ==
  ASSUME NEW text \in Seq(LineKinds)
  PROVE  Grouped(Sections(text))
  <1> DEFINE H == Headed(text)
             order == InOrder(H)
             s == Sections(text)
             n == Cardinality(H)
  <1>1. H \subseteq Nat /\ IsFiniteSet(H) BY LineFacts
  <1>2. n \in Nat /\ order \in [1..n -> H] /\ \A i, j \in 1..n : order[i] < order[j] <=> i < j
    BY <1>1, InOrderFacts
  <1>3. s = [i \in DOMAIN order |-> SectionItems(text, order[i])] BY DEF Sections, SectionsOf
  <1> HIDE DEF H, order, s, n
  <1>4. DOMAIN order = 1..n BY <1>2
  <1>5. \A i \in 1..n : s[i] = SectionItems(text, order[i]) /\ order[i] \in Headed(text)
    BY <1>2, <1>3, <1>4 DEF H
  <1>6. \A i \in 1..n : s[i] \in Seq(Nat) /\ s[i] # <<>> BY <1>5, SectionItemsFacts
  <1>7. s \in [1..n -> Seq(Nat)] BY <1>3, <1>4, <1>6
  <1>8. s \in Seq(Seq(Nat)) /\ Len(s) = n BY <1>2, <1>7
  <1>9. ASSUME NEW i \in 1..n, NEW k \in 1..Len(s[i]), NEW l \in 1..Len(s[i]), k < l
        PROVE  s[i][k] < s[i][l]
    BY <1>5, <1>9, SectionItemsFacts
  <1>10. ASSUME NEW i \in 1..n, NEW j \in 1..n, i < j, NEW k \in 1..Len(s[i]), NEW l \in 1..Len(s[j])
         PROVE  s[i][k] < s[j][l]
    <2>1. order[i] < order[j] BY <1>2, <1>10
    <2>2. s[i][k] \in Under(text, order[i]) /\ s[j][l] \in Under(text, order[j])
      BY <1>5, SectionItemsFacts
    <2> QED BY <1>5, <2>1, <2>2, SectionsFollow
  <1> QED BY <1>6, <1>8, <1>9, <1>10 DEF Grouped, s

\* The items of a reply.
LEMMA ItemsOfFacts ==
  ASSUME NEW text \in Seq(LineKinds)
  PROVE  /\ ItemsOf(text) \in Seq(Nat)
         /\ \A i, j \in 1..Len(ItemsOf(text)) : i < j => ItemsOf(text)[i] < ItemsOf(text)[j]
  <1> DEFINE U == ItemLines(text)
             s == ItemsOf(text)
  <1>1. U \subseteq Nat /\ IsFiniteSet(U) BY LineFacts
  <1>2. s = InOrder(U) BY DEF ItemsOf
  <1> HIDE DEF U, s
  <1>3. /\ Cardinality(U) \in Nat /\ s \in [1..Cardinality(U) -> U]
        /\ \A i, j \in 1..Cardinality(U) : s[i] < s[j] <=> i < j
    BY <1>1, <1>2, InOrderFacts
  <1>4. s \in [1..Cardinality(U) -> Nat] BY <1>1, <1>3
  <1>5. s \in Seq(Nat) /\ Len(s) = Cardinality(U) BY <1>3, <1>4
  <1> QED BY <1>3, <1>5 DEF s

\* What is read out in groups.
LEMMA BucketsAreGroups ==
  ASSUME NEW text \in Seq(LineKinds)
  PROVE  /\ Grouped(Buckets(text)) /\ Len(Buckets(text)) \in 0..MaxBuckets
         /\ ItemsOf(text) # <<>> => Buckets(text) # <<>>
         /\ Sections(text) = <<>> =>
               \A k \in 1..Len(ItemsOf(text)) : \E n \in 1..Len(Buckets(text)) :
                  \E i \in 1..Len(Buckets(text)[n]) : Buckets(text)[n][i] = ItemsOf(text)[k]
  <1>1. MaxBuckets \in Nat \ {0} BY DocumentConstants DEF DocumentConstants
  <1>2. CASE Sections(text) # <<>>
    <2> DEFINE s == Sections(text)
               top == Least(MaxBuckets, Len(s))
               g == Buckets(text)
    <2>1. Grouped(s) BY SectionsAreGroups
    <2>2. s \in Seq(Seq(Nat)) /\ Len(s) \in Nat BY <2>1 DEF Grouped
    <2>3. g = SubSeq(s, 1, top) BY <1>2 DEF Buckets
    <2>4. top \in Nat /\ top <= Len(s) /\ top <= MaxBuckets BY <1>1, <2>2 DEF Least
    <2> HIDE DEF g, s, top
    <2>5. \A i \in 1..top : s[i] \in Seq(Nat) BY <2>2, <2>4
    <2>6. g \in Seq(Seq(Nat)) /\ Len(g) = top /\ \A i \in 1..top : g[i] = s[i]
      <3>1. /\ g \in Seq(Seq(Nat)) /\ Len(g) = IF 1 <= top THEN top - 1 + 1 ELSE 0
            /\ \A i \in 1..top - 1 + 1 : g[i] = s[1 + i - 1]
        BY <2>3, <2>4, <2>5, SubSeqProperties
      <3>2. top - 1 + 1 = top /\ (~(1 <= top) => top = 0) /\ \A i \in Int : 1 + i - 1 = i BY <2>4
      <3> QED BY <3>1, <3>2
    <2>7. 1..top \subseteq 1..Len(s) BY <2>2, <2>4
    <2>9. g # <<>>
      <3>1. s # <<>> BY <1>2 DEF s
      <3>2. Len(s) # 0 BY <2>2, <3>1, EmptySeq
      <3>3. top # 0 BY <1>1, <2>2, <3>2 DEF Least, top
      <3> QED BY <2>6, <3>3, EmptySeq
    <2>8. Grouped(g) BY <2>1, <2>6, <2>7 DEF Grouped
    <2> QED BY <1>1, <1>2, <2>4, <2>6, <2>8, <2>9 DEF g
  <1>3. CASE Sections(text) = <<>> /\ ItemsOf(text) = <<>>
    <2>1. Buckets(text) = <<>> BY <1>3 DEF Buckets, Chunks
    <2>2. Grouped(<<>>) BY DEF Grouped
    <2>3. 1..Len(ItemsOf(text)) = {} BY <1>3
    <2> QED BY <1>1, <1>3, <2>1, <2>2, <2>3
  <1>4. CASE Sections(text) = <<>> /\ ItemsOf(text) # <<>>
    <2>1. Buckets(text) = Chunks(ItemsOf(text)) BY <1>4 DEF Buckets
    <2> DEFINE list == ItemsOf(text)
    <2>2. /\ list \in Seq(Nat) /\ list # <<>>
          /\ \A i, j \in 1..Len(list) : i < j => list[i] < list[j]
      BY <1>4, ItemsOfFacts
    <2> HIDE DEF list
    <2>3. /\ Grouped(Chunks(list)) /\ Len(Chunks(list)) \in 1..MaxBuckets
          /\ \A k \in 1..Len(list) : \E n \in 1..Len(Chunks(list)) :
                \E i \in 1..Len(Chunks(list)[n]) : Chunks(list)[n][i] = list[k]
      BY <2>2, ChunksAreGroups
    <2>4. Len(Chunks(list)) \in 0..MaxBuckets BY <1>1, <2>3
    <2>5. Chunks(list) # <<>> BY <2>3, EmptySeq
    <2> QED BY <2>1, <2>3, <2>4, <2>5 DEF list
  <1> QED BY <1>2, <1>3, <1>4

-----------------------------------------------------------------------------
(* The parser's loop.                                                       *)

Headings(text) == {h \in DOMAIN text : text[h] \in Marks}
Titled(text) == {h \in DOMAIN text : text[h] = "heading"}
Spoken == {"item", "long"}

\* A heading has a title, or not; those with items have one.
LEMMA TitledFacts ==
  ASSUME NEW text
  PROVE  /\ Titled(text) \subseteq Headings(text) /\ Headings(text) \subseteq DOMAIN text
         /\ \A h : h \in Headed(text) <=> h \in Titled(text) /\ Under(text, h) # {}
  BY DEF Titled, Headings, Headed, Marks

\* more is text with one more line, of this kind.
OneMore(text, more, kind) ==
    LET n == Len(text) + 1 IN
    /\ more \in Seq(LineKinds) /\ n \in Nat /\ Len(more) = n /\ n \notin DOMAIN text
    /\ DOMAIN more = DOMAIN text \cup {n} /\ \A k \in DOMAIN text : k < n
    /\ ItemLines(more) = ItemLines(text) \cup (IF kind \in Spoken THEN {n} ELSE {})
    /\ Headings(more) = Headings(text) \cup (IF kind \in Marks THEN {n} ELSE {})
    /\ Titled(more) = Titled(text) \cup (IF kind = "heading" THEN {n} ELSE {})
    /\ Under(more, n) = {}
    /\ \A h \in DOMAIN text :
          Under(more, h) = Under(text, h) \cup
             (IF kind \in Spoken /\ \A g \in Headings(text) : g <= h THEN {n} ELSE {})

\* What one more line changes.
LEMMA OneMoreLine ==
  ASSUME NEW text \in Seq(LineKinds), NEW kind \in LineKinds
  PROVE  OneMore(text, Append(text, kind), kind)
  <1> DEFINE more == Append(text, kind)
             n == Len(text) + 1
             len == Len(text)
  <1>1. len \in Nat /\ DOMAIN text = 1..len BY LenProperties
  <1>2. /\ more \in Seq(LineKinds) /\ Len(more) = n /\ DOMAIN more = 1..n /\ more[n] = kind
        /\ \A k \in 1..len : more[k] = text[k]
    BY <1>1, AppendProperties, LenProperties
  <1>3. n \in Nat /\ n = len + 1 /\ 1..n = 1..len \cup {n} /\ n \notin 1..len BY <1>1
  <1> HIDE DEF len, more, n
  <1>4. ItemLines(more) = ItemLines(text) \cup (IF kind \in Spoken THEN {n} ELSE {})
    BY <1>1, <1>2, <1>3 DEF ItemLines, Spoken
  <1>5. /\ Headings(more) = Headings(text) \cup (IF kind \in Marks THEN {n} ELSE {})
        /\ Titled(more) = Titled(text) \cup (IF kind = "heading" THEN {n} ELSE {})
    BY <1>1, <1>2, <1>3 DEF Headings, Titled
  <1>6. Under(more, n) = {} BY <1>2, <1>3 DEF Under, ItemLines
  <1>7. ASSUME NEW h \in DOMAIN text
        PROVE  Under(more, h) = Under(text, h) \cup
                  (IF kind \in Spoken /\ \A g \in Headings(text) : g <= h THEN {n} ELSE {})
    <2>1. h \in 1..len /\ h < n BY <1>1, <1>3
    <2>2. ASSUME NEW k \in 1..len PROVE k \in Under(more, h) <=> k \in Under(text, h)
      <3>1. k # n /\ (k \in ItemLines(more) <=> k \in ItemLines(text)) BY <1>3, <1>4
      <3>2. \A j \in h + 1..k : j \in 1..len BY <1>1, <2>1
      <3>3. \A j \in h + 1..k : more[j] = text[j] BY <1>2, <3>2
      <3> QED BY <3>1, <3>3 DEF Under
    <2>3. n \in Under(more, h) <=> kind \in Spoken /\ \A g \in Headings(text) : g <= h
      <3>1. n \in ItemLines(more) <=> kind \in Spoken BY <1>2, <1>3 DEF ItemLines, Spoken
      <3>2. kind \in Spoken => ((\A j \in h + 1..n : more[j] \notin Marks) <=> \A j \in h + 1..len : text[j] \notin Marks)
        <4>1. h + 1..n = h + 1..len \cup {n} /\ h + 1..len \subseteq 1..len BY <1>1, <1>3, <2>1
        <4> QED BY <1>2, <4>1 DEF Spoken, Marks
      <3>3. (\A j \in h + 1..len : text[j] \notin Marks) <=> \A g \in Headings(text) : g <= h
        BY <1>1, <2>1 DEF Headings
      <3> QED BY <2>1, <3>1, <3>2, <3>3 DEF Under
    <2>4. Under(more, h) \subseteq 1..len \cup {n} /\ Under(text, h) \subseteq 1..len
      BY <1>1, <1>2, <1>3 DEF Under, ItemLines
    <2> QED BY <1>3, <2>2, <2>3, <2>4
  <1> QED BY <1>1, <1>2, <1>3, <1>4, <1>5, <1>6, <1>7 DEF OneMore, more, n

LEMMA SectionsStay ==
  ASSUME NEW text, NEW more, NEW S, S \subseteq Nat, IsFiniteSet(S),
         \A h \in S : Under(more, h) = Under(text, h)
  PROVE  SectionsOf(more, S) = SectionsOf(text, S)
  <1> DEFINE order == InOrder(S)
  <1>1. order \in [1..Cardinality(S) -> S] BY InOrderFacts
  <1>2. \A h \in S : SectionItems(more, h) = SectionItems(text, h) BY DEF SectionItems
  <1>3. [n \in DOMAIN order |-> SectionItems(more, order[n])] = [n \in DOMAIN order |-> SectionItems(text, order[n])]
    BY <1>1, <1>2
  <1> QED BY <1>3 DEF SectionsOf

LEMMA SectionsAppend ==
  ASSUME NEW text, NEW S, S \subseteq Nat, IsFiniteSet(S), NEW h \in Nat, \A g \in S : g < h
  PROVE  SectionsOf(text, S \cup {h}) = Append(SectionsOf(text, S), SectionItems(text, h))
  <1> DEFINE s == InOrder(S)
             n == Cardinality(S)
             t == InOrder(S \cup {h})
             e == SectionItems(text, h)
             A == SectionsOf(text, S)
             B == SectionsOf(text, S \cup {h})
             V == {SectionItems(text, g) : g \in S \cup {h}}
  <1>1. n \in Nat /\ s \in [1..n -> S] BY InOrderFacts
  <1>2. t = Append(s, h) BY InOrderAppend
  <1> HIDE DEF n, s, t
  <1>3. s \in Seq(S \cup {h}) /\ Len(s) = n BY <1>1
  <1>4. /\ t \in Seq(S \cup {h}) /\ Len(t) = n + 1 /\ t[n + 1] = h /\ \A i \in 1..n : t[i] = s[i]
    BY <1>2, <1>3, AppendProperties
  <1>5. DOMAIN t = 1..n + 1 /\ DOMAIN s = 1..n BY <1>1, <1>4, LenProperties
  <1>6. A = [i \in 1..n |-> SectionItems(text, s[i])] /\ B = [i \in 1..n + 1 |-> SectionItems(text, t[i])]
    BY <1>5 DEF SectionsOf, s, t
  <1>7. e \in V /\ \A i \in 1..n + 1 : t[i] \in S \cup {h} /\ SectionItems(text, t[i]) \in V
    BY <1>4, <1>5, LenProperties
  <1>8. \A i \in 1..n : i \in 1..n + 1 BY <1>1
  <1> HIDE DEF A, B, V, e
  <1>9. A \in [1..n -> V] /\ B \in [1..n + 1 -> V] BY <1>4, <1>6, <1>7, <1>8
  <1>10. A \in Seq(V) /\ Len(A) = n /\ B \in Seq(V) /\ Len(B) = n + 1 BY <1>1, <1>9
  <1>11. /\ Append(A, e) \in Seq(V) /\ Len(Append(A, e)) = n + 1
         /\ Append(A, e)[n + 1] = e /\ \A i \in 1..n : Append(A, e)[i] = A[i]
    BY <1>7, <1>10, AppendProperties
  <1>12. ASSUME NEW i \in 1..n + 1 PROVE B[i] = Append(A, e)[i]
    <2>1. CASE i = n + 1 BY <1>4, <1>6, <1>11, <2>1 DEF e
    <2>2. CASE i \in 1..n
      <3>1. B[i] = SectionItems(text, t[i]) /\ A[i] = SectionItems(text, s[i]) BY <1>6, <1>8, <2>2
      <3> QED BY <1>4, <1>11, <2>2, <3>1
    <2>3. i = n + 1 \/ i \in 1..n BY <1>1
    <2> QED BY <2>1, <2>2, <2>3
  <1>13. B = Append(A, e) BY <1>10, <1>11, <1>12, SeqEqual
  <1> QED BY <1>13 DEF A, B, e

\* The last heading has a title; its items are being collected, those of the headings
\* before are done.
Open(h) ==
    /\ h \in Titled(lines) /\ \A g \in Headings(lines) : g <= h
    /\ current = SectionItems(lines, h)
    /\ sections = SectionsOf(lines, Headed(lines) \ {h})

ParserInv ==
    /\ lines \in Seq(LineKinds)
    /\ items = ItemsOf(lines)
    /\ heading \in BOOLEAN
    /\ heading => \E h \in Titled(lines) : Open(h)
    /\ ~heading =>
          /\ current = <<>> /\ sections = Sections(lines)
          /\ \A h \in Titled(lines) : \E g \in Headings(lines) : ~(g <= h)

\* Closing the last section gives all of them.
LEMMA FlushedIsAll ==
  ASSUME ParserInv
  PROVE  Flushed = Sections(lines)
  <1>1. CASE ~heading BY <1>1 DEF ParserInv, Flushed
  <1>2. CASE heading
    <2>1. PICK h \in Titled(lines) : Open(h) BY <1>2 DEF ParserInv
    <2>2. /\ Headed(lines) \subseteq Headings(lines) /\ Headings(lines) \subseteq Nat /\ h \in Headings(lines)
          /\ IsFiniteSet(Headed(lines) \ {h}) /\ IsFiniteSet(Under(lines, h)) /\ Under(lines, h) \subseteq Nat
      <3>1. /\ Headed(lines) \ {h} \in SUBSET DOMAIN lines /\ Headings(lines) \in SUBSET DOMAIN lines
            /\ Under(lines, h) \in SUBSET DOMAIN lines
        BY TitledFacts DEF Under, ItemLines
      <3>2. Headed(lines) \subseteq Headings(lines) BY TitledFacts
      <3>3. lines \in Seq(LineKinds) BY DEF ParserInv
      <3>4. h \in Headings(lines) BY TitledFacts
      <3> QED BY <3>1, <3>2, <3>3, <3>4, LineFacts
    <2>3. \A g \in Headed(lines) \ {h} : g < h BY <2>1, <2>2 DEF Open
    <2>4. current = <<>> <=> Under(lines, h) = {}
      <3>1. current = InOrder(Under(lines, h)) BY <2>1 DEF Open, SectionItems
      <3>2. CASE Under(lines, h) = {} BY <3>1, <3>2, InOrderEmpty
      <3>3. CASE Under(lines, h) # {}
        <4>1. h \in Headed(lines) BY <2>1, <3>3, TitledFacts
        <4> QED BY <2>1, <3>3, <4>1, SectionItemsFacts DEF ParserInv, Open
      <3> QED BY <3>2, <3>3
    <2>5. CASE current = <<>>
      <3>1. h \notin Headed(lines) BY <2>4, <2>5 DEF Headed
      <3>2. Headed(lines) \ {h} = Headed(lines) BY <3>1
      <3> QED BY <2>1, <2>5, <3>2 DEF Open, Sections, Flushed
    <2>6. CASE current # <<>>
      <3>1. h \in Headed(lines) BY <2>1, <2>4, <2>6, TitledFacts
      <3> DEFINE S == Headed(lines) \ {h}
      <3>2. S \cup {h} = Headed(lines) BY <3>1
      <3>3. SectionsOf(lines, S \cup {h}) = Append(SectionsOf(lines, S), SectionItems(lines, h))
        <4>1. S \subseteq Nat /\ IsFiniteSet(S) /\ h \in Nat /\ \A g \in S : g < h BY <2>2, <2>3
        <4> HIDE DEF S
        <4> QED BY <4>1, SectionsAppend
      <3> QED BY <1>2, <2>1, <2>6, <3>2, <3>3 DEF Open, Sections, Flushed
    <2> QED BY <2>5, <2>6
  <1> QED BY <1>1, <1>2 DEF ParserInv

LEMMA ParserStarts == ParserInit => ParserInv
  <1> SUFFICES ASSUME ParserInit PROVE ParserInv OBVIOUS
  <1>1. lines = <<>> /\ items = <<>> /\ sections = <<>> /\ heading = FALSE /\ current = <<>>
    BY DEF ParserInit
  <1>2. DOMAIN lines = {} BY <1>1
  <1>3. ItemLines(lines) = {} /\ Titled(lines) = {} /\ Headed(lines) = {}
    BY <1>2 DEF ItemLines, Titled, Headed
  <1>4. ItemsOf(lines) = <<>> /\ Sections(lines) = <<>>
    BY <1>3, InOrderEmpty DEF ItemsOf, Sections, SectionsOf
  <1>5. lines \in Seq(LineKinds) /\ heading \in BOOLEAN BY <1>1, EmptySeq
  <1> QED BY <1>1, <1>3, <1>4, <1>5 DEF ParserInv

LEMMA HeadingParses == ASSUME ParserInv, Heading PROVE ParserInv'
  <1> DEFINE n == Len(lines) + 1
  <1>1. PICK kind \in Marks :
          /\ lines' = Append(lines, kind) /\ heading' = (kind = "heading")
          /\ sections' = Flushed /\ current' = <<>> /\ items' = items
    BY DEF Heading, Read
  <1>2. lines \in Seq(LineKinds) /\ items = ItemsOf(lines) /\ kind \in LineKinds /\ kind \notin Spoken
    BY DEF ParserInv, LineKinds, Marks, Spoken
  <1>3. /\ lines' \in Seq(LineKinds) /\ n \in Nat /\ n \notin DOMAIN lines
        /\ \A k \in DOMAIN lines : k < n
        /\ DOMAIN lines' = DOMAIN lines \cup {n}
        /\ ItemLines(lines') = ItemLines(lines) /\ Headings(lines') = Headings(lines) \cup {n}
        /\ Titled(lines') = Titled(lines) \cup (IF kind = "heading" THEN {n} ELSE {})
        /\ Under(lines', n) = {} /\ \A h \in DOMAIN lines : Under(lines', h) = Under(lines, h)
    <2> DEFINE more == Append(lines, kind)
    <2>1. /\ more \in Seq(LineKinds) /\ n \in Nat /\ n \notin DOMAIN lines
          /\ \A k \in DOMAIN lines : k < n
          /\ DOMAIN more = DOMAIN lines \cup {n}
          /\ ItemLines(more) = ItemLines(lines) /\ Headings(more) = Headings(lines) \cup {n}
          /\ Titled(more) = Titled(lines) \cup (IF kind = "heading" THEN {n} ELSE {})
          /\ Under(more, n) = {} /\ \A h \in DOMAIN lines : Under(more, h) = Under(lines, h)
      <3>1. OneMore(lines, more, kind) BY <1>2, OneMoreLine
      <3> HIDE DEF more
      <3> QED BY <1>2, <3>1 DEF OneMore
    <2> QED BY <1>1, <2>1
  <1>4. items' = ItemsOf(lines') BY <1>1, <1>2, <1>3 DEF ItemsOf
  <1>5. Headed(lines') = Headed(lines)
    <2>1. \A h : h \in Headed(lines) <=> h \in Titled(lines) /\ Under(lines, h) # {} BY TitledFacts
    <2>2. \A h : h \in Headed(lines') <=> h \in Titled(lines') /\ Under(lines', h) # {} BY TitledFacts
    <2>3. Titled(lines) \subseteq DOMAIN lines BY TitledFacts
    <2> QED BY <1>3, <2>1, <2>2, <2>3
  <1>6. Headed(lines') \ {n} = Headed(lines) BY <1>3, <1>5 DEF Headed
  <1>7. sections' = SectionsOf(lines', Headed(lines))
    <2>1. Headed(lines) \subseteq DOMAIN lines /\ Headed(lines) \subseteq Nat /\ IsFiniteSet(Headed(lines))
      BY <1>2, LineFacts
    <2>2. SectionsOf(lines', Headed(lines)) = SectionsOf(lines, Headed(lines)) BY <1>3, <2>1, SectionsStay
    <2> QED BY <1>1, <2>2, FlushedIsAll DEF Sections
  <1>8. current' = SectionItems(lines', n) BY <1>1, <1>3, InOrderEmpty DEF SectionItems
  <1>9. \A g \in Headings(lines) : g \in Nat /\ g < n
    <2>1. DOMAIN lines \subseteq Nat BY <1>2, LineFacts
    <2> QED BY <1>3, <2>1, TitledFacts
  <1> HIDE DEF n
  <1>10. CASE kind = "heading"
    <2>1. n \in Titled(lines') /\ \A g \in Headings(lines') : g <= n BY <1>3, <1>9, <1>10
    <2>2. \E h \in Titled(lines') : Open(h)' BY <1>6, <1>7, <1>8, <2>1 DEF Open
    <2> QED BY <1>1, <1>3, <1>4, <1>10, <2>2 DEF ParserInv
  <1>11. CASE kind # "heading"
    <2>1. Titled(lines') = Titled(lines) BY <1>3, <1>11
    <2>2. \A h \in Titled(lines') : h \in DOMAIN lines /\ h < n BY <1>3, <2>1, TitledFacts
    <2>3. DOMAIN lines \subseteq Nat BY <1>2, LineFacts
    <2>4. \A h \in Titled(lines') : ~(n <= h) BY <1>3, <2>2, <2>3
    <2>5. n \in Headings(lines') BY <1>3
    <2>6. sections' = Sections(lines') BY <1>5, <1>7 DEF Sections
    <2> QED BY <1>1, <1>3, <1>4, <1>11, <2>4, <2>5, <2>6 DEF ParserInv
  <1> QED BY <1>10, <1>11

LEMMA ItemParses == ASSUME ParserInv, Item PROVE ParserInv'
  <1> DEFINE n == Len(lines) + 1
  <1>1. PICK kind \in {"item", "long"} : lines' = Append(lines, kind) BY DEF Item, Read
  <1>2. lines \in Seq(LineKinds) /\ items = ItemsOf(lines) /\ kind \in LineKinds /\ kind \in Spoken
        /\ kind # "heading" /\ kind \notin Marks
    BY DEF ParserInv, LineKinds, Marks, Spoken
  <1>3. /\ lines' \in Seq(LineKinds) /\ n \in Nat /\ n \notin DOMAIN lines /\ Len(lines') = n
        /\ \A k \in DOMAIN lines : k < n
        /\ DOMAIN lines' = DOMAIN lines \cup {n}
        /\ ItemLines(lines') = ItemLines(lines) \cup {n}
        /\ Headings(lines') = Headings(lines) /\ Titled(lines') = Titled(lines)
        /\ \A h \in DOMAIN lines :
              Under(lines', h) = Under(lines, h) \cup (IF \A g \in Headings(lines) : g <= h THEN {n} ELSE {})
    <2> DEFINE more == Append(lines, kind)
    <2>1. /\ more \in Seq(LineKinds) /\ n \in Nat /\ n \notin DOMAIN lines /\ Len(more) = n
          /\ \A k \in DOMAIN lines : k < n
          /\ DOMAIN more = DOMAIN lines \cup {n}
          /\ ItemLines(more) = ItemLines(lines) \cup {n}
          /\ Headings(more) = Headings(lines) /\ Titled(more) = Titled(lines)
          /\ \A h \in DOMAIN lines :
                Under(more, h) = Under(lines, h) \cup (IF \A g \in Headings(lines) : g <= h THEN {n} ELSE {})
      <3>1. OneMore(lines, more, kind) BY <1>2, OneMoreLine
      <3> HIDE DEF more
      <3> QED BY <1>2, <3>1 DEF OneMore
    <2> QED BY <1>1, <2>1
  <1>4. /\ items' = Append(items, n) /\ current' = IF heading THEN Append(current, n) ELSE current
        /\ sections' = sections /\ heading' = heading
    BY <1>3 DEF Item
  <1>5. /\ ItemLines(lines) \subseteq DOMAIN lines
        /\ \A S \in SUBSET DOMAIN lines : S \subseteq Nat /\ IsFiniteSet(S)
        /\ \A h : Under(lines, h) \subseteq DOMAIN lines
    BY <1>2, LineFacts
  <1> HIDE DEF n
  <1>6. items' = ItemsOf(lines')
    <2>1. ItemLines(lines) \subseteq Nat /\ IsFiniteSet(ItemLines(lines)) /\ \A k \in ItemLines(lines) : k < n
      BY <1>3, <1>5
    <2>2. InOrder(ItemLines(lines) \cup {n}) = Append(InOrder(ItemLines(lines)), n) BY <1>3, <2>1, InOrderAppend
    <2> QED BY <1>2, <1>3, <1>4, <2>2 DEF ItemsOf
  <1>7. CASE ~heading
    <2>1. \A h \in Titled(lines) : \E g \in Headings(lines) : ~(g <= h) BY <1>7 DEF ParserInv
    <2>2. \A h \in Titled(lines) : Under(lines', h) = Under(lines, h) BY <1>3, <2>1, TitledFacts
    <2>3. Headed(lines') = Headed(lines)
      <3>1. \A g : g \in Headed(lines) <=> g \in Titled(lines) /\ Under(lines, g) # {} BY TitledFacts
      <3>2. \A g : g \in Headed(lines') <=> g \in Titled(lines') /\ Under(lines', g) # {} BY TitledFacts
      <3> QED BY <1>3, <2>2, <3>1, <3>2
    <2>4. Headed(lines) \subseteq Nat /\ IsFiniteSet(Headed(lines)) BY <1>2, LineFacts
    <2>5. \A h \in Headed(lines) : Under(lines', h) = Under(lines, h) BY <2>2, TitledFacts
    <2>6. SectionsOf(lines', Headed(lines)) = SectionsOf(lines, Headed(lines)) BY <2>4, <2>5, SectionsStay
    <2>7. sections' = Sections(lines') BY <1>4, <1>7, <2>3, <2>6 DEF ParserInv, Sections
    <2> QED BY <1>3, <1>4, <1>6, <1>7, <2>1, <2>7 DEF ParserInv
  <1>8. CASE heading
    <2>1. PICK h \in Titled(lines) : Open(h) BY <1>8 DEF ParserInv
    <2>2. /\ h \in DOMAIN lines /\ Headings(lines) \subseteq DOMAIN lines /\ DOMAIN lines \subseteq Nat
          /\ Titled(lines) \subseteq Headings(lines)
      BY <1>5, TitledFacts
    <2>3. Under(lines', h) = Under(lines, h) \cup {n} BY <1>3, <2>1, <2>2 DEF Open
    <2>4. current' = SectionItems(lines', h)
      <3>1. Under(lines, h) \subseteq Nat /\ IsFiniteSet(Under(lines, h)) /\ \A k \in Under(lines, h) : k < n
        BY <1>3, <1>5
      <3>2. InOrder(Under(lines, h) \cup {n}) = Append(InOrder(Under(lines, h)), n) BY <1>3, <3>1, InOrderAppend
      <3> QED BY <1>4, <1>8, <2>1, <2>3, <3>2 DEF Open, SectionItems
    <2>5. \A g \in Headings(lines) \ {h} : Under(lines', g) = Under(lines, g)
      <3>1. \A g \in Headings(lines) \ {h} : g < h BY <2>1, <2>2 DEF Open
      <3>2. \A g \in Headings(lines) \ {h} : ~ (h <= g) BY <2>2, <3>1
      <3> QED BY <1>3, <2>1, <2>2, <3>2
    <2>6. Headed(lines') \ {h} = Headed(lines) \ {h}
      <3>1. \A g : g \in Headed(lines) <=> g \in Titled(lines) /\ Under(lines, g) # {} BY TitledFacts
      <3>2. \A g : g \in Headed(lines') <=> g \in Titled(lines') /\ Under(lines', g) # {} BY TitledFacts
      <3> QED BY <1>3, <2>2, <2>5, <3>1, <3>2
    <2>7. sections' = SectionsOf(lines', Headed(lines') \ {h})
      <3> DEFINE S == Headed(lines) \ {h}
      <3>1. S \subseteq Headings(lines) \ {h} BY TitledFacts
      <3>2. S \subseteq Nat /\ IsFiniteSet(S) BY <1>5, <2>2, <3>1
      <3>3. \A g \in S : Under(lines', g) = Under(lines, g) BY <2>5, <3>1
      <3>4. sections = SectionsOf(lines, S) BY <2>1 DEF Open
      <3> HIDE DEF S
      <3>5. SectionsOf(lines', S) = SectionsOf(lines, S) BY <3>2, <3>3, SectionsStay
      <3> QED BY <1>4, <2>6, <3>4, <3>5 DEF S
    <2>8. h \in Titled(lines') /\ \A g \in Headings(lines') : g <= h BY <1>3, <2>1 DEF Open
    <2>9. \E g \in Titled(lines') : Open(g)' BY <2>4, <2>7, <2>8 DEF Open
    <2> QED BY <1>3, <1>4, <1>6, <1>8, <2>9 DEF ParserInv
  <1> QED BY <1>7, <1>8 DEF ParserInv

LEMMA TextParses == ASSUME ParserInv, Text PROVE ParserInv'
  <1> DEFINE n == Len(lines) + 1
  <1>1. /\ lines' = Append(lines, "text") /\ sections' = sections /\ heading' = heading
        /\ current' = current /\ items' = items
    BY DEF Text, Read
  <1>2. lines \in Seq(LineKinds) /\ items = ItemsOf(lines) /\ "text" \in LineKinds
        /\ "text" \notin Spoken /\ "text" \notin Marks
    BY DEF ParserInv, LineKinds, Marks, Spoken
  <1>3. /\ lines' \in Seq(LineKinds)
        /\ ItemLines(lines') = ItemLines(lines)
        /\ Headings(lines') = Headings(lines) /\ Titled(lines') = Titled(lines)
        /\ \A h \in DOMAIN lines : Under(lines', h) = Under(lines, h)
    <2> DEFINE more == Append(lines, "text")
    <2>1. /\ more \in Seq(LineKinds)
          /\ ItemLines(more) = ItemLines(lines)
          /\ Headings(more) = Headings(lines) /\ Titled(more) = Titled(lines)
          /\ \A h \in DOMAIN lines : Under(more, h) = Under(lines, h)
      <3>1. OneMore(lines, more, "text") BY <1>2, OneMoreLine
      <3> HIDE DEF more
      <3> QED BY <1>2, <3>1 DEF OneMore
    <2> QED BY <1>1, <2>1
  <1>4. items' = ItemsOf(lines') BY <1>1, <1>2, <1>3 DEF ItemsOf
  <1>5. Titled(lines) \subseteq Headings(lines) /\ Headings(lines) \subseteq DOMAIN lines BY TitledFacts
  <1>6. Headed(lines') = Headed(lines)
    <2>1. \A g : g \in Headed(lines) <=> g \in Titled(lines) /\ Under(lines, g) # {} BY TitledFacts
    <2>2. \A g : g \in Headed(lines') <=> g \in Titled(lines') /\ Under(lines', g) # {} BY TitledFacts
    <2> QED BY <1>3, <1>5, <2>1, <2>2
  <1>7. CASE ~heading
    <2>1. Headed(lines) \subseteq DOMAIN lines /\ Headed(lines) \subseteq Nat /\ IsFiniteSet(Headed(lines))
      BY <1>2, LineFacts
    <2>2. SectionsOf(lines', Headed(lines)) = SectionsOf(lines, Headed(lines)) BY <1>3, <2>1, SectionsStay
    <2>3. sections' = Sections(lines') BY <1>1, <1>6, <1>7, <2>2 DEF ParserInv, Sections
    <2> QED BY <1>1, <1>3, <1>4, <1>7, <2>3 DEF ParserInv
  <1>8. CASE heading
    <2>1. PICK h \in Titled(lines) : Open(h) BY <1>8 DEF ParserInv
    <2>2. current' = SectionItems(lines', h) BY <1>1, <1>3, <1>5, <2>1 DEF Open, SectionItems
    <2>3. sections' = SectionsOf(lines', Headed(lines') \ {h})
      <3> DEFINE S == Headed(lines) \ {h}
      <3>1. S \subseteq DOMAIN lines BY DEF Headed
      <3>2. S \subseteq Nat /\ IsFiniteSet(S) BY <1>2, <3>1, LineFacts
      <3>3. sections = SectionsOf(lines, S) BY <2>1 DEF Open
      <3>4. S = Headed(lines') \ {h} BY <1>6
      <3> HIDE DEF S
      <3>5. SectionsOf(lines', S) = SectionsOf(lines, S) BY <1>3, <3>1, <3>2, SectionsStay
      <3> QED BY <1>1, <3>3, <3>4, <3>5
    <2>4. h \in Titled(lines') /\ \A g \in Headings(lines') : g <= h BY <1>3, <2>1 DEF Open
    <2>5. \E g \in Titled(lines') : Open(g)' BY <2>2, <2>3, <2>4 DEF Open
    <2> QED BY <1>1, <1>3, <1>4, <1>8, <2>5 DEF ParserInv
  <1> QED BY <1>7, <1>8 DEF ParserInv

LEMMA ParserIsRight == ParserSpec => []ParserInv
  <1>1. ParserInv /\ [Parse]_reading => ParserInv'
    <2> SUFFICES ASSUME ParserInv, [Parse]_reading PROVE ParserInv' OBVIOUS
    <2>1. CASE Heading BY <2>1, HeadingParses
    <2>2. CASE Item BY <2>2, ItemParses
    <2>3. CASE Text BY <2>3, TextParses
    <2>4. CASE UNCHANGED reading
      BY <2>4 DEF reading, ParserInv, Open, Headings, Titled, Sections
    <2> QED BY <2>1, <2>2, <2>3, <2>4 DEF Parse
  <1> QED BY <1>1, ParserStarts, PTL DEF ParserSpec

\* What the loop has collected, wherever the reply ends, is the document's items, and
\* its sections with the items that stand under their headings.
THEOREM ParserFindsSections == ParserSpec => []FindsSections
  <1>1. ParserInv => FindsSections
    <2> SUFFICES ASSUME ParserInv PROVE FindsSections OBVIOUS
    <2>1. items = ItemsOf(lines) BY DEF ParserInv
    <2>2. Flushed = Sections(lines) BY FlushedIsAll
    <2> QED BY <2>1, <2>2 DEF FindsSections
  <1> QED BY <1>1, ParserIsRight, PTL

\* Groups are at most MaxBuckets, none is empty, they follow the reply's order and share
\* no item, and a reply without sections has all its items in them: for every MaxBuckets,
\* and replies of any length.
THEOREM ParserGroupsAreSound == ParserSpec => []GroupsAreSound
  <1>1. ParserInv => GroupsAreSound
    <2> SUFFICES ASSUME ParserInv PROVE GroupsAreSound OBVIOUS
    <2> DEFINE g == Buckets(lines)
    <2>1. BucketList = g BY DEF BucketList
    <2>2. lines \in Seq(LineKinds) /\ items = ItemsOf(lines) BY DEF ParserInv
    <2>3. /\ Grouped(g) /\ Len(g) \in 0..MaxBuckets
          /\ Sections(lines) = <<>> =>
               \A k \in 1..Len(items) : \E n \in 1..Len(g) : \E i \in 1..Len(g[n]) : g[n][i] = items[k]
      BY <2>2, BucketsAreGroups
    <2>4. items \in Seq(Nat) BY <2>2, ItemsOfFacts
    <2> HIDE DEF g
    <2>5. g \in Seq(Seq(Nat)) /\ \A n \in 1..Len(g) : g[n] # <<>> BY <2>3 DEF Grouped
    <2>6. DOMAIN g = 1..Len(g) /\ DOMAIN items = 1..Len(items) BY <2>4, <2>5, LenProperties
    <2>7. \A n \in 1..Len(g) : DOMAIN g[n] = 1..Len(g[n])
      <3>1. \A n \in 1..Len(g) : g[n] \in Seq(Nat) BY <2>5
      <3> QED BY <3>1, LenProperties
    <2>8. Len(g) <= MaxBuckets
      BY <2>3, DocumentConstants DEF DocumentConstants
    <2>9. \A m, n \in DOMAIN g : \A i \in DOMAIN g[m], j \in DOMAIN g[n] :
             g[m][i] < g[n][j] <=> m < n \/ (m = n /\ i < j)
      BY <2>3, <2>6, <2>7, GroupedOrder
    <2>10. Flushed = Sections(lines) BY FlushedIsAll
    <2>11. Flushed = <<>> => \A k \in DOMAIN items : \E n \in DOMAIN g : \E i \in DOMAIN g[n] : g[n][i] = items[k]
      BY <2>3, <2>6, <2>7, <2>10
    <2> QED BY <2>1, <2>5, <2>6, <2>8, <2>9, <2>11 DEF GroupsAreSound
  <1> QED BY <1>1, ParserIsRight, PTL

-----------------------------------------------------------------------------
(* Voice turns.                                                             *)

Speeches == [kind : {"map", "all", "summary", "item"}, items : Seq(Nat), cut : BOOLEAN]
Pages == [sid : Sids \cup {None}, doc : Docs \cup {None}]
Sessions == [sid : Sids, doc : Docs, phase : {"wait", "deepen"}, last : Speeches, bucket : Nat, item : Nat]

\* A session's place is in its document, which has groups.
SoundSession(s) ==
    /\ s \in Sessions
    /\ s.doc.buckets # <<>> /\ s.bucket \in 0..Len(s.doc.buckets)
    /\ s.bucket # 0 => s.item + 1 \in 1..Len(s.doc.buckets[s.bucket])

Shape ==
    /\ turns \in Nat
    /\ DOMAIN store \subseteq used /\ used \subseteq Sids /\ behind \subseteq Tabs
    /\ local \in used \cup {None}
    /\ tab \in [Tabs -> Pages] /\ answer \in [Tabs -> Pages \cup {None}] /\ DOMAIN heard = Tabs
    /\ \A t \in Tabs :
          /\ tab[t].sid \in used \cup {None}
          /\ answer[t] # None => answer[t].sid \in used \cup {None} /\ answer[t].doc # None
    /\ \A x \in DOMAIN store : SoundSession(store[x]) /\ store[x].sid = x

\* An answer is of the page's own session, of none, or of a session that nobody else
\* knows of yet.
AnswersAreOwn ==
    \A t \in Tabs : answer[t] # None /\ answer[t].sid \notin {None, tab[t].sid} =>
        /\ heard[t] = None /\ local # answer[t].sid
        /\ \A u \in Tabs : tab[u].sid # answer[t].sid
        /\ \A u \in Tabs \ {t} : answer[u] # None => answer[u].sid # answer[t].sid

\* An answer on its way shows the document of its session, unless the page is behind.
AnswerIsSession ==
    \A t \in Tabs \ behind :
        answer[t] # None /\ answer[t].sid \in DOMAIN store => store[answer[t].sid].doc = answer[t].doc

NavInv == Shape /\ AnswersAreOwn /\ GroupReadInOrder /\ ScreenIsSession /\ AnswerIsSession

\* What TLAPS needs to know of the constants.
LEMMA NoneIsNew == None \notin Tabs \cup Sids \cup Docs \cup Pages /\ MaxTurns \in Nat
  BY VoiceConstants DEF VoiceConstants, Pages

LEMMA DocFacts ==
  ASSUME NEW doc \in Docs
  PROVE  /\ doc # None /\ doc.items \in Seq(Nat) /\ doc.buckets \in Seq(Seq(Nat))
         /\ Len(doc.buckets) \in 0..MaxBuckets
         /\ \A b \in 1..Len(doc.buckets) : doc.buckets[b] \in Seq(Nat) /\ Len(doc.buckets[b]) \in Nat \ {0}
  <1>1. PICK reply \in Replies : doc = Doc(reply) BY DEF Docs
  <1>2. reply.lines \in Seq(LineKinds) BY VoiceConstants DEF VoiceConstants
  <1>3. doc.items = ItemsOf(reply.lines) /\ doc.buckets = Buckets(reply.lines) BY <1>1 DEF Doc
  <1>4. doc.items \in Seq(Nat) BY <1>2, <1>3, ItemsOfFacts
  <1>5. Grouped(doc.buckets) /\ Len(doc.buckets) \in 0..MaxBuckets BY <1>2, <1>3, BucketsAreGroups
  <1>6. ASSUME NEW b \in 1..Len(doc.buckets) PROVE doc.buckets[b] \in Seq(Nat) /\ Len(doc.buckets[b]) \in Nat \ {0}
    <2>1. doc.buckets[b] \in Seq(Nat) /\ doc.buckets[b] # <<>> BY <1>5 DEF Grouped
    <2> QED BY <2>1, EmptySeq
  <1> QED BY <1>4, <1>5, <1>6, NoneIsNew DEF Grouped

\* A reply that is read out in groups has one.
LEMMA LayeredHasGroups ==
  ASSUME NEW reply \in Replies, Layered(reply.lines, reply.wordy)
  PROVE  Doc(reply).buckets # <<>>
  <1>1. reply.lines \in Seq(LineKinds) BY VoiceConstants DEF VoiceConstants
  <1>2. ItemsOf(reply.lines) \in Seq(Nat) BY <1>1, ItemsOfFacts
  <1>3. Len(ItemsOf(reply.lines)) >= 1
    BY <1>2, DocumentConstants DEF DocumentConstants, Layered
  <1>4. ItemsOf(reply.lines) # <<>> BY <1>2, <1>3
  <1> QED BY <1>1, <1>4, BucketsAreGroups DEF Doc

\* A turn of page t replaces or drops the session of id x, which is the page's or new.
Moved(t, x) ==
    /\ x \in {tab[t].sid} \cup (Sids \ used)
    /\ used \subseteq used' /\ DOMAIN store' \subseteq used' /\ used' \subseteq Sids
    /\ \A y \in DOMAIN store' \ {x} : y \in DOMAIN store /\ store'[y] = store[y]
    /\ x \in DOMAIN store' => SoundSession(store'[x]) /\ store'[x].sid = x
    /\ UNCHANGED <<tab, local>> /\ turns' \in Nat

\* The pages that navigate the session, or wait for an answer of it, share it with t.
LEMMA MovedIsShared ==
  ASSUME NavInv, NEW t \in Tabs, NEW x, Moved(t, x), NEW u \in Tabs, u # t
  PROVE  /\ tab[u].sid = x /\ x \in DOMAIN store' => u \in Sharing(t)
         /\ answer[u] # None /\ answer[u].sid = x /\ x \in DOMAIN store' => u \in Sharing(t)
  <1>1. x \in DOMAIN store' => x # None /\ x \in Sids BY NoneIsNew DEF Moved
  <1>2. ASSUME tab[u].sid = x, x \in DOMAIN store' PROVE u \in Sharing(t)
    <2>1. x = tab[t].sid BY <1>1, <1>2 DEF Moved, NavInv, Shape
    <2> QED BY <1>1, <1>2, <2>1 DEF Sharing
  <1>3. ASSUME answer[u] # None, answer[u].sid = x, x \in DOMAIN store' PROVE u \in Sharing(t)
    <2>1. x = tab[t].sid BY <1>1, <1>3 DEF Moved, NavInv, Shape
    <2>2. answer[u].sid = tab[u].sid BY <1>1, <1>3, <2>1 DEF NavInv, AnswersAreOwn
    <2> QED BY <1>1, <1>3, <2>1, <2>2 DEF Sharing
  <1> QED BY <1>2, <1>3

LEMMA AnsweredKeeps ==
  ASSUME NavInv, NEW t \in Tabs, NEW x, Moved(t, x), NEW sid, NEW doc \in Docs, NEW list,
         Answered(t, sid, doc, list), answer[t] = None,
         sid \in {None, x}, x \in DOMAIN store' => store'[x].doc = doc, sid # None => x \in used',
         list # None => x = tab[t].sid /\ x \in DOMAIN store /\
            (x \in DOMAIN store' =>
               LET s == store'[x] IN s.bucket # 0 /\ list = SubSeq(s.doc.buckets[s.bucket], 1, s.item + 1))
  PROVE  NavInv'
  <1> DEFINE page == [sid |-> sid, doc |-> doc]
  <1>1. Shape BY DEF NavInv
  <1>2. /\ answer' = [answer EXCEPT ![t] = page]
        /\ heard' = [u \in Tabs |-> IF u = t THEN list ELSE IF u \in Sharing(t) THEN None ELSE heard[u]]
        /\ behind' = (behind \cup Sharing(t)) \ {t}
        /\ tab' = tab /\ local' = local
    BY DEF Answered, Moved
  <1>3. (sid # None => x \in Sids) /\ sid \in used' \cup {None} /\ doc # None /\ page \in Pages
    BY DocFacts DEF Moved, Pages
  <1>4. /\ answer'[t] = page /\ page # None /\ page.sid = sid /\ page.doc = doc
        /\ \A u \in Tabs \ {t} : answer'[u] = answer[u]
    BY <1>1, <1>2, <1>3, NoneIsNew DEF Shape
  <1>5. Shape'
    <2>1. Sharing(t) \subseteq Tabs BY DEF Sharing
    <2>2. \A y \in DOMAIN store' : SoundSession(store'[y]) /\ store'[y].sid = y BY <1>1 DEF Shape, Moved
    <2>3. answer' \in [Tabs -> Pages \cup {None}] BY <1>1, <1>2, <1>3 DEF Shape
    <2>4. ASSUME NEW u \in Tabs
          PROVE  /\ tab'[u].sid \in used' \cup {None}
                 /\ answer'[u] # None => answer'[u].sid \in used' \cup {None} /\ answer'[u].doc # None
      BY <1>1, <1>2, <1>3, <1>4 DEF Shape, Moved
    <2>5. local' \in used' \cup {None} /\ behind' \subseteq Tabs /\ tab' \in [Tabs -> Pages] /\ DOMAIN heard' = Tabs
      BY <1>1, <1>2, <2>1 DEF Shape, Moved
    <2> QED BY <2>2, <2>3, <2>4, <2>5 DEF Shape, Moved
  <1>6. AnswersAreOwn'
    <2>1. ASSUME NEW u \in Tabs, answer'[u] # None, answer'[u].sid \notin {None, tab[u].sid}
          PROVE  /\ heard'[u] = None /\ local # answer'[u].sid
                 /\ \A v \in Tabs : tab[v].sid # answer'[u].sid
                 /\ \A v \in Tabs \ {u} : answer'[v] # None => answer'[v].sid # answer'[u].sid
      <3>1. CASE u = t
        <4>1. answer'[u].sid = x /\ sid # None /\ x \notin used /\ list = None BY <1>4, <2>1, <3>1 DEF Moved
        <4>2. heard'[u] = None BY <1>2, <3>1, <4>1
        <4>3. local # x /\ \A v \in Tabs : tab[v].sid # x /\ (v # t /\ answer[v] # None => answer[v].sid # x)
          BY <1>1, <1>3, <4>1, NoneIsNew DEF Shape
        <4> QED BY <1>4, <3>1, <4>1, <4>2, <4>3
      <3>2. CASE u # t
        <4>1. /\ answer'[u] = answer[u] /\ answer[u].sid \in used BY <1>1, <1>4, <2>1, <3>2 DEF Shape
        <4>2. /\ heard[u] = None /\ local # answer[u].sid
              /\ \A v \in Tabs : tab[v].sid # answer[u].sid
              /\ \A v \in Tabs \ {u} : answer[v] # None => answer[v].sid # answer[u].sid
          BY <2>1, <4>1 DEF NavInv, AnswersAreOwn
        <4>3. heard'[u] = None BY <1>2, <3>2, <4>2
        <4>4. sid # answer[u].sid BY <2>1, <4>1, <4>2 DEF Moved
        <4> QED BY <1>4, <4>1, <4>2, <4>3, <4>4
      <3> QED BY <3>1, <3>2
    <2> QED BY <1>2, <2>1 DEF AnswersAreOwn
  <1>7. GroupReadInOrder'
    <2>1. ASSUME NEW u \in Tabs, tab[u].sid \in DOMAIN store', heard'[u] # None
          PROVE  LET s == store'[tab[u].sid] IN
                 s.bucket # 0 /\ heard'[u] = SubSeq(s.doc.buckets[s.bucket], 1, s.item + 1)
      <3>1. CASE u = t
        <4>1. heard'[u] = list /\ x = tab[u].sid BY <1>2, <2>1, <3>1
        <4> QED BY <2>1, <4>1
      <3>2. CASE u # t
        <4>1. u \notin Sharing(t) /\ heard'[u] = heard[u] BY <1>2, <2>1, <3>2
        <4>2. tab[u].sid # x BY <2>1, <3>2, <4>1, MovedIsShared
        <4>3. tab[u].sid \in DOMAIN store /\ store'[tab[u].sid] = store[tab[u].sid] BY <2>1, <4>2 DEF Moved
        <4> QED BY <2>1, <4>1, <4>3 DEF NavInv, GroupReadInOrder, HasSession
      <3> QED BY <3>1, <3>2
    <2> QED BY <1>2, <2>1 DEF GroupReadInOrder, HasSession
  <1>8. ScreenIsSession'
    <2>1. ASSUME NEW u \in Tabs \ behind', tab[u].sid \in DOMAIN store', answer'[u] = None, tab[u].doc # None
          PROVE  store'[tab[u].sid].doc = tab[u].doc
      <3>1. u # t /\ answer[u] = None BY <1>4, <2>1
      <3>2. u \notin Sharing(t) /\ u \notin behind BY <1>2, <2>1, <3>1
      <3>3. tab[u].sid # x BY <2>1, <3>1, <3>2, MovedIsShared
      <3>4. tab[u].sid \in DOMAIN store /\ store'[tab[u].sid] = store[tab[u].sid] BY <2>1, <3>3 DEF Moved
      <3> QED BY <2>1, <3>1, <3>2, <3>4 DEF NavInv, ScreenIsSession, HasSession
    <2> QED BY <1>2, <2>1 DEF ScreenIsSession, HasSession
  <1>9. AnswerIsSession'
    <2>1. ASSUME NEW u \in Tabs \ behind', answer'[u] # None, answer'[u].sid \in DOMAIN store'
          PROVE  store'[answer'[u].sid].doc = answer'[u].doc
      <3>1. CASE u = t
        <4>1. sid \in Sids BY <1>4, <2>1, <3>1 DEF Moved
        <4>2. sid = x BY <4>1, NoneIsNew
        <4> QED BY <1>4, <2>1, <3>1, <4>2
      <3>2. CASE u # t
        <4>1. u \notin Sharing(t) /\ u \notin behind /\ answer'[u] = answer[u] BY <1>2, <1>4, <2>1, <3>2
        <4>2. answer[u].sid # x BY <2>1, <3>2, <4>1, MovedIsShared
        <4>3. answer[u].sid \in DOMAIN store /\ store'[answer[u].sid] = store[answer[u].sid]
          BY <2>1, <4>1, <4>2 DEF Moved
        <4> QED BY <2>1, <4>1, <4>3 DEF NavInv, AnswerIsSession
      <3> QED BY <3>1, <3>2
    <2> QED BY <2>1 DEF AnswerIsSession
  <1> QED BY <1>5, <1>6, <1>7, <1>8, <1>9 DEF NavInv

LEMMA UnansweredKeeps ==
  ASSUME NavInv, NEW t \in Tabs, NEW x, Moved(t, x), Unanswered(t), answer[t] = None
  PROVE  NavInv'
  <1>1. Shape BY DEF NavInv
  <1>2. /\ answer' = answer /\ tab' = tab /\ local' = local
        /\ heard' = [u \in Tabs |-> IF u \in Sharing(t) THEN None ELSE heard[u]]
        /\ behind' = behind \cup Sharing(t)
    BY DEF Unanswered, Moved
  <1>3. Sharing(t) \subseteq Tabs /\ t \in Sharing(t) BY DEF Sharing
  <1>4. Shape'
    <2>1. \A y \in DOMAIN store' : SoundSession(store'[y]) /\ store'[y].sid = y BY <1>1 DEF Shape, Moved
    <2>2. ASSUME NEW u \in Tabs
          PROVE  /\ tab'[u].sid \in used' \cup {None}
                 /\ answer'[u] # None => answer'[u].sid \in used' \cup {None} /\ answer'[u].doc # None
      BY <1>1, <1>2 DEF Shape, Moved
    <2>3. local' \in used' \cup {None} /\ behind' \subseteq Tabs /\ tab' \in [Tabs -> Pages] /\ DOMAIN heard' = Tabs
      BY <1>1, <1>2, <1>3 DEF Shape, Moved
    <2>4. answer' \in [Tabs -> Pages \cup {None}] BY <1>1, <1>2 DEF Shape
    <2> QED BY <2>1, <2>2, <2>3, <2>4 DEF Shape, Moved
  <1>5. AnswersAreOwn' BY <1>2 DEF NavInv, AnswersAreOwn
  <1>6. ASSUME NEW u \in Tabs, u \notin Sharing(t)
        PROVE  /\ tab[u].sid \in DOMAIN store' => tab[u].sid \in DOMAIN store /\ store'[tab[u].sid] = store[tab[u].sid]
               /\ answer[u] # None /\ answer[u].sid \in DOMAIN store' =>
                     answer[u].sid \in DOMAIN store /\ store'[answer[u].sid] = store[answer[u].sid]
    <2>1. u # t BY <1>3, <1>6
    <2> QED BY <1>6, <2>1, MovedIsShared DEF Moved
  <1>7. GroupReadInOrder' BY <1>2, <1>6 DEF NavInv, GroupReadInOrder, HasSession
  <1>8. ScreenIsSession' BY <1>2, <1>6 DEF NavInv, ScreenIsSession, HasSession
  <1>9. AnswerIsSession' BY <1>2, <1>6 DEF NavInv, AnswerIsSession
  <1> QED BY <1>4, <1>5, <1>7, <1>8, <1>9 DEF NavInv

\* Sessions may vanish at any time.
LEMMA FewerKeeps ==
  ASSUME NavInv, DOMAIN store' \subseteq DOMAIN store, \A y \in DOMAIN store' : store'[y] = store[y],
         UNCHANGED <<tab, answer, local, heard, behind, used>>, turns' \in Nat
  PROVE  NavInv'
  <1>1. Shape' BY DEF NavInv, Shape
  <1>2. AnswersAreOwn' BY DEF NavInv, AnswersAreOwn
  <1>3. GroupReadInOrder' BY DEF NavInv, GroupReadInOrder, HasSession
  <1>4. ScreenIsSession' BY DEF NavInv, ScreenIsSession, HasSession
  <1>5. AnswerIsSession' BY DEF NavInv, AnswerIsSession
  <1> QED BY <1>1, <1>2, <1>3, <1>4, <1>5 DEF NavInv

LEMMA DeliverKeeps == ASSUME NavInv, NEW t \in Tabs, Deliver(t) PROVE NavInv'
  <1> DEFINE page == answer[t]
  <1>1. Shape BY DEF NavInv
  <1>2. /\ page # None /\ tab' = [tab EXCEPT ![t] = page] /\ local' = page.sid
        /\ answer' = [answer EXCEPT ![t] = None]
        /\ UNCHANGED <<store, heard, behind, used, turns>>
    BY DEF Deliver
  <1>3. page \in Pages /\ page.sid \in used \cup {None} BY <1>1, <1>2 DEF Shape
  <1>4. /\ tab'[t] = page /\ answer'[t] = None
        /\ \A u \in Tabs \ {t} : tab'[u] = tab[u] /\ answer'[u] = answer[u]
    BY <1>1, <1>2 DEF Shape
  <1>5. page.sid \notin {None, tab[t].sid} =>
        /\ heard[t] = None /\ local # page.sid
        /\ \A u \in Tabs : tab[u].sid # page.sid
        /\ \A u \in Tabs \ {t} : answer[u] # None => answer[u].sid # page.sid
    BY <1>2 DEF NavInv, AnswersAreOwn
  <1>6. Shape'
    <2>1. tab' \in [Tabs -> Pages] /\ answer' \in [Tabs -> Pages \cup {None}] BY <1>1, <1>2, <1>3 DEF Shape
    <2>2. ASSUME NEW u \in Tabs
          PROVE  /\ tab'[u].sid \in used' \cup {None}
                 /\ answer'[u] # None => answer'[u].sid \in used' \cup {None} /\ answer'[u].doc # None
      BY <1>1, <1>2, <1>3, <1>4 DEF Shape
    <2> QED BY <1>1, <1>2, <1>3, <2>1, <2>2 DEF Shape
  <1>7. AnswersAreOwn'
    <2>1. ASSUME NEW u \in Tabs, answer'[u] # None, answer'[u].sid \notin {None, tab'[u].sid}
          PROVE  /\ heard'[u] = None /\ local' # answer'[u].sid
                 /\ \A v \in Tabs : tab'[v].sid # answer'[u].sid
                 /\ \A v \in Tabs \ {u} : answer'[v] # None => answer'[v].sid # answer'[u].sid
      <3>1. u # t /\ answer'[u] = answer[u] /\ tab'[u] = tab[u] BY <1>4, <2>1
      <3>2. /\ heard[u] = None /\ \A v \in Tabs : tab[v].sid # answer[u].sid
            /\ \A v \in Tabs \ {u} : answer[v] # None => answer[v].sid # answer[u].sid
        BY <2>1, <3>1 DEF NavInv, AnswersAreOwn
      <3>3. page.sid # answer[u].sid BY <1>2, <3>1, <3>2
      <3> QED BY <1>2, <1>4, <3>1, <3>2, <3>3
    <2> QED BY <2>1 DEF AnswersAreOwn
  <1>8. GroupReadInOrder'
    <2>1. ASSUME NEW u \in Tabs, tab'[u].sid \in DOMAIN store, heard[u] # None
          PROVE  tab'[u].sid = tab[u].sid
      <3>1. CASE u = t
        <4>1. page.sid # None BY <1>1, <1>4, <2>1, <3>1, NoneIsNew DEF Shape
        <4> QED BY <1>4, <1>5, <2>1, <3>1, <4>1
      <3>2. CASE u # t BY <1>4, <3>2
      <3> QED BY <3>1, <3>2
    <2> QED BY <1>2, <2>1 DEF NavInv, GroupReadInOrder, HasSession
  <1>9. ScreenIsSession'
    <2>1. ASSUME NEW u \in Tabs \ behind, tab'[u].sid \in DOMAIN store, answer'[u] = None, tab'[u].doc # None
          PROVE  store[tab'[u].sid].doc = tab'[u].doc
      <3>1. CASE u = t BY <1>2, <1>4, <2>1, <3>1 DEF NavInv, AnswerIsSession
      <3>2. CASE u # t BY <1>4, <2>1, <3>2 DEF NavInv, ScreenIsSession, HasSession
      <3> QED BY <3>1, <3>2
    <2> QED BY <1>2, <2>1 DEF ScreenIsSession, HasSession
  <1>10. AnswerIsSession' BY <1>2, <1>4 DEF NavInv, AnswerIsSession
  <1> QED BY <1>6, <1>7, <1>8, <1>9, <1>10 DEF NavInv

LEMMA LoadKeeps == ASSUME NavInv, NEW t \in Tabs, Load(t) PROVE NavInv'
  <1> DEFINE page == [sid |-> local, doc |-> None]
  <1>1. Shape BY DEF NavInv
  <1>2. /\ tab' = [tab EXCEPT ![t] = page] /\ answer' = [answer EXCEPT ![t] = None]
        /\ heard' = [heard EXCEPT ![t] = None] /\ turns' \in Nat
        /\ UNCHANGED <<store, local, behind, used>>
    BY <1>1 DEF Load, Shape
  <1>3. page \in Pages /\ page.sid = local /\ page.doc = None BY <1>1 DEF Shape, Pages
  <1>4. /\ tab'[t] = page /\ answer'[t] = None /\ heard'[t] = None
        /\ \A u \in Tabs \ {t} : tab'[u] = tab[u] /\ answer'[u] = answer[u] /\ heard'[u] = heard[u]
    BY <1>1, <1>2 DEF Shape
  <1> HIDE DEF page
  <1>5. Shape'
    <2>1. tab' \in [Tabs -> Pages] /\ answer' \in [Tabs -> Pages \cup {None}] /\ DOMAIN heard' = Tabs
      BY <1>1, <1>2, <1>3 DEF Shape
    <2>2. ASSUME NEW u \in Tabs
          PROVE  /\ tab'[u].sid \in used' \cup {None}
                 /\ answer'[u] # None => answer'[u].sid \in used' \cup {None} /\ answer'[u].doc # None
      BY <1>1, <1>2, <1>3, <1>4 DEF Shape
    <2> QED BY <1>1, <1>2, <2>1, <2>2 DEF Shape
  <1>6. AnswersAreOwn'
    <2>1. ASSUME NEW u \in Tabs, answer'[u] # None, answer'[u].sid \notin {None, tab'[u].sid}
          PROVE  /\ heard'[u] = None /\ local # answer'[u].sid
                 /\ \A v \in Tabs : tab'[v].sid # answer'[u].sid
                 /\ \A v \in Tabs \ {u} : answer'[v] # None => answer'[v].sid # answer'[u].sid
      <3>1. u # t /\ answer'[u] = answer[u] /\ tab'[u] = tab[u] /\ heard'[u] = heard[u] BY <1>4, <2>1
      <3>2. /\ heard[u] = None /\ local # answer[u].sid /\ \A v \in Tabs : tab[v].sid # answer[u].sid
            /\ \A v \in Tabs \ {u} : answer[v] # None => answer[v].sid # answer[u].sid
        BY <2>1, <3>1 DEF NavInv, AnswersAreOwn
      <3> QED BY <1>3, <1>4, <3>1, <3>2
    <2> QED BY <1>2, <2>1 DEF AnswersAreOwn
  <1>7. GroupReadInOrder' BY <1>2, <1>4 DEF NavInv, GroupReadInOrder, HasSession
  <1>8. ScreenIsSession' BY <1>2, <1>3, <1>4 DEF NavInv, ScreenIsSession, HasSession
  <1>9. AnswerIsSession' BY <1>2, <1>4 DEF NavInv, AnswerIsSession
  <1> QED BY <1>5, <1>6, <1>7, <1>8, <1>9 DEF NavInv

\* One item more of a group.
LEMMA OneItemMore ==
  ASSUME NEW b \in Seq(Nat), NEW n \in Nat, n + 1 \in 1..Len(b)
  PROVE  SubSeq(b, 1, n + 1) = SubSeq(b, 1, n) \o <<b[n + 1]>>
  <1>1. 1 \in 1..Len(b) /\ n + 1 \in 1..Len(b) /\ n + 1 - 1 = n OBVIOUS
  <1> QED BY <1>1, SubSeqRecursiveSecond

LEMMA SaidFacts ==
  ASSUME NEW kind \in {"map", "all", "summary", "item"}, NEW list \in Seq(Nat), NEW cut \in BOOLEAN
  PROVE  Said(kind, list, cut) \in Speeches /\ Said(kind, list, cut).items = list
  BY DEF Said, Speeches

\* An item of a group is spoken.
LEMMA BucketSpeechFacts ==
  ASSUME NEW doc \in Docs, NEW b \in 1..Len(doc.buckets), NEW i \in Nat, i + 1 \in 1..Len(doc.buckets[b])
  PROVE  /\ BucketSpeech(doc, b, i) \in Speeches
         /\ BucketSpeech(doc, b, i).items = <<doc.buckets[b][i + 1]>>
  <1>1. doc.buckets[b] \in Seq(Nat) BY DocFacts
  <1>2. doc.buckets[b][i + 1] \in Nat /\ (i = 0 => doc.buckets[b][1] = doc.buckets[b][i + 1]) BY <1>1
  <1> DEFINE k == doc.buckets[b][i + 1]
             long == doc.lines[k] = "long"
  <1>4. long \in BOOLEAN OBVIOUS
  <1>5. BucketSpeech(doc, b, i) \in {Said("summary", <<k>>, TRUE), Said("item", <<k>>, long)}
    <2>1. CASE i = 0 /\ Len(doc.buckets[b]) > 1 BY <1>2, <2>1 DEF BucketSpeech
    <2>2. CASE ~(i = 0 /\ Len(doc.buckets[b]) > 1) BY <2>2 DEF BucketSpeech, ItemSpeech
    <2> QED BY <2>1, <2>2
  <1> DEFINE one == <<k>>
  <1>3. one \in Seq(Nat) BY <1>2
  <1> HIDE DEF long, one
  <1>6. Said("summary", one, TRUE) \in Speeches /\ Said("summary", one, TRUE).items = one BY <1>3, <1>4, SaidFacts
  <1>7. Said("item", one, long) \in Speeches /\ Said("item", one, long).items = one BY <1>3, <1>4, SaidFacts
  <1> QED BY <1>5, <1>6, <1>7 DEF one

\* Words are taken for groups that are there.
LEMMA MeaningsFacts ==
  ASSUME NEW word \in Words, NEW doc \in Docs, NEW intent \in Meanings(word, doc)
  PROVE  /\ intent.kind \in {"stop", "repeat", "read_all", "next", "back", "group", "question"}
         /\ intent.kind = "group" => intent.group \in 1..Len(doc.buckets)
  <1>1. Len(doc.buckets) \in Nat /\ DOMAIN doc.buckets = 1..Len(doc.buckets) BY DocFacts, LenProperties
  <1>2. 1..Least(Ordinals, Len(doc.buckets)) \subseteq 1..Len(doc.buckets) BY <1>1 DEF Least, Ordinals
  <1>3. word.kind \in {"stop", "repeat", "read_all", "next", "back", "group", "question"}
    BY DEF Words, Plain, Pick
  <1>4. CASE word.kind = "group" /\ word.group \notin 1..Least(Ordinals, Len(doc.buckets))
    <2>1. intent = Plain("question") \/ \E b \in 1..Len(doc.buckets) : intent = Pick(b) BY <1>1, <1>4 DEF Meanings
    <2> QED BY <2>1 DEF Plain, Pick
  <1>5. CASE ~(word.kind = "group" /\ word.group \notin 1..Least(Ordinals, Len(doc.buckets)))
    <2>1. intent = word BY <1>5 DEF Meanings
    <2> QED BY <1>2, <1>3, <1>5, <2>1
  <1> QED BY <1>4, <1>5

\* n is session s at item i of group b.
Speaks(n, s, b, i) ==
    /\ SoundSession(n) /\ n.sid = s.sid /\ n.doc = s.doc /\ n.bucket = b /\ n.item = i
    /\ n.last.items = <<s.doc.buckets[b][i + 1]>>

\* Speaking an item of a group that is there.
LEMMA SpeakBucketFacts ==
  ASSUME NEW s, SoundSession(s), NEW b \in 1..Len(s.doc.buckets), NEW i \in Nat,
         i + 1 \in 1..Len(s.doc.buckets[b])
  PROVE  Speaks(SpeakBucket(s, b, i), s, b, i)
  <1> DEFINE n == SpeakBucket(s, b, i)
  <1>1. s \in Sessions /\ s.doc \in Docs BY DEF SoundSession, Sessions
  <1>2. BucketSpeech(s.doc, b, i) \in Speeches /\ BucketSpeech(s.doc, b, i).items = <<s.doc.buckets[b][i + 1]>>
    BY <1>1, BucketSpeechFacts
  <1>3. b \in Nat OBVIOUS
  <1>4. /\ n \in Sessions /\ n.sid = s.sid /\ n.doc = s.doc /\ n.bucket = b /\ n.item = i
        /\ n.last = BucketSpeech(s.doc, b, i)
    BY <1>1, <1>2, <1>3 DEF SpeakBucket, Sessions
  <1> HIDE DEF n
  <1>5. SoundSession(n) 
    <2>1. Len(s.doc.buckets) \in Nat BY <1>1, DocFacts
    <2> QED BY <1>4, <2>1 DEF SoundSession
  <1> QED BY <1>2, <1>4, <1>5 DEF n, Speaks

\* What a step does to the session, and what the page has heard after it.
LEMMA StepFacts ==
  ASSUME NEW s, SoundSession(s), NEW word \in Words, NEW intent \in Meanings(word, s.doc),
         intent.kind # "question", intent.kind # "stop", NEW t \in Tabs,
         heard[t] # None =>
            s.bucket # 0 /\ heard[t] = SubSeq(s.doc.buckets[s.bucket], 1, s.item + 1)
  PROVE  LET n == Step(s, intent).to
             list == HeardAfter(t, intent, Step(s, intent).says)
         IN /\ SoundSession(n) /\ n.sid = s.sid /\ n.doc = s.doc
            /\ list # None =>
                 n.bucket # 0 /\ list = SubSeq(n.doc.buckets[n.bucket], 1, n.item + 1)
  <1> DEFINE n == Step(s, intent).to
             says == Step(s, intent).says
             list == HeardAfter(t, intent, says)
             Fits == list # None => n.bucket # 0 /\ list = SubSeq(n.doc.buckets[n.bucket], 1, n.item + 1)
  <1>1. s \in Sessions /\ s.doc \in Docs /\ s.bucket \in Nat /\ s.item \in Nat BY DEF SoundSession, Sessions
  <1>2. /\ s.doc.items \in Seq(Nat) /\ s.doc.buckets \in Seq(Seq(Nat))
        /\ Len(s.doc.buckets) \in Nat \ {0}
        /\ \A b \in 1..Len(s.doc.buckets) : s.doc.buckets[b] \in Seq(Nat) /\ Len(s.doc.buckets[b]) \in Nat \ {0}
    BY <1>1, DocFacts, EmptySeq DEF SoundSession
  <1>3. /\ intent.kind \in {"repeat", "read_all", "next", "back", "group"}
        /\ intent.kind = "group" => intent.group \in 1..Len(s.doc.buckets)
    BY <1>1, MeaningsFacts
  <1>4. CASE intent.kind = "repeat"
    <2>1. n = s /\ list = heard[t] BY <1>4 DEF Step, Goes, HeardAfter
    <2> QED BY <2>1
  <1>5. CASE intent.kind = "read_all"
    <2>1. n = ReadAll(s) /\ list = None BY <1>5 DEF Step, Goes, HeardAfter
    <2> DEFINE top == Least(3, Len(s.doc.items))
               three == SubSeq(s.doc.items, 1, top)
    <2>2. three \in Seq(Nat)
      <3>1. top \in Nat /\ top <= Len(s.doc.items) BY <1>2 DEF Least
      <3> DEFINE all == s.doc.items
      <3>2. \A i \in 1..top : all[i] \in Nat
        <4>1. all \in Seq(Nat) /\ top <= Len(all) BY <1>2, <3>1
        <4> HIDE DEF all, top
        <4>2. \A i \in 1..Len(all) : all[i] \in Nat BY <4>1
        <4>3. 1..top \subseteq 1..Len(all) BY <3>1, <4>1
        <4> QED BY <4>2, <4>3
      <3> HIDE DEF top
      <3> QED BY <3>1, <3>2, SubSeqProperties
    <2> HIDE DEF n, list, three
    <2>3. Said("all", three, FALSE) \in Speeches BY <2>2, SaidFacts
    <2>4. /\ n \in Sessions /\ n.sid = s.sid /\ n.doc = s.doc /\ n.bucket = 1 /\ n.item = 0
      BY <1>1, <2>1, <2>3 DEF ReadAll, Sessions, three
    <2>5. n.bucket \in 0..Len(n.doc.buckets) /\ n.item + 1 \in 1..Len(n.doc.buckets[n.bucket])
      BY <1>2, <2>4
    <2>6. n.doc.buckets # <<>> BY <2>4 DEF SoundSession
    <2> QED BY <2>1, <2>4, <2>5, <2>6 DEF SoundSession, n, list
  <1>6. CASE intent.kind = "back"
    <2>1. n = [s EXCEPT !.phase = "wait", !.bucket = 0, !.item = 0, !.last = TheMap] /\ list = None
      BY <1>6 DEF Step, Goes, HeardAfter
    <2>2. TheMap \in Speeches
      <3>1. <<>> \in Seq(Nat) OBVIOUS
      <3> QED BY <3>1, SaidFacts DEF TheMap
    <2> HIDE DEF n, list
    <2>3. n \in Sessions /\ n.sid = s.sid /\ n.doc = s.doc /\ n.bucket = 0 BY <1>1, <2>1, <2>2 DEF Sessions
    <2>4. SoundSession(n) BY <1>2, <2>3 DEF SoundSession
    <2> QED BY <2>1, <2>3, <2>4 DEF n, list
  <1>7. CASE intent.kind = "group"
    <2> DEFINE b == intent.group
    <2>1. n = SpeakBucket(s, b, 0) /\ says = n.last /\ list = says.items BY <1>7 DEF Step, Goes, HeardAfter
    <2>2. b \in 1..Len(s.doc.buckets) /\ 0 + 1 \in 1..Len(s.doc.buckets[b]) BY <1>2, <1>3, <1>7
    <2> HIDE DEF n, says, list, b
    <2>3. /\ SoundSession(n) /\ n.sid = s.sid /\ n.doc = s.doc /\ n.bucket = b /\ n.item = 0
          /\ n.last.items = <<s.doc.buckets[b][0 + 1]>>
      <3>1. Speaks(n, s, b, 0) BY <2>1, <2>2, SpeakBucketFacts
      <3> QED BY <3>1 DEF Speaks
    <2>4. SubSeq(s.doc.buckets[b], 1, 0 + 1) = SubSeq(s.doc.buckets[b], 1, 0) \o <<s.doc.buckets[b][0 + 1]>>
      BY <1>2, <2>2, OneItemMore
    <2>5. SubSeq(s.doc.buckets[b], 1, 0) = <<>> BY <1>2, <2>2
    <2>6. <<>> \o <<s.doc.buckets[b][0 + 1]>> = <<s.doc.buckets[b][0 + 1]>> OBVIOUS
    <2>7. list = SubSeq(n.doc.buckets[n.bucket], 1, n.item + 1) BY <2>1, <2>3, <2>4, <2>5, <2>6
    <2>8. n.bucket # 0 BY <2>2, <2>3
    <2> QED BY <2>3, <2>7, <2>8 DEF n, says, list
  <1>8. CASE intent.kind = "next"
    <2>1. list # None => heard[t] # None /\ list = heard[t] \o says.items BY <1>8 DEF HeardAfter
    <2>2. CASE s.bucket = 0
      <3>1. n = s BY <1>8, <2>2 DEF Step, Stays
      <3>2. list = None BY <2>1, <2>2
      <3> QED BY <3>1, <3>2
    <2>3. CASE s.bucket # 0 /\ s.item + 1 >= Len(s.doc.buckets[s.bucket])
      <3>1. n = s /\ says.items = <<>> BY <1>8, <2>3 DEF Step, Stays, Said
      <3>2. heard[t] # None => heard[t] \o <<>> = heard[t]
        <4> DEFINE b == s.doc.buckets[s.bucket]
                   g == SubSeq(b, 1, s.item + 1)
        <4>1. s.bucket \in 1..Len(s.doc.buckets) /\ s.item + 1 \in 1..Len(b) BY <1>1, <1>2, <2>3 DEF SoundSession
        <4>2. b \in Seq(Nat) BY <1>2, <4>1
        <4>3. s.item + 1 \in Nat /\ \A i \in 1..Len(b) : b[i] \in Nat
          <5> HIDE DEF b
          <5> QED BY <1>1, <4>2
        <4>6. \A i \in 1..s.item + 1 : b[i] \in Nat
          <5>0. Len(b) \in Nat BY <4>2
          <5> HIDE DEF b
          <5>1. 1..s.item + 1 \subseteq 1..Len(b) BY <4>1, <4>3, <5>0
          <5> QED BY <4>3, <5>1
        <4>4. g \in Seq(Nat) BY <4>3, <4>6, SubSeqProperties
        <4> HIDE DEF g
        <4>5. g \o <<>> = g BY <4>4
        <4> QED BY <4>5 DEF g
      <3> HIDE DEF n, says, list
      <3>3. list # None => list = heard[t] /\ heard[t] # None BY <2>1, <3>1, <3>2
      <3> QED BY <3>1, <3>3 DEF n, says, list
    <2>4. CASE s.bucket # 0 /\ ~(s.item + 1 >= Len(s.doc.buckets[s.bucket]))
      <3> DEFINE b == s.bucket
                 i == s.item + 1
      <3>1. n = SpeakBucket(s, b, i) /\ says = n.last BY <1>8, <2>4 DEF Step, Goes
      <3>2. b \in 1..Len(s.doc.buckets) /\ i \in Nat /\ i + 1 \in 1..Len(s.doc.buckets[b])
        <4>1. b \in 1..Len(s.doc.buckets) BY <1>1, <1>2, <2>4 DEF SoundSession
        <4>2. Len(s.doc.buckets[b]) \in Nat BY <1>2, <4>1
        <4> QED BY <1>1, <2>4, <4>1, <4>2
      <3> HIDE DEF n, says, list, i
      <3>3. /\ SoundSession(n) /\ n.sid = s.sid /\ n.doc = s.doc /\ n.bucket = b /\ n.item = i
            /\ n.last.items = <<s.doc.buckets[b][i + 1]>>
        <4>1. Speaks(n, s, b, i) BY <3>1, <3>2, SpeakBucketFacts
        <4> QED BY <4>1 DEF Speaks
      <3>4. SubSeq(s.doc.buckets[b], 1, i + 1) = SubSeq(s.doc.buckets[b], 1, i) \o <<s.doc.buckets[b][i + 1]>>
        BY <1>2, <3>2, OneItemMore
      <3>5. list # None => list = SubSeq(n.doc.buckets[n.bucket], 1, n.item + 1)
        BY <2>1, <3>1, <3>3, <3>4 DEF i
      <3> QED BY <2>4, <3>3, <3>5 DEF n, says, list
    <2> QED BY <2>2, <2>3, <2>4
  <1> QED BY <1>3, <1>4, <1>5, <1>6, <1>7, <1>8

LEMMA NavigateKeeps ==
  ASSUME NavInv, NEW t \in Tabs, HasSession(t), answer[t] = None, NEW word \in Words,
         NEW intent \in Meanings(word, store[tab[t].sid].doc), intent.kind # "question",
         Navigate(t, intent), UNCHANGED <<tab, local>>, turns' \in Nat
  PROVE  NavInv'
  <1> DEFINE x == tab[t].sid
             s == store[x]
             to == Step(s, intent).to
             list == HeardAfter(t, intent, Step(s, intent).says)
  <1>1. SoundSession(s) /\ s.sid = x /\ x \in DOMAIN store /\ x \in used /\ used \subseteq Sids
    BY DEF NavInv, Shape, HasSession
  <1>2. s.doc \in Docs BY <1>1 DEF SoundSession, Sessions
  <1>3. CASE to = None
    <2>1. store' = Delete(x) /\ used' = used BY <1>1, <1>3 DEF Navigate
    <2>2. Moved(t, x) BY <1>1, <2>1 DEF Moved, Delete, NavInv, Shape
    <2>3. CASE Answered(t, None, s.doc, list)
      <3>1. x \notin DOMAIN store' BY <2>1 DEF Delete
      <3> HIDE DEF list, s
      <3> QED BY <1>1, <1>2, <2>1, <2>2, <2>3, <3>1, AnsweredKeeps
    <2>4. CASE Unanswered(t) BY <2>2, <2>4, UnansweredKeeps
    <2> QED BY <1>3, <2>3, <2>4 DEF Navigate
  <1>4. CASE to # None
    <2>1. store' = Put(to) /\ used' = used BY <1>4 DEF Navigate
    <2>2. /\ SoundSession(to) /\ to.sid = x /\ to.doc = s.doc
          /\ list # None => to.bucket # 0 /\ list = SubSeq(to.doc.buckets[to.bucket], 1, to.item + 1)
      <3>1. intent.kind # "stop" BY <1>4 DEF Step
      <3>2. heard[t] # None => s.bucket # 0 /\ heard[t] = SubSeq(s.doc.buckets[s.bucket], 1, s.item + 1)
        BY DEF NavInv, GroupReadInOrder
      <3> HIDE DEF s
      <3> QED BY <1>1, <3>1, <3>2, StepFacts DEF s
    <2> HIDE DEF to
    <2>3. DOMAIN store' = DOMAIN store /\ store'[x] = to /\ \A y \in DOMAIN store \ {x} : store'[y] = store[y]
      BY <1>1, <2>1, <2>2 DEF Put
    <2>4. Moved(t, x) BY <1>1, <2>1, <2>2, <2>3 DEF Moved, NavInv, Shape
    <2>5. CASE Answered(t, x, s.doc, list)
      <3> HIDE DEF list
      <3> QED BY <1>1, <1>2, <2>1, <2>2, <2>3, <2>4, <2>5, AnsweredKeeps
    <2>6. CASE Unanswered(t) BY <2>4, <2>6, UnansweredKeeps
    <2> QED BY <1>1, <1>4, <2>5, <2>6 DEF Navigate, to
  <1> QED BY <1>3, <1>4

LEMMA AskKeeps ==
  ASSUME NavInv, NEW t \in Tabs, answer[t] = None, Ask(t), UNCHANGED <<tab, local>>, turns' \in Nat
  PROVE  NavInv'
  <1>1. CASE UNCHANGED <<store, answer, heard, behind, used>> BY <1>1, FewerKeeps
  <1>2. ASSUME NEW reply \in Replies, Layered(reply.lines, reply.wordy),
               NEW sid \in IF tab[t].sid # None THEN {tab[t].sid} ELSE Sids \ used,
               store' = Put(Begun(sid, Doc(reply))), used' = used \cup {sid},
               Answered(t, sid, Doc(reply), None) \/ Unanswered(t)
        PROVE  NavInv'
    <2> DEFINE doc == Doc(reply)
               s == Begun(sid, doc)
    <2>1. doc \in Docs /\ doc.buckets # <<>> BY <1>2, LayeredHasGroups DEF Docs
    <2> HIDE DEF doc
    <2>2. sid \in Sids /\ sid \in {tab[t].sid} \cup (Sids \ used) /\ used' \subseteq Sids
      BY <1>2 DEF NavInv, Shape
    <2>3. s.sid = sid /\ s.doc = doc /\ SoundSession(s)
      <3>1. TheMap \in Speeches
        <4>1. <<>> \in Seq(Nat) OBVIOUS
        <4> QED BY <4>1, SaidFacts DEF TheMap
      <3>2. s \in Sessions /\ s.sid = sid /\ s.doc = doc /\ s.bucket = 0 BY <2>1, <2>2, <3>1 DEF Begun, Sessions
      <3>3. Len(doc.buckets) \in Nat BY <2>1, DocFacts
      <3> QED BY <2>1, <3>2, <3>3 DEF SoundSession
    <2> HIDE DEF s
    <2>4. /\ DOMAIN store' = DOMAIN store \cup {sid} /\ store'[sid] = s
          /\ \A y \in DOMAIN store \ {sid} : store'[y] = store[y]
      <3>1. store' = Put(s) BY <1>2 DEF s, doc
      <3> QED BY <2>3, <3>1 DEF Put
    <2>5. Moved(t, sid) BY <1>2, <2>2, <2>3, <2>4 DEF Moved, NavInv, Shape
    <2>6. CASE Answered(t, sid, doc, None)
      BY <1>2, <2>1, <2>3, <2>4, <2>5, <2>6, AnsweredKeeps
    <2>7. CASE Unanswered(t) BY <2>5, <2>7, UnansweredKeeps
    <2> QED BY <1>2, <2>6, <2>7 DEF doc
  <1>3. ASSUME NEW reply \in Replies, store' = Delete(tab[t].sid), UNCHANGED used,
               Answered(t, None, Doc(reply), None) \/ Unanswered(t)
        PROVE  NavInv'
    <2> DEFINE doc == Doc(reply)
               x == tab[t].sid
    <2>1. doc \in Docs BY DEF Docs
    <2>2. DOMAIN store' = DOMAIN store \ {x} /\ \A y \in DOMAIN store' : store'[y] = store[y]
      BY <1>3 DEF Delete
    <2>3. CASE Unanswered(t)
      <3>1. Moved(t, x) BY <1>3, <2>2 DEF Moved, NavInv, Shape
      <3> QED BY <2>3, <3>1, UnansweredKeeps
    <2>4. CASE Answered(t, None, doc, None)
      <3>1. Moved(t, x) BY <1>3, <2>2 DEF Moved, NavInv, Shape
      <3> QED BY <2>1, <2>2, <2>4, <3>1, AnsweredKeeps
    <2> QED BY <1>3, <2>3, <2>4
  <1> QED BY <1>1, <1>2, <1>3 DEF Ask

LEMMA SpeakKeeps == ASSUME NavInv, NEW t \in Tabs, Speak(t) PROVE NavInv'
  <1>1. turns' \in Nat /\ answer[t] = None /\ UNCHANGED <<tab, local>> BY DEF Speak, Turn, NavInv, Shape
  <1>2. CASE Ask(t) BY <1>1, <1>2, AskKeeps
  <1>3. ASSUME NEW word \in Words, HasSession(t), NEW intent \in Meanings(word, store[tab[t].sid].doc),
               intent.kind # "question", Navigate(t, intent)
        PROVE  NavInv'
    BY <1>1, <1>3, NavigateKeeps
  <1> QED BY <1>2, <1>3 DEF Speak

LEMMA PressChipKeeps == ASSUME NavInv, NEW t \in Tabs, PressChip(t) PROVE NavInv'
  <1>1. turns' \in Nat /\ answer[t] = None /\ UNCHANGED <<tab, local>> BY DEF PressChip, Turn, NavInv, Shape
  <1>2. PICK b \in DOMAIN tab[t].doc.buckets :
           IF ~HasSession(t) THEN UNCHANGED <<store, answer, heard, behind, used>>
           ELSE \E intent \in Meanings(ChipWord(b), store[tab[t].sid].doc) :
                   IF intent.kind = "question"
                   THEN store' = Delete(tab[t].sid) /\ UNCHANGED <<answer, heard, behind, used>>
                   ELSE Navigate(t, intent)
    BY DEF PressChip
  <1>3. ChipWord(b) \in Words
    <2>1. tab[t].doc \in Docs BY DEF PressChip, NavInv, Shape, Pages
    <2>2. /\ DOMAIN tab[t].doc.buckets = 1..Len(tab[t].doc.buckets)
          /\ Len(tab[t].doc.buckets) \in 0..MaxBuckets /\ MaxBuckets \in Nat
      BY <2>1, DocFacts, LenProperties, DocumentConstants DEF DocumentConstants
    <2>3. b \in 1..MaxBuckets BY <1>2, <2>2
    <2> QED BY <2>3 DEF ChipWord, Words
  <1>4. CASE ~HasSession(t) BY <1>1, <1>2, <1>4, FewerKeeps
  <1>5. ASSUME HasSession(t), store' = Delete(tab[t].sid), UNCHANGED <<answer, heard, behind, used>>
        PROVE  NavInv'
    <2>1. DOMAIN store' \subseteq DOMAIN store /\ \A y \in DOMAIN store' : store'[y] = store[y]
      BY <1>5 DEF Delete
    <2> QED BY <1>1, <1>5, <2>1, FewerKeeps
  <1>6. ASSUME HasSession(t), NEW intent \in Meanings(ChipWord(b), store[tab[t].sid].doc),
               intent.kind # "question", Navigate(t, intent)
        PROVE  NavInv'
    BY <1>1, <1>3, <1>6, NavigateKeeps
  <1> QED BY <1>2, <1>4, <1>5, <1>6

LEMMA ExpireKeeps == ASSUME NavInv, NEW x \in Sids, Expire(x) PROVE NavInv'
  <1>1. DOMAIN store' \subseteq DOMAIN store /\ \A y \in DOMAIN store' : store'[y] = store[y]
    BY DEF Expire, Delete
  <1>2. UNCHANGED <<tab, answer, local, heard, behind, used>> /\ turns' \in Nat BY DEF Expire, NavInv, Shape
  <1> QED BY <1>1, <1>2, FewerKeeps

LEMMA NavStarts == Init => NavInv
  <1> SUFFICES ASSUME Init PROVE NavInv OBVIOUS
  <1>1. /\ store = [x \in {} |-> None] /\ tab = [t \in Tabs |-> [sid |-> None, doc |-> None]]
        /\ answer = [t \in Tabs |-> None] /\ heard = [t \in Tabs |-> None]
        /\ local = None /\ behind = {} /\ used = {} /\ turns = 0
    BY DEF Init
  <1>2. DOMAIN store = {} BY <1>1
  <1>3. [sid |-> None, doc |-> None] \in Pages BY DEF Pages
  <1>4. Shape
    <2>1. tab \in [Tabs -> Pages] /\ answer \in [Tabs -> Pages \cup {None}] /\ DOMAIN heard = Tabs
      BY <1>1, <1>3
    <2> QED BY <1>1, <1>2, <2>1 DEF Shape
  <1>5. AnswersAreOwn BY <1>1 DEF AnswersAreOwn
  <1>6. GroupReadInOrder BY <1>1 DEF GroupReadInOrder
  <1>7. ScreenIsSession BY <1>2 DEF ScreenIsSession, HasSession
  <1>8. AnswerIsSession BY <1>1 DEF AnswerIsSession
  <1> QED BY <1>4, <1>5, <1>6, <1>7, <1>8 DEF NavInv

LEMMA NavIsRight == Spec => []NavInv
  <1>1. NavInv /\ [Next]_vars => NavInv'
    <2> SUFFICES ASSUME NavInv, [Next]_vars PROVE NavInv' OBVIOUS
    <2>1. ASSUME NEW t \in Tabs, Speak(t) PROVE NavInv' BY <2>1, SpeakKeeps
    <2>2. ASSUME NEW t \in Tabs, PressChip(t) PROVE NavInv' BY <2>2, PressChipKeeps
    <2>3. ASSUME NEW t \in Tabs, Deliver(t) PROVE NavInv' BY <2>3, DeliverKeeps
    <2>4. ASSUME NEW t \in Tabs, Load(t) PROVE NavInv' BY <2>4, LoadKeeps
    <2>5. ASSUME NEW x \in Sids, Expire(x) PROVE NavInv' BY <2>5, ExpireKeeps
    <2>6. CASE UNCHANGED vars
      <3>1. turns' \in Nat /\ DOMAIN store' \subseteq DOMAIN store /\ \A y \in DOMAIN store' : store'[y] = store[y]
        BY <2>6 DEF vars, NavInv, Shape
      <3> QED BY <2>6, <3>1, FewerKeeps DEF vars
    <2> QED BY <2>1, <2>2, <2>3, <2>4, <2>5, <2>6 DEF Next
  <1> QED BY <1>1, NavStarts, PTL DEF Spec

\* Every session's place is in its own document, whatever document its id was begun
\* with before, and pages and answers hold documents there are.
THEOREM PlacesAreInDocuments == Spec => []TypeOK
  <1>1. NavInv => TypeOK
    <2> SUFFICES ASSUME NavInv PROVE TypeOK OBVIOUS
    <2>1. /\ DOMAIN store \subseteq used /\ used \subseteq Sids /\ behind \subseteq Tabs
          /\ local \in Sids \cup {None}
      BY DEF NavInv, Shape
    <2>2. ASSUME NEW t \in Tabs, NEW page \in {tab[t], answer[t]} \ {None}
          PROVE  page.sid \in Sids \cup {None} /\ page.doc \in Docs \cup {None}
      <3>1. page \in Pages BY DEF NavInv, Shape
      <3> QED BY <3>1 DEF Pages
    <2>3. ASSUME NEW x \in DOMAIN store
          PROVE  LET s == store[x] IN
                 /\ s.sid = x /\ s.doc \in Docs /\ s.phase \in {"wait", "deepen"}
                 /\ s.bucket \in 0..Len(s.doc.buckets)
                 /\ s.bucket # 0 => s.item + 1 \in DOMAIN s.doc.buckets[s.bucket]
      <3> DEFINE s == store[x]
      <3>1. SoundSession(s) /\ s.sid = x BY DEF NavInv, Shape
      <3> HIDE DEF s
      <3>2. s.doc \in Docs /\ s.phase \in {"wait", "deepen"} /\ s.bucket \in Nat BY <3>1 DEF SoundSession, Sessions
      <3>3. s.bucket # 0 => DOMAIN s.doc.buckets[s.bucket] = 1..Len(s.doc.buckets[s.bucket])
        <4>1. s.bucket # 0 => s.bucket \in 1..Len(s.doc.buckets) BY <3>1, <3>2, DocFacts DEF SoundSession
        <4>2. s.bucket # 0 => s.doc.buckets[s.bucket] \in Seq(Nat) BY <3>2, <4>1, DocFacts
        <4> QED BY <4>2, LenProperties
      <3> QED BY <3>1, <3>2, <3>3 DEF SoundSession, s
    <2> QED BY <2>1, <2>2, <2>3 DEF TypeOK
  <1> QED BY <1>1, NavIsRight, PTL

\* A page that picked a group has heard its items up to the session's place, each once
\* and in order: with any number of pages, sessions, documents and turns.
THEOREM GroupsAreReadInOrder == Spec => []GroupReadInOrder
  <1>1. NavInv => GroupReadInOrder BY DEF NavInv
  <1> QED BY <1>1, NavIsRight, PTL

\* A page that missed no answer and waits for none navigates the session of the
\* document on its screen.
THEOREM ScreensAreSessions == Spec => []ScreenIsSession
  <1>1. NavInv => ScreenIsSession BY DEF NavInv
  <1> QED BY <1>1, NavIsRight, PTL
=============================================================================
