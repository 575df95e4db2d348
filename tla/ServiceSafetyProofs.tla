------------------------- MODULE ServiceSafetyProofs -------------------------
(***************************************************************************)
(* What the processes and their clients keep: for any number of both, any  *)
(* plans, streams, cuts, crashes and signals, whatever is written to a     *)
(* portfolio is of one caller, a puller has all it may see up to its       *)
(* cursor, and what was granted is in the store.  The lines a client       *)
(* writes are followed through pieces, overlong frames and tokens to the   *)
(* request that is made of them.                                           *)
(***************************************************************************)
EXTENDS ServiceProofs

-----------------------------------------------------------------------------
(* How a stream is cut.                                                     *)

\* Sequences of the same elements in the same order are the same.
LEMMA SameSequence ==
  ASSUME NEW q, NEW r, IsSequence(q), IsSequence(r), Len(q) = Len(r),
         \A i \in 1 .. Len(q) : q[i] = r[i]
  PROVE  q = r
<1>1. DOMAIN q = 1 .. Len(q) /\ DOMAIN r = 1 .. Len(q)
  BY SequenceShape
<1>2. q = [i \in DOMAIN q |-> q[i]] /\ r = [i \in DOMAIN r |-> r[i]]
  <2>1. q \in [1 .. Len(q) -> Items(q)] /\ r \in [1 .. Len(r) -> Items(r)]
    BY SequenceShape DEF IsSequence
  <2> QED BY <2>1
<1> QED BY <1>1, <1>2

\* The line breaks, numbered.
LEMMA BreakNumbers ==
  ASSUME NEW data, IsSequence(data)
  PROVE  LET n == Cardinality(Breaks(data))
         IN  /\ n \in Nat
             /\ \A i \in 0 .. n : Break(data, i) \in 0 .. Len(data)
             /\ \A i \in 1 .. n : /\ Break(data, i) \in Breaks(data)
                                  /\ Break(data, i - 1) < Break(data, i)
             /\ \A i \in 1 .. n, b \in Breaks(data) :
                  ~(Break(data, i - 1) < b /\ b < Break(data, i))
             /\ \A b \in Breaks(data) : b <= Break(data, n)
             /\ n = 0 <=> Breaks(data) = {}
<1> DEFINE S == Breaks(data)
           n == Cardinality(S)
           Before == {p \in S \X S : p[1] < p[2]}
<1>1. Len(data) \in Nat /\ S \subseteq 1 .. Len(data)
  BY SequenceShape DEF Breaks
<1>2. IsFiniteSet(S)
  <2>1. IsFiniteSet(1 .. Len(data))
    BY <1>1, FS_Interval
  <2> QED BY <1>1, <2>1, FS_Subset
<1>3. \A x, y \in S : <<x, y>> \in Before <=> x < y
  OBVIOUS
<1>4. \A i : Break(data, i) = IF i = 0 THEN 0
                              ELSE CHOOSE b \in S : Cardinality({j \in S : j <= b}) = i
  BY DEF Break
<1> HIDE DEF S, Before
<1>5. \A b \in S : Upto(Before, S, b) = {j \in S : j <= b}
  <2> SUFFICES ASSUME NEW b \in S PROVE \A j \in S : (j = b \/ <<j, b>> \in Before) <=> j <= b
    BY DEF Upto
  <2> QED BY <1>1, <1>3
<1>6. StrictOrder(Before, S)
  BY <1>1, <1>3 DEF StrictOrder
<1> DEFINE r == Rank(Before, S)
<1>7. /\ n \in Nat /\ r \in [S -> 1 .. n]
      /\ \A x, y \in S : <<x, y>> \in Before => r[x] < r[y]
      /\ \A x, y \in S : x # y => r[x] # r[y]
      /\ \A i \in 1 .. n : \E x \in S : r[x] = i
  BY <1>2, <1>6, RankNumbers
<1>8. \A b \in S : r[b] = Cardinality({j \in S : j <= b})
  BY <1>5 DEF Rank
<1> HIDE DEF r
<1>9. \A i \in 1 .. n : Break(data, i) \in S /\ r[Break(data, i)] = i
  <2> SUFFICES ASSUME NEW i \in 1 .. n PROVE Break(data, i) \in S /\ r[Break(data, i)] = i
    OBVIOUS
  <2>1. \E b \in S : Cardinality({j \in S : j <= b}) = i
    BY <1>7, <1>8
  <2>2. Break(data, i) = CHOOSE b \in S : Cardinality({j \in S : j <= b}) = i
    BY <1>4, <1>7
  <2>3. Break(data, i) \in S /\ Cardinality({j \in S : j <= Break(data, i)}) = i
    BY <2>1, <2>2
  <2> QED BY <1>8, <2>3
<1>10. \A x, y \in S : x < y => r[x] < r[y]
  BY <1>3, <1>7
<1>11. Break(data, 0) = 0
  BY <1>4
<1>12. \A x \in S : x \in Nat /\ x > 0 /\ r[x] \in 1 .. n
  BY <1>1, <1>7
<1>13. ASSUME NEW i \in 1 .. n PROVE Break(data, i - 1) < Break(data, i)
  <2>1. CASE i = 1
    BY <1>9, <1>11, <1>12, <2>1
  <2>2. CASE i # 1
    <3>1. i - 1 \in 1 .. n
      BY <1>7, <2>2
    <3> DEFINE x == Break(data, i - 1)
               y == Break(data, i)
    <3>2. x \in S /\ y \in S /\ r[x] = i - 1 /\ r[y] = i
      BY <1>9, <3>1
    <3> HIDE DEF x, y
    <3>3. y < x => r[y] < r[x]
      BY <1>10, <3>2
    <3>4. x # y
      BY <3>2
    <3> QED BY <1>12, <3>2, <3>3, <3>4 DEF x, y
  <2> QED BY <2>1, <2>2
<1>14. ASSUME NEW i \in 1 .. n, NEW b \in S, Break(data, i - 1) < b, b < Break(data, i)
       PROVE  FALSE
  <2>1. r[b] < i
    BY <1>9, <1>10, <1>14
  <2>2. i # 1
    BY <1>12, <2>1
  <2>3. i - 1 \in 1 .. n
    BY <1>7, <2>2
  <2>4. i - 1 < r[b]
    BY <1>9, <1>10, <1>14, <2>3
  <2> QED BY <1>12, <2>1, <2>4
<1>15. ASSUME NEW b \in S PROVE b <= Break(data, n)
  <2>1. n \in 1 .. n
    BY <1>7, <1>12
  <2>2. Break(data, n) < b => n < r[b]
    BY <1>9, <1>10, <2>1
  <2>3. ~(Break(data, n) < b)
    BY <1>7, <1>12, <2>2
  <2> QED BY <1>9, <1>12, <2>1, <2>3
<1>16. n = 0 <=> S = {}
  BY <1>2, FS_EmptySet
<1>17. \A i \in 0 .. n : Break(data, i) \in 0 .. Len(data)
  <2> SUFFICES ASSUME NEW i \in 0 .. n PROVE Break(data, i) \in 0 .. Len(data)
    OBVIOUS
  <2>1. CASE i = 0
    BY <1>1, <1>11, <2>1
  <2>2. CASE i # 0
    <3>1. i \in 1 .. n
      BY <1>7, <2>2
    <3>2. Break(data, i) \in S
      BY <1>9, <3>1
    <3>3. Break(data, i) \in 1 .. Len(data)
      BY <1>1, <3>2
    <3> QED BY <1>1, <3>3
  <2> QED BY <2>1, <2>2
<1> QED BY <1>7, <1>9, <1>13, <1>14, <1>15, <1>16, <1>17 DEF S

\* All whole lines that start at a position or later are among some.
LinesIn(data, from, lines) ==
  \A a \in from .. Len(data), b \in 1 .. Len(data) :
     a < b /\ (a = 0 \/ data[a] = NewLine) /\ data[b] = NewLine
       /\ (\A i \in (a + 1) .. (b - 1) : data[i] # NewLine)
     => SubSeq(data, a + 1, b - 1) \in lines

Ended(data) == data = << >> \/ data[Len(data)] = NewLine

\* The lines of a text are among those it is known to have.
LEMMA LinesAre ==
  ASSUME NEW data, IsSequence(data), NEW lines, LinesIn(data, 0, lines)
  PROVE  IsSequence(Lines(data)) /\ Items(Lines(data)) \subseteq lines
<1> DEFINE n == Cardinality(Breaks(data))
<1>0. Len(data) \in Nat
  BY SequenceShape
<1>1. /\ n \in Nat
      /\ \A i \in 0 .. n : Break(data, i) \in 0 .. Len(data)
      /\ \A i \in 1 .. n : /\ Break(data, i) \in Breaks(data)
                           /\ Break(data, i - 1) < Break(data, i)
      /\ \A i \in 1 .. n, b \in Breaks(data) :
           ~(Break(data, i - 1) < b /\ b < Break(data, i))
  BY BreakNumbers
<1>2. Break(data, 0) = 0
  BY DEF Break
<1>3. ASSUME NEW i \in 1 .. n
      PROVE  SubSeq(data, Break(data, i - 1) + 1, Break(data, i) - 1) \in lines
  <2> DEFINE a == Break(data, i - 1)
             b == Break(data, i)
  <2>1. a \in 0 .. Len(data) /\ b \in Breaks(data) /\ a < b
    BY <1>1
  <2>2. a = 0 \/ a \in Breaks(data)
    <3>1. i - 1 = 0 \/ i - 1 \in 1 .. n
      BY <1>1
    <3> QED BY <1>1, <1>2, <3>1
  <2>3. \A j \in Breaks(data) : ~(a < j /\ j < b)
    BY <1>1
  <2> HIDE DEF a, b
  <2>4. b \in 1 .. Len(data) /\ data[b] = NewLine /\ (a = 0 \/ data[a] = NewLine)
    BY <2>1, <2>2 DEF Breaks
  <2>5. \A j \in (a + 1) .. (b - 1) : data[j] # NewLine
    BY <1>0, <2>1, <2>3, <2>4 DEF Breaks
  <2>6. SubSeq(data, a + 1, b - 1) \in lines
    BY <2>1, <2>4, <2>5 DEF LinesIn
  <2> QED BY <2>6 DEF a, b
<1> DEFINE line == [i \in 1 .. n |-> SubSeq(data, Break(data, i - 1) + 1, Break(data, i) - 1)]
<1>4. Lines(data) = line
  BY DEF Lines
<1>5. line \in [1 .. n -> lines]
  BY <1>3
<1> HIDE DEF line, n
<1>6. line \in Seq(lines)
  BY <1>1, <1>5
<1> QED BY <1>4, <1>6, SequenceIntro

\* What follows the last line break of a text.
LEMMA RestIs ==
  ASSUME NEW data, IsSequence(data)
  PROVE  \E a \in 0 .. Len(data) :
           /\ Rest(data) = SubSeq(data, a + 1, Len(data))
           /\ a = 0 \/ data[a] = NewLine
           /\ data # << >> /\ data[Len(data)] = NewLine => a = Len(data)
<1> DEFINE n == Cardinality(Breaks(data))
           a == Break(data, n)
<1>0. Len(data) \in Nat
  BY SequenceShape
<1>1. /\ n \in Nat
      /\ \A i \in 0 .. n : Break(data, i) \in 0 .. Len(data)
      /\ \A i \in 1 .. n : Break(data, i) \in Breaks(data)
      /\ \A b \in Breaks(data) : b <= Break(data, n)
  BY BreakNumbers
<1>2. n = 0 \/ n \in 1 .. n
  BY <1>1
<1>3. a = 0 \/ a \in Breaks(data)
  BY <1>1, <1>2 DEF Break
<1>4. a \in 0 .. Len(data)
  BY <1>1
<1>5. Rest(data) = SubSeq(data, a + 1, Len(data))
  BY DEF Rest
<1>6. \A b \in Breaks(data) : b <= a
  BY <1>1
<1> HIDE DEF a, n
<1>7. data # << >> /\ data[Len(data)] = NewLine => a = Len(data)
  <2> SUFFICES ASSUME data # << >>, data[Len(data)] = NewLine PROVE a = Len(data)
    OBVIOUS
  <2>1. Len(data) \in Breaks(data)
    BY <1>0, SequenceShape DEF Breaks
  <2> QED BY <1>0, <1>4, <1>6, <2>1
<1>8. a = 0 \/ data[a] = NewLine
  BY <1>3 DEF Breaks
<1> QED BY <1>4, <1>5, <1>7, <1>8

\* The lines of a first part.
LEMMA PrefixLines ==
  ASSUME NEW x, NEW y, IsSequence(x), IsSequence(y), NEW from \in Nat, NEW lines,
         LinesIn(x \o y, from, lines)
  PROVE  LinesIn(x, from, lines)
<1> DEFINE z == x \o y
<1>1. /\ IsSequence(z) /\ Len(z) = Len(x) + Len(y)
      /\ \A i \in 1 .. (Len(x) + Len(y)) : z[i] = IF i <= Len(x) THEN x[i] ELSE y[i - Len(x)]
  BY JoinedSequence
<1>2. Len(x) \in Nat /\ Len(y) \in Nat
  BY SequenceShape
<1> HIDE DEF z
<1>3. \A i \in 1 .. Len(x) : z[i] = x[i]
  BY <1>1, <1>2
<1> SUFFICES ASSUME NEW a \in from .. Len(x), NEW b \in 1 .. Len(x), a < b,
                    a = 0 \/ x[a] = NewLine, x[b] = NewLine,
                    \A i \in (a + 1) .. (b - 1) : x[i] # NewLine
             PROVE  SubSeq(x, a + 1, b - 1) \in lines
  BY DEF LinesIn
<1>4. a \in from .. Len(z) /\ b \in 1 .. Len(z) /\ z[b] = NewLine /\ (a = 0 \/ z[a] = NewLine)
  <2>1. a = 0 \/ a \in 1 .. Len(x)
    BY <1>2
  <2> QED BY <1>1, <1>2, <1>3, <2>1
<1>5. \A i \in (a + 1) .. (b - 1) : z[i] # NewLine
  BY <1>2, <1>3
<1>6. SubSeq(z, a + 1, b - 1) \in lines
  BY <1>4, <1>5 DEF LinesIn, z
<1>7. SubSeq(z, a + 1, b - 1) = SubSeq(x, a + 1, b - 1)
  <2> DEFINE u == SubSeq(z, a + 1, b - 1)
             v == SubSeq(x, a + 1, b - 1)
             m == a + 1
             n == b - 1
  <2>1. m \in 1 .. (Len(z) + 1) /\ n \in 0 .. Len(z) /\ m \in 1 .. (Len(x) + 1) /\ n \in 0 .. Len(x)
    BY <1>1, <1>2
  <2> HIDE DEF m, n
  <2>2. /\ IsSequence(SubSeq(z, m, n)) /\ Len(SubSeq(z, m, n)) = IF m <= n THEN n - m + 1 ELSE 0
        /\ \A i \in 1 .. (n - m + 1) : SubSeq(z, m, n)[i] = z[m + i - 1]
    <3>1. IsPart(SubSeq(z, m, n), z, m, n)
      BY <1>1, <2>1, PartOfSequence
    <3> QED BY <3>1 DEF IsPart
  <2>3. /\ IsSequence(SubSeq(x, m, n)) /\ Len(SubSeq(x, m, n)) = IF m <= n THEN n - m + 1 ELSE 0
        /\ \A i \in 1 .. (n - m + 1) : SubSeq(x, m, n)[i] = x[m + i - 1]
    <3>1. IsPart(SubSeq(x, m, n), x, m, n)
      BY <2>1, PartOfSequence
    <3> QED BY <3>1 DEF IsPart
  <2>4. ASSUME NEW i \in 1 .. Len(SubSeq(z, m, n))
        PROVE  SubSeq(z, m, n)[i] = SubSeq(x, m, n)[i]
    <3>1. i \in 1 .. (n - m + 1) /\ m + i - 1 \in 1 .. Len(x)
      BY <1>2, <2>1, <2>2
    <3> QED BY <1>3, <2>2, <2>3, <3>1
  <2>5. SubSeq(z, m, n) = SubSeq(x, m, n)
    BY <2>2, <2>3, <2>4, SameSequence
  <2> QED BY <2>5 DEF m, n
<1> QED BY <1>6, <1>7

\* What comes after a position, seen from there.
LEMMA SuffixShape ==
  ASSUME NEW x, IsSequence(x), NEW m \in 0 .. Len(x)
  PROVE  LET y == SubSeq(x, m + 1, Len(x))
         IN  /\ IsSequence(y) /\ Items(y) \subseteq Items(x) /\ Len(y) = Len(x) - m
             /\ \A i \in 1 .. (Len(x) - m) : y[i] = x[m + i]
             /\ Ended(x) => Ended(y)
<1> DEFINE k == m + 1
           n == Len(x)
           y == SubSeq(x, k, n)
<1>1. n \in Nat /\ k \in 1 .. (n + 1) /\ n \in 0 .. n
  BY SequenceShape
<1> HIDE DEF k
<1>2. /\ IsSequence(y) /\ Items(y) \subseteq Items(x) /\ Len(y) = IF k <= n THEN n - k + 1 ELSE 0
      /\ \A i \in 1 .. (n - k + 1) : y[i] = x[k + i - 1]
  <2>1. IsPart(y, x, k, n)
    BY <1>1, PartOfSequence
  <2> QED BY <2>1 DEF IsPart
<1> HIDE DEF n, y
<1>3. Len(y) = n - m /\ \A i \in 1 .. (n - m) : y[i] = x[m + i]
  <2>1. k = m + 1 /\ m \in 0 .. n
    BY DEF k, n
  <2>2. Len(y) = n - m
    BY <1>1, <1>2, <2>1
  <2>3. ASSUME NEW i \in 1 .. (n - m) PROVE y[i] = x[m + i]
    <3>1. i \in 1 .. (n - k + 1) /\ k + i - 1 = m + i
      BY <1>1, <2>1
    <3> QED BY <1>2, <3>1
  <2> QED BY <2>2, <2>3
<1>4. ASSUME Ended(x) PROVE Ended(y)
  <2>1. CASE m = n
    <3>1. Len(y) = 0
      BY <1>1, <1>3, <2>1
    <3> QED BY <1>2, <3>1, SequenceShape DEF Ended
  <2>2. CASE m # n
    <3>1. m \in 0 .. n
      BY DEF n
    <3>2. n - m \in 1 .. (n - m) /\ m + (n - m) = n /\ n # 0
      BY <1>1, <2>2, <3>1
    <3>3. y[n - m] = x[n]
      BY <1>3, <3>2
    <3>4. x # << >>
      BY <3>2, SequenceShape DEF n
    <3> QED BY <1>3, <1>4, <3>3, <3>4 DEF Ended, n
  <2> QED BY <2>1, <2>2
<1>5. /\ IsSequence(y) /\ Items(y) \subseteq Items(x) /\ Len(y) = n - m
      /\ \A i \in 1 .. (n - m) : y[i] = x[m + i]
      /\ Ended(x) => Ended(y)
  BY <1>2, <1>3, <1>4
<1> QED BY <1>5 DEF y, n, k

\* The lines of what follows a line break.
LEMMA SuffixLines ==
  ASSUME NEW x, IsSequence(x), NEW from \in Nat, NEW lines, LinesIn(x, from, lines),
         NEW m \in 0 .. Len(x), NEW to \in 0 .. 1,
         to = 0 => m >= from /\ (m = 0 \/ x[m] = NewLine), from <= 1
  PROVE  LinesIn(SubSeq(x, m + 1, Len(x)), to, lines)
<1> DEFINE y == SubSeq(x, m + 1, Len(x))
<1>1. /\ IsSequence(y) /\ Len(y) = Len(x) - m
      /\ \A i \in 1 .. (Len(x) - m) : y[i] = x[m + i]
  BY SuffixShape
<1>2. Len(x) \in Nat
  BY SequenceShape
<1> SUFFICES LinesIn(y, to, lines)
  OBVIOUS
<1> HIDE DEF y
<1> SUFFICES ASSUME NEW a \in to .. Len(y), NEW b \in 1 .. Len(y), a < b,
                    a = 0 \/ y[a] = NewLine, y[b] = NewLine,
                    \A i \in (a + 1) .. (b - 1) : y[i] # NewLine
             PROVE  SubSeq(y, a + 1, b - 1) \in lines
  BY DEF LinesIn
<1> DEFINE c == m + a
           d == m + b
<1>3. c \in from .. Len(x) /\ d \in 1 .. Len(x) /\ c < d
  BY <1>1, <1>2
<1>4. x[d] = NewLine
  BY <1>1, <1>2
<1>5. c = 0 \/ x[c] = NewLine
  <2>1. CASE a = 0
    <3>1. to = 0
      BY <2>1
    <3> QED BY <2>1, <3>1
  <2>2. CASE a # 0
    <3>1. a \in 1 .. (Len(x) - m) /\ y[a] = NewLine
      BY <1>1, <1>2, <2>2
    <3> QED BY <1>1, <3>1
  <2> QED BY <2>1, <2>2
<1>6. \A i \in (c + 1) .. (d - 1) : x[i] # NewLine
  <2> SUFFICES ASSUME NEW i \in (c + 1) .. (d - 1) PROVE x[i] # NewLine
    OBVIOUS
  <2>1. i - m \in (a + 1) .. (b - 1) /\ i - m \in 1 .. (Len(x) - m) /\ m + (i - m) = i
    BY <1>1, <1>2
  <2>2. y[i - m] = x[m + (i - m)]
    BY <1>1, <2>1
  <2> QED BY <2>1, <2>2
<1>7. SubSeq(x, c + 1, d - 1) \in lines
  <2> HIDE DEF c, d
  <2> QED BY <1>3, <1>4, <1>5, <1>6 DEF LinesIn
<1>8. SubSeq(x, c + 1, d - 1) = SubSeq(y, a + 1, b - 1)
  <2> DEFINE p == c + 1
             q == d - 1
             k == a + 1
             l == b - 1
  <2>1. /\ p \in 1 .. (Len(x) + 1) /\ q \in 0 .. Len(x)
        /\ k \in 1 .. (Len(y) + 1) /\ l \in 0 .. Len(y)
        /\ p = m + k /\ q = m + l
    BY <1>1, <1>2
  <2> HIDE DEF p, q, k, l, c, d
  <2>2. /\ IsSequence(SubSeq(x, p, q)) /\ Len(SubSeq(x, p, q)) = IF p <= q THEN q - p + 1 ELSE 0
        /\ \A i \in 1 .. (q - p + 1) : SubSeq(x, p, q)[i] = x[p + i - 1]
    <3>1. IsPart(SubSeq(x, p, q), x, p, q)
      BY <2>1, PartOfSequence
    <3> QED BY <3>1 DEF IsPart
  <2>3. /\ IsSequence(SubSeq(y, k, l)) /\ Len(SubSeq(y, k, l)) = IF k <= l THEN l - k + 1 ELSE 0
        /\ \A i \in 1 .. (l - k + 1) : SubSeq(y, k, l)[i] = y[k + i - 1]
    <3>1. IsSequence(y) /\ k \in 1 .. (Len(y) + 1) /\ l \in 0 .. Len(y)
      BY <1>1, <2>1
    <3>2. IsPart(SubSeq(y, k, l), y, k, l)
      BY <3>1, PartOfSequence
    <3> QED BY <3>2 DEF IsPart
  <2>4. Len(SubSeq(x, p, q)) = Len(SubSeq(y, k, l))
    <3>1. p \in Int /\ q \in Int /\ k \in Int /\ l \in Int
      BY <1>1, <1>2, <2>1
    <3>2. (p <= q <=> k <= l) /\ q - p + 1 = l - k + 1
      BY <2>1, <3>1
    <3> QED BY <2>2, <2>3, <3>2
  <2>5. ASSUME NEW i \in 1 .. Len(SubSeq(x, p, q))
        PROVE  SubSeq(x, p, q)[i] = SubSeq(y, k, l)[i]
    <3>1. /\ i \in 1 .. (q - p + 1) /\ i \in 1 .. (l - k + 1) /\ k + i - 1 \in 1 .. (Len(x) - m)
          /\ m + (k + i - 1) = p + i - 1
      BY <1>1, <1>2, <2>1, <2>2
    <3>2. y[k + i - 1] = x[p + i - 1]
      BY <1>1, <3>1
    <3> QED BY <2>2, <2>3, <3>1, <3>2
  <2>6. SubSeq(x, p, q) = SubSeq(y, k, l)
    BY <2>2, <2>3, <2>4, <2>5, SameSequence
  <2> QED BY <2>6 DEF p, q, k, l
<1> QED BY <1>7, <1>8

\* Nothing is added by nothing.
LEMMA NothingBefore == ASSUME NEW q, IsSequence(q) PROVE << >> \o q = q
<1> DEFINE e == << >>
           z == e \o q
<1>1. IsSequence(e) /\ Len(e) = 0
  BY EmptySequence
<1> HIDE DEF e
<1>2. /\ IsSequence(z) /\ Len(z) = Len(e) + Len(q)
      /\ \A i \in 1 .. (Len(e) + Len(q)) : z[i] = IF i <= Len(e) THEN e[i] ELSE q[i - Len(e)]
  BY <1>1, JoinedSequence
<1>3. Len(q) \in Nat
  BY SequenceShape
<1> HIDE DEF z
<1>4. \A i \in 1 .. Len(z) : z[i] = q[i]
  BY <1>1, <1>2, <1>3
<1>5. z = q
  BY <1>1, <1>2, <1>3, <1>4, SameSequence
<1> QED BY <1>5 DEF z, e

\* Joining is associative.
LEMMA JoinsJoin ==
  ASSUME NEW p, NEW q, NEW r, IsSequence(p), IsSequence(q), IsSequence(r)
  PROVE  (p \o q) \o r = p \o (q \o r)
<1> DEFINE u == p \o q
           v == q \o r
           y == u \o r
           z == p \o v
<1>1. Len(p) \in Nat /\ Len(q) \in Nat /\ Len(r) \in Nat
  BY SequenceShape
<1>2. /\ IsSequence(u) /\ Len(u) = Len(p) + Len(q)
      /\ \A i \in 1 .. (Len(p) + Len(q)) : u[i] = IF i <= Len(p) THEN p[i] ELSE q[i - Len(p)]
  BY JoinedSequence
<1>3. /\ IsSequence(v) /\ Len(v) = Len(q) + Len(r)
      /\ \A i \in 1 .. (Len(q) + Len(r)) : v[i] = IF i <= Len(q) THEN q[i] ELSE r[i - Len(q)]
  BY JoinedSequence
<1> HIDE DEF u, v
<1>4. /\ IsSequence(y) /\ Len(y) = Len(u) + Len(r)
      /\ \A i \in 1 .. (Len(u) + Len(r)) : y[i] = IF i <= Len(u) THEN u[i] ELSE r[i - Len(u)]
  BY <1>2, JoinedSequence
<1>5. /\ IsSequence(z) /\ Len(z) = Len(p) + Len(v)
      /\ \A i \in 1 .. (Len(p) + Len(v)) : z[i] = IF i <= Len(p) THEN p[i] ELSE v[i - Len(p)]
  BY <1>3, JoinedSequence
<1> HIDE DEF y, z
<1>6. Len(y) = Len(z) /\ Len(y) = Len(p) + Len(q) + Len(r)
  BY <1>1, <1>2, <1>3, <1>4, <1>5
<1>7. ASSUME NEW i \in 1 .. Len(y) PROVE y[i] = z[i]
  <2>0. i \in 1 .. (Len(u) + Len(r)) /\ i \in 1 .. (Len(p) + Len(v)) /\ i \in Nat
    BY <1>1, <1>2, <1>3, <1>6
  <2>1. CASE i <= Len(p)
    <3>1. i <= Len(u) /\ i \in 1 .. (Len(p) + Len(q))
      BY <1>1, <1>2, <2>0, <2>1
    <3>2. y[i] = u[i] /\ u[i] = p[i]
      BY <1>2, <1>4, <2>0, <2>1, <3>1
    <3> QED BY <1>5, <2>0, <2>1, <3>2
  <2>2. CASE ~(i <= Len(p)) /\ i <= Len(u)
    <3>1. i \in 1 .. (Len(p) + Len(q)) /\ i - Len(p) \in 1 .. (Len(q) + Len(r)) /\ i - Len(p) <= Len(q)
      BY <1>1, <1>2, <2>0, <2>2
    <3>2. y[i] = u[i] /\ u[i] = q[i - Len(p)]
      BY <1>2, <1>4, <2>0, <2>2, <3>1
    <3>3. z[i] = v[i - Len(p)] /\ v[i - Len(p)] = q[i - Len(p)]
      BY <1>3, <1>5, <2>0, <2>2, <3>1
    <3> QED BY <3>2, <3>3
  <2>3. CASE ~(i <= Len(p)) /\ ~(i <= Len(u))
    <3>1. /\ i - Len(p) \in 1 .. (Len(q) + Len(r)) /\ ~(i - Len(p) <= Len(q))
          /\ (i - Len(p)) - Len(q) = i - Len(u)
      BY <1>1, <1>2, <2>0, <2>3, <1>6
    <3>2. y[i] = r[i - Len(u)]
      BY <1>4, <2>0, <2>3
    <3>3. z[i] = v[i - Len(p)]
      BY <1>5, <2>0, <2>3
    <3>4. v[i - Len(p)] = r[(i - Len(p)) - Len(q)]
      BY <1>3, <3>1
    <3> QED BY <3>1, <3>2, <3>3, <3>4
  <2>4. i <= Len(p) => i <= Len(u)
    BY <1>1, <1>2, <2>0
  <2> QED BY <2>1, <2>2, <2>3
<1>8. y = z
  BY <1>4, <1>5, <1>6, <1>7, SameSequence
<1> QED BY <1>8 DEF y, z, u, v

\* A suffix of two parts that starts in the first.
LEMMA SuffixJoins ==
  ASSUME NEW x, NEW y, IsSequence(x), IsSequence(y), NEW m \in 0 .. Len(x)
  PROVE  SubSeq(x \o y, m + 1, Len(x \o y)) = SubSeq(x, m + 1, Len(x)) \o y
<1> DEFINE z == x \o y
           u == SubSeq(z, m + 1, Len(z))
           v == SubSeq(x, m + 1, Len(x))
           w == v \o y
<1>1. Len(x) \in Nat /\ Len(y) \in Nat
  BY SequenceShape
<1>2. /\ IsSequence(z) /\ Len(z) = Len(x) + Len(y)
      /\ \A i \in 1 .. (Len(x) + Len(y)) : z[i] = IF i <= Len(x) THEN x[i] ELSE y[i - Len(x)]
  BY JoinedSequence
<1> HIDE DEF z
<1>3. m \in 0 .. Len(z)
  BY <1>1, <1>2
<1>4. /\ IsSequence(u) /\ Len(u) = Len(z) - m
      /\ \A i \in 1 .. (Len(z) - m) : u[i] = z[m + i]
  BY <1>2, <1>3, SuffixShape
<1>5. /\ IsSequence(v) /\ Len(v) = Len(x) - m
      /\ \A i \in 1 .. (Len(x) - m) : v[i] = x[m + i]
  BY SuffixShape
<1> HIDE DEF u, v
<1>6. /\ IsSequence(w) /\ Len(w) = Len(v) + Len(y)
      /\ \A i \in 1 .. (Len(v) + Len(y)) : w[i] = IF i <= Len(v) THEN v[i] ELSE y[i - Len(v)]
  BY <1>5, JoinedSequence
<1> HIDE DEF w
<1>7. Len(u) = Len(w)
  BY <1>1, <1>2, <1>4, <1>5, <1>6
<1>8. ASSUME NEW i \in 1 .. Len(u) PROVE u[i] = w[i]
  <2>0. /\ i \in 1 .. (Len(z) - m) /\ i \in 1 .. (Len(v) + Len(y)) /\ m + i \in 1 .. (Len(x) + Len(y))
    BY <1>1, <1>2, <1>4, <1>5, <1>7, <1>6
  <2>1. u[i] = z[m + i]
    BY <1>4, <2>0
  <2>2. CASE m + i <= Len(x)
    <3>1. i <= Len(v) /\ i \in 1 .. (Len(x) - m)
      BY <1>1, <1>5, <2>0, <2>2
    <3>2. w[i] = v[i] /\ v[i] = x[m + i] /\ z[m + i] = x[m + i]
      BY <1>2, <1>5, <1>6, <2>0, <2>2, <3>1
    <3> QED BY <2>1, <3>2
  <2>3. CASE ~(m + i <= Len(x))
    <3>1. ~(i <= Len(v)) /\ i - Len(v) = (m + i) - Len(x)
      BY <1>1, <1>5, <2>0, <2>3
    <3>2. w[i] = y[i - Len(v)]
      BY <1>6, <2>0, <3>1
    <3>3. z[m + i] = y[(m + i) - Len(x)]
      BY <1>2, <2>0, <2>3
    <3> QED BY <2>1, <3>1, <3>2, <3>3
  <2> QED BY <2>2, <2>3
<1>9. u = w
  BY <1>4, <1>6, <1>7, <1>8, SameSequence
<1> QED BY <1>9 DEF u, w, v, z

\* The two parts of a cut.
LEMMA CutJoins ==
  ASSUME NEW x, IsSequence(x), NEW n \in 0 .. Len(x)
  PROVE  /\ IsSequence(SubSeq(x, 1, n)) /\ Len(SubSeq(x, 1, n)) = n
         /\ \A i \in 1 .. n : SubSeq(x, 1, n)[i] = x[i]
         /\ IsSequence(SubSeq(x, n + 1, Len(x)))
         /\ SubSeq(x, 1, n) \o SubSeq(x, n + 1, Len(x)) = x
<1> DEFINE u == SubSeq(x, 1, n)
           v == SubSeq(x, n + 1, Len(x))
           w == u \o v
<1>1. Len(x) \in Nat
  BY SequenceShape
<1>2. 1 \in 1 .. (Len(x) + 1)
  BY <1>1
<1>3. /\ IsSequence(u) /\ Len(u) = IF 1 <= n THEN n - 1 + 1 ELSE 0
      /\ \A i \in 1 .. (n - 1 + 1) : u[i] = x[1 + i - 1]
  <2>1. IsPart(u, x, 1, n)
    BY <1>2, PartOfSequence
  <2> QED BY <2>1 DEF IsPart
<1>4. /\ IsSequence(v) /\ Len(v) = Len(x) - n
      /\ \A i \in 1 .. (Len(x) - n) : v[i] = x[n + i]
  BY SuffixShape
<1> HIDE DEF u, v
<1>5. Len(u) = n
  BY <1>1, <1>3
<1>6. \A i \in 1 .. n : u[i] = x[i]
  <2> SUFFICES ASSUME NEW i \in 1 .. n PROVE u[i] = x[i]
    OBVIOUS
  <2>1. i \in 1 .. (n - 1 + 1) /\ 1 + i - 1 = i
    BY <1>1
  <2> QED BY <1>3, <2>1
<1>7. /\ IsSequence(w) /\ Len(w) = Len(u) + Len(v)
      /\ \A i \in 1 .. (Len(u) + Len(v)) : w[i] = IF i <= Len(u) THEN u[i] ELSE v[i - Len(u)]
  BY <1>3, <1>4, JoinedSequence
<1> HIDE DEF w
<1>8. Len(w) = Len(x)
  BY <1>1, <1>4, <1>5, <1>7
<1>9. ASSUME NEW i \in 1 .. Len(w) PROVE w[i] = x[i]
  <2>1. CASE i <= n
    <3>1. i \in 1 .. n /\ i \in 1 .. (Len(u) + Len(v))
      BY <1>1, <1>7, <2>1
    <3> QED BY <1>5, <1>6, <1>7, <2>1, <3>1
  <2>2. CASE ~(i <= n)
    <3>1. i - n \in 1 .. (Len(x) - n) /\ n + (i - n) = i /\ i \in 1 .. (Len(u) + Len(v))
      BY <1>1, <1>7, <1>8, <2>2
    <3>2. w[i] = v[i - n]
      BY <1>5, <1>7, <2>2, <3>1
    <3> QED BY <1>4, <3>1, <3>2
  <2> QED BY <2>1, <2>2
<1>10. w = x
  BY <1>7, <1>8, <1>9, SameSequence
<1> QED BY <1>3, <1>4, <1>5, <1>6, <1>10 DEF u, v, w

\* What is pending and still to come of a stream is whole lines, all among
\* some; while an oversized frame is dropped, only what follows its line break
\* matters.
Whole(pending, dropping, input, lines) ==
  /\ IsSequence(pending) /\ IsSequence(input) /\ dropping \in BOOLEAN
  /\ dropping => pending = << >> /\ input # << >> /\ Ended(input) /\ LinesIn(input, 1, lines)
  /\ ~dropping => Ended(pending \o input) /\ LinesIn(pending \o input, 0, lines)

FramesIn(frames, lines) ==
  IsSequence(frames) /\ \A f \in Items(frames) : f \in lines \/ Len(f) > PipelineFrame

\* The lines of the data are handed on, and what is left is still whole.
LEMMA DataConsumed ==
  ASSUME NEW data, NEW rest, IsSequence(data), IsSequence(rest), NEW lines,
         Ended(data \o rest), LinesIn(data \o rest, 0, lines)
  PROVE  LET over == Len(Rest(data)) > PipelineFrame
         IN  /\ FramesIn(IF over THEN Append(Lines(data), Rest(data)) ELSE Lines(data), lines)
             /\ Whole(IF over THEN << >> ELSE Rest(data), over, rest, lines)
<1> DEFINE whole == data \o rest
           over == Len(Rest(data)) > PipelineFrame
<1> SUFFICES /\ FramesIn(IF over THEN Append(Lines(data), Rest(data)) ELSE Lines(data), lines)
             /\ Whole(IF over THEN << >> ELSE Rest(data), over, rest, lines)
  OBVIOUS
<1>1. IsSequence(whole) /\ Len(whole) = Len(data) + Len(rest) /\ Len(data) \in Nat /\ Len(rest) \in Nat
  BY JoinedSequence, SequenceShape
<1>2. \A i \in 1 .. Len(data) : whole[i] = data[i]
  <2>1. \A i \in 1 .. (Len(data) + Len(rest)) :
          whole[i] = IF i <= Len(data) THEN data[i] ELSE rest[i - Len(data)]
    BY JoinedSequence
  <2> HIDE DEF whole
  <2> QED BY <1>1, <2>1
<1>3. PICK a \in 0 .. Len(data) :
        /\ Rest(data) = SubSeq(data, a + 1, Len(data))
        /\ a = 0 \/ data[a] = NewLine
        /\ data # << >> /\ data[Len(data)] = NewLine => a = Len(data)
  BY RestIs
<1>4. 0 \in Nat
  OBVIOUS
<1>5. LinesIn(data, 0, lines)
  BY <1>4, PrefixLines
<1>6. IsSequence(Lines(data)) /\ Items(Lines(data)) \subseteq lines
  BY <1>5, LinesAre
<1>7. IsSequence(Rest(data)) /\ Len(Rest(data)) = Len(data) - a
  BY <1>3, SuffixShape
<1>8. CASE over
  <2>1. /\ IsSequence(Append(Lines(data), Rest(data)))
        /\ Items(Append(Lines(data), Rest(data))) \subseteq Items(Lines(data)) \cup {Rest(data)}
    BY <1>6, AppendedSequence
  <2>2. FramesIn(Append(Lines(data), Rest(data)), lines)
    BY <1>6, <1>8, <2>1 DEF FramesIn
  <2>3. a # Len(data)
    BY <1>1, <1>7, <1>8, LimitsAssumption
  <2>4. ~Ended(data)
    <3>1. data # << >>
      <4>1. data = << >> <=> Len(data) = 0
        BY SequenceShape
      <4> QED BY <1>1, <2>3, <4>1
    <3> QED BY <1>3, <2>3, <3>1 DEF Ended
  <2>5. rest # << >>
    <3> SUFFICES ASSUME rest = << >> PROVE FALSE
      OBVIOUS
    <3>1. Len(rest) = 0
      OBVIOUS
    <3>2. Len(whole) = Len(data)
      BY <1>1, <3>1
    <3>3. \A i \in 1 .. Len(whole) : whole[i] = data[i]
      BY <1>2, <3>2
    <3>4. whole = data
      BY <1>1, <3>2, <3>3, SameSequence
    <3> QED BY <2>4, <3>4
  <2>6. SubSeq(whole, Len(data) + 1, Len(whole)) = rest
    <3> DEFINE m == Len(data)
               u == SubSeq(data, m + 1, Len(data))
    <3>1. m \in 0 .. Len(data)
      BY <1>1
    <3>2. SubSeq(whole, m + 1, Len(whole)) = u \o rest
      <4> HIDE DEF m
      <4> QED BY <3>1, SuffixJoins
    <3>3. IsSequence(u) /\ Len(u) = Len(data) - m
      <4> HIDE DEF m
      <4> QED BY <3>1, SuffixShape
    <3>4. u = << >>
      <4>1. Len(u) = 0
        BY <1>1, <3>3
      <4> HIDE DEF u
      <4> QED BY <3>3, <4>1, SequenceShape
    <3>5. u \o rest = rest
      <4> HIDE DEF u
      <4> QED BY <3>4, NothingBefore
    <3> HIDE DEF u
    <3> QED BY <3>2, <3>5 DEF m
  <2>7. Ended(rest) /\ LinesIn(rest, 1, lines)
    <3> HIDE DEF whole
    <3> DEFINE m == Len(data)
               one == 1
    <3>1. m \in 0 .. Len(whole) /\ one \in 0 .. 1 /\ one # 0 /\ 0 \in Nat /\ 0 <= 1
      BY <1>1
    <3>2. LinesIn(whole, 0, lines) /\ Ended(whole)
      BY DEF whole
    <3> HIDE DEF m, one
    <3>3. Ended(SubSeq(whole, m + 1, Len(whole)))
      BY <1>1, <3>1, <3>2, SuffixShape
    <3>4. LinesIn(SubSeq(whole, m + 1, Len(whole)), one, lines)
      BY <1>1, <3>1, <3>2, SuffixLines
    <3> QED BY <2>6, <3>3, <3>4 DEF m, one
  <2>8. Whole(<< >>, TRUE, rest, lines)
    BY <2>5, <2>7, EmptySequence DEF Whole
  <2> QED BY <1>8, <2>2, <2>8
<1>9. CASE ~over
  <2>1. FramesIn(Lines(data), lines)
    BY <1>6 DEF FramesIn
  <2>2. Rest(data) \o rest = SubSeq(whole, a + 1, Len(whole))
    BY <1>3, SuffixJoins
  <2>3. Ended(Rest(data) \o rest) /\ LinesIn(Rest(data) \o rest, 0, lines)
    <3> HIDE DEF whole
    <3> DEFINE zero == 0
    <3>1. a \in 0 .. Len(whole) /\ zero \in 0 .. 1 /\ zero \in Nat /\ zero <= 1 /\ a >= zero
      BY <1>1
    <3>2. LinesIn(whole, zero, lines) /\ Ended(whole)
      BY DEF whole
    <3>3. a = 0 \/ whole[a] = NewLine
      BY <1>2, <1>3
    <3> HIDE DEF zero
    <3>4. Ended(SubSeq(whole, a + 1, Len(whole)))
      BY <1>1, <3>1, <3>2, SuffixShape
    <3>5. LinesIn(SubSeq(whole, a + 1, Len(whole)), zero, lines)
      BY <1>1, <3>1, <3>2, <3>3, SuffixLines
    <3> QED BY <2>2, <3>4, <3>5 DEF zero
  <2>4. Whole(Rest(data), over, rest, lines)
    <3>1. over \in BOOLEAN
      OBVIOUS
    <3> HIDE DEF over
    <3> QED BY <1>7, <1>9, <2>3, <3>1 DEF Whole
  <2> HIDE DEF over
  <2> QED BY <1>9, <2>1, <2>4
<1> HIDE DEF over
<1> QED BY <1>8, <1>9

\* A chunk completes lines and oversized frames, and leaves whole lines.
LEMMA ChunkConsumed ==
  ASSUME NEW pending, NEW dropping, NEW input, NEW lines, Whole(pending, dropping, input, lines),
         NEW n \in 1 .. Len(input)
  PROVE  LET c == consumeChunk(pending, dropping, SubSeq(input, 1, n))
         IN  /\ FramesIn(c.frames, lines)
             /\ Whole(c.pending, c.dropping, SubSeq(input, n + 1, Len(input)), lines)
<1> DEFINE chunk == SubSeq(input, 1, n)
           rest == SubSeq(input, n + 1, Len(input))
           data == pending \o Undropped(chunk, dropping)
           over == Len(Rest(data)) > PipelineFrame
           c == consumeChunk(pending, dropping, chunk)
<1>1. IsSequence(input) /\ Len(input) \in Nat /\ n \in 0 .. Len(input) /\ IsSequence(pending)
  BY SequenceShape DEF Whole
<1>2. /\ IsSequence(chunk) /\ Len(chunk) = n
      /\ \A i \in 1 .. n : chunk[i] = input[i]
      /\ IsSequence(rest) /\ chunk \o rest = input
  BY <1>1, CutJoins
<1>3. CASE dropping /\ Breaks(chunk) = {}
  <2>1. c = [frames |-> << >>, pending |-> pending, dropping |-> TRUE]
    BY <1>3 DEF consumeChunk
  <2>2. FramesIn(c.frames, lines)
    BY <2>1, EmptySequence DEF FramesIn
  <2>3. pending = << >> /\ input # << >> /\ Ended(input) /\ LinesIn(input, 1, lines)
    BY <1>3 DEF Whole
  <2>4. n # Len(input)
    <3> SUFFICES ASSUME n = Len(input) PROVE FALSE
      OBVIOUS
    <3>1. chunk[n] = input[n] /\ n \in 1 .. Len(chunk)
      BY <1>1, <1>2
    <3>2. input[n] = NewLine
      BY <2>3 DEF Ended
    <3> HIDE DEF chunk
    <3> QED BY <1>3, <3>1, <3>2 DEF Breaks
  <2>5. Len(rest) = Len(input) - n /\ Ended(rest)
    BY <1>1, <2>3, SuffixShape
  <2>6. rest # << >>
    BY <1>1, <2>4, <2>5
  <2>7. LinesIn(rest, 1, lines)
    <3> DEFINE one == 1
    <3>1. one \in 0 .. 1 /\ one # 0 /\ one \in Nat /\ one <= 1 /\ LinesIn(input, one, lines)
      BY <2>3
    <3> HIDE DEF one
    <3>2. LinesIn(rest, one, lines)
      BY <1>1, <3>1, SuffixLines
    <3> QED BY <3>2 DEF one
  <2>8. Whole(pending, TRUE, rest, lines)
    <3> HIDE DEF rest
    <3> QED BY <1>1, <1>2, <2>3, <2>5, <2>6, <2>7 DEF Whole
  <2>9. c.pending = pending /\ c.dropping = TRUE
    BY <2>1
  <2> HIDE DEF c, rest
  <2>10. Whole(c.pending, c.dropping, rest, lines)
    BY <2>8, <2>9
  <2> QED BY <2>2, <2>10 DEF c, rest, chunk
<1>4. CASE ~(dropping /\ Breaks(chunk) = {})
  <2>1. /\ c.frames = IF over THEN Append(Lines(data), Rest(data)) ELSE Lines(data)
        /\ c.pending = IF over THEN << >> ELSE Rest(data)
        /\ c.dropping = over
    <3>1. c = [frames |-> IF over THEN Append(Lines(data), Rest(data)) ELSE Lines(data),
               pending |-> IF over THEN << >> ELSE Rest(data),
               dropping |-> over]
      BY <1>4 DEF consumeChunk
    <3> HIDE DEF data, c
    <3> QED BY <3>1
  <2>2. IsSequence(data) /\ Ended(data \o rest) /\ LinesIn(data \o rest, 0, lines)
    <3>1. CASE ~dropping
      <4>1. data = pending \o chunk
        BY <3>1 DEF Undropped
      <4>2. Ended(pending \o input) /\ LinesIn(pending \o input, 0, lines)
        BY <3>1 DEF Whole
      <4> HIDE DEF chunk, rest, data
      <4>3. (pending \o chunk) \o rest = pending \o input
        <5>1. IsSequence(pending) /\ IsSequence(chunk) /\ IsSequence(rest)
          BY <1>1, <1>2
        <5>2. (pending \o chunk) \o rest = pending \o (chunk \o rest)
          BY <5>1, JoinsJoin
        <5>3. chunk \o rest = input
          BY <1>2
        <5> QED BY <5>2, <5>3, Zenon
      <4>4. IsSequence(pending \o chunk)
        BY <1>1, <1>2, JoinedSequence
      <4> QED BY <4>1, <4>2, <4>3, <4>4
    <3>2. CASE dropping
      <4> DEFINE b == Break(chunk, 1)
                 u == SubSeq(chunk, b + 1, Len(chunk))
      <4>1. pending = << >> /\ Ended(input) /\ LinesIn(input, 1, lines)
        BY <3>2 DEF Whole
      <4>2. Undropped(chunk, dropping) = u
        BY <3>2 DEF Undropped
      <4>3. b \in Breaks(chunk)
        <5>1. /\ Cardinality(Breaks(chunk)) \in Nat
              /\ \A i \in 1 .. Cardinality(Breaks(chunk)) : Break(chunk, i) \in Breaks(chunk)
              /\ Cardinality(Breaks(chunk)) = 0 <=> Breaks(chunk) = {}
          BY <1>2, BreakNumbers
        <5>2. Cardinality(Breaks(chunk)) # 0
          BY <1>4, <3>2, <5>1
        <5>3. 1 \in 1 .. Cardinality(Breaks(chunk))
          BY <5>1, <5>2
        <5> QED BY <5>1, <5>3
      <4> HIDE DEF chunk, rest, b
      <4>4. b \in 1 .. n /\ chunk[b] = NewLine
        BY <1>2, <4>3 DEF Breaks
      <4>5. b \in 0 .. Len(chunk) /\ b \in 0 .. Len(input) /\ input[b] = NewLine
        BY <1>1, <1>2, <4>4
      <4>6. IsSequence(u)
        BY <1>2, <4>5, SuffixShape
      <4>7. u \o rest = SubSeq(input, b + 1, Len(input))
        BY <1>2, <4>5, SuffixJoins
      <4>8. Ended(SubSeq(input, b + 1, Len(input)))
        BY <1>1, <4>1, <4>5, SuffixShape
      <4>9. LinesIn(SubSeq(input, b + 1, Len(input)), 0, lines)
        <5> DEFINE zero == 0
                   one == 1
        <5>1. zero \in 0 .. 1 /\ one \in Nat /\ one <= 1 /\ b >= one /\ LinesIn(input, one, lines)
          BY <1>1, <4>1, <4>4
        <5> HIDE DEF zero, one
        <5>2. LinesIn(SubSeq(input, b + 1, Len(input)), zero, lines)
          BY <1>1, <4>5, <5>1, SuffixLines
        <5> QED BY <5>2 DEF zero
      <4> HIDE DEF u
      <4>10. data = u
        BY <4>1, <4>2, <4>6, NothingBefore
      <4> QED BY <4>6, <4>7, <4>8, <4>9, <4>10
    <3>3. dropping \in BOOLEAN
      BY DEF Whole
    <3> QED BY <3>1, <3>2, <3>3
  <2> HIDE DEF data, c, rest
  <2>3. /\ FramesIn(IF over THEN Append(Lines(data), Rest(data)) ELSE Lines(data), lines)
        /\ Whole(IF over THEN << >> ELSE Rest(data), over, rest, lines)
    BY <1>2, <2>2, DataConsumed
  <2>4. FramesIn(c.frames, lines) /\ Whole(c.pending, c.dropping, rest, lines)
    BY <2>1, <2>3
  <2> QED BY <2>4 DEF c, rest, chunk
<1> QED BY <1>3, <1>4

\* One whole line.
OneLine(e) ==
  /\ IsSequence(e) /\ Len(e) \in Nat \ {0} /\ e[Len(e)] = NewLine
  /\ \A i \in 1 .. (Len(e) - 1) : e[i] # NewLine

\* A line more.
LEMMA LineMore ==
  ASSUME NEW x, NEW e, IsSequence(x), OneLine(e), Ended(x), NEW from \in Nat, NEW lines,
         LinesIn(x, from, lines), SubSeq(e, 1, Len(e) - 1) \in lines
  PROVE  Ended(x \o e) /\ LinesIn(x \o e, from, lines)
<1> DEFINE z == x \o e
<1>1. Len(x) \in Nat /\ Len(e) \in Nat /\ Len(e) > 0 /\ IsSequence(e)
  BY SequenceShape DEF OneLine
<1>2. /\ IsSequence(z) /\ Len(z) = Len(x) + Len(e)
      /\ \A i \in 1 .. (Len(x) + Len(e)) : z[i] = IF i <= Len(x) THEN x[i] ELSE e[i - Len(x)]
  BY <1>1, JoinedSequence
<1> SUFFICES Ended(z) /\ LinesIn(z, from, lines)
  OBVIOUS
<1> HIDE DEF z
<1>3. \A i \in 1 .. Len(x) : z[i] = x[i] /\ i \in 1 .. Len(z)
  BY <1>1, <1>2
<1>4. \A i \in 1 .. Len(e) : z[Len(x) + i] = e[i]
  <2> SUFFICES ASSUME NEW i \in 1 .. Len(e) PROVE z[Len(x) + i] = e[i]
    OBVIOUS
  <2>1. Len(x) + i \in 1 .. (Len(x) + Len(e)) /\ ~(Len(x) + i <= Len(x)) /\ Len(x) + i - Len(x) = i
    BY <1>1
  <2> QED BY <1>2, <2>1
<1>5. z[Len(z)] = NewLine
  BY <1>1, <1>2, <1>4 DEF OneLine
<1>6. Ended(z)
  BY <1>5 DEF Ended
<1>7. Len(x) # 0 => x[Len(x)] = NewLine
  BY SequenceShape DEF Ended
<1>8. ASSUME NEW a \in from .. Len(z), NEW b \in 1 .. Len(z), a < b,
             a = 0 \/ z[a] = NewLine, z[b] = NewLine,
             \A i \in (a + 1) .. (b - 1) : z[i] # NewLine
      PROVE  SubSeq(z, a + 1, b - 1) \in lines
  <2>1. CASE b <= Len(x)
    <3>1. a \in from .. Len(x) /\ b \in 1 .. Len(x) /\ (a = 0 \/ a \in 1 .. Len(x))
      BY <1>1, <1>8, <2>1
    <3>2. (a = 0 \/ x[a] = NewLine) /\ x[b] = NewLine
      BY <1>3, <1>8, <3>1
    <3>3. \A i \in (a + 1) .. (b - 1) : i \in 1 .. Len(x)
      BY <1>1, <3>1
    <3>4. \A i \in (a + 1) .. (b - 1) : x[i] # NewLine
      BY <1>3, <1>8, <3>3
    <3>5. SubSeq(x, a + 1, b - 1) \in lines
      BY <1>8, <3>1, <3>2, <3>4 DEF LinesIn
    <3> DEFINE m == a + 1
               n == b - 1
    <3>6. /\ m \in 1 .. (Len(x) + 1) /\ n \in 0 .. Len(x) /\ m \in 1 .. (Len(z) + 1) /\ n \in 0 .. Len(z)
      BY <1>1, <1>2, <3>1
    <3> HIDE DEF m, n
    <3>7. /\ IsSequence(SubSeq(z, m, n)) /\ Len(SubSeq(z, m, n)) = IF m <= n THEN n - m + 1 ELSE 0
          /\ \A i \in 1 .. (n - m + 1) : SubSeq(z, m, n)[i] = z[m + i - 1]
      <4>1. IsPart(SubSeq(z, m, n), z, m, n)
        BY <1>2, <3>6, PartOfSequence
      <4> QED BY <4>1 DEF IsPart
    <3>8. /\ IsSequence(SubSeq(x, m, n)) /\ Len(SubSeq(x, m, n)) = IF m <= n THEN n - m + 1 ELSE 0
          /\ \A i \in 1 .. (n - m + 1) : SubSeq(x, m, n)[i] = x[m + i - 1]
      <4>1. IsPart(SubSeq(x, m, n), x, m, n)
        BY <3>6, PartOfSequence
      <4> QED BY <4>1 DEF IsPart
    <3>9. ASSUME NEW i \in 1 .. Len(SubSeq(z, m, n))
          PROVE  SubSeq(z, m, n)[i] = SubSeq(x, m, n)[i]
      <4>1. i \in 1 .. (n - m + 1) /\ m + i - 1 \in 1 .. Len(x)
        <5> DEFINE length == Len(SubSeq(z, m, n))
        <5>1. length = IF m <= n THEN n - m + 1 ELSE 0
          BY <3>7
        <5>2. i \in 1 .. length
          OBVIOUS
        <5>3. Len(x) \in Nat /\ m \in 1 .. (Len(x) + 1) /\ n \in 0 .. Len(x)
          BY <1>1, <3>6
        <5> HIDE DEF length
        <5> QED BY <5>1, <5>2, <5>3
      <4> QED BY <1>3, <3>7, <3>8, <4>1
    <3>10. SubSeq(z, m, n) = SubSeq(x, m, n)
      BY <3>7, <3>8, <3>9, SameSequence
    <3> QED BY <3>5, <3>10 DEF m, n
  <2>2. CASE ~(b <= Len(x))
    <3> DEFINE j == b - Len(x)
    <3>1. j \in 1 .. Len(e) /\ Len(x) + j = b
      BY <1>1, <1>2, <2>2
    <3>2. e[j] = NewLine
      BY <1>4, <1>8, <3>1
    <3>3. j = Len(e)
      <4>1. j \notin 1 .. (Len(e) - 1)
        BY <3>2 DEF OneLine
      <4> QED BY <1>1, <3>1, <4>1
    <3>4. ~(a < Len(x))
      <4> SUFFICES ASSUME a < Len(x) PROVE FALSE
        OBVIOUS
      <4>1. a \in Nat /\ Len(x) \in (a + 1) .. (b - 1) /\ Len(x) \in 1 .. Len(x)
        BY <1>1, <2>2
      <4>2. z[Len(x)] = NewLine
        BY <1>1, <1>3, <1>7, <4>1
      <4> QED BY <1>8, <4>1, <4>2
    <3>5. ~(a > Len(x))
      <4> SUFFICES ASSUME a > Len(x) PROVE FALSE
        OBVIOUS
      <4>1. a - Len(x) \in 1 .. (Len(e) - 1) /\ Len(x) + (a - Len(x)) = a /\ a # 0
        BY <1>1, <1>8, <3>1, <3>3
      <4>2. z[a] = e[a - Len(x)]
        BY <1>1, <1>4, <4>1
      <4> QED BY <1>8, <4>1, <4>2 DEF OneLine
    <3>6. a = Len(x) /\ b = Len(x) + Len(e)
      BY <1>1, <3>1, <3>3, <3>4, <3>5
    <3> DEFINE m == a + 1
               n == b - 1
               one == 1
               last == Len(e) - 1
    <3>7. /\ m \in 1 .. (Len(z) + 1) /\ n \in 0 .. Len(z)
          /\ one \in 1 .. (Len(e) + 1) /\ last \in 0 .. Len(e)
          /\ n - m + 1 = last /\ last - one + 1 = last /\ (m <= n <=> one <= last)
          /\ m = Len(x) + 1 /\ n \in Int /\ m \in Int /\ one = 1
      BY <1>1, <1>2, <3>6
    <3> HIDE DEF m, n, one, last
    <3>8. /\ IsSequence(SubSeq(z, m, n)) /\ Len(SubSeq(z, m, n)) = IF m <= n THEN n - m + 1 ELSE 0
          /\ \A i \in 1 .. (n - m + 1) : SubSeq(z, m, n)[i] = z[m + i - 1]
      <4>1. IsPart(SubSeq(z, m, n), z, m, n)
        BY <1>2, <3>7, PartOfSequence
      <4> QED BY <4>1 DEF IsPart
    <3>9. /\ IsSequence(SubSeq(e, one, last)) /\ Len(SubSeq(e, one, last)) = IF one <= last THEN last - one + 1 ELSE 0
          /\ \A i \in 1 .. (last - one + 1) : SubSeq(e, one, last)[i] = e[one + i - 1]
      <4>1. IsPart(SubSeq(e, one, last), e, one, last)
        BY <1>1, <3>7, PartOfSequence
      <4> QED BY <4>1 DEF IsPart
    <3>10. ASSUME NEW i \in 1 .. Len(SubSeq(z, m, n))
           PROVE  SubSeq(z, m, n)[i] = SubSeq(e, one, last)[i]
      <4>1. i \in 1 .. last /\ i \in Int
        BY <3>7, <3>8
      <4>2. m + i - 1 = Len(x) + i /\ i \in 1 .. Len(e) /\ one + i - 1 = i
        BY <1>1, <3>7, <4>1
      <4>3. SubSeq(z, m, n)[i] = z[m + i - 1] /\ SubSeq(e, one, last)[i] = e[one + i - 1]
        BY <3>7, <3>8, <3>9, <4>1
      <4> QED BY <1>4, <4>2, <4>3
    <3>11. Len(SubSeq(z, m, n)) = Len(SubSeq(e, one, last))
      BY <3>7, <3>8, <3>9
    <3>12. SubSeq(z, m, n) = SubSeq(e, one, last)
      BY <3>8, <3>9, <3>10, <3>11, SameSequence
    <3> QED BY <3>12 DEF m, n, one, last
  <2>3. b \in Int /\ Len(x) \in Int
    BY <1>1
  <2> QED BY <2>1, <2>2
<1> QED BY <1>6, <1>8 DEF LinesIn

\* A stream is still whole with a line more at its end.
LEMMA WholeMore ==
  ASSUME NEW pending, NEW dropping, NEW input, NEW lines, Whole(pending, dropping, input, lines),
         NEW e, OneLine(e), SubSeq(e, 1, Len(e) - 1) \in lines
  PROVE  Whole(pending, dropping, input \o e, lines)
<1>1. IsSequence(pending) /\ IsSequence(input) /\ IsSequence(e) /\ dropping \in BOOLEAN
  BY DEF Whole, OneLine
<1>2. IsSequence(input \o e) /\ Len(input \o e) = Len(input) + Len(e)
  BY <1>1, JoinedSequence
<1>3. CASE dropping
  <2>1. pending = << >> /\ input # << >> /\ Ended(input) /\ LinesIn(input, 1, lines)
    BY <1>3 DEF Whole
  <2> DEFINE one == 1
  <2>2. one \in Nat /\ LinesIn(input, one, lines)
    BY <2>1
  <2> HIDE DEF one
  <2>3. Ended(input \o e) /\ LinesIn(input \o e, one, lines)
    BY <1>1, <2>1, <2>2, LineMore
  <2>4. input \o e # << >>
    <3>1. Len(input) \in Nat /\ Len(e) \in Nat \ {0}
      BY <1>1, SequenceShape DEF OneLine
    <3>2. Len(input \o e) # 0
      BY <1>2, <3>1
    <3> QED BY <3>2
  <2> QED BY <1>1, <1>2, <1>3, <2>1, <2>3, <2>4 DEF Whole, one
<1>4. CASE ~dropping
  <2> DEFINE y == pending \o input
             zero == 0
  <2>1. IsSequence(y) /\ Ended(y) /\ LinesIn(y, zero, lines) /\ zero \in Nat
    BY <1>1, <1>4, JoinedSequence DEF Whole
  <2>2. y \o e = pending \o (input \o e)
    BY <1>1, JoinsJoin
  <2> HIDE DEF y, zero
  <2>3. Ended(y \o e) /\ LinesIn(y \o e, zero, lines)
    BY <1>1, <2>1, LineMore
  <2> QED BY <1>1, <1>2, <1>4, <2>2, <2>3 DEF Whole, zero
<1> QED BY <1>1, <1>3, <1>4

\* The three lines a client writes to its child.
Line(id, method) == SubSeq(encode(id, method), 1, Len(encode(id, method)) - 1)

LinesTo(name) ==
  {Line("1", "initialize"), Line(Closed, "notifications/initialized"), Line("2", name)}

\* Their tokens, with the id of a request and without one.
IsCall(e, id, method) ==
  /\ e[1] = "{" /\ e[2] = "jsonrpc" /\ e[3] = ":" /\ e[4] = "2.0" /\ e[5] = ","
  /\ e[6] = "id" /\ e[7] = ":" /\ e[8] = id /\ e[9] = "," /\ e[10] = "method"
  /\ e[11] = ":" /\ e[12] = method /\ e[13] = "}"

IsNotice(e, method) ==
  /\ e[1] = "{" /\ e[2] = "jsonrpc" /\ e[3] = ":" /\ e[4] = "2.0" /\ e[5] = ","
  /\ e[6] = "method" /\ e[7] = ":" /\ e[8] = method /\ e[9] = "}"

\* A request as it is written.
LEMMA EncodedCall ==
  ASSUME NEW id, NEW method, id # Closed
  PROVE  LET e == encode(id, method)
         IN  IsSequence(e) /\ Len(e) = 14 /\ IsCall(e, id, method) /\ e[14] = NewLine
<1> DEFINE T == {"{", "jsonrpc", ":", "2.0", ",", "id", id, "method", method, "}", NewLine}
           e == <<"{", "jsonrpc", ":", "2.0", ",", "id", ":", id, ",",
                  "method", ":", method, "}", NewLine>>
<1>1. encode(id, method) = e
  BY DEF encode
<1>2. e \in Seq(T) /\ Len(e) = 14
  OBVIOUS
<1>3. IsCall(e, id, method) /\ e[14] = NewLine
  BY DEF IsCall
<1> HIDE DEF e, T
<1>4. IsSequence(e)
  BY <1>2, SequenceIntro
<1> QED BY <1>1, <1>2, <1>3, <1>4

\* A notification as it is written.
LEMMA EncodedNotice ==
  ASSUME NEW method
  PROVE  LET e == encode(Closed, method)
         IN  IsSequence(e) /\ Len(e) = 10 /\ IsNotice(e, method) /\ e[10] = NewLine
<1> DEFINE T == {"{", "jsonrpc", ":", "2.0", ",", "method", method, "}", NewLine}
           e == <<"{", "jsonrpc", ":", "2.0", ",", "method", ":", method, "}", NewLine>>
<1>1. encode(Closed, method) = e
  BY DEF encode
<1>2. e \in Seq(T) /\ Len(e) = 10
  OBVIOUS
<1>3. IsNotice(e, method) /\ e[10] = NewLine
  BY DEF IsNotice
<1> HIDE DEF e, T
<1>4. IsSequence(e)
  BY <1>2, SequenceIntro
<1> QED BY <1>1, <1>2, <1>3, <1>4

\* What is not the line break ends no line.
LEMMA WrittenLines ==
  /\ \A id, method : id \notin {Closed, NewLine} /\ method # NewLine =>
       /\ OneLine(encode(id, method)) /\ IsSequence(Line(id, method))
       /\ Len(Line(id, method)) = 13 /\ IsCall(Line(id, method), id, method)
  /\ \A method : method # NewLine =>
       /\ OneLine(encode(Closed, method)) /\ IsSequence(Line(Closed, method))
       /\ Len(Line(Closed, method)) = 9 /\ IsNotice(Line(Closed, method), method)
<1>1. ASSUME NEW id, NEW method, id \notin {Closed, NewLine}, method # NewLine
      PROVE  /\ OneLine(encode(id, method)) /\ IsSequence(Line(id, method))
             /\ Len(Line(id, method)) = 13 /\ IsCall(Line(id, method), id, method)
  <2> DEFINE e == encode(id, method)
             n == Len(e) - 1
             l == SubSeq(e, 1, n)
  <2>1. IsSequence(e) /\ Len(e) = 14 /\ IsCall(e, id, method) /\ e[14] = NewLine
    BY <1>1, EncodedCall
  <2> HIDE DEF e
  <2>2. ASSUME NEW i \in 1 .. 13 PROVE e[i] # NewLine
    <3>1. i \in {1, 2, 3, 4, 5, 6, 7, 8, 9, 10, 11, 12, 13}
      OBVIOUS
    <3> QED BY <1>1, <2>1, <3>1 DEF IsCall, NewLine
  <2>3. OneLine(e)
    BY <2>1, <2>2 DEF OneLine
  <2>4. n \in 0 .. Len(e) /\ n = 13
    BY <2>1
  <2> HIDE DEF n
  <2>5. IsSequence(l) /\ Len(l) = n /\ \A i \in 1 .. n : l[i] = e[i]
    BY <2>1, <2>4, CutJoins
  <2> HIDE DEF l
  <2>6. \A i \in {1, 2, 3, 4, 5, 6, 7, 8, 9, 10, 11, 12, 13} : l[i] = e[i]
    BY <2>4, <2>5
  <2>7. IsSequence(l) /\ Len(l) = 13 /\ IsCall(l, id, method)
    BY <2>1, <2>4, <2>5, <2>6 DEF IsCall
  <2> QED BY <2>3, <2>7 DEF Line, l, n, e
<1>2. ASSUME NEW method, method # NewLine
      PROVE  /\ OneLine(encode(Closed, method)) /\ IsSequence(Line(Closed, method))
             /\ Len(Line(Closed, method)) = 9 /\ IsNotice(Line(Closed, method), method)
  <2> DEFINE e == encode(Closed, method)
             n == Len(e) - 1
             l == SubSeq(e, 1, n)
  <2>1. IsSequence(e) /\ Len(e) = 10 /\ IsNotice(e, method) /\ e[10] = NewLine
    BY EncodedNotice
  <2> HIDE DEF e
  <2>2. ASSUME NEW i \in 1 .. 9 PROVE e[i] # NewLine
    <3>1. i \in {1, 2, 3, 4, 5, 6, 7, 8, 9}
      OBVIOUS
    <3> QED BY <1>2, <2>1, <3>1 DEF IsNotice, NewLine
  <2>3. OneLine(e)
    BY <2>1, <2>2 DEF OneLine
  <2>4. n \in 0 .. Len(e) /\ n = 9
    BY <2>1
  <2> HIDE DEF n
  <2>5. IsSequence(l) /\ Len(l) = n /\ \A i \in 1 .. n : l[i] = e[i]
    BY <2>1, <2>4, CutJoins
  <2> HIDE DEF l
  <2>6. \A i \in {1, 2, 3, 4, 5, 6, 7, 8, 9} : l[i] = e[i]
    BY <2>4, <2>5
  <2>7. IsSequence(l) /\ Len(l) = 9 /\ IsNotice(l, method)
    BY <2>1, <2>4, <2>5, <2>6 DEF IsNotice
  <2> QED BY <2>3, <2>7 DEF Line, l, n, e
<1> QED BY <1>1, <1>2

\* No white space is skipped where there is none.
LEMMA NothingSkipped ==
  ASSUME NEW text, NEW i \in Nat, Len(text) \in Nat, TokenAt(text, i) \notin Whitespace
  PROVE  skipWhitespace(text, i) = i
<1> DEFINE Is(j) == /\ TokenAt(text, j) \notin Whitespace
                    /\ \A k \in i .. (j - 1) : TokenAt(text, k) \in Whitespace
<1>1. i \in i .. (Len(text) + i) /\ Is(i)
  OBVIOUS
<1>2. ASSUME NEW j \in i .. (Len(text) + i), Is(j) PROVE j = i
  <2>1. i \notin i .. (j - 1)
    BY <1>2
  <2> QED BY <2>1
<1>3. skipWhitespace(text, i) = CHOOSE j \in i .. (Len(text) + i) : Is(j)
  BY DEF skipWhitespace
<1> HIDE DEF Is
<1> QED BY <1>1, <1>2, <1>3

\* A key that is followed by a colon at one position only has its value, or is
\* no key of the outermost object.
LEMMA FieldIs ==
  ASSUME NEW text, IsSequence(text), NEW key, NEW k \in 1 .. (Len(text) - 2),
         text[k + 1] = ":", NEW v, text[k + 2] = v, v \notin Whitespace,
         \A i \in 1 .. Len(text) :
           text[i] = key => i = k \/ TokenAt(text, skipWhitespace(text, i + 1)) # ":"
  PROVE  Field(text, key) \in {Closed, v}
<1> DEFINE After(i) == skipWhitespace(text, i + 1)
           at == {i \in DOMAIN text :
                    Level(text, i) = 1 /\ text[i] = key /\ TokenAt(text, After(i)) = ":"}
<1>1. DOMAIN text = 1 .. Len(text) /\ Len(text) \in Nat
  BY SequenceShape
<1>2. \A i \in at : i = k
  BY <1>1
<1>3. TokenAt(text, k + 1) = ":" /\ TokenAt(text, k + 2) = v /\ k + 1 \in Nat /\ k + 2 \in Nat
  BY <1>1 DEF TokenAt
<1>4. skipWhitespace(text, k + 1) = k + 1
  BY <1>1, <1>3, NothingSkipped DEF Whitespace, CarriageReturn
<1>5. skipWhitespace(text, k + 2) = k + 2
  BY <1>1, <1>3, NothingSkipped
<1>6. (k + 1) + 1 = k + 2
  BY <1>1
<1>7. After(k) = k + 1 /\ After(k + 1) = k + 2
  BY <1>4, <1>5, <1>6
<1>8. Field(text, key) = IF at = {} THEN Closed ELSE TokenAt(text, After(After(CHOOSE i \in at : TRUE)))
  BY DEF Field
<1>9. at # {} => (CHOOSE i \in at : TRUE) = k
  BY <1>2
<1> HIDE DEF at, After
<1> QED BY <1>3, <1>7, <1>8, <1>9

\* A text without a key has no value for it.
LEMMA NoField ==
  ASSUME NEW text, IsSequence(text), NEW key, \A i \in 1 .. Len(text) : text[i] # key
  PROVE  Field(text, key) = Closed
<1> DEFINE After(i) == skipWhitespace(text, i + 1)
           at == {i \in DOMAIN text :
                    Level(text, i) = 1 /\ text[i] = key /\ TokenAt(text, After(i)) = ":"}
<1>1. DOMAIN text = 1 .. Len(text)
  BY SequenceShape
<1>2. at = {}
  BY <1>1
<1>3. Field(text, key) = IF at = {} THEN Closed ELSE TokenAt(text, After(After(CHOOSE i \in at : TRUE)))
  BY DEF Field
<1> HIDE DEF at, After
<1> QED BY <1>2, <1>3

\* No name is white space, a mark or a line break.
LEMMA StringTokens ==
  \A name \in Strings : name \notin Whitespace /\ name # Closed /\ name # NewLine
  BY StringsAssumption

\* The call's id is on the last line only, and its name is the method there.
LEMMA CallLines ==
  ASSUME NEW name \in Strings
  PROVE  /\ Field(Line("1", "initialize"), "id") \in {Closed, "1"}
         /\ Field(Line(Closed, "notifications/initialized"), "id") = Closed
         /\ Field(Line("2", name), "method") \in {Closed, name}
<1>1. name \notin Whitespace /\ name # Closed /\ name # NewLine
  BY StringTokens
<1>2. Field(Line("1", "initialize"), "id") \in {Closed, "1"}
  <2> DEFINE l == Line("1", "initialize")
  <2>1. IsSequence(l) /\ Len(l) = 13 /\ IsCall(l, "1", "initialize")
    BY WrittenLines DEF Closed, NewLine
  <2> HIDE DEF l
  <2>2. ASSUME NEW i \in 1 .. Len(l), l[i] = "id" PROVE i = 6
    <3>1. i \in {1, 2, 3, 4, 5, 6, 7, 8, 9, 10, 11, 12, 13}
      BY <2>1
    <3> QED BY <2>1, <2>2, <3>1 DEF IsCall
  <2>3. 6 \in 1 .. (Len(l) - 2) /\ l[6 + 1] = ":" /\ l[6 + 2] = "1"
    <3>1. 6 + 1 = 7 /\ 6 + 2 = 8 /\ 6 \in 1 .. (13 - 2)
      OBVIOUS
    <3>2. l[7] = ":" /\ l[8] = "1"
      BY <2>1 DEF IsCall
    <3> QED BY <2>1, <3>1, <3>2
  <2>4. "1" \notin Whitespace
    BY DEF Whitespace, CarriageReturn
  <2> DEFINE six == 6
  <2> HIDE DEF six
  <2>5. six \in 1 .. (Len(l) - 2) /\ l[six + 1] = ":" /\ l[six + 2] = "1"
    BY <2>3 DEF six
  <2>6. \A i \in 1 .. Len(l) :
           l[i] = "id" => i = six \/ TokenAt(l, skipWhitespace(l, i + 1)) # ":"
    BY <2>2 DEF six
  <2>7. Field(l, "id") \in {Closed, "1"}
    BY <2>1, <2>4, <2>5, <2>6, FieldIs
  <2> QED BY <2>7 DEF l
<1>3. Field(Line(Closed, "notifications/initialized"), "id") = Closed
  <2> DEFINE l == Line(Closed, "notifications/initialized")
  <2>1. IsSequence(l) /\ Len(l) = 9 /\ IsNotice(l, "notifications/initialized")
    BY WrittenLines DEF NewLine
  <2> HIDE DEF l
  <2>2. ASSUME NEW i \in 1 .. Len(l) PROVE l[i] # "id"
    <3>1. i \in {1, 2, 3, 4, 5, 6, 7, 8, 9}
      BY <2>1
    <3> QED BY <2>1, <3>1 DEF IsNotice
  <2>3. Field(l, "id") = Closed
    BY <2>1, <2>2, NoField
  <2> QED BY <2>3 DEF l
<1>4. Field(Line("2", name), "method") \in {Closed, name}
  <2> DEFINE l == Line("2", name)
  <2>1. IsSequence(l) /\ Len(l) = 13 /\ IsCall(l, "2", name)
    BY <1>1, WrittenLines DEF Closed, NewLine
  <2> HIDE DEF l
  <2>2. ASSUME NEW i \in 1 .. Len(l), l[i] = "method"
        PROVE i = 10 \/ TokenAt(l, skipWhitespace(l, i + 1)) # ":"
    <3>1. i \in {1, 2, 3, 4, 5, 6, 7, 8, 9, 10, 11, 12, 13}
      BY <2>1
    <3>2. i = 10 \/ i = 12
      BY <2>1, <2>2, <3>1 DEF IsCall
    <3>3. TokenAt(l, 13) = "}"
      <4>1. l[13] = "}"
        BY <2>1 DEF IsCall
      <4>2. 13 \in 1 .. 13
        OBVIOUS
      <4>3. Len(l) = 13
        BY <2>1
      <4>4. 13 \in 1 .. Len(l)
        BY <4>2, <4>3
      <4> QED BY <4>1, <4>4 DEF TokenAt
    <3>4. skipWhitespace(l, 13) = 13
      <4>1. TokenAt(l, 13) \notin Whitespace
        BY <3>3 DEF Whitespace, CarriageReturn
      <4>2. 13 \in Nat
        OBVIOUS
      <4>3. Len(l) \in Nat
        BY <2>1, SequenceShape
      <4> QED BY <4>1, <4>2, <4>3, NothingSkipped
    <3>5. i = 12 => i + 1 = 13
      OBVIOUS
    <3> QED BY <3>2, <3>3, <3>4, <3>5
  <2>3. 10 \in 1 .. (Len(l) - 2) /\ l[10 + 1] = ":" /\ l[10 + 2] = name
    <3>1. 10 + 1 = 11 /\ 10 + 2 = 12 /\ 10 \in 1 .. (13 - 2)
      OBVIOUS
    <3>2. l[11] = ":" /\ l[12] = name
      BY <2>1 DEF IsCall
    <3> QED BY <2>1, <3>1, <3>2
  <2> DEFINE ten == 10
  <2> HIDE DEF ten
  <2>4. ten \in 1 .. (Len(l) - 2) /\ l[ten + 1] = ":" /\ l[ten + 2] = name
    BY <2>3 DEF ten
  <2>5. \A i \in 1 .. Len(l) :
           l[i] = "method" => i = ten \/ TokenAt(l, skipWhitespace(l, i + 1)) # ":"
    BY <2>2 DEF ten
  <2>6. Field(l, "method") \in {Closed, name}
    BY <1>1, <2>1, <2>4, <2>5, FieldIs
  <2> QED BY <2>6 DEF l
<1> QED BY <1>2, <1>3, <1>4

\* A frame of such a stream is the call by name, or is not answered under its id.
LEMMA CallFrames ==
  ASSUME NEW name \in Strings, NEW frame, frame \in LinesTo(name) \/ Len(frame) > PipelineFrame
  PROVE  LET f == parseBoundedFrame(frame)
         IN  f.id = "2" /\ f.code = "request" => f.method \in {Closed, name}
<1> DEFINE f == parseBoundedFrame(frame)
<1>1. f.code = "request" =>
        /\ ~(Len(frame) > PipelineFrame)
        /\ f.id = Field(frame, "id") /\ f.method = Field(frame, "method")
  BY DEF parseBoundedFrame
<1>2. /\ Field(Line("1", "initialize"), "id") # "2"
      /\ Field(Line(Closed, "notifications/initialized"), "id") # "2"
      /\ Field(Line("2", name), "method") \in {Closed, name}
  BY CallLines DEF Closed
<1> HIDE DEF f
<1> QED BY <1>1, <1>2 DEF LinesTo, f

-----------------------------------------------------------------------------
(* What becomes of a frame.                                                 *)

FollowsPlan == \E i \in DOMAIN Plans : plan \in Plans[i]

\* A task of a child with the id of its call is that call, or promises nothing.
OfCall(t, name) ==
  t.id = "2" => t.req = plan.requests[name] \/ (t.answer # Later /\ t.answer.row = {})

\* A code alone promises and grants nothing.
LEMMA PlainAnswers ==
  ASSUME NEW code, code # "later"
  PROVE  Answer(code) # Later /\ Silent(Answer(code))
  BY DEF Answer, Later, Silent

\* A frame is handled rightly, and under the id of a call only that call is.
LEMMA FrameServes ==
  ASSUME FollowsPlan, DOMAIN db = DOMAIN EmptyStore, StoreOK(db, plan), db.applied = Migration,
         RuntimeStarts(plan.env), NEW s, NEW frame
  PROVE  LET h == handleFrame(s, frame)
         IN  /\ DOMAIN h = {"db", "out", "tasks"} /\ Effect(db, h.db, plan)
             /\ IsSequence(h.tasks) /\ \A t \in Items(h.tasks) : TaskOK(t, s.since, h.db, plan)
             /\ IsSequence(h.out) /\ \A r \in Items(h.out) : Silent(r.answer)
             /\ \A name \in Strings :
                  frame \in LinesTo(name) \/ Len(frame) > PipelineFrame =>
                    \A t \in Items(h.tasks) : OfCall(t, name)
<1> DEFINE f == parseBoundedFrame(frame)
           h == handleFrame(s, frame)
           req == plan.requests[f.method]
           caller == CallerOf({}, req, plan.env)
           w == Dispatch(db, req, caller, s.since)
           id == IF f.id = Closed THEN "null" ELSE f.id
           Sent(code) == [db |-> db, out |-> <<Reply(id, Answer(code))>>, tasks |-> << >>]
           Quiet == [db |-> db, out |-> << >>, tasks |-> << >>]
           Plain == [db |-> db, out |-> << >>,
                     tasks |-> <<Task(f.id, Nobody, GKS_MSP_CALLER, [db |-> db, answer |-> Answer("ok")])>>]
           Asked == [db |-> w.db, out |-> << >>, tasks |-> <<Task(f.id, req, caller, w)>>]
           Good(g) ==
             /\ DOMAIN g = {"db", "out", "tasks"} /\ Effect(db, g.db, plan)
             /\ IsSequence(g.tasks) /\ \A t \in Items(g.tasks) : TaskOK(t, s.since, g.db, plan)
             /\ IsSequence(g.out) /\ \A r \in Items(g.out) : Silent(r.answer)
             /\ \A name \in Strings :
                  frame \in LinesTo(name) \/ Len(frame) > PipelineFrame =>
                    \A t \in Items(g.tasks) : OfCall(t, name)
<1> SUFFICES Good(h)
  OBVIOUS
<1>1. \/ h = Quiet
      \/ \E code : h = Sent(code) /\ code # "later"
      \/ h = Plain
      \/ f.code = "request" /\ f.method \in DOMAIN plan.requests /\ h = Asked
  <2>1. f.code \in {"request", "too large", "refused", "invalid"}
    BY DEF parseBoundedFrame
  <2>2. h = handleRequest(s, frame, f)
    BY DEF handleFrame
  <2> HIDE DEF f, h, Quiet
  <2>3. h = IF Ignored(frame) THEN Quiet
            ELSE IF f.code # "request" THEN Sent(f.code)
            ELSE IF Len(frame) > requestLimit(f.method) THEN Sent("too large")
            ELSE IF f.method = "notifications/initialized" \/ f.id = Closed THEN Quiet
            ELSE IF Len(s.tasks) >= MaxInFlight THEN Sent("overloaded")
            ELSE IF f.method \notin DOMAIN plan.requests THEN Plain
            ELSE Asked
    BY <2>2 DEF handleRequest, Quiet
  <2> HIDE DEF Sent, Plain, Asked
  <2>4. "too large" # "later" /\ "overloaded" # "later" /\ f.code # "later"
    BY <2>1
  <2> QED BY <2>3, <2>4
<1>2. Effect(db, db, plan)
  BY DEF Effect
<1>3. Good(Quiet)
  BY <1>2, EmptySequence
<1>4. ASSUME NEW code, code # "later" PROVE Good(Sent(code))
  <2> DEFINE r == Reply(id, Answer(code))
  <2>1. r.answer = Answer(code)
    BY DEF Reply
  <2>2. Silent(r.answer)
    BY <1>4, <2>1, PlainAnswers
  <2> HIDE DEF r
  <2>3. IsSequence(<<r>>) /\ Items(<<r>>) = {r}
    BY SingleSequence
  <2>4. Sent(code) = [db |-> db, out |-> <<r>>, tasks |-> << >>]
    BY DEF r
  <2> QED BY <1>2, <2>2, <2>3, <2>4, EmptySequence
<1>5. Good(Plain)
  <2> DEFINE t == Task(f.id, Nobody, GKS_MSP_CALLER, [db |-> db, answer |-> Answer("ok")])
  <2>1. t.answer = Answer("ok")
    BY DEF Task
  <2>2. t.answer # Later /\ Silent(t.answer)
    BY <2>1, PlainAnswers
  <2>3. TaskOK(t, s.since, db, plan)
    BY <2>2, SilentAnswer DEF TaskOK
  <2> HIDE DEF t
  <2>4. \A name : OfCall(t, name)
    BY <2>2 DEF OfCall, Silent
  <2>5. IsSequence(<<t>>) /\ Items(<<t>>) = {t}
    BY SingleSequence
  <2>6. Plain = [db |-> db, out |-> << >>, tasks |-> <<t>>]
    BY DEF t
  <2> QED BY <1>2, <2>3, <2>4, <2>5, <2>6, EmptySequence
<1>6. ASSUME f.code = "request", f.method \in DOMAIN plan.requests PROVE Good(Asked)
  <2>1. PICK i \in DOMAIN Plans : plan \in Plans[i]
    BY DEF FollowsPlan
  <2>2. /\ Asks(req, plan.pulled) /\ f.method \in Strings
        /\ req.tool \in {"gks_review_apply", "gks_artifact_link"} => ValidScope(req.scope)
    <3> HIDE DEF f
    <3> QED BY <1>6, <2>1, CallsAssumption
  <2>3. Legitimate(plan, req, caller)
    BY MspLegitimate
  <2>4. NamesScope(req, caller)
    BY <2>2 DEF NamesScope
  <2> DEFINE t == Task(f.id, req, caller, w)
  <2>5. t.id = f.id /\ t.req = req
    BY DEF Task
  <2> HIDE DEF f, req, caller
  <2>6. Effect(db, w.db, plan) /\ TaskOK(t, s.since, w.db, plan)
    BY <2>2, <2>3, <2>4, DispatchServes
  <2> HIDE DEF w, t
  <2>7. ASSUME NEW name \in Strings, frame \in LinesTo(name) \/ Len(frame) > PipelineFrame
        PROVE  OfCall(t, name)
    <3>1. f.id = "2" /\ f.code = "request" => f.method \in {Closed, name}
      BY <2>7, CallFrames DEF f
    <3>2. f.method # Closed
      BY <2>2, StringTokens
    <3> QED BY <1>6, <2>5, <3>1, <3>2 DEF OfCall, req
  <2>8. IsSequence(<<t>>) /\ Items(<<t>>) = {t}
    BY SingleSequence
  <2>9. Asked = [db |-> w.db, out |-> << >>, tasks |-> <<t>>]
    BY DEF t
  <2> QED BY <2>6, <2>7, <2>8, <2>9, EmptySequence
<1> HIDE DEF h, Sent, Quiet, Plain, Asked, Good, f
<1> QED BY <1>1, <1>3, <1>4, <1>5, <1>6

-----------------------------------------------------------------------------
(* The invariant of the processes and the clients.                          *)

Fields == {"mode", "ver", "http", "client", "since", "listed", "input", "stream", "eof",
           "pending", "dropping", "frames", "tasks", "out", "killed"}

\* A process that runs has an environment it starts with, and all that it owes
\* or has sent is right.
ServerOK(s, d, pl) ==
  /\ DOMAIN s = Fields
  /\ ~Gone(s) => IF s.http THEN HttpStarts(pl.env) ELSE RuntimeStarts(pl.env)
  /\ SinceOK(s.since, d)
  /\ IsSequence(s.tasks) /\ \A t \in Items(s.tasks) : TaskOK(t, s.since, d, pl)
  /\ IsSequence(s.out) /\ \A r \in Items(s.out) : PageOK(r.answer, s.since, d, pl)
  /\ s.http = TRUE => s.out = << >>

ClientFields == {"at", "on", "step", "tries", "call", "since", "got", "kept"}

\* Requests a client of HTTP makes.
Asked(req, pl) == {"tool", "scope", "msp"} \subseteq DOMAIN req /\ Asks(req, pl.pulled)

RequestIn(call, pl) == IF pl.http THEN call ELSE pl.requests[call]

ClientOK(k, d, pl) ==
  /\ DOMAIN k = ClientFields
  /\ k.step \in Nat \ {0} /\ k.tries \in Nat
  /\ SinceOK(k.since, d)
  /\ k.got = Seen(d, pl, 0, k.since)
  /\ \A x \in k.kept : RowOK({x[2]}, RequestIn(x[1], pl), d, pl)
  /\ k.at \in {"sent", "read"} => pl.http /\ Asked(k.call, pl)
  /\ k.at \in {"init", "call", "closing"} => ~pl.http

\* A child reads the three lines of its client, and answers under the id of
\* the call what that call is answered with.
ChildOK(s, k, c, d, pl) ==
  /\ k.call \in Strings
  /\ s.client = c /\ s.http = FALSE /\ s.since = k.since /\ s.eof = FALSE
  /\ Whole(s.pending, s.dropping, s.input, LinesTo(k.call))
  /\ FramesIn(s.frames, LinesTo(k.call))
  /\ \A t \in Items(s.tasks) :
       t.id = "2" => t.req = pl.requests[k.call] \/ (t.answer # Later /\ t.answer.row = {})
  /\ \A r \in Items(s.out) : r.id = "2" => RowOK(r.answer.row, pl.requests[k.call], d, pl)

\* A task of an HTTP server is for the attempt a client waits for, or for an
\* earlier one.
AttemptOK(t, since, k) ==
  \/ t.id[2] < k.step
  \/ t.id[2] = k.step /\ t.id[3] < k.tries
  \/ /\ t.id[2] = k.step /\ t.id[3] = k.tries
     /\ k.at = "read" /\ since = k.since /\ t.req = k.call

HttpOK(s, clients, pl) ==
  s.http = TRUE /\ s.tasks # << >> =>
    /\ pl.http /\ Len(s.tasks) = 1
    /\ s.tasks[1].id \in Client \X Nat \X Nat
    /\ AttemptOK(s.tasks[1], s.since, clients[s.tasks[1].id[1]])

Waits(k) == k.at \in {"init", "call"}

ServeInv ==
  /\ StoreOK(db, plan)
  /\ \A p \in Server : ServerOK(srv[p], db, plan) /\ HttpOK(srv[p], cli, plan)
  /\ DOMAIN cli = Client
  /\ \A c \in Client :
       /\ ClientOK(cli[c], db, plan)
       /\ Waits(cli[c]) => /\ cli[c].on \in Server
                           /\ ChildOK(srv[cli[c].on], cli[c], c, db, plan)

\* More rows and later evidence change nothing of it.
LEMMA StoreGrows ==
  ASSUME NEW d, NEW e, NEW pl, Extends(d, e), StoreOK(d, pl), StoreOK(e, pl)
  PROVE  /\ \A s : ServerOK(s, d, pl) => ServerOK(s, e, pl)
         /\ \A k : ClientOK(k, d, pl) => ClientOK(k, e, pl)
         /\ \A s, k, c : ChildOK(s, k, c, d, pl) => ChildOK(s, k, c, e, pl)
<1>0. WellKept(d) /\ WellKept(e)
  BY DEF StoreOK
<1>1. /\ \A n : SinceOK(n, d) => SinceOK(n, e)
      /\ \A a, since : PageOK(a, since, d, pl) => PageOK(a, since, e, pl)
      /\ \A row, req : RowOK(row, req, d, pl) => RowOK(row, req, e, pl)
      /\ \A t, since : TaskOK(t, since, d, pl) => TaskOK(t, since, e, pl)
  BY <1>0, ToldStaysTold
<1>2. ASSUME NEW s, ServerOK(s, d, pl) PROVE ServerOK(s, e, pl)
  BY <1>1, <1>2 DEF ServerOK
<1>3. ASSUME NEW k, ClientOK(k, d, pl) PROVE ClientOK(k, e, pl)
  <2>1. CASE d.applied = Migration
    <3>1. d.cursor \in Nat
      BY <1>0 DEF WellKept
    <3>2. k.since \in 0 .. d.cursor
      BY <1>3, <3>1 DEF ClientOK, SinceOK
    <3>3. Seen(e, pl, 0, k.since) = Seen(d, pl, 0, k.since)
      BY <1>0, <2>1, <3>2, SeenGrows
    <3> QED BY <1>1, <1>3, <3>3 DEF ClientOK
  <2>2. CASE d.applied # Migration
    <3>1. k.since = 0
      BY <1>3, <2>2 DEF ClientOK, SinceOK
    <3>2. Seen(e, pl, 0, 0) = {} /\ Seen(d, pl, 0, 0) = {}
      <4>1. /\ \A x \in e.evidence : x.cursor \in 1 .. e.cursor
            /\ \A x \in d.evidence : x.cursor \in 1 .. d.cursor
        BY <1>0, EvidenceFinite
      <4>2. e.cursor \in Nat /\ d.cursor \in Nat
        BY <1>0 DEF WellKept
      <4>3. \A x \in d.evidence \cup e.evidence : ~(0 < x.cursor /\ x.cursor <= 0)
        BY <4>1, <4>2
      <4> QED BY <4>3 DEF Seen
    <3> QED BY <1>1, <1>3, <3>1, <3>2 DEF ClientOK
  <2> QED BY <2>1, <2>2
<1>4. ASSUME NEW s, NEW k, NEW c, ChildOK(s, k, c, d, pl) PROVE ChildOK(s, k, c, e, pl)
  BY <1>1, <1>4 DEF ChildOK
<1> QED BY <1>2, <1>3, <1>4

\* A client that goes on is past whatever it was past.
Onward(k, l) ==
  \A t, since :
    t.id \in Client \X Nat \X Nat /\ AttemptOK(t, since, k) => AttemptOK(t, since, l)

\* Every step: what does not change stays right, and what changes must be.
LEMMA ServeKeeps ==
  ASSUME ServeInv, plan' = plan, StoreOK(db', plan), Extends(db, db'), DOMAIN cli' = Client,
         \A q \in Server : \/ srv'[q] = srv[q]
                           \/ ServerOK(srv'[q], db', plan) /\ HttpOK(srv'[q], cli', plan),
         \A c \in Client : cli'[c] = cli[c] \/ ClientOK(cli'[c], db', plan),
         plan.http => \A c \in Client : Onward(cli[c], cli'[c]),
         \A c \in Client : Waits(cli'[c]) =>
           \/ cli'[c] = cli[c] /\ srv'[cli[c].on] = srv[cli[c].on]
           \/ cli'[c].on \in Server /\ ChildOK(srv'[cli'[c].on], cli'[c], c, db', plan)
  PROVE  ServeInv'
<1>1. StoreOK(db, plan)
  BY DEF ServeInv
<1>2. /\ \A s : ServerOK(s, db, plan) => ServerOK(s, db', plan)
      /\ \A k : ClientOK(k, db, plan) => ClientOK(k, db', plan)
      /\ \A s, k, c : ChildOK(s, k, c, db, plan) => ChildOK(s, k, c, db', plan)
  BY <1>1, StoreGrows
<1>3. ASSUME NEW q \in Server PROVE ServerOK(srv'[q], db', plan) /\ HttpOK(srv'[q], cli', plan)
  <2>1. CASE srv'[q] = srv[q]
    <3>1. ServerOK(srv[q], db', plan) /\ HttpOK(srv[q], cli, plan)
      BY <1>2 DEF ServeInv
    <3>2. HttpOK(srv[q], cli', plan)
      <4> SUFFICES ASSUME srv[q].http = TRUE, srv[q].tasks # << >>
                   PROVE  AttemptOK(srv[q].tasks[1], srv[q].since, cli'[srv[q].tasks[1].id[1]])
        BY <3>1 DEF HttpOK
      <4>1. /\ plan.http /\ AttemptOK(srv[q].tasks[1], srv[q].since, cli[srv[q].tasks[1].id[1]])
            /\ srv[q].tasks[1].id \in Client \X Nat \X Nat
        BY <3>1 DEF HttpOK
      <4>2. srv[q].tasks[1].id[1] \in Client
        BY <4>1
      <4> QED BY <4>1, <4>2 DEF Onward
    <3> QED BY <2>1, <3>1, <3>2
  <2> QED BY <2>1
<1>4. ASSUME NEW c \in Client
      PROVE  /\ ClientOK(cli'[c], db', plan)
             /\ Waits(cli'[c]) => /\ cli'[c].on \in Server
                                  /\ ChildOK(srv'[cli'[c].on], cli'[c], c, db', plan)
  <2>1. ClientOK(cli'[c], db', plan)
    BY <1>2 DEF ServeInv
  <2>2. Waits(cli[c]) => cli[c].on \in Server /\ ChildOK(srv[cli[c].on], cli[c], c, db', plan)
    BY <1>2 DEF ServeInv
  <2>3. Waits(cli'[c]) => cli'[c].on \in Server /\ ChildOK(srv'[cli'[c].on], cli'[c], c, db', plan)
    BY <2>2
  <2> QED BY <2>1, <2>3
<1> QED BY <1>3, <1>4 DEF ServeInv

\* A step of one process.
LEMMA ServerKeeps ==
  ASSUME ServeInv, DOMAIN srv = Server, plan' = plan, cli' = cli, StoreOK(db', plan),
         Extends(db, db'), NEW p \in Server, NEW s, srv' = [srv EXCEPT ![p] = s],
         ServerOK(s, db', plan), HttpOK(s, cli, plan),
         \A c \in Client : Waits(cli[c]) /\ cli[c].on = p => ChildOK(s, cli[c], c, db', plan)
  PROVE  ServeInv'
<1>1. \A q \in Server : srv'[q] = IF q = p THEN s ELSE srv[q]
  OBVIOUS
<1>2. \A q \in Server : \/ srv'[q] = srv[q]
                        \/ ServerOK(srv'[q], db', plan) /\ HttpOK(srv'[q], cli', plan)
  BY <1>1
<1>3. \A c \in Client : Onward(cli[c], cli'[c]) /\ cli'[c] = cli[c]
  BY DEF Onward
<1>4. ASSUME NEW c \in Client, Waits(cli'[c])
      PROVE  \/ cli'[c] = cli[c] /\ srv'[cli[c].on] = srv[cli[c].on]
             \/ cli'[c].on \in Server /\ ChildOK(srv'[cli'[c].on], cli'[c], c, db', plan)
  BY <1>1, <1>4 DEF ServeInv
<1>5. DOMAIN cli' = Client
  BY DEF ServeInv
<1> QED BY <1>2, <1>3, <1>4, <1>5, ServeKeeps

\* What a step of a process may change that no one depends on.
SameService(s, t) ==
  /\ DOMAIN t = Fields /\ (~Gone(t) => ~Gone(s))
  /\ t.http = s.http /\ t.client = s.client /\ t.since = s.since /\ t.eof = s.eof
  /\ t.input = s.input /\ t.pending = s.pending /\ t.dropping = s.dropping
  /\ t.frames = s.frames /\ t.tasks = s.tasks /\ t.out = s.out

\* A step of one process that no one depends on.
LEMMA QuietServes ==
  ASSUME ServeInv, DOMAIN srv = Server, plan' = plan, cli' = cli, StoreOK(db', plan),
         Extends(db, db'), NEW p \in Server, NEW s, srv' = [srv EXCEPT ![p] = s],
         SameService(srv[p], s)
  PROVE  ServeInv'
<1>1. /\ \A t : ServerOK(t, db, plan) => ServerOK(t, db', plan)
      /\ \A t, k, c : ChildOK(t, k, c, db, plan) => ChildOK(t, k, c, db', plan)
  BY StoreGrows DEF ServeInv
<1>2. ServerOK(srv[p], db', plan) /\ HttpOK(srv[p], cli, plan)
  BY <1>1 DEF ServeInv
<1>3. ServerOK(s, db', plan)
  BY <1>2 DEF ServerOK, SameService
<1>4. HttpOK(s, cli, plan)
  BY <1>2 DEF HttpOK, SameService
<1>5. ASSUME NEW c \in Client, Waits(cli[c]), cli[c].on = p PROVE ChildOK(s, cli[c], c, db', plan)
  <2>1. ChildOK(srv[p], cli[c], c, db', plan)
    BY <1>1, <1>5 DEF ServeInv
  <2> QED BY <2>1 DEF ChildOK, SameService
<1> QED BY <1>3, <1>4, <1>5, ServerKeeps

-----------------------------------------------------------------------------
(* The steps.                                                               *)

\* A new process, of an environment that is refused or not, owes nothing.
NewlyStarted(s, http, client, since, input, eof) ==
  /\ DOMAIN s = Fields
  /\ s.client = client /\ s.http = http /\ s.since = since /\ s.eof = eof
  /\ s.input = input /\ s.pending = << >> /\ s.dropping = FALSE /\ s.frames = << >>
  /\ s.tasks = << >> /\ s.out = << >>
  /\ ~Gone(s) => IF s.http THEN HttpStarts(plan.env) ELSE RuntimeStarts(plan.env)

\* A new process.
LEMMA NewHas ==
  ASSUME NEW ver, NEW http, NEW client, NEW since, NEW input, NEW eof
  PROVE  NewlyStarted(Started(Process(ver, http, client, since, input, eof)),
                      http, client, since, input, eof)
<1> DEFINE new == Process(ver, http, client, since, input, eof)
           ok == IF new.http THEN HttpStarts(plan.env) ELSE RuntimeStarts(plan.env)
           s == Started(new)
<1>1. /\ DOMAIN new = Fields /\ new.mode = "opening"
      /\ new.client = client /\ new.http = http /\ new.since = since /\ new.eof = eof
      /\ new.input = input /\ new.pending = << >> /\ new.dropping = FALSE /\ new.frames = << >>
      /\ new.tasks = << >> /\ new.out = << >>
  BY DEF Process, Fields
<1>2. s = IF ok THEN new ELSE [new EXCEPT !.mode = "closed"]
  BY DEF Started
<1> HIDE DEF new, s
<1>3. /\ DOMAIN s = Fields
      /\ s.client = client /\ s.http = http /\ s.since = since /\ s.eof = eof
      /\ s.input = input /\ s.pending = << >> /\ s.dropping = FALSE /\ s.frames = << >>
      /\ s.tasks = << >> /\ s.out = << >>
      /\ ok \/ s.mode = "closed"
  BY <1>1, <1>2
<1>4. ~Gone(s) => IF s.http THEN HttpStarts(plan.env) ELSE RuntimeStarts(plan.env)
  BY <1>1, <1>3 DEF Gone
<1> QED BY <1>3, <1>4 DEF s, new, NewlyStarted

\* It is right.
LEMMA NewServes ==
  ASSUME NEW ver, NEW http, NEW client, NEW since, NEW input, NEW eof, NEW d, SinceOK(since, d)
  PROVE  LET s == Started(Process(ver, http, client, since, input, eof))
         IN  ServerOK(s, d, plan) /\ HttpOK(s, cli, plan)
<1> DEFINE s == Started(Process(ver, http, client, since, input, eof))
<1>0. NewlyStarted(s, http, client, since, input, eof)
  BY NewHas
<1> HIDE DEF s
<1>1. /\ DOMAIN s = Fields /\ s.since = since /\ s.tasks = << >> /\ s.out = << >>
      /\ ~Gone(s) => IF s.http THEN HttpStarts(plan.env) ELSE RuntimeStarts(plan.env)
  BY <1>0 DEF NewlyStarted
<1>2. IsSequence(s.tasks) /\ Items(s.tasks) = {} /\ IsSequence(s.out) /\ Items(s.out) = {}
  BY <1>1, EmptySequence
<1>3. ServerOK(s, d, plan)
  BY <1>1, <1>2 DEF ServerOK
<1>4. HttpOK(s, cli, plan)
  BY <1>1 DEF HttpOK
<1> QED BY <1>3, <1>4 DEF s

\* A behaviour starts right.
LEMMA InitServe == Init => ServeInv
<1> SUFFICES ASSUME Init PROVE ServeInv
  OBVIOUS
<1>1. PICK i \in DOMAIN Plans : plan \in Plans[i]
  BY DEF Init
<1>2. WellKept(db) /\ Settled(db)
  BY <1>1, PlanAssumption DEF Init
<1>3. RowsOwned(db, plan)
  <2>1. db.version \in Nat /\ plan.store = db
    BY <1>2 DEF Init, WellKept
  <2>2. Newer(db, plan) = {}
    <3>1. \A r \in Rows(db) : ~(r.version > db.version)
      BY <1>2, <2>1 DEF WellKept, RowsShaped
    <3> QED BY <2>1, <3>1 DEF Newer
  <2> QED BY <2>1, <2>2 DEF RowsOwned
<1>4. StoreOK(db, plan)
  BY <1>2, <1>3 DEF StoreOK
<1>5. ASSUME NEW p \in Server PROVE ServerOK(srv[p], db, plan) /\ HttpOK(srv[p], cli, plan)
  <2> DEFINE s == NoProcess
  <2>1. /\ DOMAIN s = Fields /\ s.mode = "off" /\ s.http = FALSE /\ s.since = 0
        /\ s.tasks = << >> /\ s.out = << >>
    BY DEF NoProcess, Process, Fields
  <2>2. srv[p] = s
    BY DEF Init
  <2> HIDE DEF s
  <2>3. IsSequence(s.tasks) /\ Items(s.tasks) = {} /\ IsSequence(s.out) /\ Items(s.out) = {}
    BY <2>1, EmptySequence
  <2>4. ServerOK(s, db, plan) /\ HttpOK(s, cli, plan)
    BY <2>1, <2>3 DEF ServerOK, HttpOK, Gone, SinceOK
  <2> QED BY <2>2, <2>4
<1>6. ASSUME NEW c \in Client PROVE ClientOK(cli[c], db, plan) /\ ~Waits(cli[c])
  <2> DEFINE k == cli[c]
  <2>1. /\ DOMAIN k = ClientFields /\ k.at = "idle" /\ k.step = 1 /\ k.tries = 1
        /\ k.since = 0 /\ k.got = {} /\ k.kept = {}
    BY DEF Init, ClientFields
  <2> HIDE DEF k
  <2>2. Seen(db, plan, 0, 0) = {}
    <3>1. \A x \in db.evidence : x.cursor \in 1 .. db.cursor
      BY <1>2, EvidenceFinite
    <3>2. db.cursor \in Nat
      BY <1>2 DEF WellKept
    <3>3. \A x \in db.evidence : ~(0 < x.cursor /\ x.cursor <= 0)
      BY <3>1, <3>2
    <3> QED BY <3>3 DEF Seen
  <2>3. ClientOK(k, db, plan) /\ ~Waits(k)
    BY <2>1, <2>2 DEF ClientOK, Waits, SinceOK
  <2> QED BY <2>3 DEF k
<1>7. DOMAIN cli = Client
  BY DEF Init
<1> QED BY <1>4, <1>5, <1>6, <1>7 DEF ServeInv

\* A store that stays.
LEMMA StoreStays == ASSUME ServeInv, db' = db PROVE StoreOK(db', plan) /\ Extends(db, db')
  BY ExtendsItself DEF ServeInv, StoreOK

\* A process is started by hand.
LEMMA StartServes ==
  ASSUME ServeInv, DOMAIN srv = Server, NEW p \in Server, Start(p)
  PROVE  ServeInv'
<1> DEFINE o == plan.openers[spent.opened + 1]
           zero == 0
           s == Started(Process(o.ver, o.http, Nobody, zero, o.stream, ~o.http))
<1>1. /\ srv' = [srv EXCEPT ![p] = s] /\ plan' = plan /\ cli' = cli /\ db' = db
      /\ \A c \in Client : cli[c].on # p
  BY DEF Start, Set, NewSlot, FreeSlot
<1>2. StoreOK(db', plan) /\ Extends(db, db')
  BY <1>1, StoreStays
<1>3. SinceOK(zero, db')
  BY DEF SinceOK
<1> HIDE DEF zero
<1>4. ServerOK(s, db', plan) /\ HttpOK(s, cli, plan)
  <2> DEFINE ver == o.ver
             http == o.http
             input == o.stream
             eof == ~o.http
  <2> HIDE DEF o, ver, http, input, eof
  <2>1. LET new == Started(Process(ver, http, Nobody, zero, input, eof))
        IN  ServerOK(new, db', plan) /\ HttpOK(new, cli, plan)
    BY <1>3, NewServes
  <2> QED BY <2>1 DEF ver, http, input, eof
<1> HIDE DEF s
<1> QED BY <1>1, <1>2, <1>4, ServerKeeps

\* A process reads, is ready, stops or ends.
LEMMA ProcessServes ==
  ASSUME ServeInv, OpenInv, NEW p \in Server,
         ReadApplied(p) \/ Ready(p) \/ Stop(p) \/ Stopped(p) \/ Terminate(p) \/ Crash(p)
  PROVE  ServeInv'
<1>1. plan' = plan /\ cli' = cli /\ db' = db /\ DOMAIN srv = Server /\ DOMAIN srv[p] = Fields
  BY DEF ReadApplied, Ready, Stop, Stopped, Terminate, Crash, OpenInv, ServeInv, ServerOK
<1>2. StoreOK(db', plan) /\ Extends(db, db')
  BY <1>1, StoreStays
<1>3. PICK mode, listed : srv' = [srv EXCEPT ![p] = [srv[p] EXCEPT !.mode = mode, !.listed = listed]]
                          /\ (Gone(srv[p]) => mode \in {"off", "closed", "failed"})
  <2>1. CASE ReadApplied(p)
    <3> DEFINE mode == IF db.applied \subseteq 1 .. srv[p].ver THEN srv[p].mode ELSE "closed"
    <3>1. srv' = [srv EXCEPT ![p] = [srv[p] EXCEPT !.mode = mode, !.listed = db.applied]]
      BY <1>1, <2>1 DEF ReadApplied, Set, Fields
    <3>2. ~Gone(srv[p])
      BY <2>1 DEF ReadApplied, Gone
    <3> QED BY <3>1, <3>2
  <2>2. CASE ~ReadApplied(p)
    <3>1. PICK mode : srv' = [srv EXCEPT ![p] = [srv[p] EXCEPT !.mode = mode]]
                      /\ ~Gone(srv[p])
      BY <2>2 DEF Ready, Stop, Stopped, Terminate, Crash, Die, Set, Gone
    <3>2. [srv[p] EXCEPT !.mode = mode, !.listed = srv[p].listed] = [srv[p] EXCEPT !.mode = mode]
      BY <1>1 DEF Fields
    <3> QED BY <3>1, <3>2
  <2> QED BY <2>1, <2>2
<1> DEFINE s == [srv[p] EXCEPT !.mode = mode, !.listed = listed]
<1>4. SameService(srv[p], s)
  BY <1>1, <1>3 DEF SameService, Fields, Gone
<1>5. srv' = [srv EXCEPT ![p] = s]
  BY <1>3
<1> HIDE DEF s
<1> QED BY <1>1, <1>2, <1>4, <1>5, QuietServes

\* A migration is applied, found or refused.
LEMMA MigrateServes ==
  ASSUME ServeInv, OpenInv, NEW p \in Server, Migrate(p)
  PROVE  ServeInv'
<1>0. /\ ProcessOK(srv[p], db) /\ plan' = plan /\ cli' = cli
      /\ WellMigrated(db, plan.made) /\ DOMAIN srv = Server /\ DOMAIN srv[p] = Fields
      /\ StoreOK(db, plan)
  BY DEF OpenInv, Migrate, ServeInv, ServerOK
<1>1. PICK n \in Remaining(srv[p]) :
        /\ \A m \in Remaining(srv[p]) : n <= m
        /\ db' = IF Applicable(n, db) THEN Migrated(n, db) ELSE db
        /\ Set(p, IF Applicable(n, db) THEN [srv[p] EXCEPT !.listed = @ \cup {n}]
                  ELSE [srv[p] EXCEPT !.mode = "failed"])
  BY DEF Migrate
<1>2. srv[p].listed \subseteq db.applied /\ ~Gone(srv[p])
  BY <1>0 DEF Migrate, ProcessOK, Gone
<1>3. n \in Migration /\ n <= srv[p].ver
  BY <1>0 DEF Remaining, ProcessOK, Migration, Newest
<1>4. \A m \in 1 .. (n - 1) : m \in db.applied
  BY <1>0, <1>1, <1>2, <1>3 DEF Remaining, ProcessOK, Migration, Newest
<1>5. PICK k \in 0 .. Newest : db.applied = 1 .. k
  BY <1>0 DEF WellMigrated
<1>6. n \in db.applied \/ db.applied = 1 .. (n - 1)
  BY <1>3, <1>4, <1>5 DEF Migration, Newest
<1>7. StoreOK(db', plan) /\ Extends(db, db')
  <2>1. CASE db' = db
    BY <2>1, StoreStays
  <2>2. CASE n \notin db.applied /\ db' = Apply(n, db)
    <3>1. /\ db.applied = 1 .. (n - 1) /\ db.schema = SchemaOf(db.applied)
          /\ DOMAIN db = DOMAIN EmptyStore
      BY <1>0, <1>6, <2>2 DEF WellMigrated
    <3>2. StoreOK(Apply(n, db), plan) /\ db.applied # Migration
      BY <1>0, <1>3, <3>1, MigrationStoreKeeps
    <3> QED BY <2>2, <3>2 DEF Extends
  <2> QED BY <1>1, <2>1, <2>2 DEF Migrated
<1>8. PICK mode, listed : srv' = [srv EXCEPT ![p] = [srv[p] EXCEPT !.mode = mode, !.listed = listed]]
  <2>1. [srv[p] EXCEPT !.listed = @ \cup {n}]
          = [srv[p] EXCEPT !.mode = srv[p].mode, !.listed = srv[p].listed \cup {n}]
    BY <1>0 DEF Fields
  <2>2. [srv[p] EXCEPT !.mode = "failed"] = [srv[p] EXCEPT !.mode = "failed", !.listed = srv[p].listed]
    BY <1>0 DEF Fields
  <2> QED BY <1>1, <2>1, <2>2 DEF Set
<1> DEFINE s == [srv[p] EXCEPT !.mode = mode, !.listed = listed]
<1>9. SameService(srv[p], s)
  BY <1>0, <1>2 DEF SameService, Fields
<1>10. srv' = [srv EXCEPT ![p] = s]
  BY <1>8
<1> HIDE DEF s
<1> QED BY <1>0, <1>7, <1>9, <1>10, QuietServes

\* A process that serves does so with its environment, on a store with all
\* migrations.
LEMMA ServingHas ==
  ASSUME ServeInv, OpenInv, NEW p \in Server, NEW http, Serves(p, http)
  PROVE  /\ FollowsPlan /\ db.applied = Migration /\ DOMAIN db = DOMAIN EmptyStore
         /\ StoreOK(db, plan) /\ ServerOK(srv[p], db, plan) /\ HttpOK(srv[p], cli, plan)
         /\ DOMAIN srv[p] = Fields /\ DOMAIN srv = Server /\ srv[p].http = http /\ ~Gone(srv[p])
         /\ IF http THEN HttpStarts(plan.env) ELSE RuntimeStarts(plan.env)
<1>1. ProcessOK(srv[p], db) /\ srv[p].mode \in {"serving", "stopping"} /\ srv[p].http = http
  BY DEF OpenInv, Serves
<1>2. db.applied = Migration /\ ~Gone(srv[p])
  BY <1>1 DEF ProcessOK, Gone
<1>3. DOMAIN db = DOMAIN EmptyStore /\ DOMAIN srv = Server /\ FollowsPlan
  BY DEF OpenInv, WellMigrated, FollowsPlan
<1>4. StoreOK(db, plan) /\ ServerOK(srv[p], db, plan) /\ HttpOK(srv[p], cli, plan)
  BY DEF ServeInv
<1> QED BY <1>1, <1>2, <1>3, <1>4 DEF ServerOK

\* The effect of a handler on the store.
LEMMA HandlerServes ==
  ASSUME ServeInv, OpenInv, NEW p \in Server, NEW http, Serves(p, http), Effect(db, db', plan)
  PROVE  StoreOK(db', plan) /\ Extends(db, db')
<1>1. /\ db.applied = Migration /\ StoreOK(db, plan)
      /\ IF http THEN HttpStarts(plan.env) ELSE RuntimeStarts(plan.env)
  BY ServingHas
<1>2. RuntimeStarts(plan.env)
  BY <1>1 DEF HttpStarts
<1> DEFINE e == db'
<1>3. Effect(db, e, plan)
  OBVIOUS
<1> HIDE DEF e
<1>4. StoreOK(e, plan) /\ Extends(db, e)
  BY <1>1, <1>2, <1>3, EffectKeeps
<1> QED BY <1>4 DEF e

\* A chunk is read.
LEMMA ChunkServes ==
  ASSUME ServeInv, OpenInv, NEW p \in Server, Chunk(p)
  PROVE  ServeInv'
<1>1. /\ plan' = plan /\ cli' = cli /\ db' = db /\ Serves(p, FALSE)
      /\ Idle(srv[p]) /\ srv[p].input # << >>
  BY DEF Chunk
<1>2. StoreOK(db', plan) /\ Extends(db, db')
  BY <1>1, StoreStays
<1>3. ServerOK(srv[p], db, plan) /\ DOMAIN srv[p] = Fields /\ DOMAIN srv = Server /\ srv[p].http = FALSE
  BY <1>1, ServingHas
<1>4. PICK n : /\ n \in IF plan.cut THEN 1 .. Len(srv[p].input) ELSE {Len(srv[p].input)}
               /\ LET c == consumeChunk(srv[p].pending, srv[p].dropping, SubSeq(srv[p].input, 1, n))
                  IN  Set(p, [srv[p] EXCEPT
                        !.input = SubSeq(@, n + 1, Len(@)), !.frames = c.frames,
                        !.pending = c.pending, !.dropping = c.dropping])
  BY DEF Chunk
<1> DEFINE c == consumeChunk(srv[p].pending, srv[p].dropping, SubSeq(srv[p].input, 1, n))
           input == SubSeq(srv[p].input, n + 1, Len(srv[p].input))
           s == [srv[p] EXCEPT !.input = input, !.frames = c.frames,
                               !.pending = c.pending, !.dropping = c.dropping]
<1>5. srv' = [srv EXCEPT ![p] = s]
  BY <1>4 DEF Set
<1>6. ASSUME NEW lines, Whole(srv[p].pending, srv[p].dropping, srv[p].input, lines)
      PROVE  FramesIn(c.frames, lines) /\ Whole(c.pending, c.dropping, input, lines)
  <2> DEFINE pending == srv[p].pending
             dropping == srv[p].dropping
             old == srv[p].input
  <2>1. n \in 1 .. Len(old)
    <3>1. IsSequence(old)
      BY <1>6 DEF Whole
    <3>2. Len(old) \in Nat /\ Len(old) # 0
      BY <1>1, <3>1, SequenceShape
    <3> QED BY <1>4, <3>2
  <2> HIDE DEF pending, dropping, old
  <2>2. Whole(pending, dropping, old, lines)
    BY <1>6 DEF pending, dropping, old
  <2>3. LET w == consumeChunk(pending, dropping, SubSeq(old, 1, n))
        IN  /\ FramesIn(w.frames, lines)
            /\ Whole(w.pending, w.dropping, SubSeq(old, n + 1, Len(old)), lines)
    BY <2>1, <2>2, ChunkConsumed
  <2> QED BY <2>3 DEF pending, dropping, old
<1> HIDE DEF c, input
<1>7. /\ DOMAIN s = Fields /\ Gone(s) = Gone(srv[p]) /\ s.http = FALSE /\ s.client = srv[p].client
      /\ s.since = srv[p].since /\ s.eof = srv[p].eof /\ s.tasks = srv[p].tasks /\ s.out = srv[p].out
      /\ s.input = input /\ s.frames = c.frames /\ s.pending = c.pending /\ s.dropping = c.dropping
  BY <1>3 DEF Fields, Gone
<1> HIDE DEF s
<1>8. ServerOK(s, db', plan)
  BY <1>1, <1>3, <1>7 DEF ServerOK
<1>9. HttpOK(s, cli, plan)
  BY <1>7 DEF HttpOK
<1>10. ASSUME NEW k \in Client, Waits(cli[k]), cli[k].on = p PROVE ChildOK(s, cli[k], k, db', plan)
  <2>1. ChildOK(srv[p], cli[k], k, db, plan)
    BY <1>10 DEF ServeInv
  <2>2. /\ FramesIn(c.frames, LinesTo(cli[k].call))
        /\ Whole(c.pending, c.dropping, input, LinesTo(cli[k].call))
    BY <1>6, <2>1 DEF ChildOK
  <2> QED BY <1>1, <1>7, <2>1, <2>2 DEF ChildOK
<1> QED BY <1>1, <1>2, <1>3, <1>5, <1>8, <1>9, <1>10, ServerKeeps

\* Silence is right.
LEMMA SilentPage ==
  ASSUME NEW a, Silent(a), NEW since, NEW d, NEW pl
  PROVE  PageOK(a, since, d, pl) /\ a.row = {}
  BY DEF Silent, PageOK

\* A frame is handled.
LEMMA FrameActServes ==
  ASSUME ServeInv, OpenInv, NEW p \in Server, Frame(p)
  PROVE  ServeInv'
<1> DEFINE h == handleFrame(srv[p], Head(srv[p].frames))
           frames == Tail(srv[p].frames)
           tasks == srv[p].tasks \o h.tasks
           out == srv[p].out \o h.out
           s == [srv[p] EXCEPT !.frames = frames, !.tasks = tasks, !.out = out]
<1>1. plan' = plan /\ cli' = cli /\ db' = h.db /\ Serves(p, FALSE) /\ srv[p].frames # << >>
  BY DEF Frame, FrameHandled
<1>2. /\ FollowsPlan /\ db.applied = Migration /\ DOMAIN db = DOMAIN EmptyStore
      /\ StoreOK(db, plan) /\ ServerOK(srv[p], db, plan)
      /\ DOMAIN srv[p] = Fields /\ DOMAIN srv = Server /\ srv[p].http = FALSE /\ ~Gone(srv[p])
      /\ RuntimeStarts(plan.env)
  BY <1>1, ServingHas
<1>3. srv' = [srv EXCEPT ![p] = s]
  <2> DEFINE u == [srv[p] EXCEPT !.frames = frames]
  <2>1. srv' = [srv EXCEPT ![p] = [u EXCEPT !.tasks = u.tasks \o h.tasks, !.out = u.out \o h.out]]
    BY DEF Frame, FrameHandled, Set
  <2>2. u.tasks = srv[p].tasks /\ u.out = srv[p].out
    BY <1>2 DEF Fields
  <2> HIDE DEF h, frames
  <2> QED BY <2>1, <2>2
<1>4. /\ Effect(db, h.db, plan)
      /\ IsSequence(h.tasks) /\ \A t \in Items(h.tasks) : TaskOK(t, srv[p].since, h.db, plan)
      /\ IsSequence(h.out) /\ \A r \in Items(h.out) : Silent(r.answer)
      /\ \A name \in Strings :
           Head(srv[p].frames) \in LinesTo(name) \/ Len(Head(srv[p].frames)) > PipelineFrame =>
             \A t \in Items(h.tasks) : OfCall(t, name)
  <2> DEFINE old == srv[p]
             frame == Head(srv[p].frames)
  <2> HIDE DEF old, frame
  <2>1. LET w == handleFrame(old, frame)
        IN  /\ Effect(db, w.db, plan)
            /\ IsSequence(w.tasks) /\ \A t \in Items(w.tasks) : TaskOK(t, old.since, w.db, plan)
            /\ IsSequence(w.out) /\ \A r \in Items(w.out) : Silent(r.answer)
            /\ \A name \in Strings :
                 frame \in LinesTo(name) \/ Len(frame) > PipelineFrame =>
                   \A t \in Items(w.tasks) : OfCall(t, name)
    BY <1>2, FrameServes
  <2> QED BY <2>1 DEF old, frame
<1> HIDE DEF h
<1>5. StoreOK(db', plan) /\ Extends(db, db')
  <2>1. Effect(db, db', plan)
    BY <1>1, <1>4
  <2> QED BY <1>1, <2>1, HandlerServes
<1>6. ServerOK(srv[p], db', plan)
  BY <1>2, <1>5, StoreGrows
<1>7. /\ IsSequence(tasks) /\ Items(tasks) = Items(srv[p].tasks) \cup Items(h.tasks)
      /\ IsSequence(out) /\ Items(out) = Items(srv[p].out) \cup Items(h.out)
  <2>1. IsSequence(srv[p].tasks) /\ IsSequence(srv[p].out) /\ IsSequence(h.tasks) /\ IsSequence(h.out)
    BY <1>4, <1>6 DEF ServerOK
  <2>2. IsSequence(tasks) /\ Items(tasks) = Items(srv[p].tasks) \cup Items(h.tasks)
    BY <2>1, JoinedSequence
  <2>3. IsSequence(out) /\ Items(out) = Items(srv[p].out) \cup Items(h.out)
    BY <2>1, JoinedSequence
  <2> QED BY <2>2, <2>3
<1> HIDE DEF tasks, out, frames
<1>8. /\ DOMAIN s = Fields /\ ~Gone(s) /\ s.http = FALSE /\ s.client = srv[p].client
      /\ s.since = srv[p].since /\ s.eof = srv[p].eof /\ s.tasks = tasks /\ s.out = out
      /\ s.input = srv[p].input /\ s.frames = frames
      /\ s.pending = srv[p].pending /\ s.dropping = srv[p].dropping
  BY <1>2 DEF Fields, Gone
<1> HIDE DEF s
<1>9. \A t \in Items(tasks) : TaskOK(t, s.since, db', plan)
  BY <1>1, <1>4, <1>6, <1>7, <1>8 DEF ServerOK
<1>10. \A r \in Items(out) : PageOK(r.answer, s.since, db', plan)
  BY <1>4, <1>6, <1>7, <1>8, SilentPage DEF ServerOK
<1>11. ServerOK(s, db', plan)
  BY <1>2, <1>6, <1>7, <1>8, <1>9, <1>10 DEF ServerOK
<1>12. HttpOK(s, cli, plan)
  BY <1>8 DEF HttpOK
<1>13. ASSUME NEW k \in Client, Waits(cli[k]), cli[k].on = p PROVE ChildOK(s, cli[k], k, db', plan)
  <2>1. ChildOK(srv[p], cli[k], k, db, plan)
    BY <1>13 DEF ServeInv
  <2>2. ChildOK(srv[p], cli[k], k, db', plan)
    BY <1>2, <1>5, <2>1, StoreGrows
  <2>3. FramesIn(srv[p].frames, LinesTo(cli[k].call)) /\ cli[k].call \in Strings
    BY <2>1 DEF ChildOK
  <2>4. Head(srv[p].frames) \in LinesTo(cli[k].call) \/ Len(Head(srv[p].frames)) > PipelineFrame
    <3>1. Head(srv[p].frames) \in Items(srv[p].frames)
      BY <1>1, <2>3, SequenceShape DEF FramesIn
    <3> QED BY <2>3, <3>1 DEF FramesIn
  <2>5. \A t \in Items(h.tasks) : OfCall(t, cli[k].call)
    BY <1>4, <2>3, <2>4
  <2>6. FramesIn(frames, LinesTo(cli[k].call))
    <3>1. IsSequence(frames) /\ Items(frames) \subseteq Items(srv[p].frames)
      BY <1>1, <2>3, TailSequence DEF FramesIn, frames
    <3> QED BY <2>3, <3>1 DEF FramesIn
  <2>7. \A t \in Items(tasks) : OfCall(t, cli[k].call)
    BY <1>7, <2>2, <2>5 DEF ChildOK, OfCall
  <2>8. \A r \in Items(out) : r.id = "2" => RowOK(r.answer.row, plan.requests[cli[k].call], db', plan)
    <3>1. ASSUME NEW r \in Items(h.out) PROVE RowOK(r.answer.row, plan.requests[cli[k].call], db', plan)
      BY <1>4, SilentPage DEF RowOK
    <3> QED BY <1>7, <2>2, <3>1 DEF ChildOK
  <2> QED BY <1>8, <2>2, <2>6, <2>7, <2>8 DEF ChildOK, OfCall
<1> QED BY <1>1, <1>2, <1>3, <1>5, <1>11, <1>12, <1>13, ServerKeeps

\* A task goes on after its await.
LEMMA SettleServes ==
  ASSUME ServeInv, OpenInv, NEW p \in Server, Settle(p)
  PROVE  ServeInv'
<1> DEFINE t == Head(srv[p].tasks)
           w == Finished(t, srv[p].since)
           tasks == Tail(srv[p].tasks)
           r == Reply(t.id, w.answer)
           out == Append(srv[p].out, r)
           s == [srv[p] EXCEPT !.tasks = tasks, !.out = out]
<1>1. plan' = plan /\ cli' = cli /\ db' = w.db /\ Serves(p, FALSE) /\ srv[p].tasks # << >>
  BY DEF Settle
<1>2. /\ db.applied = Migration /\ DOMAIN db = DOMAIN EmptyStore
      /\ StoreOK(db, plan) /\ ServerOK(srv[p], db, plan)
      /\ DOMAIN srv[p] = Fields /\ DOMAIN srv = Server /\ srv[p].http = FALSE /\ ~Gone(srv[p])
      /\ RuntimeStarts(plan.env)
  BY <1>1, ServingHas
<1>3. srv' = [srv EXCEPT ![p] = s]
  BY DEF Settle, Set
<1>4. /\ IsSequence(srv[p].tasks) /\ t \in Items(srv[p].tasks) /\ IsSequence(srv[p].out)
      /\ TaskOK(t, srv[p].since, db, plan) /\ SinceOK(srv[p].since, db)
  BY <1>1, <1>2, SequenceShape DEF ServerOK
<1>5. Effect(db, w.db, plan) /\ AnswerOK(w.answer, t.req, srv[p].since, w.db, plan)
  <2> DEFINE since == srv[p].since
  <2> HIDE DEF t, since
  <2>1. LET v == Finished(t, since)
        IN  Effect(db, v.db, plan) /\ AnswerOK(v.answer, t.req, since, v.db, plan)
    BY <1>2, <1>4, FinishServes DEF since
  <2> QED BY <2>1 DEF since
<1>6. /\ IsSequence(tasks) /\ Items(tasks) \subseteq Items(srv[p].tasks)
      /\ IsSequence(out) /\ Items(out) \subseteq Items(srv[p].out) \cup {r}
      /\ r.id = t.id /\ r.answer = w.answer
  <2>1. r.id = t.id /\ r.answer = w.answer
    BY DEF Reply
  <2> HIDE DEF r
  <2>2. IsSequence(tasks) /\ Items(tasks) \subseteq Items(srv[p].tasks)
    BY <1>1, <1>4, TailSequence
  <2>3. IsSequence(out) /\ Items(out) \subseteq Items(srv[p].out) \cup {r}
    BY <1>4, AppendedSequence
  <2> QED BY <2>1, <2>2, <2>3
<1>7. t.answer # Later => w.answer = t.answer
  BY DEF Finished
<1> HIDE DEF w, tasks, out, r
<1>8. StoreOK(db', plan) /\ Extends(db, db')
  <2>1. Effect(db, db', plan)
    BY <1>1, <1>5
  <2> QED BY <1>1, <2>1, HandlerServes
<1>9. ServerOK(srv[p], db', plan)
  BY <1>2, <1>8, StoreGrows
<1>10. /\ DOMAIN s = Fields /\ ~Gone(s) /\ s.http = FALSE /\ s.client = srv[p].client
       /\ s.since = srv[p].since /\ s.eof = srv[p].eof /\ s.tasks = tasks /\ s.out = out
       /\ s.input = srv[p].input /\ s.frames = srv[p].frames
       /\ s.pending = srv[p].pending /\ s.dropping = srv[p].dropping
  BY <1>2 DEF Fields, Gone
<1> HIDE DEF s, t
<1>11. PageOK(r.answer, srv[p].since, db', plan) /\ RowOK(w.answer.row, t.req, db', plan)
  BY <1>1, <1>5, <1>6 DEF AnswerOK
<1>12. \A x \in Items(tasks) : TaskOK(x, s.since, db', plan)
  BY <1>6, <1>9, <1>10 DEF ServerOK
<1>13. \A x \in Items(out) : PageOK(x.answer, s.since, db', plan)
  BY <1>6, <1>9, <1>10, <1>11 DEF ServerOK
<1>14. ServerOK(s, db', plan)
  BY <1>2, <1>6, <1>9, <1>10, <1>12, <1>13 DEF ServerOK
<1>15. HttpOK(s, cli, plan)
  BY <1>10 DEF HttpOK
<1>16. ASSUME NEW k \in Client, Waits(cli[k]), cli[k].on = p PROVE ChildOK(s, cli[k], k, db', plan)
  <2>1. ChildOK(srv[p], cli[k], k, db, plan)
    BY <1>16 DEF ServeInv
  <2>2. ChildOK(srv[p], cli[k], k, db', plan)
    BY <1>2, <1>8, <2>1, StoreGrows
  <2>3. r.id = "2" => RowOK(r.answer.row, plan.requests[cli[k].call], db', plan)
    <3>1. t.id = "2" => t.req = plan.requests[cli[k].call] \/ (t.answer # Later /\ t.answer.row = {})
      BY <1>4, <2>1 DEF ChildOK
    <3>2. CASE t.req = plan.requests[cli[k].call]
      BY <1>6, <1>11, <3>2
    <3>3. CASE t.answer # Later /\ t.answer.row = {}
      BY <1>6, <1>7, <3>3 DEF RowOK
    <3> QED BY <1>6, <3>1, <3>2, <3>3
  <2>4. \A x \in Items(out) : x.id = "2" => RowOK(x.answer.row, plan.requests[cli[k].call], db', plan)
    BY <1>6, <2>2, <2>3 DEF ChildOK
  <2>5. \A x \in Items(tasks) :
          x.id = "2" => x.req = plan.requests[cli[k].call] \/ (x.answer # Later /\ x.answer.row = {})
    BY <1>6, <2>2 DEF ChildOK
  <2> QED BY <1>10, <2>2, <2>4, <2>5 DEF ChildOK
<1> QED BY <1>1, <1>2, <1>3, <1>8, <1>14, <1>15, <1>16, ServerKeeps

\* The input ends; no client waits for that process.
LEMMA EndServes ==
  ASSUME ServeInv, OpenInv, NEW p \in Server, EndOfInput(p)
  PROVE  ServeInv'
<1> DEFINE end == [srv[p] EXCEPT !.mode = "closed", !.pending = << >>]
           h == handleFrame(srv[p], srv[p].pending)
<1>1. plan' = plan /\ cli' = cli /\ Serves(p, FALSE) /\ srv[p].eof
  BY DEF EndOfInput
<1>2. /\ FollowsPlan /\ db.applied = Migration /\ DOMAIN db = DOMAIN EmptyStore
      /\ StoreOK(db, plan) /\ ServerOK(srv[p], db, plan)
      /\ DOMAIN srv[p] = Fields /\ DOMAIN srv = Server /\ srv[p].http = FALSE
      /\ RuntimeStarts(plan.env)
  BY <1>1, ServingHas
<1>3. \A k \in Client : ~(Waits(cli[k]) /\ cli[k].on = p)
  BY <1>1 DEF ServeInv, ChildOK
<1>4. /\ DOMAIN end = Fields /\ end.mode = "closed" /\ end.http = FALSE
      /\ end.since = srv[p].since /\ end.tasks = srv[p].tasks /\ end.out = srv[p].out
  BY <1>2 DEF Fields
<1>5. CASE Set(p, end) /\ UNCHANGED db
  <2> HIDE DEF end
  <2>1. StoreOK(db', plan) /\ Extends(db, db')
    BY <1>5, StoreStays
  <2>2. ServerOK(end, db', plan) /\ HttpOK(end, cli, plan)
    BY <1>2, <1>4, <1>5 DEF ServerOK, HttpOK, Gone
  <2> QED BY <1>1, <1>2, <1>3, <1>5, <2>1, <2>2, ServerKeeps DEF Set
<1>6. CASE FrameHandled(p, end, [handleFrame(srv[p], srv[p].pending) EXCEPT !.tasks = << >>])
  <2> DEFINE g == [h EXCEPT !.tasks = << >>]
             tasks == srv[p].tasks \o << >>
             out == srv[p].out \o h.out
             s == [end EXCEPT !.tasks = tasks, !.out = out]
  <2>1. /\ DOMAIN h = {"db", "out", "tasks"} /\ Effect(db, h.db, plan)
        /\ IsSequence(h.out) /\ \A r \in Items(h.out) : Silent(r.answer)
    <3> DEFINE old == srv[p]
               frame == srv[p].pending
    <3> HIDE DEF old, frame
    <3>1. LET w == handleFrame(old, frame)
          IN  /\ DOMAIN w = {"db", "out", "tasks"} /\ Effect(db, w.db, plan)
              /\ IsSequence(w.out) /\ \A r \in Items(w.out) : Silent(r.answer)
      BY <1>2, FrameServes
    <3> QED BY <3>1 DEF old, frame
  <2>2. FrameHandled(p, end, g)
    BY <1>6
  <2> HIDE DEF h, end
  <2>3. g.db = h.db /\ g.out = h.out /\ g.tasks = << >>
    BY <2>1
  <2> HIDE DEF g
  <2>4. db' = h.db /\ srv' = [srv EXCEPT ![p] = s]
    BY <1>4, <2>2, <2>3 DEF FrameHandled, Set
  <2>5. StoreOK(db', plan) /\ Extends(db, db')
    <3>1. Effect(db, db', plan)
      BY <2>1, <2>4
    <3> QED BY <1>1, <3>1, HandlerServes
  <2>6. ServerOK(srv[p], db', plan)
    BY <1>2, <2>5, StoreGrows
  <2>7. /\ IsSequence(tasks) /\ Items(tasks) = Items(srv[p].tasks) \cup {}
        /\ IsSequence(out) /\ Items(out) = Items(srv[p].out) \cup Items(h.out)
    <3>1. IsSequence(srv[p].tasks) /\ IsSequence(srv[p].out) /\ IsSequence(h.out)
      BY <2>1, <2>6 DEF ServerOK
    <3> DEFINE e == << >>
    <3>2. IsSequence(e) /\ Items(e) = {}
      BY EmptySequence
    <3> HIDE DEF e
    <3>3. IsSequence(srv[p].tasks \o e) /\ Items(srv[p].tasks \o e) = Items(srv[p].tasks) \cup Items(e)
      BY <3>1, <3>2, JoinedSequence
    <3>4. IsSequence(out) /\ Items(out) = Items(srv[p].out) \cup Items(h.out)
      BY <3>1, JoinedSequence
    <3> QED BY <3>2, <3>3, <3>4 DEF e
  <2> HIDE DEF tasks, out
  <2>8. /\ DOMAIN s = Fields /\ s.mode = "closed" /\ s.http = FALSE
        /\ s.since = srv[p].since /\ s.tasks = tasks /\ s.out = out
    BY <1>4 DEF Fields
  <2> HIDE DEF s
  <2>9. \A t \in Items(tasks) : TaskOK(t, s.since, db', plan)
    BY <2>6, <2>7, <2>8 DEF ServerOK
  <2>10. \A r \in Items(out) : PageOK(r.answer, s.since, db', plan)
    BY <2>1, <2>6, <2>7, <2>8, SilentPage DEF ServerOK
  <2>11. ServerOK(s, db', plan) /\ HttpOK(s, cli, plan)
    BY <2>6, <2>7, <2>8, <2>9, <2>10 DEF ServerOK, HttpOK, Gone
  <2> QED BY <1>1, <1>2, <1>3, <2>4, <2>5, <2>11, ServerKeeps
<1> QED BY <1>5, <1>6 DEF EndOfInput

\* A request comes over HTTP.
LEMMA HttpRequestServes ==
  ASSUME ServeInv, OpenInv, NEW p \in Server, NEW c \in Client, HttpRequest(p, c)
  PROVE  ServeInv'
<1> DEFINE k == cli[c]
           req == k.call
           caller == HttpCallerOf(req, plan.env)
           w == Dispatch(db, req, caller, k.since)
           id == Attempt(c)
           t == Task(id, req, caller, w)
           tasks == <<t>>
           since == k.since
           s == [srv[p] EXCEPT !.tasks = tasks, !.since = since]
           l == [k EXCEPT !.at = "read"]
<1>1. /\ plan' = plan /\ db' = w.db /\ Serves(p, TRUE) /\ k.at = "sent"
      /\ srv' = [srv EXCEPT ![p] = s] /\ cli' = [cli EXCEPT ![c] = l]
  BY DEF HttpRequest, RequestHandled, Set
<1>2. /\ FollowsPlan /\ db.applied = Migration /\ DOMAIN db = DOMAIN EmptyStore
      /\ StoreOK(db, plan) /\ ServerOK(srv[p], db, plan)
      /\ DOMAIN srv[p] = Fields /\ DOMAIN srv = Server /\ srv[p].http = TRUE /\ ~Gone(srv[p])
      /\ HttpStarts(plan.env)
  BY <1>1, ServingHas
<1>3. ClientOK(k, db, plan) /\ DOMAIN cli = Client
  BY DEF ServeInv
<1>4. plan.http /\ Asked(req, plan) /\ SinceOK(since, db) /\ DOMAIN k = ClientFields
      /\ k.step \in Nat \ {0} /\ k.tries \in Nat
  BY <1>1, <1>3 DEF ClientOK
<1>5. Legitimate(plan, req, caller) /\ NamesScope(req, caller)
  <2>1. {"tool", "scope", "msp"} \subseteq DOMAIN req
    BY <1>4 DEF Asked
  <2>2. /\ Legitimate(plan, req, caller)
        /\ caller # Denied /\ req.tool \in WriteTools => ValidScope(normalizedMspScope(req, plan.env))
    <3> HIDE DEF k, req
    <3> QED BY <1>2, <2>1, HttpLegitimate
  <2>3. req.tool \in {"gks_review_apply", "gks_artifact_link"} =>
          req.tool \in WriteTools /\ normalizedMspScope(req, plan.env) = req.scope
    BY DEF WriteTools, normalizedMspScope
  <2> HIDE DEF k, req, caller
  <2> QED BY <2>2, <2>3 DEF NamesScope
<1>6. Effect(db, w.db, plan) /\ TaskOK(t, since, w.db, plan)
  <2> HIDE DEF k, caller, id
  <2>1. Asks(req, plan.pulled)
    BY <1>4 DEF Asked
  <2> HIDE DEF req
  <2> QED BY <1>2, <1>5, <2>1, DispatchServes
<1>7. t.id = <<c, k.step, k.tries>> /\ t.req = req
  BY DEF Task, Attempt
<1>8. DOMAIN l = ClientFields /\ l.at = "read" /\ l.step = k.step /\ l.tries = k.tries
      /\ l.since = k.since /\ l.got = k.got /\ l.kept = k.kept /\ l.call = k.call
  BY <1>4 DEF ClientFields
<1> HIDE DEF k, l, w, t, caller, id
<1>9. StoreOK(db', plan) /\ Extends(db, db')
  <2>1. Effect(db, db', plan)
    BY <1>1, <1>6
  <2> QED BY <1>1, <2>1, HandlerServes
<1>10. ServerOK(srv[p], db', plan) /\ ClientOK(k, db', plan)
  BY <1>2, <1>3, <1>9, StoreGrows
<1>11. IsSequence(tasks) /\ Items(tasks) = {t} /\ Len(tasks) = 1 /\ tasks[1] = t
  <2>1. IsSequence(tasks) /\ Items(tasks) = {t}
    BY SingleSequence
  <2>2. Len(tasks) = 1 /\ tasks[1] = t
    OBVIOUS
  <2> QED BY <2>1, <2>2
<1> HIDE DEF tasks, since
<1>12. /\ DOMAIN s = Fields /\ ~Gone(s) /\ s.http = TRUE /\ s.since = since
       /\ s.tasks = tasks /\ s.out = srv[p].out
  BY <1>2 DEF Fields, Gone
<1>13. s.out = << >>
  BY <1>2, <1>12 DEF ServerOK
<1> HIDE DEF s, req
<1>14. ServerOK(s, db', plan)
  <2>1. SinceOK(since, db')
    BY <1>10 DEF ClientOK, since
  <2>2. TaskOK(t, s.since, db', plan)
    BY <1>1, <1>6, <1>12
  <2>3. \A x \in Items(s.tasks) : TaskOK(x, s.since, db', plan)
    BY <1>11, <1>12, <2>2
  <2>4. IsSequence(s.out) /\ Items(s.out) = {}
    BY <1>13, EmptySequence
  <2> QED BY <1>2, <1>11, <1>12, <1>13, <2>1, <2>3, <2>4 DEF ServerOK
<1>15. ClientOK(l, db', plan)
  BY <1>4, <1>8, <1>10 DEF ClientOK, req
<1>16. \A d \in Client : cli'[d] = IF d = c THEN l ELSE cli[d]
  BY <1>1, <1>3
<1>17. HttpOK(s, cli', plan)
  <2>1. t.id \in Client \X Nat \X Nat /\ t.id[1] = c /\ t.id[2] = k.step /\ t.id[3] = k.tries
    BY <1>4, <1>7
  <2>2. cli'[c] = l
    BY <1>16
  <2>3. AttemptOK(t, s.since, l)
    BY <1>7, <1>8, <1>12, <2>1 DEF AttemptOK, since, req
  <2> QED BY <1>4, <1>11, <1>12, <2>1, <2>2, <2>3 DEF HttpOK
<1>18. \A q \in Server : srv'[q] = IF q = p THEN s ELSE srv[q]
  BY <1>1, <1>2
<1>19. ASSUME NEW d \in Client PROVE Onward(cli[d], cli'[d])
  <2>1. Onward(k, l)
    BY <1>1, <1>8 DEF Onward, AttemptOK
  <2> QED BY <1>16, <2>1 DEF Onward, k
<1>20. ASSUME NEW d \in Client, Waits(cli'[d])
       PROVE  cli'[d] = cli[d] /\ srv'[cli[d].on] = srv[cli[d].on]
  <2>1. ~Waits(l)
    BY <1>8 DEF Waits
  <2>2. d # c /\ cli'[d] = cli[d]
    BY <1>16, <1>20, <2>1
  <2>3. cli[d].on \in Server /\ srv[cli[d].on].http = FALSE
    BY <1>20, <2>2 DEF ServeInv, ChildOK
  <2>4. cli[d].on # p
    BY <1>2, <2>3
  <2> QED BY <1>18, <2>2, <2>3, <2>4
<1>21. DOMAIN cli' = Client
  BY <1>1, <1>3
<1>22. \A q \in Server : \/ srv'[q] = srv[q]
                         \/ ServerOK(srv'[q], db', plan) /\ HttpOK(srv'[q], cli', plan)
  BY <1>14, <1>17, <1>18
<1>23. \A d \in Client : cli'[d] = cli[d] \/ ClientOK(cli'[d], db', plan)
  BY <1>15, <1>16
<1>24. plan' = plan
  BY <1>1
<1> QED BY <1>9, <1>19, <1>20, <1>21, <1>22, <1>23, <1>24, ServeKeeps

\* What a client has after an answer that is right for it is right.
LEMMA HeardIsRight ==
  ASSUME NEW c, NEW a, NEW d, WellKept(d), ClientOK(cli[c], d, plan),
         PageOK(a, cli[c].since, d, plan), RowOK(a.row, RequestIn(cli[c].call, plan), d, plan)
  PROVE  LET h == Heard(c, a)
         IN  /\ ClientOK(h, d, plan) /\ DOMAIN h = ClientFields
             /\ h.step = cli[c].step /\ h.tries = cli[c].tries
<1> DEFINE k == cli[c]
           since == IF a.code = "ok" /\ a.next # 0 THEN a.next ELSE k.since
           got == k.got \cup a.rows
           kept == k.kept \cup {<<k.call, row>> : row \in a.row}
           h == [k EXCEPT !.since = since, !.got = got, !.kept = kept]
<1> SUFFICES ClientOK(h, d, plan) /\ DOMAIN h = ClientFields
             /\ h.step = k.step /\ h.tries = k.tries
  BY DEF Heard
<1>1. DOMAIN k = ClientFields /\ SinceOK(k.since, d) /\ k.got = Seen(d, plan, 0, k.since)
  BY DEF ClientOK
<1>2. d.cursor \in Nat /\ \A x \in d.evidence : x.cursor \in 1 .. d.cursor
  BY EvidenceFinite DEF WellKept
<1>3. k.since \in 0 .. d.cursor
  BY <1>1, <1>2 DEF SinceOK
<1>4. SinceOK(since, d) /\ got = Seen(d, plan, 0, since)
  <2>1. CASE a.rows = {} /\ a.next = 0
    BY <1>1, <2>1
  <2>2. CASE /\ d.applied = Migration /\ a.code = "ok" /\ a.next \in 0 .. d.cursor /\ k.since <= a.next
             /\ a.rows = Seen(d, plan, k.since, a.next)
    <3>1. CASE a.next = 0
      <4>1. k.since = 0 /\ since = 0
        BY <1>3, <2>2, <3>1
      <4>2. a.rows = k.got
        BY <1>1, <2>2, <3>1, <4>1
      <4> QED BY <1>1, <4>1, <4>2
    <3>2. CASE a.next # 0
      <4>1. since = a.next
        BY <2>2, <3>2
      <4>2. SinceOK(a.next, d)
        BY <1>2, <2>2, <3>2 DEF SinceOK
      <4>3. \A x \in d.evidence : 0 < x.cursor /\ x.cursor <= a.next <=>
                   \/ 0 < x.cursor /\ x.cursor <= k.since
                   \/ k.since < x.cursor /\ x.cursor <= a.next
        BY <1>2, <1>3, <2>2
      <4>4. Seen(d, plan, 0, a.next) = Seen(d, plan, 0, k.since) \cup Seen(d, plan, k.since, a.next)
        BY <4>3 DEF Seen
      <4> QED BY <1>1, <2>2, <4>1, <4>2, <4>4
    <3> QED BY <3>1, <3>2
  <2> QED BY <2>1, <2>2 DEF PageOK
<1>5. \A x \in kept : RowOK({x[2]}, RequestIn(x[1], plan), d, plan)
  <2>1. \A row \in a.row : RowOK({row}, RequestIn(k.call, plan), d, plan)
    BY DEF RowOK
  <2>2. \A x \in k.kept : RowOK({x[2]}, RequestIn(x[1], plan), d, plan)
    BY DEF ClientOK
  <2>3. ASSUME NEW x \in {<<k.call, row>> : row \in a.row}
        PROVE  RowOK({x[2]}, RequestIn(x[1], plan), d, plan)
    <3>1. PICK row \in a.row : x = <<k.call, row>>
      OBVIOUS
    <3>2. x[1] = k.call /\ x[2] = row
      BY <3>1
    <3> HIDE DEF k
    <3> QED BY <2>1, <3>2
  <2> HIDE DEF k
  <2> QED BY <2>2, <2>3
<1> HIDE DEF since, got, kept
<1>6. /\ DOMAIN h = ClientFields /\ h.step = k.step /\ h.tries = k.tries /\ h.at = k.at
      /\ h.call = k.call /\ h.since = since /\ h.got = got /\ h.kept = kept
  BY <1>1 DEF ClientFields
<1> HIDE DEF h
<1>7. ClientOK(h, d, plan)
  BY <1>4, <1>5, <1>6 DEF ClientOK
<1> QED BY <1>6, <1>7

\* A later call, and a later try, are past an earlier one.
LEMMA LaterGoesOn ==
  ASSUME NEW k, NEW n, k.step \in Nat, k.tries \in Nat, n.step \in Nat, n.tries \in Nat,
         k.step < n.step \/ (n.step = k.step /\ k.tries < n.tries)
  PROVE  Onward(k, n)
<1>1. ASSUME NEW t, NEW since, t.id \in Client \X Nat \X Nat, AttemptOK(t, since, k)
      PROVE  AttemptOK(t, since, n)
  <2>1. t.id[2] \in Nat /\ t.id[3] \in Nat
    BY <1>1
  <2>2. t.id[2] < k.step \/ (t.id[2] = k.step /\ t.id[3] <= k.tries)
    BY <1>1, <2>1 DEF AttemptOK
  <2>3. t.id[2] < n.step \/ (t.id[2] = n.step /\ t.id[3] < n.tries)
    BY <2>1, <2>2
  <2> QED BY <2>3 DEF AttemptOK
<1> QED BY <1>1 DEF Onward

\* The next call of a client starts with what it has.
LEMMA NextCallIsRight ==
  ASSUME NEW k, NEW d, ClientOK(k, d, plan)
  PROVE  LET n == NextCall(k)
         IN  ClientOK(n, d, plan) /\ ~Waits(n) /\ n.step = k.step + 1 /\ n.tries = 1
<1> DEFINE n == NextCall(k)
<1>1. DOMAIN k = ClientFields /\ k.step \in Nat \ {0} /\ k.tries \in Nat
  BY DEF ClientOK
<1>2. /\ DOMAIN n = ClientFields /\ n.at = "idle" /\ n.step = k.step + 1 /\ n.tries = 1
      /\ n.since = k.since /\ n.got = k.got /\ n.kept = k.kept
  BY <1>1 DEF NextCall, ClientFields
<1> HIDE DEF n
<1>3. n.step \in Nat \ {0} /\ n.tries \in Nat
  BY <1>1, <1>2
<1>4. ClientOK(n, d, plan) /\ ~Waits(n)
  BY <1>2, <1>3 DEF ClientOK, Waits
<1> QED BY <1>2, <1>4 DEF n

\* It is answered, to whom still waits for that attempt.
LEMMA HttpSettleServes ==
  ASSUME ServeInv, OpenInv, NEW p \in Server, HttpSettle(p)
  PROVE  ServeInv'
<1> DEFINE t == Head(srv[p].tasks)
           c == t.id[1]
           since == srv[p].since
           w == Finished(t, since)
           tasks == << >>
           s == [srv[p] EXCEPT !.tasks = tasks]
           h == Heard(c, w.answer)
           n == NextCall(h)
           mine == cli[c].at = "read" /\ Attempt(c) = t.id
<1>1. /\ plan' = plan /\ db' = w.db /\ Serves(p, TRUE) /\ srv[p].tasks # << >>
      /\ srv' = [srv EXCEPT ![p] = s]
      /\ cli' = IF mine THEN [cli EXCEPT ![c] = n] ELSE cli
  BY DEF HttpSettle, Set
<1>2. /\ db.applied = Migration /\ DOMAIN db = DOMAIN EmptyStore
      /\ StoreOK(db, plan) /\ ServerOK(srv[p], db, plan) /\ HttpOK(srv[p], cli, plan)
      /\ DOMAIN srv[p] = Fields /\ DOMAIN srv = Server /\ srv[p].http = TRUE /\ ~Gone(srv[p])
  BY <1>1, ServingHas
<1>3. /\ t \in Items(srv[p].tasks) /\ TaskOK(t, since, db, plan) /\ SinceOK(since, db)
      /\ t = srv[p].tasks[1]
  BY <1>1, <1>2, SequenceShape DEF ServerOK
<1>4. /\ plan.http /\ t.id \in Client \X Nat \X Nat /\ AttemptOK(t, since, cli[c])
  BY <1>1, <1>2, <1>3 DEF HttpOK
<1>5. c \in Client /\ ClientOK(cli[c], db, plan) /\ DOMAIN cli = Client
  BY <1>4 DEF ServeInv
<1>6. Effect(db, w.db, plan) /\ AnswerOK(w.answer, t.req, since, w.db, plan)
  <2> HIDE DEF t, since
  <2>1. LET v == Finished(t, since)
        IN  Effect(db, v.db, plan) /\ AnswerOK(v.answer, t.req, since, v.db, plan)
    BY <1>2, <1>3, FinishServes
  <2> QED BY <2>1
<1> HIDE DEF w, t, since
<1>7. StoreOK(db', plan) /\ Extends(db, db')
  <2>1. Effect(db, db', plan)
    BY <1>1, <1>6
  <2> QED BY <1>1, <2>1, HandlerServes
<1>8. ServerOK(srv[p], db', plan) /\ ClientOK(cli[c], db', plan)
  BY <1>2, <1>5, <1>7, StoreGrows
<1>9. IsSequence(tasks) /\ Items(tasks) = {}
  BY EmptySequence
<1> HIDE DEF c
<1>10. mine => /\ ClientOK(n, db', plan) /\ ~Waits(n) /\ Onward(cli[c], n)
  <2> SUFFICES ASSUME mine PROVE ClientOK(n, db', plan) /\ ~Waits(n) /\ Onward(cli[c], n)
    OBVIOUS
  <2>1. t.id[2] = cli[c].step /\ t.id[3] = cli[c].tries
    <3>1. <<c, cli[c].step, cli[c].tries>> = t.id
      BY DEF Attempt
    <3> QED BY <3>1
  <2>2. cli[c].step \in Nat /\ cli[c].tries \in Nat
    BY <1>5 DEF ClientOK
  <2>3. since = cli[c].since /\ t.req = cli[c].call
    BY <1>4, <2>1, <2>2 DEF AttemptOK
  <2> DEFINE a == w.answer
             d == db'
  <2>4. PageOK(a, cli[c].since, d, plan) /\ RowOK(a.row, RequestIn(cli[c].call, plan), d, plan)
    BY <1>1, <1>4, <1>6, <2>3 DEF AnswerOK, RequestIn
  <2>5. WellKept(d) /\ ClientOK(cli[c], d, plan)
    BY <1>7, <1>8 DEF StoreOK
  <2> HIDE DEF a, d
  <2>6. ClientOK(h, d, plan) /\ h.step = cli[c].step
    <3>1. LET g == Heard(c, a)
          IN  ClientOK(g, d, plan) /\ g.step = cli[c].step
      BY <2>4, <2>5, HeardIsRight
    <3> QED BY <3>1 DEF a
  <2> HIDE DEF h
  <2>7. ClientOK(n, d, plan) /\ ~Waits(n) /\ n.step = h.step + 1 /\ n.tries = 1
    BY <2>6, NextCallIsRight
  <2> HIDE DEF n
  <2>8. n.step \in Nat /\ cli[c].step < n.step /\ n.tries \in Nat
    BY <2>2, <2>6, <2>7
  <2>9. Onward(cli[c], n)
    BY <2>2, <2>8, LaterGoesOn
  <2> QED BY <2>7, <2>9 DEF d
<1> HIDE DEF tasks, n, mine
<1>11. /\ DOMAIN s = Fields /\ ~Gone(s) /\ s.http = TRUE /\ s.since = srv[p].since
       /\ s.tasks = tasks /\ s.out = srv[p].out
  BY <1>2 DEF Fields, Gone
<1> HIDE DEF s
<1>12. ServerOK(s, db', plan)
  BY <1>2, <1>8, <1>9, <1>11 DEF ServerOK
<1>13. HttpOK(s, cli', plan)
  BY <1>11 DEF HttpOK, tasks
<1>14. \A d \in Client : cli'[d] = IF mine /\ d = c THEN n ELSE cli[d]
  BY <1>1, <1>5
<1>15. \A q \in Server : srv'[q] = IF q = p THEN s ELSE srv[q]
  BY <1>1, <1>2
<1>16. ASSUME NEW d \in Client PROVE Onward(cli[d], cli'[d])
  <2>1. CASE mine /\ d = c
    BY <1>10, <1>14, <2>1
  <2>2. CASE ~(mine /\ d = c)
    BY <1>14, <2>2 DEF Onward
  <2> QED BY <2>1, <2>2
<1>17. ASSUME NEW d \in Client, Waits(cli'[d])
       PROVE  cli'[d] = cli[d] /\ srv'[cli[d].on] = srv[cli[d].on]
  <2>1. cli'[d] = cli[d]
    BY <1>10, <1>14, <1>17
  <2>2. cli[d].on \in Server /\ srv[cli[d].on].http = FALSE
    BY <1>17, <2>1 DEF ServeInv, ChildOK
  <2>3. cli[d].on # p
    BY <1>2, <2>2
  <2> QED BY <1>15, <2>1, <2>2, <2>3
<1>18. DOMAIN cli' = Client
  BY <1>1, <1>5
<1>19. \A q \in Server : \/ srv'[q] = srv[q]
                         \/ ServerOK(srv'[q], db', plan) /\ HttpOK(srv'[q], cli', plan)
  BY <1>12, <1>13, <1>15
<1>20. \A d \in Client : cli'[d] = cli[d] \/ ClientOK(cli'[d], db', plan)
  BY <1>10, <1>14
<1>21. plan' = plan
  BY <1>1
<1> QED BY <1>7, <1>16, <1>17, <1>18, <1>19, <1>20, <1>21, ServeKeeps

-----------------------------------------------------------------------------
(* The steps of the clients.                                                *)

\* What a client writes to its child.
LEMMA ClientWrites ==
  ASSUME NEW name \in Strings
  PROVE  LET lines == LinesTo(name)
             hello == encode("1", "initialize")
             more == encode(Closed, "notifications/initialized") \o encode("2", name)
         IN  /\ Whole(<< >>, FALSE, hello, lines)
             /\ \A pending, dropping, input :
                  Whole(pending, dropping, input, lines) =>
                    Whole(pending, dropping, input \o more, lines)
<1> DEFINE lines == LinesTo(name)
           hello == encode("1", "initialize")
           notice == encode(Closed, "notifications/initialized")
           call == encode("2", name)
           e == << >>
           over == FALSE
<1>1. name # NewLine /\ "initialize" # NewLine /\ "notifications/initialized" # NewLine
      /\ "1" \notin {Closed, NewLine} /\ "2" \notin {Closed, NewLine}
  BY StringTokens DEF NewLine, Closed
<1>2. OneLine(hello) /\ OneLine(notice) /\ OneLine(call)
  BY <1>1, WrittenLines
<1>3. /\ SubSeq(hello, 1, Len(hello) - 1) \in lines
      /\ SubSeq(notice, 1, Len(notice) - 1) \in lines
      /\ SubSeq(call, 1, Len(call) - 1) \in lines
  BY DEF LinesTo, Line
<1>4. IsSequence(hello) /\ IsSequence(notice) /\ IsSequence(call)
  BY <1>2 DEF OneLine
<1> HIDE DEF hello, notice, call, lines
<1>5. IsSequence(e) /\ Len(e) = 0
  BY EmptySequence
<1>6. e \o e = e
  BY <1>5, NothingBefore
<1>7. over \in BOOLEAN /\ ~over
  OBVIOUS
<1>8. LinesIn(e, 0, lines)
  BY <1>5 DEF LinesIn
<1>9. Ended(e)
  BY DEF Ended
<1> HIDE DEF e, over
<1>10. Whole(e, over, e, lines)
  BY <1>5, <1>6, <1>7, <1>8, <1>9 DEF Whole
<1>11. Whole(e, over, e \o hello, lines)
  BY <1>2, <1>3, <1>10, WholeMore
<1>12. e \o hello = hello
  BY <1>4, NothingBefore DEF e
<1>13. ASSUME NEW pending, NEW dropping, NEW input, Whole(pending, dropping, input, lines)
       PROVE  Whole(pending, dropping, input \o (notice \o call), lines)
  <2>1. Whole(pending, dropping, input \o notice, lines)
    BY <1>2, <1>3, <1>13, WholeMore
  <2> DEFINE longer == input \o notice
  <2> HIDE DEF longer
  <2>2. Whole(pending, dropping, longer \o call, lines)
    BY <1>2, <1>3, <2>1, WholeMore DEF longer
  <2>3. IsSequence(input)
    BY <1>13 DEF Whole
  <2>4. (input \o notice) \o call = input \o (notice \o call)
    BY <1>4, <2>3, JoinsJoin
  <2> QED BY <2>2, <2>4 DEF longer
<1> QED BY <1>11, <1>12, <1>13 DEF hello, notice, call, lines, e, over

\* A step of one client that starts, ends or leaves nothing of a process.
LEMMA ClientKeepsService ==
  ASSUME ServeInv, plan' = plan, db' = db, srv' = srv, NEW c \in Client, NEW l,
         cli' = [cli EXCEPT ![c] = l], ClientOK(l, db, plan), ~Waits(l),
         plan.http => Onward(cli[c], l)
  PROVE  ServeInv'
<1>1. StoreOK(db', plan) /\ Extends(db, db') /\ DOMAIN cli = Client
  BY StoreStays DEF ServeInv
<1>2. DOMAIN cli' = Client /\ \A d \in Client : cli'[d] = IF d = c THEN l ELSE cli[d]
  BY <1>1
<1>3. plan.http => \A d \in Client : Onward(cli[d], cli'[d])
  BY <1>2 DEF Onward
<1>4. \A d \in Client : cli'[d] = cli[d] \/ ClientOK(cli'[d], db', plan)
  BY <1>2
<1>5. \A d \in Client : Waits(cli'[d]) => cli'[d] = cli[d] /\ srv'[cli[d].on] = srv[cli[d].on]
  BY <1>2
<1> QED BY <1>1, <1>2, <1>3, <1>4, <1>5, ServeKeeps

\* A step of one client and its process: no other client waits for it.
LEMMA CoupleKeeps ==
  ASSUME ServeInv, DOMAIN srv = Server, plan' = plan, db' = db, ~plan.http,
         NEW c \in Client, NEW l, cli' = [cli EXCEPT ![c] = l], ClientOK(l, db, plan),
         NEW p \in Server, NEW s, srv' = [srv EXCEPT ![p] = s], ServerOK(s, db, plan),
         s.http = TRUE => s.tasks = << >>,
         Waits(l) => l.on = p /\ ChildOK(s, l, c, db, plan),
         \A d \in Client \ {c} : Waits(cli[d]) => cli[d].on # p
  PROVE  ServeInv'
<1>1. StoreOK(db', plan) /\ Extends(db, db') /\ DOMAIN cli = Client
  BY StoreStays DEF ServeInv
<1>2. DOMAIN cli' = Client /\ \A d \in Client : cli'[d] = IF d = c THEN l ELSE cli[d]
  BY <1>1
<1>3. \A q \in Server : srv'[q] = IF q = p THEN s ELSE srv[q]
  OBVIOUS
<1>4. HttpOK(s, cli', plan)
  BY DEF HttpOK
<1>5. \A q \in Server : \/ srv'[q] = srv[q]
                        \/ ServerOK(srv'[q], db', plan) /\ HttpOK(srv'[q], cli', plan)
  BY <1>3, <1>4
<1>6. \A d \in Client : cli'[d] = cli[d] \/ ClientOK(cli'[d], db', plan)
  BY <1>2
<1>7. ASSUME NEW d \in Client, Waits(cli'[d])
      PROVE  \/ cli'[d] = cli[d] /\ srv'[cli[d].on] = srv[cli[d].on]
             \/ cli'[d].on \in Server /\ ChildOK(srv'[cli'[d].on], cli'[d], d, db', plan)
  <2>1. CASE d = c
    BY <1>2, <1>3, <1>7, <2>1
  <2>2. CASE d # c
    <3>1. cli'[d] = cli[d] /\ cli[d].on # p /\ cli[d].on \in Server
      BY <1>2, <1>7, <2>2 DEF ServeInv
    <3> QED BY <1>3, <3>1
  <2> QED BY <2>1, <2>2
<1> QED BY <1>1, <1>2, <1>5, <1>6, <1>7, ServeKeeps

\* A client calls.
LEMMA CallServes ==
  ASSUME ServeInv, OpenInv, NEW c \in Client, Call(c)
  PROVE  ServeInv'
<1> DEFINE k == cli[c]
           call == plan.calls[c][k.step]
<1>1. /\ plan' = plan /\ db' = db /\ k.at = "idle" /\ k.step <= Len(plan.calls[c])
  BY DEF Call, CallsOf
<1>2. PICK i \in DOMAIN Plans : plan \in Plans[i]
  BY DEF OpenInv
<1>3. /\ ClientOK(k, db, plan) /\ DOMAIN cli = Client /\ DOMAIN srv = Server
      /\ DOMAIN k = ClientFields /\ k.step \in Nat \ {0} /\ k.tries \in Nat
  BY DEF ServeInv, OpenInv, ClientOK
<1>4. k.step \in DOMAIN plan.calls[c]
  <2>1. IsList(plan.calls[c])
    BY <1>2, CallsAssumption
  <2> QED BY <1>1, <1>3, <2>1 DEF IsList
<1>5. IF plan.http
      THEN ExportTool \in call.tool => call.scope = {plan.pulled}
      ELSE call \subseteq Strings
  BY <1>2, <1>4, CallsAssumption
<1>6. plan.http \in BOOLEAN
  BY <1>2, CallsAssumption
<1>7. CASE plan.http
  <2>1. PICK req \in Requests(call) :
          cli' = [cli EXCEPT ![c].at = "sent", ![c].call = req]
    BY <1>7 DEF Call, CallsOf
  <2>2. srv' = srv
    BY <1>7 DEF Call
  <2> DEFINE l == [k EXCEPT !.at = "sent", !.call = req]
  <2>3. cli' = [cli EXCEPT ![c] = l]
    BY <1>3, <2>1
  <2>4. Asked(req, plan)
    <3>1. {"tool", "scope", "msp"} \subseteq DOMAIN req /\ req.tool \in call.tool
          /\ req.scope \in call.scope
      BY <2>1 DEF Requests
    <3>2. req.tool = ExportTool => req.scope = plan.pulled
      BY <1>5, <1>7, <3>1
    <3> QED BY <3>1, <3>2 DEF Asked, Asks
  <2>5. /\ DOMAIN l = ClientFields /\ l.at = "sent" /\ l.call = req /\ l.step = k.step
        /\ l.tries = k.tries /\ l.since = k.since /\ l.got = k.got /\ l.kept = k.kept
    BY <1>3 DEF ClientFields
  <2> HIDE DEF l, k, call
  <2>6. ClientOK(l, db, plan) /\ ~Waits(l)
    BY <1>3, <1>7, <2>4, <2>5 DEF ClientOK, Waits
  <2>7. Onward(k, l)
    BY <1>1, <2>5 DEF Onward, AttemptOK
  <2> QED BY <1>1, <2>2, <2>3, <2>6, <2>7, ClientKeepsService DEF k
<1>8. CASE ~plan.http
  <2>1. PICK name \in call, p \in Server :
          /\ NewSlot(p)
          /\ Set(p, Started(Process(Newest, FALSE, c, cli[c].since,
                                    encode("1", "initialize"), FALSE)))
          /\ cli' = [cli EXCEPT ![c].at = "init", ![c].call = name, ![c].on = p]
    BY <1>8 DEF Call, CallsOf
  <2> DEFINE since == k.since
             hello == encode("1", "initialize")
             s == Started(Process(Newest, FALSE, c, since, hello, FALSE))
             l == [k EXCEPT !.at = "init", !.call = name, !.on = p]
  <2>2. srv' = [srv EXCEPT ![p] = s] /\ cli' = [cli EXCEPT ![c] = l]
    BY <1>3, <2>1 DEF Set
  <2>3. \A d \in Client : cli[d].on # p
    BY <2>1 DEF NewSlot, FreeSlot
  <2>4. name \in Strings
    BY <1>5, <1>8, <2>1
  <2>5. SinceOK(since, db)
    BY <1>3 DEF ClientOK
  <2>6. /\ DOMAIN l = ClientFields /\ l.at = "init" /\ l.call = name /\ l.on = p
        /\ l.step = k.step /\ l.tries = k.tries
        /\ l.since = since /\ l.got = k.got /\ l.kept = k.kept
    BY <1>3 DEF ClientFields
  <2>7. Whole(<< >>, FALSE, hello, LinesTo(name))
    BY <2>4, ClientWrites
  <2>8. /\ ServerOK(s, db, plan)
        /\ s.client = c /\ s.http = FALSE /\ s.since = since /\ s.eof = FALSE
        /\ s.input = hello /\ s.pending = << >> /\ s.dropping = FALSE /\ s.frames = << >>
        /\ s.tasks = << >> /\ s.out = << >>
    <3>1. PICK ver, no : ver = Newest /\ no = FALSE
      OBVIOUS
    <3> HIDE DEF since, hello, k
    <3>2. ServerOK(Started(Process(ver, no, c, since, hello, no)), db, plan)
      BY <2>5, NewServes
    <3>3. NewlyStarted(Started(Process(ver, no, c, since, hello, no)), no, c, since, hello, no)
      BY NewHas
    <3>4. s = Started(Process(ver, no, c, since, hello, no))
      BY <3>1
    <3> HIDE DEF s
    <3>5. NewlyStarted(s, no, c, since, hello, no) /\ ServerOK(s, db, plan)
      BY <3>2, <3>3, <3>4
    <3> QED BY <3>1, <3>5 DEF NewlyStarted
  <2> HIDE DEF l, s, hello, since
  <2>9. ClientOK(l, db, plan)
    BY <1>3, <1>8, <2>6 DEF ClientOK, since
  <2>10. ChildOK(s, l, c, db, plan)
    <3>1. IsSequence(<< >>) /\ Items(<< >>) = {}
      BY EmptySequence
    <3>2. FramesIn(s.frames, LinesTo(name))
      BY <2>8, <3>1 DEF FramesIn
    <3>3. Whole(s.pending, s.dropping, s.input, LinesTo(name))
      BY <2>7, <2>8
    <3>4. Items(s.tasks) = {} /\ Items(s.out) = {}
      BY <2>8, <3>1
    <3> QED BY <2>4, <2>6, <2>8, <3>2, <3>3, <3>4 DEF ChildOK
  <2>11. \A d \in Client \ {c} : Waits(cli[d]) => cli[d].on # p
    BY <2>3
  <2>12. p \in Server /\ (s.http = TRUE => s.tasks = << >>)
    BY <2>1, <2>8
  <2>13. Waits(l) => l.on = p /\ ChildOK(s, l, c, db, plan)
    BY <2>6, <2>10
  <2>14. plan' = plan /\ db' = db /\ DOMAIN srv = Server /\ ServerOK(s, db, plan)
    BY <1>1, <1>3, <2>8
  <2> HIDE DEF k, call
  <2> QED BY <1>8, <2>2, <2>9, <2>11, <2>12, <2>13, <2>14, CoupleKeeps
<1> QED BY <1>6, <1>7, <1>8

\* Whoever waits or closes has the process to itself.
LEMMA ChildOfOne ==
  ASSUME ServeInv, NEW c \in Client, Waits(cli[c])
  PROVE  /\ cli[c].on \in Server /\ ChildOK(srv[cli[c].on], cli[c], c, db, plan)
         /\ ServerOK(srv[cli[c].on], db, plan) /\ ClientOK(cli[c], db, plan) /\ ~plan.http
         /\ \A d \in Client \ {c} : Waits(cli[d]) => cli[d].on # cli[c].on
<1>1. /\ cli[c].on \in Server /\ ChildOK(srv[cli[c].on], cli[c], c, db, plan)
      /\ ClientOK(cli[c], db, plan)
  BY DEF ServeInv
<1>2. \A d \in Client : Waits(cli[d]) => srv[cli[d].on].client = d
  BY DEF ServeInv, ChildOK
<1>3. ~plan.http
  BY <1>1 DEF ClientOK, Waits
<1>4. ServerOK(srv[cli[c].on], db, plan)
  BY <1>1 DEF ServeInv
<1> QED BY <1>1, <1>2, <1>3, <1>4

\* A client waits no longer for its child.
LEMMA TimeoutServes ==
  ASSUME ServeInv, OpenInv, NEW c \in Client, Timeout(c)
  PROVE  ServeInv'
<1> DEFINE k == cli[c]
           p == k.on
           s == [srv[p] EXCEPT !.eof = TRUE]
           l == [k EXCEPT !.at = "closing"]
<1>1. /\ plan' = plan /\ db' = db /\ Waits(k)
      /\ srv' = [srv EXCEPT ![p] = s] /\ DOMAIN cli = Client /\ DOMAIN srv = Server
  BY DEF Timeout, Set, Waits, ServeInv, OpenInv
<1>2. cli' = [cli EXCEPT ![c] = l]
  BY <1>1 DEF Timeout
<1>3. /\ p \in Server /\ ChildOK(srv[p], k, c, db, plan) /\ ~plan.http
      /\ ServerOK(srv[p], db, plan) /\ ClientOK(k, db, plan)
      /\ \A d \in Client \ {c} : Waits(cli[d]) => cli[d].on # p
  BY <1>1, ChildOfOne
<1>4. /\ DOMAIN k = ClientFields /\ DOMAIN srv[p] = Fields /\ srv[p].http = FALSE
  BY <1>3 DEF ClientOK, ServerOK, ChildOK
<1>5. /\ DOMAIN l = ClientFields /\ l.at = "closing" /\ l.step = k.step /\ l.tries = k.tries
      /\ l.since = k.since /\ l.got = k.got /\ l.kept = k.kept
  BY <1>4 DEF ClientFields
<1>6. /\ DOMAIN s = Fields /\ Gone(s) = Gone(srv[p]) /\ s.http = FALSE
      /\ s.since = srv[p].since /\ s.tasks = srv[p].tasks /\ s.out = srv[p].out
  BY <1>4 DEF Fields, Gone
<1> HIDE DEF l, s
<1>7. ClientOK(l, db, plan) /\ ~Waits(l)
  BY <1>3, <1>5 DEF ClientOK, Waits
<1>8. ServerOK(s, db, plan)
  BY <1>3, <1>4, <1>6 DEF ServerOK
<1> HIDE DEF p, k
<1> QED BY <1>1, <1>2, <1>3, <1>6, <1>7, <1>8, CoupleKeeps

\* The process that calls ends.
LEMMA FailureServes ==
  ASSUME ServeInv, OpenInv, NEW c \in Client, SpawnFails(c) \/ WriteFails(c)
  PROVE  ServeInv'
<1> DEFINE k == cli[c]
<1>1. /\ plan' = plan /\ db' = db /\ srv' = srv /\ k.at \in {"idle", "init"}
      /\ ClientOK(k, db, plan) /\ DOMAIN cli = Client
  BY DEF SpawnFails, WriteFails, ServeInv
<1>2. \E on : cli' = [cli EXCEPT ![c] = [k EXCEPT !.at = "ended", !.on = on]]
  <2>1. CASE SpawnFails(c)
    <3>1. cli' = [cli EXCEPT ![c].at = "ended"]
      BY <2>1 DEF SpawnFails
    <3>2. [k EXCEPT !.at = "ended"] = [k EXCEPT !.at = "ended", !.on = k.on]
      BY <1>1 DEF ClientOK, ClientFields
    <3> QED BY <1>1, <3>1, <3>2
  <2>2. CASE WriteFails(c)
    BY <1>1, <2>2 DEF WriteFails
  <2> QED BY <2>1, <2>2
<1>3. PICK on : cli' = [cli EXCEPT ![c] = [k EXCEPT !.at = "ended", !.on = on]]
  BY <1>2
<1> DEFINE l == [k EXCEPT !.at = "ended", !.on = on]
<1>4. /\ DOMAIN l = ClientFields /\ l.at = "ended" /\ l.step = k.step /\ l.tries = k.tries
      /\ l.since = k.since /\ l.got = k.got /\ l.kept = k.kept
  BY <1>1 DEF ClientOK, ClientFields
<1>5. cli' = [cli EXCEPT ![c] = l]
  BY <1>3
<1> HIDE DEF k, l
<1>6. ClientOK(l, db, plan) /\ ~Waits(l)
  BY <1>1, <1>4 DEF ClientOK, Waits
<1>7. Onward(k, l)
  BY <1>1, <1>4 DEF Onward, AttemptOK
<1> QED BY <1>1, <1>5, <1>6, <1>7, ClientKeepsService DEF k

\* A client hears its child.
LEMMA HearServes ==
  ASSUME ServeInv, OpenInv, NEW c \in Client, Hear(c)
  PROVE  ServeInv'
<1> DEFINE k == cli[c]
           p == k.on
           line == Head(srv[p].out)
           out == Tail(srv[p].out)
<1>1. /\ plan' = plan /\ db' = db /\ Waits(k) /\ srv[p].out # << >> /\ line.id = Awaited(c)
      /\ DOMAIN cli = Client /\ DOMAIN srv = Server
  BY DEF Hear, Waits, ServeInv, OpenInv
<1>2. /\ p \in Server /\ ChildOK(srv[p], k, c, db, plan) /\ ~plan.http
      /\ ServerOK(srv[p], db, plan) /\ ClientOK(k, db, plan)
      /\ \A d \in Client \ {c} : Waits(cli[d]) => cli[d].on # p
  BY <1>1, ChildOfOne
<1>3. /\ DOMAIN k = ClientFields /\ DOMAIN srv[p] = Fields /\ srv[p].http = FALSE
      /\ k.call \in Strings /\ srv[p].since = k.since /\ IsSequence(srv[p].out)
  BY <1>2 DEF ClientOK, ServerOK, ChildOK
<1>4. /\ IsSequence(out) /\ Items(out) \subseteq Items(srv[p].out) /\ line \in Items(srv[p].out)
  BY <1>1, <1>3, TailSequence, SequenceShape
<1> HIDE DEF out
<1>5. CASE k.at = "init"
  <2> DEFINE more == encode(Closed, "notifications/initialized") \o encode("2", k.call)
             input == srv[p].input \o more
             s == [srv[p] EXCEPT !.out = out, !.input = input]
             l == [k EXCEPT !.at = "call"]
  <2>1. srv' = [srv EXCEPT ![p] = s] /\ cli' = [cli EXCEPT ![c] = l]
    <3>1. /\ Set(p, [srv[p] EXCEPT !.out = Tail(@), !.input = @ \o more])
          /\ cli' = [cli EXCEPT ![c].at = "call"]
      BY <1>5 DEF Hear
    <3> QED BY <1>1, <1>3, <3>1 DEF Set, out
  <2>2. Whole(srv[p].pending, srv[p].dropping, input, LinesTo(k.call))
    <3> DEFINE old == srv[p].input
               pending == srv[p].pending
               dropping == srv[p].dropping
               name == k.call
    <3>1. Whole(pending, dropping, old, LinesTo(name)) /\ name \in Strings
      BY <1>2, <1>3 DEF ChildOK
    <3> HIDE DEF old, pending, dropping, name
    <3>2. Whole(pending, dropping,
                old \o (encode(Closed, "notifications/initialized") \o encode("2", name)),
                LinesTo(name))
      BY <3>1, ClientWrites
    <3> QED BY <3>2 DEF old, pending, dropping, name
  <2> HIDE DEF input
  <2>3. /\ DOMAIN s = Fields /\ Gone(s) = Gone(srv[p]) /\ s.http = FALSE
        /\ s.client = srv[p].client /\ s.since = srv[p].since /\ s.eof = srv[p].eof
        /\ s.tasks = srv[p].tasks /\ s.out = out /\ s.input = input
        /\ s.frames = srv[p].frames /\ s.pending = srv[p].pending /\ s.dropping = srv[p].dropping
    BY <1>3 DEF Fields, Gone
  <2>4. /\ DOMAIN l = ClientFields /\ l.at = "call" /\ l.step = k.step /\ l.tries = k.tries
        /\ l.call = k.call /\ l.on = p
        /\ l.since = k.since /\ l.got = k.got /\ l.kept = k.kept
    BY <1>3 DEF ClientFields
  <2> HIDE DEF s, l
  <2>5. ClientOK(l, db, plan)
    BY <1>2, <2>4 DEF ClientOK
  <2>6. ServerOK(s, db, plan)
    BY <1>2, <1>3, <1>4, <2>3 DEF ServerOK
  <2>7. ChildOK(s, l, c, db, plan)
    BY <1>2, <1>4, <2>2, <2>3, <2>4 DEF ChildOK
  <2>8. Waits(l) => l.on = p /\ ChildOK(s, l, c, db, plan)
    BY <2>4, <2>7
  <2>9. s.http = TRUE => s.tasks = << >>
    BY <2>3
  <2>10. plan' = plan /\ db' = db /\ DOMAIN srv = Server /\ ~plan.http /\ p \in Server
    BY <1>1, <1>2
  <2>11. \A d \in Client \ {c} : Waits(cli[d]) => cli[d].on # p
    BY <1>2
  <2> HIDE DEF p, k
  <2> QED BY <2>1, <2>5, <2>6, <2>8, <2>9, <2>10, <2>11, CoupleKeeps
<1>6. CASE k.at = "call"
  <2> DEFINE a == line.answer
             h == Heard(c, a)
             s == [srv[p] EXCEPT !.out = out, !.eof = TRUE]
             l == [h EXCEPT !.at = "closing", !.tries = 0]
  <2>1. srv' = [srv EXCEPT ![p] = s] /\ cli' = [cli EXCEPT ![c] = l]
    BY <1>6 DEF Hear, Set, out
  <2>2. PageOK(a, k.since, db, plan) /\ RowOK(a.row, RequestIn(k.call, plan), db, plan)
    <3>1. line.id = "2"
      BY <1>1, <1>6 DEF Awaited
    <3>2. RequestIn(k.call, plan) = plan.requests[k.call]
      BY <1>2 DEF RequestIn
    <3> HIDE DEF line
    <3> QED BY <1>2, <1>3, <1>4, <3>1, <3>2 DEF ServerOK, ChildOK
  <2>3. ClientOK(h, db, plan) /\ DOMAIN h = ClientFields /\ h.step = k.step
    <3> HIDE DEF a
    <3>1. WellKept(db)
      BY DEF ServeInv, StoreOK
    <3> QED BY <1>2, <2>2, <3>1, HeardIsRight
  <2> HIDE DEF h, a
  <2>4. /\ DOMAIN l = ClientFields /\ l.at = "closing" /\ l.step = h.step /\ l.tries = 0
        /\ l.since = h.since /\ l.got = h.got /\ l.kept = h.kept
    BY <2>3 DEF ClientFields
  <2>5. /\ DOMAIN s = Fields /\ Gone(s) = Gone(srv[p]) /\ s.http = FALSE
        /\ s.since = srv[p].since /\ s.tasks = srv[p].tasks /\ s.out = out
    BY <1>3 DEF Fields, Gone
  <2> HIDE DEF s, l
  <2>6. ClientOK(l, db, plan) /\ ~Waits(l)
    BY <1>2, <2>3, <2>4 DEF ClientOK, Waits
  <2>7. ServerOK(s, db, plan)
    BY <1>2, <1>3, <1>4, <2>5 DEF ServerOK
  <2>8. s.http = TRUE => s.tasks = << >>
    BY <2>5
  <2>9. Waits(l) => l.on = p /\ ChildOK(s, l, c, db, plan)
    BY <2>6
  <2>10. plan' = plan /\ db' = db /\ DOMAIN srv = Server /\ ~plan.http /\ p \in Server
    BY <1>1, <1>2
  <2>11. \A d \in Client \ {c} : Waits(cli[d]) => cli[d].on # p
    BY <1>2
  <2>12. ClientOK(l, db, plan)
    BY <2>6
  <2> HIDE DEF p, k
  <2> QED BY <2>1, <2>7, <2>8, <2>9, <2>10, <2>11, <2>12, CoupleKeeps
<1> QED BY <1>1, <1>5, <1>6 DEF Waits

\* What a client does next, after an answer or without one.
LEMMA ReturnIsRight ==
  ASSUME ServeInv, plan' = plan, NEW c \in Client, Return(c)
  PROVE  \E l : cli' = [cli EXCEPT ![c] = l] /\ ClientOK(l, db, plan) /\ ~Waits(l) /\ Onward(cli[c], l)
<1> DEFINE k == cli[c]
           n == NextCall(k)
           m == [n EXCEPT !.step = k.step, !.tries = k.tries + 1]
<1>1. ClientOK(k, db, plan)
  BY DEF ServeInv
<1>2. k.step \in Nat \ {0} /\ k.tries \in Nat
  BY <1>1 DEF ClientOK
<1>3. ClientOK(n, db, plan) /\ ~Waits(n) /\ n.step = k.step + 1 /\ n.tries = 1
  <2> HIDE DEF k
  <2> QED BY <1>1, NextCallIsRight
<1>4. CASE cli' = [cli EXCEPT ![c] = n]
  <2> HIDE DEF n
  <2>1. n.step \in Nat /\ n.tries \in Nat /\ k.step < n.step
    BY <1>2, <1>3
  <2>2. Onward(k, n)
    BY <1>2, <2>1, LaterGoesOn
  <2> QED BY <1>3, <1>4, <2>2
<1>5. CASE cli' = [cli EXCEPT ![c] = m]
  <2>1. DOMAIN n = ClientFields
    BY <1>3 DEF ClientOK
  <2> HIDE DEF n
  <2>2. /\ DOMAIN m = ClientFields /\ m.at = n.at /\ m.call = n.call /\ m.step = k.step
        /\ m.tries = k.tries + 1 /\ m.since = n.since /\ m.got = n.got /\ m.kept = n.kept
    BY <2>1 DEF ClientFields
  <2> HIDE DEF m
  <2>3. m.step \in Nat \ {0} /\ m.tries \in Nat /\ k.tries < m.tries /\ k.step = m.step
    BY <1>2, <2>2
  <2>4. ClientOK(m, db, plan) /\ ~Waits(m)
    BY <1>3, <2>2, <2>3 DEF ClientOK, Waits
  <2>5. Onward(k, m)
    BY <1>2, <2>3, LaterGoesOn
  <2> QED BY <1>5, <2>4, <2>5
<1>6. cli' = [cli EXCEPT ![c] = n] \/ cli' = [cli EXCEPT ![c] = m]
  BY DEF Return
<1> QED BY <1>4, <1>5, <1>6

\* A client goes on.
LEMMA ReturnServes ==
  ASSUME ServeInv, OpenInv, NEW c \in Client, Exited(c) \/ KillChild(c) \/ HttpDrop(c)
  PROVE  ServeInv'
<1>1. plan' = plan /\ db' = db /\ Return(c) /\ DOMAIN srv = Server
  BY DEF Exited, KillChild, HttpDrop, OpenInv
<1>2. PICK l : cli' = [cli EXCEPT ![c] = l] /\ ClientOK(l, db, plan) /\ ~Waits(l) /\ Onward(cli[c], l)
  BY <1>1, ReturnIsRight
<1>3. CASE Exited(c) \/ HttpDrop(c)
  <2>1. srv' = srv
    BY <1>3 DEF Exited, HttpDrop
  <2> QED BY <1>1, <1>2, <2>1, ClientKeepsService
<1>4. CASE KillChild(c)
  <2> DEFINE p == cli[c].on
             s == [srv[p] EXCEPT !.killed = TRUE]
  <2>1. srv' = [srv EXCEPT ![p] = s]
    BY <1>4 DEF KillChild, Set
  <2>2. StoreOK(db', plan) /\ Extends(db, db') /\ DOMAIN cli = Client
    BY <1>1, StoreStays DEF ServeInv
  <2>3. DOMAIN cli' = Client /\ \A d \in Client : cli'[d] = IF d = c THEN l ELSE cli[d]
    BY <1>2, <2>2
  <2>4. \A q \in Server : srv'[q] = IF q = p THEN s ELSE srv[q]
    BY <1>1, <2>1
  <2>5. \A d \in Client : Onward(cli[d], cli'[d])
    BY <1>2, <2>3 DEF Onward
  <2>6. ASSUME p \in Server
        PROVE  SameService(srv[p], s) /\ ServerOK(s, db', plan) /\ HttpOK(s, cli', plan)
    <3>1. ServerOK(srv[p], db, plan) /\ HttpOK(srv[p], cli, plan)
      BY <2>6 DEF ServeInv
    <3>2. DOMAIN srv[p] = Fields
      BY <3>1 DEF ServerOK
    <3>3. SameService(srv[p], s)
      BY <3>2 DEF SameService, Fields, Gone
    <3> HIDE DEF s, p
    <3>4. ServerOK(s, db', plan)
      BY <1>1, <3>1, <3>3 DEF ServerOK, SameService
    <3>5. HttpOK(s, cli', plan)
      <4> SUFFICES ASSUME s.http = TRUE, s.tasks # << >>
                   PROVE  HttpOK(s, cli', plan)
        BY DEF HttpOK
      <4>1. s.tasks = srv[p].tasks /\ s.since = srv[p].since /\ srv[p].http = TRUE
        BY <3>3 DEF SameService
      <4>2. /\ plan.http /\ Len(s.tasks) = 1 /\ s.tasks[1].id \in Client \X Nat \X Nat
            /\ AttemptOK(s.tasks[1], s.since, cli[s.tasks[1].id[1]])
        BY <3>1, <4>1 DEF HttpOK
      <4>3. s.tasks[1].id[1] \in Client
        BY <4>2
      <4>4. AttemptOK(s.tasks[1], s.since, cli'[s.tasks[1].id[1]])
        BY <2>5, <4>2, <4>3 DEF Onward
      <4> QED BY <4>2, <4>4 DEF HttpOK
    <3> QED BY <3>3, <3>4, <3>5
  <2> HIDE DEF s
  <2>7. \A q \in Server : \/ srv'[q] = srv[q]
                          \/ ServerOK(srv'[q], db', plan) /\ HttpOK(srv'[q], cli', plan)
    BY <2>4, <2>6
  <2>8. \A d \in Client : cli'[d] = cli[d] \/ ClientOK(cli'[d], db', plan)
    BY <1>1, <1>2, <2>3
  <2>9. ASSUME NEW d \in Client, Waits(cli'[d])
        PROVE  \/ cli'[d] = cli[d] /\ srv'[cli[d].on] = srv[cli[d].on]
               \/ cli'[d].on \in Server /\ ChildOK(srv'[cli'[d].on], cli'[d], d, db', plan)
    <3>1. cli'[d] = cli[d]
      BY <1>2, <2>3, <2>9
    <3>2. cli[d].on \in Server /\ ChildOK(srv[cli[d].on], cli[d], d, db, plan)
      BY <2>9, <3>1 DEF ServeInv
    <3>3. CASE cli[d].on = p
      <4>1. ChildOK(s, cli[d], d, db', plan)
        BY <1>1, <2>6, <3>2, <3>3 DEF ChildOK, SameService
      <4> QED BY <2>4, <3>1, <3>2, <3>3, <4>1
    <3>4. CASE cli[d].on # p
      BY <2>4, <3>1, <3>2, <3>4
    <3> QED BY <3>3, <3>4
  <2> QED BY <1>1, <2>2, <2>3, <2>5, <2>7, <2>8, <2>9, ServeKeeps
<1> QED BY <1>3, <1>4

\* Every step keeps the invariant.
LEMMA NextServe == ServeInv /\ OpenInv /\ [Next]_vars => ServeInv'
<1> SUFFICES ASSUME ServeInv, OpenInv, [Next]_vars PROVE ServeInv'
  OBVIOUS
<1>0. DOMAIN srv = Server
  BY DEF OpenInv
<1>1. ASSUME NEW p \in Server, ServerStep(p) PROVE ServeInv'
  <2>1. CASE Start(p)
    BY <1>0, <2>1, StartServes
  <2>2. CASE ReadApplied(p) \/ Ready(p) \/ Stop(p) \/ Stopped(p) \/ Terminate(p) \/ Crash(p)
    BY <2>2, ProcessServes
  <2>3. CASE Migrate(p)
    BY <2>3, MigrateServes
  <2>4. CASE Chunk(p)
    BY <2>4, ChunkServes
  <2>5. CASE Frame(p)
    BY <2>5, FrameActServes
  <2>6. CASE Settle(p)
    BY <2>6, SettleServes
  <2>7. CASE EndOfInput(p)
    BY <2>7, EndServes
  <2>8. CASE \E c \in Client : HttpRequest(p, c)
    BY <2>8, HttpRequestServes
  <2>9. CASE HttpSettle(p)
    BY <2>9, HttpSettleServes
  <2> QED BY <1>1, <2>1, <2>2, <2>3, <2>4, <2>5, <2>6, <2>7, <2>8, <2>9 DEF ServerStep
<1>2. ASSUME NEW c \in Client, ClientStep(c) PROVE ServeInv'
  <2>1. CASE Call(c)
    BY <2>1, CallServes
  <2>2. CASE Hear(c)
    BY <2>2, HearServes
  <2>3. CASE Timeout(c)
    BY <2>3, TimeoutServes
  <2>4. CASE Exited(c) \/ KillChild(c) \/ HttpDrop(c)
    BY <2>4, ReturnServes
  <2>5. CASE SpawnFails(c) \/ WriteFails(c)
    BY <2>5, FailureServes
  <2> QED BY <1>2, <2>1, <2>2, <2>3, <2>4, <2>5 DEF ClientStep
<1>3. ASSUME UNCHANGED vars PROVE ServeInv'
  <2>1. plan' = plan /\ db' = db /\ srv' = srv /\ cli' = cli
    BY <1>3 DEF vars
  <2>2. StoreOK(db', plan) /\ Extends(db, db')
    BY <2>1, StoreStays
  <2>3. DOMAIN cli' = Client
    BY <2>1 DEF ServeInv
  <2>4. \A c \in Client : Onward(cli[c], cli'[c]) /\ cli'[c] = cli[c] /\ srv'[cli[c].on] = srv[cli[c].on]
    BY <2>1 DEF Onward
  <2>5. \A q \in Server : srv'[q] = srv[q]
    BY <2>1
  <2> QED BY <2>1, <2>2, <2>3, <2>4, <2>5, ServeKeeps
<1> QED BY <1>1, <1>2, <1>3 DEF Next

\* Both invariants together.
LEMMA Served == Spec => [](ServeInv /\ OpenInv)
<1>1. Init => ServeInv /\ OpenInv
  BY InitServe, InitOpen
<1>2. ServeInv /\ OpenInv /\ [Next]_vars => (ServeInv /\ OpenInv)'
  BY NextServe, NextOpen
<1> QED BY <1>1, <1>2, PTL DEF Spec

\* Whatever credentials, grants, scopes and proofs the requests combine, over
\* stdio or HTTP, and however processes crash in between: all that is written to
\* a portfolio is of one caller, and callers and provenance namespaces tell each
\* other (packages/gks-contracts/src/client-auth.mjs:64-208, msp-auth.mjs).
THEOREM OneWriter == Spec => []OneWriterPerPortfolio
<1>1. ServeInv /\ OpenInv => OneWriterPerPortfolio
  <2> SUFFICES ASSUME ServeInv, OpenInv, NEW r \in Written, NEW s \in Written
               PROVE  /\ r.scope.portfolio = s.scope.portfolio => r.caller = s.caller
                      /\ r.caller = s.caller <=> r.proof = s.proof
    BY DEF OneWriterPerPortfolio
  <2>1. Written = Newer(db, plan)
    BY DEF Written, Newer, Rows
  <2>2. /\ RuntimeStarts(plan.env)
        /\ Entitled(plan, r.caller, r.proof, r.scope.portfolio)
        /\ Entitled(plan, s.caller, s.proof, s.scope.portfolio)
    BY <2>1 DEF ServeInv, StoreOK, RowsOwned
  <2>3. IsList(plan.env.grants.clients)
    BY PlanAssumption DEF OpenInv
  <2> QED BY <2>2, <2>3, OwnersApart
<1> QED BY <1>1, Served, PTL

\* A puller that follows the cursors it is given has at every moment exactly the
\* evidence its scope may see up to its cursor, while migrations backfill rows,
\* callers add some, and the server it pulls from crashes or is replaced
\* (exportStageEvidence, packages/gks-persistence/src/index.mjs:1739-1759).
THEOREM PullerComplete == Spec => []PullerMissesNothing
<1>1. ServeInv => PullerMissesNothing
  <2> SUFFICES ASSUME ServeInv, NEW c \in Client
               PROVE  cli[c].got = {e.id : e \in {f \in db.evidence :
                                       /\ VisibleIn(f.scope, plan.pulled)
                                       /\ f.cursor <= cli[c].since}}
    BY DEF PullerMissesNothing
  <2>1. cli[c].got = Seen(db, plan, 0, cli[c].since)
    BY DEF ServeInv, ClientOK
  <2>2. WellKept(db)
    BY DEF ServeInv, StoreOK
  <2>3. db.cursor \in Nat /\ \A x \in db.evidence : x.cursor \in 1 .. db.cursor
    BY <2>2, EvidenceFinite DEF WellKept
  <2>4. \A x \in db.evidence : 0 < x.cursor
    BY <2>3
  <2> QED BY <2>1, <2>4 DEF Seen
<1> QED BY <1>1, Served, PTL

\* Whatever was timed out, killed, crashed or sent again: a request that was
\* granted has its row in the store, in the scope it asked for, and every
\* execution has its evidence once, under one cursor (transactPromotion,
\* packages/gks-persistence/src/index.mjs:595-606, 481-507).
THEOREM GrantedIsKept == Spec => []AnswersAreKept
<1>1. ServeInv => AnswersAreKept
  <2> SUFFICES ASSUME ServeInv
               PROVE  /\ EvidenceExact(db)
                      /\ \A c \in Client : \A k \in cli[c].kept :
                           /\ k[2] \in db.promotions \cup db.decisions \cup db.links
                           /\ k[2].scope = resolvePromotionScope(RequestOf(k[1]), plan.env)
    BY DEF AnswersAreKept
  <2>1. EvidenceExact(db)
    BY DEF ServeInv, StoreOK, WellKept
  <2>2. ASSUME NEW c \in Client, NEW k \in cli[c].kept
        PROVE  /\ k[2] \in db.promotions \cup db.decisions \cup db.links
               /\ k[2].scope = resolvePromotionScope(RequestOf(k[1]), plan.env)
    <3>1. RowOK({k[2]}, RequestIn(k[1], plan), db, plan)
      BY DEF ServeInv, ClientOK
    <3>2. RequestIn(k[1], plan) = RequestOf(k[1])
      BY DEF RequestIn, RequestOf
    <3> QED BY <3>1, <3>2 DEF RowOK, Rows
  <2> QED BY <2>1, <2>2
<1> QED BY <1>1, Served, PTL
==============================================================================
