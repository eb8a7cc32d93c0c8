-------------------------- MODULE DequeList_proofs --------------------------
(***************************************************************************)
(* Proofs about DequeList for buckets of any size, any number of lists and *)
(* any bound on their sizes.                                               *)
(***************************************************************************)
EXTENDS DequeList, Recursion, TLAPS

\* The elements in the buckets before b when all of them are full.
Before(b) == (b - 1) * BucketSize

\* How many elements each bucket of a chain holds.
Lens(c) == [b \in 1 .. Len(c) |-> Len(c[b])]

\* Of k buckets that hold f elements each, n is the last and s are there.
Shape(f, k, n, s) ==
  /\ k \in Nat /\ n \in 1 .. k /\ s \in 0 .. MaxSize
  /\ f \in [1 .. k -> Nat]
  /\ \A b \in 1 .. k : /\ f[b] <= BucketSize
                       /\ b < n => f[b] = BucketSize
                       /\ b > n => f[b] = 0
  /\ n > 1 => f[n] > 0
  /\ s = Before(n) + f[n]

\* Of one list: the chain, the last bucket and the size agree.
ListOK(c, n, s) == c \in Seq(Seq(Values)) /\ Shape(Lens(c), Len(c), n, s)

Iterators == [bucket : Nat \ {0}, idx : 0 .. BucketSize,
              last : Nat \ {0}, left : 0 .. MaxSize]

\* Of one list: what an iterator may still visit ends at the size there is, and
\* at the end of the bucket it takes for the last one.
IterOK(it, n, s) ==
  /\ it \in Iterators
  /\ it.left > 0 =>
       /\ it.bucket <= it.last /\ it.last <= n /\ it.idx < BucketSize
       /\ Before(it.bucket) + it.idx + it.left <= s
       /\ Before(it.bucket) + it.idx + it.left <= Before(it.last + 1)

-----------------------------------------------------------------------------
(* Lemmas about buckets.                                                   *)

\* A bucket more has room for BucketSize elements more.
LEMMA Room ==
  ASSUME NEW b \in Nat, b >= 1
  PROVE  /\ Before(b) \in Nat /\ Before(b + 1) = Before(b) + BucketSize
         /\ b > 1 => Before(b) = Before(b - 1) + BucketSize
         /\ b = 1 => Before(b) = 0
BY BucketAssumption DEF Before

\* The bounds.
LEMMA Bounds == BucketSize \in Nat /\ BucketSize >= 1 /\ MaxSize \in Nat
BY BucketAssumption

\* A bucket of a chain is replaced.
LEMMA BucketReplaced ==
  ASSUME NEW S, NEW d \in Seq(S), NEW m \in 1 .. Len(d), NEW x \in S
  PROVE  /\ [d EXCEPT ![m] = x] \in Seq(S) /\ Len([d EXCEPT ![m] = x]) = Len(d)
         /\ \A b \in 1 .. Len(d) : [d EXCEPT ![m] = x][b] = IF b = m THEN x ELSE d[b]
OBVIOUS

\* An element more at the end of a bucket of a chain.
LEMMA BucketAppended ==
  ASSUME NEW d \in Seq(Seq(Values)), NEW m \in 1 .. Len(d), NEW v \in Values
  PROVE  LET e == [d EXCEPT ![m] = Append(d[m], v)]
         IN  /\ e \in Seq(Seq(Values)) /\ Len(e) = Len(d)
             /\ \A b \in 1 .. Len(d) : e[b] = IF b = m THEN Append(d[m], v) ELSE d[b]
<1> DEFINE S == Seq(Values)
           x == Append(d[m], v)
<1>1. d \in Seq(S) /\ x \in S
  OBVIOUS
<1> HIDE DEF S, x
<1>2. /\ [d EXCEPT ![m] = x] \in Seq(S) /\ Len([d EXCEPT ![m] = x]) = Len(d)
      /\ \A b \in 1 .. Len(d) : [d EXCEPT ![m] = x][b] = IF b = m THEN x ELSE d[b]
  BY <1>1, BucketReplaced
<1> QED
  BY <1>2 DEF S, x

\* A chain is a sequence of buckets, and those of no length are empty.
LEMMA LensType ==
  ASSUME NEW c \in Seq(Seq(Values))
  PROVE  /\ Len(c) \in Nat /\ Lens(c) \in [1 .. Len(c) -> Nat]
         /\ \A b \in 1 .. Len(c) :
              /\ c[b] \in Seq(Values) /\ Lens(c)[b] = Len(c[b])
              /\ c[b] = <<>> <=> Lens(c)[b] = 0
<1>1. \A b \in 1 .. Len(c) : c[b] \in Seq(Values)
  OBVIOUS
<1>2. \A b \in 1 .. Len(c) : Len(c[b]) \in Nat /\ (c[b] = <<>> <=> Len(c[b]) = 0)
  BY <1>1
<1> QED
  BY <1>1, <1>2 DEF Lens

\* An element more, in the last bucket or in the next one, which was empty.
LEMMA PushedShape ==
  ASSUME NEW f, NEW k, NEW n, NEW s, Shape(f, k, n, s), s < MaxSize,
         NEW k2 \in Nat, k <= k2, NEW m \in 1 .. k2, NEW g \in [1 .. k2 -> Nat],
         m = IF f[n] < BucketSize THEN n ELSE n + 1,
         \A b \in 1 .. k2 : g[b] = IF b = m THEN (IF b <= k THEN f[b] ELSE 0) + 1
                                   ELSE IF b <= k THEN f[b] ELSE 0
  PROVE  Shape(g, k2, m, s + 1)
<1>1. /\ k \in Nat /\ n \in Nat /\ n >= 1 /\ n <= k /\ s \in Nat /\ f[n] \in Nat
      /\ f[n] <= BucketSize /\ m \in Nat /\ m >= 1
      /\ s = Before(n) + f[n]
  <2>1. /\ k \in Nat /\ n \in 1 .. k /\ s \in 0 .. MaxSize /\ f \in [1 .. k -> Nat]
        /\ f[n] <= BucketSize /\ s = Before(n) + f[n]
    BY DEF Shape
  <2>2. f[n] \in Nat
    BY <2>1
  <2>3. s \in Nat /\ n \in Nat /\ n >= 1 /\ n <= k /\ m \in Nat /\ m >= 1
    BY <2>1, Bounds
  <2> QED
    BY <2>1, <2>2, <2>3
<1>2. Before(n) \in Nat /\ Before(n + 1) = Before(n) + BucketSize
  BY <1>1, Room
<1>3. s + 1 \in 0 .. MaxSize
  BY SMTT(30), <1>1, Bounds
<1>4. g[m] = (IF f[n] < BucketSize THEN f[n] ELSE 0) + 1
  BY <1>1, Bounds DEF Shape
<1>5. s + 1 = Before(m) + g[m]
  <2>1. CASE f[n] < BucketSize
    <3>1. m = n /\ g[m] = f[n] + 1
      BY <1>4, <2>1
    <3> QED
      BY SMTT(30), <1>1, <1>2, <3>1
  <2>2. CASE ~(f[n] < BucketSize)
    <3>1. m = n + 1 /\ f[n] = BucketSize /\ g[m] = 1
      BY <1>1, <1>4, <2>2, Bounds
    <3>2. Before(m) = Before(n) + BucketSize
      BY <1>2, <3>1
    <3>3. s = Before(n) + BucketSize
      BY <1>1, <3>1
    <3> QED
      BY <1>1, <1>2, <3>1, <3>2, <3>3, Bounds
  <2> QED BY <2>1, <2>2
<1>6. \A b \in 1 .. k2 : /\ g[b] <= BucketSize
                         /\ b < m => g[b] = BucketSize
                         /\ b > m => g[b] = 0
  <2> SUFFICES ASSUME NEW b \in 1 .. k2
               PROVE  /\ g[b] <= BucketSize
                      /\ b < m => g[b] = BucketSize
                      /\ b > m => g[b] = 0
    OBVIOUS
  <2>1. b \in 1 .. k => /\ f[b] <= BucketSize /\ f[b] \in Nat
                        /\ b < n => f[b] = BucketSize
                        /\ b > n => f[b] = 0
    BY DEF Shape
  <2>2. b \in Nat /\ b >= 1 /\ (b <= k <=> b \in 1 .. k)
    BY <1>1
  <2>3. CASE b = m
    BY <1>1, <1>4, <2>2, <2>3, Bounds
  <2>4. CASE b # m
    BY SMTT(30), <1>1, <2>1, <2>2, <2>4, Bounds
  <2> QED BY <2>3, <2>4
<1> QED
  BY <1>1, <1>3, <1>4, <1>5, <1>6 DEF Shape

\* An element less; the bucket before is the last one if its bucket is empty
\* now and is not the first.
LEMMA PoppedShape ==
  ASSUME NEW f, NEW k, NEW n, NEW s, Shape(f, k, n, s), f[n] > 0, NEW m,
         m = IF f[n] = 1 /\ n > 1 THEN n - 1 ELSE n, NEW g \in [1 .. k -> Nat],
         \A b \in 1 .. k : g[b] = IF b = n THEN f[b] - 1 ELSE f[b]
  PROVE  Shape(g, k, m, s - 1)
<1>1. /\ k \in Nat /\ n \in Nat /\ n >= 1 /\ n <= k /\ s \in Nat /\ f[n] \in Nat
      /\ f[n] <= BucketSize /\ s = Before(n) + f[n] /\ s <= MaxSize
  <2>1. /\ k \in Nat /\ n \in 1 .. k /\ s \in 0 .. MaxSize /\ f \in [1 .. k -> Nat]
        /\ f[n] <= BucketSize /\ s = Before(n) + f[n]
    BY DEF Shape
  <2>2. f[n] \in Nat
    BY <2>1
  <2>3. s \in Nat /\ n \in Nat /\ n >= 1 /\ n <= k /\ s <= MaxSize
    BY <2>1, Bounds
  <2> QED
    BY <2>1, <2>2, <2>3
<1>2. /\ Before(n) \in Nat
      /\ n > 1 => Before(n) = Before(n - 1) + BucketSize
  BY <1>1, Room
<1>3. s - 1 \in 0 .. MaxSize /\ m \in 1 .. k /\ m \in Nat
  <2>1. s > 0
    BY <1>1, <1>2
  <2>2. s - 1 \in 0 .. MaxSize
    BY <1>1, <2>1, Bounds
  <2>3. m \in 1 .. k /\ m \in Nat
    BY <1>1
  <2> QED
    BY <2>2, <2>3
<1>4. \A b \in 1 .. k : /\ f[b] <= BucketSize /\ f[b] \in Nat /\ b \in Nat
                        /\ b < n => f[b] = BucketSize
                        /\ b > n => f[b] = 0
  BY DEF Shape
<1>5. g[n] = f[n] - 1 /\ (m < n => g[m] = BucketSize)
  BY <1>1, <1>3, <1>4
<1>6. s - 1 = Before(m) + g[m] /\ (m > 1 => g[m] > 0)
  BY SMTT(30), <1>1, <1>2, <1>5, Bounds
<1>7. \A b \in 1 .. k : /\ g[b] <= BucketSize
                        /\ b < m => g[b] = BucketSize
                        /\ b > m => g[b] = 0
  <2> SUFFICES ASSUME NEW b \in 1 .. k
               PROVE  /\ g[b] <= BucketSize
                      /\ b < m => g[b] = BucketSize
                      /\ b > m => g[b] = 0
    OBVIOUS
  <2>1. /\ f[b] <= BucketSize /\ f[b] \in Nat /\ b \in Nat
        /\ b < n => f[b] = BucketSize
        /\ b > n => f[b] = 0
    BY <1>4
  <2>2. CASE b = n
    <3>1. g[b] = f[n] - 1
      BY <1>5, <2>2
    <3> QED
      BY <1>1, <1>3, <2>1, <2>2, <3>1, Bounds
  <2>3. CASE b # n
    <3>1. g[b] = f[b]
      BY <2>3
    <3>2. m = n \/ m = n - 1
      OBVIOUS
    <3> QED
      BY SMTT(30), <1>1, <1>3, <2>1, <2>3, <3>1, <3>2, Bounds
  <2> QED BY <2>2, <2>3
<1> QED
  BY <1>1, <1>3, <1>6, <1>7 DEF Shape

\* The buckets after the last one hold nothing and may go.
LEMMA ShrunkShape ==
  ASSUME NEW f, NEW k, NEW n, NEW s, Shape(f, k, n, s), NEW g \in [1 .. n -> Nat],
         \A b \in 1 .. n : g[b] = f[b]
  PROVE  Shape(g, n, n, s)
BY DEF Shape

\* Buckets that hold nothing, one at least.
LEMMA EmptyShape ==
  ASSUME NEW k \in Nat, k >= 1, NEW g \in [1 .. k -> Nat], \A b \in 1 .. k : g[b] = 0
  PROVE  Shape(g, k, 1, 0)
<1>1. Before(1) = 0
  BY Room
<1> QED
  BY <1>1, Bounds DEF Shape

-----------------------------------------------------------------------------
(* Lemmas about chains.                                                    *)

\* A chain of buckets that are all empty, however many.
LEMMA ClearedOK ==
  ASSUME NEW c, NEW k \in Nat, k >= 1, c = [b \in 1 .. k |-> <<>>]
  PROVE  ListOK(c, 1, 0)
<1>1. <<>> \in Seq(Values)
  OBVIOUS
<1>2. c \in Seq(Seq(Values)) /\ Len(c) = k
  BY <1>1
<1>3. \A b \in 1 .. k : Lens(c)[b] = 0
  BY <1>2, LensType
<1> QED
  BY <1>2, <1>3, LensType, EmptyShape DEF ListOK

\* A chain that is as long at least, its new buckets empty, and an element at the
\* end of the last bucket that is not full.
LEMMA PushedOnto ==
  ASSUME NEW c, NEW n, NEW s, ListOK(c, n, s), s < MaxSize, NEW v \in Values,
         NEW d \in Seq(Seq(Values)), NEW m \in 1 .. Len(d), Len(c) <= Len(d),
         m = IF Len(c[n]) < BucketSize THEN n ELSE n + 1,
         \A b \in 1 .. Len(d) : IF b <= Len(c) THEN b \in 1 .. Len(c) /\ d[b] = c[b]
                                ELSE d[b] = <<>>
  PROVE  /\ ListOK([d EXCEPT ![m] = Append(d[m], v)], m, s + 1)
         /\ Len(d[m]) < BucketSize /\ n <= m /\ n \in Nat /\ m \in Nat /\ s \in Nat
<1> DEFINE e == [d EXCEPT ![m] = Append(d[m], v)]
           k == Len(c)
<1>1. /\ c \in Seq(Seq(Values)) /\ k \in Nat /\ n \in Nat /\ n >= 1 /\ n <= k
      /\ Shape(Lens(c), k, n, s) /\ n \in 1 .. k /\ s \in Nat
  BY Bounds, LensType DEF ListOK, Shape
<1>2. \A b \in 1 .. k : /\ c[b] \in Seq(Values) /\ Lens(c)[b] = Len(c[b])
                        /\ Len(c[b]) \in Nat
  BY SMTT(30), <1>1, LensType
<1>3. /\ Lens(c)[n] <= BucketSize
      /\ \A b \in 1 .. k : b > n => Lens(c)[b] = 0
  BY <1>1 DEF Shape
<1>4. <<>> \in Seq(Values) /\ Len(<<>>) = 0
  OBVIOUS
<1>5. /\ d \in Seq(Seq(Values)) /\ Len(d) \in Nat /\ k <= Len(d) /\ m \in 1 .. Len(d)
      /\ \A b \in 1 .. Len(d) : IF b <= k THEN b \in 1 .. k /\ d[b] = c[b]
                                ELSE d[b] = <<>>
  OBVIOUS
<1>6. d[m] \in Seq(Values) /\ Len(d[m]) \in Nat
  BY <1>5
<1>7. Len(d[m]) < BucketSize
  <2>1. CASE m = n
    BY <1>1, <1>5, <2>1
  <2>2. CASE m # n /\ m <= k
    <3>1. m \in 1 .. k /\ m > n /\ d[m] = c[m]
      BY <1>1, <1>5, <2>2
    <3>2. Lens(c)[m] = 0 /\ Lens(c)[m] = Len(c[m])
      BY <1>2, <1>3, <3>1
    <3> QED
      BY <3>1, <3>2, Bounds
  <2>3. CASE ~(m <= k)
    BY <1>4, <1>5, <2>3, Bounds
  <2> QED BY <2>1, <2>2, <2>3
<1>8. Append(d[m], v) \in Seq(Values) /\ Len(Append(d[m], v)) = Len(d[m]) + 1
  BY <1>6
<1>9. /\ e \in Seq(Seq(Values)) /\ Len(e) = Len(d)
      /\ \A b \in 1 .. Len(d) : e[b] = IF b = m THEN Append(d[m], v) ELSE d[b]
  BY <1>5, BucketAppended
<1> HIDE DEF e
<1>10. /\ Lens(e) \in [1 .. Len(d) -> Nat]
       /\ \A b \in 1 .. Len(d) : Lens(e)[b] = Len(e[b])
  BY <1>9, LensType
<1>11. \A b \in 1 .. Len(d) : Len(d[b]) = IF b <= k THEN Lens(c)[b] ELSE 0
  BY <1>2, <1>4, <1>5
<1>12. \A b \in 1 .. Len(d) :
         Lens(e)[b] = IF b = m THEN (IF b <= k THEN Lens(c)[b] ELSE 0) + 1
                      ELSE IF b <= k THEN Lens(c)[b] ELSE 0
  BY <1>8, <1>9, <1>10, <1>11
<1>13. m = IF Lens(c)[n] < BucketSize THEN n ELSE n + 1
  BY <1>1, <1>2
<1>14. Shape(Lens(e), Len(d), m, s + 1)
  <2> DEFINE f == Lens(c)
             g == Lens(e)
             k2 == Len(d)
  <2>1. /\ Shape(f, k, n, s) /\ k2 \in Nat /\ k <= k2 /\ m \in 1 .. k2
        /\ g \in [1 .. k2 -> Nat] /\ m = IF f[n] < BucketSize THEN n ELSE n + 1
        /\ \A b \in 1 .. k2 : g[b] = IF b = m THEN (IF b <= k THEN f[b] ELSE 0) + 1
                                      ELSE IF b <= k THEN f[b] ELSE 0
    BY <1>1, <1>5, <1>10, <1>12, <1>13
  <2> HIDE DEF k, f, g, k2
  <2>2. Shape(g, k2, m, s + 1)
    BY <2>1, PushedShape
  <2> QED
    BY <2>2 DEF g, k2
<1>15. n <= m /\ n \in Nat /\ m \in Nat
  BY <1>1
<1> QED
  BY <1>1, <1>7, <1>9, <1>14, <1>15 DEF ListOK, e

\* A chain as maybe_grow leaves it, and an element at the end of bucket m.
GrownLast(c, n) == IF Len(c[n]) < BucketSize THEN n ELSE n + 1
GrownChain(c, n) ==
  IF Len(c[n]) < BucketSize \/ n # Len(c) THEN c ELSE Append(c, <<>>)

\* A chain stays well formed when an element is pushed.
LEMMA PushedOK ==
  ASSUME NEW c, NEW n, NEW s, ListOK(c, n, s), s < MaxSize, NEW v \in Values
  PROVE  /\ ListOK([GrownChain(c, n) EXCEPT ![GrownLast(c, n)] =
                      Append(GrownChain(c, n)[GrownLast(c, n)], v)],
                   GrownLast(c, n), s + 1)
         /\ n <= GrownLast(c, n) /\ n \in Nat /\ GrownLast(c, n) \in Nat /\ s \in Nat
<1> DEFINE k == Len(c)
           d == GrownChain(c, n)
           m == GrownLast(c, n)
<1>0. /\ m = IF Len(c[n]) < BucketSize THEN n ELSE n + 1
      /\ d = IF Len(c[n]) < BucketSize \/ n # k THEN c ELSE Append(c, <<>>)
  BY DEF GrownLast, GrownChain
<1> HIDE DEF d, m
<1>1. /\ c \in Seq(Seq(Values)) /\ k \in Nat /\ n \in Nat /\ n >= 1 /\ n <= k
      /\ Shape(Lens(c), k, n, s) /\ n \in 1 .. k /\ s \in Nat
  BY Bounds, LensType DEF ListOK, Shape
<1>2. /\ d \in Seq(Seq(Values)) /\ Len(d) \in Nat /\ k <= Len(d) /\ m \in 1 .. Len(d)
      /\ \A b \in 1 .. Len(d) : IF b <= k THEN b \in 1 .. k /\ d[b] = c[b]
                                ELSE d[b] = <<>>
  <2>1. CASE Len(c[n]) < BucketSize \/ n # k
    BY <1>0, <1>1, <2>1
  <2>2. CASE ~(Len(c[n]) < BucketSize \/ n # k)
    <3>1. d = Append(c, <<>>) /\ m = k + 1
      BY <1>0, <2>2
    <3>2. d \in Seq(Seq(Values)) /\ Len(d) = k + 1 /\ d[k + 1] = <<>>
          /\ \A b \in 1 .. k : d[b] = c[b]
      BY <1>1, <3>1
    <3>3. \A b \in 1 .. k + 1 : IF b <= k THEN b \in 1 .. k ELSE b = k + 1
      <4>1. k \in Nat
        BY <1>1
      <4> HIDE DEF k
      <4> QED
        BY <4>1
    <3> QED
      BY <1>1, <3>1, <3>2, <3>3
  <2> QED BY <2>1, <2>2
<1> QED
  BY <1>0, <1>2, PushedOnto DEF d, m

\* The last element goes.
LEMMA PoppedOK ==
  ASSUME NEW c, NEW n, NEW s, ListOK(c, n, s), c[n] # <<>>
  PROVE  ListOK([c EXCEPT ![n] = Front(c[n])],
                IF Len(c[n]) = 1 /\ n > 1 THEN n - 1 ELSE n, s - 1)
<1> DEFINE e == [c EXCEPT ![n] = Front(c[n])]
           k == Len(c)
<1>1. /\ c \in Seq(Seq(Values)) /\ k \in Nat /\ n \in 1 .. k
      /\ Shape(Lens(c), k, n, s)
  BY LensType DEF ListOK, Shape
<1>2. \A b \in 1 .. k : c[b] \in Seq(Values) /\ Lens(c)[b] = Len(c[b]) /\ Len(c[b]) \in Nat
  BY <1>1, LensType
<1>3. Len(c[n]) > 0 /\ Front(c[n]) \in Seq(Values) /\ Len(Front(c[n])) = Len(c[n]) - 1
  BY <1>1, <1>2 DEF Front
<1>4. /\ e \in Seq(Seq(Values)) /\ Len(e) = k
      /\ \A b \in 1 .. k : e[b] = IF b = n THEN Front(c[n]) ELSE c[b]
  BY <1>1, <1>3
<1> HIDE DEF e
<1>5. Lens(e) \in [1 .. k -> Nat] /\ \A b \in 1 .. k : Lens(e)[b] = Len(e[b])
  BY <1>4, LensType
<1>6. \A b \in 1 .. k : Lens(e)[b] = IF b = n THEN Lens(c)[b] - 1 ELSE Lens(c)[b]
  BY <1>2, <1>3, <1>4, <1>5
<1>7. Lens(c)[n] > 0 /\ (Lens(c)[n] = 1 <=> Len(c[n]) = 1)
  BY <1>1, <1>2, <1>3
<1> HIDE DEF k
<1>8. Shape(Lens(e), k, IF Len(c[n]) = 1 /\ n > 1 THEN n - 1 ELSE n, s - 1)
  BY SMTT(30), <1>1, <1>5, <1>6, <1>7, PoppedShape
<1> QED
  BY <1>4, <1>8 DEF ListOK, e

\* The buckets after the last one go.
LEMMA ShrunkOK ==
  ASSUME NEW c, NEW n, NEW s, ListOK(c, n, s)
  PROVE  ListOK(SubSeq(c, 1, n), n, s)
<1> DEFINE d == SubSeq(c, 1, n)
<1>1. /\ c \in Seq(Seq(Values)) /\ n \in Nat /\ n >= 1 /\ n <= Len(c) /\ Len(c) \in Nat
      /\ Shape(Lens(c), Len(c), n, s)
  BY LensType DEF ListOK, Shape
<1>2. d \in Seq(Seq(Values)) /\ Len(d) = n /\ \A b \in 1 .. n : d[b] = c[b]
  BY <1>1
<1> HIDE DEF d
<1>3. \A b \in 1 .. n : b \in 1 .. Len(c)
  BY <1>1
<1>4. Lens(d) \in [1 .. n -> Nat] /\ \A b \in 1 .. n : Lens(d)[b] = Lens(c)[b]
  BY <1>1, <1>2, <1>3, LensType
<1>5. Shape(Lens(d), n, n, s)
  BY <1>1, <1>4, ShrunkShape
<1> QED
  BY <1>2, <1>5 DEF ListOK, d

\* An assignment visits the buckets up to the last one, or none.
LEMMA FilledBuckets ==
  ASSUME NEW c, NEW n, NEW s, ListOK(c, n, s)
  PROVE  Filled(c) = IF s = 0 THEN 0 ELSE n
<1> DEFINE d == Append(c, <<>>)
           k == Len(c)
           I == {i \in 1 .. Len(d) : d[i] = <<>>}
           f == Lens(c)
<1>1. /\ c \in Seq(Seq(Values)) /\ n \in Nat /\ n >= 1 /\ n <= k /\ k \in Nat
      /\ Shape(f, k, n, s) /\ s \in Nat /\ f[n] \in Nat /\ s = Before(n) + f[n]
      /\ n > 1 => f[n] > 0
  BY Bounds, LensType DEF ListOK, Shape
<1>2. \A b \in 1 .. k : c[b] = <<>> <=> f[b] = 0
  BY <1>1, LensType
<1>3. Len(d) = k + 1 /\ d[k + 1] = <<>> /\ \A i \in 1 .. k : d[i] = c[i]
  BY <1>1
<1>4. \A b \in 1 .. k : (b < n => f[b] = BucketSize) /\ (b > n => f[b] = 0)
  BY <1>1 DEF Shape
<1> HIDE DEF d, k, f
<1>5. \A i \in 1 .. k + 1 : i \in I <=> i = k + 1 \/ (i \in 1 .. k /\ f[i] = 0)
  <2>1. \A i \in 1 .. k + 1 : i \in 1 .. k \/ i = k + 1
    BY <1>1
  <2> QED
    BY <1>2, <1>3, <2>1
<1>6. I \subseteq 1 .. k + 1
  BY <1>3
<1> DEFINE M == CHOOSE z \in I : \A y \in I : z <= y
<1>7. k + 1 \in I => Filled(c) = M - 1
  BY DEF Filled, SelectInSeq, Min, d
<1>8. k + 1 \in I
  BY <1>1, <1>5
<1> HIDE DEF I
<1>9. \A x \in I : (\A y \in I : x <= y) => M = x
  <2> SUFFICES ASSUME NEW x \in I, \A y \in I : x <= y PROVE M = x
    OBVIOUS
  <2>1. M \in I /\ \A y \in I : M <= y
    OBVIOUS
  <2> HIDE DEF M
  <2>2. M <= x /\ x <= M /\ M \in Int /\ x \in Int
    BY <1>1, <1>6, <2>1
  <2> QED
    BY <2>2
<1> HIDE DEF M
<1>10. n = 1 => Before(n) = 0
  BY <1>1, Room
<1>11. CASE s = 0
  <2>1. n = 1 /\ f[1] = 0
    <3>1. Before(n) \in Nat
      BY <1>1, Room
    <3> QED
      BY <1>1, <1>10, <1>11, <3>1
  <2>2. 1 \in I /\ \A y \in I : 1 <= y
    BY <1>1, <1>5, <1>6, <2>1
  <2> QED
    BY <1>7, <1>8, <1>9, <1>11, <2>2
<1>12. CASE s # 0
  <2>1. f[n] > 0
    BY <1>1, <1>10, <1>12
  <2>2. \A i \in 1 .. n : i \in 1 .. k /\ f[i] # 0
    BY <1>1, <1>4, <2>1, Bounds
  <2>3. n + 1 \in I
    <3>1. n + 1 \in 1 .. k + 1 /\ (n + 1 = k + 1 \/ n + 1 \in 1 .. k)
      BY <1>1
    <3> QED
      BY <1>1, <1>4, <1>5, <3>1
  <2>4. \A y \in I : n + 1 <= y
    <3> SUFFICES ASSUME NEW y \in I, ~(n + 1 <= y) PROVE FALSE
      OBVIOUS
    <3>1. y \in 1 .. n /\ y \in 1 .. k + 1 /\ y # k + 1
      BY <1>1, <1>6
    <3> QED
      BY <1>5, <2>2, <3>1
  <2>5. M = n + 1
    BY <1>9, <2>3, <2>4
  <2>6. Filled(c) = M - 1
    BY <1>7, <1>8
  <2>7. Filled(c) = n
    <3>1. (n + 1) - 1 = n
      BY <1>1
    <3> QED
      BY <2>5, <2>6, <3>1
  <2> QED
    BY <1>12, <2>7
<1> QED BY <1>11, <1>12

\* A new list that is assigned one that is not empty takes the buckets up to the
\* last over.
LEMMA AssignedBuckets ==
  ASSUME NEW c, NEW n, NEW s, ListOK(c, n, s), s # 0
  PROVE  Assigned(<< <<>> >>, c) = SubSeq(c, 1, n)
<1>1. /\ c \in Seq(Seq(Values)) /\ n \in Nat /\ n >= 1 /\ n <= Len(c) /\ Len(c) \in Nat
      /\ s \in Nat
  BY Bounds, LensType DEF ListOK, Shape
<1>2. Filled(c) = n BY FilledBuckets
<1>3. CASE n = 1
  <2>1. Assigned(<< <<>> >>, c) = <<Head(c)>> \o Tail(<< <<>> >>)
    BY <1>2, <1>3 DEF Assigned
  <2>2. Head(c) = c[1]
    BY <1>1
  <2> DEFINE x == c[1]
  <2>3. <<x>> \o Tail(<< <<>> >>) = <<x>>
    OBVIOUS
  <2>4. SubSeq(c, 1, 1) = <<x>>
    <3>1. SubSeq(c, 1, 1) = [i \in 1 .. 1 |-> c[i]]
      BY <1>1
    <3>2. <<x>> = [i \in 1 .. 1 |-> x]
      OBVIOUS
    <3>3. \A i \in 1 .. 1 : c[i] = x
      OBVIOUS
    <3> QED
      BY <3>1, <3>2, <3>3
  <2> QED
    BY <1>3, <2>1, <2>2, <2>3, <2>4
<1>4. CASE n # 1
  BY <1>1, <1>2, <1>4 DEF Assigned
<1> QED BY <1>3, <1>4

\* A new list that is assigned another one holds its buckets up to the last.
LEMMA AssignedOK ==
  ASSUME NEW c, NEW n, NEW s, ListOK(c, n, s)
  PROVE  ListOK(Assigned(<< <<>> >>, c), IF s = 0 THEN 1 ELSE Filled(c), s)
<1>0. /\ c \in Seq(Seq(Values)) /\ n \in Nat /\ n >= 1 /\ n <= Len(c) /\ Len(c) \in Nat
      /\ s \in Nat
  BY Bounds, LensType DEF ListOK, Shape
<1>1. CASE s = 0
  <2>1. Filled(c) = 0
    BY <1>1, FilledBuckets
  <2>2. Assigned(<< <<>> >>, c) = << <<>> >>
    BY <2>1 DEF Assigned
  <2>3. << <<>> >> = [b \in 1 .. 1 |-> <<>>]
    OBVIOUS
  <2>4. ListOK(<< <<>> >>, 1, 0)
    <3> DEFINE new == << <<>> >>
    <3>1. new = [b \in 1 .. 1 |-> <<>>]
      BY <2>3
    <3> HIDE DEF new
    <3>2. 1 \in Nat /\ 1 >= 1
      OBVIOUS
    <3>3. ListOK(new, 1, 0)
      BY <3>1, <3>2, ClearedOK
    <3> QED
      BY <3>3 DEF new
  <2> QED
    BY <1>1, <2>2, <2>4
<1>2. CASE s # 0
  <2>1. Filled(c) = n
    BY <1>2, FilledBuckets
  <2>2. Assigned(<< <<>> >>, c) = SubSeq(c, 1, n)
    BY <1>2, AssignedBuckets
  <2>3. ListOK(SubSeq(c, 1, n), n, s)
    BY ShrunkOK
  <2> QED
    BY <1>2, <2>1, <2>2, <2>3
<1> QED BY <1>1, <1>2

-----------------------------------------------------------------------------
(* The inductive invariant: each list is in shape and so is its iterator.  *)

IInv ==
  /\ chain = [l \in Lists |-> chain[l]] /\ last = [l \in Lists |-> last[l]]
  /\ size = [l \in Lists |-> size[l]] /\ iter = [l \in Lists |-> iter[l]]
  /\ \A l \in Lists : /\ ListOK(chain[l], last[l], size[l])
                      /\ IterOK(iter[l], last[l], size[l])

\* An iterator that may visit nothing is in shape.
LEMMA NoIterOK == \A n, s : IterOK(NoIter, n, s)
BY Bounds DEF IterOK, NoIter, Iterators

\* An iterator stays in shape while its list grows.
LEMMA IterStays ==
  ASSUME NEW it, NEW n \in Nat, NEW s \in Nat, IterOK(it, n, s),
         NEW m \in Nat, n <= m, NEW r \in Nat, s <= r
  PROVE  IterOK(it, m, r)
<1>1. /\ it \in Iterators /\ it.bucket \in Nat /\ it.bucket >= 1 /\ it.last \in Nat
      /\ it.idx \in Nat /\ it.left \in Nat
  BY Bounds DEF IterOK, Iterators
<1>2. Before(it.bucket) \in Nat
  BY <1>1, Room
<1> QED
  BY <1>1, <1>2 DEF IterOK

\* What a list in shape is made of.
LEMMA ListFacts ==
  ASSUME NEW c, NEW n, NEW s, ListOK(c, n, s)
  PROVE  /\ c \in Seq(Seq(Values)) /\ Len(c) \in Nat /\ n \in Nat /\ n >= 1
         /\ n <= Len(c) /\ n \in 1 .. Len(c) /\ s \in Nat /\ s \in 0 .. MaxSize
         /\ \A b \in 1 .. Len(c) :
              /\ c[b] \in Seq(Values) /\ Len(c[b]) \in Nat /\ Len(c[b]) <= BucketSize
              /\ b < n => Len(c[b]) = BucketSize
              /\ b > n => c[b] = <<>>
         /\ n > 1 => c[n] # <<>>
         /\ s = Before(n) + Len(c[n])
<1>1. c \in Seq(Seq(Values)) /\ Shape(Lens(c), Len(c), n, s)
  BY DEF ListOK
<1>2. /\ Len(c) \in Nat
      /\ \A b \in 1 .. Len(c) :
           /\ c[b] \in Seq(Values) /\ Lens(c)[b] = Len(c[b])
           /\ c[b] = <<>> <=> Lens(c)[b] = 0
  BY <1>1, LensType
<1>3. /\ n \in 1 .. Len(c) /\ s \in 0 .. MaxSize
      /\ \A b \in 1 .. Len(c) : /\ Lens(c)[b] <= BucketSize /\ Lens(c)[b] \in Nat
                                /\ b < n => Lens(c)[b] = BucketSize
                                /\ b > n => Lens(c)[b] = 0
      /\ n > 1 => Lens(c)[n] > 0
      /\ s = Before(n) + Lens(c)[n]
  BY <1>1 DEF Shape
<1>4. n \in Nat /\ n >= 1 /\ n <= Len(c) /\ s \in Nat
  BY <1>2, <1>3, Bounds
<1>5. \A b \in 1 .. Len(c) :
        /\ c[b] \in Seq(Values) /\ Len(c[b]) \in Nat /\ Len(c[b]) <= BucketSize
        /\ b < n => Len(c[b]) = BucketSize
        /\ b > n => c[b] = <<>>
  BY <1>2, <1>3
<1>6. (n > 1 => c[n] # <<>>) /\ s = Before(n) + Len(c[n])
  <2>1. /\ Lens(c)[n] = Len(c[n])
        /\ c[n] = <<>> <=> Lens(c)[n] = 0
    BY <1>2, <1>3
  <2> QED
    BY <1>3, <2>1
<1> QED
  BY <1>1, <1>2, <1>3, <1>4, <1>5, <1>6

\* An iteration begins: it may visit what the list holds.
LEMMA BeginOK ==
  ASSUME NEW c, NEW n, NEW s, ListOK(c, n, s)
  PROVE  IterOK([bucket |-> 1, idx |-> 0, last |-> n, left |-> s], n, s)
<1>1. /\ n \in Nat /\ n >= 1 /\ n \in 1 .. Len(c) /\ s \in Nat /\ s \in 0 .. MaxSize
      /\ Len(c[n]) \in Nat /\ Len(c[n]) <= BucketSize /\ s = Before(n) + Len(c[n])
  BY ListFacts
<1>2. Before(1) = 0 /\ Before(n) \in Nat /\ Before(n + 1) = Before(n) + BucketSize
  BY <1>1, Room
<1>3. s <= Before(n + 1)
  BY <1>1, <1>2, Bounds
<1> QED
  BY <1>1, <1>2, <1>3, Bounds DEF IterOK, Iterators

\* An iterator goes on.
LEMMA ReadOK ==
  ASSUME NEW it, NEW n \in Nat, NEW s \in Nat, IterOK(it, n, s), it.left > 0
  PROVE  IterOK(IF it.idx + 1 = BucketSize /\ it.bucket # it.last
                THEN [bucket |-> it.bucket + 1, idx |-> 0,
                      last |-> it.last, left |-> it.left - 1]
                ELSE [bucket |-> it.bucket, idx |-> it.idx + 1,
                      last |-> it.last, left |-> it.left - 1], n, s)
<1>1. /\ it \in Iterators /\ it.bucket \in Nat /\ it.bucket >= 1 /\ it.last \in Nat
      /\ it.last >= 1 /\ it.idx \in Nat /\ it.left \in Nat /\ it.left <= MaxSize
      /\ it.bucket <= it.last /\ it.last <= n /\ it.idx < BucketSize
      /\ Before(it.bucket) + it.idx + it.left <= s
      /\ Before(it.bucket) + it.idx + it.left <= Before(it.last + 1)
  BY Bounds DEF IterOK, Iterators
<1>2. /\ Before(it.bucket) \in Nat
      /\ Before(it.bucket + 1) = Before(it.bucket) + BucketSize
  BY <1>1, Room
<1>3. CASE it.idx + 1 = BucketSize /\ it.bucket # it.last
  <2> DEFINE j == [bucket |-> it.bucket + 1, idx |-> 0,
                   last |-> it.last, left |-> it.left - 1]
  <2>1. /\ j \in Iterators /\ j.bucket = it.bucket + 1 /\ j.idx = 0
        /\ j.last = it.last /\ j.left = it.left - 1
    <3>1. /\ it.bucket + 1 \in Nat \ {0} /\ 0 \in 0 .. BucketSize
          /\ it.last \in Nat \ {0} /\ it.left - 1 \in 0 .. MaxSize
      BY <1>1, Bounds
    <3> QED
      BY <3>1 DEF Iterators
  <2> HIDE DEF j
  <2>2. Before(j.bucket) + j.idx + j.left = Before(it.bucket) + it.idx + it.left
    BY <1>1, <1>2, <1>3, <2>1, Bounds
  <2>3. IterOK(j, n, s)
    BY <1>1, <1>3, <2>1, <2>2, Bounds DEF IterOK
  <2> QED
    BY <1>3, <2>3 DEF j
<1>4. CASE ~(it.idx + 1 = BucketSize /\ it.bucket # it.last)
  <2> DEFINE j == [bucket |-> it.bucket, idx |-> it.idx + 1,
                   last |-> it.last, left |-> it.left - 1]
  <2>1. /\ j \in Iterators /\ j.bucket = it.bucket /\ j.idx = it.idx + 1
        /\ j.last = it.last /\ j.left = it.left - 1
    <3>1. /\ it.bucket \in Nat \ {0} /\ it.idx + 1 \in 0 .. BucketSize
          /\ it.last \in Nat \ {0} /\ it.left - 1 \in 0 .. MaxSize
      BY <1>1, Bounds
    <3> QED
      BY <3>1 DEF Iterators
  <2> HIDE DEF j
  <2>2. Before(j.bucket) + j.idx + j.left = Before(it.bucket) + it.idx + it.left
    BY <1>1, <1>2, <2>1
  <2>3. j.left > 0 => j.idx < BucketSize
    BY <1>1, <1>2, <1>4, <2>1, Bounds
  <2>4. IterOK(j, n, s)
    BY <1>1, <2>1, <2>2, <2>3 DEF IterOK
  <2> QED
    BY <1>4, <2>4 DEF j
<1> QED BY <1>3, <1>4

-----------------------------------------------------------------------------
(* The invariant holds at first and every step keeps it.                   *)

\* A step changes one list only, and leaves that one in shape.
LEMMA OneList ==
  ASSUME IInv, NEW l \in Lists, NEW c, NEW n, NEW s, NEW it,
         ListOK(c, n, s), IterOK(it, n, s),
         chain' = [chain EXCEPT ![l] = c], last' = [last EXCEPT ![l] = n],
         size' = [size EXCEPT ![l] = s], iter' = [iter EXCEPT ![l] = it]
  PROVE  IInv'
<1>1. /\ chain' = [q \in Lists |-> IF q = l THEN c ELSE chain[q]]
      /\ last' = [q \in Lists |-> IF q = l THEN n ELSE last[q]]
      /\ size' = [q \in Lists |-> IF q = l THEN s ELSE size[q]]
      /\ iter' = [q \in Lists |-> IF q = l THEN it ELSE iter[q]]
  BY DEF IInv
<1>2. \A q \in Lists : /\ ListOK(chain'[q], last'[q], size'[q])
                       /\ IterOK(iter'[q], last'[q], size'[q])
  <2> SUFFICES ASSUME NEW q \in Lists
               PROVE  /\ ListOK(chain'[q], last'[q], size'[q])
                      /\ IterOK(iter'[q], last'[q], size'[q])
    OBVIOUS
  <2>1. CASE q = l
    BY <1>1, <2>1
  <2>2. CASE q # l
    BY <1>1, <2>2 DEF IInv
  <2> QED BY <2>1, <2>2
<1>3. /\ chain' = [q \in Lists |-> chain'[q]] /\ last' = [q \in Lists |-> last'[q]]
      /\ size' = [q \in Lists |-> size'[q]] /\ iter' = [q \in Lists |-> iter'[q]]
  BY <1>1
<1> QED
  BY <1>2, <1>3 DEF IInv, ListOK, IterOK

\* The empty lists are well formed.
LEMMA InitOK == Init => IInv
<1> SUFFICES ASSUME Init PROVE IInv
  OBVIOUS
<1> DEFINE new == << <<>> >>
<1>1. new = [b \in 1 .. 1 |-> <<>>] /\ 1 \in Nat /\ 1 >= 1
  OBVIOUS
<1>2. \A l \in Lists : chain[l] = new /\ last[l] = 1 /\ size[l] = 0 /\ iter[l] = NoIter
  BY DEF Init
<1> HIDE DEF new
<1>3. ListOK(new, 1, 0)
  BY <1>1, ClearedOK
<1>4. \A l \in Lists : /\ ListOK(chain[l], last[l], size[l])
                       /\ IterOK(iter[l], last[l], size[l])
  BY <1>2, <1>3, NoIterOK
<1> QED
  BY <1>4 DEF Init, IInv

\* push_back keeps every list well formed.
LEMMA PushBackOK ==
  ASSUME IInv, NEW l \in Lists, NEW v \in Values, PushBack(l, v)
  PROVE  IInv'
<1> DEFINE x == chain[l]
           n == last[l]
           s == size[l]
           d == GrownChain(x, n)
           m == GrownLast(x, n)
           c == [d EXCEPT ![m] = Append(d[m], v)]
<1>1. ListOK(x, n, s) /\ IterOK(iter[l], n, s) /\ s < MaxSize
  BY DEF IInv, PushBack
<1>2. Grown(l).chain = d /\ Grown(l).last = m
  BY DEF Grown, GrownChain, GrownLast
<1>3. /\ chain' = [chain EXCEPT ![l] = c] /\ last' = [last EXCEPT ![l] = m]
      /\ size' = [size EXCEPT ![l] = s + 1] /\ iter' = [iter EXCEPT ![l] = iter[l]]
  BY <1>2 DEF PushBack, IInv
<1> HIDE DEF x, n, s
<1>4. ListOK(c, m, s + 1) /\ n <= m /\ n \in Nat /\ m \in Nat /\ s \in Nat
  BY <1>1, PushedOK
<1> HIDE DEF c, d, m
<1>5. IterOK(iter[l], m, s + 1)
  <2>1. s + 1 \in Nat /\ s <= s + 1
    BY <1>4
  <2> QED
    BY <1>1, <1>4, <2>1, IterStays
<1> QED
  BY <1>3, <1>4, <1>5, OneList

\* pop_back keeps every list well formed.
LEMMA PopBackOK == ASSUME IInv, NEW l \in Lists, PopBack(l) PROVE IInv'
<1> DEFINE c == [chain[l] EXCEPT ![last[l]] = Front(chain[l][last[l]])]
           n == IF Len(chain[l][last[l]]) = 1 /\ last[l] > 1 THEN last[l] - 1 ELSE last[l]
<1>1. ListOK(chain[l], last[l], size[l]) /\ chain[l][last[l]] # <<>>
  BY DEF IInv, PopBack
<1>2. /\ chain' = [chain EXCEPT ![l] = c] /\ last' = [last EXCEPT ![l] = n]
      /\ size' = [size EXCEPT ![l] = size[l] - 1] /\ iter' = [iter EXCEPT ![l] = NoIter]
  BY DEF PopBack, IInv
<1>3. ListOK(c, n, size[l] - 1)
  BY <1>1, PoppedOK
<1> HIDE DEF c, n
<1> QED
  BY <1>2, <1>3, NoIterOK, OneList

\* clear keeps every list well formed.
LEMMA ClearOK == ASSUME IInv, NEW l \in Lists, Clear(l) PROVE IInv'
<1> DEFINE c == [b \in DOMAIN chain[l] |-> <<>>]
           k == Len(chain[l])
<1>1. chain[l] \in Seq(Seq(Values)) /\ k \in Nat /\ k >= 1 /\ DOMAIN chain[l] = 1 .. k
  <2>1. ListOK(chain[l], last[l], size[l])
    BY DEF IInv
  <2> QED
    BY <2>1, ListFacts
<1>2. c = [b \in 1 .. k |-> <<>>]
  BY <1>1
<1>3. /\ chain' = [chain EXCEPT ![l] = c] /\ last' = [last EXCEPT ![l] = 1]
      /\ size' = [size EXCEPT ![l] = 0] /\ iter' = [iter EXCEPT ![l] = NoIter]
  BY DEF Clear, IInv
<1> HIDE DEF c, k
<1>4. ListOK(c, 1, 0)
  BY <1>1, <1>2, ClearedOK
<1> QED
  BY <1>3, <1>4, NoIterOK, OneList

\* shrink_to_fit keeps every list well formed.
LEMMA ShrinkOK == ASSUME IInv, NEW l \in Lists, ShrinkToFit(l) PROVE IInv'
<1> DEFINE c == SubSeq(chain[l], 1, last[l])
<1>1. ListOK(chain[l], last[l], size[l]) /\ IterOK(iter[l], last[l], size[l])
  BY DEF IInv
<1>2. /\ chain' = [chain EXCEPT ![l] = c] /\ last' = [last EXCEPT ![l] = last[l]]
      /\ size' = [size EXCEPT ![l] = size[l]] /\ iter' = [iter EXCEPT ![l] = iter[l]]
  BY DEF ShrinkToFit, IInv
<1>3. ListOK(c, last[l], size[l])
  BY <1>1, ShrunkOK
<1> HIDE DEF c
<1> QED
  BY <1>1, <1>2, <1>3, OneList

\* begin() keeps every list well formed.
LEMMA BeginReadOK == ASSUME IInv, NEW l \in Lists, Begin(l) \/ Read(l) PROVE IInv'
<1>1. /\ ListOK(chain[l], last[l], size[l]) /\ IterOK(iter[l], last[l], size[l])
      /\ last[l] \in Nat /\ size[l] \in Nat
  <2>1. ListOK(chain[l], last[l], size[l]) /\ IterOK(iter[l], last[l], size[l])
    BY DEF IInv
  <2> QED
    BY <2>1, ListFacts
<1>2. /\ chain' = [chain EXCEPT ![l] = chain[l]] /\ last' = [last EXCEPT ![l] = last[l]]
      /\ size' = [size EXCEPT ![l] = size[l]]
  BY DEF Begin, Read, IInv
<1>3. CASE Begin(l)
  <2> DEFINE it == [bucket |-> 1, idx |-> 0, last |-> last[l], left |-> size[l]]
  <2>1. IterOK(it, last[l], size[l])
    BY <1>1, BeginOK
  <2>2. iter' = [iter EXCEPT ![l] = it]
    BY <1>3 DEF Begin
  <2> HIDE DEF it
  <2> QED
    BY <1>1, <1>2, <2>1, <2>2, OneList
<1>4. CASE Read(l)
  <2> DEFINE old == iter[l]
             it == IF old.idx + 1 = BucketSize /\ old.bucket # old.last
                   THEN [bucket |-> old.bucket + 1, idx |-> 0,
                         last |-> old.last, left |-> old.left - 1]
                   ELSE [bucket |-> old.bucket, idx |-> old.idx + 1,
                         last |-> old.last, left |-> old.left - 1]
  <2>1. old.left > 0 /\ iter' = [iter EXCEPT ![l] = it]
    BY <1>4 DEF Read, IInv
  <2>2. IterOK(old, last[l], size[l])
    BY <1>1
  <2> HIDE DEF old
  <2>3. IterOK(it, last[l], size[l])
    BY <1>1, <2>1, <2>2, ReadOK
  <2> HIDE DEF it
  <2> QED
    BY <1>1, <1>2, <2>1, <2>3, OneList
<1> QED BY <1>3, <1>4

\* What a new list is assigned, from any list there is.
LEMMA CopyOK ==
  ASSUME IInv, NEW to \in Lists, NEW from \in Lists, IsNew(to), Copy(to, from)
  PROVE  IInv'
<1> DEFINE c == Assigned(<< <<>> >>, chain[from])
           n == IF size[from] = 0 THEN 1 ELSE Filled(chain[from])
<1>1. ListOK(chain[from], last[from], size[from])
  BY DEF IInv
<1>2. /\ chain' = [chain EXCEPT ![to] = c] /\ last' = [last EXCEPT ![to] = n]
      /\ size' = [size EXCEPT ![to] = size[from]] /\ iter' = [iter EXCEPT ![to] = NoIter]
  BY DEF Copy, IsNew, IInv
<1>3. ListOK(c, n, size[from])
  BY <1>1, AssignedOK
<1> HIDE DEF c, n
<1> QED
  BY <1>2, <1>3, NoIterOK, OneList

\* A move is a copy, after which the list moved from is cleared.
LEMMA MoveOK ==
  ASSUME IInv, NEW to \in Lists, NEW from \in Lists, IsNew(to), Move(to, from)
  PROVE  IInv'
<1> DEFINE c == Assigned(<< <<>> >>, chain[from])
           n == IF size[from] = 0 THEN 1 ELSE Filled(chain[from])
           k == Len(chain[from])
           e == [b \in DOMAIN chain[from] |->
                   IF b <= Filled(chain[from]) THEN <<>> ELSE chain[from][b]]
<1>1. ListOK(chain[from], last[from], size[from]) /\ to # from
  BY DEF IInv, Move
<1>2. /\ chain[from] \in Seq(Seq(Values)) /\ k \in Nat /\ k >= 1
      /\ DOMAIN chain[from] = 1 .. k /\ last[from] \in Nat /\ last[from] >= 1
      /\ last[from] \in 1 .. k
      /\ \A b \in 1 .. k : b > last[from] => chain[from][b] = <<>>
      /\ last[from] > 1 => chain[from][last[from]] # <<>>
      /\ size[from] \in Nat /\ size[from] = Before(last[from]) + Len(chain[from][last[from]])
      /\ Len(chain[from][last[from]]) \in Nat
      /\ chain[from][last[from]] \in Seq(Values)
  BY <1>1, ListFacts
<1>3. \A b \in 1 .. k : ~(b <= Filled(chain[from])) => chain[from][b] = <<>>
  <2>1. CASE size[from] = 0
    <3>1. last[from] = 1 /\ Len(chain[from][1]) = 0
      <4>1. Before(last[from]) \in Nat
        BY <1>2, Room
      <4>2. Len(chain[from][last[from]]) = 0
        BY <1>2, <2>1, <4>1
      <4>3. chain[from][last[from]] = <<>>
        BY <1>2, <4>2
      <4> QED
        BY <1>2, <4>2, <4>3
    <3>2. chain[from][1] = <<>>
      BY <1>2, <3>1
    <3>3. \A b \in 1 .. k : b = 1 \/ b > 1
      BY <1>2
    <3> QED
      BY <1>2, <3>1, <3>2, <3>3
  <2>2. CASE size[from] # 0
    <3>1. Filled(chain[from]) = last[from]
      BY <1>1, <2>2, FilledBuckets
    <3> QED
      BY <1>2, <3>1
  <2> QED BY <2>1, <2>2
<1>4. e = [b \in 1 .. k |-> <<>>]
  BY <1>2, <1>3
<1>5. ListOK(c, n, size[from])
  BY <1>1, AssignedOK
<1>6. /\ chain' = [chain EXCEPT ![to] = c, ![from] = e]
      /\ last' = [last EXCEPT ![to] = n, ![from] = 1]
      /\ size' = [size EXCEPT ![to] = size[from], ![from] = 0]
      /\ iter' = [iter EXCEPT ![to] = NoIter, ![from] = NoIter]
  BY <1>1 DEF Move, IsNew, IInv
<1> HIDE DEF c, n, e, k
<1>7. ListOK(e, 1, 0)
  BY <1>2, <1>4, ClearedOK
<1>8. /\ chain' = [q \in Lists |-> IF q = from THEN e ELSE IF q = to THEN c ELSE chain[q]]
      /\ last' = [q \in Lists |-> IF q = from THEN 1 ELSE IF q = to THEN n ELSE last[q]]
      /\ size' = [q \in Lists |-> IF q = from THEN 0
                                  ELSE IF q = to THEN size[from] ELSE size[q]]
      /\ iter' = [q \in Lists |-> IF q = from \/ q = to THEN NoIter ELSE iter[q]]
  BY <1>1, <1>6 DEF IInv
<1>9. \A q \in Lists : /\ ListOK(chain'[q], last'[q], size'[q])
                       /\ IterOK(iter'[q], last'[q], size'[q])
  <2> SUFFICES ASSUME NEW q \in Lists
               PROVE  /\ ListOK(chain'[q], last'[q], size'[q])
                      /\ IterOK(iter'[q], last'[q], size'[q])
    OBVIOUS
  <2>1. CASE q = from
    BY <1>7, <1>8, <2>1, NoIterOK
  <2>2. CASE q = to /\ q # from
    BY <1>5, <1>8, <2>2, NoIterOK
  <2>3. CASE q # to /\ q # from
    BY <1>8, <2>3 DEF IInv
  <2> QED BY <2>1, <2>2, <2>3
<1>10. /\ chain' = [q \in Lists |-> chain'[q]] /\ last' = [q \in Lists |-> last'[q]]
       /\ size' = [q \in Lists |-> size'[q]] /\ iter' = [q \in Lists |-> iter'[q]]
  BY <1>8
<1> QED
  BY <1>9, <1>10 DEF IInv, ListOK, IterOK

\* So does every step.
LEMMA NextOK == IInv /\ [Next]_vars => IInv'
<1> SUFFICES ASSUME IInv, [Next]_vars PROVE IInv'
  OBVIOUS
<1>1. CASE Next
  <2>1. PICK l \in Lists : \/ OnList(l)
                           \/ IsNew(l) /\ \E from \in Lists : Copy(l, from) \/ Move(l, from)
    BY <1>1 DEF Next
  <2>2. CASE OnList(l)
    BY <2>2, PushBackOK, PopBackOK, ClearOK, ShrinkOK, BeginReadOK DEF OnList
  <2>3. CASE IsNew(l) /\ \E from \in Lists : Copy(l, from) \/ Move(l, from)
    BY <2>3, CopyOK, MoveOK
  <2> QED BY <2>1, <2>2, <2>3
<1>2. CASE UNCHANGED vars
  BY <1>2 DEF vars, IInv, ListOK, IterOK
<1> QED BY <1>1, <1>2

-----------------------------------------------------------------------------
(* The sequence a list stands for.                                         *)

\* What begin() to end() shows of a chain whose last bucket is n.
Cat(c, n) == FlattenSeq(SubSeq(c, 1, n))

\* What an iterator has still to read of it.
Rest(E, it) == SubSeq(E, Before(it.bucket) + it.idx + 1, Before(it.bucket) + it.idx + it.left)

\* Each bucket starts where the full ones before it end.
LEMMA CatIs ==
  ASSUME NEW c, NEW n, NEW s, ListOK(c, n, s)
  PROVE  /\ Cat(c, n) \in Seq(Values) /\ Len(Cat(c, n)) = s
         /\ \A b \in 1 .. n : \A r \in 1 .. Len(c[b]) :
              Before(b) + r \in 1 .. s /\ Cat(c, n)[Before(b) + r] = c[b][r]
         /\ \A k \in 1 .. s : \E b \in 1 .. n : \E r \in 1 .. Len(c[b]) : k = Before(b) + r
<1> DEFINE d == SubSeq(c, 1, n)
<1>1. /\ c \in Seq(Seq(Values)) /\ Len(c) \in Nat /\ n \in Nat /\ n >= 1 /\ n <= Len(c)
      /\ s \in Nat /\ s = Before(n) + Len(c[n])
      /\ \A b \in 1 .. Len(c) : /\ c[b] \in Seq(Values) /\ Len(c[b]) \in Nat
                                /\ b < n => Len(c[b]) = BucketSize
  BY ListFacts
<1>2. d \in Seq(Seq(Values)) /\ Len(d) = n /\ \A b \in 1 .. n : d[b] = c[b]
  BY <1>1
<1> HIDE DEF d
<1>3. PICK start : IsStart(start, d) BY <1>2, StartExists
<1>4. \A b \in 1 .. n : /\ start[b] \in Nat /\ start[b - 1] \in Nat
                        /\ start[b] = start[b - 1] + Len(c[b])
  <2> SUFFICES ASSUME NEW b \in 1 .. n
               PROVE  /\ start[b] \in Nat /\ start[b - 1] \in Nat
                      /\ start[b] = start[b - 1] + Len(c[b])
    OBVIOUS
  <2>1. b \in 1 .. Len(d) /\ d[b] = c[b] BY <1>2
  <2>2. b \in 0 .. Len(d) /\ b - 1 \in 0 .. Len(d) BY <1>1, <1>2
  <2>3. start[b] \in Nat /\ start[b - 1] \in Nat BY <1>2, <1>3, <2>2, StartTyped
  <2>4. start[b] = start[b - 1] + Len(d[b]) BY <1>3, <2>1 DEF IsStart
  <2> QED BY <2>1, <2>3, <2>4
<1> DEFINE T == {i \in 0 .. n : i # 0 => start[i - 1] = Before(i)}
<1>5. 0 \in T BY <1>1
<1>6. ASSUME NEW i \in 1 .. n, i - 1 \in T PROVE i \in T
  <2>1. CASE i = 1
    <3>1. start[0] = 0 /\ Before(1) = 0 BY <1>3, Room DEF IsStart
    <3> QED BY <1>1, <2>1, <3>1
  <2>2. CASE i # 1
    <3>1. i - 1 \in 1 .. n /\ i - 1 < n /\ i \in Nat /\ i > 1 /\ i - 1 \in 1 .. Len(c)
      BY <1>1, <2>2
    <3>2. start[(i - 1) - 1] = Before(i - 1) BY <1>6, <3>1
    <3>3. start[i - 1] = Before(i - 1) + BucketSize BY <1>1, <1>4, <3>1, <3>2
    <3>4. Before(i) = Before(i - 1) + BucketSize BY <3>1, Room
    <3> QED BY <3>3, <3>4
  <2> QED BY <2>1, <2>2
<1>7. \A b \in 1 .. n : start[b - 1] = Before(b)
  <2>1. 0 .. n \subseteq T
    <3> HIDE DEF T
    <3> QED BY <1>1, <1>5, <1>6, BoundedInduction
  <2> QED BY <1>1, <2>1
<1>8. start[n] = s
  <2> n \in 1 .. n BY <1>1
  <2> QED BY <1>1, <1>4, <1>7
<1>9. IsFlat(FlattenSeq(d), start, d, n, Values) BY <1>2, <1>3, FlattenIsFlat
<1> DEFINE F == FlattenSeq(d)
<1>10. Cat(c, n) = F BY DEF Cat, d
<1> HIDE DEF F
<1>11. /\ F \in Seq(Values) /\ Len(F) = s
       /\ \A b \in 1 .. n : \A r \in 1 .. Len(c[b]) : F[Before(b) + r] = c[b][r]
       /\ \A k \in 1 .. s : \E b \in 1 .. n : \E r \in 1 .. Len(c[b]) : k = Before(b) + r
  <2>1. /\ F \in Seq(Values) /\ Len(F) = s
        /\ \A b \in 1 .. n : \A r \in 1 .. Len(d[b]) : F[start[b - 1] + r] = d[b][r]
        /\ \A k \in 1 .. s : \E b \in 1 .. n : \E r \in 1 .. Len(d[b]) :
             k = start[b - 1] + r
    BY <1>8, <1>9 DEF IsFlat, F
  <2>2. ASSUME NEW k \in 1 .. s
        PROVE  \E b \in 1 .. n : \E r \in 1 .. Len(c[b]) : k = Before(b) + r
    <3>1. PICK b \in 1 .. n : \E r \in 1 .. Len(d[b]) : k = start[b - 1] + r BY <2>1
    <3> QED BY <1>2, <1>7, <3>1
  <2>3. ASSUME NEW b \in 1 .. n, NEW r \in 1 .. Len(c[b])
        PROVE  F[Before(b) + r] = c[b][r]
    <3>1. d[b] = c[b] /\ start[b - 1] = Before(b) BY <1>2, <1>7
    <3> QED BY <2>1, <3>1
  <2> QED BY <2>1, <2>2, <2>3
<1>12. ASSUME NEW b \in 1 .. n, NEW r \in 1 .. Len(c[b]) PROVE Before(b) + r \in 1 .. s
  <2>1. b \in 0 .. n /\ n \in 0 .. n /\ b \in 1 .. Len(c) BY <1>1
  <2>2. start[b] <= s BY <1>2, <1>3, <1>8, <2>1, StartMonotonic
  <2>3. start[b] = Before(b) + Len(c[b]) /\ Before(b) \in Nat BY <1>4, <1>7
  <2>4. Len(c[b]) \in Nat BY <1>1, <2>1
  <2>5. s \in Nat BY <1>1
  <2>6. r \in Nat /\ r >= 1 /\ r <= Len(c[b]) BY <2>4
  <2>7. Before(b) + Len(c[b]) <= s BY <2>2, <2>3
  <2> DEFINE B == Before(b)
             L == Len(c[b])
  <2>8. B \in Nat /\ L \in Nat /\ r <= L /\ B + L <= s BY <2>3, <2>4, <2>6, <2>7
  <2> HIDE DEF B, L
  <2>9. B + r \in 1 .. s BY <2>5, <2>6, <2>8
  <2> QED BY <2>9 DEF B
<1> QED BY <1>10, <1>11, <1>12

\* It is the only sequence with these elements at these places.
LEMMA CatSame ==
  ASSUME NEW c, NEW n, NEW s, ListOK(c, n, s), NEW F \in Seq(Values), Len(F) = s,
         \A b \in 1 .. n : \A r \in 1 .. Len(c[b]) : F[Before(b) + r] = c[b][r]
  PROVE  F = Cat(c, n)
<1>1. /\ Cat(c, n) \in Seq(Values) /\ Len(Cat(c, n)) = s
      /\ \A b \in 1 .. n : \A r \in 1 .. Len(c[b]) : Cat(c, n)[Before(b) + r] = c[b][r]
      /\ \A k \in 1 .. s : \E b \in 1 .. n : \E r \in 1 .. Len(c[b]) : k = Before(b) + r
  BY CatIs
<1>2. \A k \in 1 .. s : F[k] = Cat(c, n)[k] BY <1>1
<1> QED BY <1>1, <1>2, SeqEqual

\* An empty list is the empty sequence.
LEMMA CatNone ==
  ASSUME NEW c, NEW n, ListOK(c, n, 0)
  PROVE  Cat(c, n) = <<>>
<1>1. Cat(c, n) \in Seq(Values) /\ Len(Cat(c, n)) = 0 BY CatIs
<1> QED BY <1>1

\* push_back appends.
LEMMA CatPushed ==
  ASSUME NEW c, NEW n, NEW s, ListOK(c, n, s), s < MaxSize, NEW v \in Values
  PROVE  Cat([GrownChain(c, n) EXCEPT ![GrownLast(c, n)] =
                Append(GrownChain(c, n)[GrownLast(c, n)], v)], GrownLast(c, n))
           = Append(Cat(c, n), v)
<1> DEFINE d == GrownChain(c, n)
           m == GrownLast(c, n)
           e == [d EXCEPT ![m] = Append(d[m], v)]
           E == Cat(c, n)
<1>1. /\ c \in Seq(Seq(Values)) /\ Len(c) \in Nat /\ n \in Nat /\ n >= 1 /\ n <= Len(c)
      /\ n \in 1 .. Len(c) /\ s \in Nat
      /\ \A b \in 1 .. Len(c) : /\ c[b] \in Seq(Values) /\ Len(c[b]) \in Nat
                                /\ b > n => c[b] = <<>>
  BY ListFacts
<1>2. /\ E \in Seq(Values) /\ Len(E) = s
      /\ \A b \in 1 .. n : \A r \in 1 .. Len(c[b]) :
           Before(b) + r \in 1 .. s /\ E[Before(b) + r] = c[b][r]
  BY CatIs
<1>3. ListOK(e, m, s + 1) BY PushedOK
<1>4. /\ m = IF Len(c[n]) < BucketSize THEN n ELSE n + 1
      /\ d = IF Len(c[n]) < BucketSize \/ n # Len(c) THEN c ELSE Append(c, <<>>)
  BY DEF GrownLast, GrownChain
<1>5. /\ d \in Seq(Seq(Values)) /\ m \in 1 .. Len(d) /\ m \in Nat
      /\ \A b \in 1 .. m : b \in 1 .. Len(d) /\ d[b] = IF b <= n THEN c[b] ELSE <<>>
  <2> HIDE DEF d, m
  <2>1. CASE Len(c[n]) < BucketSize BY <1>1, <1>4, <2>1
  <2>2. CASE ~(Len(c[n]) < BucketSize) /\ n # Len(c)
    <3>1. m = n + 1 /\ d = c /\ m \in 1 .. Len(c) BY <1>1, <1>4, <2>2
    <3> QED BY <1>1, <3>1
  <2>3. CASE ~(Len(c[n]) < BucketSize) /\ n = Len(c)
    <3>1. m = n + 1 /\ d = Append(c, <<>>) BY <1>4, <2>3
    <3>2. /\ d \in Seq(Seq(Values)) /\ Len(d) = n + 1 /\ d[n + 1] = <<>>
          /\ \A b \in 1 .. n : d[b] = c[b]
      BY <1>1, <2>3, <3>1
    <3>3. \A b \in 1 .. n + 1 : b <= n \/ b = n + 1 BY <1>1
    <3> QED BY <1>1, <3>1, <3>2, <3>3
  <2> QED BY <2>1, <2>2, <2>3
<1> HIDE DEF d, m
<1>6. \A b \in 1 .. Len(d) : e[b] = IF b = m THEN Append(d[m], v) ELSE d[b]
  BY <1>5, BucketAppended
<1> HIDE DEF e
<1> DEFINE F == Append(E, v)
<1>7. /\ F \in Seq(Values) /\ Len(F) = s + 1 /\ F[s + 1] = v
      /\ \A k \in 1 .. s : F[k] = E[k]
  <2> HIDE DEF E
  <2> QED BY <1>2
<1> HIDE DEF E, F
<1>8. s + 1 = Before(m) + Len(e[m]) BY <1>3, ListFacts
<1>9. d[m] \in Seq(Values) /\ e[m] = Append(d[m], v)
  <2>1. e[m] = Append(d[m], v) BY <1>5, <1>6
  <2>2. \A b \in 1 .. Len(d) : d[b] \in Seq(Values)
    <3> d \in Seq(Seq(Values)) BY <1>5
    <3> QED OBVIOUS
  <2> QED BY <1>5, <2>1, <2>2
<1>10. /\ Len(d[m]) \in Nat /\ Len(e[m]) = Len(d[m]) + 1 /\ e[m][Len(e[m])] = v
       /\ \A r \in 1 .. Len(d[m]) : e[m][r] = d[m][r]
  <2> DEFINE x == d[m]
  <2>1. x \in Seq(Values) /\ e[m] = Append(x, v) BY <1>9
  <2> HIDE DEF x
  <2>2. Len(x) \in Nat /\ Len(e[m]) = Len(x) + 1 /\ \A r \in 1 .. Len(x) : e[m][r] = x[r]
    BY <2>1
  <2>3. e[m][Len(x) + 1] = v BY <2>1
  <2> QED BY <2>2, <2>3 DEF x
<1>11. ASSUME NEW b \in 1 .. m, NEW r \in 1 .. Len(d[b]) PROVE F[Before(b) + r] = d[b][r]
  <2>1. b <= n
    <3> SUFFICES ASSUME ~(b <= n) PROVE FALSE OBVIOUS
    <3>1. d[b] = <<>> BY <1>5
    <3> QED BY <1>11, <3>1
  <2>2. d[b] = c[b] /\ b \in 1 .. n BY SMTT(30), <1>1, <1>5, <2>1
  <2> QED BY <1>2, <1>7, <2>2
<1>12. ASSUME NEW b \in 1 .. m, NEW r \in 1 .. Len(e[b]) PROVE F[Before(b) + r] = e[b][r]
  <2>1. CASE b # m
    <3>1. e[b] = d[b] BY <1>5, <1>6, <2>1
    <3> QED BY <1>11, <3>1
  <2>2. CASE b = m /\ r # Len(e[m])
    <3>1. r \in 1 .. Len(d[m]) BY <1>10, <2>2
    <3> QED BY <1>10, <1>11, <2>2, <3>1
  <2>3. CASE b = m /\ r = Len(e[m]) BY <1>7, <1>8, <1>10, <2>3
  <2> QED BY <2>1, <2>2, <2>3
<1>13. F = Cat(e, m) BY <1>3, <1>7, <1>12, CatSame
<1> QED BY <1>13 DEF E, F, d, m, e

\* pop_back drops the last element.
LEMMA CatPopped ==
  ASSUME NEW c, NEW n, NEW s, ListOK(c, n, s), c[n] # <<>>
  PROVE  /\ Cat(c, n) # <<>>
         /\ Cat([c EXCEPT ![n] = Front(c[n])],
                IF Len(c[n]) = 1 /\ n > 1 THEN n - 1 ELSE n)
              = SubSeq(Cat(c, n), 1, Len(Cat(c, n)) - 1)
<1> DEFINE e == [c EXCEPT ![n] = Front(c[n])]
           m == IF Len(c[n]) = 1 /\ n > 1 THEN n - 1 ELSE n
           E == Cat(c, n)
           F == SubSeq(E, 1, s - 1)
<1>1. /\ c \in Seq(Seq(Values)) /\ Len(c) \in Nat /\ n \in Nat /\ n >= 1 /\ n <= Len(c)
      /\ n \in 1 .. Len(c) /\ s \in Nat /\ s = Before(n) + Len(c[n])
      /\ \A b \in 1 .. Len(c) : c[b] \in Seq(Values) /\ Len(c[b]) \in Nat
  BY ListFacts
<1>2. /\ E \in Seq(Values) /\ Len(E) = s
      /\ \A b \in 1 .. n : \A r \in 1 .. Len(c[b]) :
           Before(b) + r \in 1 .. s /\ E[Before(b) + r] = c[b][r]
  BY CatIs
<1>3. ListOK(e, m, s - 1) BY PoppedOK
<1>4. Len(c[n]) > 0 /\ c[n] \in Seq(Values) BY <1>1
<1>5. /\ Front(c[n]) \in Seq(Values) /\ Len(Front(c[n])) = Len(c[n]) - 1
      /\ \A r \in 1 .. Len(c[n]) - 1 : Front(c[n])[r] = c[n][r]
  <2> DEFINE x == c[n]
  <2>1. x \in Seq(Values) /\ Len(x) > 0 BY <1>4
  <2> HIDE DEF x
  <2>2. Front(x) = SubSeq(x, 1, Len(x) - 1) BY DEF Front
  <2>3. SubSeq(x, 1, Len(x) - 1) \in Seq(Values) /\ Len(SubSeq(x, 1, Len(x) - 1)) = Len(x) - 1
        /\ \A r \in 1 .. Len(x) - 1 : SubSeq(x, 1, Len(x) - 1)[r] = x[r]
    <3>1. Len(x) \in Nat /\ Len(x) - 1 \in Int /\ \A i \in 1 .. Len(x) - 1 : x[i] \in Values
      BY <2>1
    <3> DEFINE k == Len(x) - 1
               y == SubSeq(x, 1, k)
    <3>2. k \in Nat /\ k \in Int /\ 1 \in Int /\ \A i \in 1 .. k : x[i] \in Values
      BY <2>1, <3>1
    <3> HIDE DEF k
    <3>3. /\ y \in Seq(Values)
          /\ Len(y) = IF 1 <= k THEN k - 1 + 1 ELSE 0
          /\ \A i \in 1 .. k - 1 + 1 : y[i] = x[1 + i - 1]
      BY <3>2, SubSeqProperties
    <3> HIDE DEF y
    <3>4. \A i \in 1 .. k : i \in 1 .. k - 1 + 1 /\ 1 + i - 1 = i BY <3>2
    <3>5. y \in Seq(Values) /\ Len(y) = k /\ \A i \in 1 .. k : y[i] = x[i]
      <4>1. Len(y) = k BY <3>2, <3>3
      <4>2. ASSUME NEW i \in 1 .. k PROVE y[i] = x[i]
        <5>1. i \in 1 .. k - 1 + 1 /\ 1 + i - 1 = i BY <3>4
        <5> QED BY <3>3, <5>1
      <4> QED BY <3>3, <4>1, <4>2
    <3> QED BY <3>5 DEF k, y
  <2> QED BY <2>2, <2>3 DEF x
<1>6. \A b \in 1 .. Len(c) : e[b] = IF b = n THEN Front(c[n]) ELSE c[b]
  BY <1>1, <1>5, BucketReplaced
<1>7. s > 0
  <2> Before(n) \in Nat BY <1>1, Room
  <2> QED BY <1>1, <1>4
<1>8. m \in Nat /\ m <= n BY <1>1
<1> HIDE DEF e, m, E
<1>9. F \in Seq(Values) /\ Len(F) = s - 1 /\ \A k \in 1 .. s - 1 : F[k] = E[k]
  BY <1>1, <1>2, <1>7
<1> HIDE DEF F
<1>10. ASSUME NEW b \in 1 .. m, NEW r \in 1 .. Len(e[b]) PROVE F[Before(b) + r] = e[b][r]
  <2>1. Before(b) + r \in 1 .. s - 1 BY <1>3, CatIs
  <2>2. b \in 1 .. n /\ b \in 1 .. Len(c) BY <1>1, <1>8
  <2>3. r \in 1 .. Len(c[b]) /\ e[b][r] = c[b][r]
    <3>1. CASE b = n
      <4>1. e[b] = Front(c[n]) BY <1>6, <2>2, <3>1
      <4>2. r \in 1 .. Len(c[n]) - 1 BY <1>5, <4>1
      <4>3. Len(c[n]) \in Nat BY <1>1
      <4> QED BY <1>5, <3>1, <4>1, <4>2, <4>3
    <3>2. CASE b # n BY <1>6, <2>2, <3>2
    <3> QED BY <3>1, <3>2
  <2> QED BY <1>2, <1>9, <2>1, <2>2, <2>3
<1>11. F = Cat(e, m) BY <1>3, <1>9, <1>10, CatSame
<1>12. E # <<>> BY <1>2, <1>7
<1> QED BY <1>2, <1>11, <1>12 DEF E, F, e, m

\* shrink_to_fit changes nothing that can be seen.
LEMMA CatShrunk ==
  ASSUME NEW c, NEW n, NEW s, ListOK(c, n, s)
  PROVE  Cat(SubSeq(c, 1, n), n) = Cat(c, n)
<1> DEFINE d == SubSeq(c, 1, n)
           E == Cat(c, n)
<1>1. /\ c \in Seq(Seq(Values)) /\ n \in Nat /\ n >= 1 /\ n <= Len(c) /\ Len(c) \in Nat
  BY ListFacts
<1>2. \A b \in 1 .. n : d[b] = c[b] BY <1>1
<1>3. ListOK(d, n, s) BY ShrunkOK
<1>4. /\ E \in Seq(Values) /\ Len(E) = s
      /\ \A b \in 1 .. n : \A r \in 1 .. Len(c[b]) : E[Before(b) + r] = c[b][r]
  BY CatIs
<1> HIDE DEF d, E
<1>5. \A b \in 1 .. n : \A r \in 1 .. Len(d[b]) : E[Before(b) + r] = d[b][r]
  BY <1>2, <1>4
<1>6. E = Cat(d, n) BY <1>3, <1>4, <1>5, CatSame
<1> QED BY <1>6 DEF d, E

\* A list that is assigned to another holds the same.
LEMMA CatAssigned ==
  ASSUME NEW c, NEW n, NEW s, ListOK(c, n, s)
  PROVE  Cat(Assigned(<< <<>> >>, c), IF s = 0 THEN 1 ELSE Filled(c)) = Cat(c, n)
<1> DEFINE a == Assigned(<< <<>> >>, c)
<1>1. CASE s = 0
  <2>1. ListOK(a, 1, 0) /\ ListOK(c, n, 0) BY <1>1, AssignedOK
  <2> HIDE DEF a
  <2>2. Cat(a, 1) = <<>> /\ Cat(c, n) = <<>> BY <2>1, CatNone
  <2> QED BY <1>1, <2>2 DEF a
<1>2. CASE s # 0
  <2>1. a = SubSeq(c, 1, n) /\ Filled(c) = n BY <1>2, AssignedBuckets, FilledBuckets
  <2>2. Cat(SubSeq(c, 1, n), n) = Cat(c, n) BY CatShrunk
  <2> QED BY <1>2, <2>1, <2>2
<1> QED BY <1>1, <1>2

\* What the refinement shows of the lists.
Contents == [l \in Lists |-> Elements(l)]
Reading == [l \in Lists |-> ToRead(l)]

\* An iterator that may visit nothing has nothing to read.
LEMMA RestNone ==
  ASSUME NEW E, NEW it \in Iterators, it.left = 0
  PROVE  Rest(E, it) = <<>>
<1> DEFINE at == Before(it.bucket) + it.idx
<1>1. /\ it.bucket \in Nat /\ it.bucket >= 1 /\ it.idx \in Nat
  BY Bounds DEF Iterators
<1>2. at \in Nat BY <1>1, Room
<1> HIDE DEF at
<1>3. SubSeq(E, at + 1, at + 0) = <<>>
  <2> at + 1 \in Int /\ at + 0 \in Int /\ at + 0 < at + 1 BY <1>2
  <2> QED BY SubSeqEmpty
<1> QED BY <1>3 DEF Rest, at

\* An iteration reads the same when the list has grown.
LEMMA RestPushed ==
  ASSUME NEW E \in Seq(Values), NEW n, NEW it, IterOK(it, n, Len(E)), NEW v \in Values
  PROVE  Rest(Append(E, v), it) = Rest(E, it)
<1> DEFINE at == Before(it.bucket) + it.idx
           k == it.left
           F == Append(E, v)
<1>1. /\ it \in Iterators /\ it.bucket \in Nat /\ it.bucket >= 1 /\ it.idx \in Nat
      /\ k \in Nat /\ (k > 0 => at + k <= Len(E))
  BY Bounds DEF IterOK, Iterators
<1>2. at \in Nat /\ Len(E) \in Nat
  <2>1. Before(it.bucket) \in Nat BY <1>1, Room
  <2>2. Len(E) \in Nat OBVIOUS
  <2> QED BY <1>1, <2>1, <2>2
<1>3. F \in Seq(Values) /\ Len(F) = Len(E) + 1 /\ \A i \in 1 .. Len(E) : F[i] = E[i]
  OBVIOUS
<1>4. CASE k = 0
  <2>1. Rest(E, it) = <<>> /\ Rest(F, it) = <<>>
    <3> HIDE DEF F
    <3> QED BY <1>1, <1>4, RestNone
  <2> QED BY <2>1
<1>5. CASE k # 0
  <2> HIDE DEF at, k, F
  <2>1. at + k <= Len(E) BY <1>1, <1>5
  <2>2. SubSeq(F, at + 1, at + k) = SubSeq(E, at + 1, at + k)
    <3> DEFINE a == at + 1
               b == at + k
    <3>1. /\ a \in Int /\ b \in Int /\ a >= 1 /\ b <= Len(E)
      BY <1>1, <1>2, <2>1
    <3> HIDE DEF a, b
    <3>2. \A i \in a .. b : i \in 1 .. Len(E) /\ E[i] \in Values /\ F[i] = E[i]
      BY <1>2, <1>3, <3>1
    <3>3. /\ SubSeq(E, a, b) \in Seq(Values)
          /\ Len(SubSeq(E, a, b)) = IF a <= b THEN b - a + 1 ELSE 0
          /\ \A i \in 1 .. b - a + 1 : SubSeq(E, a, b)[i] = E[a + i - 1]
      BY <3>1, <3>2, SubSeqProperties
    <3>4. /\ SubSeq(F, a, b) \in Seq(Values)
          /\ Len(SubSeq(F, a, b)) = IF a <= b THEN b - a + 1 ELSE 0
          /\ \A i \in 1 .. b - a + 1 : SubSeq(F, a, b)[i] = F[a + i - 1]
      BY <3>1, <3>2, SubSeqProperties
    <3>5. ASSUME NEW i \in 1 .. Len(SubSeq(F, a, b))
          PROVE  SubSeq(F, a, b)[i] = SubSeq(E, a, b)[i]
      <4>1. i \in 1 .. b - a + 1 /\ a + i - 1 \in a .. b BY <3>1, <3>4
      <4> QED BY <3>2, <3>3, <3>4, <4>1
    <3>6. SubSeq(F, a, b) = SubSeq(E, a, b) BY <3>3, <3>4, <3>5, SeqEqual
    <3> QED BY <3>6 DEF a, b
  <2> QED BY <2>2 DEF Rest, at, k, F
<1> QED BY <1>4, <1>5 DEF F

\* An iteration that begins has all to read.
LEMMA RestBegun ==
  ASSUME NEW E \in Seq(Values), NEW n
  PROVE  Rest(E, [bucket |-> 1, idx |-> 0, last |-> n, left |-> Len(E)]) = E
<1>1. Before(1) = 0 /\ Len(E) \in Nat BY Room
<1>2. Rest(E, [bucket |-> 1, idx |-> 0, last |-> n, left |-> Len(E)])
        = SubSeq(E, 1, Len(E))
  BY <1>1 DEF Rest
<1> QED BY <1>2, SubSeqFull

\* An iterator reads the first of what it has still to read.
LEMMA RestRead ==
  ASSUME NEW E \in Seq(Values), NEW n, NEW it, IterOK(it, n, Len(E)), it.left > 0
  PROVE  /\ Rest(E, it) # <<>>
         /\ Rest(E, IF it.idx + 1 = BucketSize /\ it.bucket # it.last
                    THEN [bucket |-> it.bucket + 1, idx |-> 0,
                          last |-> it.last, left |-> it.left - 1]
                    ELSE [bucket |-> it.bucket, idx |-> it.idx + 1,
                          last |-> it.last, left |-> it.left - 1])
              = Tail(Rest(E, it))
<1> DEFINE at == Before(it.bucket) + it.idx
           k == it.left
           next == IF it.idx + 1 = BucketSize /\ it.bucket # it.last
                    THEN [bucket |-> it.bucket + 1, idx |-> 0,
                          last |-> it.last, left |-> it.left - 1]
                    ELSE [bucket |-> it.bucket, idx |-> it.idx + 1,
                          last |-> it.last, left |-> it.left - 1]
<1>1. /\ it \in Iterators /\ it.bucket \in Nat /\ it.bucket >= 1 /\ it.idx \in Nat
      /\ k \in Nat /\ k > 0 /\ at + k <= Len(E)
  BY Bounds DEF IterOK, Iterators
<1>2. /\ Before(it.bucket) \in Nat /\ Len(E) \in Nat
      /\ Before(it.bucket + 1) = Before(it.bucket) + BucketSize
  <2>1. Len(E) \in Nat OBVIOUS
  <2> DEFINE b == it.bucket
  <2>2. b \in Nat /\ b >= 1 BY <1>1
  <2> HIDE DEF b
  <2>3. Before(b) \in Nat /\ Before(b + 1) = Before(b) + BucketSize BY <2>2, Room
  <2> QED BY <2>1, <2>3 DEF b
<1>3. Before(next.bucket) + next.idx = at + 1 /\ next.left = k - 1
  BY <1>1, <1>2, Bounds
<1>4. at \in Nat BY <1>1, <1>2
<1> HIDE DEF at, k, next
<1>5. Rest(E, it) = SubSeq(E, at + 1, at + k) BY DEF Rest, at, k
<1>6. Rest(E, next) = SubSeq(E, (at + 1) + 1, (at + 1) + (k - 1)) BY <1>3 DEF Rest
<1>7. at + 1 \in 1 .. Len(E) /\ at + k \in at + 1 .. Len(E) /\ (at + 1) + (k - 1) = at + k
  BY <1>1, <1>2, <1>4
<1>8. Tail(SubSeq(E, at + 1, at + k)) = SubSeq(E, (at + 1) + 1, at + k)
  BY <1>7, HeadTailOfSubSeq
<1>9. SubSeq(E, at + 1, at + k) # <<>>
  <2>1. \A i \in at + 1 .. at + k : E[i] \in Values
    <3> \A i \in at + 1 .. at + k : i \in 1 .. Len(E) BY <1>1, <1>2, <1>4
    <3> QED OBVIOUS
  <2> DEFINE y == SubSeq(E, at + 1, at + k)
  <2>2. at + 1 \in Int /\ at + k \in Int /\ at + 1 <= at + k BY <1>1, <1>4
  <2>3. y \in Seq(Values) /\ Len(y) = (at + k) - (at + 1) + 1
    BY <2>1, <2>2, SubSeqProperties
  <2>4. Len(y) > 0 BY <1>1, <1>4, <2>3
  <2> HIDE DEF y
  <2>5. y # <<>> BY <2>4
  <2> QED BY <2>5 DEF y
<1> QED BY <1>5, <1>6, <1>7, <1>8, <1>9 DEF next

\* A list shows what its chain, its last bucket and its iterator say.
LEMMA Views ==
  \A l \in Lists : /\ Contents[l] = Cat(chain[l], last[l])
                   /\ Reading[l] = Rest(Cat(chain[l], last[l]), iter[l])
BY DEF Contents, Reading, Elements, ToRead, Cat, Rest, Before

\* The same after a step.
LEMMA ViewsThen ==
  /\ Contents' = [l \in Lists |-> Cat(chain'[l], last'[l])]
  /\ Reading' = [l \in Lists |-> Rest(Cat(chain'[l], last'[l]), iter'[l])]
BY DEF Contents, Reading, Elements, ToRead, Cat, Rest, Before

\* A step changes one list only.
Only(l) == \A q \in Lists : q # l =>
  chain'[q] = chain[q] /\ last'[q] = last[q] /\ iter'[q] = iter[q]

\* Then it shows in that list only.
LEMMA OneView ==
  ASSUME NEW l \in Lists, Only(l)
  PROVE  /\ Contents' = [Contents EXCEPT ![l] = Cat(chain'[l], last'[l])]
         /\ Reading' = [Reading EXCEPT ![l] = Rest(Cat(chain'[l], last'[l]), iter'[l])]
<1>1. Contents = [q \in Lists |-> Contents[q]] /\ Reading = [q \in Lists |-> Reading[q]]
  BY DEF Contents, Reading
<1>2. \A q \in Lists : q # l => /\ Cat(chain'[q], last'[q]) = Contents[q]
                              /\ Rest(Cat(chain'[q], last'[q]), iter'[q]) = Reading[q]
  BY Views DEF Only
<1>3. Contents' = [Contents EXCEPT ![l] = Cat(chain'[l], last'[l])]
  BY <1>1, <1>2, ViewsThen
<1>4. Reading' = [Reading EXCEPT ![l] = Rest(Cat(chain'[l], last'[l]), iter'[l])]
  BY <1>1, <1>2, ViewsThen
<1> QED BY <1>3, <1>4

-----------------------------------------------------------------------------
(* The theorems.                                                           *)

\* Every list and its iterator stay in shape, whatever operations of deque_list
\* are called: the invariant the other theorems follow from.
THEOREM Invariance == Spec => []IInv
BY InitOK, NextOK, PTL DEF Spec

\* Whatever operations of deque_list are called, no bucket holds more than it has
\* room for, the last bucket is one of the chain, and iterators stay iterators.
THEOREM TypeCorrect == Spec => []TypeOK
<1>1. IInv => TypeOK
  <2> SUFFICES ASSUME IInv PROVE TypeOK
    OBVIOUS
  <2>1. \A l \in Lists :
          /\ chain[l] \in Seq(Seq(Values)) /\ last[l] \in Nat \ {0}
          /\ \A b \in DOMAIN chain[l] : Len(chain[l][b]) <= BucketSize
          /\ last[l] <= Len(chain[l]) /\ size[l] \in 0 .. MaxSize
          /\ iter[l] \in [bucket : Nat \ {0}, idx : 0 .. BucketSize,
                          last : Nat \ {0}, left : 0 .. MaxSize]
    <3> SUFFICES ASSUME NEW l \in Lists
                 PROVE  /\ chain[l] \in Seq(Seq(Values)) /\ last[l] \in Nat \ {0}
                        /\ \A b \in DOMAIN chain[l] : Len(chain[l][b]) <= BucketSize
                        /\ last[l] <= Len(chain[l]) /\ size[l] \in 0 .. MaxSize
                        /\ iter[l] \in Iterators
      BY DEF Iterators
    <3>1. ListOK(chain[l], last[l], size[l]) /\ iter[l] \in Iterators
      BY DEF IInv, IterOK
    <3> QED
      BY <3>1, ListFacts
  <2> QED
    BY <2>1 DEF TypeOK, IInv
<1> QED
  BY <1>1, Invariance, PTL

\* The buckets keep their shape for buckets of any size and any number of lists:
\* what push_back, pop_back, clear, shrink_to_fit and the constructors that copy
\* and move leave is what the assertions of deque_list.hpp say.
THEOREM ShapeCorrect == Spec => []BucketShape
<1>1. IInv => BucketShape
  <2> SUFFICES ASSUME IInv, NEW l \in Lists
               PROVE  /\ \A b \in 1 .. last[l] - 1 : Len(chain[l][b]) = BucketSize
                      /\ \A b \in last[l] + 1 .. Len(chain[l]) : chain[l][b] = <<>>
                      /\ last[l] > 1 => chain[l][last[l]] # <<>>
                      /\ size[l] = (last[l] - 1) * BucketSize + Len(chain[l][last[l]])
    BY DEF BucketShape
  <2> DEFINE c == chain[l]
             n == last[l]
             s == size[l]
  <2>1. ListOK(c, n, s)
    BY DEF IInv
  <2> HIDE DEF c, n, s
  <2>2. /\ Len(c) \in Nat /\ n \in Nat /\ n >= 1 /\ n <= Len(c)
        /\ \A b \in 1 .. Len(c) : /\ b < n => Len(c[b]) = BucketSize
                                  /\ b > n => c[b] = <<>>
        /\ n > 1 => c[n] # <<>>
        /\ s = (n - 1) * BucketSize + Len(c[n])
    BY <2>1, ListFacts DEF Before
  <2>3. /\ \A b \in 1 .. n - 1 : b \in 1 .. Len(c) /\ b < n
        /\ \A b \in n + 1 .. Len(c) : b \in 1 .. Len(c) /\ b > n
    BY <2>2
  <2>4. /\ \A b \in 1 .. n - 1 : Len(c[b]) = BucketSize
        /\ \A b \in n + 1 .. Len(c) : c[b] = <<>>
    BY <2>2, <2>3
  <2> QED
    BY <2>2, <2>4 DEF c, n, s
<1> QED
  BY <1>1, Invariance, PTL

\* push_back never fails its assertion while lists are made by the constructors
\* only; a run shows that assignment to a list in use breaks it.
THEOREM RoomCorrect == Spec => []PushHasRoom
<1>1. IInv => PushHasRoom
  <2> SUFFICES ASSUME IInv, NEW l \in Lists PROVE HasRoom(l)
    BY DEF PushHasRoom
  <2>1. ListOK(chain[l], last[l], size[l])
    BY DEF IInv
  <2>2. /\ chain[l] \in Seq(Seq(Values)) /\ Len(chain[l]) \in Nat /\ last[l] \in Nat
        /\ last[l] >= 1 /\ last[l] <= Len(chain[l])
        /\ \A b \in 1 .. Len(chain[l]) : b > last[l] => chain[l][b] = <<>>
    BY <2>1, ListFacts
  <2>3. CASE Len(chain[l][last[l]]) < BucketSize
    BY <2>3 DEF HasRoom, Grown
  <2>4. CASE ~(Len(chain[l][last[l]]) < BucketSize) /\ last[l] = Len(chain[l])
    <3>1. HasRoom(l) <=> Len(Append(chain[l], <<>>)[last[l] + 1]) < BucketSize
      BY <2>4 DEF HasRoom, Grown
    <3>2. Append(chain[l], <<>>)[last[l] + 1] = <<>>
      BY <2>2, <2>4
    <3>3. Len(Append(chain[l], <<>>)[last[l] + 1]) < BucketSize
      <4> DEFINE x == Append(chain[l], <<>>)[last[l] + 1]
      <4>1. x = <<>>
        BY <3>2
      <4> HIDE DEF x
      <4>2. Len(x) < BucketSize
        BY <4>1, Bounds
      <4> QED
        BY <4>2 DEF x
    <3> QED
      BY <3>1, <3>3
  <2>5. CASE ~(Len(chain[l][last[l]]) < BucketSize) /\ last[l] # Len(chain[l])
    <3>1. HasRoom(l) <=> Len(chain[l][last[l] + 1]) < BucketSize
      BY <2>5 DEF HasRoom, Grown
    <3>2. last[l] + 1 \in 1 .. Len(chain[l]) /\ last[l] + 1 > last[l]
      BY <2>2, <2>5
    <3>3. chain[l][last[l] + 1] = <<>>
      BY <2>2, <3>2
    <3>4. Len(chain[l][last[l] + 1]) < BucketSize
      BY <3>3, Bounds
    <3> QED
      BY <3>1, <3>4
  <2> QED BY <2>3, <2>4, <2>5
<1> QED
  BY <1>1, Invariance, PTL

\* An iterator that operator++ may still be applied to points to an element,
\* however the list has grown since begin().
THEOREM IterCorrect == Spec => []IterInBounds
<1>1. IInv => IterInBounds
  <2> SUFFICES ASSUME IInv, NEW l \in Lists, iter[l].left > 0
               PROVE  /\ iter[l].bucket \in DOMAIN chain[l]
                      /\ iter[l].idx < Len(chain[l][iter[l].bucket])
    BY DEF IterInBounds
  <2> DEFINE c == chain[l]
             n == last[l]
             s == size[l]
             it == iter[l]
             b == it.bucket
  <2>1. ListOK(c, n, s) /\ IterOK(it, n, s)
    BY DEF IInv
  <2>2. it.left > 0
    OBVIOUS
  <2> HIDE DEF c, n, s, it
  <2>3. /\ c \in Seq(Seq(Values)) /\ Len(c) \in Nat /\ n \in Nat /\ n >= 1 /\ n <= Len(c)
        /\ \A i \in 1 .. Len(c) : i < n => Len(c[i]) = BucketSize
        /\ s = Before(n) + Len(c[n]) /\ s \in Nat /\ Len(c[n]) \in Nat
    BY <2>1, ListFacts
  <2>4. /\ it \in Iterators /\ b <= it.last /\ it.last <= n /\ it.idx < BucketSize
        /\ Before(b) + it.idx + it.left <= s
    BY <2>1, <2>2 DEF IterOK
  <2>5. /\ b \in Nat /\ b >= 1 /\ it.last \in Nat /\ it.idx \in Nat /\ it.left \in Nat
    BY <2>4, Bounds DEF Iterators
  <2> HIDE DEF b
  <2>6. b \in 1 .. Len(c) /\ DOMAIN c = 1 .. Len(c) /\ b <= n
    BY <2>3, <2>4, <2>5
  <2>7. it.idx < Len(c[b])
    <3>1. CASE b < n
      BY <2>3, <2>4, <2>6, <3>1
    <3>2. CASE b = n
      <4>1. Before(n) \in Nat
        BY <2>3, Room
      <4> QED
        BY SMTT(30), <2>2, <2>3, <2>4, <2>5, <3>2, <4>1
    <3> QED BY <2>3, <2>5, <2>6, <3>1, <3>2
  <2> QED
    BY <2>6, <2>7 DEF b, c, it
<1> QED
  BY <1>1, Invariance, PTL

-----------------------------------------------------------------------------
(* deque_list implements sequences.                                        *)

\* push_back appends, and an iteration does not notice.
LEMMA PushBackRefines ==
  ASSUME IInv, NEW l \in Lists, NEW v \in Values, PushBack(l, v)
  PROVE  Contents' = [Contents EXCEPT ![l] = Append(@, v)] /\ Reading' = Reading
<1> DEFINE x == chain[l]
           n == last[l]
           s == size[l]
           d == GrownChain(x, n)
           m == GrownLast(x, n)
           c == [d EXCEPT ![m] = Append(d[m], v)]
<1>1. ListOK(x, n, s) /\ IterOK(iter[l], n, s) /\ s < MaxSize
  BY DEF IInv, PushBack
<1>2. Grown(l).chain = d /\ Grown(l).last = m
  BY DEF Grown, GrownChain, GrownLast
<1>3. chain'[l] = c /\ last'[l] = m /\ iter'[l] = iter[l] /\ Only(l)
  BY <1>2 DEF PushBack, IInv, Only
<1>4. Contents[l] = Cat(x, n) /\ Reading[l] = Rest(Cat(x, n), iter[l]) BY Views
<1> HIDE DEF x, n, s
<1>5. Cat(c, m) = Append(Cat(x, n), v) BY <1>1, CatPushed
<1>6. Cat(x, n) \in Seq(Values) /\ Len(Cat(x, n)) = s BY <1>1, CatIs
<1>7. Rest(Append(Cat(x, n), v), iter[l]) = Rest(Cat(x, n), iter[l])
  BY <1>1, <1>6, RestPushed
<1> HIDE DEF c, m, d
<1>8. /\ Contents' = [Contents EXCEPT ![l] = Cat(c, m)]
      /\ Reading' = [Reading EXCEPT ![l] = Rest(Cat(c, m), iter[l])]
  BY <1>3, OneView
<1>9. Contents' = [Contents EXCEPT ![l] = Append(Contents[l], v)]
  BY <1>4, <1>5, <1>8
<1>10. Reading' = [Reading EXCEPT ![l] = Reading[l]] BY <1>4, <1>5, <1>7, <1>8
<1>11. Reading = [q \in Lists |-> Reading[q]] BY DEF Reading
<1> QED BY <1>9, <1>10, <1>11

\* What ends an iteration leaves nothing to read.
LEMMA NoIterNone == \A E : Rest(E, NoIter) = <<>>
<1> NoIter \in Iterators /\ NoIter.left = 0 BY Bounds DEF NoIter, Iterators
<1> QED BY RestNone

\* pop_back drops the last element.
LEMMA PopBackRefines ==
  ASSUME IInv, NEW l \in Lists, PopBack(l)
  PROVE  /\ Contents[l] # <<>>
         /\ Contents' = [Contents EXCEPT ![l] = SubSeq(Contents[l], 1, Len(Contents[l]) - 1)]
         /\ Reading' = [Reading EXCEPT ![l] = <<>>]
<1> DEFINE c == [chain[l] EXCEPT ![last[l]] = Front(chain[l][last[l]])]
           n == IF Len(chain[l][last[l]]) = 1 /\ last[l] > 1 THEN last[l] - 1 ELSE last[l]
           E == Cat(chain[l], last[l])
<1>1. ListOK(chain[l], last[l], size[l]) /\ chain[l][last[l]] # <<>>
  BY DEF IInv, PopBack
<1>2. /\ chain'[l] = c /\ last'[l] = n
      /\ iter'[l] = NoIter /\ Only(l)
  BY DEF PopBack, IInv, Only
<1>3. E # <<>> /\ Cat(c, n) = SubSeq(E, 1, Len(E) - 1) BY <1>1, CatPopped
<1>4. Contents[l] = E BY Views
<1> HIDE DEF c, n, E
<1>5. /\ Contents' = [Contents EXCEPT ![l] = Cat(c, n)]
      /\ Reading' = [Reading EXCEPT ![l] = Rest(Cat(c, n), NoIter)]
  BY <1>2, OneView
<1> QED BY <1>3, <1>4, <1>5, NoIterNone

\* clear empties.
LEMMA ClearRefines ==
  ASSUME IInv, NEW l \in Lists, Clear(l)
  PROVE  /\ Contents' = [Contents EXCEPT ![l] = <<>>]
         /\ Reading' = [Reading EXCEPT ![l] = <<>>]
<1> DEFINE c == [b \in DOMAIN chain[l] |-> <<>>]
           k == Len(chain[l])
<1>1. chain[l] \in Seq(Seq(Values)) /\ k \in Nat /\ k >= 1 /\ DOMAIN chain[l] = 1 .. k
  <2>1. ListOK(chain[l], last[l], size[l])
    BY DEF IInv
  <2> QED
    BY <2>1, ListFacts
<1>2. c = [b \in 1 .. k |-> <<>>]
  BY <1>1
<1>3. /\ chain'[l] = c /\ last'[l] = 1
      /\ iter'[l] = NoIter /\ Only(l)
  BY DEF Clear, IInv, Only
<1> HIDE DEF c, k
<1>4. Cat(c, 1) = <<>> BY <1>1, <1>2, ClearedOK, CatNone
<1>5. /\ Contents' = [Contents EXCEPT ![l] = Cat(c, 1)]
      /\ Reading' = [Reading EXCEPT ![l] = Rest(Cat(c, 1), NoIter)]
  BY <1>3, OneView
<1> QED BY <1>4, <1>5, NoIterNone

\* shrink_to_fit is not seen.
LEMMA ShrinkRefines ==
  ASSUME IInv, NEW l \in Lists, ShrinkToFit(l)
  PROVE  Contents' = Contents /\ Reading' = Reading
<1> DEFINE c == SubSeq(chain[l], 1, last[l])
<1>1. ListOK(chain[l], last[l], size[l])
  BY DEF IInv
<1>2. chain'[l] = c /\ last'[l] = last[l] /\ iter'[l] = iter[l] /\ Only(l)
  BY DEF ShrinkToFit, IInv, Only
<1>3. Cat(c, last[l]) = Cat(chain[l], last[l]) BY <1>1, CatShrunk
<1> HIDE DEF c
<1>4. /\ Contents' = [Contents EXCEPT ![l] = Cat(c, last[l])]
      /\ Reading' = [Reading EXCEPT ![l] = Rest(Cat(c, last[l]), iter[l])]
  BY <1>2, OneView
<1>5. /\ Contents' = [Contents EXCEPT ![l] = Contents[l]]
      /\ Reading' = [Reading EXCEPT ![l] = Reading[l]]
  BY <1>3, <1>4, Views
<1>6. Contents = [q \in Lists |-> Contents[q]] /\ Reading = [q \in Lists |-> Reading[q]]
  BY DEF Contents, Reading
<1> QED BY <1>5, <1>6

\* begin() is about to read all, and reading takes the first.
LEMMA BeginReadRefines ==
  ASSUME IInv, NEW l \in Lists
  PROVE  /\ Begin(l) => Contents' = Contents /\ Reading' = [Reading EXCEPT ![l] = Contents[l]]
         /\ Read(l) => /\ Reading[l] # <<>> /\ Contents' = Contents
                       /\ Reading' = [Reading EXCEPT ![l] = Tail(Reading[l])]
<1> DEFINE E == Cat(chain[l], last[l])
           old == iter[l]
<1>1. ListOK(chain[l], last[l], size[l]) /\ IterOK(old, last[l], size[l])
  BY DEF IInv
<1>2. E \in Seq(Values) /\ Len(E) = size[l] BY <1>1, CatIs
<1>3. Contents[l] = E /\ Reading[l] = Rest(E, old) BY Views
<1>4. Contents = [Contents EXCEPT ![l] = Contents[l]]
  <2> Contents = [q \in Lists |-> Contents[q]] BY DEF Contents
  <2> QED OBVIOUS
<1>5. ASSUME NEW it, iter' = [iter EXCEPT ![l] = it], UNCHANGED <<chain, last>>
      PROVE  Contents' = Contents /\ Reading' = [Reading EXCEPT ![l] = Rest(E, it)]
  <2>1. chain'[l] = chain[l] /\ last'[l] = last[l] /\ iter'[l] = it /\ Only(l)
    BY <1>5 DEF IInv, Only
  <2>2. /\ Contents' = [Contents EXCEPT ![l] = E]
        /\ Reading' = [Reading EXCEPT ![l] = Rest(E, it)]
    BY <1>5, <2>1, OneView
  <2> QED BY <1>3, <1>4, <2>2
<1> HIDE DEF E
<1>6. ASSUME Begin(l)
      PROVE  Contents' = Contents /\ Reading' = [Reading EXCEPT ![l] = Contents[l]]
  <2> DEFINE it == [bucket |-> 1, idx |-> 0, last |-> last[l], left |-> Len(E)]
  <2>1. iter' = [iter EXCEPT ![l] = it] /\ UNCHANGED <<chain, last>>
    BY <1>2, <1>6 DEF Begin
  <2>2. Rest(E, it) = E BY <1>2, RestBegun
  <2> HIDE DEF it
  <2> QED BY <1>3, <1>5, <2>1, <2>2
<1>7. ASSUME Read(l)
      PROVE  /\ Reading[l] # <<>> /\ Contents' = Contents
             /\ Reading' = [Reading EXCEPT ![l] = Tail(Reading[l])]
  <2> DEFINE it == IF old.idx + 1 = BucketSize /\ old.bucket # old.last
                   THEN [bucket |-> old.bucket + 1, idx |-> 0,
                         last |-> old.last, left |-> old.left - 1]
                   ELSE [bucket |-> old.bucket, idx |-> old.idx + 1,
                         last |-> old.last, left |-> old.left - 1]
  <2>1. old.left > 0 /\ iter' = [iter EXCEPT ![l] = it] /\ UNCHANGED <<chain, last>>
    BY <1>7 DEF Read, IInv
  <2>2. IterOK(old, last[l], Len(E)) BY <1>1, <1>2
  <2> HIDE DEF old
  <2>3. Rest(E, old) # <<>> /\ Rest(E, it) = Tail(Rest(E, old))
    BY <1>2, <2>1, <2>2, RestRead
  <2> HIDE DEF it
  <2> QED BY <1>3, <1>5, <2>1, <2>3 DEF old
<1> QED BY <1>6, <1>7

\* A new list that is assigned another holds the same.
LEMMA CopyRefines ==
  ASSUME IInv, NEW to \in Lists, NEW from \in Lists, IsNew(to), Copy(to, from)
  PROVE  /\ to # from
         /\ Contents' = [Contents EXCEPT ![to] = Contents[from]]
         /\ Reading' = [Reading EXCEPT ![to] = <<>>]
<1> DEFINE c == Assigned(<< <<>> >>, chain[from])
           n == IF size[from] = 0 THEN 1 ELSE Filled(chain[from])
<1>1. ListOK(chain[from], last[from], size[from])
  BY DEF IInv
<1>2. /\ chain'[to] = c /\ last'[to] = n /\ iter'[to] = NoIter
      /\ to # from /\ Only(to)
  BY DEF Copy, IsNew, IInv, Only
<1>3. Cat(c, n) = Cat(chain[from], last[from]) BY <1>1, CatAssigned
<1> HIDE DEF c, n
<1>4. /\ Contents' = [Contents EXCEPT ![to] = Cat(c, n)]
      /\ Reading' = [Reading EXCEPT ![to] = Rest(Cat(c, n), NoIter)]
  BY <1>2, OneView
<1> QED BY <1>2, <1>3, <1>4, NoIterNone, Views

\* A move leaves the list that was moved from empty.
LEMMA MoveRefines ==
  ASSUME IInv, NEW to \in Lists, NEW from \in Lists, IsNew(to), Move(to, from)
  PROVE  /\ to # from
         /\ Contents' = [Contents EXCEPT ![to] = Contents[from], ![from] = <<>>]
         /\ Reading' = [Reading EXCEPT ![to] = <<>>, ![from] = <<>>]
<1> DEFINE c == Assigned(<< <<>> >>, chain[from])
           n == IF size[from] = 0 THEN 1 ELSE Filled(chain[from])
<1>1. ListOK(chain[from], last[from], size[from]) /\ to # from
  BY DEF IInv, Move
<1>2. IInv' BY MoveOK
<1>3. /\ chain'[to] = c /\ last'[to] = n /\ last'[from] = 1 /\ size'[from] = 0
      /\ iter'[to] = NoIter /\ iter'[from] = NoIter
      /\ \A q \in Lists : q # to /\ q # from =>
           chain'[q] = chain[q] /\ last'[q] = last[q] /\ iter'[q] = iter[q]
  BY <1>1 DEF Move, IsNew, IInv
<1>4. Cat(c, n) = Cat(chain[from], last[from]) BY <1>1, CatAssigned
<1>5. ListOK(chain'[from], 1, 0) BY <1>2, <1>3 DEF IInv, ListOK
<1>6. Cat(chain'[from], 1) = <<>> BY <1>5, CatNone
<1> HIDE DEF c, n
<1>7. \A q \in Lists :
        /\ Cat(chain'[q], last'[q]) = IF q = from THEN <<>>
                                      ELSE IF q = to THEN Contents[from] ELSE Contents[q]
        /\ Rest(Cat(chain'[q], last'[q]), iter'[q])
             = IF q = from \/ q = to THEN <<>> ELSE Reading[q]
  BY <1>1, <1>3, <1>4, <1>6, NoIterNone, Views
<1>8. /\ Contents' = [q \in Lists |-> IF q = from THEN <<>>
                                      ELSE IF q = to THEN Contents[from] ELSE Contents[q]]
      /\ Reading' = [q \in Lists |-> IF q = from \/ q = to THEN <<>> ELSE Reading[q]]
  BY <1>7, ViewsThen
<1>9. Contents = [q \in Lists |-> Contents[q]] /\ Reading = [q \in Lists |-> Reading[q]]
  BY DEF Contents, Reading
<1> QED BY <1>1, <1>8, <1>9

\* Every step of deque_list is a step of sequences, or is not seen.
LEMMA StepRefines ==
  IInv /\ [Next]_vars => [Abstract!Next]_<<Contents, Reading>>
<1> SUFFICES ASSUME IInv, [Next]_vars PROVE [Abstract!Next]_<<Contents, Reading>>
  OBVIOUS
<1>1. CASE UNCHANGED vars
  BY <1>1 DEF vars, Contents, Reading, Elements, ToRead
<1>2. CASE Next
  <2>1. PICK l \in Lists : \/ OnList(l)
                           \/ IsNew(l) /\ \E from \in Lists : Copy(l, from) \/ Move(l, from)
    BY <1>2 DEF Next
  <2>2. ASSUME NEW v \in Values, PushBack(l, v) PROVE Abstract!PushBack(l, v)
    BY <2>2, PushBackRefines DEF Abstract!PushBack, Contents, Reading
  <2>3. ASSUME PopBack(l) PROVE Abstract!PopBack(l)
    BY <2>3, PopBackRefines DEF Abstract!PopBack, Abstract!Become, Contents, Reading
  <2>4. ASSUME Clear(l) PROVE Abstract!Clear(l)
    BY <2>4, ClearRefines DEF Abstract!Clear, Abstract!Become, Contents, Reading
  <2>5. ASSUME Begin(l) PROVE Abstract!Begin(l)
    BY <2>5, BeginReadRefines DEF Abstract!Begin, Contents, Reading
  <2>6. ASSUME Read(l) PROVE Abstract!Read(l)
    BY <2>6, BeginReadRefines DEF Abstract!Read, Contents, Reading
  <2>7. ASSUME NEW from \in Lists, IsNew(l), Copy(l, from)
        PROVE  l # from /\ Abstract!Copy(l, from)
    BY <2>7, CopyRefines DEF Abstract!Copy, Abstract!Become, Contents, Reading
  <2>8. ASSUME NEW from \in Lists, IsNew(l), Move(l, from)
        PROVE  l # from /\ Abstract!Move(l, from)
    BY <2>8, MoveRefines DEF Abstract!Move, Contents, Reading
  <2>9. ShrinkToFit(l) => UNCHANGED <<Contents, Reading>> BY ShrinkRefines
  <2> QED
    BY <2>1, <2>2, <2>3, <2>4, <2>5, <2>6, <2>7, <2>8, <2>9 DEF OnList, Abstract!Next
<1> QED BY <1>1, <1>2

\* deque_list implements sequences, for buckets of any size: pushing, popping,
\* clearing, shrinking and the constructors that copy and move do to the list what
\* they do to a sequence, and an iteration that lasts while the list grows reads
\* what it held at begin().
THEOREM Refinement == Spec => ImplementsSeqLists
<1>1. Init => Abstract!Init
  <2> SUFFICES ASSUME Init PROVE Abstract!Init OBVIOUS
  <2>1. IInv BY InitOK
  <2>2. ASSUME NEW l \in Lists
        PROVE  Contents[l] = <<>> /\ Reading[l] = <<>>
    <3>1. ListOK(chain[l], last[l], 0) /\ iter[l] = NoIter
      <4>1. ListOK(chain[l], last[l], size[l]) BY <2>1 DEF IInv
      <4>2. size[l] = 0 /\ iter[l] = NoIter BY DEF Init
      <4> QED BY <4>1, <4>2
    <3> QED BY <3>1, CatNone, NoIterNone, Views
  <2>3. Contents = [l \in Lists |-> <<>>] /\ Reading = [l \in Lists |-> <<>>]
    BY <2>2 DEF Contents, Reading
  <2> QED BY <2>3 DEF Abstract!Init, Contents, Reading
<1>2. IInv /\ [Next]_vars => [Abstract!Next]_<<Contents, Reading>> BY StepRefines
<1> QED BY <1>1, <1>2, Invariance, PTL
     DEF Spec, ImplementsSeqLists, Abstract!Spec, Contents, Reading

=============================================================================
