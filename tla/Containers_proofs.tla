-------------------------- MODULE Containers_proofs --------------------------
(***************************************************************************)
(* Proofs about Containers: FlatIdSlotmap for any width of keys and any    *)
(* number of maps, DequeList for any buckets and lists (DequeList_proofs), *)
(* SlotSet for any keys, bitsets and sets, and StackVector for any         *)
(* capacity, elements and vectors.                                         *)
(***************************************************************************)
EXTENDS Containers, Recursion

\* Of one map: the lookup L and the array of keys K are inverse to each other.
Opposite(L, K) ==
  /\ \A i \in 1 .. Len(K) : K[i] \in DOMAIN L /\ L[K[i]] = i - 1 /\ L[K[i]] # Sentinel
  /\ \A k \in DOMAIN L : L[k] # Sentinel => L[k] < Len(K) /\ K[L[k] + 1] = k

\* Of one map: what every operation keeps.
MapOK(L, K, V) ==
  /\ L \in Lookups
  /\ K \in Seq(Keys)
  /\ V \in Seq(Values)
  /\ Len(V) = Len(K)
  /\ Opposite(L, K)

IInv ==
  /\ \A m \in Maps : MapOK(lookup[m], keys[m], vals[m])
  /\ lookup \in [Maps -> Lookups]
  /\ keys \in [Maps -> Seq(Keys)]
  /\ vals \in [Maps -> Seq(Values)]
  /\ toErase \in [Maps -> Seq(Keys)]
  /\ loop \in [Maps -> 0 .. NoLoop]

-----------------------------------------------------------------------------
(* Lemmas about the helpers.                                               *)

\* A vector of positions is a function of the keys below its length.
LEMMA LookupType ==
  ASSUME NEW L \in Lookups
  PROVE  \E n \in Positions : L \in [0 .. n - 1 -> Positions]
BY DEF Lookups

\* A function of the keys below some length is a vector of positions.
LEMMA LookupIsFunction ==
  ASSUME NEW n \in Positions, NEW L \in [0 .. n - 1 -> Positions]
  PROVE  L \in Lookups
BY DEF Lookups

\* The last element fills the hole and the array is one shorter.
LEMMA SwapPoppedElements ==
  ASSUME NEW S, NEW s \in Seq(S), NEW i \in 1 .. Len(s)
  PROVE  /\ SwapPopped(s, i) \in Seq(S)
         /\ Len(SwapPopped(s, i)) = Len(s) - 1
         /\ \A j \in 1 .. Len(s) - 1 :
              SwapPopped(s, i)[j] = IF j = i THEN s[Len(s)] ELSE s[j]
<1> DEFINE t == [s EXCEPT ![i] = s[Len(s)]]
<1>1. Len(s) \in Nat /\ Len(s) > 0 /\ s[Len(s)] \in S
  OBVIOUS
<1>2. t \in Seq(S) /\ Len(t) = Len(s)
  BY <1>1
<1>3. \A j \in 1 .. Len(s) : t[j] = IF j = i THEN s[Len(s)] ELSE s[j]
  BY <1>1
<1>4. SwapPopped(s, i) = SubSeq(t, 1, Len(t) - 1)
  BY DEF SwapPopped, Front, Last
<1> HIDE DEF t
<1> QED
  BY <1>1, <1>2, <1>3, <1>4

\* A position below the modulus is kept as it is.
LEMMA SmallMod ==
  ASSUME NEW a \in Nat, NEW b \in Nat, a < b
  PROVE  a % b = a
OBVIOUS

\* While a key is missing there is room for its position below the sentinel.
LEMMA Room ==
  ASSUME NEW L \in Lookups, NEW K \in Seq(Keys), Opposite(L, K),
         NEW k \in Keys, ~ContainsKey(L, k)
  PROVE  Len(K) < Sentinel
<1> SUFFICES ASSUME Len(K) >= Sentinel PROVE FALSE
  BY SentinelAssumption
<1> DEFINE n == Len(K)
           f == [i \in 0 .. n |-> IF i = 0 THEN k ELSE K[i]]
<1>1. n \in Nat /\ Sentinel \in Nat /\ n >= Sentinel
  BY SentinelAssumption
<1>2. f \in [0 .. n -> Keys]
  BY <1>1
<1>3. IsFiniteSet(0 .. n) /\ Cardinality(0 .. n) = n + 1
  BY <1>1, FS_Interval
<1>4. IsFiniteSet(Keys) /\ Cardinality(Keys) = Sentinel
  BY <1>1, SentinelAssumption, FS_Interval DEF Keys
<1>5. Cardinality(Keys) < Cardinality(0 .. n)
  BY <1>1, <1>3, <1>4
<1>6. PICK x \in 0 .. n, y \in 0 .. n : x # y /\ f[x] = f[y]
  <2> HIDE DEF n, f
  <2> QED
    BY <1>2, <1>3, <1>4, <1>5, FS_PigeonHole
<1>7. \A i \in 1 .. n : K[i] # k /\ L[K[i]] = i - 1
  BY DEF Opposite, ContainsKey
<1> QED
  BY <1>1, <1>6, <1>7

\* There are never more items than keys.
LEMMA Fits ==
  ASSUME NEW L \in Lookups, NEW K \in Seq(Keys), Opposite(L, K)
  PROVE  Len(K) <= Sentinel
<1>1. Sentinel \in Nat /\ Len(K) \in Nat
  BY SentinelAssumption
<1>2. IsFiniteSet(1 .. Len(K)) /\ Cardinality(1 .. Len(K)) = Len(K)
  BY SMTT(30), <1>1, FS_Interval
<1>3. IsFiniteSet(Keys) /\ Cardinality(Keys) = Sentinel
  BY <1>1, SentinelAssumption, FS_Interval DEF Keys
<1>4. CASE Len(K) > Sentinel
  <2>1. K \in [1 .. Len(K) -> Keys] /\ Cardinality(Keys) < Cardinality(1 .. Len(K))
    BY <1>1, <1>2, <1>3, <1>4
  <2>2. PICK x \in 1 .. Len(K), y \in 1 .. Len(K) : x # y /\ K[x] = K[y]
    BY <1>2, <1>3, <2>1, FS_PigeonHole
  <2> QED
    BY <2>2 DEF Opposite
<1> QED
  BY <1>1, <1>4

\* Appending a missing key and giving it the next position.
LEMMA InsertedOpposite ==
  ASSUME NEW L \in Lookups, NEW K \in Seq(Keys), Opposite(L, K),
         NEW k \in Keys, ~ContainsKey(L, k)
  PROVE  /\ Inserted(L, k, Len(K)) \in Lookups
         /\ Opposite(Inserted(L, k, Len(K)), Append(K, k))
<1> DEFINE L2 == Inserted(L, k, Len(K))
           K2 == Append(K, k)
<1>1. Len(K) < Sentinel
  BY Room
<1>2. Len(K) % (Sentinel + 1) = Len(K)
  BY <1>1, SentinelAssumption
<1>3. PICK n \in Positions : L \in [0 .. n - 1 -> Positions]
  BY LookupType
<1>4. k \in Nat /\ k < Sentinel /\ n \in Nat /\ n <= Sentinel /\ Sentinel \in Nat
  BY SentinelAssumption DEF Keys, Positions
<1>5. PICK r \in Positions : /\ Resized(L, k) \in [0 .. r - 1 -> Positions]
                             /\ k \in 0 .. r - 1 /\ 0 .. n - 1 \subseteq 0 .. r - 1
  <2>1. CASE k \in DOMAIN L
    BY <1>3, <1>4, <2>1 DEF Resized
  <2>2. CASE k \notin DOMAIN L
    <3>1. Resized(L, k) = [j \in 0 .. k |-> IF j \in DOMAIN L THEN L[j] ELSE Sentinel]
      BY <2>2 DEF Resized
    <3>2. \A j \in 0 .. k : (IF j \in DOMAIN L THEN L[j] ELSE Sentinel) \in Positions
      BY <1>3, <1>4 DEF Positions
    <3>3. Resized(L, k) \in [0 .. (k + 1) - 1 -> Positions]
      BY <1>4, <3>1, <3>2
    <3>4. n <= k /\ k + 1 \in Positions
      BY <1>3, <1>4, <2>2 DEF Positions
    <3> QED
      BY <1>4, <3>3, <3>4
  <2> QED BY <2>1, <2>2
<1>6. \A j \in 0 .. r - 1 : Resized(L, k)[j] = IF j \in 0 .. n - 1 THEN L[j] ELSE Sentinel
  BY <1>3, <1>4, <1>5 DEF Resized
<1>7. L2 = [Resized(L, k) EXCEPT ![k] = Len(K)]
  BY <1>2 DEF Inserted
<1>8. L2 \in [0 .. r - 1 -> Positions] /\ L2[k] = Len(K)
  BY <1>1, <1>4, <1>5, <1>7 DEF Positions
<1>9. \A j \in 0 .. r - 1 : j # k => L2[j] = IF j \in 0 .. n - 1 THEN L[j] ELSE Sentinel
  BY <1>5, <1>6, <1>7
<1>10. K2 \in Seq(Keys) /\ Len(K2) = Len(K) + 1 /\ K2[Len(K) + 1] = k
       /\ \A i \in 1 .. Len(K) : K2[i] = K[i] /\ K[i] # k
  BY DEF Opposite, ContainsKey
<1> HIDE DEF L2, K2
<1>11. \A i \in 1 .. Len(K2) : K2[i] \in DOMAIN L2 /\ L2[K2[i]] = i - 1 /\ L2[K2[i]] # Sentinel
  <2> TAKE i \in 1 .. Len(K2)
  <2>1. CASE i = Len(K) + 1
    BY <1>1, <1>4, <1>5, <1>8, <1>10, <2>1
  <2>2. CASE i \in 1 .. Len(K)
    <3>1. K[i] \in 0 .. n - 1 /\ L[K[i]] = i - 1 /\ L[K[i]] # Sentinel
      BY <1>3, <2>2 DEF Opposite
    <3> QED
      BY <1>5, <1>8, <1>9, <1>10, <2>2, <3>1
  <2> QED
    BY <1>10, <2>1, <2>2
<1>12. \A j \in DOMAIN L2 : L2[j] # Sentinel => L2[j] < Len(K2) /\ K2[L2[j] + 1] = j
  <2> SUFFICES ASSUME NEW j \in 0 .. r - 1, L2[j] # Sentinel
               PROVE  L2[j] < Len(K2) /\ K2[L2[j] + 1] = j
    BY <1>8
  <2>1. CASE j = k
    BY <1>8, <1>10, <2>1
  <2>2. CASE j # k
    <3>1. j \in DOMAIN L /\ L2[j] = L[j] /\ L[j] \in Nat
      BY <1>3, <1>4, <1>9, <2>2 DEF Positions
    <3>2. L[j] < Len(K) /\ K[L[j] + 1] = j
      BY <3>1 DEF Opposite
    <3> QED
      BY <1>10, <3>1, <3>2
  <2> QED BY <2>1, <2>2
<1>13. Opposite(L2, K2)
  BY <1>11, <1>12 DEF Opposite
<1>14. L2 \in Lookups
  BY <1>5, <1>8, LookupIsFunction
<1> QED
  BY <1>13, <1>14 DEF L2, K2

\* Erasing a key that is there: its entry is invalidated and, unless it was the
\* last one, the key of the last item gets its position.
LEMMA ErasedOpposite ==
  ASSUME NEW L \in Lookups, NEW K \in Seq(Keys), Opposite(L, K),
         NEW k \in Keys, ContainsKey(L, k), NEW L2,
         L2 = IF L[k] + 1 = Len(K) THEN Invalidated(L, k)
              ELSE Updated(Invalidated(L, k), K[Len(K)], L[k])
  PROVE  /\ L[k] + 1 \in 1 .. Len(K)
         /\ L2 \in Lookups
         /\ Opposite(L2, SwapPopped(K, L[k] + 1))
<1> DEFINE i == L[k] + 1
           N == Len(K)
           K2 == SwapPopped(K, i)
<1>1. PICK n \in Positions : L \in [0 .. n - 1 -> Positions]
  BY LookupType
<1>2. n \in Nat /\ Sentinel \in Nat /\ N \in Nat
  BY SentinelAssumption DEF Positions
<1>3. k \in 0 .. n - 1 /\ L[k] \in Nat /\ L[k] < Sentinel /\ L[k] < N /\ K[i] = k
  BY <1>1, <1>2 DEF ContainsKey, Opposite, Positions
<1>4. i \in 1 .. N
  BY <1>2, <1>3
<1>41. N \in 1 .. N /\ K[N] \in 0 .. n - 1 /\ L[K[N]] = N - 1
  BY <1>1, <1>2, <1>4 DEF Opposite
<1>5. /\ K2 \in Seq(Keys)
      /\ Len(K2) = N - 1
      /\ \A j \in 1 .. N - 1 : K2[j] = IF j = i THEN K[N] ELSE K[j]
  BY <1>4, SwapPoppedElements
<1>6. /\ L2 \in [0 .. n - 1 -> Positions]
      /\ L2[k] = Sentinel
      /\ i # N => K[N] \in 0 .. n - 1 /\ K[N] # k /\ L2[K[N]] = L[k]
      /\ \A j \in 0 .. n - 1 : j # k /\ (i # N => j # K[N]) => L2[j] = L[j]
  <2>1. Invalidated(L, k) \in [0 .. n - 1 -> Positions]
    BY <1>1, <1>2, <1>3 DEF Invalidated, Positions
  <2>2. CASE i = N
    BY <1>1, <1>3, <2>1, <2>2 DEF Invalidated
  <2>3. CASE i # N
    <3>1. K[N] # k
      BY <1>2, <1>3, <1>41, <2>3
    <3>2. L[k] \in Positions
      BY <1>1, <1>3
    <3>3. L[k] % (Sentinel + 1) = L[k]
      BY SMTT(30), <1>2, <1>3, SmallMod
    <3>4. L2 = [Invalidated(L, k) EXCEPT ![K[N]] = L[k]]
      BY <2>3, <3>3 DEF Updated
    <3>5. Invalidated(L, k)[k] = Sentinel
          /\ \A j \in 0 .. n - 1 : j # k => Invalidated(L, k)[j] = L[j]
      BY <1>1, <1>3 DEF Invalidated
    <3> HIDE DEF i, N
    <3>6. L2 \in [0 .. n - 1 -> Positions] /\ L2[K[N]] = L[k]
      BY <1>41, <2>1, <3>2, <3>4
    <3>7. \A j \in 0 .. n - 1 : j # K[N] => L2[j] = Invalidated(L, k)[j]
      BY <1>41, <2>1, <3>4
    <3> QED
      BY <1>3, <1>41, <2>3, <3>1, <3>5, <3>6, <3>7
  <2> QED BY <2>2, <2>3
<1>7. \A j \in 1 .. N - 1 : /\ K2[j] \in 0 .. n - 1
                            /\ L2[K2[j]] = j - 1
                            /\ L2[K2[j]] # Sentinel
  <2> TAKE j \in 1 .. N - 1
  <2>1. /\ K[j] \in 0 .. n - 1
        /\ L[K[j]] = j - 1
        /\ L[K[j]] # Sentinel
    BY <1>1, <1>2 DEF Opposite
  <2>2. CASE j = i
    <3>1. i # N /\ K2[j] = K[N]
      BY SMTT(30), <1>2, <1>5, <2>2
    <3> QED
      BY SMTT(30), <1>2, <1>3, <1>6, <2>2, <3>1
  <2>3. CASE j # i
    <3>1. K2[j] = K[j] /\ K[j] # k
      BY <1>2, <1>3, <1>5, <2>1, <2>3
    <3>2. K[j] # K[N]
      BY <1>2, <1>41, <2>1
    <3> QED
      BY <1>6, <2>1, <3>1, <3>2
  <2> QED BY <2>2, <2>3
<1>8. \A j \in 0 .. n - 1 : L2[j] # Sentinel => L2[j] < N - 1 /\ K2[L2[j] + 1] = j
  <2> SUFFICES ASSUME NEW j \in 0 .. n - 1, L2[j] # Sentinel
               PROVE  L2[j] < N - 1 /\ K2[L2[j] + 1] = j
    OBVIOUS
  <2>1. j # k
    BY <1>6
  <2>2. CASE i # N /\ j = K[N]
    <3>1. L2[j] = L[k] /\ L[k] + 1 = i
      BY <1>6, <2>2
    <3>2. i \in 1 .. N - 1
      BY <1>2, <1>3, <2>2
    <3>3. K2[i] = j
      BY <1>5, <2>2, <3>2
    <3>4. L[k] \in Int
      BY <1>2, <1>3
    <3> HIDE DEF i, N, K2
    <3> QED
      BY <1>2, <3>1, <3>2, <3>3, <3>4
  <2>3. CASE ~(i # N /\ j = K[N])
    <3>1. L2[j] = L[j] /\ L[j] \in Nat
      BY <1>1, <1>6, <2>1, <2>3 DEF Positions
    <3>2. L[j] < N /\ K[L[j] + 1] = j
      BY <1>1, <3>1 DEF Opposite
    <3>3. L[j] + 1 # i /\ L[j] + 1 # N
      BY <1>2, <1>3, <2>1, <2>3, <3>1, <3>2
    <3>4. L[j] + 1 \in 1 .. N - 1
      BY <1>2, <3>1, <3>2, <3>3
    <3>5. K2[L[j] + 1] = K[L[j] + 1]
      BY <1>5, <3>3, <3>4
    <3> QED
      BY <1>2, <3>1, <3>2, <3>4, <3>5
  <2> QED BY <2>2, <2>3
<1> HIDE DEF K2, i, N
<1>9. Opposite(L2, K2)
  BY SMTT(30), <1>2, <1>5, <1>6, <1>7, <1>8 DEF Opposite
<1>10. L2 \in Lookups
  BY <1>6, LookupIsFunction
<1> QED
  BY <1>4, <1>9, <1>10 DEF K2, i, N

-----------------------------------------------------------------------------
(* The invariant.                                                          *)

\* The part of the invariant that is about the arrays.
ArraysOK ==
  /\ \A m \in Maps : MapOK(lookup[m], keys[m], vals[m])
  /\ lookup \in [Maps -> Lookups]
  /\ keys \in [Maps -> Seq(Keys)]
  /\ vals \in [Maps -> Seq(Values)]

\* When one map changes, only that map has to be looked at.
LEMMA OneMapChanges ==
  ASSUME ArraysOK, NEW m \in Maps, NEW L, NEW K, NEW V, MapOK(L, K, V),
         lookup' = [lookup EXCEPT ![m] = L],
         keys' = [keys EXCEPT ![m] = K],
         vals' = [vals EXCEPT ![m] = V]
  PROVE  ArraysOK'
<1>1. lookup'[m] = L /\ keys'[m] = K /\ vals'[m] = V
  BY DEF ArraysOK
<1>2. \A x \in Maps \ {m} : /\ lookup'[x] = lookup[x]
                             /\ keys'[x] = keys[x]
                             /\ vals'[x] = vals[x]
  BY DEF ArraysOK
<1>3. \A x \in Maps : MapOK(lookup'[x], keys'[x], vals'[x])
  BY <1>1, <1>2 DEF ArraysOK
<1>4. L \in Lookups /\ K \in Seq(Keys) /\ V \in Seq(Values)
  BY DEF MapOK
<1> QED
  BY <1>3, <1>4 DEF ArraysOK

\* The empty arrays and the empty lookup agree.
LEMMA EmptyOK == MapOK(EmptyLookup, <<>>, <<>>)
<1>1. EmptyLookup \in [0 .. 0 - 1 -> Positions] /\ 0 \in Positions
  BY SentinelAssumption DEF EmptyLookup, Positions
<1>2. EmptyLookup \in Lookups
  BY <1>1, LookupIsFunction
<1> QED
  BY <1>2 DEF MapOK, Opposite, EmptyLookup

\* A key that is there is at the position the lookup says, counted from 1.
LEMMA PositionOfKey ==
  ASSUME ArraysOK, NEW m \in Maps, NEW k \in Keys, Has(m, k)
  PROVE  /\ IndexOf(m, k) = lookup[m][k] + 1
         /\ IndexOf(m, k) \in 1 .. Len(keys[m])
         /\ Len(vals[m]) = Len(keys[m])
<1>1. MapOK(lookup[m], keys[m], vals[m])
  BY DEF ArraysOK
<1>2. IndexOf(m, k) = lookup[m][k] + 1
  BY DEF IndexOf, Find, Has
<1>3. lookup[m][k] + 1 \in 1 .. Len(keys[m])
  BY <1>1, ErasedOpposite DEF MapOK, Has
<1> QED
  BY <1>1, <1>2, <1>3 DEF MapOK

\* Inserting a key that is not there.
LEMMA InsertOK ==
  ASSUME ArraysOK, NEW m \in Maps, NEW k \in Keys, NEW v \in Values, Insert(m, k, v)
  PROVE  ArraysOK'
<1> DEFINE L == Inserted(lookup[m], k, Len(vals[m]))
<1>1. MapOK(lookup[m], keys[m], vals[m]) /\ ~ContainsKey(lookup[m], k)
  BY DEF ArraysOK, Insert, Has
<1>2. L \in Lookups /\ Opposite(L, Append(keys[m], k))
  BY <1>1, InsertedOpposite DEF MapOK
<1> HIDE DEF L
<1>3. MapOK(L, Append(keys[m], k), Append(vals[m], v))
  BY <1>1, <1>2 DEF MapOK
<1> QED
  BY <1>3, OneMapChanges DEF Insert, L

\* Assigning to a key that is there.
LEMMA AssignOK ==
  ASSUME ArraysOK, NEW m \in Maps, NEW k \in Keys, NEW v \in Values, Assign(m, k, v)
  PROVE  ArraysOK'
<1> DEFINE V == [vals[m] EXCEPT ![IndexOf(m, k)] = v]
<1>1. MapOK(lookup[m], keys[m], vals[m])
  BY DEF ArraysOK
<1>2. IndexOf(m, k) \in 1 .. Len(vals[m])
  BY PositionOfKey DEF Assign
<1>3. V \in Seq(Values) /\ Len(V) = Len(vals[m])
  BY <1>1, <1>2 DEF MapOK
<1>4. vals' = [vals EXCEPT ![m] = V]
  BY DEF Assign
<1> HIDE DEF V
<1>5. MapOK(lookup[m], keys[m], V)
  BY <1>1, <1>3 DEF MapOK
<1>6. lookup' = [lookup EXCEPT ![m] = lookup[m]] /\ keys' = [keys EXCEPT ![m] = keys[m]]
  BY DEF Assign, ArraysOK
<1> QED
  BY <1>4, <1>5, <1>6, OneMapChanges

\* Erasing a key, alone, out of a range or in a loop.
LEMMA EraseItemOK ==
  ASSUME ArraysOK, NEW m \in Maps, NEW k \in Keys, EraseItem(m, k)
  PROVE  ArraysOK'
<1>1. CASE ~Has(m, k)
  BY <1>1 DEF EraseItem, ArraysOK
<1>2. CASE Has(m, k)
  <2> DEFINE i == IndexOf(m, k)
             L == LookupErased(m, k)
             K == SwapPopped(keys[m], i)
             V == SwapPopped(vals[m], i)
  <2>1. MapOK(lookup[m], keys[m], vals[m])
    BY DEF ArraysOK
  <2>2. /\ i = lookup[m][k] + 1
        /\ i \in 1 .. Len(keys[m])
        /\ i \in 1 .. Len(vals[m])
        /\ Len(vals[m]) = Len(keys[m])
    BY <1>2, PositionOfKey
  <2>3. lookup[m][k] = i - 1
    <3>1. PICK n \in Positions : lookup[m] \in [0 .. n - 1 -> Positions]
      BY <2>1, LookupType DEF MapOK
    <3>2. lookup[m][k] \in Nat
      BY <1>2, <3>1, SentinelAssumption DEF Has, ContainsKey, Positions
    <3> QED
      BY <2>2, <3>2
  <2>4. L = IF lookup[m][k] + 1 = Len(keys[m]) THEN Invalidated(lookup[m], k)
            ELSE Updated(Invalidated(lookup[m], k), keys[m][Len(keys[m])], lookup[m][k])
    BY <2>2, <2>3 DEF LookupErased, Last
  <2>5. L \in Lookups /\ Opposite(L, K)
    <3> HIDE DEF L
    <3>1. L \in Lookups /\ Opposite(L, SwapPopped(keys[m], lookup[m][k] + 1))
      BY <1>2, <2>1, <2>4, ErasedOpposite DEF MapOK, Has
    <3> QED
      BY <2>2, <3>1
  <2>6. /\ K \in Seq(Keys) /\ Len(K) = Len(keys[m]) - 1
        /\ V \in Seq(Values) /\ Len(V) = Len(vals[m]) - 1
    BY SMTT(30), <2>1, <2>2, SwapPoppedElements DEF MapOK
  <2>7. /\ lookup' = [lookup EXCEPT ![m] = L]
        /\ keys' = [keys EXCEPT ![m] = K]
        /\ vals' = [vals EXCEPT ![m] = V]
    BY <1>2 DEF EraseItem
  <2> HIDE DEF L, K, V
  <2>8. MapOK(L, K, V)
    BY <2>2, <2>5, <2>6 DEF MapOK
  <2> QED
    BY <2>7, <2>8, OneMapChanges
<1> QED
  BY <1>1, <1>2

\* The new slotmaps are empty and idle.
LEMMA InitIInv == Init => IInv
BY EmptyOK, SentinelAssumption DEF Init, IInv, MapOK, NoLoop

\* Every step keeps the lookup and the arrays of every map in agreement.
LEMMA ArraysStep ==
  ASSUME ArraysOK, IInv, [Next]_vars
  PROVE  ArraysOK'
<1>1. ASSUME UNCHANGED <<lookup, keys, vals>> PROVE ArraysOK'
  BY <1>1 DEF ArraysOK
<1>2. ASSUME NEW m \in Maps, NEW k \in Keys, NEW v \in Values,
             Insert(m, k, v) \/ Assign(m, k, v)
      PROVE  ArraysOK'
  BY <1>2, InsertOK, AssignOK
<1>3. ASSUME NEW m \in Maps, NEW k \in Keys, Erase(m, k) PROVE ArraysOK'
  BY <1>3, EraseItemOK DEF Erase
<1>4. ASSUME NEW m \in Maps, EraseNext(m) PROVE ArraysOK'
  <2>1. Head(toErase[m]) \in Keys
    BY <1>4 DEF EraseNext, IInv
  <2> QED
    BY <1>4, <2>1, EraseItemOK DEF EraseNext
<1>5. ASSUME NEW m \in Maps, LoopErases(m) PROVE ArraysOK'
  <2>1. MapOK(lookup[m], keys[m], vals[m]) /\ loop[m] \in Nat
    BY SentinelAssumption DEF ArraysOK, IInv, NoLoop
  <2>2. keys[m][loop[m] + 1] \in Keys
    BY <1>5, <2>1 DEF LoopErases, MapOK
  <2> QED
    BY <1>5, <2>2, EraseItemOK DEF LoopErases
<1>6. ASSUME NEW m \in Maps, Clear(m) PROVE ArraysOK'
  BY <1>6, EmptyOK, OneMapChanges DEF Clear
<1>7. ASSUME NEW m \in Maps, NEW n \in Maps, Swap(m, n) PROVE ArraysOK'
  <2>1. \A x \in Maps : \E y \in Maps : /\ lookup'[x] = lookup[y]
                                        /\ keys'[x] = keys[y]
                                        /\ vals'[x] = vals[y]
    BY <1>7 DEF Swap, ArraysOK
  <2>2. /\ lookup' \in [Maps -> Lookups]
        /\ keys' \in [Maps -> Seq(Keys)]
        /\ vals' \in [Maps -> Seq(Values)]
    BY <1>7 DEF Swap, ArraysOK
  <2> QED
    BY <2>1, <2>2 DEF ArraysOK
<1> QED
  BY <1>1, <1>2, <1>3, <1>4, <1>5, <1>6, <1>7
  DEF Next, vars, EraseRange, LoopBegin, LoopKeeps, LoopEnds

\* The keys of a range are keys, and the position of a loop never passes the end.
LEMMA CallsStep ==
  ASSUME IInv, [Next]_vars
  PROVE  toErase' \in [Maps -> Seq(Keys)] /\ loop' \in [Maps -> 0 .. NoLoop]
<1> USE DEF IInv
<1>0. 0 \in 0 .. NoLoop /\ NoLoop \in 0 .. NoLoop
  BY SentinelAssumption DEF NoLoop
<1>1. ASSUME UNCHANGED <<toErase, loop>> PROVE toErase' \in [Maps -> Seq(Keys)] /\ loop' \in [Maps -> 0 .. NoLoop]
  BY <1>1
<1>2. ASSUME NEW m \in Maps, NEW first \in Positions, NEW last \in Positions,
             EraseRange(m, first, last)
      PROVE  toErase' \in [Maps -> Seq(Keys)] /\ loop' \in [Maps -> 0 .. NoLoop]
  <2>1. first \in Nat /\ last \in Nat /\ first < last /\ last <= Len(keys[m])
    BY <1>2, SentinelAssumption DEF EraseRange, Positions
  <2>2. SubSeq(keys[m], first + 1, last) \in Seq(Keys)
    BY <2>1
  <2> QED
    BY <1>2, <2>2 DEF EraseRange
<1>3. ASSUME NEW m \in Maps, EraseNext(m)
      PROVE  toErase' \in [Maps -> Seq(Keys)] /\ loop' \in [Maps -> 0 .. NoLoop]
  BY <1>3 DEF EraseNext
<1>4. ASSUME NEW m \in Maps, LoopBegin(m) \/ LoopEnds(m)
      PROVE  toErase' \in [Maps -> Seq(Keys)] /\ loop' \in [Maps -> 0 .. NoLoop]
  BY <1>0, <1>4 DEF LoopBegin, LoopEnds
<1>5. ASSUME NEW m \in Maps, LoopKeeps(m)
      PROVE  toErase' \in [Maps -> Seq(Keys)] /\ loop' \in [Maps -> 0 .. NoLoop]
  <2>1. MapOK(lookup[m], keys[m], vals[m])
    OBVIOUS
  <2>2. Len(vals[m]) <= Sentinel /\ Len(vals[m]) \in Nat
    BY <2>1, Fits DEF MapOK
  <2>3. loop[m] + 1 \in 0 .. NoLoop
    BY <1>5, <2>2, SentinelAssumption DEF LoopKeeps, NoLoop
  <2> QED
    BY <1>5, <2>3 DEF LoopKeeps
<1> QED
  BY <1>1, <1>2, <1>3, <1>4, <1>5
  DEF Next, vars, Insert, Assign, Erase, Clear, Swap, LoopErases

\* In every state the lookup and the arrays of every map agree.
THEOREM Invariance == Spec => []IInv
<1>1. IInv /\ [Next]_vars => IInv'
  <2> SUFFICES ASSUME IInv, [Next]_vars PROVE IInv'
    OBVIOUS
  <2>1. ArraysOK
    BY DEF IInv, ArraysOK
  <2>2. ArraysOK'
    BY <2>1, ArraysStep
  <2> QED
    BY <2>2, CallsStep DEF IInv, ArraysOK
<1> QED
  BY InitIInv, <1>1, PTL DEF Spec

\* Every position and every length of flat_id_slotmap stays in range.
THEOREM TypeCorrect == Spec => []TypeOK
<1>1. IInv => TypeOK
  BY DEF IInv, TypeOK
<1> QED
  BY <1>1, Invariance, PTL

\* The assertion of every function of flat_id_slotmap: as many values as keys.
THEOREM SizesCorrect == Spec => []SameSize
<1>1. IInv => SameSize
  BY DEF IInv, MapOK, SameSize
<1> QED
  BY <1>1, Invariance, PTL

\* The lookup and the array of keys are inverse to each other: every item is
\* found under its own key, and no key leads anywhere else.
THEOREM LookupCorrect == Spec => []LookupInverse
<1>1. ASSUME IInv PROVE LookupInverse
  <2>1. ASSUME NEW m \in Maps
        PROVE  /\ Opposite(lookup[m], keys[m])
               /\ DOMAIN keys[m] = 1 .. Len(keys[m])
    BY <1>1 DEF IInv, MapOK
  <2> QED
    BY <2>1 DEF Opposite, LookupInverse, Has, ContainsKey
<1> QED
  BY <1>1, Invariance, PTL

-----------------------------------------------------------------------------
(* The slotmap as a map.                                                   *)

\* The keys of an array.
KeySet(K) == {K[i] : i \in 1 .. Len(K)}

\* f maps each key of K to the value of V at the same place, and nothing else.
IsMapOf(K, V, f) ==
  /\ f = [k \in KeySet(K) |-> f[k]]
  /\ \A i \in 1 .. Len(K) : f[K[i]] = V[i]

\* The map a lookup and an array of values stand for.
View(L, V) == [k \in {j \in Keys : ContainsKey(L, j)} |-> V[Find(L, k, Len(V)) + 1]]

\* A map is given by its keys and values in any order.
LEMMA SameMap ==
  ASSUME NEW K, NEW V, NEW f, NEW g, IsMapOf(K, V, f), IsMapOf(K, V, g)
  PROVE  f = g
<1>1. \A k \in KeySet(K) : f[k] = g[k]
  BY DEF IsMapOf, KeySet
<1> QED
  BY <1>1 DEF IsMapOf

\* A lookup that is inverse to the array of keys reads the map the arrays are.
LEMMA ViewIsMap ==
  ASSUME NEW L, NEW K, NEW V, MapOK(L, K, V)
  PROVE  IsMapOf(K, V, View(L, V))
<1>1. PICK n \in Positions : L \in [0 .. n - 1 -> Positions]
  BY LookupType DEF MapOK
<1>2. /\ Len(K) \in Nat /\ Sentinel \in Nat /\ n \in Nat /\ n <= Sentinel
      /\ \A k \in 0 .. n - 1 : L[k] \in Nat
      /\ \A i \in 1 .. Len(K) : K[i] \in Keys
  BY <1>1, SentinelAssumption DEF MapOK, Positions
<1>3. \A i \in 1 .. Len(K) : ContainsKey(L, K[i]) /\ Find(L, K[i], Len(V)) + 1 = i
  BY <1>2 DEF MapOK, Opposite, ContainsKey, Find
<1>4. {j \in Keys : ContainsKey(L, j)} = KeySet(K)
  <2>1. ASSUME NEW k \in Keys, ContainsKey(L, k) PROVE k \in KeySet(K)
    <3>1. L[k] \in Nat /\ L[k] < Len(K) /\ K[L[k] + 1] = k
      BY <1>1, <1>2, <2>1 DEF MapOK, Opposite, ContainsKey
    <3>2. L[k] + 1 \in 1 .. Len(K)
      BY <1>2, <3>1
    <3> QED
      BY <3>1, <3>2 DEF KeySet
  <2>2. ASSUME NEW k \in KeySet(K) PROVE k \in Keys /\ ContainsKey(L, k)
    BY <1>2, <1>3 DEF KeySet
  <2> QED
    BY <2>1, <2>2
<1>5. View(L, V) = [k \in KeySet(K) |-> V[Find(L, k, Len(V)) + 1]]
  BY <1>4 DEF View
<1>6. \A i \in 1 .. Len(K) : K[i] \in KeySet(K)
  BY DEF KeySet
<1> QED
  BY <1>3, <1>5, <1>6 DEF IsMapOf

\* No key is there twice.
LEMMA KeysDiffer ==
  ASSUME NEW L, NEW K, NEW V, MapOK(L, K, V)
  PROVE  \A i, j \in 1 .. Len(K) : K[i] = K[j] => i = j
<1>1. Len(K) \in Nat
  BY DEF MapOK
<1> QED
  BY <1>1 DEF MapOK, Opposite

\* A key and a value at the end of the arrays.
LEMMA InsertedMap ==
  ASSUME NEW K \in Seq(Keys), NEW V \in Seq(Values), Len(V) = Len(K), NEW f,
         IsMapOf(K, V, f), NEW k \in Keys, NEW v \in Values, k \notin KeySet(K)
  PROVE  IsMapOf(Append(K, k), Append(V, v), Abstract!With(f, k, v))
<1> DEFINE g == Abstract!With(f, k, v)
           K2 == Append(K, k)
           V2 == Append(V, v)
<1>1. DOMAIN f = KeySet(K)
  BY DEF IsMapOf
<1>2. g = [j \in KeySet(K) \cup {k} |-> IF j = k THEN v ELSE f[j]]
  BY <1>1 DEF Abstract!With
<1>3. /\ Len(K2) = Len(K) + 1 /\ Len(K) \in Nat
      /\ K2[Len(K) + 1] = k /\ V2[Len(K) + 1] = v
      /\ \A i \in 1 .. Len(K) : K2[i] = K[i] /\ V2[i] = V[i]
  OBVIOUS
<1>4. \A i \in 1 .. Len(K) + 1 : i \in 1 .. Len(K) \/ i = Len(K) + 1
  BY <1>3
<1>5. \A i \in 1 .. Len(K) : i \in 1 .. Len(K) + 1
  BY <1>3
<1> HIDE DEF K2, V2
<1>6. KeySet(K2) = KeySet(K) \cup {k}
  BY <1>3, <1>4, <1>5 DEF KeySet
<1>7. \A i \in 1 .. Len(K) : K[i] \in KeySet(K) /\ K[i] # k /\ f[K[i]] = V[i]
  BY DEF KeySet, IsMapOf
<1> HIDE DEF g
<1>8. \A i \in 1 .. Len(K2) : g[K2[i]] = V2[i]
  BY <1>2, <1>3, <1>4, <1>7
<1> QED
  BY <1>2, <1>6, <1>8 DEF IsMapOf, K2, V2, g

\* A value written at the position of its key.
LEMMA AssignedMap ==
  ASSUME NEW L, NEW K, NEW V, MapOK(L, K, V), NEW f, IsMapOf(K, V, f),
         NEW i \in 1 .. Len(K), NEW v \in Values
  PROVE  IsMapOf(K, [V EXCEPT ![i] = v], Abstract!With(f, K[i], v))
<1> DEFINE g == Abstract!With(f, K[i], v)
           V2 == [V EXCEPT ![i] = v]
<1>1. DOMAIN f = KeySet(K) /\ K[i] \in KeySet(K)
  BY DEF IsMapOf, KeySet
<1>2. g = [j \in KeySet(K) |-> IF j = K[i] THEN v ELSE f[j]]
  <2>1. KeySet(K) \cup {K[i]} = KeySet(K)
    BY <1>1
  <2> QED
    BY <1>1, <2>1 DEF Abstract!With
<1>3. DOMAIN V = 1 .. Len(K)
  BY DEF MapOK
<1>4. \A j \in 1 .. Len(K) : V2[j] = IF j = i THEN v ELSE V[j]
  BY <1>3
<1>5. \A j \in 1 .. Len(K) :
        K[j] \in KeySet(K) /\ f[K[j]] = V[j] /\ (K[j] = K[i] <=> j = i)
  BY KeysDiffer DEF KeySet, IsMapOf
<1> HIDE DEF V2, g
<1>6. \A j \in 1 .. Len(K) : g[K[j]] = V2[j]
  BY <1>2, <1>4, <1>5
<1> QED
  BY <1>2, <1>6 DEF IsMapOf, V2, g

\* The keys and values after the last ones have filled the hole.
LEMMA ErasedMap ==
  ASSUME NEW L, NEW K, NEW V, MapOK(L, K, V), NEW f, IsMapOf(K, V, f),
         NEW i \in 1 .. Len(K)
  PROVE  IsMapOf(SwapPopped(K, i), SwapPopped(V, i), Abstract!Without(f, {K[i]}))
<1> DEFINE g == Abstract!Without(f, {K[i]})
           K2 == SwapPopped(K, i)
           V2 == SwapPopped(V, i)
           N == Len(K)
<1>1. DOMAIN f = KeySet(K) /\ N \in Nat
  BY DEF IsMapOf, MapOK
<1>2. g = [j \in KeySet(K) \ {K[i]} |-> f[j]]
  BY <1>1 DEF Abstract!Without
<1>3. Len(K2) = N - 1 /\ \A j \in 1 .. N - 1 : K2[j] = IF j = i THEN K[N] ELSE K[j]
  BY SwapPoppedElements DEF MapOK
<1>4. \A j \in 1 .. N - 1 : V2[j] = IF j = i THEN V[N] ELSE V[j]
  <2>1. V \in Seq(Values) /\ i \in 1 .. Len(V) /\ Len(V) = N
    BY DEF MapOK
  <2>2. \A j \in 1 .. Len(V) - 1 :
          SwapPopped(V, i)[j] = IF j = i THEN V[Len(V)] ELSE V[j]
    BY <2>1, SwapPoppedElements
  <2> QED
    BY <2>1, <2>2
<1> HIDE DEF K2, V2
<1>5. \A j, k \in 1 .. N : K[j] = K[k] => j = k
  BY KeysDiffer
<1>6. \A j \in 1 .. N : K[j] \in KeySet(K) /\ f[K[j]] = V[j]
  BY DEF KeySet, IsMapOf
<1>7. \A j \in 1 .. N - 1 :
        /\ j \in 1 .. N /\ N \in 1 .. N /\ j # N
        /\ K2[j] \in KeySet(K) \ {K[i]}
        /\ f[K2[j]] = V2[j]
  <2> SUFFICES ASSUME NEW j \in 1 .. N - 1
               PROVE  /\ j \in 1 .. N /\ N \in 1 .. N /\ j # N
                      /\ K2[j] \in KeySet(K) \ {K[i]}
                      /\ f[K2[j]] = V2[j]
    OBVIOUS
  <2>1. j \in 1 .. N /\ N \in 1 .. N /\ j # N
    BY <1>1
  <2>2. CASE j = i
    <3>1. K2[j] = K[N] /\ V2[j] = V[N] /\ N # i
      BY <1>3, <1>4, <2>1, <2>2
    <3> QED
      BY <1>5, <1>6, <2>1, <3>1
  <2>3. CASE j # i
    <3>1. K2[j] = K[j] /\ V2[j] = V[j]
      BY <1>3, <1>4, <2>3
    <3> QED
      BY <1>5, <1>6, <2>1, <2>3, <3>1
  <2> QED BY <2>2, <2>3
<1>8. KeySet(K2) = KeySet(K) \ {K[i]}
  <2>1. ASSUME NEW k \in KeySet(K), k # K[i] PROVE k \in KeySet(K2)
    <3>1. PICK j \in 1 .. N : k = K[j]
      BY DEF KeySet
    <3>2. j # i
      BY <2>1, <3>1
    <3>3. CASE j = N
      <4>1. i \in 1 .. N - 1
        BY <1>1, <3>2, <3>3
      <4> QED
        BY <1>3, <3>1, <3>3, <4>1 DEF KeySet
    <3>4. CASE j # N
      <4>1. j \in 1 .. N - 1
        BY <1>1, <3>4
      <4>2. K2[j] = k
        BY <1>3, <3>1, <3>2, <4>1
      <4> QED
        BY <1>3, <4>1, <4>2 DEF KeySet
    <3> QED BY <3>3, <3>4
  <2>2. ASSUME NEW k \in KeySet(K2) PROVE k \in KeySet(K) \ {K[i]}
    <3>1. PICK j \in 1 .. N - 1 : k = K2[j]
      BY <1>3 DEF KeySet
    <3> QED
      BY <1>7, <3>1
  <2> QED
    BY <2>1, <2>2
<1> HIDE DEF g
<1>9. \A j \in 1 .. N - 1 : g[K2[j]] = V2[j]
  BY <1>2, <1>7
<1>10. g = [k \in KeySet(K2) |-> g[k]]
  BY <1>2, <1>8
<1> QED
  BY <1>3, <1>9, <1>10 DEF IsMapOf, K2, V2, g

-----------------------------------------------------------------------------
(* operator==.                                                             *)

\* A map has as many keys as items.
LEMMA KeyCount ==
  ASSUME NEW L, NEW K, NEW V, MapOK(L, K, V)
  PROVE  IsFiniteSet(KeySet(K)) /\ Cardinality(KeySet(K)) = Len(K)
<1>1. Len(K) \in Nat
  BY DEF MapOK
<1>2. IsFiniteSet(1 .. Len(K)) /\ Cardinality(1 .. Len(K)) = Len(K)
  <2> DEFINE N == Len(K)
  <2>1. N \in Nat
    BY <1>1
  <2> HIDE DEF N
  <2>2. IsFiniteSet(1 .. N) /\ Cardinality(1 .. N) = IF 1 > N THEN 0 ELSE N - 1 + 1
    BY <2>1, FS_Interval
  <2>3. Cardinality(1 .. N) = N
    BY <2>1, <2>2
  <2> QED
    BY <2>2, <2>3 DEF N
<1> DEFINE h == [i \in 1 .. Len(K) |-> K[i]]
<1>3. h \in [1 .. Len(K) -> KeySet(K)]
  BY DEF KeySet
<1>4. \A i, j \in 1 .. Len(K) : h[i] = h[j] => i = j
  BY KeysDiffer
<1>5. \A k \in KeySet(K) : \E i \in 1 .. Len(K) : h[i] = k
  BY DEF KeySet
<1> HIDE DEF h
<1>6. h \in Bijection(1 .. Len(K), KeySet(K))
  BY <1>3, <1>4, <1>5 DEF Bijection, Injection, Surjection, IsInjective
<1> QED
  BY <1>2, <1>6, FS_Bijection DEF ExistsBijection

\* Maps built in any order compare equal exactly when they map the same keys to
\* the same values.
THEOREM EqualCorrect == Spec => []EqualSound
<1>1. ASSUME IInv PROVE EqualSound
  <2> SUFFICES ASSUME NEW m \in Maps, NEW n \in Maps
               PROVE  Equal(m, n) <=> Map(m) = Map(n)
    BY DEF EqualSound
  <2>0. \A x \in Maps : /\ MapOK(lookup[x], keys[x], vals[x])
                        /\ Map(x) = View(lookup[x], vals[x])
                        /\ DOMAIN keys[x] = 1 .. Len(keys[x])
                        /\ Len(vals[x]) = Len(keys[x])
    BY <1>1 DEF IInv, Map, View, Has, IndexOf, MapOK
  <2>1. \A x \in Maps : /\ IsMapOf(keys[x], vals[x], Map(x))
                        /\ DOMAIN Map(x) = KeySet(keys[x])
                        /\ \A k : k \in KeySet(keys[x]) <=> k \in Keys /\ Has(x, k)
                        /\ \A k \in KeySet(keys[x]) : Map(x)[k] = vals[x][IndexOf(x, k)]
    <3> TAKE x \in Maps
    <3>1. IsMapOf(keys[x], vals[x], Map(x))
      BY <2>0, ViewIsMap
    <3>2. DOMAIN Map(x) = KeySet(keys[x])
      BY <3>1 DEF IsMapOf
    <3>3. DOMAIN Map(x) = {k \in Keys : Has(x, k)}
      BY DEF Map
    <3> QED
      BY <3>1, <3>2, <3>3 DEF Map
  <2>2. \A x \in Maps : \A i \in 1 .. Len(keys[x]) :
          /\ keys[x][i] \in KeySet(keys[x]) /\ keys[x][i] \in Keys
          /\ Map(x)[keys[x][i]] = vals[x][i]
    BY <2>0, <2>1 DEF IsMapOf, KeySet, MapOK
  <2>3. Equal(m, n) <=> /\ Len(keys[m]) = Len(keys[n])
                        /\ \A i \in 1 .. Len(keys[m]) :
                             /\ keys[m][i] \in KeySet(keys[n])
                             /\ Map(m)[keys[m][i]] = Map(n)[keys[m][i]]
    BY <2>0, <2>1, <2>2 DEF Equal
  <2>4. ASSUME Equal(m, n) PROVE Map(m) = Map(n)
    <3>1. KeySet(keys[m]) \subseteq KeySet(keys[n])
      BY <2>3, <2>4 DEF KeySet
    <3>2. KeySet(keys[m]) = KeySet(keys[n])
      BY <2>0, <2>3, <2>4, <3>1, KeyCount, FS_Subset
    <3>3. \A k \in KeySet(keys[m]) : Map(m)[k] = Map(n)[k]
      BY <2>3, <2>4 DEF KeySet
    <3> QED
      BY <2>1, <3>2, <3>3 DEF IsMapOf
  <2>5. ASSUME Map(m) = Map(n) PROVE Equal(m, n)
    <3>1. KeySet(keys[m]) = KeySet(keys[n])
      BY <2>1, <2>5
    <3>2. Len(keys[m]) = Len(keys[n])
      BY <2>0, <3>1, KeyCount
    <3> QED
      BY <2>2, <2>3, <2>5, <3>1, <3>2
  <2> QED
    BY <2>4, <2>5
<1> QED
  BY <1>1, Invariance, PTL

-----------------------------------------------------------------------------
(* The refinement of KeyedMaps.                                            *)

\* A range is erased only while no loop is going on over the map.
OneCall == \A m \in Maps : toErase[m] = <<>> \/ loop[m] = NoLoop

\* A range starts to be erased, and a loop starts, on an idle map.
LEMMA OneCallStep ==
  ASSUME IInv, OneCall, [Next]_vars
  PROVE  OneCall'
<1> USE DEF IInv, OneCall
<1>1. ASSUME NEW m \in Maps, NEW first \in Positions, NEW last \in Positions,
             EraseRange(m, first, last)
      PROVE  OneCall'
  BY <1>1 DEF EraseRange, Idle
<1>2. ASSUME NEW m \in Maps, EraseNext(m) PROVE OneCall'
  BY <1>2 DEF EraseNext
<1>3. ASSUME NEW m \in Maps, LoopBegin(m) \/ LoopEnds(m) PROVE OneCall'
  BY <1>3 DEF LoopBegin, LoopEnds, Idle
<1>4. ASSUME NEW m \in Maps, LoopKeeps(m) PROVE OneCall'
  <2>1. Len(vals[m]) <= Sentinel /\ Len(vals[m]) \in Nat
    BY Fits DEF MapOK
  <2>2. loop[m] # NoLoop
    BY <1>4, <2>1, SentinelAssumption DEF LoopKeeps, NoLoop
  <2> QED
    BY <1>4, <2>2 DEF LoopKeeps
<1>5. ASSUME UNCHANGED <<toErase, loop>> PROVE OneCall'
  BY <1>5
<1> QED
  BY <1>1, <1>2, <1>3, <1>4, <1>5
  DEF Next, vars, Insert, Assign, Erase, Clear, Swap, LoopErases

\* At most one call is in progress on a map.
THEOREM OneCallInvariance == Spec => []OneCall
<1>1. Init => OneCall
  BY DEF Init, OneCall
<1>2. IInv /\ OneCall /\ [Next]_vars => OneCall'
  BY OneCallStep
<1> QED
  BY <1>1, <1>2, Invariance, PTL DEF Spec

\* The state of KeyedMaps that a slotmap is in.
Unseen(m) == IF loop[m] = NoLoop THEN {}
             ELSE {keys[m][i] : i \in loop[m] + 1 .. Len(keys[m])}
Contents == [m \in Maps |-> Map(m)]
ToSee == [m \in Maps |-> Unseen(m)]

\* What a map is before and after a step.
LEMMA MapView ==
  ASSUME IInv, IInv', NEW m \in Maps
  PROVE  /\ MapOK(lookup[m], keys[m], vals[m]) /\ MapOK(lookup'[m], keys'[m], vals'[m])
         /\ IsMapOf(keys[m], vals[m], Map(m)) /\ IsMapOf(keys'[m], vals'[m], Map(m)')
         /\ Contents[m] = Map(m) /\ DOMAIN Map(m) = KeySet(keys[m])
         /\ \A k \in KeySet(keys[m]) : k \in Keys /\ Has(m, k)
         /\ \A k \in Keys : Has(m, k) => k \in KeySet(keys[m])
<1>1. MapOK(lookup[m], keys[m], vals[m]) /\ MapOK(lookup'[m], keys'[m], vals'[m])
  BY DEF IInv
<1>2. Map(m) = View(lookup[m], vals[m]) /\ Map(m)' = View(lookup'[m], vals'[m])
  BY DEF Map, View, Has, IndexOf
<1>3. IsMapOf(keys[m], vals[m], Map(m)) /\ IsMapOf(keys'[m], vals'[m], Map(m)')
  BY <1>1, <1>2, ViewIsMap
<1>4. DOMAIN Map(m) = KeySet(keys[m]) /\ DOMAIN Map(m) = {k \in Keys : Has(m, k)}
  BY <1>3 DEF IsMapOf, Map
<1> QED
  BY <1>1, <1>3, <1>4 DEF Contents

\* A map whose arrays are as they were is as it was.
LEMMA MapStays ==
  ASSUME IInv, IInv', NEW m \in Maps, keys'[m] = keys[m], vals'[m] = vals[m]
  PROVE  Map(m)' = Map(m)
BY MapView, SameMap

\* One map changes: the others are the same maps.
LEMMA OtherMaps ==
  ASSUME IInv, IInv', NEW m \in Maps, NEW f, Map(m)' = f,
         \A x \in Maps \ {m} : keys'[x] = keys[x] /\ vals'[x] = vals[x]
  PROVE  Contents' = [Contents EXCEPT ![m] = f]
<1>1. \A x \in Maps \ {m} : Map(x)' = Map(x)
  BY MapStays
<1> QED
  BY <1>1 DEF Contents

\* Erasing a key, alone, out of a range or in a loop.
LEMMA EraseView ==
  ASSUME IInv, IInv', NEW m \in Maps, NEW k \in Keys, Has(m, k), EraseItem(m, k)
  PROVE  /\ k \in KeySet(keys[m])
         /\ Contents' = [Contents EXCEPT ![m] = Abstract!Without(Contents[m], {k})]
         /\ IndexOf(m, k) \in 1 .. Len(keys[m]) /\ keys[m][IndexOf(m, k)] = k
         /\ keys'[m] = SwapPopped(keys[m], IndexOf(m, k))
         /\ \A x \in Maps \ {m} : keys'[x] = keys[x] /\ vals'[x] = vals[x]
<1>0. ArraysOK
  BY DEF IInv, ArraysOK
<1>1. IndexOf(m, k) = lookup[m][k] + 1 /\ IndexOf(m, k) \in 1 .. Len(keys[m])
  BY <1>0, PositionOfKey
<1>2. keys[m][IndexOf(m, k)] = k /\ k \in KeySet(keys[m])
  BY <1>1, MapView DEF MapOK, Opposite, Has, ContainsKey
<1>3. /\ keys'[m] = SwapPopped(keys[m], IndexOf(m, k))
      /\ vals'[m] = SwapPopped(vals[m], IndexOf(m, k))
      /\ \A x \in Maps \ {m} : keys'[x] = keys[x] /\ vals'[x] = vals[x]
  BY <1>0 DEF EraseItem, ArraysOK
<1>4. IsMapOf(keys'[m], vals'[m], Abstract!Without(Map(m), {k}))
  BY <1>1, <1>2, <1>3, MapView, ErasedMap
<1>5. Map(m)' = Abstract!Without(Map(m), {k})
  BY <1>4, MapView, SameMap
<1> QED
  BY <1>1, <1>2, <1>3, <1>5, MapView, OtherMaps

\* Every step of the slotmap is a step of KeyedMaps or nothing to it.
LEMMA RefinementStep ==
  ASSUME IInv, IInv', OneCall, [Next]_vars
  PROVE  [Abstract!Next]_<<Contents, ToSee>>
<1>n. \A m \in Maps : /\ Len(vals[m]) = Len(keys[m]) /\ Len(keys[m]) \in Nat
                      /\ Len(keys[m]) < NoLoop /\ loop[m] \in Nat
  <2> TAKE m \in Maps
  <2>1. Len(keys[m]) <= Sentinel /\ Len(keys[m]) \in Nat /\ Len(vals[m]) = Len(keys[m])
    BY Fits DEF IInv, MapOK
  <2> QED
    BY <2>1, SentinelAssumption DEF IInv, NoLoop
<1>i. ASSUME UNCHANGED loop, \A m \in Maps : keys'[m] = keys[m] \/ loop[m] = NoLoop
      PROVE  ToSee' = ToSee
  <2>1. \A m \in Maps : Unseen(m)' = Unseen(m)
    BY <1>i DEF Unseen
  <2> QED
    BY <2>1 DEF ToSee
<1>1. ASSUME NEW m \in Maps, NEW k \in Keys, NEW v \in Values,
             Insert(m, k, v) \/ Assign(m, k, v)
      PROVE  Abstract!Store(m)
  <2>1. Contents' = [Contents EXCEPT ![m] = Abstract!With(Contents[m], k, v)]
    <3>1. CASE Insert(m, k, v)
      <4>1. /\ keys'[m] = Append(keys[m], k) /\ vals'[m] = Append(vals[m], v)
            /\ \A x \in Maps \ {m} : keys'[x] = keys[x] /\ vals'[x] = vals[x]
        BY <3>1 DEF Insert, IInv
      <4>2. k \notin KeySet(keys[m])
        BY <3>1, MapView DEF Insert
      <4>0. /\ IsMapOf(keys[m], vals[m], Map(m)) /\ Len(vals[m]) = Len(keys[m])
            /\ keys[m] \in Seq(Keys) /\ vals[m] \in Seq(Values)
        BY MapView DEF MapOK
      <4>3. IsMapOf(Append(keys[m], k), Append(vals[m], v), Abstract!With(Map(m), k, v))
        BY <4>0, <4>2, InsertedMap
      <4>4. Map(m)' = Abstract!With(Map(m), k, v)
        <5>1. IsMapOf(keys'[m], vals'[m], Abstract!With(Map(m), k, v))
          BY <4>1, <4>3
        <5>2. IsMapOf(keys'[m], vals'[m], Map(m)')
          BY MapView
        <5> QED
          BY <5>1, <5>2, SameMap
      <4> QED
        BY <4>1, <4>4, MapView, OtherMaps
    <3>2. CASE Assign(m, k, v)
      <4>0. ArraysOK /\ Has(m, k)
        BY <3>2 DEF IInv, ArraysOK, Assign
      <4>1. /\ keys'[m] = keys[m] /\ vals'[m] = [vals[m] EXCEPT ![IndexOf(m, k)] = v]
            /\ \A x \in Maps \ {m} : keys'[x] = keys[x] /\ vals'[x] = vals[x]
        BY <3>2 DEF Assign, IInv
      <4>2. IndexOf(m, k) = lookup[m][k] + 1 /\ IndexOf(m, k) \in 1 .. Len(keys[m])
        BY <4>0, PositionOfKey
      <4>3. keys[m][IndexOf(m, k)] = k
        BY <4>0, <4>2, MapView DEF MapOK, Opposite, Has, ContainsKey
      <4>4. IsMapOf(keys'[m], vals'[m], Abstract!With(Map(m), k, v))
        BY <4>1, <4>2, <4>3, MapView, AssignedMap
      <4>5. Map(m)' = Abstract!With(Map(m), k, v)
        BY <4>4, MapView, SameMap
      <4> QED
        BY <4>1, <4>5, MapView, OtherMaps
    <3> QED
      BY <1>1, <3>1, <3>2
  <2>2. ToSee' = ToSee
    BY <1>1, <1>i DEF Insert, Assign, Idle, IInv
  <2>3. PICK item \in Keys \X Values : item[1] = k /\ item[2] = v
    <3>1. <<k, v>> \in Keys \X Values /\ <<k, v>>[1] = k /\ <<k, v>>[2] = v
      OBVIOUS
    <3> QED
      BY <3>1
  <2>4. Contents' = [Contents EXCEPT ![m] = Abstract!With(Contents[m], item[1], item[2])]
    BY <2>1, <2>3
  <2>5. Contents' \in {[Contents EXCEPT ![m] = Abstract!With(Contents[m], i[1], i[2])] :
                         i \in Keys \X Values}
    BY <2>4
  <2> QED
    BY <2>2, <2>5 DEF Abstract!Store, Contents, ToSee, Unseen
<1>2. ASSUME NEW m \in Maps, NEW k \in Keys, EraseItem(m, k), loop[m] = NoLoop,
             UNCHANGED loop
      PROVE  UNCHANGED <<Contents, ToSee>> \/ Abstract!Erase(m)
  <2>1. CASE ~Has(m, k)
    <3>1. UNCHANGED <<lookup, keys, vals>>
      BY <1>2, <2>1 DEF EraseItem
    <3>2. Contents' = Contents
      BY <3>1, MapStays DEF Contents
    <3> QED
      BY <1>2, <1>i, <3>1, <3>2
  <2>2. CASE Has(m, k)
    <3>1. /\ k \in DOMAIN Contents[m]
          /\ Contents' = [Contents EXCEPT ![m] = Abstract!Without(Contents[m], {k})]
          /\ \A x \in Maps \ {m} : keys'[x] = keys[x]
      BY <1>2, <2>2, EraseView, MapView
    <3>2. ToSee' = ToSee
      BY <1>2, <1>i, <3>1
    <3>3. Contents' \in {[Contents EXCEPT ![m] = Abstract!Without(Contents[m], S)] :
                           S \in SUBSET DOMAIN Contents[m]}
      BY <3>1
    <3>4. Abstract!Erase(m)
      BY <3>2, <3>3 DEF Abstract!Erase, Contents, ToSee, Unseen
    <3> QED
      BY <3>4
  <2> QED BY <2>1, <2>2
<1>3. ASSUME NEW m \in Maps, Clear(m) PROVE Abstract!Clear(m)
  <2>1. /\ keys'[m] = <<>> /\ vals'[m] = <<>>
        /\ \A x \in Maps \ {m} : keys'[x] = keys[x] /\ vals'[x] = vals[x]
    BY <1>3 DEF Clear, IInv
  <2>2. KeySet(keys'[m]) = {}
    BY <2>1 DEF KeySet
  <2>3. Map(m)' = [k \in {} |-> k]
    <3>1. Map(m)' = [k \in KeySet(keys'[m]) |-> Map(m)'[k]]
      BY MapView DEF IsMapOf
    <3> QED
      BY <2>2, <3>1
  <2>4. Contents' = [Contents EXCEPT ![m] = [k \in {} |-> k]]
    BY <2>1, <2>3, OtherMaps
  <2>5. ToSee' = ToSee
    BY <1>3, <1>i, <2>1 DEF Clear, Idle
  <2> QED
    BY <2>4, <2>5 DEF Abstract!Clear, Contents, ToSee, Unseen
<1>4. ASSUME NEW m \in Maps, NEW n \in Maps \ {m}, Swap(m, n) PROVE Abstract!Swap(m, n)
  <2>1. /\ keys'[m] = keys[n] /\ vals'[m] = vals[n] /\ keys'[n] = keys[m] /\ vals'[n] = vals[m]
        /\ \A x \in Maps \ {m, n} : keys'[x] = keys[x] /\ vals'[x] = vals[x]
    BY <1>4 DEF Swap, IInv
  <2>2. Map(m)' = Map(n) /\ Map(n)' = Map(m)
    <3>1. /\ IsMapOf(keys[m], vals[m], Map(m)) /\ IsMapOf(keys[n], vals[n], Map(n))
          /\ IsMapOf(keys'[m], vals'[m], Map(m)') /\ IsMapOf(keys'[n], vals'[n], Map(n)')
      BY MapView
    <3> QED
      BY <2>1, <3>1, SameMap
  <2>3. \A x \in Maps \ {m, n} : Map(x)' = Map(x)
    BY <2>1, MapStays
  <2>4. Contents' = [Contents EXCEPT ![m] = Contents[n], ![n] = Contents[m]]
    BY <2>2, <2>3 DEF Contents
  <2>5. ToSee' = ToSee
    BY <1>4, <1>i, <2>1 DEF Swap, Idle
  <2> QED
    BY <2>4, <2>5 DEF Abstract!Swap, Contents, ToSee, Unseen
<1>5. ASSUME NEW m \in Maps, LoopBegin(m) PROVE Abstract!BeginLoop(m)
  <2>1. /\ loop'[m] = 0 /\ \A x \in Maps \ {m} : loop'[x] = loop[x]
        /\ UNCHANGED <<keys, vals>>
    BY <1>5 DEF LoopBegin, IInv
  <2>2. Unseen(m)' = KeySet(keys[m])
    BY <2>1, SentinelAssumption DEF Unseen, KeySet, NoLoop
  <2>3. \A x \in Maps \ {m} : Unseen(x)' = Unseen(x)
    BY <2>1 DEF Unseen
  <2>4. ToSee' = [ToSee EXCEPT ![m] = DOMAIN Contents[m]]
    BY <2>2, <2>3, MapView DEF ToSee
  <2>5. Contents' = Contents
    BY <2>1, MapStays DEF Contents
  <2> QED
    BY <2>4, <2>5 DEF Abstract!BeginLoop, Contents, ToSee, Unseen
<1>6. ASSUME NEW m \in Maps, LoopEnds(m) PROVE UNCHANGED <<Contents, ToSee>>
  <2>1. /\ loop[m] = Len(keys[m]) /\ loop'[m] = NoLoop
        /\ \A x \in Maps \ {m} : loop'[x] = loop[x]
        /\ UNCHANGED <<keys, vals>>
    BY <1>6, <1>n DEF LoopEnds, IInv
  <2>2. Unseen(m) = {} /\ Unseen(m)' = {}
    BY <2>1, <1>n DEF Unseen
  <2>3. \A x \in Maps \ {m} : Unseen(x)' = Unseen(x)
    BY <2>1 DEF Unseen
  <2> QED
    BY <2>1, <2>2, <2>3, MapStays DEF ToSee, Contents
<1>7. ASSUME NEW m \in Maps, NEW k \in Keys, k = keys[m][loop[m] + 1],
             LoopKeeps(m) \/ LoopErases(m)
      PROVE  Abstract!LookAt(m, k)
  <2> DEFINE K == keys[m]
             p == loop[m]
  <2>1. /\ p < Len(K) /\ p + 1 \in 1 .. Len(K) /\ p \in Nat /\ Len(K) \in Nat /\ p # NoLoop
        /\ k \in KeySet(K) /\ k = K[p + 1] /\ keys[m][loop[m] + 1] = k
    BY <1>7, <1>n DEF LoopKeeps, LoopErases, KeySet
  <2>2. k \in Keys /\ Has(m, k) /\ ArraysOK
    BY <2>1, MapView DEF IInv, ArraysOK
  <2>3. Unseen(m) = {K[i] : i \in p + 1 .. Len(K)} /\ k \in Unseen(m)
    BY <2>1 DEF Unseen
  <2>4. \A i, j \in 1 .. Len(K) : K[i] = K[j] => i = j
    BY MapView, KeysDiffer
  <2>5. /\ Unseen(m)' = Unseen(m) \ {k}
        /\ \A x \in Maps \ {m} : Unseen(x)' = Unseen(x)
        /\ \/ Contents' = Contents
           \/ Contents' = [Contents EXCEPT ![m] = Abstract!Without(Contents[m], {k})]
    <3>1. CASE LoopKeeps(m)
      <4>1. /\ loop'[m] = p + 1 /\ \A x \in Maps \ {m} : loop'[x] = loop[x]
            /\ UNCHANGED <<keys, vals>>
        BY <3>1 DEF LoopKeeps, IInv
      <4>2. p + 1 # NoLoop
        BY <1>n, <2>1
      <4>3. Unseen(m)' = {K[i] : i \in p + 2 .. Len(K)}
        BY <2>1, <4>1, <4>2 DEF Unseen
      <4>4. \A i \in p + 2 .. Len(K) : i \in p + 1 .. Len(K) /\ i \in 1 .. Len(K) /\ i # p + 1
        BY <2>1
      <4>5. \A i \in p + 1 .. Len(K) : i = p + 1 \/ i \in p + 2 .. Len(K)
        BY <2>1
      <4>6. Unseen(m)' = Unseen(m) \ {k}
        BY <2>1, <2>3, <2>4, <4>3, <4>4, <4>5
      <4>7. \A x \in Maps \ {m} : Unseen(x)' = Unseen(x)
        BY <4>1 DEF Unseen
      <4> QED
        BY <4>1, <4>6, <4>7, MapStays DEF Contents
    <3>2. CASE LoopErases(m)
      <4>1. /\ EraseItem(m, k) /\ UNCHANGED loop
        BY <2>1, <3>2 DEF LoopErases
      <4>2. /\ Contents' = [Contents EXCEPT ![m] = Abstract!Without(Contents[m], {k})]
            /\ IndexOf(m, k) \in 1 .. Len(K) /\ K[IndexOf(m, k)] = k
            /\ keys'[m] = SwapPopped(K, IndexOf(m, k))
            /\ \A x \in Maps \ {m} : keys'[x] = keys[x]
        BY <2>2, <4>1, EraseView
      <4>3. IndexOf(m, k) = p + 1
        BY <2>1, <2>4, <4>2
      <4> DEFINE K2 == SwapPopped(K, p + 1)
                 N == Len(K)
      <4>4. Len(K2) = N - 1 /\ \A j \in 1 .. N - 1 : K2[j] = IF j = p + 1 THEN K[N] ELSE K[j]
        <5>1. K \in Seq(Keys)
          BY DEF IInv
        <5> HIDE DEF K, p
        <5> QED
          BY <2>1, <5>1, SwapPoppedElements
      <4>5. Unseen(m)' = {K2[i] : i \in p + 1 .. N - 1}
        BY <2>1, <4>1, <4>2, <4>3, <4>4 DEF Unseen
      <4> HIDE DEF K2
      <4>6. \A i \in p + 1 .. N - 1 : K2[i] \in Unseen(m) \ {k}
        <5> SUFFICES ASSUME NEW i \in p + 1 .. N - 1 PROVE K2[i] \in Unseen(m) \ {k}
          OBVIOUS
        <5>1. /\ i \in 1 .. N - 1 /\ i \in 1 .. N /\ N \in 1 .. N /\ N \in p + 1 .. N
              /\ i \in p + 1 .. N /\ N # p + 1
          BY <2>1
        <5>2. K[i] \in Unseen(m) /\ K[N] \in Unseen(m) /\ K[N] # k /\ (i # p + 1 => K[i] # k)
          BY <1>7, <2>1, <2>3, <2>4, <5>1
        <5> QED
          BY <4>4, <5>1, <5>2
      <4>7. \A x \in Unseen(m) \ {k} : \E i \in p + 1 .. N - 1 : K2[i] = x
        <5> SUFFICES ASSUME NEW j \in p + 1 .. N, K[j] # k
                     PROVE  \E i \in p + 1 .. N - 1 : K2[i] = K[j]
          BY <2>3
        <5>1. j # p + 1
          BY <1>7
        <5>2. CASE j = N
          <6>1. p + 1 \in p + 1 .. N - 1 /\ p + 1 \in 1 .. N - 1
            BY <2>1, <5>1, <5>2
          <6>2. K2[p + 1] = K[j]
            BY <4>4, <5>2, <6>1
          <6> QED
            BY <6>1, <6>2
        <5>3. CASE j # N
          <6>1. j \in p + 1 .. N - 1 /\ j \in 1 .. N - 1
            BY <2>1, <5>3
          <6>2. K2[j] = K[j]
            BY <4>4, <5>1, <6>1
          <6> QED
            BY <6>1, <6>2
        <5> QED BY <5>2, <5>3
      <4>8. Unseen(m)' = Unseen(m) \ {k}
        BY <4>5, <4>6, <4>7
      <4>9. \A x \in Maps \ {m} : Unseen(x)' = Unseen(x)
        BY <4>1, <4>2 DEF Unseen
      <4> QED
        BY <4>2, <4>8, <4>9
    <3> QED
      BY <1>7, <3>1, <3>2
  <2>6. ToSee' = [ToSee EXCEPT ![m] = ToSee[m] \ {k}] /\ k \in ToSee[m]
    BY <2>3, <2>5 DEF ToSee
  <2> QED
    BY <2>5, <2>6 DEF Abstract!LookAt, Contents, ToSee, Unseen
<1>8. ASSUME NEW m \in Maps, NEW k \in Keys, Erase(m, k)
      PROVE  UNCHANGED <<Contents, ToSee>> \/ Abstract!Erase(m)
  BY <1>2, <1>8 DEF Erase, Idle
<1>9. ASSUME NEW m \in Maps, EraseNext(m)
      PROVE  UNCHANGED <<Contents, ToSee>> \/ Abstract!Erase(m)
  <2>1. Head(toErase[m]) \in Keys /\ loop[m] = NoLoop
    BY <1>9 DEF EraseNext, IInv, OneCall
  <2> QED
    BY <1>2, <1>9, <2>1 DEF EraseNext
<1>10. ASSUME UNCHANGED <<lookup, keys, vals, loop>> PROVE UNCHANGED <<Contents, ToSee>>
  <2>1. Contents' = Contents
    BY <1>10, MapStays DEF Contents
  <2> QED
    BY <1>10, <1>i, <2>1
<1>11. ASSUME NEW m \in Maps, NEW first \in Positions, NEW last \in Positions,
              EraseRange(m, first, last)
       PROVE  UNCHANGED <<Contents, ToSee>>
  BY <1>10, <1>11 DEF EraseRange
<1>12. CASE UNCHANGED vars
  BY <1>10, <1>12 DEF vars
<1>13. ASSUME NEW m \in Maps,
              \/ Abstract!Store(m) \/ Abstract!Erase(m) \/ Abstract!Clear(m)
              \/ Abstract!BeginLoop(m) \/ \E n \in Maps \ {m} : Abstract!Swap(m, n)
              \/ \E k \in Keys : Abstract!LookAt(m, k)
       PROVE  Abstract!Next
  BY <1>13 DEF Abstract!Next
<1>14. \A m \in Maps : loop[m] < Len(vals[m]) => keys[m][loop[m] + 1] \in Keys
  BY <1>n DEF IInv
<1>15. CASE Next
  <2>1. PICK m \in Maps :
          \/ \E k \in Keys : Erase(m, k) \/ \E v \in Values : Insert(m, k, v) \/ Assign(m, k, v)
          \/ \E first, last \in Positions : EraseRange(m, first, last)
          \/ EraseNext(m) \/ Clear(m)
          \/ \E n \in Maps \ {m} : Swap(m, n)
          \/ LoopBegin(m) \/ LoopKeeps(m) \/ LoopErases(m) \/ LoopEnds(m)
    BY <1>15 DEF Next
  <2>2. ASSUME LoopKeeps(m) \/ LoopErases(m) PROVE \E k \in Keys : Abstract!LookAt(m, k)
    <3>1. PICK k \in Keys : k = keys[m][loop[m] + 1]
      BY <1>14, <2>2 DEF LoopKeeps, LoopErases
    <3> QED
      BY <1>7, <2>2, <3>1
  <2> QED
    BY <1>1, <1>3, <1>4, <1>5, <1>6, <1>8, <1>9, <1>11, <1>13, <2>1, <2>2
<1> QED
  BY <1>12, <1>15

\* The new slotmaps are empty maps.
LEMMA RefinementInit == Init => Abstract!Init
<1> SUFFICES ASSUME Init PROVE Abstract!Init
  OBVIOUS
<1>1. \A m \in Maps : Map(m) = [k \in {} |-> k]
  <2> TAKE m \in Maps
  <2>1. {j \in Keys : Has(m, j)} = {}
    BY DEF Init, Has, ContainsKey, EmptyLookup
  <2> QED
    BY <2>1 DEF Map
<1> QED
  BY <1>1 DEF Init, Abstract!Init

\* The slotmap is a map, and a loop that erases what it looks at looks at every
\* key once, for any number of maps and keys of any width.
THEOREM Refinement == Spec => ImplementsKeyedMaps
<1>1. Init => Abstract!Init
  BY RefinementInit
<1>2. IInv /\ IInv' /\ OneCall /\ [Next]_vars => [Abstract!Next]_<<Contents, ToSee>>
  BY RefinementStep
<1>3. IInv /\ IInv' /\ OneCall /\ [Next]_vars =>
        [Abstract!Next]_<<[m \in Maps |-> Map(m)],
                          [m \in Maps |->
                             IF loop[m] = NoLoop THEN {}
                             ELSE {keys[m][i] : i \in loop[m] + 1 .. Len(keys[m])}]>>
  BY <1>2 DEF Contents, ToSee, Unseen
<1> QED
  BY <1>1, <1>3, Invariance, OneCallInvariance, PTL
  DEF Spec, ImplementsKeyedMaps, Abstract!Spec

-----------------------------------------------------------------------------
(* Each container among the others.                                        *)

\* What runs is one container; the others rest.
LEMMA PartsStep ==
  [ContainersNext]_containerVars =>
    [Next]_vars /\ [List!Next]_listVars /\ [Set!Next]_setVars /\ [Vector!Next]_vectorVars
<1> SUFFICES ASSUME [ContainersNext]_containerVars
             PROVE  /\ [Next]_vars /\ [List!Next]_listVars
                    /\ [Set!Next]_setVars /\ [Vector!Next]_vectorVars
  OBVIOUS
<1>1. CASE UNCHANGED containerVars BY <1>1 DEF containerVars
<1>2. CASE ContainersNext
  <2>1. \/ Next /\ UNCHANGED <<listVars, setVars, vectorVars>>
        \/ List!Next /\ UNCHANGED <<vars, setVars, vectorVars>>
        \/ Set!Next /\ UNCHANGED <<vars, listVars, vectorVars>>
        \/ Vector!Next /\ UNCHANGED <<vars, listVars, setVars>>
    BY <1>2 DEF ContainersNext
  <2> QED BY <2>1
<1> QED BY <1>1, <1>2

\* What is proved of the slotmap alone holds of it among the others.
THEOREM SlotmapAmongOthers == ContainersSpec => Spec
<1>1. ContainersInit => Init BY DEF ContainersInit
<1>2. [ContainersNext]_containerVars => [Next]_vars BY PartsStep
<1> QED BY <1>1, <1>2, PTL DEF ContainersSpec, Spec

-----------------------------------------------------------------------------
(* What is proved of DequeList holds of the lists in it.                    *)

ListFacts == INSTANCE DequeList_proofs WITH
  chain <- linked, last <- lastBucket, size <- listSize, iter <- listIter

\* Pushing, popping, clearing, shrinking and iterating are the same.
LEMMA SameOnList == ASSUME NEW l PROVE List!OnList(l) <=> ListFacts!OnList(l)
<1>1. List!Grown(l) = ListFacts!Grown(l) BY DEF List!Grown, ListFacts!Grown
<1>2. List!NoIter = ListFacts!NoIter BY DEF List!NoIter, ListFacts!NoIter
<1>3. ASSUME NEW v PROVE List!PushBack(l, v) <=> ListFacts!PushBack(l, v)
  BY <1>1 DEF List!PushBack, ListFacts!PushBack
<1>4. List!PopBack(l) <=> ListFacts!PopBack(l)
  BY <1>2 DEF List!PopBack, ListFacts!PopBack, List!Front, ListFacts!Front
<1>5. List!Clear(l) <=> ListFacts!Clear(l) BY <1>2 DEF List!Clear, ListFacts!Clear
<1>6. List!ShrinkToFit(l) <=> ListFacts!ShrinkToFit(l)
  BY DEF List!ShrinkToFit, ListFacts!ShrinkToFit
<1>7. List!Begin(l) <=> ListFacts!Begin(l) BY DEF List!Begin, ListFacts!Begin
<1>8. List!Read(l) <=> ListFacts!Read(l) BY DEF List!Read, ListFacts!Read
<1> QED BY <1>3, <1>4, <1>5, <1>6, <1>7, <1>8 DEF List!OnList, ListFacts!OnList

\* So are the assignments.
LEMMA SameAssignments ==
  ASSUME NEW to, NEW from
  PROVE  /\ List!Copy(to, from) <=> ListFacts!Copy(to, from)
         /\ List!Move(to, from) <=> ListFacts!Move(to, from)
<1>1. \A c : List!Filled(c) = ListFacts!Filled(c)
  BY DEF List!Filled, ListFacts!Filled, List!SelectInSeq, ListFacts!SelectInSeq,
         List!Min, ListFacts!Min
<1>2. \A mine, c : List!Assigned(mine, c) = ListFacts!Assigned(mine, c)
  BY <1>1 DEF List!Assigned, ListFacts!Assigned
<1>3. List!NoIter = ListFacts!NoIter BY DEF List!NoIter, ListFacts!NoIter
<1>4. List!Copy(to, from) <=> ListFacts!Copy(to, from)
  BY <1>1, <1>2, <1>3 DEF List!Copy, ListFacts!Copy
<1>5. List!Move(to, from) <=> ListFacts!Move(to, from)
  BY <1>1, <1>2, <1>3 DEF List!Move, ListFacts!Move
<1> QED BY <1>4, <1>5

\* Whatever else moves, the lists behave as DequeList.
LEMMA ListsAlone == ContainersSpec => ListFacts!Spec
<1>1. ContainersInit => ListFacts!Init
  BY DEF ContainersInit, List!Init, ListFacts!Init, List!NoIter, ListFacts!NoIter
<1>2. List!Next <=> ListFacts!Next
  BY SameOnList, SameAssignments DEF List!Next, ListFacts!Next, List!IsNew, ListFacts!IsNew
<1>3. [ContainersNext]_containerVars => [ListFacts!Next]_(ListFacts!vars)
  BY <1>2, PartsStep DEF listVars, ListFacts!vars
<1> QED BY <1>1, <1>3, PTL DEF ContainersSpec, ListFacts!Spec

\* The buckets before the last are full, those after it empty, the last is not
\* unless it is the first, and the size counts the elements, for buckets of any
\* size and any number of lists.
THEOREM BucketShapeCorrect == ContainersSpec => []BucketShape
<1>1. ListFacts!Spec => []ListFacts!BucketShape BY BucketAssumption, ListFacts!ShapeCorrect
<1>2. ListFacts!BucketShape => BucketShape
  BY DEF ListFacts!BucketShape, BucketShape, List!BucketShape
<1> QED BY <1>1, <1>2, ListsAlone, PTL

\* An iterator that may still visit an element points to one, however its list
\* has grown.
THEOREM IterInBoundsCorrect == ContainersSpec => []IterInBounds
<1>1. ListFacts!Spec => []ListFacts!IterInBounds BY BucketAssumption, ListFacts!IterCorrect
<1>2. ListFacts!IterInBounds => IterInBounds
  BY DEF ListFacts!IterInBounds, IterInBounds, List!IterInBounds
<1> QED BY <1>1, <1>2, ListsAlone, PTL

\* A list holds the same sequence, and an iteration has the same to read.
LEMMA SameViews ==
  ASSUME NEW l
  PROVE  List!Elements(l) = ListFacts!Elements(l) /\ List!ToRead(l) = ListFacts!ToRead(l)
<1>1. List!Elements(l) = ListFacts!Elements(l)
  BY DEF List!Elements, ListFacts!Elements, List!FlattenSeq, ListFacts!FlattenSeq
<1>2. List!ToRead(l) = ListFacts!ToRead(l)
  BY <1>1 DEF List!ToRead, ListFacts!ToRead
<1> QED BY <1>1, <1>2

\* So it does after a step.
LEMMA SameViewsThen ==
  ASSUME NEW l
  PROVE  List!Elements(l)' = ListFacts!Elements(l)' /\ List!ToRead(l)' = ListFacts!ToRead(l)'
<1>1. List!Elements(l)' = ListFacts!Elements(l)'
  BY DEF List!Elements, ListFacts!Elements, List!FlattenSeq, ListFacts!FlattenSeq
<1>2. List!ToRead(l)' = ListFacts!ToRead(l)'
  BY <1>1 DEF List!ToRead, ListFacts!ToRead
<1> QED BY <1>1, <1>2

\* The sequences and iterations of lists become the same.
LEMMA SameSequences ==
  [ListFacts!Abstract!Next]_<<[l \in Lists |-> ListFacts!Elements(l)],
                              [l \in Lists |-> ListFacts!ToRead(l)]>> =>
  [List!Abstract!Next]_<<[l \in Lists |-> List!Elements(l)],
                         [l \in Lists |-> List!ToRead(l)]>>
<1>1. /\ [l \in Lists |-> List!Elements(l)] = [l \in Lists |-> ListFacts!Elements(l)]
      /\ [l \in Lists |-> List!ToRead(l)] = [l \in Lists |-> ListFacts!ToRead(l)]
  BY SameViews
<1>2. /\ [l \in Lists |-> List!Elements(l)]' = [l \in Lists |-> ListFacts!Elements(l)]'
      /\ [l \in Lists |-> List!ToRead(l)]' = [l \in Lists |-> ListFacts!ToRead(l)]'
  BY SameViewsThen
<1>3. ASSUME NEW l, NEW s
      PROVE  List!Abstract!Become(l, s) <=> ListFacts!Abstract!Become(l, s)
  BY <1>1, <1>2 DEF List!Abstract!Become, ListFacts!Abstract!Become
<1>4. ASSUME NEW l, NEW v
      PROVE  List!Abstract!PushBack(l, v) <=> ListFacts!Abstract!PushBack(l, v)
  BY <1>1, <1>2 DEF List!Abstract!PushBack, ListFacts!Abstract!PushBack
<1>5. ASSUME NEW l
      PROVE  List!Abstract!PopBack(l) <=> ListFacts!Abstract!PopBack(l)
  BY <1>1, <1>3 DEF List!Abstract!PopBack, ListFacts!Abstract!PopBack
<1>6. ASSUME NEW l
      PROVE  List!Abstract!Clear(l) <=> ListFacts!Abstract!Clear(l)
  BY <1>3 DEF List!Abstract!Clear, ListFacts!Abstract!Clear
<1>7. ASSUME NEW l
      PROVE  /\ List!Abstract!Begin(l) <=> ListFacts!Abstract!Begin(l)
             /\ List!Abstract!Read(l) <=> ListFacts!Abstract!Read(l)
  BY <1>1, <1>2 DEF List!Abstract!Begin, ListFacts!Abstract!Begin,
                    List!Abstract!Read, ListFacts!Abstract!Read
<1>8. ASSUME NEW to, NEW from
      PROVE  /\ List!Abstract!Copy(to, from) <=> ListFacts!Abstract!Copy(to, from)
             /\ List!Abstract!Move(to, from) <=> ListFacts!Abstract!Move(to, from)
  BY <1>1, <1>2, <1>3 DEF List!Abstract!Copy, ListFacts!Abstract!Copy,
                          List!Abstract!Move, ListFacts!Abstract!Move
<1>9. List!Abstract!Next <=> ListFacts!Abstract!Next
  BY <1>4, <1>5, <1>6, <1>7, <1>8 DEF List!Abstract!Next, ListFacts!Abstract!Next
<1> QED BY <1>1, <1>2, <1>9

\* deque_list implements sequences, with iterations that last while their list
\* grows, for buckets of any size.
THEOREM ImplementsSeqListsCorrect == ContainersSpec => ImplementsSeqLists
<1>1. ListFacts!Spec => ListFacts!Abstract!Spec
  BY BucketAssumption, ListFacts!Refinement DEF ListFacts!ImplementsSeqLists
<1>2. ListFacts!Abstract!Init => List!Abstract!Init
  <2>1. /\ [l \in Lists |-> List!Elements(l)] = [l \in Lists |-> ListFacts!Elements(l)]
        /\ [l \in Lists |-> List!ToRead(l)] = [l \in Lists |-> ListFacts!ToRead(l)]
    BY SameViews
  <2> QED BY <2>1 DEF List!Abstract!Init, ListFacts!Abstract!Init
<1> QED BY <1>1, <1>2, SameSequences, ListsAlone, PTL
        DEF ImplementsSeqLists, List!ImplementsSeqLists, List!Abstract!Spec,
            ListFacts!Abstract!Spec

-----------------------------------------------------------------------------
(* SlotSet                                                                  *)

\* A key is its place in the vector of bitsets and its place in the bitset.
LEMMA Division ==
  ASSUME NEW b \in Nat \ {0}, NEW k \in Nat
  PROVE  /\ k \div b \in Nat
         /\ k % b \in 0 .. b - 1
         /\ k = b * (k \div b) + (k % b)
OBVIOUS

\* A key has its bitset exactly when it is below the number of bits.
LEMMA InLength ==
  ASSUME NEW b \in Nat \ {0}, NEW k \in Nat, NEW n \in Nat
  PROVE  k \div b < n <=> k < n * b
<1> DEFINE q == k \div b
           r == k % b
<1>1. q \in Nat /\ r \in 0 .. b - 1 /\ k = b * q + r BY Division
<1> HIDE DEF q, r
<1>2. CASE q < n
  <2>1. PICK d \in Nat : n = q + 1 + d BY <1>1, <1>2
  <2>2. n * b = b * q + b + d * b /\ d * b \in Nat BY <1>1, <2>1
  <2> QED BY <1>1, <1>2, <2>2 DEF q
<1>3. CASE n <= q
  <2>1. PICK d \in Nat : q = n + d BY <1>1, <1>3
  <2>2. b * q = n * b + d * b /\ d * b \in Nat BY <1>1, <2>1
  <2> QED BY <1>1, <1>3, <2>2 DEF q
<1> QED BY <1>1, <1>2, <1>3

\* Keys with the same bitset and the same place in it are one key.
LEMMA SameKey ==
  ASSUME NEW b \in Nat \ {0}, NEW k \in Nat, NEW i \in Nat,
         k \div b = i \div b, k % b = i % b
  PROVE  k = i
BY Division

-----------------------------------------------------------------------------
(* One set.                                                                *)

Bitsets == bits \in Nat \ {0}

SetRecords == [lookup : Seq(SUBSET (0 .. bits - 1)), size : Nat]

\* A set that counts the keys it has.
SetOK(set) == set \in SetRecords /\ Set!Holds(set, Set!Elements(set))

\* How many keys a set has.
LEMMA SameCount ==
  ASSUME NEW S
  PROVE  Set!Cardinality(S) = Cardinality(S)
BY DEF Set!Cardinality, Cardinality

\* What the vector of bitsets says of a key.
LEMMA HasTyped ==
  ASSUME Bitsets, NEW set \in SetRecords
  PROVE  /\ Len(set.lookup) \in Nat
         /\ DOMAIN set.lookup = 1 .. Len(set.lookup)
         /\ \A i \in 1 .. Len(set.lookup) : set.lookup[i] \in SUBSET (0 .. bits - 1)
         /\ \A k \in Nat : Set!Has(set, k) \in BOOLEAN
BY DEF SetRecords, Set!Has

\* The keys of a set are those its bits say, and there are finitely many.
LEMMA SetElementsAre ==
  ASSUME Bitsets, NEW set \in SetRecords
  PROVE  /\ Set!End(set) \in Nat
         /\ Set!Elements(set) = {k \in Nat : Set!Has(set, k)}
         /\ \A k \in Set!Elements(set) : k < Set!End(set)
         /\ IsFiniteSet(Set!Elements(set))
         /\ Cardinality(Set!Elements(set)) \in Nat
<1> USE DEF Bitsets
<1>1. Len(set.lookup) \in Nat BY HasTyped
<1>2. Set!End(set) \in Nat BY <1>1 DEF Set!End
<1>3. ASSUME NEW k \in Nat, Set!Has(set, k) PROVE k < Set!End(set)
  BY <1>1, <1>3, InLength DEF Set!Has, Set!End
<1>4. Set!Elements(set) = {k \in Nat : Set!Has(set, k)} BY <1>2, <1>3 DEF Set!Elements
<1>5. IsFiniteSet(Set!Elements(set))
  <2>1. Set!Elements(set) \in SUBSET (0 .. Set!End(set) - 1) BY DEF Set!Elements
  <2>2. Set!End(set) - 1 \in Int /\ 0 \in Int BY <1>2
  <2>3. IsFiniteSet(0 .. Set!End(set) - 1) BY <2>2, FS_Interval
  <2> HIDE DEF Set!Elements
  <2> QED BY <2>1, <2>3, FS_Subset
<1> QED BY <1>2, <1>3, <1>4, <1>5, FS_CardinalityType

\* So many blanks are a sequence.
LEMMA Blanks ==
  ASSUME NEW S, NEW x \in S, NEW m \in Int
  PROVE  /\ [i \in 1 .. m |-> x] \in Seq(S)
         /\ Len([i \in 1 .. m |-> x]) = IF m > 0 THEN m ELSE 0
<1> DEFINE e == [i \in 1 .. m |-> x]
           n == IF m > 0 THEN m ELSE 0
<1>1. n \in Nat /\ 1 .. m = 1 .. n OBVIOUS
<1>2. e \in [1 .. n -> S] BY <1>1
<1>3. e \in Seq(S) BY <1>1, <1>2
<1>4. Len(e) = n
  <2> HIDE DEF e, n
  <2> QED BY <1>1, <1>2, <1>3
<1> QED BY <1>3, <1>4

\* What an assignment to a part of a set makes of it.
LEMMA PartsAssigned ==
  ASSUME NEW set \in SetRecords, NEW v, NEW w
  PROVE  /\ [set EXCEPT !.lookup = v] = [lookup |-> v, size |-> set.size]
         /\ [set EXCEPT !.lookup = v, !.size = w] = [lookup |-> v, size |-> w]
<1> DEFINE a == set.lookup
           b == set.size
<1>1. set = [lookup |-> a, size |-> b] BY DEF SetRecords
<1> HIDE DEF a, b
<1>2. [set EXCEPT !.lookup = v] = [lookup |-> v, size |-> b] BY <1>1
<1>3. [set EXCEPT !.lookup = v, !.size = w] = [[set EXCEPT !.lookup = v] EXCEPT !.size = w]
  OBVIOUS
<1> DEFINE r == [set EXCEPT !.lookup = v]
<1>5. [r EXCEPT !.size = w] = [lookup |-> v, size |-> w]
  <2>1. r = [lookup |-> v, size |-> b] BY <1>2
  <2> HIDE DEF r
  <2> QED BY <2>1
<1>4. [set EXCEPT !.lookup = v, !.size = w] = [lookup |-> v, size |-> w] BY <1>3, <1>5
<1> QED BY <1>2, <1>4

\* maybe_resize makes room for a key and adds none.
LEMMA ResizedKeeps ==
  ASSUME Bitsets, NEW set \in SetRecords, NEW key \in Nat
  PROVE  /\ Set!Resized(set, key) \in SetRecords
         /\ key \div bits < Len(Set!Resized(set, key).lookup)
         /\ Len(set.lookup) <= Len(Set!Resized(set, key).lookup)
         /\ Set!Elements(Set!Resized(set, key)) = Set!Elements(set)
         /\ Set!Resized(set, key).size = set.size
<1> USE DEF Bitsets
<1> DEFINE n == Len(set.lookup)
           q == key \div bits
           more == [i \in 1 .. q + 1 - n |-> {}]
           new == Set!Resized(set, key)
<1>0. set.lookup \in Seq(SUBSET (0 .. bits - 1)) /\ set.size \in Nat
  BY DEF SetRecords
<1>1. q \in Nat /\ n \in Nat
  <2>1. q \in Nat BY Division
  <2>2. n \in Nat BY <1>0
  <2> QED BY <2>1, <2>2
<1>2. /\ more \in Seq(SUBSET (0 .. bits - 1))
      /\ Len(more) = IF q + 1 - n > 0 THEN q + 1 - n ELSE 0
  <2> {} \in SUBSET (0 .. bits - 1) /\ q + 1 - n \in Int BY <1>1
  <2> HIDE DEF q, n
  <2> QED BY Blanks
<1>3. Len(more) = IF n < q + 1 THEN q + 1 - n ELSE 0
  <2> HIDE DEF q, n, more
  <2> QED BY <1>1, <1>2
<1>5. new = [lookup |-> set.lookup \o more, size |-> set.size]
  <2>1. new = [set EXCEPT !.lookup = set.lookup \o more] BY DEF Set!Resized
  <2> HIDE DEF more, new
  <2> QED BY <2>1, PartsAssigned
<1>6. \A i \in 1 .. Len(more) : more[i] = {}
  <2>1. \A i \in 1 .. q + 1 - n : more[i] = {} OBVIOUS
  <2> HIDE DEF more
  <2> QED BY <1>1, <1>3, <2>1
<1> DEFINE old == set.lookup
<1>7. old \in Seq(SUBSET (0 .. bits - 1)) /\ n = Len(old) BY <1>0
<1> HIDE DEF q, n, more, new, old
<1>8. new.lookup = old \o more /\ new.size = set.size BY <1>5 DEF old
<1>9. /\ new \in SetRecords
      /\ Len(new.lookup) = n + Len(more)
      /\ \A i \in 1 .. n + Len(more) :
            new.lookup[i] = IF i <= n THEN old[i] ELSE more[i - n]
  <2> DEFINE S == SUBSET (0 .. bits - 1)
  <2> HIDE DEF S
  <2>1. old \in Seq(S) /\ more \in Seq(S) BY <1>2, <1>7 DEF S
  <2>2. /\ old \o more \in Seq(S)
        /\ Len(old \o more) = n + Len(more)
        /\ \A i \in 1 .. n + Len(more) :
              (old \o more)[i] = IF i <= n THEN old[i] ELSE more[i - n]
    BY <1>7, <2>1
  <2> QED BY <1>0, <1>5, <1>8, <2>2 DEF SetRecords, S, old
<1>10. ASSUME NEW k \in Nat PROVE Set!Has(new, k) <=> Set!Has(set, k)
  <2> DEFINE p == k \div bits
             r == k % bits
  <2>1. p \in Nat BY Division
  <2>2. /\ Set!Has(new, k) <=> p < n + Len(more) /\ r \in new.lookup[p + 1]
        /\ Set!Has(set, k) <=> p < n /\ r \in old[p + 1]
    BY <1>7, <1>9 DEF Set!Has, old
  <2> HIDE DEF p, r
  <2>3. Len(more) \in Nat BY <1>1, <1>3
  <2>4. CASE p < n BY <1>1, <1>9, <2>1, <2>2, <2>3, <2>4
  <2>5. CASE ~(p < n)
    <3>1. ASSUME p < n + Len(more) PROVE new.lookup[p + 1] = {}
      <4>1. /\ p + 1 \in 1 .. n + Len(more) /\ ~(p + 1 <= n)
            /\ p + 1 - n \in 1 .. Len(more)
        BY <1>1, <2>1, <2>3, <2>5, <3>1
      <4>2. new.lookup[p + 1] = IF p + 1 <= n THEN old[p + 1] ELSE more[p + 1 - n]
        BY <1>1, <1>9, <2>1, <2>3, <4>1
      <4> QED BY <1>6, <4>1, <4>2
    <3> QED BY <2>2, <2>5, <3>1
  <2> QED BY <2>4, <2>5
<1>11. Set!Elements(new) = Set!Elements(set) BY <1>9, <1>10, SetElementsAre
<1>12. q < n + Len(more) /\ n <= n + Len(more) BY <1>1, <1>3
<1> QED BY <1>8, <1>9, <1>11, <1>12 DEF new, q, n

\* insert of a key there is room for.
LEMMA MarkAdds ==
  ASSUME Bitsets, NEW set, SetOK(set), NEW key \in Nat,
         key \div bits < Len(set.lookup)
  PROVE  /\ SetOK(Set!Mark(set, key))
         /\ Len(Set!Mark(set, key).lookup) = Len(set.lookup)
         /\ Set!Elements(Set!Mark(set, key)) = Set!Elements(set) \cup {key}
<1> USE DEF Bitsets
<1>0. set \in SetRecords BY DEF SetOK
<1>1. CASE Set!Has(set, key)
  BY <1>0, <1>1, SetElementsAre DEF Set!Mark
<1>2. CASE ~Set!Has(set, key)
  <2> DEFINE q == key \div bits + 1
             r == key % bits
             new == Set!Mark(set, key)
  <2>1. q \in 1 .. Len(set.lookup) /\ r \in 0 .. bits - 1
    <3>1. key \div bits \in Nat /\ r \in 0 .. bits - 1 BY Division
    <3>2. Len(set.lookup) \in Nat BY <1>0, HasTyped
    <3> QED BY <3>1, <3>2
  <2>2. new = [lookup |-> [set.lookup EXCEPT ![q] = @ \cup {r}], size |-> set.size + 1]
    BY <1>0, <1>2 DEF Set!Mark, SetRecords
  <2>3. /\ new \in SetRecords
        /\ Len(new.lookup) = Len(set.lookup)
        /\ \A i \in 1 .. Len(set.lookup) :
             new.lookup[i] = IF i = q THEN set.lookup[i] \cup {r} ELSE set.lookup[i]
        /\ new.size = set.size + 1
    <3> DEFINE S == SUBSET (0 .. bits - 1)
               old == set.lookup
               mod == [old EXCEPT ![q] = @ \cup {r}]
    <3> HIDE DEF q, r, new, S, mod, old
    <3>1. old \in Seq(S) /\ set.size \in Nat BY <1>0 DEF SetRecords, S, old
    <3>2. old[q] \in S /\ old[q] \cup {r} \in S BY <2>1, <3>1 DEF S, old
    <3>3. /\ mod \in Seq(S) /\ Len(mod) = Len(old)
          /\ \A i \in 1 .. Len(old) : mod[i] = IF i = q THEN old[i] \cup {r} ELSE old[i]
      <4> DEFINE x == old[q] \cup {r}
      <4>1. mod = [old EXCEPT ![q] = x] BY DEF mod
      <4>2. q \in 1 .. Len(old) BY <2>1 DEF old
      <4>3. x \in S BY <3>2
      <4> HIDE DEF x
      <4>4. /\ mod \in Seq(S) /\ Len(mod) = Len(old)
            /\ \A i \in 1 .. Len(old) : mod[i] = IF i = q THEN x ELSE old[i]
        BY <3>1, <4>1, <4>2, <4>3
      <4> QED BY <4>4 DEF x
    <3>5. new = [lookup |-> mod, size |-> set.size + 1] BY <2>2 DEF mod, old
    <3>6. new \in [lookup : Seq(S), size : Nat] BY <3>1, <3>3, <3>5
    <3> QED BY <3>3, <3>5, <3>6 DEF SetRecords, S, old
  <2>4. ASSUME NEW k \in Nat PROVE Set!Has(new, k) <=> k = key \/ Set!Has(set, k)
    <3>1. k \div bits \in Nat /\ k % bits \in 0 .. bits - 1 BY Division
    <3>2. CASE k \div bits = key \div bits
      <4>1. k % bits = r => k = key BY <3>2, SameKey
      <4> HIDE DEF new
      <4> QED BY <1>0, <2>1, <2>3, <3>1, <3>2, <4>1 DEF Set!Has
    <3>3. CASE k \div bits # key \div bits
      <4>1. k \div bits + 1 # q /\ Len(set.lookup) \in Nat
        <5>1. key \div bits \in Nat /\ Len(set.lookup) \in Nat BY <1>0, HasTyped, Division
        <5> QED BY <3>1, <3>3, <5>1
      <4>2. k \div bits < Len(set.lookup) =>
              new.lookup[k \div bits + 1] = set.lookup[k \div bits + 1]
        <5> SUFFICES ASSUME k \div bits < Len(set.lookup)
                     PROVE  new.lookup[k \div bits + 1] = set.lookup[k \div bits + 1]
          OBVIOUS
        <5>1. k \div bits + 1 \in 1 .. Len(set.lookup) BY <3>1, <4>1
        <5> HIDE DEF q, r, new
        <5> QED BY <2>3, <4>1, <5>1
      <4>3. k # key BY <3>3
      <4> HIDE DEF new, q, r
      <4> QED BY <2>3, <4>2, <4>3 DEF Set!Has
    <3> QED BY <3>2, <3>3
  <2> HIDE DEF new, q, r
  <2>5. Set!Elements(new) = Set!Elements(set) \cup {key} BY <1>0, <2>3, <2>4, SetElementsAre
  <2>6. key \notin Set!Elements(set) BY <1>0, <1>2, SetElementsAre
  <2>7. new.size = Cardinality(Set!Elements(new))
    <3>1. IsFiniteSet(Set!Elements(set)) /\ set.size = Cardinality(Set!Elements(set))
      BY <1>0, SetElementsAre, SameCount DEF SetOK, Set!Holds
    <3> QED BY <2>3, <2>5, <2>6, <3>1, FS_AddElement
  <2> QED BY <2>3, <2>5, <2>7, SameCount DEF SetOK, Set!Holds, new
<1> QED BY <1>1, <1>2

\* erase of a key.
LEMMA ErasedRemoves ==
  ASSUME Bitsets, NEW set, SetOK(set), NEW key \in Nat
  PROVE  /\ SetOK(Set!Erased(set, key))
         /\ Len(Set!Erased(set, key).lookup) = Len(set.lookup)
         /\ Set!Elements(Set!Erased(set, key)) = Set!Elements(set) \ {key}
<1> USE DEF Bitsets
<1>0. set \in SetRecords BY DEF SetOK
<1>1. CASE ~Set!Has(set, key)
  BY <1>0, <1>1, SetElementsAre DEF Set!Erased
<1>2. CASE Set!Has(set, key)
  <2> DEFINE q == key \div bits + 1
             r == key % bits
             new == Set!Erased(set, key)
  <2>1. q \in 1 .. Len(set.lookup) /\ r \in 0 .. bits - 1
    <3>1. key \div bits \in Nat /\ r \in 0 .. bits - 1 BY Division
    <3>2. Len(set.lookup) \in Nat BY <1>0, HasTyped
    <3>3. key \div bits < Len(set.lookup) BY <1>2 DEF Set!Has
    <3> QED BY <3>1, <3>2, <3>3
  <2>2. new = [lookup |-> [set.lookup EXCEPT ![q] = @ \ {r}], size |-> set.size - 1]
    BY <1>0, <1>2 DEF Set!Erased, SetRecords
  <2>6. key \in Set!Elements(set) BY <1>0, <1>2, SetElementsAre
  <2>8. set.size = Cardinality(Set!Elements(set)) /\ set.size - 1 \in Nat
    BY <1>0, <2>6, SetElementsAre, FS_EmptySet, SameCount DEF SetOK, Set!Holds
  <2>3. /\ new \in SetRecords
        /\ Len(new.lookup) = Len(set.lookup)
        /\ \A i \in 1 .. Len(set.lookup) :
             new.lookup[i] = IF i = q THEN set.lookup[i] \ {r} ELSE set.lookup[i]
        /\ new.size = set.size - 1
    <3> DEFINE S == SUBSET (0 .. bits - 1)
               old == set.lookup
               mod == [old EXCEPT ![q] = @ \ {r}]
    <3> HIDE DEF q, r, new, S, mod, old
    <3>1. old \in Seq(S) /\ set.size \in Nat BY <1>0 DEF SetRecords, S, old
    <3>2. old[q] \in S /\ old[q] \ {r} \in S BY <2>1, <3>1 DEF S, old
    <3>3. /\ mod \in Seq(S) /\ Len(mod) = Len(old)
          /\ \A i \in 1 .. Len(old) : mod[i] = IF i = q THEN old[i] \ {r} ELSE old[i]
      <4> DEFINE x == old[q] \ {r}
      <4>1. mod = [old EXCEPT ![q] = x] BY DEF mod
      <4>2. q \in 1 .. Len(old) BY <2>1 DEF old
      <4>3. x \in S BY <3>2
      <4> HIDE DEF x
      <4>4. /\ mod \in Seq(S) /\ Len(mod) = Len(old)
            /\ \A i \in 1 .. Len(old) : mod[i] = IF i = q THEN x ELSE old[i]
        BY <3>1, <4>1, <4>2, <4>3
      <4> QED BY <4>4 DEF x
    <3>5. new = [lookup |-> mod, size |-> set.size - 1] BY <2>2 DEF mod, old
    <3>6. new \in [lookup : Seq(S), size : Nat] BY <2>8, <3>1, <3>3, <3>5
    <3> QED BY <3>3, <3>5, <3>6 DEF SetRecords, S, old
  <2>4. ASSUME NEW k \in Nat PROVE Set!Has(new, k) <=> k # key /\ Set!Has(set, k)
    <3>1. k \div bits \in Nat /\ k % bits \in 0 .. bits - 1 BY Division
    <3>2. CASE k \div bits = key \div bits
      <4>1. k % bits = r => k = key BY <3>2, SameKey
      <4> HIDE DEF new
      <4> QED BY <1>0, <2>1, <2>3, <3>1, <3>2, <4>1 DEF Set!Has
    <3>3. CASE k \div bits # key \div bits
      <4>1. k \div bits + 1 # q /\ Len(set.lookup) \in Nat
        <5>1. key \div bits \in Nat /\ Len(set.lookup) \in Nat BY <1>0, HasTyped, Division
        <5> QED BY <3>1, <3>3, <5>1
      <4>2. k \div bits < Len(set.lookup) =>
              new.lookup[k \div bits + 1] = set.lookup[k \div bits + 1]
        <5> SUFFICES ASSUME k \div bits < Len(set.lookup)
                     PROVE  new.lookup[k \div bits + 1] = set.lookup[k \div bits + 1]
          OBVIOUS
        <5>1. k \div bits + 1 \in 1 .. Len(set.lookup) BY <3>1, <4>1
        <5> HIDE DEF q, r, new
        <5> QED BY <2>3, <4>1, <5>1
      <4>3. k # key BY <3>3
      <4> HIDE DEF new, q, r
      <4> QED BY <2>3, <4>2, <4>3 DEF Set!Has
    <3> QED BY <3>2, <3>3
  <2> HIDE DEF new, q, r
  <2>5. Set!Elements(new) = Set!Elements(set) \ {key} BY <1>0, <2>3, <2>4, SetElementsAre
  <2>7. new.size = Cardinality(Set!Elements(new))
    BY <1>0, <2>3, <2>5, <2>6, <2>8, SetElementsAre, FS_RemoveElement
  <2> QED BY <2>3, <2>5, <2>7, SameCount DEF SetOK, Set!Holds, new
<1> QED BY <1>1, <1>2

-----------------------------------------------------------------------------
(* Iterators.                                                              *)

\* The least of some numbers is one of them.
LEMMA LeastMember ==
  ASSUME NEW T \in SUBSET Nat, T # {}
  PROVE  Set!Min(T) \in T /\ \A k \in T : Set!Min(T) <= k
BY LeastNumber DEF Set!Min

\* operator++ leads to the next key, or to the end.
LEMMA AfterIs ==
  ASSUME Bitsets, NEW set \in SetRecords, NEW it \in Nat, it < Set!End(set)
  PROVE  /\ Set!After(set, it) \in it + 1 .. Set!End(set)
         /\ Set!After(set, it) \in Set!Positions(set)
         /\ \A k \in it + 1 .. Set!After(set, it) - 1 : k \notin Set!Elements(set)
<1> DEFINE T == {i \in it + 1 .. Set!End(set) : i = Set!End(set) \/ Set!Has(set, i)}
<1>1. Set!End(set) \in Nat /\ Set!Elements(set) = {k \in Nat : Set!Has(set, k)} BY SetElementsAre
<1>2. T \in SUBSET Nat /\ Set!End(set) \in T BY <1>1
<1>3. Set!After(set, it) = Set!Min(T) BY DEF Set!After
<1>4. Set!Min(T) \in T /\ \A k \in T : Set!Min(T) <= k
  <2> HIDE DEF T
  <2> QED BY <1>2, LeastMember
<1>5. Set!Min(T) \in it + 1 .. Set!End(set) /\ Set!Min(T) \in Set!Positions(set)
  BY <1>1, <1>4 DEF Set!Positions
<1>6. ASSUME NEW k \in it + 1 .. Set!Min(T) - 1 PROVE k \notin Set!Elements(set)
  <2> DEFINE m == Set!Min(T)
  <2>1. m \in it + 1 .. Set!End(set) /\ \A i \in T : m <= i BY <1>4, <1>5
  <2>2. k \notin T
    <3> HIDE DEF T
    <3> k \in it + 1 .. m - 1 OBVIOUS
    <3> HIDE DEF m
    <3> QED BY <1>1, <2>1
  <2>3. k \in it + 1 .. Set!End(set) /\ k \in Nat
    <3> HIDE DEF T
    <3> k \in it + 1 .. m - 1 OBVIOUS
    <3> HIDE DEF m
    <3> QED BY <1>1, <2>1
  <2> QED BY <1>1, <2>2, <2>3
<1> HIDE DEF T
<1> QED BY <1>3, <1>5, <1>6

\* begin() is the first key, or the end.
LEMMA BeginIs ==
  ASSUME Bitsets, NEW set \in SetRecords
  PROVE  /\ Set!Begin(set) \in 0 .. Set!End(set)
         /\ Set!Begin(set) \in Set!Positions(set)
         /\ \A k \in Set!Elements(set) : k >= Set!Begin(set)
<1>1. Set!End(set) \in Nat /\ Set!Elements(set) = {k \in Nat : Set!Has(set, k)}
  BY SetElementsAre
<1>2. CASE set.lookup = <<>>
  <2>1. Set!End(set) = 0 BY <1>2 DEF Set!End, Bitsets
  <2> QED BY <1>1, <1>2, <2>1 DEF Set!Begin, Set!Positions
<1>3. CASE set.lookup # <<>> /\ Set!Has(set, 0)
  BY <1>1, <1>3 DEF Set!Begin, Set!Positions
<1>4. CASE set.lookup # <<>> /\ ~Set!Has(set, 0)
  <2>1. Set!End(set) > 0
    <3>1. Len(set.lookup) \in Nat \ {0} BY <1>4 DEF SetRecords
    <3> QED BY <3>1 DEF Set!End, Bitsets
  <2>2. Set!Begin(set) = Set!After(set, 0) BY <1>4 DEF Set!Begin
  <2>3. /\ Set!After(set, 0) \in 1 .. Set!End(set)
        /\ Set!After(set, 0) \in Set!Positions(set)
        /\ \A k \in 1 .. Set!After(set, 0) - 1 : k \notin Set!Elements(set)
    BY <2>1, AfterIs
  <2>4. ASSUME NEW k \in Set!Elements(set) PROVE k >= Set!After(set, 0)
    <3>1. k \in Nat /\ k # 0 BY <1>1, <1>4
    <3> QED BY <1>1, <2>3, <3>1
  <2> QED BY <1>1, <2>2, <2>3, <2>4
<1> QED BY <1>2, <1>3, <1>4

-----------------------------------------------------------------------------
(* A loop that erases.                                                     *)

\* A turn of the loop.
Turned(acc, upto, Unwanted) ==
  IF acc.it = upto THEN acc
  ELSE LET c == IF acc.it \in Unwanted THEN Set!Erased(acc.set, acc.it) ELSE acc.set
       IN  [set |-> c, it |-> Set!After(c, acc.it)]

\* Where the loop may be: it does not jump over its end, whose bit stays.
Turns(set, upto) ==
  {acc \in [set : SetRecords, it : 0 .. upto] :
     /\ Set!Holds(acc.set, Set!Elements(acc.set))
     /\ Len(acc.set.lookup) = Len(set.lookup)
     /\ upto \in Set!Positions(acc.set)}

\* A turn erases the key it is on if it should, and goes on to the next.
LEMMA TurnErases ==
  ASSUME Bitsets, NEW set, SetOK(set), NEW upto \in Set!Positions(set), NEW Unwanted,
         NEW acc \in Turns(set, upto)
  PROVE  /\ Turned(acc, upto, Unwanted) \in Turns(set, upto)
         /\ acc.it # upto =>
              /\ Turned(acc, upto, Unwanted).it > acc.it
              /\ Set!Elements(Turned(acc, upto, Unwanted).set) =
                   Set!Elements(acc.set) \
                     (Unwanted \cap acc.it .. Turned(acc, upto, Unwanted).it - 1)
<1>0. set \in SetRecords BY DEF SetOK
<1>1. CASE acc.it = upto BY <1>1 DEF Turned
<1>2. CASE acc.it # upto
  <2> DEFINE it == acc.it
             old == acc.set
             c == IF it \in Unwanted THEN Set!Erased(old, it) ELSE old
             to == Set!After(c, it)
  <2>1. upto \in Nat /\ upto <= Set!End(set) /\ Set!End(set) \in Nat
    BY <1>0, SetElementsAre DEF Set!Positions
  <2>2. /\ it \in 0 .. upto /\ old \in SetRecords /\ SetOK(old)
        /\ Len(old.lookup) = Len(set.lookup) /\ upto \in Set!Positions(old)
    BY DEF Turns, SetOK
  <2>3. it \in Nat /\ it < upto BY <1>2, <2>1, <2>2
  <2>4. /\ SetOK(c) /\ Len(c.lookup) = Len(set.lookup)
        /\ Set!Elements(c) = Set!Elements(old) \ (Unwanted \cap {it})
    <3> HIDE DEF it, old
    <3>1. CASE it \in Unwanted BY <2>2, <2>3, <3>1, ErasedRemoves
    <3>2. CASE it \notin Unwanted BY <2>2, <3>2
    <3> QED BY <3>1, <3>2
  <2>5. c \in SetRecords /\ Set!End(c) = Set!End(set) /\ Set!End(old) = Set!End(set)
    BY <2>2, <2>4 DEF SetOK, Set!End
  <2>6. upto \in Set!Positions(c)
    <3> HIDE DEF it, old, c
    <3> QED BY <2>2, <2>3, <2>4, <2>5 DEF Set!Positions
  <2>7. Turned(acc, upto, Unwanted) = [set |-> c, it |-> to] BY <1>2 DEF Turned
  <2> HIDE DEF c
  <2>8. /\ to \in it + 1 .. Set!End(set) /\ to \in Set!Positions(c)
        /\ \A k \in it + 1 .. to - 1 : k \notin Set!Elements(c)
    <3> HIDE DEF it
    <3> QED BY <2>1, <2>3, <2>5, AfterIs
  <2> HIDE DEF it, old, to
  <2>9. to <= upto
    <3> SUFFICES ASSUME to > upto PROVE FALSE BY <2>1, <2>8
    <3>1. upto \in it + 1 .. to - 1 BY <2>1, <2>3, <2>8
    <3>2. upto \in Set!Elements(c) BY <2>1, <2>5, <2>6, <2>8 DEF Set!Positions
    <3> QED BY <2>8, <3>1, <3>2
  <2>10. to \in 0 .. upto BY <2>1, <2>3, <2>8, <2>9
  <2>11. [set |-> c, it |-> to] \in Turns(set, upto)
    BY <2>4, <2>5, <2>6, <2>10 DEF Turns, SetOK
  <2>12. Set!Elements(c) = Set!Elements(old) \ (Unwanted \cap it .. to - 1)
    <3>1. ASSUME NEW k \in it .. to - 1, k # it PROVE k \notin Set!Elements(c)
      <4> k \in it + 1 .. to - 1 BY <2>3, <2>8, <3>1
      <4> QED BY <2>8
    <3>2. it \in it .. to - 1 BY <2>3, <2>8
    <3> QED BY <2>4, <3>1, <3>2
  <2> QED BY <2>3, <2>7, <2>8, <2>11, <2>12 DEF it, old
<1> QED BY <1>1, <1>2

\* The loop is a chain of turns.
LEMMA LoopRuns ==
  ASSUME Bitsets, NEW set, SetOK(set), NEW from \in Set!Positions(set),
         NEW upto \in Set!Positions(set), from <= upto, NEW Unwanted
  PROVE  \E run :
            /\ run[0] = [set |-> set, it |-> from]
            /\ \A i \in 0 .. Set!End(set) : run[i] \in Turns(set, upto)
            /\ \A i \in 1 .. Set!End(set) : run[i] = Turned(run[i - 1], upto, Unwanted)
            /\ Set!Loop(set, from, upto, Unwanted) = run[Set!End(set)].set
<1> DEFINE n == Set!End(set)
           V == Turns(set, upto)
           base == [set |-> set, it |-> from]
           last == [t \in SUBSET (1 .. n) |-> Max(t)]
           step == [i \in 1 .. n |-> [v \in V |-> Turned(v, upto, Unwanted)]]
           IsRun(g) ==
             g = [t \in SUBSET (1 .. n) |->
                    IF t = {} THEN base
                    ELSE Turned(g[t \ {Max(t)}], upto, Unwanted)]
           c == CHOOSE g : IsRun(g)
<1>0. set \in SetRecords /\ n \in Nat BY SetElementsAre DEF SetOK
<1>1. Set!Loop(set, from, upto, Unwanted) = c[1 .. n].set
  <2> DOMAIN [i \in 1 .. Set!End(set) |-> i] = 1 .. n OBVIOUS
  <2> QED BY DEF Set!Loop, Turned, Set!FoldLeft, Set!MapThenFoldSet, Set!Max, Max
<1>2. base \in V
  <2>1. from \in 0 .. upto
    BY <1>0, SetElementsAre DEF Set!Positions
  <2> QED BY <1>0, <2>1 DEF Turns, SetOK
<1>3. \A v \in V : Turned(v, upto, Unwanted) \in V BY TurnErases
<1>4. step \in StepsOver(1 .. n, V)
  <2> HIDE DEF V, n
  <2> QED BY <1>3 DEF StepsOver
<1>5. PICK g : IsFold(g, 1 .. n, V, base, step, last)
  <2> HIDE DEF step, V, n, base
  <2> QED BY <1>0, <1>2, <1>4, FoldLeftExists
<1>6. /\ g \in [SUBSET (1 .. n) -> V]
      /\ \A t \in SUBSET (1 .. n) :
            g[t] = IF t = {} THEN base ELSE step[Max(t)][g[t \ {Max(t)}]]
  BY <1>5 DEF IsFold
<1>7. ASSUME NEW t \in SUBSET (1 .. n), t # {}
      PROVE  g[t] = Turned(g[t \ {Max(t)}], upto, Unwanted)
  <2>1. Max(t) \in 1 .. n BY <1>0, <1>7, LastMember
  <2>2. g[t \ {Max(t)}] \in V
    <3> HIDE DEF V, n
    <3> QED BY <1>6
  <2> HIDE DEF V, n, base
  <2> QED BY <1>6, <1>7, <2>1, <2>2
<1>8. IsRun(g)
  <2> HIDE DEF V, n, base
  <2> QED BY <1>6, <1>7
<1>9. IsRun(c)
  <2> HIDE DEF IsRun
  <2> QED BY <1>8
<1> HIDE DEF c
<1>10. c[{}] = base
  <2> HIDE DEF base, n
  <2> QED BY <1>9
<1>11. ASSUME NEW i \in 1 .. n PROVE c[1 .. i] = Turned(c[1 .. (i - 1)], upto, Unwanted)
  <2>1. Max(1 .. i) = i /\ (1 .. i) \ {i} = 1 .. (i - 1) BY <1>0, LastIndex
  <2>2. 1 .. i \in SUBSET (1 .. n) /\ 1 .. i # {} BY <1>0
  <2> HIDE DEF base, n
  <2> QED BY <1>9, <2>1, <2>2
<1>12. \A i \in 0 .. n : c[1 .. i] \in V
  <2> HIDE DEF base, n, V
  <2> QED BY <1>0, <1>2, <1>3, <1>10, <1>11, FoldLeftTurns
<1> DEFINE run == [i \in 0 .. n |-> c[1 .. i]]
<1>13. run[0] = base
  <2> 1 .. 0 = {} /\ 0 \in 0 .. n BY <1>0
  <2> HIDE DEF base, n
  <2> QED BY <1>10
<1>14. \A i \in 1 .. n : run[i] = Turned(run[i - 1], upto, Unwanted)
  <2> HIDE DEF n
  <2> \A i \in 1 .. n : i \in 0 .. n /\ i - 1 \in 0 .. n BY <1>0
  <2> QED BY <1>11
<1>15. run[n] = c[1 .. n] /\ \A i \in 0 .. n : run[i] \in V
  <2> HIDE DEF n, V
  <2> QED BY <1>0, <1>12
<1> HIDE DEF run
<1> QED BY <1>1, <1>13, <1>14, <1>15

\* A loop from an iterator to another erases what it does not want in between.
LEMMA SetLoopErases ==
  ASSUME Bitsets, NEW set, SetOK(set), NEW from \in Set!Positions(set),
         NEW upto \in Set!Positions(set), from <= upto, NEW Unwanted
  PROVE  /\ SetOK(Set!Loop(set, from, upto, Unwanted))
         /\ Set!Elements(Set!Loop(set, from, upto, Unwanted)) =
              Set!Elements(set) \ (Unwanted \cap from .. upto - 1)
<1> DEFINE n == Set!End(set)
<1>0. set \in SetRecords /\ n \in Nat BY SetElementsAre DEF SetOK
<1>1. from \in Nat /\ upto \in Nat /\ upto <= n BY <1>0, SetElementsAre DEF Set!Positions
<1>2. PICK run :
        /\ run[0] = [set |-> set, it |-> from]
        /\ \A i \in 0 .. n : run[i] \in Turns(set, upto)
        /\ \A i \in 1 .. n : run[i] = Turned(run[i - 1], upto, Unwanted)
        /\ Set!Loop(set, from, upto, Unwanted) = run[n].set
  BY LoopRuns
<1> HIDE DEF n
<1> DEFINE T == {i \in 0 .. n :
                   /\ run[i].it >= from
                   /\ run[i].it = upto \/ run[i].it >= from + i
                   /\ Set!Elements(run[i].set) =
                        Set!Elements(set) \ (Unwanted \cap from .. run[i].it - 1)}
<1>3. 0 \in T
  <2>1. from .. from - 1 = {} BY <1>1
  <2> QED BY <1>0, <1>1, <1>2, <2>1
<1>4. ASSUME NEW i \in 1 .. n, i - 1 \in T PROVE i \in T
  <2> DEFINE acc == run[i - 1]
             next == run[i]
  <2>1. acc \in Turns(set, upto) /\ next \in Turns(set, upto) BY <1>0, <1>2
  <2>2. /\ acc.it >= from
        /\ acc.it = upto \/ acc.it >= from + (i - 1)
        /\ Set!Elements(acc.set) = Set!Elements(set) \ (Unwanted \cap from .. acc.it - 1)
    BY <1>4
  <2>3. next = Turned(acc, upto, Unwanted) BY <1>2
  <2>4. acc.it \in 0 .. upto /\ next.it \in 0 .. upto BY <2>1 DEF Turns
  <2> HIDE DEF acc, next
  <2>5. CASE acc.it = upto
    <3>1. next = acc BY <2>3, <2>5 DEF Turned
    <3> QED BY <2>2, <2>5, <3>1 DEF next
  <2>6. CASE acc.it # upto
    <3>1. /\ next.it > acc.it
          /\ Set!Elements(next.set) = Set!Elements(acc.set) \ (Unwanted \cap acc.it .. next.it - 1)
      BY <2>1, <2>3, <2>6, TurnErases
    <3>2. from .. next.it - 1 = (from .. acc.it - 1) \cup (acc.it .. next.it - 1)
      BY <1>1, <2>2, <2>4, <3>1
    <3>3. next.it >= from + i /\ next.it >= from
      BY <1>0, <1>1, <2>2, <2>4, <2>6, <3>1
    <3>4. Set!Elements(next.set) = Set!Elements(set) \ (Unwanted \cap from .. next.it - 1)
      BY <2>2, <3>1, <3>2
    <3> QED BY <3>3, <3>4 DEF next
  <2> QED BY <2>5, <2>6
<1>5. n \in T
  <2> HIDE DEF T
  <2>1. 0 .. n \subseteq T BY <1>0, <1>3, <1>4, BoundedInduction
  <2> QED BY <1>0, <2>1
<1>6. run[n] \in Turns(set, upto) BY <1>0, <1>2
<1>7. run[n].it = upto
  <2>1. run[n].it \in 0 .. upto BY <1>6 DEF Turns
  <2> QED BY <1>0, <1>1, <1>5, <2>1
<1>8. SetOK(run[n].set) BY <1>6 DEF Turns, SetOK
<1> QED BY <1>2, <1>5, <1>7, <1>8

-----------------------------------------------------------------------------
(* Several keys at once.                                                   *)

\* Some set of numbers that is not empty and bounded has a greatest one.
LEMMA GreatestMember ==
  ASSUME NEW batch \in Seq(Nat), batch # <<>>
  PROVE  /\ Set!Max(Set!ToSet(batch)) \in Nat
         /\ \A i \in 1 .. Len(batch) : batch[i] <= Set!Max(Set!ToSet(batch))
<1>0. Len(batch) \in Nat /\ \A i \in 1 .. Len(batch) : batch[i] \in Nat OBVIOUS
<1>1. Set!ToSet(batch) = {batch[i] : i \in 1 .. Len(batch)} BY DEF Set!ToSet
<1> DEFINE T == {n \in 0 .. Len(batch) :
                   n > 0 => \E m \in 1 .. n : \A i \in 1 .. n : batch[i] <= batch[m]}
<1>2. 0 \in T BY <1>0
<1>3. ASSUME NEW n \in 1 .. Len(batch), n - 1 \in T PROVE n \in T
  <2>1. CASE n = 1 BY <1>0, <2>1
  <2>2. CASE n > 1
    <3>1. PICK m \in 1 .. n - 1 : \A i \in 1 .. n - 1 : batch[i] <= batch[m]
      BY <1>0, <1>3, <2>2
    <3>2. m \in 1 .. n /\ n \in 1 .. n BY <1>0
    <3>3. \A i \in 1 .. n : i # n => i \in 1 .. n - 1 BY <1>0
    <3>4. CASE batch[n] <= batch[m]
      <4>1. \A i \in 1 .. n : batch[i] <= batch[m] BY <3>1, <3>3, <3>4
      <4> QED BY <3>2, <4>1
    <3>5. CASE ~(batch[n] <= batch[m])
      <4>1. \A i \in 1 .. n : batch[i] \in Nat BY <1>0
      <4>2. \A i \in 1 .. n : batch[i] <= batch[n]
        BY <3>1, <3>2, <3>3, <3>5, <4>1
      <4> QED BY <3>2, <4>2
    <3> QED BY <3>4, <3>5
  <2> QED BY <1>0, <2>1, <2>2
<1>4. Len(batch) \in T
  <2> HIDE DEF T
  <2>1. 0 .. Len(batch) \subseteq T BY <1>0, <1>2, <1>3, BoundedInduction
  <2> QED BY <1>0, <2>1
<1>5. PICK m \in 1 .. Len(batch) : \A i \in 1 .. Len(batch) : batch[i] <= batch[m]
  BY <1>0, <1>4
<1>6. batch[m] \in Set!ToSet(batch) /\ \A y \in Set!ToSet(batch) : batch[m] >= y
  BY <1>0, <1>1, <1>5
<1>7. Set!Max(Set!ToSet(batch)) \in Set!ToSet(batch) /\ \A y \in Set!ToSet(batch) : Set!Max(Set!ToSet(batch)) >= y
  BY <1>6 DEF Set!Max
<1> QED BY <1>0, <1>1, <1>7

\* There is room for a key below one there is room for.
LEMMA RoomBelow ==
  ASSUME Bitsets, NEW set \in SetRecords, NEW key \in Nat,
         key \div bits < Len(set.lookup), NEW k \in Nat, k <= key
  PROVE  k \div bits < Len(set.lookup)
<1> USE DEF Bitsets
<1> DEFINE n == Len(set.lookup)
<1>1. n \in Nat BY HasTyped
<1> HIDE DEF n
<1>2. key < n * bits BY <1>1, InLength DEF n
<1>3. n * bits \in Nat BY <1>1
<1>4. k < n * bits BY <1>2, <1>3
<1> QED BY <1>1, <1>4, InLength DEF n

\* insert of a range inserts each of its keys.
LEMMA FilledAdds ==
  ASSUME Bitsets, NEW set, SetOK(set), NEW batch \in Seq(Nat), batch # <<>>
  PROVE  /\ SetOK(Set!Filled(set, batch))
         /\ Set!Elements(Set!Filled(set, batch)) = Set!Elements(set) \cup Set!ToSet(batch)
<1> DEFINE n == Len(batch)
           key == Set!Max(Set!ToSet(batch))
           base == Set!Resized(set, key)
           V == {x \in SetRecords : /\ Set!Holds(x, Set!Elements(x))
                                    /\ Len(x.lookup) = Len(base.lookup)}
           last == [t \in SUBSET (1 .. n) |-> Max(t)]
           step == [i \in 1 .. n |-> [v \in V |-> Set!Mark(v, batch[i])]]
           IsRun(g) ==
             g = [t \in SUBSET (1 .. n) |->
                    IF t = {} THEN base
                    ELSE Set!Mark(g[t \ {Max(t)}], batch[Max(t)])]
           c == CHOOSE g : IsRun(g)
<1>0. n \in Nat /\ DOMAIN batch = 1 .. n /\ \A i \in 1 .. n : batch[i] \in Nat OBVIOUS
<1>1. Set!Filled(set, batch) = c[1 .. n]
  BY <1>0 DEF Set!Filled, Set!FoldLeft, Set!MapThenFoldSet, Set!Max, Max
<1>2. key \in Nat /\ \A i \in 1 .. n : batch[i] <= key BY GreatestMember
<1>20. /\ base \in V /\ Set!Elements(base) = Set!Elements(set)
       /\ key \div bits < Len(base.lookup)
  <2>1. set \in SetRecords /\ Set!Holds(set, Set!Elements(set)) BY DEF SetOK
  <2> HIDE DEF key
  <2> QED BY <1>2, <2>1, ResizedKeeps DEF Set!Holds
<1>3. \A v \in V : \A i \in 1 .. n :
        /\ Set!Mark(v, batch[i]) \in V
        /\ Set!Elements(Set!Mark(v, batch[i])) = Set!Elements(v) \cup {batch[i]}
  <2> SUFFICES ASSUME NEW v \in V, NEW i \in 1 .. n
               PROVE  /\ Set!Mark(v, batch[i]) \in V
                      /\ Set!Elements(Set!Mark(v, batch[i])) = Set!Elements(v) \cup {batch[i]}
    OBVIOUS
  <2>1. v \in SetRecords /\ SetOK(v) /\ Len(v.lookup) = Len(base.lookup) BY DEF SetOK
  <2> HIDE DEF base, key
  <2>2. batch[i] \div bits < Len(v.lookup) BY <1>0, <1>2, <1>20, <2>1, RoomBelow
  <2>3. /\ SetOK(Set!Mark(v, batch[i]))
        /\ Len(Set!Mark(v, batch[i]).lookup) = Len(v.lookup)
        /\ Set!Elements(Set!Mark(v, batch[i])) = Set!Elements(v) \cup {batch[i]}
    BY <1>0, <2>1, <2>2, MarkAdds
  <2> QED BY <2>1, <2>3 DEF SetOK
<1>4. step \in StepsOver(1 .. n, V)
  <2> HIDE DEF V, n
  <2> QED BY <1>3 DEF StepsOver
<1>5. PICK g : IsFold(g, 1 .. n, V, base, step, last)
  <2> HIDE DEF step, V, n, base
  <2> QED BY <1>0, <1>20, <1>4, FoldLeftExists
<1>6. /\ g \in [SUBSET (1 .. n) -> V]
      /\ \A t \in SUBSET (1 .. n) :
            g[t] = IF t = {} THEN base ELSE step[Max(t)][g[t \ {Max(t)}]]
  BY <1>5 DEF IsFold
<1>7. ASSUME NEW t \in SUBSET (1 .. n), t # {}
      PROVE  g[t] = Set!Mark(g[t \ {Max(t)}], batch[Max(t)])
  <2>1. Max(t) \in 1 .. n BY <1>0, <1>7, LastMember
  <2>2. g[t \ {Max(t)}] \in V
    <3> HIDE DEF V, n
    <3> QED BY <1>6
  <2> HIDE DEF V, n, base
  <2> QED BY <1>6, <1>7, <2>1, <2>2
<1>8. IsRun(g)
  <2> HIDE DEF V, n, base
  <2> QED BY <1>6, <1>7
<1>9. IsRun(c)
  <2> HIDE DEF IsRun
  <2> QED BY <1>8
<1> HIDE DEF c
<1>10. c[{}] = base
  <2> HIDE DEF base, n
  <2> QED BY <1>9
<1>11. ASSUME NEW i \in 1 .. n PROVE c[1 .. i] = Set!Mark(c[1 .. (i - 1)], batch[i])
  <2>1. Max(1 .. i) = i /\ (1 .. i) \ {i} = 1 .. (i - 1) BY <1>0, LastIndex
  <2> HIDE DEF base, n
  <2>0. n \in Nat /\ i \in 1 .. n BY <1>0
  <2>3. i \in 1 .. i BY <2>0
  <2>4. \A j \in 1 .. i : j \in 1 .. n BY <2>0
  <2>2. 1 .. i \in SUBSET (1 .. n) /\ 1 .. i # {} BY <2>3, <2>4
  <2> QED BY <1>9, <2>1, <2>2
<1> HIDE DEF base, n, V
<1> DEFINE T == {i \in 0 .. n :
                   /\ c[1 .. i] \in V
                   /\ Set!Elements(c[1 .. i]) = Set!Elements(set) \cup {batch[j] : j \in 1 .. i}}
<1>12. 0 \in T
  <2> 1 .. 0 = {} /\ 0 \in 0 .. n BY <1>0
  <2> QED BY <1>10, <1>20
<1>13. ASSUME NEW i \in 1 .. n, i - 1 \in T PROVE i \in T
  <2>1. 1 .. i = (1 .. (i - 1)) \cup {i} /\ i \in 0 .. n BY <1>0
  <2>2. /\ c[1 .. i] \in V
        /\ Set!Elements(c[1 .. i]) = Set!Elements(c[1 .. (i - 1)]) \cup {batch[i]}
    BY <1>3, <1>11, <1>13
  <2>3. {batch[j] : j \in 1 .. i} = {batch[j] : j \in 1 .. (i - 1)} \cup {batch[i]}
    BY <2>1
  <2> QED BY <1>13, <2>1, <2>2, <2>3
<1>14. n \in T
  <2> HIDE DEF T
  <2>1. 0 .. n \subseteq T BY <1>0, <1>12, <1>13, BoundedInduction
  <2> QED BY <1>0, <2>1
<1>15. Set!ToSet(batch) = {batch[j] : j \in 1 .. n} BY <1>0 DEF Set!ToSet
<1> QED BY <1>1, <1>14, <1>15 DEF V, SetOK

\* A fold over a set that inserts: every member was inserted once.
LEMMA MarksAll ==
  ASSUME Bitsets, NEW set, SetOK(set), NEW S \in SUBSET Nat, IsFiniteSet(S),
         \A k \in S : k \div bits < Len(set.lookup)
  PROVE  /\ SetOK(Set!FoldSet(LAMBDA k, c : Set!Mark(c, k), set, S))
         /\ Set!Elements(Set!FoldSet(LAMBDA k, c : Set!Mark(c, k), set, S)) = Set!Elements(set) \cup S
<1> DEFINE V == {x \in SetRecords : /\ Set!Holds(x, Set!Elements(x))
                                    /\ Len(x.lookup) = Len(set.lookup)}
           pick == [s \in SUBSET S |-> CHOOSE x \in s : TRUE]
           step == [k \in S |-> [v \in V |-> Set!Mark(v, k)]]
           IsRun(g) ==
             g = [s \in SUBSET S |->
                    IF s = {} THEN set
                    ELSE Set!Mark(g[s \ {CHOOSE x \in s : TRUE}], CHOOSE x \in s : TRUE)]
           r == CHOOSE g : IsRun(g)
<1>1. Set!FoldSet(LAMBDA k, c : Set!Mark(c, k), set, S) = r[S] BY DEF Set!FoldSet, Set!MapThenFoldSet, Set!Max, Max
<1>2. set \in V BY DEF SetOK
<1>3. \A v \in V : \A k \in S :
        Set!Mark(v, k) \in V /\ Set!Elements(Set!Mark(v, k)) = Set!Elements(v) \cup {k}
  <2> SUFFICES ASSUME NEW v \in V, NEW k \in S
               PROVE  Set!Mark(v, k) \in V /\ Set!Elements(Set!Mark(v, k)) = Set!Elements(v) \cup {k}
    OBVIOUS
  <2>1. v \in SetRecords /\ SetOK(v) /\ k \div bits < Len(v.lookup) BY DEF SetOK
  <2>2. k \in Nat OBVIOUS
  <2>3. /\ SetOK(Set!Mark(v, k))
        /\ Len(Set!Mark(v, k).lookup) = Len(v.lookup)
        /\ Set!Elements(Set!Mark(v, k)) = Set!Elements(v) \cup {k}
    BY <2>1, <2>2, MarkAdds
  <2> QED BY <2>1, <2>3 DEF SetOK
<1>4. step \in StepsOver(S, V)
  <2> HIDE DEF V
  <2> QED BY <1>3 DEF StepsOver
<1>5. \A s \in SUBSET S : s # {} => pick[s] \in s OBVIOUS
<1>6. PICK g : IsFold(g, S, V, set, step, pick)
  <2> HIDE DEF pick, step, V
  <2> QED BY <1>2, <1>4, <1>5, FoldExists
<1>7. /\ g \in [SUBSET S -> V]
      /\ \A s \in SUBSET S : g[s] = IF s = {} THEN set ELSE step[pick[s]][g[s \ {pick[s]}]]
  BY <1>6 DEF IsFold
<1>8. ASSUME NEW s \in SUBSET S, s # {}
      PROVE  g[s] = Set!Mark(g[s \ {CHOOSE x \in s : TRUE}], CHOOSE x \in s : TRUE)
  <2>1. pick[s] = (CHOOSE x \in s : TRUE) /\ pick[s] \in S BY <1>5, <1>8
  <2>2. g[s \ {pick[s]}] \in V
    <3> HIDE DEF V, pick
    <3> QED BY <1>7
  <2>3. step[pick[s]][g[s \ {pick[s]}]] = Set!Mark(g[s \ {pick[s]}], pick[s])
    <3> HIDE DEF V, pick
    <3> QED BY <2>1, <2>2
  <2>4. g[s] = step[pick[s]][g[s \ {pick[s]}]] BY <1>7, <1>8
  <2> HIDE DEF pick, step, V
  <2> QED BY <2>1, <2>3, <2>4
<1>9. IsRun(g)
  <2> HIDE DEF V, pick, step
  <2> QED BY <1>7, <1>8
<1>10. IsRun(r)
  <2> HIDE DEF IsRun
  <2> QED BY <1>9
<1> HIDE DEF r
<1>11. \A s \in SUBSET S :
         r[s] = IF s = {} THEN set
                ELSE Set!Mark(r[s \ {CHOOSE x \in s : TRUE}], CHOOSE x \in s : TRUE)
  BY <1>10
<1> HIDE DEF V, IsRun
<1> DEFINE T == {s \in SUBSET S : r[s] \in V /\ Set!Elements(r[s]) = Set!Elements(set) \cup s}
<1>12. {} \in T BY <1>2, <1>11
<1>13. ASSUME NEW s \in SUBSET S, s # {}
       PROVE  \E x \in s : s \ {x} \in T => s \in T
  <2> DEFINE x == CHOOSE x \in s : TRUE
  <2>1. x \in s /\ x \in S BY <1>13
  <2>2. r[s] = Set!Mark(r[s \ {x}], x) BY <1>11, <1>13
  <2> HIDE DEF x
  <2>3. ASSUME s \ {x} \in T PROVE s \in T
    <3>1. r[s \ {x}] \in V /\ Set!Elements(r[s \ {x}]) = Set!Elements(set) \cup (s \ {x})
      BY <2>3
    <3> DEFINE v == r[s \ {x}]
    <3>4. v \in V BY <3>1
    <3> HIDE DEF v
    <3>5. Set!Mark(v, x) \in V /\ Set!Elements(Set!Mark(v, x)) = Set!Elements(v) \cup {x}
      BY <1>3, <2>1, <3>4
    <3>2. r[s] \in V /\ Set!Elements(r[s]) = (Set!Elements(set) \cup (s \ {x})) \cup {x}
      BY <2>2, <3>1, <3>5 DEF v
    <3>3. Set!Elements(r[s]) = Set!Elements(set) \cup s BY <2>1, <3>2
    <3> QED BY <3>2, <3>3
  <2> QED BY <2>1, <2>3
<1>14. S \in T
  <2> HIDE DEF T
  <2>1. SUBSET S \subseteq T BY <1>12, <1>13, SubsetInduction
  <2> QED BY <2>1
<1> QED BY <1>1, <1>14 DEF V, SetOK

\* A fold over a set that erases: every member was erased once.
LEMMA ErasesAll ==
  ASSUME Bitsets, NEW set, SetOK(set), NEW S \in SUBSET Nat, IsFiniteSet(S)
  PROVE  /\ SetOK(Set!FoldSet(LAMBDA k, c : Set!Erased(c, k), set, S))
         /\ Set!Elements(Set!FoldSet(LAMBDA k, c : Set!Erased(c, k), set, S)) = Set!Elements(set) \ S
<1> DEFINE V == {x \in SetRecords : /\ Set!Holds(x, Set!Elements(x))
                                    /\ Len(x.lookup) = Len(set.lookup)}
           pick == [s \in SUBSET S |-> CHOOSE x \in s : TRUE]
           step == [k \in S |-> [v \in V |-> Set!Erased(v, k)]]
           IsRun(g) ==
             g = [s \in SUBSET S |->
                    IF s = {} THEN set
                    ELSE Set!Erased(g[s \ {CHOOSE x \in s : TRUE}], CHOOSE x \in s : TRUE)]
           r == CHOOSE g : IsRun(g)
<1>1. Set!FoldSet(LAMBDA k, c : Set!Erased(c, k), set, S) = r[S] BY DEF Set!FoldSet, Set!MapThenFoldSet, Set!Max, Max
<1>2. set \in V BY DEF SetOK
<1>3. \A v \in V : \A k \in S :
        Set!Erased(v, k) \in V /\ Set!Elements(Set!Erased(v, k)) = Set!Elements(v) \ {k}
  <2> SUFFICES ASSUME NEW v \in V, NEW k \in S
               PROVE  Set!Erased(v, k) \in V /\ Set!Elements(Set!Erased(v, k)) = Set!Elements(v) \ {k}
    OBVIOUS
  <2>1. v \in SetRecords /\ SetOK(v) BY DEF SetOK
  <2>2. k \in Nat OBVIOUS
  <2>3. /\ SetOK(Set!Erased(v, k))
        /\ Len(Set!Erased(v, k).lookup) = Len(v.lookup)
        /\ Set!Elements(Set!Erased(v, k)) = Set!Elements(v) \ {k}
    BY <2>1, <2>2, ErasedRemoves
  <2> QED BY <2>1, <2>3 DEF SetOK
<1>4. step \in StepsOver(S, V)
  <2> HIDE DEF V
  <2> QED BY <1>3 DEF StepsOver
<1>5. \A s \in SUBSET S : s # {} => pick[s] \in s OBVIOUS
<1>6. PICK g : IsFold(g, S, V, set, step, pick)
  <2> HIDE DEF pick, step, V
  <2> QED BY <1>2, <1>4, <1>5, FoldExists
<1>7. /\ g \in [SUBSET S -> V]
      /\ \A s \in SUBSET S : g[s] = IF s = {} THEN set ELSE step[pick[s]][g[s \ {pick[s]}]]
  BY <1>6 DEF IsFold
<1>8. ASSUME NEW s \in SUBSET S, s # {}
      PROVE  g[s] = Set!Erased(g[s \ {CHOOSE x \in s : TRUE}], CHOOSE x \in s : TRUE)
  <2>1. pick[s] = (CHOOSE x \in s : TRUE) /\ pick[s] \in S BY <1>5, <1>8
  <2>2. g[s \ {pick[s]}] \in V
    <3> HIDE DEF V, pick
    <3> QED BY <1>7
  <2>3. step[pick[s]][g[s \ {pick[s]}]] = Set!Erased(g[s \ {pick[s]}], pick[s])
    <3> HIDE DEF V, pick
    <3> QED BY <2>1, <2>2
  <2>4. g[s] = step[pick[s]][g[s \ {pick[s]}]] BY <1>7, <1>8
  <2> HIDE DEF pick, step, V
  <2> QED BY <2>1, <2>3, <2>4
<1>9. IsRun(g)
  <2> HIDE DEF V, pick, step
  <2> QED BY <1>7, <1>8
<1>10. IsRun(r)
  <2> HIDE DEF IsRun
  <2> QED BY <1>9
<1> HIDE DEF r
<1>11. \A s \in SUBSET S :
         r[s] = IF s = {} THEN set
                ELSE Set!Erased(r[s \ {CHOOSE x \in s : TRUE}], CHOOSE x \in s : TRUE)
  BY <1>10
<1> HIDE DEF V, IsRun
<1> DEFINE T == {s \in SUBSET S : r[s] \in V /\ Set!Elements(r[s]) = Set!Elements(set) \ s}
<1>12. {} \in T BY <1>2, <1>11
<1>13. ASSUME NEW s \in SUBSET S, s # {}
       PROVE  \E x \in s : s \ {x} \in T => s \in T
  <2> DEFINE x == CHOOSE x \in s : TRUE
  <2>1. x \in s /\ x \in S BY <1>13
  <2>2. r[s] = Set!Erased(r[s \ {x}], x) BY <1>11, <1>13
  <2> HIDE DEF x
  <2>3. ASSUME s \ {x} \in T PROVE s \in T
    <3>1. r[s \ {x}] \in V /\ Set!Elements(r[s \ {x}]) = Set!Elements(set) \ (s \ {x})
      BY <2>3
    <3> DEFINE v == r[s \ {x}]
    <3>4. v \in V BY <3>1
    <3> HIDE DEF v
    <3>5. Set!Erased(v, x) \in V /\ Set!Elements(Set!Erased(v, x)) = Set!Elements(v) \ {x}
      BY <1>3, <2>1, <3>4
    <3>2. r[s] \in V /\ Set!Elements(r[s]) = (Set!Elements(set) \ (s \ {x})) \ {x}
      BY <2>2, <3>1, <3>5 DEF v
    <3>3. Set!Elements(r[s]) = Set!Elements(set) \ s BY <2>1, <3>2
    <3> QED BY <3>2, <3>3
  <2> QED BY <2>1, <2>3
<1>14. S \in T
  <2> HIDE DEF T
  <2>1. SUBSET S \subseteq T BY <1>12, <1>13, SubsetInduction
  <2> QED BY <2>1
<1> QED BY <1>1, <1>14 DEF V, SetOK

\* merge moves over what the other set has and this one has not.
LEMMA MergedTakes ==
  ASSUME Bitsets, NEW to, SetOK(to), NEW from, SetOK(from)
  PROVE  /\ SetOK(Set!Merged(to, from).to) /\ SetOK(Set!Merged(to, from).from)
         /\ Set!Elements(Set!Merged(to, from).to) = Set!Elements(to) \cup Set!Elements(from)
         /\ Set!Elements(Set!Merged(to, from).from) = Set!Elements(to) \cap Set!Elements(from)
<1> DEFINE stolen == {k \in Set!Elements(from) : ~Set!Has(to, k)}
           room == IF from.lookup = <<>> THEN to ELSE Set!Resized(to, Set!End(from) - 1)
<1>0. to \in SetRecords /\ from \in SetRecords BY DEF SetOK
<1>1. /\ Set!Elements(to) = {k \in Nat : Set!Has(to, k)}
      /\ Set!Elements(from) = {k \in Nat : Set!Has(from, k)}
      /\ \A k \in Set!Elements(from) : k < Set!End(from)
      /\ IsFiniteSet(Set!Elements(from)) /\ Set!End(from) \in Nat
  BY <1>0, SetElementsAre
<1>2. stolen = Set!Elements(from) \ Set!Elements(to) BY <1>1
<1>3. stolen \in SUBSET Nat /\ IsFiniteSet(stolen)
  <2>1. stolen \in SUBSET Set!Elements(from) OBVIOUS
  <2> HIDE DEF stolen
  <2> QED BY <1>1, <2>1, FS_Subset
<1>4. /\ SetOK(room) /\ Set!Elements(room) = Set!Elements(to)
      /\ \A k \in stolen : k \div bits < Len(room.lookup)
  <2>1. CASE from.lookup = <<>>
    <3>1. Set!End(from) = 0 BY <2>1 DEF Set!End, Bitsets
    <3>2. stolen = {} BY <1>1, <3>1
    <3>3. room = to BY <2>1
    <3> HIDE DEF stolen, room
    <3> QED BY <3>2, <3>3
  <2>2. CASE from.lookup # <<>>
    <3> DEFINE key == Set!End(from) - 1
    <3>1. key \in Nat
      <4>1. Len(from.lookup) \in Nat \ {0} BY <1>0, <2>2 DEF SetRecords
      <4>2. Set!End(from) # 0 BY <4>1 DEF Set!End, Bitsets
      <4> QED BY <1>1, <4>2
    <3>2. room = Set!Resized(to, key) BY <2>2
    <3>3. \A k \in stolen : k \in Nat /\ k <= key BY <1>1
    <3> HIDE DEF key, room, stolen
    <3>4. /\ room \in SetRecords
          /\ key \div bits < Len(room.lookup)
          /\ Set!Elements(room) = Set!Elements(to)
          /\ room.size = to.size
      BY <1>0, <3>1, <3>2, ResizedKeeps
    <3>5. SetOK(room) BY <3>4 DEF SetOK, Set!Holds
    <3>6. \A k \in stolen : k \div bits < Len(room.lookup)
      BY <3>1, <3>3, <3>4, RoomBelow
    <3> QED BY <3>4, <3>5, <3>6
  <2> QED BY <2>1, <2>2
<1>5. /\ Set!Merged(to, from).to = Set!FoldSet(LAMBDA k, c : Set!Mark(c, k), room, stolen)
      /\ Set!Merged(to, from).from = Set!FoldSet(LAMBDA k, c : Set!Erased(c, k), from, stolen)
  BY DEF Set!Merged
<1> HIDE DEF stolen, room
<1>6. /\ SetOK(Set!FoldSet(LAMBDA k, c : Set!Mark(c, k), room, stolen))
      /\ Set!Elements(Set!FoldSet(LAMBDA k, c : Set!Mark(c, k), room, stolen)) = Set!Elements(room) \cup stolen
  BY <1>3, <1>4, MarksAll
<1>7. /\ SetOK(Set!FoldSet(LAMBDA k, c : Set!Erased(c, k), from, stolen))
      /\ Set!Elements(Set!FoldSet(LAMBDA k, c : Set!Erased(c, k), from, stolen)) = Set!Elements(from) \ stolen
  BY <1>3, ErasesAll
<1> QED BY <1>2, <1>4, <1>5, <1>6, <1>7

-----------------------------------------------------------------------------
(* What the operations leave.                                              *)

\* A range or a loop that is erased by iterator.
LEMMA RangesErase ==
  ASSUME Bitsets, NEW set, SetOK(set)
  PROVE  /\ \A first, last \in Set!Positions(set) : first < last =>
              /\ SetOK(Set!ErasedRange(set, first, last))
              /\ Set!Elements(Set!ErasedRange(set, first, last)) =
                   Set!Elements(set) \ (first .. last - 1)
         /\ \A Unwanted : /\ SetOK(Set!Pruned(set, Unwanted))
                          /\ Set!Elements(Set!Pruned(set, Unwanted)) = Set!Elements(set) \ Unwanted
<1>0. set \in SetRecords /\ Set!End(set) \in Nat /\ Set!End(set) \in Set!Positions(set)
  BY SetElementsAre DEF SetOK, Set!Positions
<1>1. ASSUME NEW first \in Set!Positions(set), NEW last \in Set!Positions(set), first < last
      PROVE  /\ SetOK(Set!ErasedRange(set, first, last))
             /\ Set!Elements(Set!ErasedRange(set, first, last)) = Set!Elements(set) \ (first .. last - 1)
  <2>1. first \in Nat /\ last \in Nat BY <1>0, SetElementsAre DEF Set!Positions
  <2>2. first <= last BY <1>1, <2>1
  <2> DEFINE W == first .. last
  <2>3. W \cap (first .. last - 1) = first .. last - 1 BY <2>1
  <2> HIDE DEF W
  <2>4. /\ SetOK(Set!Loop(set, first, last, W))
        /\ Set!Elements(Set!Loop(set, first, last, W)) = Set!Elements(set) \ (W \cap first .. last - 1)
    BY <2>2, SetLoopErases
  <2> QED BY <2>3, <2>4 DEF Set!ErasedRange, W
<1>2. ASSUME NEW Unwanted
      PROVE  /\ SetOK(Set!Pruned(set, Unwanted))
             /\ Set!Elements(Set!Pruned(set, Unwanted)) = Set!Elements(set) \ Unwanted
  <2>1. /\ Set!Begin(set) \in 0 .. Set!End(set) /\ Set!Begin(set) \in Set!Positions(set)
        /\ \A k \in Set!Elements(set) : k >= Set!Begin(set)
    BY <1>0, BeginIs
  <2>2. /\ SetOK(Set!Loop(set, Set!Begin(set), Set!End(set), Unwanted))
        /\ Set!Elements(Set!Loop(set, Set!Begin(set), Set!End(set), Unwanted)) =
             Set!Elements(set) \ (Unwanted \cap Set!Begin(set) .. Set!End(set) - 1)
    BY <1>0, <2>1, SetLoopErases
  <2>3. \A k \in Set!Elements(set) : k \in Set!Begin(set) .. Set!End(set) - 1
    BY <1>0, <2>1, SetElementsAre
  <2>4. Set!Elements(set) \ (Unwanted \cap Set!Begin(set) .. Set!End(set) - 1) = Set!Elements(set) \ Unwanted
    BY <2>3
  <2> QED BY <2>2, <2>4 DEF Set!Pruned
<1> QED BY <1>1, <1>2

\* insert of a key, with the room it makes.
LEMMA InsertAdds ==
  ASSUME Bitsets, NEW set, SetOK(set), NEW key \in Nat
  PROVE  /\ SetOK(Set!Mark(Set!Resized(set, key), key))
         /\ Set!Elements(Set!Mark(Set!Resized(set, key), key)) = Set!Elements(set) \cup {key}
<1>1. /\ Set!Resized(set, key) \in SetRecords
      /\ key \div bits < Len(Set!Resized(set, key).lookup)
      /\ Set!Elements(Set!Resized(set, key)) = Set!Elements(set)
      /\ Set!Resized(set, key).size = set.size
  BY ResizedKeeps DEF SetOK
<1>2. SetOK(Set!Resized(set, key)) BY <1>1 DEF SetOK, Set!Holds
<1> QED BY <1>1, <1>2, MarkAdds

\* The sets that were not moved from count their keys; the others are made of
\* bitsets.
SetsInv ==
  /\ Bitsets
  /\ movedFrom \subseteq Sets
  /\ sets \in [Sets -> SetRecords]
  /\ \A s \in Sets \ movedFrom : SetOK(sets[s])

\* A set has no key at first, or when it is cleared.
LEMMA EmptySetOK == ASSUME Bitsets PROVE SetOK(Set!EmptySet)
<1> DEFINE e == Set!EmptySet
<1>1. e.lookup = <<>> /\ e.size = 0 BY DEF Set!EmptySet
<1>2. e \in SetRecords BY DEF Set!EmptySet, SetRecords
<1>3. Set!End(e) = 0 BY <1>1 DEF Set!End, Bitsets
<1> HIDE DEF e
<1>4. Set!Elements(e) = {} BY <1>2, <1>3, SetElementsAre
<1> QED BY <1>1, <1>2, <1>4, FS_EmptySet, SameCount DEF SetOK, Set!Holds, e

\* Empty sets are in order.
LEMMA InitSets == Set!SetsAssumption /\ Set!Init => SetsInv
<1> SUFFICES ASSUME Set!SetsAssumption, Set!Init PROVE SetsInv OBVIOUS
<1>1. Bitsets BY DEF Set!SetsAssumption, Set!Init, Bitsets
<1>2. SetOK(Set!EmptySet) /\ Set!EmptySet \in SetRecords BY <1>1, EmptySetOK DEF SetOK
<1> HIDE DEF Bitsets
<1> QED BY <1>1, <1>2 DEF Set!Init, SetsInv

\* An operation on one set that leaves a set keeps the invariant.
LEMMA BecomesKeeps ==
  ASSUME SetsInv, UNCHANGED bits, NEW s \in Sets, NEW set, SetOK(set), Set!Becomes(s, set)
  PROVE  SetsInv'
<1>1. Bitsets' /\ SetRecords' = SetRecords BY DEF SetsInv, Bitsets, SetRecords
<1>2. \A x : SetOK(x)' <=> SetOK(x)
  BY <1>1 DEF SetOK, Set!Holds, Set!Elements, Set!End, Set!Has
<1>3. set \in SetRecords BY DEF SetOK
<1>4. /\ sets' = [sets EXCEPT ![s] = set] /\ movedFrom' = movedFrom \ {s}
      /\ sets \in [Sets -> SetRecords] /\ movedFrom \subseteq Sets
      /\ \A x \in Sets \ movedFrom : SetOK(sets[x])
  BY DEF Set!Becomes, SetsInv
<1>5. \A x \in Sets \ movedFrom' : SetOK(sets'[x])
  <2> TAKE x \in Sets \ movedFrom'
  <2>1. CASE x = s BY <1>4, <2>1
  <2>2. CASE x # s BY <1>4, <2>2
  <2> QED BY <2>1, <2>2
<1>6. sets' \in [Sets -> SetRecords] BY <1>3, <1>4
<1> QED BY <1>1, <1>2, <1>4, <1>5, <1>6 DEF SetsInv


\* No operation leaves a usable set out of order.
LEMMA SetsStep == Set!SetsAssumption /\ SetsInv /\ [Set!Next]_setVars => SetsInv'
<1> SUFFICES ASSUME Set!SetsAssumption, SetsInv, [Set!Next]_setVars PROVE SetsInv' OBVIOUS
<1>1. CASE UNCHANGED setVars
  BY <1>1 DEF setVars, SetsInv, Bitsets, SetRecords, SetOK, Set!Holds, Set!Elements, Set!End, Set!Has
<1>2. CASE Set!Next
  <2>0. /\ UNCHANGED bits /\ Bitsets
        /\ sets \in [Sets -> SetRecords] /\ movedFrom \subseteq Sets
        /\ \A x \in Sets \ movedFrom : SetOK(sets[x])
    BY <1>2 DEF Set!Next, SetsInv
  <2>1. \A x : SetOK(x)' <=> SetOK(x)
    BY <2>0 DEF SetOK, Set!Holds, Set!Elements, Set!End, Set!Has, SetRecords
  <2>2. SetRecords' = SetRecords /\ Bitsets' BY <2>0 DEF SetRecords, Bitsets
  <2>3. \A s \in Sets : Set!Usable(s) => SetOK(sets[s]) BY <2>0 DEF Set!Usable
  <2>4. ASSUME NEW s \in Sets, NEW key \in SetKeys, Set!Insert(s, key) PROVE SetsInv'
    <3> key \in Nat BY DEF Set!SetsAssumption
    <3> QED BY <2>0, <2>3, <2>4, InsertAdds, BecomesKeeps DEF Set!Insert
  <2>5. ASSUME NEW s \in Sets, NEW key \in SetKeys, Set!Erase(s, key) PROVE SetsInv'
    <3> key \in Nat BY DEF Set!SetsAssumption
    <3> QED BY <2>0, <2>3, <2>5, ErasedRemoves, BecomesKeeps DEF Set!Erase
  <2>6. ASSUME NEW s \in Sets, NEW batch \in Batches, Set!InsertBatch(s, batch) PROVE SetsInv'
    <3> batch \in Seq(Nat) /\ batch # <<>> BY DEF Set!SetsAssumption
    <3> QED BY <2>0, <2>3, <2>6, FilledAdds, BecomesKeeps DEF Set!InsertBatch
  <2>7. ASSUME NEW s \in Sets, NEW first, NEW last, Set!EraseRange(s, first, last)
        PROVE  SetsInv'
    <3>1. first \in Set!Positions(sets[s]) /\ last \in Set!Positions(sets[s]) /\ first < last
      BY <2>7 DEF Set!EraseRange
    <3> QED BY <2>0, <2>3, <2>7, <3>1, RangesErase, BecomesKeeps DEF Set!EraseRange
  <2>8. ASSUME NEW s \in Sets, NEW Unwanted, Set!Prune(s, Unwanted) PROVE SetsInv'
    BY <2>0, <2>3, <2>8, RangesErase, BecomesKeeps DEF Set!Prune
  <2>9. ASSUME NEW s \in Sets, Set!Clear(s) PROVE SetsInv'
    BY <2>0, <2>9, EmptySetOK, BecomesKeeps DEF Set!Clear
  <2>10. ASSUME NEW s \in Sets, NEW other \in Sets, Set!Merge(s, other) PROVE SetsInv'
    <3> DEFINE m == Set!Merged(sets[s], sets[other])
    <3>1. s # other /\ SetOK(sets[s]) /\ SetOK(sets[other]) BY <2>3, <2>10 DEF Set!Merge
    <3>2. SetOK(m.to) /\ SetOK(m.from) BY <2>0, <3>1, MergedTakes
    <3>3. /\ sets' = [sets EXCEPT ![s] = m.to, ![other] = m.from]
          /\ movedFrom' = movedFrom
      BY <2>10 DEF Set!Merge
    <3> HIDE DEF m
    <3>4. \A x \in Sets : sets'[x] = IF x = other THEN m.from
                                     ELSE IF x = s THEN m.to ELSE sets[x]
      BY <2>0, <3>3
    <3>5. m.to \in SetRecords /\ m.from \in SetRecords BY <3>2 DEF SetOK
    <3>6. sets' \in [Sets -> SetRecords] BY <2>0, <3>3, <3>5
    <3>7. \A x \in Sets \ movedFrom' : SetOK(sets'[x]) BY <2>0, <3>2, <3>3, <3>4
    <3> QED BY <2>0, <2>1, <2>2, <3>3, <3>6, <3>7 DEF SetsInv
  <2>11. ASSUME NEW s \in Sets, NEW other \in Sets, Set!Swap(s, other) PROVE SetsInv'
    <3>1. SetOK(sets[s]) /\ SetOK(sets[other]) BY <2>3, <2>11 DEF Set!Swap
    <3>2. /\ sets' = [sets EXCEPT ![s] = sets[other], ![other] = sets[s]]
          /\ movedFrom' = movedFrom
      BY <2>11 DEF Set!Swap
    <3>3. sets' \in [Sets -> SetRecords] BY <2>0, <3>2
    <3>4. \A x \in Sets \ movedFrom' : SetOK(sets'[x]) BY <2>0, <3>1, <3>2
    <3> QED BY <2>0, <2>1, <2>2, <3>2, <3>3, <3>4 DEF SetsInv
  <2>12. ASSUME NEW s \in Sets, NEW other \in Sets, Set!Copy(s, other) PROVE SetsInv'
    BY <2>0, <2>3, <2>12, BecomesKeeps DEF Set!Copy
  <2>13. ASSUME NEW s \in Sets, NEW other \in Sets, Set!Move(s, other) PROVE SetsInv'
    <3>1. s # other /\ SetOK(sets[other]) BY <2>3, <2>13 DEF Set!Move
    <3>2. /\ sets' = [sets EXCEPT ![s] = sets[other], ![other].lookup = <<>>]
          /\ movedFrom' = (movedFrom \ {s}) \cup {other}
      BY <2>13 DEF Set!Move
    <3> DEFINE rest == [sets[other] EXCEPT !.lookup = <<>>]
    <3>3. rest \in SetRecords
      <4>1. sets[other] \in SetRecords BY <2>0
      <4>2. rest = [lookup |-> <<>>, size |-> sets[other].size] BY <4>1, PartsAssigned
      <4>3. sets[other].size \in Nat BY <4>1 DEF SetRecords
      <4> DEFINE e == <<>>
                 S == SUBSET (0 .. bits - 1)
      <4>4. e \in Seq(S) OBVIOUS
      <4>5. rest = [lookup |-> e, size |-> sets[other].size] BY <4>2
      <4> HIDE DEF e, S, rest
      <4>6. rest \in [lookup : Seq(S), size : Nat] BY <4>3, <4>4, <4>5
      <4> QED BY <4>6 DEF SetRecords, S
    <3>4. sets' = [sets EXCEPT ![s] = sets[other], ![other] = rest] BY <2>0, <3>1, <3>2
    <3> HIDE DEF rest
    <3>5. sets' \in [Sets -> SetRecords] BY <2>0, <3>3, <3>4
    <3>6. \A x \in Sets \ movedFrom' : SetOK(sets'[x])
      <4> TAKE x \in Sets \ movedFrom'
      <4>1. x # other BY <3>2
      <4>2. CASE x = s BY <2>0, <3>1, <3>4, <4>1, <4>2
      <4>3. CASE x # s
        <5>1. x \notin movedFrom /\ sets'[x] = sets[x] BY <2>0, <3>2, <3>4, <4>1, <4>3
        <5> QED BY <2>0, <5>1
      <4> QED BY <4>2, <4>3
    <3> QED BY <2>0, <2>1, <2>2, <3>2, <3>5, <3>6 DEF SetsInv
  <2>14. \E s \in Sets :
           \/ \E key \in SetKeys : Set!Insert(s, key) \/ Set!Erase(s, key)
           \/ \E batch \in Batches : Set!InsertBatch(s, batch)
           \/ \E first, last \in Set!Positions(sets[s]) : Set!EraseRange(s, first, last)
           \/ \E Unwanted \in SUBSET SetKeys : Set!Prune(s, Unwanted)
           \/ Set!Clear(s)
           \/ \E other \in Sets :
                Set!Merge(s, other) \/ Set!Swap(s, other) \/ Set!Copy(s, other) \/ Set!Move(s, other)
    BY <1>2 DEF Set!Next
  <2> QED
    BY <2>4, <2>5, <2>6, <2>7, <2>8, <2>9, <2>10, <2>11, <2>12, <2>13, <2>14
<1> QED BY <1>1, <1>2

\* The sets that are not moved from have the keys that they count.
THEOREM SetsInvariance == ContainersSpec => []SetsInv
<1>1. ContainersInit => SetsInv BY SetsAssumption, InitSets DEF ContainersInit
<1>2. SetsInv /\ [ContainersNext]_containerVars => SetsInv'
  BY SetsAssumption, SetsStep, PartsStep
<1> QED BY <1>1, <1>2, PTL DEF ContainersSpec

\* What each operation leaves follows.
LEMMA InvGivesAsked == Set!SetsAssumption /\ SetsInv => Set!SetsAsAsked
<1> SUFFICES ASSUME Set!SetsAssumption, SetsInv, NEW s \in Sets \ movedFrom
             PROVE  LET set == sets[s]
                        old == Set!Elements(set)
                    IN  /\ Set!Holds(set, old)
                        /\ \A key \in SetKeys :
                             /\ Set!Holds(Set!Mark(Set!Resized(set, key), key), old \cup {key})
                             /\ Set!Holds(Set!Erased(set, key), old \ {key})
                        /\ \A batch \in Batches :
                             Set!Holds(Set!Filled(set, batch), old \cup Set!ToSet(batch))
                        /\ \A first, last \in Set!Positions(set) :
                             first < last =>
                               Set!Holds(Set!ErasedRange(set, first, last), old \ (first .. last - 1))
                        /\ \A Unwanted \in SUBSET old :
                             Set!Holds(Set!Pruned(set, Unwanted), old \ Unwanted)
                        /\ \A other \in Sets \ (movedFrom \cup {s}) :
                             LET them == Set!Elements(sets[other])
                             IN  /\ Set!Holds(Set!Merged(set, sets[other]).to, old \cup them)
                                 /\ Set!Holds(Set!Merged(set, sets[other]).from, old \cap them)
  BY DEF Set!SetsAsAsked
<1> DEFINE set == sets[s]
           old == Set!Elements(set)
<1>1. SetOK(set) /\ Bitsets BY DEF SetsInv
<1>2. \A x, batch : SetOK(x) /\ Set!Elements(x) = batch => Set!Holds(x, batch) BY DEF SetOK, Set!Holds
<1>3. Set!Holds(set, old) BY <1>1, <1>2
<1>4. ASSUME NEW key \in SetKeys
      PROVE  /\ Set!Holds(Set!Mark(Set!Resized(set, key), key), old \cup {key})
             /\ Set!Holds(Set!Erased(set, key), old \ {key})
  <2> key \in Nat BY DEF Set!SetsAssumption
  <2> HIDE DEF set
  <2> QED BY <1>1, <1>2, InsertAdds, ErasedRemoves
<1>5. ASSUME NEW batch \in Batches PROVE Set!Holds(Set!Filled(set, batch), old \cup Set!ToSet(batch))
  <2> batch \in Seq(Nat) /\ batch # <<>> BY DEF Set!SetsAssumption
  <2> HIDE DEF set
  <2> QED BY <1>1, <1>2, FilledAdds
<1>6. ASSUME NEW first \in Set!Positions(set), NEW last \in Set!Positions(set), first < last
      PROVE  Set!Holds(Set!ErasedRange(set, first, last), old \ (first .. last - 1))
  <2> HIDE DEF set
  <2> QED BY <1>1, <1>2, <1>6, RangesErase
<1>7. ASSUME NEW Unwanted PROVE Set!Holds(Set!Pruned(set, Unwanted), old \ Unwanted)
  <2> HIDE DEF set
  <2> QED BY <1>1, <1>2, RangesErase
<1>8. ASSUME NEW other \in Sets \ (movedFrom \cup {s})
      PROVE  /\ Set!Holds(Set!Merged(set, sets[other]).to, old \cup Set!Elements(sets[other]))
             /\ Set!Holds(Set!Merged(set, sets[other]).from, old \cap Set!Elements(sets[other]))
  <2>1. SetOK(sets[other]) BY DEF SetsInv
  <2> HIDE DEF set
  <2> QED BY <1>1, <1>2, <2>1, MergedTakes
<1> HIDE DEF set
<1>9. /\ \A key \in SetKeys : /\ Set!Holds(Set!Mark(Set!Resized(set, key), key), old \cup {key})
                           /\ Set!Holds(Set!Erased(set, key), old \ {key})
      /\ \A batch \in Batches : Set!Holds(Set!Filled(set, batch), old \cup Set!ToSet(batch))
      /\ \A first, last \in Set!Positions(set) : first < last =>
           Set!Holds(Set!ErasedRange(set, first, last), old \ (first .. last - 1))
      /\ \A Unwanted \in SUBSET old : Set!Holds(Set!Pruned(set, Unwanted), old \ Unwanted)
      /\ \A other \in Sets \ (movedFrom \cup {s}) :
           /\ Set!Holds(Set!Merged(set, sets[other]).to, old \cup Set!Elements(sets[other]))
           /\ Set!Holds(Set!Merged(set, sets[other]).from, old \cap Set!Elements(sets[other]))
  BY <1>4, <1>5, <1>6, <1>7, <1>8
<1> QED BY <1>3, <1>9 DEF set

\* On every set that insertions, erasures, merges and moves build, each
\* operation leaves the keys it is documented to leave, and counts them.
THEOREM SetsAsAskedCorrect == ContainersSpec => []SetsAsAsked
<1>1. SetsInv => SetsAsAsked BY SetsAssumption, InvGivesAsked DEF SetsAsAsked
<1> QED BY <1>1, SetsInvariance, PTL

-----------------------------------------------------------------------------
(* StackVector                                                              *)

\* What a slot holds.
Slots == Values \cup {Blank, Raw, Bad}
Datas == [1 .. StackSize -> Slots]

\* A vector: its elements are in front, the rest is raw memory.
VecRecords == [data : Datas, size : 0 .. StackSize]
VecOK(vec) ==
  /\ vec \in VecRecords
  /\ \A i \in 1 .. vec.size : vec.data[i] \in Values
  /\ trivial \/ \A i \in vec.size + 1 .. StackSize : vec.data[i] = Raw

-----------------------------------------------------------------------------
(* One slot after the other.                                               *)

\* A chain of moves, constructions, destructions or assignments.
Moves(run, data, places, by, n) ==
  /\ run[0] = data
  /\ \A i \in 0 .. n : run[i] \in Datas
  /\ \A i \in 1 .. n : run[i] = Vector!MoveOne(run[i - 1], places[i], places[i] + by)
  /\ Vector!MoveEach(data, places, by) = run[n]

Constructs(run, data, places, x, n) ==
  /\ run[0] = data
  /\ \A i \in 0 .. n : run[i] \in Datas
  /\ \A i \in 1 .. n : run[i] = Vector!Construct(run[i - 1], places[i], x)
  /\ Vector!ConstructEach(data, places, x) = run[n]

Destroys(run, data, places, n) ==
  /\ run[0] = data
  /\ \A i \in 0 .. n : run[i] \in Datas
  /\ \A i \in 1 .. n : run[i] = Vector!Destroy(run[i - 1], places[i])
  /\ Vector!DestroyEach(data, places) = run[n]

Assigns(run, data, pos, refs, n) ==
  /\ run[0] = data
  /\ \A i \in 0 .. n : run[i] \in Datas
  /\ \A i \in 1 .. n : run[i] = Vector!Assign(run[i - 1], pos + i - 1, Vector!Value(run[i - 1], refs[i]))
  /\ Vector!AssignEach(data, pos, refs) = run[n]

\* The places of a range.
LEMMA UpIs ==
  ASSUME NEW i \in Int, NEW j \in Int, i <= j + 1
  PROVE  /\ Len(Vector!Up(i, j)) = j - i + 1
         /\ DOMAIN Vector!Up(i, j) = 1 .. j - i + 1
         /\ \A k \in 1 .. j - i + 1 : Vector!Up(i, j)[k] = i + k - 1
<1> DEFINE n == j - i + 1
           s == [k \in 1 .. n |-> i + k - 1]
<1>1. n \in Nat OBVIOUS
<1> HIDE DEF n
<1>2. Len(s) = n BY <1>1
<1> QED BY <1>2 DEF Vector!Up, n

\* The same places from the last to the first.
LEMMA DownIs ==
  ASSUME NEW i \in Int, NEW j \in Int, j <= i + 1
  PROVE  /\ Len(Vector!Down(i, j)) = i - j + 1
         /\ DOMAIN Vector!Down(i, j) = 1 .. i - j + 1
         /\ \A k \in 1 .. i - j + 1 : Vector!Down(i, j)[k] = i - k + 1
<1> DEFINE n == i - j + 1
           u == Vector!Up(j, i)
           s == [k \in 1 .. n |-> u[n - k + 1]]
<1>1. n \in Nat OBVIOUS
<1>2. Len(u) = n /\ \A k \in 1 .. n : u[k] = j + k - 1 BY UpIs
<1>3. Vector!Down(i, j) = s BY <1>2 DEF Vector!Down, Vector!Reverse
<1>4. \A k \in 1 .. n : n - k + 1 \in 1 .. n /\ j + (n - k + 1) - 1 = i - k + 1 OBVIOUS
<1>5. \A k \in 1 .. n : s[k] = i - k + 1 BY <1>2, <1>4
<1> HIDE DEF n, u
<1>6. Len(s) = n BY <1>1
<1> QED BY <1>3, <1>5, <1>6 DEF n

\* Moving each is a chain of moves.
LEMMA MovesRun ==
  ASSUME NEW data \in Datas, NEW by \in Int, NEW n \in Nat, NEW places,
         DOMAIN places = 1 .. n, \A i \in 1 .. n : places[i] \in 1 .. StackSize
  PROVE  \E run : Moves(run, data, places, by, n)
<1> DEFINE V == Datas
           last == [t \in SUBSET (1 .. n) |-> Max(t)]
           step == [i \in 1 .. n |-> [v \in V |-> Vector!MoveOne(v, places[i], places[i] + by)]]
           IsRun(g) ==
             g = [t \in SUBSET (1 .. n) |->
                    IF t = {} THEN data
                    ELSE Vector!MoveOne(g[t \ {Max(t)}], places[Max(t)], places[Max(t)] + by)]
           c == CHOOSE g : IsRun(g)
<1>1. Vector!MoveEach(data, places, by) = c[1 .. n] BY DEF Vector!MoveEach, Vector!FoldLeft, Vector!MapThenFoldSet, Vector!Max, Max
<1>3. \A v \in V : \A i \in 1 .. n : Vector!MoveOne(v, places[i], places[i] + by) \in V
  BY DEF Datas, Slots, Vector!MoveOne, Vector!Assigned, Vector!Left
<1>4. step \in StepsOver(1 .. n, V)
  <2> HIDE DEF V
  <2> QED BY <1>3 DEF StepsOver
<1>5. PICK g : IsFold(g, 1 .. n, V, data, step, last)
  <2> HIDE DEF step
  <2> QED BY <1>4, FoldLeftExists
<1>6. /\ g \in [SUBSET (1 .. n) -> V]
      /\ \A t \in SUBSET (1 .. n) :
            g[t] = IF t = {} THEN data ELSE step[Max(t)][g[t \ {Max(t)}]]
  BY <1>5 DEF IsFold
<1>7. ASSUME NEW t \in SUBSET (1 .. n), t # {}
      PROVE  g[t] = Vector!MoveOne(g[t \ {Max(t)}], places[Max(t)], places[Max(t)] + by)
  <2>1. Max(t) \in 1 .. n BY <1>7, LastMember
  <2>2. g[t \ {Max(t)}] \in V
    <3> HIDE DEF V
    <3> QED BY <1>6
  <2> HIDE DEF V
  <2> QED BY <1>6, <1>7, <2>1, <2>2
<1>8. IsRun(g)
  <2> HIDE DEF V
  <2> QED BY <1>6, <1>7
<1>9. IsRun(c)
  <2> HIDE DEF IsRun
  <2> QED BY <1>8
<1> HIDE DEF c
<1>10. c[{}] = data BY <1>9
<1>11. ASSUME NEW i \in 1 .. n
       PROVE  c[1 .. i] = Vector!MoveOne(c[1 .. (i - 1)], places[i], places[i] + by)
  <2>1. Max(1 .. i) = i /\ (1 .. i) \ {i} = 1 .. (i - 1) BY LastIndex
  <2>2. 1 .. i \in SUBSET (1 .. n) /\ 1 .. i # {}
    <3>1. i \in 1 .. i /\ \A j \in 1 .. i : j \in 1 .. n OBVIOUS
    <3> QED BY <3>1
  <2> QED BY <1>9, <2>1, <2>2
<1>12. \A i \in 0 .. n : c[1 .. i] \in V
  <2> HIDE DEF V
  <2>1. c[{}] \in V BY <1>10 DEF V
  <2>2. \A i \in 1 .. n : c[1 .. (i - 1)] \in V => c[1 .. i] \in V BY <1>3, <1>11
  <2> QED BY <2>1, <2>2, FoldLeftTurns
<1> DEFINE run == [i \in 0 .. n |-> c[1 .. i]]
<1>13. run[0] = data
  <2> 1 .. 0 = {} /\ 0 \in 0 .. n OBVIOUS
  <2> QED BY <1>10
<1>14. \A i \in 1 .. n : run[i] = Vector!MoveOne(run[i - 1], places[i], places[i] + by)
  <2> \A i \in 1 .. n : i \in 0 .. n /\ i - 1 \in 0 .. n OBVIOUS
  <2> QED BY <1>11
<1>15. run[n] = c[1 .. n] /\ \A i \in 0 .. n : run[i] \in V
  <2> HIDE DEF V
  <2> QED BY <1>12
<1> HIDE DEF run
<1> QED BY <1>1, <1>13, <1>14, <1>15 DEF Moves

\* Constructing each, one after the other.
LEMMA ConstructsRun ==
  ASSUME NEW data \in Datas, NEW x \in Slots, NEW n \in Nat, NEW places,
         DOMAIN places = 1 .. n, \A i \in 1 .. n : places[i] \in 1 .. StackSize
  PROVE  \E run : Constructs(run, data, places, x, n)
<1> DEFINE V == Datas
           last == [t \in SUBSET (1 .. n) |-> Max(t)]
           step == [i \in 1 .. n |-> [v \in V |-> Vector!Construct(v, places[i], x)]]
           IsRun(g) ==
             g = [t \in SUBSET (1 .. n) |->
                    IF t = {} THEN data
                    ELSE Vector!Construct(g[t \ {Max(t)}], places[Max(t)], x)]
           c == CHOOSE g : IsRun(g)
<1>1. Vector!ConstructEach(data, places, x) = c[1 .. n] BY DEF Vector!ConstructEach, Vector!FoldLeft, Vector!MapThenFoldSet, Vector!Max, Max
<1>3. \A v \in V : \A i \in 1 .. n : Vector!Construct(v, places[i], x) \in V
  BY DEF Datas, Slots, Vector!Construct, Vector!Constructed
<1>4. step \in StepsOver(1 .. n, V)
  <2> HIDE DEF V
  <2> QED BY <1>3 DEF StepsOver
<1>5. PICK g : IsFold(g, 1 .. n, V, data, step, last)
  <2> HIDE DEF step
  <2> QED BY <1>4, FoldLeftExists
<1>6. /\ g \in [SUBSET (1 .. n) -> V]
      /\ \A t \in SUBSET (1 .. n) :
            g[t] = IF t = {} THEN data ELSE step[Max(t)][g[t \ {Max(t)}]]
  BY <1>5 DEF IsFold
<1>7. ASSUME NEW t \in SUBSET (1 .. n), t # {}
      PROVE  g[t] = Vector!Construct(g[t \ {Max(t)}], places[Max(t)], x)
  <2>1. Max(t) \in 1 .. n BY <1>7, LastMember
  <2>2. g[t \ {Max(t)}] \in V
    <3> HIDE DEF V
    <3> QED BY <1>6
  <2> HIDE DEF V
  <2> QED BY <1>6, <1>7, <2>1, <2>2
<1>8. IsRun(g)
  <2> HIDE DEF V
  <2> QED BY <1>6, <1>7
<1>9. IsRun(c)
  <2> HIDE DEF IsRun
  <2> QED BY <1>8
<1> HIDE DEF c
<1>10. c[{}] = data BY <1>9
<1>11. ASSUME NEW i \in 1 .. n
       PROVE  c[1 .. i] = Vector!Construct(c[1 .. (i - 1)], places[i], x)
  <2>1. Max(1 .. i) = i /\ (1 .. i) \ {i} = 1 .. (i - 1) BY LastIndex
  <2>2. 1 .. i \in SUBSET (1 .. n) /\ 1 .. i # {}
    <3>1. i \in 1 .. i /\ \A j \in 1 .. i : j \in 1 .. n OBVIOUS
    <3> QED BY <3>1
  <2> QED BY <1>9, <2>1, <2>2
<1>12. \A i \in 0 .. n : c[1 .. i] \in V
  <2> HIDE DEF V
  <2>1. c[{}] \in V BY <1>10 DEF V
  <2>2. \A i \in 1 .. n : c[1 .. (i - 1)] \in V => c[1 .. i] \in V BY <1>3, <1>11
  <2> QED BY <2>1, <2>2, FoldLeftTurns
<1> DEFINE run == [i \in 0 .. n |-> c[1 .. i]]
<1>13. run[0] = data
  <2> 1 .. 0 = {} /\ 0 \in 0 .. n OBVIOUS
  <2> QED BY <1>10
<1>14. \A i \in 1 .. n : run[i] = Vector!Construct(run[i - 1], places[i], x)
  <2> \A i \in 1 .. n : i \in 0 .. n /\ i - 1 \in 0 .. n OBVIOUS
  <2> QED BY <1>11
<1>15. run[n] = c[1 .. n] /\ \A i \in 0 .. n : run[i] \in V
  <2> HIDE DEF V
  <2> QED BY <1>12
<1> HIDE DEF run
<1> QED BY <1>1, <1>13, <1>14, <1>15 DEF Constructs

\* Destroying each, one after the other.
LEMMA DestroysRun ==
  ASSUME NEW data \in Datas, NEW n \in Nat, NEW places,
         DOMAIN places = 1 .. n, \A i \in 1 .. n : places[i] \in 1 .. StackSize
  PROVE  \E run : Destroys(run, data, places, n)
<1> DEFINE V == Datas
           last == [t \in SUBSET (1 .. n) |-> Max(t)]
           step == [i \in 1 .. n |-> [v \in V |-> Vector!Destroy(v, places[i])]]
           IsRun(g) ==
             g = [t \in SUBSET (1 .. n) |->
                    IF t = {} THEN data
                    ELSE Vector!Destroy(g[t \ {Max(t)}], places[Max(t)])]
           c == CHOOSE g : IsRun(g)
<1>1. Vector!DestroyEach(data, places) = c[1 .. n] BY DEF Vector!DestroyEach, Vector!FoldLeft, Vector!MapThenFoldSet, Vector!Max, Max
<1>3. \A v \in V : \A i \in 1 .. n : Vector!Destroy(v, places[i]) \in V
  BY DEF Datas, Slots, Vector!Destroy, Vector!Destroyed
<1>4. step \in StepsOver(1 .. n, V)
  <2> HIDE DEF V
  <2> QED BY <1>3 DEF StepsOver
<1>5. PICK g : IsFold(g, 1 .. n, V, data, step, last)
  <2> HIDE DEF step
  <2> QED BY <1>4, FoldLeftExists
<1>6. /\ g \in [SUBSET (1 .. n) -> V]
      /\ \A t \in SUBSET (1 .. n) :
            g[t] = IF t = {} THEN data ELSE step[Max(t)][g[t \ {Max(t)}]]
  BY <1>5 DEF IsFold
<1>7. ASSUME NEW t \in SUBSET (1 .. n), t # {}
      PROVE  g[t] = Vector!Destroy(g[t \ {Max(t)}], places[Max(t)])
  <2>1. Max(t) \in 1 .. n BY <1>7, LastMember
  <2>2. g[t \ {Max(t)}] \in V
    <3> HIDE DEF V
    <3> QED BY <1>6
  <2> HIDE DEF V
  <2> QED BY <1>6, <1>7, <2>1, <2>2
<1>8. IsRun(g)
  <2> HIDE DEF V
  <2> QED BY <1>6, <1>7
<1>9. IsRun(c)
  <2> HIDE DEF IsRun
  <2> QED BY <1>8
<1> HIDE DEF c
<1>10. c[{}] = data BY <1>9
<1>11. ASSUME NEW i \in 1 .. n
       PROVE  c[1 .. i] = Vector!Destroy(c[1 .. (i - 1)], places[i])
  <2>1. Max(1 .. i) = i /\ (1 .. i) \ {i} = 1 .. (i - 1) BY LastIndex
  <2>2. 1 .. i \in SUBSET (1 .. n) /\ 1 .. i # {}
    <3>1. i \in 1 .. i /\ \A j \in 1 .. i : j \in 1 .. n OBVIOUS
    <3> QED BY <3>1
  <2> QED BY <1>9, <2>1, <2>2
<1>12. \A i \in 0 .. n : c[1 .. i] \in V
  <2> HIDE DEF V
  <2>1. c[{}] \in V BY <1>10 DEF V
  <2>2. \A i \in 1 .. n : c[1 .. (i - 1)] \in V => c[1 .. i] \in V BY <1>3, <1>11
  <2> QED BY <2>1, <2>2, FoldLeftTurns
<1> DEFINE run == [i \in 0 .. n |-> c[1 .. i]]
<1>13. run[0] = data
  <2> 1 .. 0 = {} /\ 0 \in 0 .. n OBVIOUS
  <2> QED BY <1>10
<1>14. \A i \in 1 .. n : run[i] = Vector!Destroy(run[i - 1], places[i])
  <2> \A i \in 1 .. n : i \in 0 .. n /\ i - 1 \in 0 .. n OBVIOUS
  <2> QED BY <1>11
<1>15. run[n] = c[1 .. n] /\ \A i \in 0 .. n : run[i] \in V
  <2> HIDE DEF V
  <2> QED BY <1>12
<1> HIDE DEF run
<1> QED BY <1>1, <1>13, <1>14, <1>15 DEF Destroys

\* Assigning what is referred to, one after the other.
LEMMA AssignsRun ==
  ASSUME NEW data \in Datas, NEW pos \in Int, NEW n \in Nat, NEW refs, Len(refs) = n,
         \A i \in 1 .. n : refs[i] \in [at : 0 .. StackSize, value : Slots]
  PROVE  \E run : Assigns(run, data, pos, refs, n)
<1> DEFINE V == Datas
           U == Vector!Up(1, Len(refs))
           last == [t \in SUBSET (1 .. n) |-> Max(t)]
           step == [i \in 1 .. n |-> [v \in V |-> Vector!Assign(v, pos + i - 1, Vector!Value(v, refs[i]))]]
           IsRun(g) ==
             g = [t \in SUBSET (1 .. n) |->
                    IF t = {} THEN data
                    ELSE Vector!Assign(g[t \ {Max(t)}], pos + U[Max(t)] - 1,
                                Vector!Value(g[t \ {Max(t)}], refs[U[Max(t)]]))]
           c == CHOOSE g : IsRun(g)
<1>0. DOMAIN U = 1 .. n /\ \A k \in 1 .. n : U[k] = k
  <2>1. U = [k \in 1 .. n - 1 + 1 |-> 1 + k - 1] BY DEF Vector!Up
  <2>2. n - 1 + 1 = n /\ \A k \in 1 .. n : 1 + k - 1 = k OBVIOUS
  <2> HIDE DEF U
  <2> QED BY <2>1, <2>2
<1>1. Vector!AssignEach(data, pos, refs) = c[1 .. n]
  <2> HIDE DEF U
  <2> QED BY <1>0 DEF Vector!AssignEach, Vector!FoldLeft, Vector!MapThenFoldSet, Vector!Max, Max, U
<1> HIDE DEF U
<1>2. \A v \in V : \A i \in 1 .. n : Vector!Value(v, refs[i]) \in Slots
  BY DEF Datas, Vector!Value
<1>3. \A v \in V : \A i \in 1 .. n :
        Vector!Assign(v, pos + i - 1, Vector!Value(v, refs[i])) \in V
  <2> SUFFICES ASSUME NEW v \in V, NEW i \in 1 .. n
               PROVE  Vector!Assign(v, pos + i - 1, Vector!Value(v, refs[i])) \in V
    OBVIOUS
  <2> DEFINE x == Vector!Value(v, refs[i])
  <2>1. x \in Slots BY <1>2
  <2> HIDE DEF x
  <2>2. Vector!Assign(v, pos + i - 1, x) \in V BY <2>1 DEF Datas, Slots, Vector!Assign, Vector!Assigned
  <2> QED BY <2>2 DEF x
<1>4. step \in StepsOver(1 .. n, V)
  <2> HIDE DEF V
  <2> QED BY <1>3 DEF StepsOver
<1>5. PICK g : IsFold(g, 1 .. n, V, data, step, last)
  <2> HIDE DEF step
  <2> QED BY <1>4, FoldLeftExists
<1>6. /\ g \in [SUBSET (1 .. n) -> V]
      /\ \A t \in SUBSET (1 .. n) :
            g[t] = IF t = {} THEN data ELSE step[Max(t)][g[t \ {Max(t)}]]
  BY <1>5 DEF IsFold
<1>7. ASSUME NEW t \in SUBSET (1 .. n), t # {}
      PROVE  g[t] = Vector!Assign(g[t \ {Max(t)}], pos + Max(t) - 1, Vector!Value(g[t \ {Max(t)}], refs[Max(t)]))
  <2>1. Max(t) \in 1 .. n BY <1>7, LastMember
  <2>2. g[t \ {Max(t)}] \in V
    <3> HIDE DEF V
    <3> QED BY <1>6
  <2> HIDE DEF V
  <2> QED BY <1>6, <1>7, <2>1, <2>2
<1>8. IsRun(g)
  <2>1. ASSUME NEW t \in SUBSET (1 .. n), t # {}
        PROVE  g[t] = Vector!Assign(g[t \ {Max(t)}], pos + U[Max(t)] - 1,
                             Vector!Value(g[t \ {Max(t)}], refs[U[Max(t)]]))
    <3>1. U[Max(t)] = Max(t) BY <1>0, <2>1, LastMember
    <3> QED BY <1>7, <2>1, <3>1
  <2> HIDE DEF V
  <2> QED BY <1>6, <2>1
<1>9. IsRun(c)
  <2> HIDE DEF IsRun
  <2> QED BY <1>8
<1> HIDE DEF c
<1>10. c[{}] = data BY <1>9
<1>11. ASSUME NEW i \in 1 .. n
       PROVE  c[1 .. i] = Vector!Assign(c[1 .. (i - 1)], pos + i - 1, Vector!Value(c[1 .. (i - 1)], refs[i]))
  <2>1. Max(1 .. i) = i /\ (1 .. i) \ {i} = 1 .. (i - 1) BY LastIndex
  <2>2. 1 .. i \in SUBSET (1 .. n) /\ 1 .. i # {}
    <3>1. i \in 1 .. i /\ \A j \in 1 .. i : j \in 1 .. n OBVIOUS
    <3> QED BY <3>1
  <2>3. i \in 1 .. n /\ U[i] = i BY <1>0
  <2> QED BY <1>9, <2>1, <2>2, <2>3
<1>12. \A i \in 0 .. n : c[1 .. i] \in V
  <2> HIDE DEF V
  <2>1. c[{}] \in V BY <1>10 DEF V
  <2>2. \A i \in 1 .. n : c[1 .. (i - 1)] \in V => c[1 .. i] \in V BY <1>3, <1>11
  <2> QED BY <2>1, <2>2, FoldLeftTurns
<1> DEFINE run == [i \in 0 .. n |-> c[1 .. i]]
<1>13. run[0] = data
  <2> 1 .. 0 = {} /\ 0 \in 0 .. n OBVIOUS
  <2> QED BY <1>10
<1>14. \A i \in 1 .. n : run[i] = Vector!Assign(run[i - 1], pos + i - 1, Vector!Value(run[i - 1], refs[i]))
  <2> \A i \in 1 .. n : i \in 0 .. n /\ i - 1 \in 0 .. n OBVIOUS
  <2> QED BY <1>11
<1>15. run[n] = c[1 .. n] /\ \A i \in 0 .. n : run[i] \in V
  <2> HIDE DEF V
  <2> QED BY <1>12
<1> HIDE DEF run
<1> QED BY <1>1, <1>13, <1>14, <1>15 DEF Assigns

-----------------------------------------------------------------------------
(* What the slots hold afterwards.                                         *)

\* One move, between two places.
LEMMA MoveOneIs ==
  ASSUME NEW d \in Datas, NEW from \in 1 .. StackSize, NEW to \in 1 .. StackSize,
         from # to, trivial \/ d[to] # Raw
  PROVE  /\ Vector!MoveOne(d, from, to)[to] = d[from]
         /\ Vector!MoveOne(d, from, to)[from] = Vector!Left(d[from])
         /\ \A j \in 1 .. StackSize : j \notin {from, to} => Vector!MoveOne(d, from, to)[j] = d[j]
<1>1. Vector!Assigned(d[to], d[from]) = d[from] BY DEF Vector!Assigned
<1> QED BY <1>1 DEF Vector!MoveOne, Datas

\* What was moved from is still an element.
LEMMA LeftIs ==
  ASSUME Vector!SlotsAssumption, NEW x, x # Raw
  PROVE  Vector!Left(x) # Raw
BY DEF Vector!SlotsAssumption, Vector!Left

\* Elements moved towards the front, over elements.
LEMMA MovedToFront ==
  ASSUME Vector!SlotsAssumption, NEW data \in Datas, NEW a \in Nat, NEW b \in Nat,
         NEW k \in Nat \ {0}, k < a, a <= b + 1, b <= StackSize,
         \A j \in a - k .. b : data[j] # Raw,
         NEW r, r = Vector!MoveEach(data, Vector!Up(a, b), -k)
  PROVE  /\ r \in Datas
         /\ \A j \in a - k .. b - k : r[j] = data[j + k]
         /\ \A j \in b - k + 1 .. b : r[j] # Raw
         /\ \A j \in 1 .. StackSize : j < a - k \/ b < j => r[j] = data[j]
<1> DEFINE n == b - a + 1
           places == Vector!Up(a, b)
<1>0. n \in Nat /\ StackSize \in Nat BY DEF Vector!SlotsAssumption
<1>1. DOMAIN places = 1 .. n /\ \A i \in 1 .. n : places[i] = a + i - 1 BY UpIs
<1>2. \A i \in 1 .. n : places[i] \in 1 .. StackSize BY <1>0, <1>1
<1> HIDE DEF places
<1> DEFINE by == -k
<1>3. by \in Int /\ \A i \in 1 .. n : i \in Nat /\ (a + i - 1) + by = a + i - 1 - k OBVIOUS
<1> HIDE DEF by
<1>4. PICK run : Moves(run, data, places, by, n)
  <2> HIDE DEF n
  <2> QED BY <1>0, <1>1, <1>2, <1>3, MovesRun
<1>4a. /\ run[0] = data
       /\ \A i \in 0 .. n : run[i] \in Datas
       /\ \A i \in 1 .. n : run[i] = Vector!MoveOne(run[i - 1], places[i], places[i] + by)
       /\ r = run[n]
  BY <1>4 DEF Moves, places, by
<1> DEFINE P(m, e) ==
             /\ \A j \in a - k .. a + m - 1 - k : e[j] = data[j + k]
             /\ \A j \in a + m - k .. a + m - 1 : e[j] # Raw
             /\ \A j \in 1 .. StackSize : j < a - k \/ a + m - 1 < j => e[j] = data[j]
           T == {m \in 0 .. n : P(m, run[m])}
<1>5. 0 \in T
  <2>1. P(0, data)
    <3>1. \A j \in a - k .. a + 0 - 1 - k : FALSE OBVIOUS
    <3>2. \A j \in a + 0 - k .. a + 0 - 1 : j \in a - k .. b OBVIOUS
    <3> QED BY <3>1, <3>2
  <2> HIDE DEF P, n
  <2> QED BY <1>0, <1>4a, <2>1
<1>6. ASSUME NEW m \in 1 .. n, m - 1 \in T PROVE m \in T
  <2> DEFINE e == run[m - 1]
             i == a + m - 1
             t == a + m - 1 - k
  <2>1. P(m - 1, e) BY <1>6
  <2>2. e \in Datas
    <3> m - 1 \in 0 .. n BY <1>0
    <3> QED BY <1>4a
  <2>3. /\ i \in 1 .. StackSize /\ t \in 1 .. StackSize /\ i # t /\ i \in Nat /\ t \in Nat
        /\ i <= b /\ t < i /\ t = i - k /\ a - k <= t /\ t <= b - k /\ a <= i
        /\ a + (m - 1) - 1 = i - 1 /\ a + (m - 1) - k = t
    BY <1>0
  <2>4. run[m] = Vector!MoveOne(e, i, t)
    <3>1. places[m] = i /\ i + by = t BY <1>1, <1>3
    <3>2. run[m] = Vector!MoveOne(run[m - 1], places[m], places[m] + by) BY <1>4a
    <3> QED BY <3>1, <3>2
  <2>5. /\ \A j \in a - k .. t - 1 : e[j] = data[j + k]
        /\ \A j \in t .. i - 1 : e[j] # Raw
        /\ \A j \in 1 .. StackSize : j < a - k \/ i - 1 < j => e[j] = data[j]
    <3>1. a + (m - 1) - 1 - k = t - 1 OBVIOUS
    <3> HIDE DEF e, i, t
    <3> QED BY <2>1, <2>3, <3>1
  <2> HIDE DEF e, i, t
  <2>6. e[t] # Raw /\ e[i] = data[i] /\ data[i] # Raw BY <2>3, <2>5
  <2> DEFINE f == Vector!MoveOne(e, i, t)
  <2>7. /\ f[t] = data[i] /\ f[i] = Vector!Left(data[i])
        /\ \A j \in 1 .. StackSize : j \notin {i, t} => f[j] = e[j]
    BY <2>2, <2>3, <2>6, MoveOneIs
  <2>8. f[i] # Raw BY <2>6, <2>7, LeftIs
  <2> HIDE DEF f
  <2>9. \A j \in a - k .. t : f[j] = data[j + k]
    <3> TAKE j \in a - k .. t
    <3>1. CASE j = t BY <2>3, <2>7, <3>1
    <3>2. CASE j # t
      <4> j \in a - k .. t - 1 /\ j \in 1 .. StackSize /\ j \notin {i, t}
        BY <1>0, <2>3, <3>2
      <4> QED BY <2>5, <2>7
    <3> QED BY <3>1, <3>2
  <2>10. \A j \in t + 1 .. i : f[j] # Raw
    <3> TAKE j \in t + 1 .. i
    <3>1. CASE j = i BY <2>8, <3>1
    <3>2. CASE j # i
      <4> j \in t .. i - 1 /\ j \in 1 .. StackSize /\ j \notin {i, t}
        BY <1>0, <2>3, <3>2
      <4> QED BY <2>5, <2>7
    <3> QED BY <3>1, <3>2
  <2>11. \A j \in 1 .. StackSize : j < a - k \/ i < j => f[j] = data[j]
    <3> SUFFICES ASSUME NEW j \in 1 .. StackSize, j < a - k \/ i < j PROVE f[j] = data[j]
      OBVIOUS
    <3>1. j \notin {i, t} /\ (j < a - k \/ i - 1 < j) BY <1>0, <2>3
    <3> QED BY <2>5, <2>7, <3>1
  <2>12. P(m, f)
    <3>1. a + m - 1 - k = t /\ a + m - k = t + 1 /\ a + m - 1 = i BY DEF i, t
    <3> QED BY <2>9, <2>10, <2>11, <3>1
  <2> HIDE DEF P
  <2> QED BY <2>4, <2>12 DEF f
<1>7. n \in T
  <2> HIDE DEF T, n
  <2>1. 0 .. n \subseteq T BY <1>0, <1>5, <1>6, BoundedInduction
  <2> QED BY <1>0, <2>1
<1>8. P(n, r) /\ r \in Datas
  <2> HIDE DEF P, n
  <2> QED BY <1>0, <1>4a, <1>7
<1>9. a + n - 1 - k = b - k /\ a + n - k = b - k + 1 /\ a + n - 1 = b OBVIOUS
<1> HIDE DEF n
<1> QED BY <1>8, <1>9

\* Elements are k places further; values fill places; values that are referred
\* to are where they were asked for; everything else is as it was.
MovedBack(r, data, a, b, k) ==
  /\ r \in Datas
  /\ \A j \in a + k .. b + k : r[j] = data[j - k]
  /\ \A j \in a .. a + k - 1 : trivial \/ r[j] # Raw
  /\ \A j \in 1 .. StackSize : j < a \/ b + k < j => r[j] = data[j]

Filled(r, data, a, b, x) ==
  /\ r \in Datas
  /\ \A j \in a .. b : r[j] = x
  /\ \A j \in 1 .. StackSize : j < a \/ b < j => r[j] = data[j]

Followed(r, data, pos, n, refs) ==
  /\ r \in Datas
  /\ \A i \in 1 .. n : r[pos + i - 1] = Vector!Value(data, refs[i])
  /\ \A j \in 1 .. StackSize : j < pos \/ pos + n - 1 < j => r[j] = data[j]

\* Elements moved towards the back, the last first, over elements or new ones.
LEMMA MovedToBack ==
  ASSUME Vector!SlotsAssumption, NEW data \in Datas, NEW a \in Nat \ {0}, NEW b \in Nat,
         NEW k \in Nat \ {0}, a <= b + 1, b + k <= StackSize,
         \A j \in a .. b : data[j] # Raw,
         \A j \in b + 1 .. b + k : trivial \/ data[j] # Raw,
         NEW r, r = Vector!MoveEach(data, Vector!Down(b, a), k)
  PROVE  MovedBack(r, data, a, b, k)
<1> DEFINE n == b - a + 1
           places == Vector!Down(b, a)
<1>0. n \in Nat /\ StackSize \in Nat /\ k \in Int BY DEF Vector!SlotsAssumption
<1>1. DOMAIN places = 1 .. n /\ \A i \in 1 .. n : places[i] = b - i + 1 BY DownIs
<1>2. \A i \in 1 .. n : places[i] \in 1 .. StackSize BY <1>0, <1>1
<1> HIDE DEF places
<1>4. PICK run : Moves(run, data, places, k, n)
  <2> HIDE DEF n
  <2> QED BY <1>0, <1>1, <1>2, MovesRun
<1>4a. /\ run[0] = data
       /\ \A i \in 0 .. n : run[i] \in Datas
       /\ \A i \in 1 .. n : run[i] = Vector!MoveOne(run[i - 1], places[i], places[i] + k)
       /\ r = run[n]
  BY <1>4 DEF Moves, places
<1> DEFINE P(m, e) ==
             /\ \A j \in b - m + 1 + k .. b + k : e[j] = data[j - k]
             /\ \A j \in b - m + 1 .. b - m + k : trivial \/ e[j] # Raw
             /\ \A j \in 1 .. StackSize : j < b - m + 1 \/ b + k < j => e[j] = data[j]
           T == {m \in 0 .. n : P(m, run[m])}
<1>5. 0 \in T
  <2>1. P(0, data)
    <3>1. \A j \in b - 0 + 1 + k .. b + k : FALSE OBVIOUS
    <3>2. \A j \in b - 0 + 1 .. b - 0 + k : j \in b + 1 .. b + k OBVIOUS
    <3> QED BY <3>1, <3>2
  <2> HIDE DEF P, n
  <2> QED BY <1>0, <1>4a, <2>1
<1>6. ASSUME NEW m \in 1 .. n, m - 1 \in T PROVE m \in T
  <2> DEFINE e == run[m - 1]
             i == b - m + 1
             t == b - m + 1 + k
  <2>1. P(m - 1, e) BY <1>6
  <2>2. e \in Datas
    <3> m - 1 \in 0 .. n BY <1>0
    <3> QED BY <1>4a
  <2>3. /\ i \in 1 .. StackSize /\ t \in 1 .. StackSize /\ i # t /\ i \in Nat /\ t \in Nat
        /\ i <= b /\ i < t /\ t = i + k /\ t <= b + k /\ a <= i /\ t - k = i
        /\ b - (m - 1) + 1 = i + 1 /\ b - (m - 1) + k = t
    BY <1>0
  <2>4. run[m] = Vector!MoveOne(e, i, t)
    <3>1. places[m] = i /\ i + k = t BY <1>1
    <3>2. run[m] = Vector!MoveOne(run[m - 1], places[m], places[m] + k) BY <1>4a
    <3> QED BY <3>1, <3>2
  <2>5. /\ \A j \in t + 1 .. b + k : e[j] = data[j - k]
        /\ \A j \in i + 1 .. t : trivial \/ e[j] # Raw
        /\ \A j \in 1 .. StackSize : j < i + 1 \/ b + k < j => e[j] = data[j]
    <3>1. b - (m - 1) + 1 + k = t + 1 OBVIOUS
    <3> HIDE DEF e, i, t
    <3> QED BY <2>1, <2>3, <3>1
  <2> HIDE DEF e, i, t
  <2>6. (trivial \/ e[t] # Raw) /\ e[i] = data[i] /\ data[i] # Raw BY <2>3, <2>5
  <2> DEFINE f == Vector!MoveOne(e, i, t)
  <2>7. /\ f[t] = data[i] /\ f[i] = Vector!Left(data[i])
        /\ \A j \in 1 .. StackSize : j \notin {i, t} => f[j] = e[j]
    BY <2>2, <2>3, <2>6, MoveOneIs
  <2>8. f[i] # Raw BY <2>6, <2>7, LeftIs
  <2> HIDE DEF f
  <2>9. \A j \in t .. b + k : f[j] = data[j - k]
    <3> TAKE j \in t .. b + k
    <3>1. CASE j = t BY <2>3, <2>7, <3>1
    <3>2. CASE j # t
      <4> j \in t + 1 .. b + k /\ j \in 1 .. StackSize /\ j \notin {i, t}
        BY <1>0, <2>3, <3>2
      <4> QED BY <2>5, <2>7
    <3> QED BY <3>1, <3>2
  <2>10. \A j \in i .. t - 1 : trivial \/ f[j] # Raw
    <3> TAKE j \in i .. t - 1
    <3>1. CASE j = i BY <2>8, <3>1
    <3>2. CASE j # i
      <4> j \in i + 1 .. t /\ j \in 1 .. StackSize /\ j \notin {i, t}
        BY <1>0, <2>3, <3>2
      <4> QED BY <2>5, <2>7
    <3> QED BY <3>1, <3>2
  <2>11. \A j \in 1 .. StackSize : j < i \/ b + k < j => f[j] = data[j]
    <3> SUFFICES ASSUME NEW j \in 1 .. StackSize, j < i \/ b + k < j PROVE f[j] = data[j]
      OBVIOUS
    <3>1. j \notin {i, t} /\ (j < i + 1 \/ b + k < j) BY <1>0, <2>3
    <3> QED BY <2>5, <2>7, <3>1
  <2>12. P(m, f)
    <3>1. b - m + 1 + k = t /\ b - m + 1 = i /\ b - m + k = t - 1 BY DEF i, t
    <3> QED BY <2>9, <2>10, <2>11, <3>1
  <2> HIDE DEF P
  <2> QED BY <2>4, <2>12 DEF f
<1>7. n \in T
  <2> HIDE DEF T, n
  <2>1. 0 .. n \subseteq T BY <1>0, <1>5, <1>6, BoundedInduction
  <2> QED BY <1>0, <2>1
<1>8. P(n, r) /\ r \in Datas
  <2> HIDE DEF P, n
  <2> QED BY <1>0, <1>4a, <1>7
<1>9. b - n + 1 + k = a + k /\ b - n + 1 = a /\ b - n + k = a + k - 1 OBVIOUS
<1> HIDE DEF n
<1> QED BY <1>8, <1>9 DEF MovedBack

\* New elements in raw memory.
LEMMA ConstructedIs ==
  ASSUME Vector!SlotsAssumption, NEW data \in Datas, NEW a \in Nat \ {0}, NEW b \in Nat,
         a <= b + 1, b <= StackSize,
         NEW x \in Slots, \A j \in a .. b : trivial \/ data[j] = Raw,
         NEW r, r = Vector!ConstructEach(data, Vector!Up(a, b), x)
  PROVE  Filled(r, data, a, b, x)
<1> DEFINE n == b - a + 1
           places == Vector!Up(a, b)
<1>0. n \in Nat /\ StackSize \in Nat BY DEF Vector!SlotsAssumption
<1>1. DOMAIN places = 1 .. n /\ \A i \in 1 .. n : places[i] = a + i - 1 BY UpIs
<1>2. \A i \in 1 .. n : places[i] \in 1 .. StackSize BY <1>0, <1>1
<1> HIDE DEF places
<1>4. PICK run : Constructs(run, data, places, x, n)
  <2> HIDE DEF n
  <2> QED BY <1>0, <1>1, <1>2, ConstructsRun
<1>4a. /\ run[0] = data
       /\ \A i \in 0 .. n : run[i] \in Datas
       /\ \A i \in 1 .. n : run[i] = Vector!Construct(run[i - 1], places[i], x)
       /\ r = run[n]
  BY <1>4 DEF Constructs, places
<1> DEFINE P(m, e) ==
             /\ \A j \in a .. a + m - 1 : e[j] = x
             /\ \A j \in 1 .. StackSize : j < a \/ a + m - 1 < j => e[j] = data[j]
           T == {m \in 0 .. n : P(m, run[m])}
<1>5. 0 \in T
  <2>1. P(0, data)
    <3>1. \A j \in a .. a + 0 - 1 : FALSE OBVIOUS
    <3> QED BY <3>1
  <2> HIDE DEF P, n
  <2> QED BY <1>0, <1>4a, <2>1
<1>6. ASSUME NEW m \in 1 .. n, m - 1 \in T PROVE m \in T
  <2> DEFINE e == run[m - 1]
             i == a + m - 1
  <2>1. P(m - 1, e) BY <1>6
  <2>2. e \in Datas
    <3> m - 1 \in 0 .. n BY <1>0
    <3> QED BY <1>4a
  <2>3. i \in 1 .. StackSize /\ i \in Nat /\ i <= b /\ a <= i /\ a + (m - 1) - 1 = i - 1
    BY <1>0
  <2>4. run[m] = Vector!Construct(e, i, x)
    <3>1. places[m] = i BY <1>1
    <3>2. run[m] = Vector!Construct(run[m - 1], places[m], x) BY <1>4a
    <3> QED BY <3>1, <3>2
  <2>5. /\ \A j \in a .. i - 1 : e[j] = x
        /\ \A j \in 1 .. StackSize : j < a \/ i - 1 < j => e[j] = data[j]
    <3> HIDE DEF e, i
    <3> QED BY <2>1, <2>3
  <2> HIDE DEF e, i
  <2>6. e[i] = data[i] /\ i \in a .. b BY <2>3, <2>5
  <2> DEFINE f == Vector!Construct(e, i, x)
  <2>7. f[i] = x /\ \A j \in 1 .. StackSize : j # i => f[j] = e[j]
    BY <2>2, <2>3, <2>6 DEF Vector!Construct, Vector!Constructed, Datas
  <2> HIDE DEF f
  <2>9. \A j \in a .. i : f[j] = x
    <3> TAKE j \in a .. i
    <3>1. CASE j = i BY <2>7, <3>1
    <3>2. CASE j # i
      <4> j \in a .. i - 1 /\ j \in 1 .. StackSize BY <1>0, <2>3, <3>2
      <4> QED BY <2>5, <2>7, <3>2
    <3> QED BY <3>1, <3>2
  <2>11. \A j \in 1 .. StackSize : j < a \/ i < j => f[j] = data[j]
    <3> SUFFICES ASSUME NEW j \in 1 .. StackSize, j < a \/ i < j PROVE f[j] = data[j]
      OBVIOUS
    <3>1. j # i /\ (j < a \/ i - 1 < j) BY <1>0, <2>3
    <3> QED BY <2>5, <2>7, <3>1
  <2>12. P(m, f) BY <2>9, <2>11 DEF i
  <2> HIDE DEF P
  <2> QED BY <2>4, <2>12 DEF f
<1>7. n \in T
  <2> HIDE DEF T, n
  <2>1. 0 .. n \subseteq T BY <1>0, <1>5, <1>6, BoundedInduction
  <2> QED BY <1>0, <2>1
<1>8. P(n, r) /\ r \in Datas
  <2> HIDE DEF P, n
  <2> QED BY <1>0, <1>4a, <1>7
<1>9. a + n - 1 = b OBVIOUS
<1> HIDE DEF n
<1> QED BY <1>8, <1>9 DEF Filled

\* Elements destroyed.
LEMMA DestroyedIs ==
  ASSUME Vector!SlotsAssumption, NEW data \in Datas, NEW a \in Nat \ {0}, NEW b \in Nat,
         a <= b + 1, b <= StackSize,
         \A j \in a .. b : data[j] # Raw,
         NEW r, r = Vector!DestroyEach(data, Vector!Up(a, b))
  PROVE  Filled(r, data, a, b, Raw)
<1> DEFINE n == b - a + 1
           places == Vector!Up(a, b)
<1>0. n \in Nat /\ StackSize \in Nat BY DEF Vector!SlotsAssumption
<1>1. DOMAIN places = 1 .. n /\ \A i \in 1 .. n : places[i] = a + i - 1 BY UpIs
<1>2. \A i \in 1 .. n : places[i] \in 1 .. StackSize BY <1>0, <1>1
<1> HIDE DEF places
<1>4. PICK run : Destroys(run, data, places, n)
  <2> HIDE DEF n
  <2> QED BY <1>0, <1>1, <1>2, DestroysRun
<1>4a. /\ run[0] = data
       /\ \A i \in 0 .. n : run[i] \in Datas
       /\ \A i \in 1 .. n : run[i] = Vector!Destroy(run[i - 1], places[i])
       /\ r = run[n]
  BY <1>4 DEF Destroys, places
<1> DEFINE P(m, e) ==
             /\ \A j \in a .. a + m - 1 : e[j] = Raw
             /\ \A j \in 1 .. StackSize : j < a \/ a + m - 1 < j => e[j] = data[j]
           T == {m \in 0 .. n : P(m, run[m])}
<1>5. 0 \in T
  <2>1. P(0, data)
    <3>1. \A j \in a .. a + 0 - 1 : FALSE OBVIOUS
    <3> QED BY <3>1
  <2> HIDE DEF P, n
  <2> QED BY <1>0, <1>4a, <2>1
<1>6. ASSUME NEW m \in 1 .. n, m - 1 \in T PROVE m \in T
  <2> DEFINE e == run[m - 1]
             i == a + m - 1
  <2>1. P(m - 1, e) BY <1>6
  <2>2. e \in Datas
    <3> m - 1 \in 0 .. n BY <1>0
    <3> QED BY <1>4a
  <2>3. i \in 1 .. StackSize /\ i \in Nat /\ i <= b /\ a <= i /\ a + (m - 1) - 1 = i - 1
    BY <1>0
  <2>4. run[m] = Vector!Destroy(e, i)
    <3>1. places[m] = i BY <1>1
    <3>2. run[m] = Vector!Destroy(run[m - 1], places[m]) BY <1>4a
    <3> QED BY <3>1, <3>2
  <2>5. /\ \A j \in a .. i - 1 : e[j] = Raw
        /\ \A j \in 1 .. StackSize : j < a \/ i - 1 < j => e[j] = data[j]
    <3> HIDE DEF e, i
    <3> QED BY <2>1, <2>3
  <2> HIDE DEF e, i
  <2>6. e[i] = data[i] /\ i \in a .. b BY <2>3, <2>5
  <2> DEFINE f == Vector!Destroy(e, i)
  <2>7. f[i] = Raw /\ \A j \in 1 .. StackSize : j # i => f[j] = e[j]
    BY <2>2, <2>3, <2>6 DEF Vector!Destroy, Vector!Destroyed, Datas
  <2> HIDE DEF f
  <2>9. \A j \in a .. i : f[j] = Raw
    <3> TAKE j \in a .. i
    <3>1. CASE j = i BY <2>7, <3>1
    <3>2. CASE j # i
      <4> j \in a .. i - 1 /\ j \in 1 .. StackSize BY <1>0, <2>3, <3>2
      <4> QED BY <2>5, <2>7, <3>2
    <3> QED BY <3>1, <3>2
  <2>11. \A j \in 1 .. StackSize : j < a \/ i < j => f[j] = data[j]
    <3> SUFFICES ASSUME NEW j \in 1 .. StackSize, j < a \/ i < j PROVE f[j] = data[j]
      OBVIOUS
    <3>1. j # i /\ (j < a \/ i - 1 < j) BY <1>0, <2>3
    <3> QED BY <2>5, <2>7, <3>1
  <2>12. P(m, f) BY <2>9, <2>11 DEF i
  <2> HIDE DEF P
  <2> QED BY <2>4, <2>12 DEF f
<1>7. n \in T
  <2> HIDE DEF T, n
  <2>1. 0 .. n \subseteq T BY <1>0, <1>5, <1>6, BoundedInduction
  <2> QED BY <1>0, <2>1
<1>8. P(n, r) /\ r \in Datas
  <2> HIDE DEF P, n
  <2> QED BY <1>0, <1>4a, <1>7
<1>9. a + n - 1 = b OBVIOUS
<1> HIDE DEF n
<1> QED BY <1>8, <1>9 DEF Filled

\* Values assigned from a place on, which are elsewhere or before that place.
LEMMA AssignedIs ==
  ASSUME Vector!SlotsAssumption, NEW data \in Datas, NEW pos \in Nat \ {0}, NEW n \in Nat,
         pos + n - 1 <= StackSize, NEW refs, Len(refs) = n,
         \A i \in 1 .. n : refs[i] \in [at : 0 .. StackSize, value : Slots],
         \A i \in 1 .. n : refs[i].at < pos,
         \A j \in pos .. pos + n - 1 : trivial \/ data[j] # Raw,
         NEW r, r = Vector!AssignEach(data, pos, refs)
  PROVE  Followed(r, data, pos, n, refs)
<1>0. StackSize \in Nat BY DEF Vector!SlotsAssumption
<1>3. pos \in Int OBVIOUS
<1>4. PICK run : Assigns(run, data, pos, refs, n) BY <1>3, AssignsRun
<1>4a. /\ run[0] = data
       /\ \A i \in 0 .. n : run[i] \in Datas
       /\ \A i \in 1 .. n :
             run[i] = Vector!Assign(run[i - 1], pos + i - 1, Vector!Value(run[i - 1], refs[i]))
       /\ r = run[n]
  BY <1>4 DEF Assigns
<1> DEFINE P(m, e) ==
             /\ \A i \in 1 .. m : e[pos + i - 1] = Vector!Value(data, refs[i])
             /\ \A j \in 1 .. StackSize : j < pos \/ pos + m - 1 < j => e[j] = data[j]
           T == {m \in 0 .. n : P(m, run[m])}
<1>5. 0 \in T
  <2>1. P(0, data) OBVIOUS
  <2> HIDE DEF P
  <2> QED BY <1>4a, <2>1
<1>6. ASSUME NEW m \in 1 .. n, m - 1 \in T PROVE m \in T
  <2> DEFINE e == run[m - 1]
             i == pos + m - 1
             x == Vector!Value(data, refs[m])
  <2>1. P(m - 1, e) BY <1>6
  <2>2. e \in Datas
    <3> m - 1 \in 0 .. n OBVIOUS
    <3> QED BY <1>4a
  <2>3. /\ i \in 1 .. StackSize /\ i \in Nat /\ pos <= i /\ pos + (m - 1) - 1 = i - 1
        /\ i \in pos .. pos + n - 1
    BY <1>0
  <2>5. /\ \A h \in 1 .. m - 1 : e[pos + h - 1] = Vector!Value(data, refs[h])
        /\ \A j \in 1 .. StackSize : j < pos \/ i - 1 < j => e[j] = data[j]
    <3> HIDE DEF e, i
    <3> QED BY <2>1, <2>3
  <2> HIDE DEF e, i
  <2>6. Vector!Value(e, refs[m]) = x
    <3>1. CASE refs[m].at = 0 BY <3>1 DEF Vector!Value
    <3>2. CASE refs[m].at # 0
      <4>1. refs[m].at \in 0 .. StackSize /\ refs[m].at < pos OBVIOUS
      <4>2. refs[m].at \in 1 .. StackSize BY <1>0, <3>2, <4>1
      <4>3. e[refs[m].at] = data[refs[m].at] BY <2>5, <4>1, <4>2
      <4> QED BY <3>2, <4>3 DEF Vector!Value
    <3> QED BY <3>1, <3>2
  <2> HIDE DEF x
  <2>4. run[m] = Vector!Assign(e, i, x) BY <1>4a, <2>6 DEF e, i
  <2> DEFINE f == Vector!Assign(e, i, x)
  <2>6a. e[i] = data[i] /\ (trivial \/ e[i] # Raw) BY <2>3, <2>5
  <2>7. f[i] = x /\ \A j \in 1 .. StackSize : j # i => f[j] = e[j]
    BY <2>2, <2>3, <2>6a DEF Vector!Assign, Vector!Assigned, Datas
  <2> HIDE DEF f
  <2>9. \A h \in 1 .. m : f[pos + h - 1] = Vector!Value(data, refs[h])
    <3> TAKE h \in 1 .. m
    <3>1. CASE h = m BY <2>7, <3>1 DEF i, x
    <3>2. CASE h # m
      <4> h \in 1 .. m - 1 /\ pos + h - 1 \in 1 .. StackSize /\ pos + h - 1 # i
        BY <1>0, <2>3, <3>2 DEF i
      <4> QED BY <2>5, <2>7
    <3> QED BY <3>1, <3>2
  <2>11. \A j \in 1 .. StackSize : j < pos \/ i < j => f[j] = data[j]
    <3> SUFFICES ASSUME NEW j \in 1 .. StackSize, j < pos \/ i < j PROVE f[j] = data[j]
      OBVIOUS
    <3>1. j # i /\ (j < pos \/ i - 1 < j) BY <1>0, <2>3
    <3> QED BY <2>5, <2>7, <3>1
  <2>12. P(m, f) BY <2>9, <2>11 DEF i
  <2> HIDE DEF P
  <2> QED BY <2>4, <2>12 DEF f
<1>7. n \in T
  <2> HIDE DEF T
  <2>1. 0 .. n \subseteq T BY <1>5, <1>6, BoundedInduction
  <2> QED BY <2>1
<1>8. P(n, r) /\ r \in Datas
  <2> HIDE DEF P
  <2> QED BY <1>4a, <1>7
<1> QED BY <1>8 DEF Followed

-----------------------------------------------------------------------------
(* What the operations leave.                                              *)

\* A vector whose first slots are a sequence and whose other slots are raw.
LEMMA HoldsIs ==
  ASSUME Vector!SlotsAssumption, NEW vec \in VecRecords, NEW s \in Seq(Values),
         Len(s) = vec.size, \A i \in 1 .. vec.size : vec.data[i] = s[i],
         \A i \in vec.size + 1 .. StackSize : trivial \/ vec.data[i] = Raw
  PROVE  Vector!Holds(vec, s) /\ VecOK(vec)
<1>1. vec.size \in Nat /\ vec.size <= StackSize BY DEF VecRecords, Vector!SlotsAssumption
<1>2. \A i \in 1 .. vec.size : s[i] \in Values OBVIOUS
<1> DEFINE n == vec.size
           e == SubSeq(vec.data, 1, n)
<1>3. e \in Seq(Values) /\ Len(e) = n /\ \A i \in 1 .. n : e[i] = vec.data[i]
  <2>1. \A i \in 1 .. n : vec.data[i] \in Values BY <1>2
  <2> HIDE DEF n
  <2>2. n \in Nat BY <1>1 DEF n
  <2>3. /\ e \in Seq(Values)
        /\ Len(e) = IF 1 <= n THEN n - 1 + 1 ELSE 0
        /\ \A i \in 1 .. n - 1 + 1 : e[i] = vec.data[1 + i - 1]
    BY <2>1, <2>2, SubSeqProperties
  <2>4. n - 1 + 1 = n /\ \A i \in 1 .. n : 1 + i - 1 = i BY <2>2
  <2> HIDE DEF e
  <2> QED BY <2>2, <2>3, <2>4
<1>4. e = s
  <2> HIDE DEF e
  <2> QED BY <1>3, SeqEqual
<1>5. Vector!Holds(vec, s) BY <1>4 DEF Vector!Holds, Vector!Elements
<1>6. VecOK(vec) BY <1>2 DEF VecOK
<1> QED BY <1>5, <1>6

\* The elements of a vector, one by one.
LEMMA VecElementsAre ==
  ASSUME Vector!SlotsAssumption, NEW vec, VecOK(vec)
  PROVE  /\ Vector!Elements(vec) \in Seq(Values)
         /\ Len(Vector!Elements(vec)) = vec.size
         /\ \A i \in 1 .. vec.size : Vector!Elements(vec)[i] = vec.data[i]
         /\ Vector!Holds(vec, Vector!Elements(vec))
<1> DEFINE n == vec.size
           e == SubSeq(vec.data, 1, n)
<1>1. vec \in VecRecords /\ \A i \in 1 .. n : vec.data[i] \in Values BY DEF VecOK
<1>2. n \in Nat BY <1>1 DEF VecRecords, Vector!SlotsAssumption
<1>3. Vector!Elements(vec) = e BY DEF Vector!Elements
<1>4. e \in Seq(Values) /\ Len(e) = n /\ \A i \in 1 .. n : e[i] = vec.data[i]
  <2> HIDE DEF n
  <2>3. /\ e \in Seq(Values)
        /\ Len(e) = IF 1 <= n THEN n - 1 + 1 ELSE 0
        /\ \A i \in 1 .. n - 1 + 1 : e[i] = vec.data[1 + i - 1]
    BY <1>1, <1>2, SubSeqProperties
  <2>4. n - 1 + 1 = n /\ \A i \in 1 .. n : 1 + i - 1 = i BY <1>2
  <2> HIDE DEF e
  <2> QED BY <1>2, <2>3, <2>4
<1>5. Vector!Holds(vec, Vector!Elements(vec)) BY DEF Vector!Holds, VecOK
<1> HIDE DEF e
<1> QED BY <1>3, <1>4, <1>5

\* A range put into a sequence.
PutInto(s, old, pos, range) ==
  /\ Len(s) = Len(old) + Len(range)
  /\ \A i \in 1 .. pos - 1 : s[i] = old[i]
  /\ \A i \in 1 .. Len(range) : s[pos + i - 1] = range[i]
  /\ \A i \in pos + Len(range) .. Len(old) + Len(range) : s[i] = old[i - Len(range)]

\* Splicing puts a range into a sequence.
LEMMA SplicedIs ==
  ASSUME NEW S, NEW old \in Seq(S), NEW range \in Seq(S), NEW pos \in 1 .. Len(old) + 1
  PROVE  /\ Vector!Spliced(old, pos, range) \in Seq(S)
         /\ PutInto(Vector!Spliced(old, pos, range), old, pos, range)
<1> DEFINE m == Len(old)
           c == Len(range)
           f == SubSeq(old, 1, pos - 1)
           b == SubSeq(old, pos, m)
           fr == f \o range
           s == fr \o b
<1>1. m \in Nat /\ c \in Nat /\ pos \in Nat /\ 1 <= pos /\ pos <= m + 1 OBVIOUS
<1>2. \A i \in 1 .. m : old[i] \in S OBVIOUS
<1> HIDE DEF m
<1>3. f \in Seq(S) /\ Len(f) = pos - 1 /\ \A i \in 1 .. pos - 1 : f[i] = old[i]
  <2>1. \A i \in 1 .. pos - 1 : old[i] \in S BY <1>1, <1>2
  <2>2. pos - 1 \in Int /\ 1 \in Int BY <1>1
  <2>3. /\ f \in Seq(S)
        /\ Len(f) = IF 1 <= pos - 1 THEN (pos - 1) - 1 + 1 ELSE 0
        /\ \A i \in 1 .. (pos - 1) - 1 + 1 : f[i] = old[1 + i - 1]
    BY <2>1, <2>2, SubSeqProperties
  <2>4. (pos - 1) - 1 + 1 = pos - 1 /\ \A i \in 1 .. pos - 1 : 1 + i - 1 = i BY <1>1
  <2> HIDE DEF f
  <2> QED BY <1>1, <2>3, <2>4
<1>4. b \in Seq(S) /\ Len(b) = m - pos + 1 /\ \A i \in 1 .. m - pos + 1 : b[i] = old[pos + i - 1]
  <2>1. \A i \in pos .. m : old[i] \in S BY <1>1, <1>2
  <2>3. /\ b \in Seq(S)
        /\ Len(b) = IF pos <= m THEN m - pos + 1 ELSE 0
        /\ \A i \in 1 .. m - pos + 1 : b[i] = old[pos + i - 1]
    BY <1>1, <2>1, SubSeqProperties
  <2> HIDE DEF b
  <2> QED BY <1>1, <2>3
<1> HIDE DEF f, b
<1>5. /\ fr \in Seq(S) /\ Len(fr) = pos - 1 + c
      /\ \A i \in 1 .. pos - 1 + c : fr[i] = IF i <= pos - 1 THEN f[i] ELSE range[i - (pos - 1)]
  <2>1. Len(range) = c OBVIOUS
  <2>2. /\ fr \in Seq(S) /\ Len(fr) = Len(f) + Len(range)
        /\ \A i \in 1 .. Len(f) + Len(range) :
              fr[i] = IF i <= Len(f) THEN f[i] ELSE range[i - Len(f)]
    BY ONLY <1>3, range \in Seq(S), ConcatProperties
  <2> HIDE DEF c, fr
  <2> QED BY ONLY <1>3, <2>1, <2>2
<1>5a. c = Len(range) OBVIOUS
<1> HIDE DEF c
<1> HIDE DEF fr
<1>6. /\ s \in Seq(S) /\ Len(s) = m + c
      /\ \A i \in 1 .. m + c : s[i] = IF i <= pos - 1 + c THEN fr[i] ELSE b[i - (pos - 1 + c)]
  <2>1. Len(fr) + Len(b) = m + c BY <1>1, <1>4, <1>5
  <2>2. /\ s \in Seq(S) /\ Len(s) = Len(fr) + Len(b)
        /\ \A i \in 1 .. Len(fr) + Len(b) :
              s[i] = IF i <= Len(fr) THEN fr[i] ELSE b[i - Len(fr)]
    BY ONLY <1>4, <1>5, ConcatProperties
  <2> HIDE DEF s
  <2> QED BY ONLY <1>5, <2>1, <2>2
<1>7. s = Vector!Spliced(old, pos, range) BY DEF Vector!Spliced, fr, f, b, m
<1> HIDE DEF s
<1>8. \A i \in 1 .. pos - 1 : s[i] = old[i]
  <2> TAKE i \in 1 .. pos - 1
  <2>1. i \in 1 .. m + c /\ i <= pos - 1 + c /\ i \in 1 .. pos - 1 + c /\ i <= pos - 1 BY <1>1
  <2> QED BY <1>3, <1>5, <1>6, <2>1
<1>9. \A i \in 1 .. c : s[pos + i - 1] = range[i]
  <2> TAKE i \in 1 .. c
  <2>1. /\ pos + i - 1 \in 1 .. m + c /\ pos + i - 1 <= pos - 1 + c /\ ~(pos + i - 1 <= pos - 1)
        /\ pos + i - 1 \in 1 .. pos - 1 + c /\ (pos + i - 1) - (pos - 1) = i
    BY <1>1
  <2> QED BY <1>5, <1>6, <2>1
<1>10. \A i \in pos + c .. m + c : s[i] = old[i - c]
  <2> TAKE i \in pos + c .. m + c
  <2>1. /\ i \in 1 .. m + c /\ ~(i <= pos - 1 + c) /\ i - (pos - 1 + c) \in 1 .. m - pos + 1
        /\ pos + (i - (pos - 1 + c)) - 1 = i - c
    BY <1>1
  <2> QED BY <1>4, <1>6, <2>1
<1> QED BY <1>5a, <1>6, <1>7, <1>8, <1>9, <1>10 DEF m, PutInto

\* A range cut out of a sequence.
LEMMA CutIs ==
  ASSUME NEW S, NEW old \in Seq(S), NEW last \in 1 .. Len(old) + 1, NEW first \in 1 .. last
  PROVE  LET s == SubSeq(old, 1, first - 1) \o SubSeq(old, last, Len(old)) IN
           /\ s \in Seq(S) /\ Len(s) = Len(old) - (last - first)
           /\ \A i \in 1 .. first - 1 : s[i] = old[i]
           /\ \A i \in first .. Len(old) - (last - first) : s[i] = old[i + (last - first)]
<1> DEFINE m == Len(old)
           f == SubSeq(old, 1, first - 1)
           b == SubSeq(old, last, m)
           s == f \o b
<1>1. /\ m \in Nat /\ last \in Nat /\ 1 <= last /\ last <= m + 1
      /\ first \in Nat /\ 1 <= first /\ first <= last
  OBVIOUS
<1>2. \A i \in 1 .. m : old[i] \in S OBVIOUS
<1> HIDE DEF m
<1>3. f \in Seq(S) /\ Len(f) = first - 1 /\ \A i \in 1 .. first - 1 : f[i] = old[i]
  <2>1. \A i \in 1 .. first - 1 : old[i] \in S BY <1>1, <1>2
  <2>2. first - 1 \in Int /\ 1 \in Int BY <1>1
  <2>3. /\ f \in Seq(S)
        /\ Len(f) = IF 1 <= first - 1 THEN (first - 1) - 1 + 1 ELSE 0
        /\ \A i \in 1 .. (first - 1) - 1 + 1 : f[i] = old[1 + i - 1]
    BY <2>1, <2>2, SubSeqProperties
  <2>4. (first - 1) - 1 + 1 = first - 1 /\ \A i \in 1 .. first - 1 : 1 + i - 1 = i BY <1>1
  <2> HIDE DEF f
  <2> QED BY <1>1, <2>3, <2>4
<1>4. b \in Seq(S) /\ Len(b) = m - last + 1 /\ \A i \in 1 .. m - last + 1 : b[i] = old[last + i - 1]
  <2>1. \A i \in last .. m : old[i] \in S BY <1>1, <1>2
  <2>3. /\ b \in Seq(S)
        /\ Len(b) = IF last <= m THEN m - last + 1 ELSE 0
        /\ \A i \in 1 .. m - last + 1 : b[i] = old[last + i - 1]
    BY <1>1, <2>1, SubSeqProperties
  <2> HIDE DEF b
  <2> QED BY <1>1, <2>3
<1> HIDE DEF f, b
<1>6. /\ s \in Seq(S) /\ Len(s) = m - (last - first)
      /\ \A i \in 1 .. m - (last - first) : s[i] = IF i <= first - 1 THEN f[i] ELSE b[i - (first - 1)]
  <2>1. Len(f) + Len(b) = m - (last - first) BY <1>1, <1>3, <1>4
  <2> QED BY <1>3, <1>4, <2>1, ConcatProperties
<1> HIDE DEF s
<1>8. \A i \in 1 .. first - 1 : s[i] = old[i]
  <2> \A i \in 1 .. first - 1 : i \in 1 .. m - (last - first) BY <1>1
  <2> QED BY <1>3, <1>6
<1>10. \A i \in first .. m - (last - first) : s[i] = old[i + (last - first)]
  <2> TAKE i \in first .. m - (last - first)
  <2>1. /\ i \in 1 .. m - (last - first) /\ ~(i <= first - 1) /\ i - (first - 1) \in 1 .. m - last + 1
        /\ last + (i - (first - 1)) - 1 = i + (last - first)
    BY <1>1
  <2> QED BY <1>4, <1>6, <2>1
<1> QED BY <1>6, <1>8, <1>10 DEF m, s, f, b

\* What is known of a vector.
LEMMA VecIs ==
  ASSUME Vector!SlotsAssumption, NEW vec, VecOK(vec)
  PROVE  /\ vec.data \in Datas /\ vec.size \in Nat /\ vec.size <= StackSize /\ StackSize \in Nat
         /\ \A i \in 1 .. vec.size : vec.data[i] \in Values /\ vec.data[i] # Raw
         /\ \A i \in vec.size + 1 .. StackSize : trivial \/ vec.data[i] = Raw
BY DEF VecOK, VecRecords, Vector!SlotsAssumption

\* A value that is given is a value, wherever it is.
LEMMA ValueIs ==
  ASSUME Vector!SlotsAssumption, NEW vec, VecOK(vec), NEW ref \in Vector!Refs(vec)
  PROVE  /\ ref \in [at : 0 .. StackSize, value : Slots] /\ ref.at \in 0 .. vec.size
         /\ Vector!Value(vec.data, ref) \in Values /\ Vector!Value(vec.data, ref) # Raw
         /\ Vector!Value(Vector!Elements(vec), ref) = Vector!Value(vec.data, ref)
<1>1. /\ vec.size \in Nat /\ vec.size <= StackSize
      /\ \A i \in 1 .. vec.size : vec.data[i] \in Values /\ vec.data[i] # Raw
  BY VecIs
<1>2. \A i \in 1 .. vec.size : Vector!Elements(vec)[i] = vec.data[i] BY VecElementsAre
<1>3. CASE ref \in [at : {0}, value : Values]
  BY <1>1, <1>3 DEF Vector!Value, Slots, Vector!SlotsAssumption
<1>4. CASE ref \in [at : 1 .. vec.size, value : {Blank}]
  <2>1. ref.at \in 1 .. vec.size /\ ref.at # 0 BY <1>1, <1>4
  <2>2. ref \in [at : 0 .. StackSize, value : Slots]
    <3> DEFINE W == {Blank}
               R == 1 .. vec.size
    <3>1. \A w \in W : w \in Slots BY DEF Slots
    <3>2. \A i \in R : i \in 0 .. StackSize BY <1>1, VecIs
    <3>3. ref \in [at : R, value : W] BY <1>4
    <3> HIDE DEF W, R
    <3> QED BY <3>1, <3>2, <3>3
  <2> QED BY <1>1, <1>2, <2>1, <2>2 DEF Vector!Value
<1> QED BY <1>3, <1>4 DEF Vector!Refs

\* erase: what is behind comes forward, and no element is left behind it.
LEMMA ErasedIs ==
  ASSUME Vector!SlotsAssumption, NEW vec, VecOK(vec),
         NEW last \in 1 .. vec.size + 1, NEW first \in 1 .. last
  PROVE  /\ VecOK(Vector!Erased(vec, first, last))
         /\ Vector!Holds(Vector!Erased(vec, first, last),
                  SubSeq(Vector!Elements(vec), 1, first - 1)
                    \o SubSeq(Vector!Elements(vec), last, vec.size))
<1> DEFINE n == vec.size
           old == Vector!Elements(vec)
           count == last - first
           s == SubSeq(old, 1, first - 1) \o SubSeq(old, last, n)
           e == Vector!Erased(vec, first, last)
<1>1. /\ vec.data \in Datas /\ n \in Nat /\ n <= StackSize /\ StackSize \in Nat
      /\ \A i \in 1 .. n : vec.data[i] \in Values /\ vec.data[i] # Raw
      /\ \A i \in n + 1 .. StackSize : trivial \/ vec.data[i] = Raw
  BY VecIs
<1>2. old \in Seq(Values) /\ Len(old) = n /\ \A i \in 1 .. n : old[i] = vec.data[i]
  BY VecElementsAre
<1>3. /\ first \in Nat /\ last \in Nat /\ 1 <= first /\ first <= last /\ last <= n + 1
      /\ count \in Nat /\ count <= n /\ first = last - count
  BY <1>1
<1> HIDE DEF n, old
<1>4. /\ s \in Seq(Values) /\ Len(s) = n - count
      /\ \A i \in 1 .. first - 1 : s[i] = old[i]
      /\ \A i \in first .. n - count : s[i] = old[i + count]
  <2>1. last \in 1 .. Len(old) + 1 /\ first \in 1 .. last BY <1>2, <1>3
  <2> QED BY <1>2, <2>1, CutIs
<1>5. SUFFICES VecOK(e) /\ Vector!Holds(e, s) BY DEF n, old
<1> HIDE DEF s
<1>6. CASE count = 0
  <2>1. e = vec BY <1>6 DEF Vector!Erased
  <2>2. \A i \in 1 .. n : s[i] = old[i]
    <3> TAKE i \in 1 .. n
    <3>1. CASE i < first BY <1>1, <1>3, <1>4, <3>1
    <3>2. CASE ~(i < first)
      <4>1. i \in first .. n BY <1>1, <1>3, <3>2
      <4>2. n - count = n /\ i + count = i BY <1>1, <1>6
      <4> HIDE DEF count
      <4> QED BY <1>4, <4>1, <4>2
    <3> QED BY <3>1, <3>2
  <2>3. Len(s) = n /\ \A i \in 1 .. n : vec.data[i] = s[i] BY <1>1, <1>2, <1>4, <1>6, <2>2
  <2>4. vec \in VecRecords BY DEF VecOK
  <2> HIDE DEF e
  <2> QED BY <1>1, <1>4, <2>1, <2>3, <2>4, HoldsIs DEF n
<1>7. CASE count # 0
  <2> DEFINE moved == Vector!MoveEach(vec.data, Vector!Up(last, n), -count)
             data == Vector!DestroyEach(moved, Vector!Up(n - count + 1, n))
             v == [data |-> data, size |-> n - count]
  <2>1. e = v BY <1>7 DEF Vector!Erased, n
  <2>2. /\ moved \in Datas
        /\ \A j \in last - count .. n - count : moved[j] = vec.data[j + count]
        /\ \A j \in n - count + 1 .. n : moved[j] # Raw
        /\ \A j \in 1 .. StackSize : j < last - count \/ n < j => moved[j] = vec.data[j]
    <3>1. count \in Nat \ {0} /\ count < last BY <1>3, <1>7
    <3>2. \A j \in last - count .. n : vec.data[j] # Raw BY <1>1, <1>3
    <3> HIDE DEF count, moved
    <3>3. moved = Vector!MoveEach(vec.data, Vector!Up(last, n), -count) BY DEF moved
    <3> QED BY <1>1, <1>3, <3>1, <3>2, <3>3, MovedToFront
  <2> HIDE DEF moved
  <2>3. /\ data \in Datas
        /\ \A j \in n - count + 1 .. n : data[j] = Raw
        /\ \A j \in 1 .. StackSize : j < n - count + 1 \/ n < j => data[j] = moved[j]
    <3>1. n - count + 1 \in Nat \ {0} /\ n - count + 1 <= n + 1 BY <1>1, <1>3
    <3> DEFINE a == n - count + 1
    <3>2. a \in Nat \ {0} /\ a <= n + 1 /\ \A j \in a .. n : moved[j] # Raw BY <2>2, <3>1
    <3>3. data = Vector!DestroyEach(moved, Vector!Up(a, n)) OBVIOUS
    <3> HIDE DEF a, data
    <3>4. /\ data \in Datas
          /\ \A j \in a .. n : data[j] = Raw
          /\ \A j \in 1 .. StackSize : j < a \/ n < j => data[j] = moved[j]
      <4>1. Filled(data, moved, a, n, Raw) BY <1>1, <2>2, <3>2, <3>3, DestroyedIs
      <4> QED BY <4>1 DEF Filled
    <3> QED BY <3>4 DEF a
  <2> HIDE DEF data
  <2>4. \A i \in 1 .. n - count : data[i] = s[i]
    <3> TAKE i \in 1 .. n - count
    <3>0. i \in 1 .. StackSize /\ i < n - count + 1 BY <1>1, <1>3
    <3>1. data[i] = moved[i] BY <2>3, <3>0
    <3>2. CASE i < first
      <4>1. moved[i] = vec.data[i] BY <1>3, <2>2, <3>0, <3>2
      <4>2. i \in 1 .. first - 1 /\ i \in 1 .. n BY <1>1, <1>3, <3>2
      <4> QED BY <1>2, <1>4, <3>1, <4>1, <4>2
    <3>3. CASE ~(i < first)
      <4>1. i \in last - count .. n - count /\ i \in first .. n - count BY <1>3, <3>3
      <4>2. i + count \in 1 .. n BY <1>1, <1>3
      <4> QED BY <1>2, <1>4, <2>2, <3>1, <4>1, <4>2
    <3> QED BY <3>2, <3>3
  <2>5. \A i \in n - count + 1 .. StackSize : trivial \/ data[i] = Raw
    <3> TAKE i \in n - count + 1 .. StackSize
    <3>1. CASE i <= n
      <4> i \in n - count + 1 .. n BY <1>1, <1>3, <3>1
      <4> QED BY <2>3
    <3>2. CASE n < i
      <4>1. i \in 1 .. StackSize /\ i \in n + 1 .. StackSize BY <1>1, <1>3, <3>2
      <4>2. data[i] = moved[i] /\ moved[i] = vec.data[i] BY <2>2, <2>3, <3>2, <4>1
      <4> QED BY <1>1, <4>1, <4>2
    <3> QED BY <1>1, <1>3, <3>1, <3>2
  <2>6. v \in VecRecords
    <3> n - count \in 0 .. StackSize BY <1>1, <1>3
    <3> QED BY <2>3 DEF VecRecords
  <2>7. v.data = data /\ v.size = n - count OBVIOUS
  <2> HIDE DEF v, count
  <2>8. Vector!Holds(v, s) /\ VecOK(v) BY <1>4, <2>4, <2>5, <2>6, <2>7, HoldsIs
  <2> QED BY <2>1, <2>8
<1> QED BY <1>6, <1>7

\* push_back.
LEMMA PushedIs ==
  ASSUME Vector!SlotsAssumption, NEW vec, VecOK(vec), vec.size < StackSize, NEW ref \in Vector!Refs(vec)
  PROVE  /\ VecOK(Vector!Pushed(vec, ref))
         /\ Vector!Holds(Vector!Pushed(vec, ref),
                  Vector!Spliced(Vector!Elements(vec), vec.size + 1, <<Vector!Value(Vector!Elements(vec), ref)>>))
<1> DEFINE n == vec.size
           old == Vector!Elements(vec)
           x == Vector!Value(vec.data, ref)
           s == Vector!Spliced(old, n + 1, <<x>>)
           data == Vector!Construct(vec.data, n + 1, x)
           v == [data |-> data, size |-> n + 1]
<1>1. /\ vec.data \in Datas /\ n \in Nat /\ n <= StackSize /\ StackSize \in Nat
      /\ \A i \in 1 .. n : vec.data[i] \in Values /\ vec.data[i] # Raw
      /\ \A i \in n + 1 .. StackSize : trivial \/ vec.data[i] = Raw
  BY VecIs
<1>2. old \in Seq(Values) /\ Len(old) = n /\ \A i \in 1 .. n : old[i] = vec.data[i]
  BY VecElementsAre
<1>3. x \in Values /\ Vector!Value(old, ref) = x BY ValueIs
<1>4. Vector!Pushed(vec, ref) = v BY DEF Vector!Pushed
<1>5. n < StackSize OBVIOUS
<1> HIDE DEF n, old, x
<1>6. /\ s \in Seq(Values) /\ Len(s) = n + 1
      /\ \A i \in 1 .. n : s[i] = old[i]
      /\ s[n + 1] = x
  <2> DEFINE range == <<x>>
  <2>1. range \in Seq(Values) /\ Len(range) = 1 /\ range[1] = x BY <1>3
  <2> HIDE DEF range
  <2> DEFINE p == n + 1
             t == Vector!Spliced(old, p, range)
  <2>2. p \in 1 .. Len(old) + 1 BY <1>1, <1>2
  <2>4. p - 1 = n /\ p + 1 - 1 = n + 1 /\ 1 \in 1 .. 1 BY <1>1
  <2>5. s = t BY DEF range
  <2> HIDE DEF p
  <2>3. /\ t \in Seq(Values) /\ Len(t) = Len(old) + Len(range)
        /\ \A i \in 1 .. p - 1 : t[i] = old[i]
        /\ \A i \in 1 .. Len(range) : t[p + i - 1] = range[i]
    <3>1. t \in Seq(Values) /\ PutInto(t, old, p, range)
      BY ONLY <1>2, <2>1, <2>2, SplicedIs
    <3> HIDE DEF t
    <3> QED BY <3>1 DEF PutInto
  <2> HIDE DEF s, t
  <2> QED BY <1>2, <2>1, <2>3, <2>4, <2>5
<1> HIDE DEF s
<1>7. data \in Datas /\ data[n + 1] = x /\ \A j \in 1 .. StackSize : j # n + 1 => data[j] = vec.data[j]
  <2>1. n + 1 \in 1 .. StackSize /\ n + 1 \in n + 1 .. StackSize BY <1>1, <1>5
  <2>2. Vector!Constructed(vec.data[n + 1], x) = x BY <1>1, <2>1 DEF Vector!Constructed
  <2>3. x \in Slots BY <1>3 DEF Slots
  <2> QED BY <1>1, <2>1, <2>2, <2>3 DEF Vector!Construct, Datas
<1> HIDE DEF data
<1>8. \A i \in 1 .. n + 1 : data[i] = s[i]
  <2> TAKE i \in 1 .. n + 1
  <2>1. CASE i = n + 1 BY <1>6, <1>7, <2>1
  <2>2. CASE i # n + 1
    <3> i \in 1 .. n /\ i \in 1 .. StackSize BY <1>1, <2>2
    <3> QED BY <1>2, <1>6, <1>7, <2>2
  <2> QED BY <2>1, <2>2
<1>9. \A i \in (n + 1) + 1 .. StackSize : trivial \/ data[i] = Raw
  <2> TAKE i \in (n + 1) + 1 .. StackSize
  <2> i \in n + 1 .. StackSize /\ i \in 1 .. StackSize /\ i # n + 1 BY <1>1
  <2> QED BY <1>1, <1>7
<1>10. v \in VecRecords
  <2> n + 1 \in 0 .. StackSize BY <1>1, <1>5
  <2> QED BY <1>7 DEF VecRecords
<1>11. v.data = data /\ v.size = n + 1 OBVIOUS
<1> HIDE DEF v
<1>12. Vector!Holds(v, s) /\ VecOK(v) BY <1>6, <1>8, <1>9, <1>10, <1>11, HoldsIs
<1> QED BY <1>3, <1>4, <1>12 DEF n, old, s

\* insert of one value, which may be an element that moves.
LEMMA InsertedIs ==
  ASSUME Vector!SlotsAssumption, NEW vec, VecOK(vec), vec.size < StackSize,
         NEW pos \in 1 .. vec.size + 1, NEW ref \in Vector!Refs(vec)
  PROVE  /\ VecOK(Vector!Inserted(vec, pos, ref))
         /\ Vector!Holds(Vector!Inserted(vec, pos, ref),
                  Vector!Spliced(Vector!Elements(vec), pos, <<Vector!Value(Vector!Elements(vec), ref)>>))
<1> DEFINE n == vec.size
           old == Vector!Elements(vec)
           x == Vector!Value(vec.data, ref)
           range == <<x>>
           s == Vector!Spliced(old, pos, range)
<1>1. /\ vec.data \in Datas /\ n \in Nat /\ n <= StackSize /\ StackSize \in Nat
      /\ \A i \in 1 .. n : vec.data[i] \in Values /\ vec.data[i] # Raw
      /\ \A i \in n + 1 .. StackSize : trivial \/ vec.data[i] = Raw
  BY VecIs
<1>2. old \in Seq(Values) /\ Len(old) = n /\ \A i \in 1 .. n : old[i] = vec.data[i]
  BY VecElementsAre
<1>3. /\ x \in Values /\ x # Raw /\ Vector!Value(old, ref) = x
      /\ ref \in [at : 0 .. StackSize, value : Slots] /\ ref.at \in 0 .. n
  BY ValueIs
<1>4. n < StackSize /\ pos \in Nat /\ 1 <= pos /\ pos <= n + 1 BY <1>1
<1>5. CASE pos = n + 1 BY <1>5, PushedIs DEF Vector!Inserted
<1>6. CASE pos # n + 1
  <2> HIDE DEF n, old, x
  <2>1. range \in Seq(Values) /\ Len(range) = 1 /\ range[1] = x BY <1>3
  <2> HIDE DEF range
  <2>2. /\ s \in Seq(Values) /\ Len(s) = n + 1
        /\ \A i \in 1 .. pos - 1 : s[i] = old[i]
        /\ s[pos] = x
        /\ \A i \in pos + 1 .. n + 1 : s[i] = old[i - 1]
    <3>1. s \in Seq(Values) /\ PutInto(s, old, pos, range)
      <4> pos \in 1 .. Len(old) + 1 BY <1>2, <1>4
      <4> QED BY <1>2, <2>1, SplicedIs
    <3>2. pos + 1 - 1 = pos /\ 1 \in 1 .. 1 BY <1>4
    <3> HIDE DEF s
    <3> QED BY <1>2, <2>1, <3>1, <3>2 DEF PutInto
  <2> HIDE DEF s
  <2> DEFINE first == Vector!Construct(vec.data, n + 1, vec.data[n])
             grown == [first EXCEPT ![n] = Vector!Left(@)]
             moved == Vector!MoveEach(grown, Vector!Down(n - 1, pos), 1)
             there == [ref EXCEPT !.at = IF pos <= @ THEN @ + 1 ELSE @]
             data == Vector!Assign(moved, pos, Vector!Value(moved, there))
             v == [data |-> data, size |-> n + 1]
  <2>3. Vector!Inserted(vec, pos, ref) = v BY <1>6 DEF Vector!Inserted, n
  <2>4. n \in 1 .. StackSize /\ n + 1 \in 1 .. StackSize /\ n \in 1 .. n /\ n + 1 \in n + 1 .. StackSize
    BY <1>1, <1>4, <1>6
  <2>5. /\ first \in Datas /\ first[n + 1] = vec.data[n]
        /\ \A j \in 1 .. StackSize : j # n + 1 => first[j] = vec.data[j]
    <3>1. Vector!Constructed(vec.data[n + 1], vec.data[n]) = vec.data[n] BY <1>1, <2>4 DEF Vector!Constructed
    <3>2. vec.data[n] \in Slots BY <1>1, <2>4 DEF Slots
    <3> QED BY <1>1, <2>4, <3>1, <3>2 DEF Vector!Construct, Datas
  <2> HIDE DEF first
  <2>6. /\ grown \in Datas /\ grown[n + 1] = vec.data[n] /\ grown[n] # Raw
        /\ \A j \in 1 .. StackSize : j \notin {n, n + 1} => grown[j] = vec.data[j]
    <3>1. first[n] = vec.data[n] /\ n # n + 1 BY <1>1, <2>4, <2>5
    <3>2. Vector!Left(first[n]) # Raw BY <1>1, <2>4, <3>1, LeftIs
    <3>3. Vector!Left(first[n]) \in Slots BY <1>1, <2>4, <3>1 DEF Vector!Left, Slots
    <3>4. first \in [1 .. StackSize -> Slots] BY <2>5 DEF Datas
    <3>5. /\ grown \in [1 .. StackSize -> Slots] /\ grown[n] = Vector!Left(first[n])
          /\ \A j \in 1 .. StackSize : j # n => grown[j] = first[j]
      BY <2>4, <3>3, <3>4
    <3> HIDE DEF grown
    <3> QED BY <2>4, <2>5, <3>1, <3>2, <3>5 DEF Datas
  <2> HIDE DEF grown
  <2>7. /\ moved \in Datas
        /\ \A j \in pos + 1 .. n : moved[j] = grown[j - 1]
        /\ trivial \/ moved[pos] # Raw
        /\ \A j \in 1 .. StackSize : j < pos \/ n < j => moved[j] = grown[j]
    <3> DEFINE b == n - 1
               k == 1
    <3>1. /\ pos \in Nat \ {0} /\ b \in Nat /\ k \in Nat \ {0} /\ pos <= b + 1 /\ b + k <= StackSize
          /\ b + k = n /\ pos + k = pos + 1 /\ pos + k - 1 = pos /\ b + 1 = n
      BY <1>1, <1>4, <1>6
    <3>2. \A j \in pos .. b : grown[j] # Raw
      <4> TAKE j \in pos .. b
      <4> j \in 1 .. n /\ j \in 1 .. StackSize /\ j \notin {n, n + 1} BY <1>1, <1>4
      <4> QED BY <1>1, <2>6
    <3>3. moved = Vector!MoveEach(grown, Vector!Down(b, pos), k) OBVIOUS
    <3> HIDE DEF b, k, moved
    <3>4. \A j \in b + 1 .. b + k : trivial \/ grown[j] # Raw
      <4> \A j \in b + 1 .. b + k : j = n BY <1>1, <3>1
      <4> QED BY <2>6
    <3>5. /\ moved \in Datas
          /\ \A j \in pos + k .. b + k : moved[j] = grown[j - k]
          /\ \A j \in pos .. pos + k - 1 : trivial \/ moved[j] # Raw
          /\ \A j \in 1 .. StackSize : j < pos \/ b + k < j => moved[j] = grown[j]
      <4>1. MovedBack(moved, grown, pos, b, k)
        BY <2>6, <3>1, <3>2, <3>3, <3>4, MovedToBack
      <4> QED BY <4>1 DEF MovedBack
    <3>6. k = 1 BY DEF k
    <3>7. pos \in pos .. pos + k - 1 BY <1>4, <3>1
    <3> QED BY <3>1, <3>5, <3>6, <3>7
  <2> HIDE DEF moved
  <2>8. \A j \in 1 .. n : j < pos => moved[j] = vec.data[j]
    <3> TAKE j \in 1 .. n
    <3> HAVE j < pos
    <3> j \in 1 .. StackSize /\ j \notin {n, n + 1} BY <1>1, <1>4, <1>6
    <3> QED BY <2>6, <2>7
  <2>9. \A j \in pos + 1 .. n + 1 : moved[j] = vec.data[j - 1]
    <3> TAKE j \in pos + 1 .. n + 1
    <3>1. CASE j = n + 1
      <4> n + 1 - 1 = n /\ n < j BY <1>1, <3>1
      <4> QED BY <2>4, <2>6, <2>7, <3>1
    <3>2. CASE j # n + 1
      <4> j \in pos + 1 .. n /\ j - 1 \in 1 .. StackSize /\ j - 1 \notin {n, n + 1}
        BY <1>1, <1>4, <3>2
      <4> QED BY <2>6, <2>7
    <3> QED BY <3>1, <3>2
  <2>10. Vector!Value(moved, there) = x
    <3>1. CASE ref.at = 0
      <4> ~(pos <= ref.at) BY <1>4, <3>1
      <4> there.at = 0 /\ there.value = ref.value BY <1>3, <3>1
      <4> QED BY <3>1 DEF Vector!Value, x
    <3>2. CASE ref.at # 0 /\ ref.at < pos
      <4>1. ref.at \in 1 .. n BY <1>1, <1>3, <3>2
      <4>2. there.at = ref.at BY <1>1, <1>3, <1>4, <3>2
      <4>3. moved[ref.at] = vec.data[ref.at] BY <2>8, <3>2, <4>1
      <4> QED BY <3>2, <4>2, <4>3 DEF Vector!Value, x
    <3>3. CASE ref.at # 0 /\ pos <= ref.at
      <4>1. ref.at + 1 \in pos + 1 .. n + 1 /\ ref.at + 1 # 0 /\ ref.at + 1 - 1 = ref.at
        BY <1>1, <1>3, <1>4, <3>3
      <4>2. there.at = ref.at + 1 BY <1>3, <3>3
      <4>3. moved[ref.at + 1] = vec.data[ref.at]
        <5> DEFINE j == ref.at + 1
        <5>1. j \in pos + 1 .. n + 1 /\ j - 1 = ref.at
          <6> DEFINE h == ref.at
          <6>1. h \in 0 .. n /\ pos <= h BY <1>3, <3>3
          <6> HIDE DEF h
          <6>2. h + 1 \in pos + 1 .. n + 1 /\ (h + 1) - 1 = h BY <1>1, <1>4, <6>1
          <6> QED BY <6>2 DEF h
        <5> HIDE DEF j
        <5>2. moved[j] = vec.data[ref.at] BY <2>9, <5>1
        <5> QED BY <5>2 DEF j
      <4> QED BY <3>3, <4>1, <4>2, <4>3 DEF Vector!Value, x
    <3> QED BY <1>1, <1>3, <1>4, <3>1, <3>2, <3>3
  <2> HIDE DEF there
  <2>11. data \in Datas /\ data[pos] = x /\ \A j \in 1 .. StackSize : j # pos => data[j] = moved[j]
    <3>1. pos \in 1 .. StackSize BY <1>1, <1>4
    <3>2. Vector!Assigned(moved[pos], x) = x BY <2>7 DEF Vector!Assigned
    <3>3. data = Vector!Assign(moved, pos, x) BY <2>10
    <3>4. x \in Slots BY <1>3 DEF Slots
    <3> HIDE DEF data
    <3> QED BY <2>7, <3>1, <3>2, <3>3, <3>4 DEF Vector!Assign, Datas
  <2> HIDE DEF data
  <2>12. \A i \in 1 .. n + 1 : data[i] = s[i]
    <3> TAKE i \in 1 .. n + 1
    <3>0. i \in 1 .. StackSize BY <1>1, <1>4
    <3>1. CASE i = pos BY <2>2, <2>11, <3>1
    <3>2. CASE i < pos
      <4>1. i \in 1 .. pos - 1 /\ i \in 1 .. n /\ i # pos BY <1>1, <1>4, <3>2
      <4> QED BY <1>2, <2>2, <2>8, <2>11, <3>0, <3>2, <4>1
    <3>3. CASE pos < i
      <4>1. i \in pos + 1 .. n + 1 /\ i - 1 \in 1 .. n /\ i # pos BY <1>1, <1>4, <3>3
      <4> QED BY <1>2, <2>2, <2>9, <2>11, <3>0, <4>1
    <3> QED BY <1>1, <1>4, <3>1, <3>2, <3>3
  <2>13. \A i \in (n + 1) + 1 .. StackSize : trivial \/ data[i] = Raw
    <3> TAKE i \in (n + 1) + 1 .. StackSize
    <3> i \in n + 1 .. StackSize /\ i \in 1 .. StackSize /\ i \notin {n, n + 1} /\ i # pos /\ n < i
      BY <1>1, <1>4
    <3> QED BY <1>1, <2>6, <2>7, <2>11
  <2>14. v \in VecRecords
    <3> n + 1 \in 0 .. StackSize BY <1>1, <1>4
    <3> QED BY <2>11 DEF VecRecords
  <2>15. v.data = data /\ v.size = n + 1 OBVIOUS
  <2> HIDE DEF v
  <2>16. Vector!Holds(v, s) /\ VecOK(v) BY <2>2, <2>12, <2>13, <2>14, <2>15, HoldsIs
  <2> QED BY <1>3, <2>3, <2>16 DEF n, old, s, range
<1> QED BY <1>5, <1>6

\* insert of several values, none of them an element that moves.
LEMMA InsertedManyIs ==
  ASSUME Vector!SlotsAssumption, NEW vec, VecOK(vec), NEW count \in 0 .. StackSize - vec.size,
         NEW pos \in 1 .. vec.size + 1, NEW refs \in [1 .. count -> Vector!Refs(vec)],
         \A k \in 1 .. count : refs[k].at < pos,
         NEW range \in Seq(Values), Len(range) = count,
         \A k \in 1 .. count : range[k] = Vector!Value(Vector!Elements(vec), refs[k])
  PROVE  /\ VecOK(Vector!InsertedMany(vec, pos, refs))
         /\ Vector!Holds(Vector!InsertedMany(vec, pos, refs), Vector!Spliced(Vector!Elements(vec), pos, range))
<1> DEFINE n == vec.size
           old == Vector!Elements(vec)
           s == Vector!Spliced(old, pos, range)
           grown == IF trivial THEN vec.data
                    ELSE Vector!ConstructEach(vec.data, Vector!Up(n + 1, n + count), Blank)
           moved == Vector!MoveEach(grown, Vector!Down(n, pos), count)
           data == Vector!AssignEach(moved, pos, refs)
           v == [data |-> data, size |-> n + count]
<1>1. /\ vec.data \in Datas /\ n \in Nat /\ n <= StackSize /\ StackSize \in Nat
      /\ \A i \in 1 .. n : vec.data[i] \in Values /\ vec.data[i] # Raw
      /\ \A i \in n + 1 .. StackSize : trivial \/ vec.data[i] = Raw
  BY VecIs
<1>2. old \in Seq(Values) /\ Len(old) = n /\ \A i \in 1 .. n : old[i] = vec.data[i]
  BY VecElementsAre
<1>3. \A k \in 1 .. count :
        /\ refs[k] \in [at : 0 .. StackSize, value : Slots] /\ refs[k].at \in 0 .. n
        /\ Vector!Value(vec.data, refs[k]) = range[k]
  <2> TAKE k \in 1 .. count
  <2> refs[k] \in Vector!Refs(vec) OBVIOUS
  <2> QED BY ValueIs
<1>4. /\ count \in Nat /\ n + count <= StackSize /\ pos \in Nat \ {0} /\ 1 <= pos /\ pos <= n + 1
  BY <1>1
<1>5. Len(refs) = count BY <1>4
<1> HIDE DEF n, old
<1>6. /\ s \in Seq(Values) /\ Len(s) = n + count
      /\ \A i \in 1 .. pos - 1 : s[i] = old[i]
      /\ \A i \in 1 .. count : s[pos + i - 1] = range[i]
      /\ \A i \in pos + count .. n + count : s[i] = old[i - count]
  <2>1. s \in Seq(Values) /\ PutInto(s, old, pos, range)
    <3> pos \in 1 .. Len(old) + 1 BY <1>2, <1>4
    <3> QED BY <1>2, SplicedIs
  <2> HIDE DEF s
  <2> QED BY <1>2, <2>1 DEF PutInto
<1> HIDE DEF s
<1>7. SUFFICES VecOK(Vector!InsertedMany(vec, pos, refs)) /\ Vector!Holds(Vector!InsertedMany(vec, pos, refs), s)
  BY DEF s, old
<1>8. CASE count = 0
  <2>1. Vector!InsertedMany(vec, pos, refs) = vec BY <1>5, <1>8 DEF Vector!InsertedMany
  <2>2. \A i \in 1 .. n : s[i] = old[i]
    <3> TAKE i \in 1 .. n
    <3>1. CASE i < pos
      <4> i \in 1 .. pos - 1 BY <1>1, <1>4, <3>1
      <4> QED BY <1>6
    <3>2. CASE ~(i < pos)
      <4> i \in pos + count .. n + count /\ i - count = i BY <1>1, <1>4, <1>8, <3>2
      <4> QED BY <1>6
    <3> QED BY <3>1, <3>2
  <2>3. Len(s) = n /\ \A i \in 1 .. n : vec.data[i] = s[i] BY <1>1, <1>2, <1>6, <1>8, <2>2
  <2>4. vec \in VecRecords BY DEF VecOK
  <2> QED BY <1>1, <1>6, <2>1, <2>3, <2>4, HoldsIs DEF n
<1>9. CASE count # 0
  <2>1. Vector!InsertedMany(vec, pos, refs) = v BY <1>5, <1>9 DEF Vector!InsertedMany, n
  <2>2. /\ grown \in Datas
        /\ \A j \in n + 1 .. n + count : trivial \/ grown[j] # Raw
        /\ \A j \in 1 .. StackSize : j < n + 1 \/ n + count < j => grown[j] = vec.data[j]
    <3>1. CASE trivial BY <1>1, <3>1
    <3>2. CASE ~trivial
      <4> DEFINE a == n + 1
                 b == n + count
      <4>1. /\ a \in Nat \ {0} /\ b \in Nat /\ a <= b + 1 /\ b <= StackSize
            /\ \A j \in a .. b : trivial \/ vec.data[j] = Raw
        BY <1>1, <1>4
      <4>2. Blank \in Slots /\ Blank # Raw BY DEF Slots, Vector!SlotsAssumption
      <4>3. grown = Vector!ConstructEach(vec.data, Vector!Up(a, b), Blank) BY <3>2
      <4> HIDE DEF a, b, grown
      <4>4. /\ grown \in Datas
            /\ \A j \in a .. b : grown[j] = Blank
            /\ \A j \in 1 .. StackSize : j < a \/ b < j => grown[j] = vec.data[j]
        <5>1. Filled(grown, vec.data, a, b, Blank)
          BY <1>1, <4>1, <4>2, <4>3, ConstructedIs
        <5> QED BY <5>1 DEF Filled
      <4> QED BY <4>2, <4>4 DEF a, b
    <3> QED BY <3>1, <3>2
  <2> HIDE DEF grown
  <2>3. /\ moved \in Datas
        /\ \A j \in pos + count .. n + count : moved[j] = grown[j - count]
        /\ \A j \in pos .. pos + count - 1 : trivial \/ moved[j] # Raw
        /\ \A j \in 1 .. StackSize : j < pos \/ n + count < j => moved[j] = grown[j]
    <3>1. \A j \in pos .. n : grown[j] # Raw
      <4> TAKE j \in pos .. n
      <4> j \in 1 .. n /\ j \in 1 .. StackSize /\ j < n + 1 BY <1>1, <1>4
      <4> QED BY <1>1, <2>2
    <3>2. count \in Nat \ {0} BY <1>4, <1>9
    <3>3. moved = Vector!MoveEach(grown, Vector!Down(n, pos), count) OBVIOUS
    <3> HIDE DEF moved
    <3>4. MovedBack(moved, grown, pos, n, count)
      BY <1>1, <1>4, <2>2, <3>1, <3>2, <3>3, MovedToBack
    <3> QED BY <3>4 DEF MovedBack
  <2> HIDE DEF moved
  <2>4. \A j \in 1 .. n : j < pos => moved[j] = vec.data[j]
    <3> TAKE j \in 1 .. n
    <3> HAVE j < pos
    <3> j \in 1 .. StackSize /\ j < n + 1 BY <1>1
    <3> QED BY <2>2, <2>3
  <2>5. \A k \in 1 .. count : Vector!Value(moved, refs[k]) = range[k]
    <3> TAKE k \in 1 .. count
    <3>1. CASE refs[k].at = 0 BY <1>3, <3>1 DEF Vector!Value
    <3>2. CASE refs[k].at # 0
      <4>1. refs[k].at \in 1 .. n /\ refs[k].at < pos BY <1>1, <1>3, <3>2
      <4>2. moved[refs[k].at] = vec.data[refs[k].at] BY <2>4, <4>1
      <4> QED BY <1>3, <3>2, <4>2 DEF Vector!Value
    <3> QED BY <3>1, <3>2
  <2>6. /\ data \in Datas
        /\ \A i \in 1 .. count : data[pos + i - 1] = range[i]
        /\ \A j \in 1 .. StackSize : j < pos \/ pos + count - 1 < j => data[j] = moved[j]
    <3>1. pos + count - 1 <= StackSize BY <1>1, <1>4
    <3>2. data = Vector!AssignEach(moved, pos, refs) OBVIOUS
    <3> HIDE DEF data
    <3>3. /\ data \in Datas
          /\ \A i \in 1 .. count : data[pos + i - 1] = Vector!Value(moved, refs[i])
          /\ \A j \in 1 .. StackSize : j < pos \/ pos + count - 1 < j => data[j] = moved[j]
      <4>1. Followed(data, moved, pos, count, refs)
        BY <1>3, <1>4, <1>5, <2>3, <3>1, <3>2, AssignedIs
      <4> QED BY <4>1 DEF Followed
    <3> QED BY <2>5, <3>3
  <2> HIDE DEF data
  <2>7. \A i \in 1 .. n + count : data[i] = s[i]
    <3> TAKE i \in 1 .. n + count
    <3>0. i \in 1 .. StackSize BY <1>1, <1>4
    <3>1. CASE i < pos
      <4>1. i \in 1 .. pos - 1 /\ i \in 1 .. n BY <1>1, <1>4, <3>1
      <4> QED BY <1>2, <1>6, <2>4, <2>6, <3>0, <3>1, <4>1
    <3>2. CASE pos <= i /\ i <= pos + count - 1
      <4> DEFINE k == i - pos + 1
      <4>1. k \in 1 .. count /\ pos + k - 1 = i BY <1>1, <1>4, <3>2
      <4> HIDE DEF k
      <4> QED BY <1>6, <2>6, <4>1
    <3>3. CASE pos + count - 1 < i
      <4>1. /\ i \in pos + count .. n + count /\ i - count \in 1 .. n
            /\ i - count \in 1 .. StackSize /\ i - count < n + 1
        BY <1>1, <1>4, <3>3
      <4>2. data[i] = vec.data[i - count] BY <2>2, <2>3, <2>6, <3>0, <3>3, <4>1
      <4> QED BY <1>2, <1>6, <4>1, <4>2
    <3> QED BY <1>1, <1>4, <3>1, <3>2, <3>3
  <2>8. \A i \in (n + count) + 1 .. StackSize : trivial \/ data[i] = Raw
    <3> TAKE i \in (n + count) + 1 .. StackSize
    <3> i \in n + 1 .. StackSize /\ i \in 1 .. StackSize /\ pos + count - 1 < i /\ n + count < i
      BY <1>1, <1>4
    <3> QED BY <1>1, <2>2, <2>3, <2>6
  <2>9. v \in VecRecords
    <3> n + count \in 0 .. StackSize BY <1>1, <1>4
    <3> QED BY <2>6 DEF VecRecords
  <2>10. v.data = data /\ v.size = n + count OBVIOUS
  <2> HIDE DEF v
  <2>11. Vector!Holds(v, s) /\ VecOK(v) BY <1>6, <2>7, <2>8, <2>9, <2>10, HoldsIs
  <2> QED BY <2>1, <2>11
<1> QED BY <1>8, <1>9

\* resize: what is new holds the value, what is gone is raw.
LEMMA ResizedIs ==
  ASSUME Vector!SlotsAssumption, NEW vec, VecOK(vec), NEW size \in 0 .. StackSize,
         NEW value \in Values
  PROVE  /\ VecOK(Vector!Resized(vec, size, value))
         /\ Vector!Holds(Vector!Resized(vec, size, value),
                  [i \in 1 .. size |->
                     IF i <= vec.size THEN Vector!Elements(vec)[i] ELSE value])
<1> DEFINE n == vec.size
           old == Vector!Elements(vec)
           s == [i \in 1 .. size |-> IF i <= n THEN old[i] ELSE value]
           longer == Vector!ConstructEach(vec.data, Vector!Up(n + 1, size), value)
           shorter == Vector!DestroyEach(vec.data, Vector!Up(size + 1, n))
           data == IF size > n THEN longer ELSE shorter
           v == [data |-> data, size |-> size]
<1>1. /\ vec.data \in Datas /\ n \in Nat /\ n <= StackSize /\ StackSize \in Nat
      /\ \A i \in 1 .. n : vec.data[i] \in Values /\ vec.data[i] # Raw
      /\ \A i \in n + 1 .. StackSize : trivial \/ vec.data[i] = Raw
  BY VecIs
<1>2. old \in Seq(Values) /\ Len(old) = n /\ \A i \in 1 .. n : old[i] = vec.data[i]
  BY VecElementsAre
<1>3. Vector!Resized(vec, size, value) = v BY DEF Vector!Resized
<1>4. size \in Nat /\ size <= StackSize BY <1>1
<1> HIDE DEF n, old
<1>5. s \in Seq(Values) /\ Len(s) = size /\ \A i \in 1 .. size : s[i] = IF i <= n THEN old[i] ELSE value
  <2>1. \A i \in 1 .. size : (IF i <= n THEN old[i] ELSE value) \in Values
    <3> TAKE i \in 1 .. size
    <3>1. CASE i <= n
      <4> i \in 1 .. n BY <1>1, <1>4, <3>1
      <4> QED BY <1>1, <1>2, <3>1
    <3>2. CASE ~(i <= n) BY <3>2
    <3> QED BY <3>1, <3>2
  <2>2. s \in [1 .. size -> Values] BY <2>1
  <2>3. \A i \in 1 .. size : s[i] = IF i <= n THEN old[i] ELSE value OBVIOUS
  <2> HIDE DEF s
  <2> QED BY <1>4, <2>2, <2>3
<1> HIDE DEF s
<1>6. /\ data \in Datas
      /\ \A i \in 1 .. size : data[i] = s[i]
      /\ \A i \in size + 1 .. StackSize : trivial \/ data[i] = Raw
  <2>1. CASE size > n
    <3> DEFINE a == n + 1
    <3>1. /\ a \in Nat \ {0} /\ a <= size + 1
          /\ \A j \in a .. size : trivial \/ vec.data[j] = Raw
      BY <1>1, <1>4, <2>1
    <3>2. value \in Slots BY DEF Slots
    <3>3. data = longer BY <2>1
    <3>4. longer = Vector!ConstructEach(vec.data, Vector!Up(a, size), value) OBVIOUS
    <3> HIDE DEF a, data, longer
    <3>5. /\ longer \in Datas
          /\ \A j \in a .. size : longer[j] = value
          /\ \A j \in 1 .. StackSize : j < a \/ size < j => longer[j] = vec.data[j]
      <4>1. Filled(longer, vec.data, a, size, value)
        BY <1>1, <1>4, <3>1, <3>2, <3>4, ConstructedIs
      <4> QED BY <4>1 DEF Filled
    <3>6. \A i \in 1 .. size : longer[i] = s[i]
      <4> TAKE i \in 1 .. size
      <4>0. i \in 1 .. StackSize BY <1>1, <1>4
      <4>1. CASE i <= n
        <5> i \in 1 .. n /\ i < a BY <1>1, <1>4, <4>1 DEF a
        <5> QED BY <1>2, <1>5, <3>5, <4>0, <4>1
      <4>2. CASE ~(i <= n)
        <5> i \in a .. size BY <1>1, <1>4, <4>2 DEF a
        <5> QED BY <1>5, <3>5, <4>2
      <4> QED BY <4>1, <4>2
    <3>7. \A i \in size + 1 .. StackSize : trivial \/ longer[i] = Raw
      <4> TAKE i \in size + 1 .. StackSize
      <4> i \in 1 .. StackSize /\ i \in n + 1 .. StackSize /\ size < i BY <1>1, <1>4, <2>1
      <4> QED BY <1>1, <3>5
    <3> QED BY <3>3, <3>5, <3>6, <3>7
  <2>2. CASE ~(size > n)
    <3> DEFINE a == size + 1
    <3>1. a \in Nat \ {0} /\ a <= n + 1 /\ \A j \in a .. n : vec.data[j] # Raw
      BY <1>1, <1>4, <2>2
    <3>3. data = shorter BY <2>2
    <3>4. shorter = Vector!DestroyEach(vec.data, Vector!Up(a, n)) OBVIOUS
    <3> HIDE DEF a, data, shorter
    <3>5. /\ shorter \in Datas
          /\ \A j \in a .. n : shorter[j] = Raw
          /\ \A j \in 1 .. StackSize : j < a \/ n < j => shorter[j] = vec.data[j]
      <4>1. Filled(shorter, vec.data, a, n, Raw)
        BY <1>1, <3>1, <3>4, DestroyedIs
      <4> QED BY <4>1 DEF Filled
    <3>6. \A i \in 1 .. size : shorter[i] = s[i]
      <4> TAKE i \in 1 .. size
      <4> i \in 1 .. StackSize /\ i \in 1 .. n /\ i < a /\ i <= n BY <1>1, <1>4, <2>2 DEF a
      <4> QED BY <1>2, <1>5, <3>5
    <3>7. \A i \in size + 1 .. StackSize : trivial \/ shorter[i] = Raw
      <4> TAKE i \in size + 1 .. StackSize
      <4>0. i \in 1 .. StackSize BY <1>1, <1>4
      <4>1. CASE i <= n
        <5> i \in a .. n BY <1>1, <1>4, <4>1 DEF a
        <5> QED BY <3>5
      <4>2. CASE ~(i <= n)
        <5> i \in n + 1 .. StackSize /\ n < i BY <1>1, <1>4, <4>2
        <5> QED BY <1>1, <3>5, <4>0
      <4> QED BY <4>1, <4>2
    <3> QED BY <3>3, <3>5, <3>6, <3>7
  <2> QED BY <2>1, <2>2
<1> HIDE DEF data
<1>7. v \in VecRecords BY <1>6 DEF VecRecords
<1>8. v.data = data /\ v.size = size OBVIOUS
<1> HIDE DEF v
<1>9. Vector!Holds(v, s) /\ VecOK(v) BY <1>5, <1>6, <1>7, <1>8, HoldsIs
<1> QED BY <1>3, <1>9 DEF n, old, s

-----------------------------------------------------------------------------
(* Every vector that the program builds.                                   *)

VecsInv ==
  /\ trivial \in BOOLEAN
  /\ vecs \in [Vectors -> VecRecords]
  /\ \A v \in Vectors : VecOK(vecs[v])

\* Empty vectors are in order.
LEMMA InitVecs ==
  ASSUME Vector!SlotsAssumption, Vector!Init
  PROVE  VecsInv
<1>1. [data |-> [i \in 1 .. StackSize |-> Raw], size |-> 0] \in VecRecords
  BY DEF Vector!SlotsAssumption, VecRecords, Datas, Slots
<1>2. \A v \in Vectors : VecOK([data |-> [i \in 1 .. StackSize |-> Raw], size |-> 0])
  BY <1>1 DEF VecOK, Vector!SlotsAssumption
<1> QED BY <1>1, <1>2 DEF Vector!Init, VecsInv

\* A range of values is a sequence of them.
LEMMA RangeIs ==
  ASSUME Vector!SlotsAssumption, NEW vec, VecOK(vec), NEW range \in Vector!Ranges(vec)
  PROVE  range \in Seq(Values) /\ Len(range) \in 0 .. Vector!Room(vec) /\ DOMAIN range = 1 .. Len(range)
<1>1. PICK n \in 0 .. Vector!Room(vec) : range \in [1 .. n -> Values] BY DEF Vector!Ranges
<1>2. Vector!Room(vec) \in Nat BY VecIs DEF Vector!Room
<1>3. n \in Nat BY <1>2
<1> QED BY <1>1, <1>3

\* insert of a range.
LEMMA InsertedRangeIs ==
  ASSUME Vector!SlotsAssumption, NEW vec, VecOK(vec), NEW pos \in Vector!Places(vec),
         NEW range \in Vector!Ranges(vec)
  PROVE  /\ VecOK(Vector!InsertedRange(vec, pos, range))
         /\ Vector!Holds(Vector!InsertedRange(vec, pos, range), Vector!Spliced(Vector!Elements(vec), pos, range))
<1> DEFINE count == Len(range)
           refs == [k \in 1 .. count |-> [at |-> 0, value |-> range[k]]]
<1>1. range \in Seq(Values) /\ count \in 0 .. StackSize - vec.size /\ DOMAIN range = 1 .. count
  BY RangeIs DEF Vector!Room
<1>2. pos \in 1 .. vec.size + 1 /\ 0 < pos BY VecIs DEF Vector!Places
<1>3. Vector!InsertedRange(vec, pos, range) = Vector!InsertedMany(vec, pos, refs)
  BY <1>1 DEF Vector!InsertedRange
<1>4. \A k \in 1 .. count : range[k] \in Values BY <1>1
<1> HIDE DEF count
<1>5. \A k \in 1 .. count : refs[k].at = 0 /\ refs[k].value = range[k] OBVIOUS
<1>6. refs \in [1 .. count -> Vector!Refs(vec)] BY <1>4 DEF Vector!Refs
<1> HIDE DEF refs
<1>7. \A k \in 1 .. count : refs[k].at < pos BY <1>2, <1>5
<1>8. \A k \in 1 .. count : range[k] = Vector!Value(Vector!Elements(vec), refs[k]) BY <1>5 DEF Vector!Value
<1>9. Len(range) = count BY DEF count
<1> QED BY <1>1, <1>2, <1>3, <1>6, <1>7, <1>8, <1>9, InsertedManyIs

\* insert of copies of one value, which is in front of them if it is an element.
LEMMA InsertedCountIs ==
  ASSUME Vector!SlotsAssumption, NEW vec, VecOK(vec), NEW pos \in Vector!Places(vec),
         NEW count \in 0 .. Vector!Room(vec), NEW ref \in Vector!StableRefs(vec, pos)
  PROVE  /\ VecOK(Vector!InsertedCount(vec, pos, count, ref))
         /\ Vector!Holds(Vector!InsertedCount(vec, pos, count, ref),
                  Vector!Spliced(Vector!Elements(vec), pos, [k \in 1 .. count |-> Vector!Value(Vector!Elements(vec), ref)]))
<1> DEFINE x == Vector!Value(Vector!Elements(vec), ref)
           refs == [k \in 1 .. count |-> ref]
           range == [k \in 1 .. count |-> x]
<1>1. count \in 0 .. StackSize - vec.size /\ count \in Nat BY VecIs DEF Vector!Room
<1>2. pos \in 1 .. vec.size + 1 BY DEF Vector!Places
<1>3. ref \in Vector!Refs(vec) /\ ref.at < pos BY DEF Vector!StableRefs
<1>4. x \in Values BY <1>3, ValueIs
<1>5. Vector!InsertedCount(vec, pos, count, ref) = Vector!InsertedMany(vec, pos, refs)
  BY DEF Vector!InsertedCount
<1>6. refs \in [1 .. count -> Vector!Refs(vec)] /\ \A k \in 1 .. count : refs[k] = ref BY <1>3
<1>7. \A k \in 1 .. count : range[k] = Vector!Value(Vector!Elements(vec), refs[k]) BY <1>6
<1> HIDE DEF x, refs
<1>8. range \in Seq(Values) /\ Len(range) = count
  <2>1. range \in [1 .. count -> Values] BY <1>4
  <2> HIDE DEF range
  <2> QED BY <1>1, <2>1
<1>9. \A k \in 1 .. count : refs[k].at < pos BY <1>3, <1>6
<1> HIDE DEF range
<1>10. /\ VecOK(Vector!InsertedMany(vec, pos, refs))
       /\ Vector!Holds(Vector!InsertedMany(vec, pos, refs), Vector!Spliced(Vector!Elements(vec), pos, range))
  BY <1>1, <1>2, <1>6, <1>7, <1>8, <1>9, InsertedManyIs
<1> QED BY <1>5, <1>10 DEF range, x

\* A vector that became another one that is in order.
LEMMA BecomesOK ==
  ASSUME VecsInv, UNCHANGED trivial, NEW v \in Vectors, NEW vec, VecOK(vec), Vector!Becomes(v, vec)
  PROVE  VecsInv'
<1>1. vec \in VecRecords BY DEF VecOK
<1>2. vecs' = [vecs EXCEPT ![v] = vec] BY DEF Vector!Becomes
<1>3. vecs' \in [Vectors -> VecRecords] BY <1>1, <1>2 DEF VecsInv
<1>4. \A w \in Vectors : VecOK(vecs'[w]) BY <1>2 DEF VecsInv
<1>5. \A w \in Vectors : VecOK(vecs[w])'
  BY <1>4 DEF VecOK, VecRecords, Datas, Slots
<1>6. (vecs \in [Vectors -> VecRecords])' BY <1>3 DEF VecRecords, Datas, Slots
<1>7. (trivial \in BOOLEAN)' BY DEF VecsInv
<1> QED BY <1>5, <1>6, <1>7 DEF VecsInv

\* No operation leaves a vector out of order.
LEMMA VecsStep ==
  ASSUME Vector!SlotsAssumption, VecsInv, [Vector!Next]_vectorVars
  PROVE  VecsInv'
<1>0. \A v \in Vectors : VecOK(vecs[v]) BY DEF VecsInv
<1>1. CASE UNCHANGED vectorVars
  BY <1>1 DEF vectorVars, VecsInv, VecOK, VecRecords, Datas, Slots
<1>2. ASSUME UNCHANGED trivial, NEW v \in Vectors, Vector!PushBack(v) PROVE VecsInv'
  <2>1. PICK ref \in Vector!Refs(vecs[v]) : Vector!Room(vecs[v]) > 0 /\ Vector!Becomes(v, Vector!Pushed(vecs[v], ref))
    BY <1>2 DEF Vector!PushBack
  <2>2. vecs[v].size < StackSize BY <1>0, <2>1, VecIs DEF Vector!Room
  <2>3. VecOK(Vector!Pushed(vecs[v], ref)) BY <1>0, <2>2, PushedIs
  <2> QED BY <1>2, <2>1, <2>3, BecomesOK
<1>3. ASSUME UNCHANGED trivial, NEW v \in Vectors, Vector!Erase(v) \/ Vector!Clear(v) PROVE VecsInv'
  <2>0. vecs[v].size \in Nat BY <1>0, VecIs
  <2>1. PICK first, last \in Vector!Places(vecs[v]) :
          first <= last /\ Vector!Becomes(v, Vector!Erased(vecs[v], first, last))
    <3>1. CASE Vector!Erase(v) BY <3>1 DEF Vector!Erase
    <3>2. CASE Vector!Clear(v)
      <4> 1 \in Vector!Places(vecs[v]) /\ vecs[v].size + 1 \in Vector!Places(vecs[v]) /\ 1 <= vecs[v].size + 1
        BY <2>0 DEF Vector!Places
      <4> QED BY <3>2 DEF Vector!Clear
    <3> QED BY <1>3, <3>1, <3>2
  <2>2. last \in 1 .. vecs[v].size + 1 /\ first \in 1 .. last BY <2>0, <2>1 DEF Vector!Places
  <2>3. VecOK(Vector!Erased(vecs[v], first, last)) BY <1>0, <2>2, ErasedIs
  <2> QED BY <1>3, <2>1, <2>3, BecomesOK
<1>4. ASSUME UNCHANGED trivial, NEW v \in Vectors, Vector!Insert(v) PROVE VecsInv'
  <2>1. PICK pos \in Vector!Places(vecs[v]), ref \in Vector!Refs(vecs[v]) :
          Vector!Room(vecs[v]) > 0 /\ Vector!Becomes(v, Vector!Inserted(vecs[v], pos, ref))
    BY <1>4 DEF Vector!Insert
  <2>2. vecs[v].size < StackSize BY <1>0, <2>1, VecIs DEF Vector!Room
  <2>3. pos \in 1 .. vecs[v].size + 1 BY DEF Vector!Places
  <2>4. VecOK(Vector!Inserted(vecs[v], pos, ref)) BY <1>0, <2>2, <2>3, InsertedIs
  <2> QED BY <1>4, <2>1, <2>4, BecomesOK
<1>5. ASSUME UNCHANGED trivial, NEW v \in Vectors, Vector!InsertCopies(v) PROVE VecsInv'
  <2>0. PICK pos \in Vector!Places(vecs[v]), count \in 0 .. Vector!Room(vecs[v]) :
          \E ref \in Vector!StableRefs(vecs[v], pos) :
            Vector!Becomes(v, Vector!InsertedCount(vecs[v], pos, count, ref))
    BY <1>5 DEF Vector!InsertCopies
  <2>1. PICK ref \in Vector!StableRefs(vecs[v], pos) :
          Vector!Becomes(v, Vector!InsertedCount(vecs[v], pos, count, ref))
    BY <2>0
  <2>2. VecOK(Vector!InsertedCount(vecs[v], pos, count, ref)) BY <1>0, InsertedCountIs
  <2> QED BY <1>5, <2>1, <2>2, BecomesOK
<1>6. ASSUME UNCHANGED trivial, NEW v \in Vectors, Vector!InsertRange(v) PROVE VecsInv'
  <2>1. PICK pos \in Vector!Places(vecs[v]), range \in Vector!Ranges(vecs[v]) :
          Vector!Becomes(v, Vector!InsertedRange(vecs[v], pos, range))
    BY <1>6 DEF Vector!InsertRange
  <2>2. VecOK(Vector!InsertedRange(vecs[v], pos, range)) BY <1>0, InsertedRangeIs
  <2> QED BY <1>6, <2>1, <2>2, BecomesOK
<1>7. ASSUME UNCHANGED trivial, NEW v \in Vectors, Vector!Resize(v) PROVE VecsInv'
  <2>1. PICK size \in 0 .. StackSize, value \in Values :
          Vector!Becomes(v, Vector!Resized(vecs[v], size, value))
    BY <1>7 DEF Vector!Resize
  <2>2. VecOK(Vector!Resized(vecs[v], size, value)) BY <1>0, ResizedIs
  <2> QED BY <1>7, <2>1, <2>2, BecomesOK
<1>8. ASSUME UNCHANGED trivial, NEW v \in Vectors, NEW other \in Vectors, Vector!Copy(v, other)
      PROVE  VecsInv'
  BY <1>0, <1>8, BecomesOK DEF Vector!Copy
<1>9. ASSUME UNCHANGED trivial, NEW v \in Vectors, NEW other \in Vectors, Vector!Swap(v, other)
      PROVE  VecsInv'
  <2>1. vecs' = [vecs EXCEPT ![v] = vecs[other], ![other] = vecs[v]] BY <1>9 DEF Vector!Swap
  <2>2. vecs' \in [Vectors -> VecRecords] /\ \A w \in Vectors : VecOK(vecs'[w])
    BY <1>0, <2>1 DEF VecsInv
  <2>3. \A w \in Vectors : VecOK(vecs[w])'
    BY <1>9, <2>2 DEF VecOK, VecRecords, Datas, Slots
  <2>4. (vecs \in [Vectors -> VecRecords])' BY <2>2 DEF VecRecords, Datas, Slots
  <2>5. (trivial \in BOOLEAN)' BY <1>9 DEF VecsInv
  <2> QED BY <2>3, <2>4, <2>5 DEF VecsInv
<1>10. CASE Vector!Next
  <2>1. /\ UNCHANGED trivial
        /\ \E v \in Vectors :
             \/ Vector!PushBack(v) \/ Vector!Erase(v) \/ Vector!Insert(v) \/ Vector!InsertCopies(v)
             \/ Vector!InsertRange(v) \/ Vector!Resize(v) \/ Vector!Clear(v)
             \/ \E other \in Vectors : Vector!Copy(v, other) \/ Vector!Swap(v, other)
    BY <1>10 DEF Vector!Next
  <2> QED BY ONLY <1>2, <1>3, <1>4, <1>5, <1>6, <1>7, <1>8, <1>9, <2>1
<1> QED BY <1>1, <1>10

\* The elements of a vector are in front, all of them values, and there is none
\* behind them.
THEOREM VectorsInvariance == ContainersSpec => []VecsInv
<1>1. ContainersInit => VecsInv BY SlotsAssumption, InitVecs DEF ContainersInit
<1>2. VecsInv /\ [ContainersNext]_containerVars => VecsInv'
  BY SlotsAssumption, VecsStep, PartsStep
<1> QED BY <1>1, <1>2, PTL DEF ContainersSpec

\* What each operation leaves follows.
LEMMA VecsAreAsAsked ==
  ASSUME Vector!SlotsAssumption, VecsInv
  PROVE  Vector!VectorsAsAsked
<1> SUFFICES ASSUME NEW v \in Vectors
             PROVE  LET vec == vecs[v]
                        old == Vector!Elements(vec)
                    IN  /\ Vector!Holds(vec, old) /\ Vector!Range(old) \subseteq Values
                        /\ \A pos \in Vector!Places(vec) :
                             /\ Vector!Room(vec) > 0 => \A ref \in Vector!Refs(vec) :
                                  Vector!Holds(Vector!Inserted(vec, pos, ref),
                                        Vector!Spliced(old, pos, <<Vector!Value(old, ref)>>))
                             /\ \A range \in Vector!Ranges(vec) :
                                  Vector!Holds(Vector!InsertedRange(vec, pos, range), Vector!Spliced(old, pos, range))
                             /\ \A count \in 0 .. Vector!Room(vec), ref \in Vector!StableRefs(vec, pos) :
                                  Vector!Holds(Vector!InsertedCount(vec, pos, count, ref),
                                        Vector!Spliced(old, pos, [k \in 1 .. count |-> Vector!Value(old, ref)]))
                             /\ \A first \in 1 .. pos :
                                  Vector!Holds(Vector!Erased(vec, first, pos),
                                        SubSeq(old, 1, first - 1) \o SubSeq(old, pos, vec.size))
                        /\ \A size \in 0 .. StackSize, value \in Values :
                             Vector!Holds(Vector!Resized(vec, size, value),
                                   [i \in 1 .. size |-> IF i <= vec.size THEN old[i] ELSE value])
  BY DEF Vector!VectorsAsAsked
<1> DEFINE vec == vecs[v]
           old == Vector!Elements(vec)
<1>1. VecOK(vec) BY DEF VecsInv
<1> HIDE DEF vec
<1>2. Vector!Holds(vec, old) /\ Vector!Range(old) \subseteq Values
  <2>1. old \in Seq(Values) /\ Vector!Holds(vec, old) BY <1>1, VecElementsAre
  <2> HIDE DEF old
  <2>2. \A i \in DOMAIN old : old[i] \in Values BY <2>1
  <2> QED BY <2>1, <2>2 DEF Vector!Range
<1>3. ASSUME NEW pos \in Vector!Places(vec), Vector!Room(vec) > 0, NEW ref \in Vector!Refs(vec)
      PROVE  Vector!Holds(Vector!Inserted(vec, pos, ref), Vector!Spliced(old, pos, <<Vector!Value(old, ref)>>))
  <2>1. pos \in 1 .. vec.size + 1 BY DEF Vector!Places
  <2>2. vec.size < StackSize BY <1>1, <1>3, VecIs DEF Vector!Room
  <2> QED BY <1>1, <2>1, <2>2, InsertedIs
<1>4. ASSUME NEW pos \in Vector!Places(vec), NEW range \in Vector!Ranges(vec)
      PROVE  Vector!Holds(Vector!InsertedRange(vec, pos, range), Vector!Spliced(old, pos, range))
  BY <1>1, InsertedRangeIs
<1>5. ASSUME NEW pos \in Vector!Places(vec), NEW count \in 0 .. Vector!Room(vec),
             NEW ref \in Vector!StableRefs(vec, pos)
      PROVE  Vector!Holds(Vector!InsertedCount(vec, pos, count, ref),
                   Vector!Spliced(old, pos, [k \in 1 .. count |-> Vector!Value(old, ref)]))
  BY <1>1, InsertedCountIs
<1>6. ASSUME NEW pos \in Vector!Places(vec), NEW first \in 1 .. pos
      PROVE  Vector!Holds(Vector!Erased(vec, first, pos),
                   SubSeq(old, 1, first - 1) \o SubSeq(old, pos, vec.size))
  <2>1. pos \in 1 .. vec.size + 1 BY DEF Vector!Places
  <2> QED BY <1>1, <2>1, ErasedIs
<1>7. ASSUME NEW size \in 0 .. StackSize, NEW value \in Values
      PROVE  Vector!Holds(Vector!Resized(vec, size, value),
                   [i \in 1 .. size |-> IF i <= vec.size THEN old[i] ELSE value])
  BY <1>1, ResizedIs
<1> HIDE DEF old
<1>8. /\ Vector!Holds(vec, old) /\ Vector!Range(old) \subseteq Values
      /\ \A pos \in Vector!Places(vec) :
           /\ Vector!Room(vec) > 0 => \A ref \in Vector!Refs(vec) :
                Vector!Holds(Vector!Inserted(vec, pos, ref),
                      Vector!Spliced(old, pos, <<Vector!Value(old, ref)>>))
           /\ \A range \in Vector!Ranges(vec) :
                Vector!Holds(Vector!InsertedRange(vec, pos, range), Vector!Spliced(old, pos, range))
           /\ \A count \in 0 .. Vector!Room(vec), ref \in Vector!StableRefs(vec, pos) :
                Vector!Holds(Vector!InsertedCount(vec, pos, count, ref),
                      Vector!Spliced(old, pos, [k \in 1 .. count |-> Vector!Value(old, ref)]))
           /\ \A first \in 1 .. pos :
                Vector!Holds(Vector!Erased(vec, first, pos),
                      SubSeq(old, 1, first - 1) \o SubSeq(old, pos, vec.size))
      /\ \A size \in 0 .. StackSize, value \in Values :
           Vector!Holds(Vector!Resized(vec, size, value),
                 [i \in 1 .. size |-> IF i <= vec.size THEN old[i] ELSE value])
  BY ONLY <1>2, <1>3, <1>4, <1>5, <1>6, <1>7
<1> QED BY <1>8 DEF old, vec

\* stack_vector.hpp: whatever is inserted, erased or resized, each operation does
\* what std::vector does, with the elements it moves for values as well, and
\* assigns to no raw memory, writes over no element and forgets none.
THEOREM VectorsAsAskedCorrect == ContainersSpec => []VectorsAsAsked
<1>1. VecsInv => VectorsAsAsked BY SlotsAssumption, VecsAreAsAsked DEF VectorsAsAsked
<1> QED BY <1>1, VectorsInvariance, PTL

=============================================================================
