----------------------------- MODULE RadixSort -----------------------------
(***************************************************************************)
(* fea::radix_sort and radix_sort_idxes (fea/algorithm/sort.hpp): a sort   *)
(* that places the values by one byte after the other, the least first.    *)
(*                                                                         *)
(* A byte has Base values and a number is the tuple of its bytes, the      *)
(* lowest first, as the program reads it on a little endian machine.  The  *)
(* counts of a thread live as long as it does; a call uses those of the    *)
(* smallest index type that holds the number of values.  jmp_table is      *)
(* written before it is read, by each call.                                *)
(*                                                                         *)
(* An item is a value and the index that goes with it: radix_sort leaves   *)
(* the values of the sorted items, radix_sort_idxes their indexes.         *)
(***************************************************************************)
EXTENDS Naturals, Integers, SequencesExt, FiniteSetsExt

CONSTANTS
  Base,         (* the values of a byte                                    *)
  IndexMaxes,   (* the largest value of each index type, in order          *)
  Inputs,       (* bound: the <<type, values>> the program sorts           *)
  MaxCalls      (* bound: the calls of a thread                            *)

VARIABLES
  counts,       (* radix_data_cache<n>: counts, of each index type         *)
  idxes,        (* the indexes the program has                             *)
  call,         (* history: the last call, its items and the sorted ones   *)
  calls         (* bound: the number of calls                              *)

vars == <<counts, idxes, call, calls>>

Radixes == 0 .. Base - 1
MostBytes == 2

Zeroed ==
  [i \in DOMAIN IndexMaxes |-> [p \in 1 .. MostBytes |-> [r \in Radixes |-> 0]]]
NoCall == [type |-> "none", items |-> <<>>, sorted |-> <<>>]

Init == counts = Zeroed /\ idxes = <<>> /\ call = NoCall /\ calls = 0

Negative(r) == r >= Base \div 2

\* What the bytes are worth.  A float has a sign and a magnitude.
Worth(type, value) ==
  LET n == FoldRight(LAMBDA byte, worth : byte + Base * worth, value, 0)
      span == Base ^ Len(value)
  IN  CASE type = "unsigned" -> n
        [] type = "signed" -> IF Negative(Last(value)) THEN n - span ELSE n
        [] type = "float" -> IF Negative(Last(value)) THEN span \div 2 - n ELSE n

\* radix_get_tls_cache
IndexType(count) == SelectInSeq(IndexMaxes, LAMBDA max : count < max)

PreSorted(type, items) ==
  \A i \in 2 .. Len(items) :
    Worth(type, items[i - 1].value) <= Worth(type, items[i].value)

\* Mutant of Counted: the counts of the last call are counted on.
CountedOn(known, items, bytes, width) ==
  [p \in 1 .. MostBytes |->
     IF p > bytes THEN known[p]
     ELSE [r \in Radixes |->
             (known[p][r] + Quantify(DOMAIN items, LAMBDA i : items[i].value[p] = r))
               % width]]

\* radix_precompute: the counts of the bytes a value has are reset.
Counted(known, items, bytes, width) ==
  [p \in 1 .. MostBytes |->
     IF p > bytes THEN known[p]
     ELSE [r \in Radixes |->
             Quantify(DOMAIN items, LAMBDA i : items[i].value[p] = r) % width]]

Reversed(type, last, r) == type = "float" /\ last /\ Negative(r)

\* The radixes whose items are placed before those of r.
Before(type, last, r) ==
  CASE type = "unsigned" \/ ~last -> 0 .. r - 1
    [] Reversed(type, last, r)    -> r + 1 .. Base - 1
    [] OTHER -> {s \in Radixes : s < r /\ (Negative(s) = Negative(r))}
                  \cup {s \in Radixes : Negative(s) /\ ~Negative(r)}

\* Where the first item of a radix goes, or the one after the last if reversed.
JmpTable(type, last, known, width) ==
  [r \in Radixes |->
     (FoldSet(LAMBDA s, n : known[s] + n, 0, Before(type, last, r))
        + (IF Reversed(type, last, r) THEN known[r] ELSE 0)) % width]

\* radix_pass: the items of read in the order of their byte, over write.
Passed(type, byte, last, read, write, known, width) ==
  LET Place(acc, item) ==
        LET r == item.value[byte]
            down == Reversed(type, last, r)
            off == IF down THEN (acc.jmp[r] + width - 1) % width ELSE acc.jmp[r]
        IN  [jmp   |-> [acc.jmp EXCEPT ![r] = IF down THEN off ELSE (off + 1) % width],
             write |-> [i \in DOMAIN acc.write |-> IF i = off + 1 THEN item ELSE acc.write[i]]]
  IN  FoldLeft(Place, [jmp |-> JmpTable(type, last, known, width), write |-> write],
               read).write

\* The passes go from the first storage to the second and back; one of a single
\* byte leaves the items in the second and is copied.
Sorted(type, items, known, width) ==
  LET bytes == Len(items[1].value)
      blank == [i \in DOMAIN items |-> [value |-> [b \in 1 .. bytes |-> 0], idx |-> 0]]
      Pass(stores, byte) ==
        IF byte % 2 = 1
        THEN [stores EXCEPT ![2] = Passed(type, byte, byte = bytes, stores[1], stores[2],
                                          known[byte], width)]
        ELSE [stores EXCEPT ![1] = Passed(type, byte, byte = bytes, stores[2], stores[1],
                                          known[byte], width)]
      stores == FoldLeft(Pass, <<items, blank>>, [b \in 1 .. bytes |-> b])
  IN  IF bytes = 1 THEN stores[2] ELSE stores[1]

\* Numbered from 0, or as the last call with as many values left them.
Given(n) == IF Len(idxes) = n THEN {idxes, [i \in 1 .. n |-> i - 1]}
            ELSE {[i \in 1 .. n |-> i - 1]}

RadixSortIdxes(type, values, given) ==
  LET items == [i \in DOMAIN values |-> [value |-> values[i], idx |-> given[i]]]
      index == IndexType(Len(values))
      width == IndexMaxes[index] + 1
      known == Counted(counts[index], items, Len(values[1]), width)
      sorted == IF PreSorted(type, items) THEN items ELSE Sorted(type, items, known, width)
  IN  /\ Len(values) > 1 /\ calls < MaxCalls /\ calls' = calls + 1
      /\ counts' = [counts EXCEPT ![index] = known]
      /\ idxes' = [i \in DOMAIN sorted |-> sorted[i].idx]
      /\ call' = [type |-> type, items |-> items, sorted |-> sorted]

\* The next thread that sorts has caches of its own.
NewThread ==
  /\ calls = MaxCalls /\ calls' = 0
  /\ counts' = Zeroed /\ idxes' = <<>> /\ call' = NoCall

Next ==
  \/ \E input \in Inputs :
       \E given \in Given(Len(input[2])) : RadixSortIdxes(input[1], input[2], given)
  \/ NewThread

Spec == Init /\ [][Next]_vars

-----------------------------------------------------------------------------
(* What makes the sort correct.                                              *)

\* After calls of any types one after the other, the items of the last one are
\* all there, in the order of their values; integers that are equal are in the
\* order they were given.  (Equal floats that are negative change places.)
SortsStably ==
  LET items == call.items
      sorted == call.sorted
      At(i) == CHOOSE j \in DOMAIN items : items[j] = sorted[i]
  IN  /\ ToSet(sorted) = ToSet(items) /\ Len(sorted) = Len(items)
      /\ \A i \in 2 .. Len(sorted) :
           LET this == Worth(call.type, sorted[i].value)
               last == Worth(call.type, sorted[i - 1].value)
           IN  /\ last <= this
               /\ last = this /\ call.type # "float" => At(i - 1) < At(i)
=============================================================================
