------------------------------ MODULE Postings ------------------------------
(***************************************************************************)
(* Postings, their binary form and the merging of posting lists (package   *)
(* src/inverted: posting.go, codec.go, merge.go).                          *)
(*                                                                         *)
(* A document ID is a sequence of bytes to the codec; merging only needs   *)
(* the order of IDs, which are numbers there.  Encoded data is a sequence  *)
(* of bytes, the varints of encoding/binary included.  Arithmetic keeps    *)
(* its width: uint32 values are taken modulo W32 and uint64 values modulo  *)
(* W64.                                                                    *)
(***************************************************************************)
EXTENDS Integers, Sequences, FiniteSets

CONSTANTS W32, W64,      \* 2^32 and 2^64, scaled down by the instance
          VarintBase,    \* 2^7: a byte of a varint has 7 bits of the number
          MaxVarintLen   \* binary.MaxVarintLen64, the bytes of a uint64: 10

\* VarintBase to the n-th.
Power[n \in 0..MaxVarintLen] == IF n = 0 THEN 1 ELSE VarintBase * Power[n - 1]

ASSUME WidthsAssumption ==
  /\ W32 \in Nat \ {0}
  /\ W64 \in Nat
  /\ W64 >= 2 * W32
  /\ W64 % W32 = 0

\* The last of MaxVarintLen bytes has room for one bit.
ASSUME VarintsAssumption ==
  /\ VarintBase \in Nat \ {0, 1}
  /\ MaxVarintLen \in Nat \ {0, 1}
  /\ W64 = 2 * Power[MaxVarintLen - 1]

\* A byte from VarintBase on has its high bit set: the varint goes on.
ByteValues == 0..2 * VarintBase - 1

Broken == -1
NoPosting == [err |-> "ErrCorruptPosting"]

\* The values of a width.
Numbers(width) == 0..width - 1

Increasing(s) == \A k, l \in 1..Len(s) : k < l => s[k] < s[l]

InOrder(s) == \A k \in 1..Len(s) - 1 : s[k] <= s[k + 1]

\* Fault: the positions are kept in the order in which they were given.
NewPostingUnsorted(id, positions) ==
  [id |-> id, frequency |-> Len(positions) % W32, positions |-> positions]

\* A sorted copy: the k-th smallest number of s at the k-th place.
SortedCopy(s) ==
  LET below(v)  == Cardinality({j \in 1..Len(s) : s[j] < v})
      atMost(v) == Cardinality({j \in 1..Len(s) : s[j] <= v})
  IN  [k \in 1..Len(s) |->
         CHOOSE v \in {s[j] : j \in 1..Len(s)} : below(v) < k /\ k <= atMost(v)]

\* The caller's positions are copied and sorted; the frequency is their
\* number.
NewPosting(id, positions) ==
  [id |-> id, frequency |-> Len(positions) % W32, positions |-> SortedCopy(positions)]

\* appendUvarint: the digits of a uint64 from the lowest on, all but the last
\* with the high bit set.
Uvarint[number \in 0..W64 - 1] ==
  IF number < VarintBase THEN <<number>>
  ELSE <<VarintBase + (number % VarintBase)>> \o Uvarint[number \div VarintBase]

Uvarints(numbers) ==
  LET from[k \in 1..Len(numbers) + 1] ==
        IF k > Len(numbers) THEN <<>> ELSE Uvarint[numbers[k]] \o from[k + 1]
  IN  from[1]

\* The first position is absolute, each later one the difference from the
\* one before it, a uint32.
Deltas(positions) ==
  [k \in 1..Len(positions) |->
     IF k = 1 THEN positions[1] ELSE (positions[k] - positions[k - 1]) % W32]

EncodePosting(posting) ==
  Uvarint[Len(posting.id)] \o posting.id \o
  Uvarints(<<posting.frequency, Len(posting.positions)>> \o Deltas(posting.positions))

\* The n bytes from place i on are a varint that fits 64 bits.  It need not
\* be the shortest for its number: the last bytes may be zeros.
IsVarint(data, i, n) ==
  /\ i + n - 1 <= Len(data)
  /\ \A j \in i..i + n - 2 : data[j] >= VarintBase
  /\ data[i + n - 1] < VarintBase
  /\ n = MaxVarintLen => data[i + n - 1] <= 1

\* consumeUvarint: how many bytes the varint at place i has, or 0 if it is
\* cut off or does not fit, and the number it stands for.
VarintLength(data, i) ==
  IF \E n \in 1..MaxVarintLen : IsVarint(data, i, n)
  THEN CHOOSE n \in 1..MaxVarintLen : IsVarint(data, i, n)
  ELSE 0

VarintValue(data, i) ==
  LET last == i + VarintLength(data, i) - 1
      value[j \in 1..last] ==
        IF j = last THEN data[j] ELSE data[j] - VarintBase + VarintBase * value[j + 1]
  IN  value[i]

\* The numbers whose varints follow each other from place first on, Broken in
\* the place of the first one that cannot be read.
Varints(data, first) ==
  LET from[i \in first..Len(data) + 1] ==
        IF i > Len(data) THEN <<>>
        ELSE IF VarintLength(data, i) = 0 THEN <<Broken>>
        ELSE <<VarintValue(data, i)>> \o from[i + VarintLength(data, i)]
  IN  from[first]

\* The running sum of the deltas, a uint64.
SumTo(deltas) ==
  LET sum[k \in 0..Len(deltas)] ==
        IF k = 0 THEN 0 ELSE (sum[k - 1] + deltas[k]) % W64
  IN  sum

\* The last byte of the ID, and the numbers behind it.
IdEnd(data) == VarintLength(data, 1) + VarintValue(data, 1)
Body(data)  == Varints(data, IdEnd(data) + 1)
Rest(numbers) == SubSeq(numbers, 3, Len(numbers))

\* Fault: a count that does not agree with the data is not noticed.
ReadUnchecked(id, numbers) ==
  LET deltas == Rest(numbers)
      sum    == SumTo(deltas)
  IN  IF Len(numbers) >= 2 /\ \A k \in 1..Len(numbers) : numbers[k] # Broken
      THEN [id |-> id,
            frequency |-> numbers[1] % W32,
            positions |-> [k \in 1..Len(deltas) |-> sum[k] % W32]]
      ELSE NoPosting

\* The posting of this ID that the numbers behind it describe.  NoPosting unless
\* every number is there, the header numbers and each sum fit 32 bits, the
\* count is the number of deltas and nothing follows them, and the frequency
\* is the count.
ReadNumbers(id, numbers) ==
  LET deltas == Rest(numbers)
      sum    == SumTo(deltas)
  IN  IF /\ Len(numbers) >= 2
         /\ \A k \in 1..Len(numbers) : numbers[k] # Broken
         /\ numbers[1] < W32 /\ numbers[2] < W32
         /\ Len(deltas) = numbers[2]
         /\ \A k \in 1..Len(deltas) : sum[k] < W32
         /\ numbers[1] = numbers[2]
      THEN [id |-> id,
            frequency |-> numbers[1],
            positions |-> [k \in 1..Len(deltas) |-> sum[k]]]
      ELSE NoPosting

DecodePosting(data) ==
  IF VarintLength(data, 1) > 0 /\ IdEnd(data) <= Len(data)
  THEN ReadNumbers(SubSeq(data, VarintLength(data, 1) + 1, IdEnd(data)), Body(data))
  ELSE NoPosting

-----------------------------------------------------------------------------
(* Merging two lists that ascend in their IDs.                             *)

\* Fault: only the right list advances past a common ID.
IntersectStuck(left, right) ==
  LET from[at \in (1..Len(left) + 1) \X (1..Len(right) + 1)] ==
        LET i == at[1]
            j == at[2]
        IN  IF i > Len(left) \/ j > Len(right) THEN <<>>
            ELSE IF left[i].id < right[j].id THEN from[<<i + 1, j>>]
            ELSE IF left[i].id > right[j].id THEN from[<<i, j + 1>>]
            ELSE <<right[j]>> \o from[<<i, j + 1>>]
  IN  from[<<1, 1>>]

Intersect(left, right) ==
  LET from[at \in (1..Len(left) + 1) \X (1..Len(right) + 1)] ==
        LET i == at[1]
            j == at[2]
        IN  IF i > Len(left) \/ j > Len(right) THEN <<>>
            ELSE IF left[i].id < right[j].id THEN from[<<i + 1, j>>]
            ELSE IF left[i].id > right[j].id THEN from[<<i, j + 1>>]
            ELSE <<left[i]>> \o from[<<i + 1, j + 1>>]
  IN  from[<<1, 1>>]

Union(left, right) ==
  LET from[at \in (1..Len(left) + 1) \X (1..Len(right) + 1)] ==
        LET i == at[1]
            j == at[2]
        IN  IF i > Len(left) /\ j > Len(right) THEN <<>>
            ELSE IF \/ j > Len(right)
                    \/ i <= Len(left) /\ left[i].id < right[j].id
                 THEN <<left[i]>> \o from[<<i + 1, j>>]
            ELSE IF i > Len(left) \/ right[j].id < left[i].id
                 THEN <<right[j]>> \o from[<<i, j + 1>>]
            ELSE <<left[i]>> \o from[<<i + 1, j + 1>>]
  IN  from[<<1, 1>>]

-----------------------------------------------------------------------------
(* What these operators promise, as formulae of their arguments.           *)

\* A posting read back from its encoding is the posting that was written,
\* with its positions in order, whatever order they were given in
\* (EncodePosting and DecodePosting, codec_test.go).
RoundTrip(id, positions) ==
  LET posting == NewPosting(id, positions)
  IN  /\ DecodePosting(EncodePosting(posting)) = posting
      /\ InOrder(posting.positions)
      /\ \A p \in 0..W32 - 1 :
           Cardinality({k \in DOMAIN posting.positions : posting.positions[k] = p}) =
             Cardinality({k \in DOMAIN positions : positions[k] = p})

\* Data that is read as a posting is read to its last byte: with any of its
\* end cut off it is refused, and so is what is longer by any bytes.
EndIsNoticed(data) ==
  DecodePosting(data) # NoPosting =>
    \A n \in 0..Len(data) - 1 : DecodePosting(SubSeq(data, 1, n)) = NoPosting

\* Data that is read as a posting is its encoding, or a longer form of it with
\* zeros at the end of varints; the posting is one that can be written and
\* read again.  Unless the uint64 sum of the deltas wrapped around, which the
\* test of the sum does not see.
AcceptsOnlyPostings(data) ==
  \A posting \in {DecodePosting(data)} : posting # NoPosting =>
    \A deltas \in {Rest(Body(data))}, written \in {EncodePosting(posting)} :
      \/ \E k \in 2..Len(deltas) : SumTo(deltas)[k - 1] + deltas[k] >= W64
      \/ /\ InOrder(posting.positions)
         /\ DecodePosting(written) = posting
         /\ written = data \/ Len(written) < Len(data)

\* For lists that ascend in their IDs, Intersect returns the left postings
\* whose ID the right list has too, and Union each ID once, with the left
\* posting where both have one; both results ascend, so that they can be
\* merged again.
MergesExactly(left, right) ==
  LET Ids(s) == {s[k].id : k \in 1..Len(s)}
      Elements(s) == {s[k] : k \in 1..Len(s)}
      Ascends(s) == \A k \in 1..Len(s) - 1 : s[k].id < s[k + 1].id
      both  == Intersect(left, right)
      union == Union(left, right)
  IN  /\ Ascends(both)
      /\ Elements(both) = {p \in Elements(left) : p.id \in Ids(right)}
      /\ Ascends(union)
      /\ Elements(union) =
           Elements(left) \cup {p \in Elements(right) : p.id \notin Ids(left)}
=============================================================================
