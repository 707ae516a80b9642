--------------------------- MODULE Dataplane_proofs ---------------------------
(* What translate_offset computes is right for every width of a word and  *)
(* every size of a sector.                                                 *)
EXTENDS Dataplane, TLAPS

LEMMA WrapOfWord ==
  ASSUME NEW x \in Words
  PROVE  Wrap(x) = x
  BY WordAssumption DEF Words, Wrap

\* A sector number that passes the test has its product below the width.
LEMMA ProductFits ==
  ASSUME NEW s \in Words, s <= MaxWord \div Sector
  PROVE  s * Sector \in Words
  <1> DEFINE q == MaxWord \div Sector
  <1>1. q \in Nat /\ q * Sector <= MaxWord
    BY WordAssumption DEF MaxWord
  <1>2. s * Sector <= q * Sector
    BY <1>1, WordAssumption DEF Words
  <1>3. s * Sector \in Nat
    BY WordAssumption DEF Words
  <1> QED
    BY <1>1, <1>2, <1>3, WordAssumption DEF Words, MaxWord

\* A range that is translated lies in the extent of its row: the byte that
\* write_all and read_all reach after k bytes is the one k bytes behind the
\* start, no offset wraps, and none leaves the extent.
THEOREM TranslatedRangeInExtent ==
  ASSUME NEW row \in Rows, NEW off \in Words, NEW len \in Words,
         Translates(row, off, len), NEW k \in 0 .. len - 1
  PROVE  /\ ByteAt(row, off, k) = row.sector * Sector + (off - row.off) + k
         /\ ByteAt(row, off, k) \in Words
         /\ ByteAt(row, off, k) < row.sector * Sector + row.len
  <1>1. /\ row.off \in Words /\ row.len \in Words /\ row.sector \in Words
        /\ Word \in Nat /\ Word > 0
    BY WordAssumption DEF Rows
  <1>2. Relative(row, off) = off - row.off /\ off - row.off \in Words
    <2>1. off - row.off \in Words
      BY <1>1 DEF Translates, Covers, Words
    <2> QED
      BY <2>1, WrapOfWord DEF Relative
  <1>3. len <= row.len - (off - row.off)
    <2>1. row.len - (off - row.off) \in Words
      BY <1>1, <1>2 DEF Translates, Covers, Words
    <2> QED
      BY <1>2, <2>1, WrapOfWord DEF Translates, Covers
  <1>4. PhysBase(row) = row.sector * Sector /\ row.sector * Sector \in Words
    BY <1>1, ProductFits, WrapOfWord DEF Translates, Addressable, PhysBase
  <1> DEFINE base == row.sector * Sector
             rel == off - row.off
  <1>5. base \in Words /\ rel \in Words
    BY <1>2, <1>4
  <1>6. PhysOffset(row, off) = base + rel /\ base + rel \in Words
    <2>1. Wrap(MaxWord - base) = MaxWord - base
      BY <1>1, <1>5, WrapOfWord DEF MaxWord, Words
    <2>2. rel <= MaxWord - base
      BY <1>2, <1>4, <2>1 DEF Translates, Addressable
    <2> HIDE DEF base, rel
    <2>3. base + rel \in Words
      BY <1>1, <1>5, <2>2 DEF MaxWord, Words
    <2> USE DEF base, rel
    <2> QED
      BY <1>2, <1>4, <2>3, WrapOfWord DEF PhysOffset
  <1>7. len - 1 <= MaxWord - (base + rel)
    <2>1. Wrap(len - 1) = len - 1
      BY <1>1, WrapOfWord DEF Words
    <2>2. Wrap(MaxWord - (base + rel)) = MaxWord - (base + rel)
      <3> HIDE DEF base, rel
      <3>1. MaxWord - (base + rel) \in Words
        BY <1>1, <1>5, <1>6 DEF MaxWord, Words
      <3> QED
        BY <3>1, WrapOfWord
    <2>3. len > 0
      BY DEF Words
    <2> QED
      BY <1>6, <2>1, <2>2, <2>3 DEF Translates, Addressable
  <1> HIDE DEF base, rel
  <1>8. base + rel + k \in Words
    BY <1>1, <1>5, <1>6, <1>7 DEF MaxWord, Words
  <1>9. ByteAt(row, off, k) = base + rel + k
    BY <1>6, <1>8, WrapOfWord DEF ByteAt
  <1>10. rel + k < row.len
    BY <1>1, <1>3, <1>5 DEF rel, Words
  <1>11. base + rel + k < base + row.len
    BY <1>1, <1>5, <1>10 DEF Words
  <1> QED
    BY <1>8, <1>9, <1>11 DEF base, rel

\* The two data paths agree: the byte the kernel reaches through the entry of
\* a row is the byte that translate_offset finds for the same place.
THEOREM DataPathsAgree ==
  ASSUME NEW row \in Rows, Builds(row),
         NEW off \in Words, Translates(row, off, 1)
  PROVE  ByteAt(row, off, 0) =
           ByteOf(Entry(row), off \div Sector, off % Sector)
  <1> DEFINE q == row.off \div Sector
             s == off \div Sector
             b == off % Sector
  <1>1. /\ row.off \in Nat /\ row.sector \in Nat /\ Sector \in Nat
        /\ Sector > 0 /\ Word \in Nat /\ off \in Nat
    BY WordAssumption DEF Rows, Words
  <1>2. q \in Nat /\ row.off = q * Sector
    BY <1>1 DEF Builds
  <1>3. s \in Nat /\ b \in Nat /\ off = s * Sector + b
    BY <1>1
  <1>4. 1 \in Words
    <2>1. CASE Word = 1
      BY <2>1, <1>1 DEF Translates, Covers, Builds, Rows, Words, Wrap
    <2>2. CASE Word > 1
      BY <2>2, <1>1 DEF Words
    <2> QED
      BY <2>1, <2>2, WordAssumption
  <1>5. ByteAt(row, off, 0) = row.sector * Sector + (off - row.off) + 0
    <2>1. 0 \in 0 .. 1 - 1
      OBVIOUS
    <2> QED
      BY <1>4, <2>1, TranslatedRangeInExtent
  <1>6. ByteOf(Entry(row), s, b) = (row.sector + (s - q)) * Sector + b
    BY DEF ByteOf, Entry
  <1> HIDE DEF q, s, b
  <1>7. (row.sector + (s - q)) * Sector =
          row.sector * Sector + s * Sector - q * Sector
    BY <1>1, <1>2, <1>3
  <1>8. ByteAt(row, off, 0) = ByteOf(Entry(row), s, b)
    BY <1>1, <1>2, <1>3, <1>5, <1>6, <1>7
  <1> QED
    BY <1>8 DEF s, b
==============================================================================
