---------------------------- MODULE IsoDirProofs ----------------------------
(***************************************************************************)
(* Proofs about IsoDir, for every size of a sector, every width of a       *)
(* length, and every image, whatever bytes the directory holds.            *)
(***************************************************************************)
EXTENDS IsoDir, FiniteSetTheorems, Induction

\* What the walk has passed over lies before the offset, and the data it
\* indexes is on the image and not shorter than stated.
WalkInv ==
  /\ pc = "read" => offset = 0 /\ entries = <<>> /\ n = 0
  /\ \A o \in 0..(n - 1) : o \in DOMAIN bytes
  /\ pc = "scan" /\ length <= W - S => length <= n
  /\ \A i \in 1..Len(entries) :
       /\ entries[i] \in DOMAIN bytes
       /\ entries[i] + bytes[entries[i]] <= offset

Inv == TypeOK /\ WalkInv /\ PanicsOnlyOnWrap /\ EntriesAreDisjoint

-----------------------------------------------------------------------------
(***************************************************************************)
(* Arithmetic of sectors.                                                  *)
(***************************************************************************)
LEMMA DivFacts ==
  ASSUME NEW a \in Nat, NEW s \in Nat \ {0}
  PROVE  /\ a \div s \in Nat
         /\ (a \div s) * s <= a
         /\ a < (a \div s + 1) * s
OBVIOUS

LEMMA NextSectorFacts ==
  ASSUME NEW o \in Nat
  PROVE  NextSector(o) \in Nat /\ o < NextSector(o)
BY DivFacts, SizesAssumption DEF NextSector

\* A length that does not wrap is rounded up to whole sectors.
LEMMA SectorCountFacts ==
  ASSUME length \in Nat
  PROVE  /\ SectorCount * S \in Nat
         /\ length <= W - S => length <= SectorCount * S
<1>1. S \in Nat \ {0} /\ W \in Nat \ {0}
  BY SizesAssumption
<1>2. (length + S - 1) % W \in Nat
  BY <1>1
<1>3. SectorCount \in Nat
  BY <1>1, <1>2, DivFacts DEF SectorCount
<1>4. ASSUME length <= W - S PROVE length <= SectorCount * S
  <2>1. (length + S - 1) % W = length + S - 1
    BY <1>1, <1>4
  <2>2. length + S - 1 < (SectorCount + 1) * S
    BY <1>1, <2>1, DivFacts DEF SectorCount
  <2>3. (SectorCount + 1) * S = SectorCount * S + S
    BY <1>1, <1>3
  <2> QED BY <1>1, <1>3, <2>2, <2>3
<1> QED BY <1>1, <1>3, <1>4

\* What the types give of the bytes and the stated length.
LEMMA DataFacts ==
  ASSUME TypeOK
  PROVE  /\ length \in Nat
         /\ \A o \in DOMAIN bytes : o \in Nat /\ bytes[o] \in Nat
BY SizesAssumption DEF TypeOK

-----------------------------------------------------------------------------
(***************************************************************************)
(* The steps.                                                              *)
(***************************************************************************)
LEMMA InitInv == Init => Inv
BY DEF Init, Inv, TypeOK, WalkInv, PanicsOnlyOnWrap, EntriesAreDisjoint

\* A call that ends keeps everything it found; it may panic only where the
\* data is shorter than stated.
LEMMA StopKeepsInv ==
  ASSUME Inv, NEW how \in {"done", "error", "panic"}, Stop(how),
         how = "panic" => length > W - S
  PROVE  Inv'
BY DEF Inv, Stop, TypeOK, WalkInv, PanicsOnlyOnWrap, EntriesAreDisjoint

LEMMA ReadKeepsInv ==
  ASSUME Inv, ReadSectors
  PROVE  Inv'
<1>1. length \in Nat
  BY DataFacts DEF Inv
<1>2. /\ SectorCount * S \in Nat
      /\ length <= W - S => length <= SectorCount * S
  BY <1>1, SectorCountFacts
<1>3. TypeOK'
  BY <1>2 DEF Inv, TypeOK, ReadSectors
<1>4. entries = <<>>
  BY DEF Inv, WalkInv, ReadSectors
<1>5. WalkInv'
  BY <1>2, <1>4 DEF Inv, WalkInv, ReadSectors, Held
<1> QED BY <1>3, <1>4, <1>5 DEF Inv, PanicsOnlyOnWrap, EntriesAreDisjoint, ReadSectors

\* The walk goes on behind what it has passed over.
LEMMA ForwardKeepsInv ==
  ASSUME Inv, Scan, NEW to \in Nat, offset <= to, Walk(to),
         UNCHANGED <<pc, entries>>, skip' \in 0..2, dots' \subseteq Nat
  PROVE  Inv'
<1>1. TypeOK'
  BY DEF Inv, TypeOK, Walk
<1>2. \A i \in 1..Len(entries) : entries[i] + bytes[entries[i]] \in Int
  <2> SUFFICES ASSUME NEW i \in 1..Len(entries)
               PROVE  entries[i] + bytes[entries[i]] \in Int
    OBVIOUS
  <2>1. entries[i] \in DOMAIN bytes
    BY DEF Inv, WalkInv
  <2>2. entries[i] \in Nat /\ bytes[entries[i]] \in Nat
    BY <2>1, DataFacts DEF Inv
  <2> QED BY <2>2
<1>3. WalkInv'
  BY <1>2 DEF Inv, TypeOK, Walk, WalkInv, Scan
<1> QED BY <1>1, <1>3 DEF Inv, Walk, PanicsOnlyOnWrap, EntriesAreDisjoint, Scan

\* A record within the data: its length is a positive number.
LEMMA RecordFacts ==
  ASSUME Inv, Scan, offset < n, RecLen # 0
  PROVE  /\ offset \in Nat /\ offset \in DOMAIN bytes
         /\ RecLen \in Nat \ {0} /\ RecLen = bytes[offset]
         /\ offset < length
BY DataFacts DEF Inv, TypeOK, WalkInv, Scan, RecLen

\* A record is accepted at the offset, behind the end of every earlier one.
LEMMA AcceptKeepsInv ==
  ASSUME Inv, TakeRecord, RecLen >= MinRecord
  PROVE  Inv'
<1>1. /\ Scan /\ offset < n /\ RecLen # 0 /\ offset + RecLen <= n
      /\ entries' = Append(entries, offset)
      /\ offset' = offset + RecLen
      /\ UNCHANGED <<bytes, length, n, pc, skip, dots>>
  BY DEF TakeRecord, Walk
<1>2. /\ offset \in Nat /\ offset \in DOMAIN bytes
      /\ RecLen \in Nat \ {0} /\ RecLen = bytes[offset]
      /\ offset < length
  BY <1>1, RecordFacts
<1>3. entries \in Seq(Nat) /\ n \in Nat /\ length \in Nat
  BY DataFacts DEF Inv, TypeOK
<1>4. TypeOK'
  BY <1>1, <1>2 DEF Inv, TypeOK
<1>5. /\ Len(entries') = Len(entries) + 1
      /\ entries'[Len(entries) + 1] = offset
      /\ \A i \in 1..Len(entries) : entries'[i] = entries[i]
  BY <1>1, <1>2, <1>3
<1>6. \A i \in 1..Len(entries) :
        /\ entries[i] \in DOMAIN bytes
        /\ entries[i] \in Nat /\ bytes[entries[i]] \in Nat
        /\ entries[i] < length
        /\ entries[i] + bytes[entries[i]] <= n
        /\ entries[i] + bytes[entries[i]] <= offset
  BY DataFacts DEF Inv, WalkInv, EntriesAreDisjoint
<1>7. \A i \in 1..Len(entries') :
        /\ entries'[i] \in DOMAIN bytes
        /\ entries'[i] < length
        /\ entries'[i] + bytes[entries'[i]] <= n
        /\ entries'[i] + bytes[entries'[i]] <= offset + RecLen
  <2> SUFFICES ASSUME NEW i \in 1..Len(entries')
               PROVE  /\ entries'[i] \in DOMAIN bytes
                      /\ entries'[i] < length
                      /\ entries'[i] + bytes[entries'[i]] <= n
                      /\ entries'[i] + bytes[entries'[i]] <= offset + RecLen
    OBVIOUS
  <2>1. CASE i = Len(entries) + 1
    BY <1>1, <1>2, <1>5, <2>1
  <2>2. CASE i \in 1..Len(entries)
    BY <1>2, <1>5, <1>6, <2>2
  <2> QED BY <1>3, <1>5, <2>1, <2>2
<1>8. \A i, j \in 1..Len(entries') :
        i < j => entries'[i] + bytes[entries'[i]] <= entries'[j]
  <2> SUFFICES ASSUME NEW i \in 1..Len(entries'), NEW j \in 1..Len(entries'), i < j
               PROVE  entries'[i] + bytes[entries'[i]] <= entries'[j]
    OBVIOUS
  <2>1. i \in 1..Len(entries)
    BY <1>3, <1>5
  <2>2. CASE j = Len(entries) + 1
    BY <1>5, <1>6, <2>1, <2>2
  <2>3. CASE j \in 1..Len(entries)
    BY <1>5, <2>1, <2>3 DEF Inv, EntriesAreDisjoint
  <2> QED BY <1>3, <1>5, <2>2, <2>3
<1>9. WalkInv'
  <2>1. pc = "scan"
    BY <1>1 DEF Scan
  <2> QED BY <1>1, <1>7, <2>1 DEF Inv, WalkInv
<1>10. EntriesAreDisjoint'
  BY <1>1, <1>7, <1>8 DEF EntriesAreDisjoint
<1> QED BY <1>1, <1>4, <1>9, <1>10 DEF Inv, PanicsOnlyOnWrap

LEMMA NextInv == Inv /\ [Next]_vars => Inv'
<1> SUFFICES ASSUME Inv, [Next]_vars PROVE Inv'
  OBVIOUS
<1>1. CASE ReadSectors
  BY <1>1, ReadKeepsInv
<1>2. CASE ReadFails
  BY <1>2, StopKeepsInv DEF ReadFails
<1>3. CASE OutOfRange
  <2>1. Scan /\ offset >= n /\ Stop("panic")
    BY <1>3 DEF OutOfRange
  <2>2. length \in Nat /\ n \in Nat /\ offset \in Nat /\ W \in Nat /\ S \in Nat
    BY DataFacts, SizesAssumption DEF Inv, TypeOK
  <2>3. length > W - S
    BY <2>1, <2>2 DEF Inv, WalkInv, Scan
  <2> QED BY <2>1, <2>3, StopKeepsInv
<1>4. CASE Padding
  <2>1. offset \in Nat
    BY DEF Inv, TypeOK
  <2>2. NextSector(offset) \in Nat /\ offset <= NextSector(offset)
    BY <2>1, NextSectorFacts
  <2>3. CASE Stop("done")
    BY <2>3, StopKeepsInv
  <2>4. CASE Walk(NextSector(offset)) /\ UNCHANGED <<pc, skip, entries, dots>>
    BY <1>4, <2>2, <2>4, ForwardKeepsInv DEF Padding, Inv, TypeOK
  <2> QED BY <1>4, <2>3, <2>4 DEF Padding
<1>5. CASE CutRecord
  BY <1>5, StopKeepsInv DEF CutRecord
<1>6. CASE SkipRecord
  <2>1. /\ offset \in Nat /\ RecLen \in Nat
        /\ offset + RecLen \in Nat /\ offset <= offset + RecLen
    BY <1>6, RecordFacts DEF SkipRecord
  <2>2. skip' \in 0..2 /\ dots' \subseteq Nat
    BY <1>6, <2>1 DEF SkipRecord, Inv, TypeOK
  <2> QED BY <1>6, <2>1, <2>2, ForwardKeepsInv DEF SkipRecord
<1>7. CASE TakeRecord
  <2>1. CASE RecLen >= MinRecord
    BY <1>7, <2>1, AcceptKeepsInv
  <2>2. CASE ~(RecLen >= MinRecord)
    <3>1. /\ offset \in Nat /\ RecLen \in Nat
          /\ offset + RecLen \in Nat /\ offset <= offset + RecLen
      BY <1>7, RecordFacts DEF TakeRecord
    <3> QED BY <1>7, <2>2, <3>1, ForwardKeepsInv DEF TakeRecord, Inv, TypeOK
  <2> QED BY <2>1, <2>2
<1>8. CASE EndReached
  BY <1>8, StopKeepsInv DEF EndReached
<1>9. CASE UNCHANGED vars
  BY <1>9 DEF vars, Inv, TypeOK, WalkInv, PanicsOnlyOnWrap, EntriesAreDisjoint
<1> QED BY <1>1, <1>2, <1>3, <1>4, <1>5, <1>6, <1>7, <1>8, <1>9 DEF Next

-----------------------------------------------------------------------------
(***************************************************************************)
(* The theorems.                                                           *)
(***************************************************************************)
\* The walk of readDir (iso9660/volume.go:255-278) never runs out of step with
\* what it has passed over.
THEOREM Invariance == Spec => []Inv
BY InitInv, NextInv, PTL DEF Spec

\* Type correctness of the directory reader, on any bytes.
THEOREM TypeCorrect == Spec => []TypeOK
<1>1. Inv => TypeOK
  BY DEF Inv
<1> QED BY <1>1, Invariance, PTL

\* readDir indexes its data out of range only for a length whose sector count
\* wraps (iso9660/volume.go:246-256).
THEOREM NoOtherPanic == Spec => []PanicsOnlyOnWrap
<1>1. Inv => PanicsOnlyOnWrap
  BY DEF Inv
<1> QED BY <1>1, Invariance, PTL

\* The records readDir accepts never overlap and never leave the data, on any
\* bytes (iso9660/volume.go:266-277).
THEOREM DisjointEntries == Spec => []EntriesAreDisjoint
<1>1. Inv => EntriesAreDisjoint
  BY DEF Inv
<1> QED BY <1>1, Invariance, PTL

-----------------------------------------------------------------------------
(***************************************************************************)
(* That a well-formed directory is listed completely.  Whether a record is *)
(* met depends on all those before it, so this is an induction along the   *)
(* directory: the first record that is passed by has one before it that    *)
(* was not (NoneBetween).                                                  *)
(***************************************************************************)
LEMMA MultipleFacts ==
  ASSUME NEW s \in Nat \ {0}, NEW q \in Nat, NEW a \in Nat
  PROVE  /\ (q * s) % s = 0
         /\ a % s = 0 => a = (a \div s) * s
<1>0. \A b \in Nat : b % s = b - (b \div s) * s
  OBVIOUS
<1>1. q * s \in Nat /\ (q * s) \div s \in Nat
  OBVIOUS
<1>2. ((q * s) \div s) * s <= q * s /\ q * s < ((q * s) \div s) * s + s
  <2>1. ((q * s) \div s + 1) * s = ((q * s) \div s) * s + s
    BY <1>1
  <2> QED BY <1>1, <2>1, DivFacts
<1>3. \A k \in Nat : k > q => k * s >= q * s + s
  <2>1. ASSUME NEW k \in Nat, k > q PROVE k * s >= q * s + s
    <3>1. PICK j \in Nat : k = q + 1 + j
      <4>1. k - q - 1 \in Nat /\ k = q + 1 + (k - q - 1)
        BY <2>1
      <4> QED BY <4>1
    <3>2. k * s = q * s + s + j * s /\ j * s \in Nat
      BY <3>1
    <3> QED BY <1>1, <3>2
  <2> QED BY <2>1
<1>4. \A k \in Nat : k < q => k * s + s <= q * s
  <2>1. ASSUME NEW k \in Nat, k < q PROVE k * s + s <= q * s
    <3>1. PICK j \in Nat : q = k + 1 + j
      <4>1. q - k - 1 \in Nat /\ q = k + 1 + (q - k - 1)
        BY <2>1
      <4> QED BY <4>1
    <3>2. q * s = k * s + s + j * s /\ j * s \in Nat /\ k * s \in Nat
      BY <3>1
    <3> QED BY <3>2
  <2> QED BY <2>1
<1>5. (q * s) \div s = q
  <2>1. ~((q * s) \div s > q)
    BY <1>1, <1>2, <1>3
  <2>2. ~((q * s) \div s < q)
    BY <1>1, <1>2, <1>4
  <2> QED BY <1>1, <2>1, <2>2
<1>6. (q * s) % s = q * s - ((q * s) \div s) * s
  BY <1>0, <1>1
<1>7. a % s = a - (a \div s) * s
  BY <1>0
<1>8. (a \div s) * s \in Nat
  BY DivFacts
<1> QED BY <1>1, <1>5, <1>6, <1>7, <1>8

\* No sector begins between an offset and the sector after it.
LEMMA SectorFacts ==
  ASSUME NEW o \in Nat
  PROVE  /\ Begins(NextSector(o))
         /\ \A r \in Nat : Begins(r) /\ o < r => NextSector(o) <= r
<1>1. S \in Nat \ {0}
  BY SizesAssumption
<1>2. PICK q : q = o \div S
  OBVIOUS
<1>3. q \in Nat /\ q * S <= o /\ NextSector(o) = (q + 1) * S /\ q * S \in Nat
      /\ (q + 1) * S = q * S + S
  BY <1>1, <1>2, DivFacts DEF NextSector
<1>4. Begins(NextSector(o))
  BY <1>1, <1>3, MultipleFacts DEF Begins
<1>5. ASSUME NEW r \in Nat, Begins(r), o < r PROVE NextSector(o) <= r
  <2>1. PICK k : k = r \div S
    OBVIOUS
  <2>2. k \in Nat /\ r = k * S
    BY <1>1, <1>5, <2>1, DivFacts, MultipleFacts DEF Begins
  <2>3. ASSUME k <= q PROVE FALSE
    <3>1. PICK j \in Nat : q = k + j
      <4>1. q - k \in Nat /\ q = k + (q - k)
        BY <1>3, <2>2, <2>3
      <4> QED BY <4>1
    <3>2. q * S = k * S + j * S /\ j * S \in Nat
      BY <1>1, <2>2, <3>1
    <3> QED BY <1>3, <1>5, <2>2, <3>2
  <2>4. PICK j \in Nat : k = q + 1 + j
    <3>1. k - q - 1 \in Nat /\ k = q + 1 + (k - q - 1)
      BY <1>3, <2>2, <2>3
    <3> QED BY <3>1
  <2>5. k * S = q * S + S + j * S /\ j * S \in Nat
    BY <1>1, <1>3, <2>4
  <2> QED BY <1>1, <1>3, <2>2, <2>5
<1> QED BY <1>4, <1>5

\* What is said of the records of a well-formed directory.
LEMMA LayoutFacts ==
  ASSUME TypeOK, NEW R \in SUBSET (0..(length - 1)), Layout(R)
  PROVE  /\ length \in Nat /\ Begins(length) /\ length <= W - S
         /\ S \in Nat \ {0} /\ MinRecord \in Nat \ {0}
         /\ R \subseteq Nat
         /\ \A o \in R : o < length /\ bytes[o] \in Nat /\ bytes[o] > 0
                         /\ bytes[o] >= MinRecord
                         /\ o + bytes[o] \in Nat /\ o + bytes[o] > o
                         /\ o + bytes[o] <= NextSector(o)
         /\ \A o \in R : ~Begins(o) => \E q \in R : q + bytes[q] = o
         /\ \A o \in R : \/ Begins(o + bytes[o]) \/ o + bytes[o] \in R
                         \/ bytes[o + bytes[o]] = 0
         /\ \A o \in 0..(length - 1) : Begins(o) => o \in R \/ bytes[o] = 0
         /\ \A o \in 0..(length - 1) : NextSector(o) <= length
<1>1. /\ S \in Nat \ {0} /\ MinRecord \in Nat \ {0} /\ length \in Nat
      /\ \A o \in DOMAIN bytes : o \in Nat /\ bytes[o] \in Nat
  BY DataFacts, SizesAssumption
<1>2. ASSUME NEW o \in R
      PROVE  /\ o < length /\ bytes[o] \in Nat /\ bytes[o] > 0
             /\ bytes[o] >= MinRecord
             /\ o + bytes[o] \in Nat /\ o + bytes[o] > o
             /\ o + bytes[o] <= NextSector(o)
  <2>1. o \in 0..(length - 1) /\ bytes[o] >= MinRecord /\ InOneSector(o)
        /\ o \in DOMAIN bytes
    BY DEF Layout, Held
  <2>2. bytes[o] \in Nat /\ o \in Nat
    BY <1>1, <2>1
  <2> QED BY <1>1, <2>1, <2>2 DEF InOneSector
<1>3. Begins(length) /\ length <= W - S
  BY DEF Layout, Begins
<1>4. ASSUME NEW o \in 0..(length - 1) PROVE NextSector(o) <= length
  BY <1>1, <1>3, <1>4, SectorFacts
<1>5. /\ \A o \in R : ~Begins(o) => \E q \in R : q + bytes[q] = o
      /\ \A o \in R : \/ Begins(o + bytes[o]) \/ o + bytes[o] \in R
                      \/ bytes[o + bytes[o]] = 0
      /\ \A o \in 0..(length - 1) : Begins(o) => o \in R \/ bytes[o] = 0
  BY DEF Layout
<1>6. R \subseteq Nat
  BY <1>1
<1> QED BY <1>1, <1>2, <1>3, <1>4, <1>5, <1>6

\* The walk passes no record of a well-formed directory by.
LEMMA NoneBetween ==
  ASSUME TypeOK, NEW R \in SUBSET (0..(length - 1)), Layout(R),
         NEW o \in Nat, NEW to \in Nat, to <= NextSector(o),
         \A q \in R : q < o => q + bytes[q] <= o,
         o \in R => to <= o + bytes[o]
  PROVE  \A r \in R : o < r => to <= r
<1>1. /\ R \subseteq Nat
      /\ \A r \in R : /\ r + bytes[r] \in Nat /\ r + bytes[r] > r
      /\ \A r \in R : ~Begins(r) => \E q \in R : q + bytes[q] = r
  BY LayoutFacts
<1> DEFINE T == { r \in R : o < r /\ r < to }
<1>2. SUFFICES ASSUME T # {} PROVE FALSE
  BY <1>1
<1>3. PICK r \in T : \A k \in T : r <= k
  <2>1. T \subseteq Nat
    BY <1>1
  <2> HIDE DEF T
  <2> QED BY <1>2, <2>1, LeastNatural
<1>4. r \in R /\ r \in Nat /\ o < r /\ r < to
  BY <1>1, <1>3
<1>5. ~Begins(r)
  <2>1. NextSector(o) \in Nat
    BY NextSectorFacts
  <2>2. Begins(r) => NextSector(o) <= r
    BY <1>4, SectorFacts
  <2> QED BY <1>4, <2>1, <2>2
<1>6. PICK q \in R : q + bytes[q] = r
  BY <1>1, <1>4, <1>5
<1>7. q \in Nat /\ q < r
  BY <1>1, <1>4, <1>6
<1>8. CASE q < o
  BY <1>4, <1>6, <1>8
<1>9. CASE q = o
  BY <1>4, <1>6, <1>9
<1>10. CASE q > o
  BY <1>3, <1>4, <1>7, <1>10
<1> QED BY <1>7, <1>8, <1>9, <1>10

\* What has been passed over lies in order, on any bytes.
OrderInv ==
  /\ \A d \in dots : d \in DOMAIN bytes /\ bytes[d] > 0 /\ d + bytes[d] <= offset
  /\ skip > 0 => entries = <<>>
  /\ IsFiniteSet(dots) /\ Cardinality(dots) = 2 - skip
  /\ \A i \in 1..Len(entries) : bytes[entries[i]] >= MinRecord
  /\ \A d \in dots : \A i \in 1..Len(entries) : d < entries[i]

\* Of a well-formed directory R the walk has passed over the records before
\* the offset, and is at a record or where a sector is left.
Complete(R) ==
  /\ pc = "read" => dots = {}
  /\ pc = "scan" =>
       /\ n = length
       /\ Listed \cup dots = { r \in R : r < offset }
       /\ offset < length => offset \in R \/ bytes[offset] = 0 \/ Begins(offset)
  /\ pc = "done" => Listed \cup dots = R

ListInv ==
  /\ Inv
  /\ OrderInv
  /\ \A R \in SUBSET (0..(length - 1)) : Layout(R) => Complete(R)

LEMMA ListInit == Init => ListInv
<1> SUFFICES ASSUME Init PROVE ListInv
  OBVIOUS
<1>1. dots = {} /\ entries = <<>> /\ skip = 2 /\ pc = "read"
  BY DEF Init
<1>2. IsFiniteSet({}) /\ Cardinality({}) = 0
  BY FS_EmptySet
<1> QED BY <1>1, <1>2, InitInv DEF ListInv, OrderInv, Complete

\* A call that ends has found the records or does not say it is done.
LEMMA StopKeepsListInv ==
  ASSUME ListInv, NEW how \in {"done", "error", "panic"}, Stop(how),
         how = "panic" => length > W - S,
         how = "done" => \A R \in SUBSET (0..(length - 1)) :
                           Layout(R) => Listed \cup dots = R
  PROVE  ListInv'
<1>1. Inv'
  BY StopKeepsInv DEF ListInv
<1>2. OrderInv'
  BY DEF ListInv, OrderInv, Stop
<1>3. ASSUME NEW R \in SUBSET (0..(length' - 1)), Layout(R)'
      PROVE  Complete(R)'
  <2>1. Layout(R) /\ R \in SUBSET (0..(length - 1))
    BY <1>3 DEF Stop, Layout, Held, InOneSector, Begins, NextSector
  <2> QED BY <2>1 DEF Stop, Complete, Listed
<1> QED BY <1>1, <1>2, <1>3 DEF ListInv

\* The records before the place the walk goes to.
LEMMA BeforeTo ==
  ASSUME TypeOK, NEW R \in SUBSET (0..(length - 1)), Layout(R), Complete(R), OrderInv,
         Inv, pc = "scan",
         NEW to \in Nat, offset < to, to <= NextSector(offset),
         offset \in R => to <= offset + bytes[offset]
  PROVE  \A r \in R : r < to <=> r < offset \/ r = offset
<1>1. offset \in Nat /\ R \subseteq Nat
  BY LayoutFacts DEF TypeOK
<1>2. ASSUME NEW q \in R, q < offset PROVE q + bytes[q] <= offset
  <2>1. q \in Listed \cup dots
    BY <1>2 DEF Complete
  <2>2. CASE q \in dots
    BY <2>2 DEF OrderInv
  <2>3. CASE q \in Listed
    <3>1. PICK i \in 1..Len(entries) : q = entries[i]
      BY <2>3 DEF Listed
    <3> QED BY <3>1 DEF Inv, WalkInv
  <2> QED BY <2>1, <2>2, <2>3
<1>3. \A r \in R : r \in Nat /\ (offset < r => to <= r)
  BY <1>1, <1>2, NoneBetween
<1> QED BY <1>1, <1>3

\* The end of the data: nothing of the directory lies beyond.
LEMMA NothingBeyond ==
  ASSUME ListInv, pc = "scan", NEW R \in SUBSET (0..(length - 1)), Layout(R),
         \/ offset >= length
         \/ offset < length /\ bytes[offset] = 0 /\ NextSector(offset) >= length
  PROVE  Listed \cup dots = R
<1>1. Complete(R) /\ TypeOK /\ Inv /\ OrderInv
  BY DEF ListInv, Inv
<1>2. offset \in Nat /\ R \subseteq Nat /\ length \in Nat /\ \A r \in R : r < length
  BY <1>1, LayoutFacts DEF TypeOK
<1>3. CASE offset >= length
  <2>1. \A r \in R : r < offset
    <3>1. \A r \in R : r \in Nat /\ r < length
      BY <1>2
    <3> QED BY <1>2, <1>3, <3>1
  <2>2. { r \in R : r < offset } = R
    BY <2>1
  <2> QED BY <1>1, <2>2 DEF Complete
<1>4. CASE offset < length /\ bytes[offset] = 0 /\ NextSector(offset) >= length
  <2>1. offset \notin R
    <3>1. \A o \in R : bytes[o] > 0 /\ bytes[o] \in Nat
      BY <1>1, LayoutFacts
    <3>2. \A o \in R : bytes[o] # 0
      BY ONLY <3>1
    <3> QED BY <1>4, <3>2
  <2>2. NextSector(offset) \in Nat /\ offset < NextSector(offset)
    BY <1>2, NextSectorFacts
  <2>3. \A r \in R : r < NextSector(offset) <=> r < offset \/ r = offset
    BY <1>1, <2>1, <2>2, BeforeTo
  <2>4. \A r \in R : r < NextSector(offset)
    <3>1. \A r \in R : r \in Nat /\ r < length
      BY <1>2
    <3> QED BY <1>2, <1>4, <2>2, <3>1
  <2>5. { r \in R : r < offset } = R
    BY <2>1, <2>3, <2>4
  <2> QED BY <1>1, <2>5 DEF Complete
<1> QED BY <1>3, <1>4

LEMMA ReadKeepsListInv ==
  ASSUME ListInv, ReadSectors PROVE ListInv'
<1>1. Inv'
  BY ReadKeepsInv DEF ListInv
<1>2. OrderInv'
  BY DEF ListInv, OrderInv, ReadSectors
<1>3. ASSUME NEW R \in SUBSET (0..(length' - 1)), Layout(R)'
      PROVE  Complete(R)'
  <2>1. Layout(R) /\ R \in SUBSET (0..(length - 1)) /\ TypeOK
    BY <1>3 DEF ReadSectors, Layout, Held, InOneSector, Begins, NextSector, ListInv, Inv
  <2>2. /\ length \in Nat /\ Begins(length) /\ length <= W - S /\ S \in Nat \ {0}
        /\ W \in Nat /\ R \subseteq Nat
    BY <2>1, LayoutFacts, SizesAssumption
  <2>3. SectorCount * S = length
    <3>1. (length + S - 1) % W = length + S - 1
      BY <2>2
    <3>2. SectorCount = (length + S - 1) \div S
      BY <3>1 DEF SectorCount
    <3>3. PICK k : k = length \div S
      OBVIOUS
    <3>4. k \in Nat /\ length = k * S /\ k * S \in Nat
      BY <2>2, <3>3, DivFacts, MultipleFacts DEF Begins
    <3>5. PICK c : c = SectorCount
      OBVIOUS
    <3>6. c \in Nat /\ c * S <= length + S - 1 /\ length + S - 1 < c * S + S
          /\ c * S \in Nat
      <4>1. length + S - 1 \in Nat
        BY <2>2
      <4>2. c \in Nat /\ c * S <= length + S - 1 /\ length + S - 1 < (c + 1) * S
        BY <2>2, <3>2, <3>5, <4>1, DivFacts
      <4>3. (c + 1) * S = c * S + S /\ c * S \in Nat
        BY <2>2, <4>2
      <4> QED BY <4>2, <4>3
    <3>7. ~(c < k)
      <4>1. ASSUME c < k PROVE FALSE
        <5>1. PICK j \in Nat : k = c + 1 + j
          <6>1. k - c - 1 \in Nat /\ k = c + 1 + (k - c - 1)
            BY <3>4, <3>6, <4>1
          <6> QED BY <6>1
        <5>2. k * S = c * S + S + j * S /\ j * S \in Nat
          BY <2>2, <3>6, <5>1
        <5> QED BY <2>2, <3>4, <3>6, <5>2
      <4> QED BY <4>1
    <3>8. ~(c > k)
      <4>1. ASSUME c > k PROVE FALSE
        <5>1. PICK j \in Nat : c = k + 1 + j
          <6>1. c - k - 1 \in Nat /\ c = k + 1 + (c - k - 1)
            BY <3>4, <3>6, <4>1
          <6> QED BY <6>1
        <5>2. c * S = k * S + S + j * S /\ j * S \in Nat
          BY <2>2, <3>4, <5>1
        <5> QED BY <2>2, <3>4, <3>6, <5>2
      <4> QED BY <4>1
    <3> QED BY <3>4, <3>5, <3>6, <3>7, <3>8
  <2>4. /\ pc' = "scan" /\ n' = length /\ offset' = 0 /\ entries' = <<>> /\ dots' = {}
        /\ bytes' = bytes
    <3>1. offset = 0 /\ entries = <<>> /\ dots = {}
      BY <2>1 DEF ReadSectors, ListInv, Inv, WalkInv, Complete
    <3> QED BY <2>3, <3>1 DEF ReadSectors
  <2>5. Listed' = {}
    BY <2>4 DEF Listed
  <2>6. { r \in R : r < offset' } = {}
    <3>1. \A r \in R : ~(r < 0)
      BY <2>2
    <3> QED BY <2>4, <3>1
  <2>7. Begins(offset)'
    <3>1. 0 * S = 0 /\ (0 * S) % S = 0
      BY <2>2, MultipleFacts
    <3> QED BY <2>4, <3>1 DEF Begins
  <2>8. length' = length
    BY DEF ReadSectors
  <2> QED BY <2>4, <2>5, <2>6, <2>7, <2>8 DEF Complete
<1> QED BY <1>1, <1>2, <1>3 DEF ListInv

\* A record at the offset of a well-formed directory.
LEMMA AtRecord ==
  ASSUME ListInv, Scan, offset < n, RecLen # 0,
         NEW R \in SUBSET (0..(length - 1)), Layout(R)
  PROVE  /\ offset \in R /\ n = length /\ RecLen >= MinRecord
         /\ offset + RecLen <= NextSector(offset) /\ NextSector(offset) <= length
         /\ offset + RecLen \in Nat
         /\ offset + RecLen < length =>
              \/ offset + RecLen \in R \/ bytes[offset + RecLen] = 0
              \/ Begins(offset + RecLen)
         /\ { r \in R : r < offset + RecLen } = { r \in R : r < offset } \cup {offset}
<1>1. Complete(R) /\ TypeOK /\ Inv /\ OrderInv /\ pc = "scan"
  BY DEF ListInv, Inv, Scan
<1>2. /\ offset \in Nat /\ offset < length /\ RecLen \in Nat \ {0}
      /\ RecLen = bytes[offset]
  BY <1>1, RecordFacts
<1>3. length \in Nat /\ offset \in 0..(length - 1)
  BY <1>1, <1>2, DataFacts
<1>4. offset \in R
  <2>1. \A o \in 0..(length - 1) : Begins(o) => o \in R \/ bytes[o] = 0
    BY <1>1, LayoutFacts
  <2> QED BY <1>1, <1>2, <1>3, <2>1 DEF Complete
<1>5. /\ RecLen >= MinRecord /\ offset + RecLen <= NextSector(offset)
      /\ NextSector(offset) <= length /\ offset + RecLen \in Nat
      /\ offset + RecLen > offset
  BY <1>1, <1>2, <1>3, <1>4, LayoutFacts
<1>6. \/ offset + RecLen \in R \/ bytes[offset + RecLen] = 0
      \/ Begins(offset + RecLen)
  BY <1>1, <1>2, <1>4, LayoutFacts
<1>7. \A r \in R : r < offset + RecLen <=> r < offset \/ r = offset
  BY <1>1, <1>2, <1>5, BeforeTo
<1>8. { r \in R : r < offset + RecLen } = { r \in R : r < offset } \cup {offset}
  BY <1>4, <1>7
<1> QED BY <1>1, <1>4, <1>5, <1>6, <1>8 DEF Complete

\* The layout of the directory does not change with a step.
LEMMA SameLayout ==
  ASSUME UNCHANGED <<bytes, length>>, NEW R \in SUBSET (0..(length' - 1)), Layout(R)'
  PROVE  Layout(R) /\ R \in SUBSET (0..(length - 1))
BY DEF Layout, Held, InOneSector, Begins, NextSector

LEMMA PaddingKeepsListInv ==
  ASSUME ListInv, Padding, Inv' PROVE ListInv'
<1>1. pc = "scan" /\ offset < length /\ bytes[offset] = 0 /\ offset \in Nat
      /\ length \in Nat
  BY DataFacts DEF Padding, Scan, RecLen, ListInv, Inv, TypeOK
<1>2. CASE NextSector(offset) >= length /\ Stop("done")
  BY <1>1, <1>2, NothingBeyond, StopKeepsListInv
<1>3. CASE /\ NextSector(offset) < length
           /\ Walk(NextSector(offset)) /\ UNCHANGED <<pc, skip, entries, dots>>
  <2>1. NextSector(offset) \in Nat /\ offset < NextSector(offset)
        /\ Begins(NextSector(offset))
    BY <1>1, NextSectorFacts, SectorFacts
  <2>2. /\ offset' = NextSector(offset)
        /\ UNCHANGED <<bytes, length, n, pc, skip, entries, dots>>
    BY <1>3 DEF Walk
  <2>3. OrderInv'
    <3>1. \A d \in dots : d + bytes[d] \in Nat
      BY DataFacts DEF ListInv, Inv, OrderInv
    <3>2. \A d \in dots : d + bytes[d] <= offset'
      BY <1>1, <2>1, <2>2, <3>1 DEF ListInv, OrderInv
    <3> QED BY <2>2, <3>2 DEF ListInv, OrderInv
  <2>4. ASSUME NEW R \in SUBSET (0..(length' - 1)), Layout(R)'
        PROVE  Complete(R)'
    <3>1. Layout(R) /\ R \in SUBSET (0..(length - 1))
      BY <2>2, <2>4, SameLayout
    <3>2. Complete(R) /\ TypeOK /\ Inv /\ OrderInv
      BY <3>1 DEF ListInv, Inv
    <3>3. offset \notin R
      <4>1. \A o \in R : bytes[o] > 0 /\ bytes[o] \in Nat
        BY <3>1, <3>2, LayoutFacts
      <4>2. \A o \in R : bytes[o] # 0
        BY ONLY <4>1
      <4> QED BY <1>1, <4>2
    <3>4. \A r \in R : r < NextSector(offset) <=> r < offset
      <4>1. \A r \in R : r < NextSector(offset) <=> r < offset \/ r = offset
        BY <1>1, <2>1, <3>1, <3>2, <3>3, BeforeTo
      <4> QED BY <3>3, <4>1
    <3>5. { r \in R : r < offset' } = { r \in R : r < offset }
      BY <2>2, <3>4
    <3>6. Begins(offset)' /\ Listed' = Listed
      BY <2>1, <2>2 DEF Begins, Listed
    <3> QED BY <1>1, <2>2, <3>2, <3>5, <3>6 DEF Complete
  <2> QED BY <2>3, <2>4 DEF ListInv
<1> QED BY <1>2, <1>3 DEF Padding

\* The walk is past the record at the offset.
LEMMA PastRecord ==
  ASSUME ListInv, Scan, offset < n, RecLen # 0,
         offset' = offset + RecLen, UNCHANGED <<bytes, length, n, pc>>,
         RecLen >= MinRecord => (Listed \cup dots)' = Listed \cup dots \cup {offset},
         NEW R \in SUBSET (0..(length' - 1)), Layout(R)'
  PROVE  Complete(R)'
<1>1. Layout(R) /\ R \in SUBSET (0..(length - 1))
  BY SameLayout
<1>2. Complete(R) /\ pc = "scan"
  BY <1>1 DEF ListInv, Scan
<1>3. /\ n = length /\ RecLen >= MinRecord
      /\ offset + RecLen < length =>
           \/ offset + RecLen \in R \/ bytes[offset + RecLen] = 0
           \/ Begins(offset + RecLen)
      /\ { r \in R : r < offset + RecLen } = { r \in R : r < offset } \cup {offset}
  BY <1>1, AtRecord
<1>4. (Listed \cup dots)' = { r \in R : r < offset' }
  BY <1>2, <1>3 DEF Complete
<1>5. Begins(offset + RecLen) => Begins(offset)'
  BY DEF Begins
<1> QED BY <1>2, <1>3, <1>4, <1>5 DEF Complete

LEMMA SkipKeepsListInv ==
  ASSUME ListInv, SkipRecord, Inv' PROVE ListInv'
<1>1. /\ Scan /\ offset < n /\ RecLen # 0 /\ skip > 0
      /\ skip' = skip - 1 /\ dots' = dots \cup {offset} /\ offset' = offset + RecLen
      /\ UNCHANGED <<bytes, length, n, pc, entries>>
  BY DEF SkipRecord, Walk
<1>2. /\ offset \in Nat /\ offset \in DOMAIN bytes
      /\ RecLen \in Nat \ {0} /\ RecLen = bytes[offset]
  BY <1>1, RecordFacts DEF ListInv
<1>3. /\ skip \in 0..2 /\ entries = <<>> /\ IsFiniteSet(dots)
      /\ Cardinality(dots) = 2 - skip
      /\ \A d \in dots : /\ d \in DOMAIN bytes /\ d \in Nat /\ bytes[d] \in Nat
                         /\ bytes[d] > 0 /\ d + bytes[d] <= offset
  BY <1>1, DataFacts DEF ListInv, OrderInv, Inv, TypeOK
<1>4. offset \notin dots
  BY <1>2, <1>3
<1>5. IsFiniteSet(dots') /\ Cardinality(dots') = 2 - skip'
  <2>1. IsFiniteSet(dots') /\ Cardinality(dots') = Cardinality(dots) + 1
    BY <1>1, <1>3, <1>4, FS_AddElement
  <2> QED BY <1>1, <1>3, <2>1
<1>6. \A d \in dots' : /\ d \in DOMAIN bytes' /\ bytes'[d] > 0
                       /\ d + bytes'[d] <= offset'
  BY <1>1, <1>2, <1>3
<1>7. OrderInv'
  BY <1>1, <1>3, <1>5, <1>6 DEF OrderInv
<1>8. (Listed \cup dots)' = Listed \cup dots \cup {offset}
  BY <1>1 DEF Listed
<1>9. ASSUME NEW R \in SUBSET (0..(length' - 1)), Layout(R)' PROVE Complete(R)'
  BY <1>1, <1>8, <1>9, PastRecord
<1> QED BY <1>7, <1>9 DEF ListInv

LEMMA TakeKeepsListInv ==
  ASSUME ListInv, TakeRecord, Inv' PROVE ListInv'
<1>1. /\ Scan /\ offset < n /\ RecLen # 0 /\ skip = 0
      /\ entries' = IF RecLen >= MinRecord THEN Append(entries, offset) ELSE entries
      /\ offset' = offset + RecLen
      /\ UNCHANGED <<bytes, length, n, pc, skip, dots>>
  BY DEF TakeRecord, Walk
<1>2. /\ offset \in Nat /\ offset \in DOMAIN bytes
      /\ RecLen \in Nat \ {0} /\ RecLen = bytes[offset]
  BY <1>1, RecordFacts DEF ListInv
<1>3. /\ entries \in Seq(Nat)
      /\ \A d \in dots : /\ d \in DOMAIN bytes /\ d \in Nat /\ bytes[d] \in Nat
                         /\ bytes[d] > 0 /\ d + bytes[d] <= offset
  BY DataFacts DEF ListInv, OrderInv, Inv, TypeOK
<1>4. \A d \in dots : d + bytes[d] <= offset' /\ d < offset
  BY <1>1, <1>2, <1>3
<1>5. CASE RecLen >= MinRecord
  <2>1. /\ entries' = Append(entries, offset) /\ Len(entries') = Len(entries) + 1
        /\ entries'[Len(entries) + 1] = offset
        /\ \A i \in 1..Len(entries) : entries'[i] = entries[i]
        /\ \A i \in 1..Len(entries') : i \in 1..Len(entries) \/ i = Len(entries) + 1
        /\ \A i \in 1..Len(entries) : i \in 1..Len(entries')
        /\ Len(entries) + 1 \in 1..Len(entries')
    BY <1>1, <1>2, <1>3, <1>5
  <2>2. \A i \in 1..Len(entries') : bytes'[entries'[i]] >= MinRecord
    BY <1>1, <1>2, <1>5, <2>1 DEF ListInv, OrderInv
  <2>3. \A d \in dots : \A i \in 1..Len(entries') : d < entries'[i]
    BY <1>4, <2>1 DEF ListInv, OrderInv
  <2>4. OrderInv'
    BY <1>1, <1>4, <2>2, <2>3 DEF ListInv, OrderInv
  <2>5. (Listed \cup dots)' = Listed \cup dots \cup {offset}
    BY <1>1, <2>1 DEF Listed
  <2>6. ASSUME NEW R \in SUBSET (0..(length' - 1)), Layout(R)' PROVE Complete(R)'
    BY <1>1, <2>5, <2>6, PastRecord
  <2> QED BY <2>4, <2>6 DEF ListInv
<1>6. CASE ~(RecLen >= MinRecord)
  <2>1. OrderInv'
    BY <1>1, <1>4, <1>6 DEF ListInv, OrderInv
  <2>2. ASSUME NEW R \in SUBSET (0..(length' - 1)), Layout(R)' PROVE Complete(R)'
    BY <1>1, <1>6, <2>2, PastRecord
  <2> QED BY <2>1, <2>2 DEF ListInv
<1> QED BY <1>5, <1>6

\* A record of a well-formed directory is never cut.
LEMMA CutKeepsListInv ==
  ASSUME ListInv, CutRecord PROVE ListInv'
<1>1. /\ Scan /\ offset < n /\ RecLen # 0 /\ offset + RecLen > n /\ Stop("done")
  BY DEF CutRecord
<1>2. \A R \in SUBSET (0..(length - 1)) : ~Layout(R)
  <2> SUFFICES ASSUME NEW R \in SUBSET (0..(length - 1)), Layout(R) PROVE FALSE
    OBVIOUS
  <2>1. /\ n = length /\ offset + RecLen <= NextSector(offset)
        /\ NextSector(offset) <= length /\ offset + RecLen \in Nat
    BY <1>1, AtRecord
  <2>2. length \in Nat /\ offset \in Nat
    BY DataFacts DEF ListInv, Inv, TypeOK
  <2>3. NextSector(offset) \in Nat
    BY <2>2, NextSectorFacts
  <2> QED BY <1>1, <2>1, <2>2, <2>3
<1> QED BY <1>1, <1>2, StopKeepsListInv

LEMMA ListNext == ListInv /\ [Next]_vars => ListInv'
<1> SUFFICES ASSUME ListInv, [Next]_vars PROVE ListInv'
  OBVIOUS
<1>1. Inv'
  BY NextInv DEF ListInv
<1>2. CASE ReadSectors
  BY <1>2, ReadKeepsListInv
<1>3. CASE ReadFails
  BY <1>3, StopKeepsListInv DEF ReadFails
<1>4. CASE OutOfRange
  <2>1. Stop("panic") /\ pc' = "panic" /\ length' = length
    BY <1>4 DEF OutOfRange, Stop
  <2>2. length > W - S
    BY <1>1, <2>1 DEF Inv, PanicsOnlyOnWrap
  <2> QED BY <2>1, <2>2, StopKeepsListInv
<1>5. CASE Padding
  BY <1>1, <1>5, PaddingKeepsListInv
<1>6. CASE CutRecord
  BY <1>6, CutKeepsListInv
<1>7. CASE SkipRecord
  BY <1>1, <1>7, SkipKeepsListInv
<1>8. CASE TakeRecord
  BY <1>1, <1>8, TakeKeepsListInv
<1>9. CASE EndReached
  BY <1>9, NothingBeyond, StopKeepsListInv DEF EndReached
<1>10. CASE UNCHANGED vars
  <2>1. UNCHANGED <<bytes, length, pc, n, offset, skip, entries, dots>>
    BY <1>10 DEF vars
  <2>2. ASSUME NEW R \in SUBSET (0..(length' - 1)), Layout(R)' PROVE Complete(R)'
    <3>1. Layout(R) /\ R \in SUBSET (0..(length - 1))
      BY <2>1, <2>2, SameLayout
    <3> QED BY <2>1, <3>1 DEF ListInv, Complete, Listed, Begins
  <2>3. OrderInv'
    BY <2>1 DEF ListInv, OrderInv
  <2> QED BY <1>1, <2>2, <2>3 DEF ListInv
<1> QED BY <1>2, <1>3, <1>4, <1>5, <1>6, <1>7, <1>8, <1>9, <1>10 DEF Next

\* A well-formed directory is listed completely: every record but the first
\* two, in order, and nothing else (iso9660/volume.go:252-279).
THEOREM CompleteListing == Spec => []ListsTheDirectory
<1>1. ASSUME ListInv, pc = "done", NEW R \in SUBSET (0..(length - 1)), Layout(R)
      PROVE  /\ Listed \cup dots = R
             /\ \A d \in dots, e \in Listed : d < e
             /\ \A i, j \in 1..Len(entries) : i < j => entries[i] < entries[j]
             /\ Listed # {} => Cardinality(dots) = 2
  <2>1. Listed \cup dots = R
    BY <1>1 DEF ListInv, Complete
  <2>2. \A d \in dots, e \in Listed : d < e
    BY <1>1 DEF ListInv, OrderInv, Listed
  <2>3. ASSUME NEW i \in 1..Len(entries), NEW j \in 1..Len(entries), i < j
        PROVE  entries[i] < entries[j]
    <3>1. /\ entries[i] + bytes[entries[i]] <= entries[j]
          /\ entries[i] \in DOMAIN bytes /\ entries[j] \in DOMAIN bytes
          /\ bytes[entries[i]] >= MinRecord
      BY <1>1, <2>3 DEF ListInv, Inv, EntriesAreDisjoint, WalkInv, OrderInv
    <3>2. /\ entries[i] \in Nat /\ bytes[entries[i]] \in Nat /\ entries[j] \in Nat
          /\ MinRecord \in Nat \ {0}
      BY <1>1, <3>1, DataFacts, SizesAssumption DEF ListInv, Inv
    <3> QED BY <3>1, <3>2
  <2>4. ASSUME Listed # {} PROVE Cardinality(dots) = 2
    <3>1. entries # <<>>
      BY <2>4 DEF Listed
    <3>2. skip = 0
      BY <1>1, <3>1 DEF ListInv, OrderInv, Inv, TypeOK
    <3> QED BY <1>1, <3>2 DEF ListInv, OrderInv
  <2> QED BY <2>1, <2>2, <2>3, <2>4
<1>2. ListInv => ListsTheDirectory
  BY <1>1 DEF ListsTheDirectory
<1> QED BY <1>2, ListInit, ListNext, PTL DEF Spec
=============================================================================
