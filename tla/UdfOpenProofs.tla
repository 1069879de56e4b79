---------------------------- MODULE UdfOpenProofs ----------------------------
(***************************************************************************)
(* Proofs about UdfOpen, for every image, every width of a sector number   *)
(* and every sector size: the volume that opens is the one its chain leads *)
(* to, and Diagnose walks the same chain.                                  *)
(*                                                                         *)
(* The properties speak of walks that are over.  They are inductive once   *)
(* it is said of each walk which slots it has passed, what it took from    *)
(* them, and, at an end that is no success, which link is missing (Known). *)
(***************************************************************************)
EXTENDS UdfOpen, TLAPS

Anchor == image.anchor

\* The length is stated right.
Exact == Anchor.len <= W - S

\* Slot k is the last of the first n with this tag.
LastBefore(n, tag, k) ==
  /\ k \in 0..(n - 1) /\ Slot(k).tag = tag
  /\ \A j \in 0..(n - 1) : j > k => Slot(j).tag # tag

\* The locals r hold the last partition and the last file set so far.
Knows(r) ==
  /\ r.partFound => \E k : /\ LastBefore(r.i, 5, k)
                           /\ r.partStart = Slot(k).loc /\ r.partLen = Slot(k).len
  /\ ~r.partFound => \A k \in 0..(r.i - 1) : Slot(k).tag # 5
  /\ r.fsdFound => \E k : LastBefore(r.i, 6, k) /\ r.fsd = Slot(k).loc
  /\ ~r.fsdFound => \A k \in 0..(r.i - 1) : Slot(k).tag # 6

GoesOn(n) ==
  \A k \in 0..(n - 1) : Has(Wrap(Anchor.loc + k)) /\ Slot(k).tag # 8

Walked(r) ==
  /\ image.anchored /\ r.loc = Anchor.loc /\ r.count = SectorCount(Anchor.len)
  /\ r.i \in 0..r.count
  /\ GoesOn(r.i) /\ Knows(r)

\* Nothing of the sequence lies beyond the slots passed.
Ended(r) == Exact => \A k \in Slots : Reached(k) => k < r.i

\* There is no file set where the descriptors that count say.
NoChain ==
  ~ \E p, q \in Slots :
      /\ Prevails(5, p) /\ Prevails(6, q)
      /\ LET n == Wrap(Slot(p).loc + Slot(q).loc)
         IN  Has(n) /\ At(n).tag = 256

Clear(x, failed) == \A e \in failed : e[1] # x

\* Diagnose may have lost the end of the sequence to a failed read.
Lost(x, failed) == x = "Diagnose" /\ ~Clear(x, failed)

\* The walk x finds no file set.
Astray(x, failed) == ~Clear(x, failed) \/ NoChain

Missing(x, r, failed) ==
  \/ Astray(x, failed) \/ ~Exact \/ ~image.anchored
  \/ x = "NewVolume" /\ ~Bounded
  \/ x = "Diagnose" /\ (Anchor.tag # 2 \/ (Resolves(r) /\ ~Has(r.root)))

Known(x, r, failed) ==
  /\ r.pc \in {"vds", "resolve", "fsd", "alt", "root", "opened"} => Walked(r)
  /\ r.pc \in {"resolve", "fsd", "alt", "root", "opened"} =>
       /\ Ended(r) \/ Lost(x, failed)
       /\ x = "NewVolume" /\ Exact => Bounded
  /\ r.pc \in {"fsd", "alt", "root", "opened"} => r.partFound /\ r.fsdFound
  /\ r.pc \in {"root", "opened"} => Resolves(r) \/ Lost(x, failed)
  /\ r.pc = "error" => Missing(x, r, failed)
  /\ r.pc = "alt" => Astray(x, failed)
  /\ r.pc = "panic" => Astray(x, failed) \/ MapIsCut
  /\ r.pc # "opened" => r.compat = FALSE
  /\ r.pc = "anchor" => r = Start

WalkType ==
  [pc : {"anchor", "vds", "resolve", "fsd", "alt", "root"} \cup Over,
   loc : LBA, count : 0..W, i : 0..W,
   partFound : BOOLEAN, partStart : LBA, partLen : LBA,
   fsdFound : BOOLEAN, fsd : LBA, root : LBA, compat : BOOLEAN]

Inv ==
  /\ image \in Images
  /\ TypeOK
  /\ \A x \in Walkers : Known(x, w[x], faults)

-----------------------------------------------------------------------------
(***************************************************************************)
(* The image and its arithmetic.                                           *)
(***************************************************************************)
LEMMA ImageFacts ==
  ASSUME image \in Images
  PROVE  /\ W \in Nat \ {0} /\ S \in Nat \ {0}
         /\ image.anchored \in BOOLEAN
         /\ Anchor.tag \in Nat /\ Anchor.loc \in LBA /\ Anchor.len \in LBA
         /\ \A n : Has(n) => /\ At(n) \in Sector /\ At(n).tag \in Nat
                             /\ At(n).loc \in LBA /\ At(n).len \in LBA
<1>1. /\ W \in Nat \ {0} /\ S \in Nat \ {0}
      /\ image.anchored \in BOOLEAN /\ image.anchor \in Sector
      /\ \A n \in DOMAIN image.sectors : image.sectors[n] \in Sector
  BY ImagesAssumption
<1>2. \A s \in Sector : s.tag \in Nat /\ s.loc \in LBA /\ s.len \in LBA
  BY DEF Sector
<1> QED BY <1>1, <1>2 DEF Anchor, Has, At

LEMMA WrapFacts ==
  ASSUME W \in Nat \ {0}, NEW n \in Nat
  PROVE  Wrap(n) \in LBA
  BY DEF Wrap, LBA

LEMMA DivBounds ==
  ASSUME NEW a \in Nat, NEW s \in Nat \ {0}
  PROVE  /\ a \div s \in Nat /\ a \div s <= a
         /\ a < s => a \div s = 0
<1>1. a \div s \in Nat
  OBVIOUS
<1>2. (a \div s) * s <= a /\ (a \div s) * s >= a \div s
  <2>1. (a \div s) * s <= a
    OBVIOUS
  <2>2. \A q \in Nat : q * s >= q
    OBVIOUS
  <2> QED BY <1>1, <2>1, <2>2
<1>3. (a \div s) * s \in Nat
  BY <1>1
<1>4. a < s => a \div s = 0
  <2>1. \A q \in Nat : q # 0 => q * s >= s
    OBVIOUS
  <2> QED BY <1>1, <1>2, <1>3, <2>1
<1> QED BY <1>1, <1>2, <1>3, <1>4

LEMMA ModOnce ==
  ASSUME NEW a \in Nat, NEW b \in Nat \ {0}, a >= b, a < b + b
  PROVE  a % b = a - b
<1>1. PICK q, m : q = a \div b /\ m = a % b
  OBVIOUS
<1>2. q \in Nat /\ m \in 0..(b - 1) /\ a = b * q + m
  BY <1>1
<1>3. q # 0
  BY <1>2
<1>4. ASSUME q >= 2 PROVE FALSE
  <2>1. PICK n \in Nat : q = 2 + n
    <3>1. q - 2 \in Nat /\ q = 2 + (q - 2)
      BY <1>2, <1>4
    <3> QED BY <3>1
  <2>2. b * q = b + b + b * n /\ b * n \in Nat
    BY <2>1
  <2> QED BY <1>2, <2>2
<1>5. q = 1
  BY <1>2, <1>3, <1>4
<1> QED BY <1>1, <1>2, <1>5

\* The number of sectors the code counts is that of the slots, or none.
LEMMA CountFacts ==
  ASSUME image \in Images
  PROVE  /\ SectorCount(Anchor.len) \in 0..W
         /\ Exact => Slots = 0..(SectorCount(Anchor.len) - 1)
         /\ ~Exact => SectorCount(Anchor.len) = 0
<1>1. PICK len : len = Anchor.len
  OBVIOUS
<1>2. W \in Nat \ {0} /\ S \in Nat \ {0} /\ len \in 0..(W - 1)
  BY <1>1, ImageFacts DEF LBA
<1>3. PICK sum : sum = len + S - 1
  OBVIOUS
<1>4. sum \in Nat
  BY <1>2, <1>3
<1>5. PICK rest : rest = sum % W
  OBVIOUS
<1>6. rest \in 0..(W - 1)
  BY <1>2, <1>4, <1>5
<1>7. SectorCount(len) = rest \div S
  BY <1>3, <1>5 DEF SectorCount, Wrap
<1>8. rest \div S \in 0..W /\ (rest < S => rest \div S = 0)
  <2>1. rest \div S \in Nat /\ rest \div S <= rest /\ (rest < S => rest \div S = 0)
    BY <1>2, <1>6, DivBounds
  <2> QED BY <1>2, <1>6, <2>1
<1>9. CASE len <= W - S
  <2>1. sum < W
    BY <1>2, <1>3, <1>9
  <2>2. rest = sum
    BY <1>2, <1>4, <1>5, <2>1
  <2>3. Slots = 0..(SectorCount(len) - 1)
    BY <1>1, <1>3, <1>7, <2>2 DEF Slots, Anchor
  <2> QED BY <1>1, <1>7, <1>8, <1>9, <2>3 DEF Exact
<1>10. CASE ~(len <= W - S)
  <2>1. rest < S
    <3>1. CASE S > W
      BY <1>2, <1>6, <3>1
    <3>2. CASE S <= W
      <4>1. sum >= W /\ sum - W < S /\ sum < W + W
        BY <1>2, <1>3, <1>10, <3>2
      <4>2. rest = sum - W
        BY <1>2, <1>4, <1>5, <4>1, ModOnce
      <4> QED BY <4>1, <4>2
    <3> QED BY <1>2, <3>1, <3>2
  <2> QED BY <1>1, <1>7, <1>8, <1>10, <2>1 DEF Exact
<1> QED BY <1>9, <1>10

-----------------------------------------------------------------------------
(***************************************************************************)
(* The sequence.                                                           *)
(***************************************************************************)
LEMMA PrevailsOnce ==
  ASSUME image \in Images, NEW tag, NEW p, NEW q, Prevails(tag, p), Prevails(tag, q)
  PROVE  p = q
<1>1. p \in Slots /\ q \in Slots /\ p \in Int /\ q \in Int
  BY DEF Prevails, Slots
<1>2. ~(p < q) /\ ~(q < p)
  BY <1>1 DEF Prevails
<1> QED BY <1>1, <1>2

LEMMA PassedReached ==
  ASSUME NEW n \in Nat, GoesOn(n), NEW k \in 0..(n - 1)
  PROVE  Reached(k)
<1>1. \A j \in 0..k : j \in 0..(n - 1)
  OBVIOUS
<1> QED BY <1>1 DEF GoesOn, Reached, Anchor

\* At the end of the sequence the last of a tag is the one that counts.
LEMMA LastPrevails ==
  ASSUME image \in Images, NEW r \in WalkType, Walked(r), Ended(r),
         NEW tag, NEW k, LastBefore(r.i, tag, k)
  PROVE  Exact /\ Prevails(tag, k)
<1>1. PICK n : n = r.i
  OBVIOUS
<1>2. /\ n \in Nat /\ k \in 0..(n - 1) /\ n <= r.count /\ r.count \in Nat
      /\ r.count = SectorCount(Anchor.len) /\ GoesOn(n)
  BY <1>1 DEF WalkType, Walked, LastBefore
<1>3. Exact /\ Slots = 0..(r.count - 1)
  BY <1>2, CountFacts
<1>4. k \in Slots /\ Reached(k)
  BY <1>2, <1>3, PassedReached
<1>5. ASSUME NEW j \in Slots, j > k, Reached(j) PROVE Slot(j).tag # tag
  <2>1. j < n /\ j \in 0..(n - 1)
    BY <1>1, <1>2, <1>3, <1>5 DEF Ended
  <2> QED BY <1>1, <1>5, <2>1 DEF LastBefore
<1>6. Slot(k).tag = tag
  BY DEF LastBefore
<1> QED BY <1>3, <1>4, <1>5, <1>6 DEF Prevails

\* What a walk at the end of the sequence holds.
LEMMA WholeWalk ==
  ASSUME image \in Images, NEW r \in WalkType, Walked(r), Ended(r)
  PROVE  /\ r.partFound =>
              \E p \in Slots : /\ Prevails(5, p) /\ Exact
                               /\ r.partStart = Slot(p).loc /\ r.partLen = Slot(p).len
         /\ r.fsdFound => \E q \in Slots : Prevails(6, q) /\ Exact /\ r.fsd = Slot(q).loc
         /\ ~r.partFound /\ Exact => \A p : ~Prevails(5, p)
         /\ ~r.fsdFound /\ Exact => \A q : ~Prevails(6, q)
<1>1. ASSUME r.partFound
      PROVE  \E p \in Slots : /\ Prevails(5, p) /\ Exact
                              /\ r.partStart = Slot(p).loc /\ r.partLen = Slot(p).len
  <2>1. PICK k : /\ LastBefore(r.i, 5, k)
                 /\ r.partStart = Slot(k).loc /\ r.partLen = Slot(k).len
    BY <1>1 DEF Walked, Knows
  <2>2. Exact /\ Prevails(5, k)
    BY <2>1, LastPrevails
  <2> QED BY <2>1, <2>2 DEF Prevails
<1>2. ASSUME r.fsdFound
      PROVE  \E q \in Slots : Prevails(6, q) /\ Exact /\ r.fsd = Slot(q).loc
  <2>1. PICK k : LastBefore(r.i, 6, k) /\ r.fsd = Slot(k).loc
    BY <1>2 DEF Walked, Knows
  <2>2. Exact /\ Prevails(6, k)
    BY <2>1, LastPrevails
  <2> QED BY <2>1, <2>2 DEF Prevails
<1>3. ASSUME Exact, NEW k, NEW tag, Prevails(tag, k) PROVE k \in 0..(r.i - 1)
  <2>1. k \in Slots /\ k < r.i /\ r.i \in Nat /\ k \in Int /\ k >= 0
    BY <1>3 DEF Prevails, Ended, WalkType, Slots
  <2> QED BY <2>1
<1>4. ASSUME ~r.partFound, Exact, NEW p, Prevails(5, p) PROVE FALSE
  <2>1. p \in 0..(r.i - 1) /\ Slot(p).tag = 5
    BY <1>3, <1>4 DEF Prevails
  <2> QED BY <1>4, <2>1 DEF Walked, Knows
<1>5. ASSUME ~r.fsdFound, Exact, NEW q, Prevails(6, q) PROVE FALSE
  <2>1. q \in 0..(r.i - 1) /\ Slot(q).tag = 6
    BY <1>3, <1>5 DEF Prevails
  <2> QED BY <1>5, <2>1 DEF Walked, Knows
<1> QED BY <1>1, <1>2, <1>4, <1>5

\* A walk through the whole sequence has found the descriptors that count.
LEMMA FoundBoth ==
  ASSUME image \in Images, NEW r \in WalkType, Walked(r), Ended(r),
         r.partFound, r.fsdFound
  PROVE  \E p, q \in Slots :
           /\ Prevails(5, p) /\ Prevails(6, q)
           /\ r.partStart = Slot(p).loc /\ r.partLen = Slot(p).len
           /\ r.fsd = Slot(q).loc
<1>1. PICK p \in Slots : /\ Prevails(5, p)
                         /\ r.partStart = Slot(p).loc /\ r.partLen = Slot(p).len
  BY WholeWalk
<1>2. PICK q \in Slots : Prevails(6, q) /\ r.fsd = Slot(q).loc
  BY WholeWalk
<1> QED BY <1>1, <1>2

\* A file set that is not where the descriptors say.
LEMMA NoFileSet ==
  ASSUME image \in Images, NEW r \in WalkType, Walked(r), Ended(r),
         r.partFound, r.fsdFound,
         ~(/\ Has(Wrap(r.partStart + r.fsd))
           /\ At(Wrap(r.partStart + r.fsd)).tag = 256)
  PROVE  NoChain
<1>1. PICK p, q \in Slots : /\ Prevails(5, p) /\ Prevails(6, q)
                            /\ r.partStart = Slot(p).loc /\ r.fsd = Slot(q).loc
  BY FoundBoth
<1>2. ASSUME NEW a \in Slots, NEW b \in Slots, Prevails(5, a), Prevails(6, b)
      PROVE  a = p /\ b = q
  BY <1>1, <1>2, PrevailsOnce
<1> QED BY <1>1, <1>2 DEF NoChain

\* A descriptor that was found is in a sequence of a length stated right.
LEMMA FoundIsExact ==
  ASSUME image \in Images, NEW r \in WalkType, Walked(r), r.partFound
  PROVE  Exact
<1>1. PICK k : LastBefore(r.i, 5, k)
  BY DEF Walked, Knows
<1>2. PICK n, c : n = r.i /\ c = r.count
  OBVIOUS
<1>3. n \in Nat /\ k \in 0..(n - 1) /\ n \in 0..c /\ c = SectorCount(Anchor.len)
  BY <1>1, <1>2 DEF WalkType, Walked, LastBefore
<1>4. c # 0
  BY <1>3
<1> QED BY <1>3, <1>4, CountFacts

\* The next slot of the walk.
LEMMA NextSlot ==
  ASSUME image \in Images, NEW r \in WalkType, Walked(r), r.i < r.count
  PROVE  /\ r.i \in Nat /\ r.i + 1 \in 0..W /\ r.i + 1 <= r.count /\ r.i \in Slots
         /\ Exact
<1>1. PICK n, c : n = r.i /\ c = r.count
  OBVIOUS
<1>2. n \in Nat /\ c \in 0..W /\ n < c /\ c = SectorCount(Anchor.len) /\ W \in Nat
  BY <1>1, ImageFacts DEF WalkType, Walked
<1>3. Exact
  BY <1>2, CountFacts
<1>4. Slots = 0..(c - 1)
  BY <1>2, <1>3, CountFacts
<1> QED BY <1>1, <1>2, <1>3, <1>4

\* The sequence ends at a terminator and at a sector that is not there.
LEMMA EndsHere ==
  ASSUME image \in Images, NEW r \in WalkType, Walked(r),
         ~Has(Wrap(Anchor.loc + r.i)) \/ Slot(r.i).tag = 8
  PROVE  Ended(r)
<1>1. PICK n : n = r.i
  OBVIOUS
<1>2. n \in Nat
  BY <1>1 DEF WalkType
<1>3. ASSUME NEW k \in Slots, Reached(k), ~(k < n) PROVE FALSE
  <2>1. k \in Int
    BY DEF Slots
  <2>2. n \in 0..k
    BY <1>2, <1>3, <2>1
  <2> QED BY <1>1, <1>3, <2>2 DEF Reached, Anchor
<1> QED BY <1>1, <1>3 DEF Ended

LEMMA TerminatorBounds ==
  ASSUME image \in Images, NEW r \in WalkType, Walked(r),
         Has(Wrap(Anchor.loc + r.i)), Slot(r.i).tag = 8
  PROVE  Bounded
<1>1. PICK n : n = r.i
  OBVIOUS
<1>2. n \in Nat /\ GoesOn(n) /\ Has(Wrap(Anchor.loc + n)) /\ Slot(n).tag = 8
  BY <1>1 DEF WalkType, Walked
<1>3. ASSUME NEW k \in Slots
      PROVE  Has(Wrap(Anchor.loc + k)) \/ \E j \in 0..(k - 1) : Slot(j).tag = 8
  <2>1. k \in Int /\ k >= 0
    BY DEF Slots
  <2>2. CASE k < n
    <3>1. k \in 0..(n - 1)
      BY <1>2, <2>1, <2>2
    <3> QED BY <1>2, <3>1 DEF GoesOn
  <2>3. CASE k = n
    BY <1>2, <2>3
  <2>4. CASE k > n
    <3>1. n \in 0..(k - 1)
      BY <1>2, <2>1, <2>4
    <3> QED BY <1>2, <3>1
  <2> QED BY <1>2, <2>1, <2>2, <2>3, <2>4
<1> QED BY <1>3 DEF Bounded, Anchor

LEMMA AllPassed ==
  ASSUME image \in Images, NEW r \in WalkType, Walked(r), r.i >= r.count
  PROVE  Ended(r) /\ (Exact => Bounded)
<1>1. PICK n, c : n = r.i /\ c = r.count
  OBVIOUS
<1>2. n \in Nat /\ c \in Nat /\ n \in 0..c /\ n >= c /\ c = SectorCount(Anchor.len)
      /\ GoesOn(n)
  BY <1>1 DEF WalkType, Walked
<1>3. n = c
  BY <1>2
<1>4. ASSUME Exact, NEW k \in Slots PROVE k < n /\ k \in 0..(n - 1)
  <2>1. Slots = 0..(c - 1)
    BY <1>2, <1>4, CountFacts
  <2> QED BY <1>2, <1>3, <1>4, <2>1
<1>5. Ended(r)
  BY <1>1, <1>4 DEF Ended
<1>6. ASSUME Exact PROVE Bounded
  <2>1. ASSUME NEW k \in Slots PROVE Has(Wrap(Anchor.loc + k))
    BY <1>2, <1>4, <1>6, <2>1 DEF GoesOn
  <2> QED BY <2>1 DEF Bounded, Anchor
<1> QED BY <1>5, <1>6

\* A sequence that leaves the image before its end.
LEMMA LeavesTheImage ==
  ASSUME image \in Images, NEW r \in WalkType, Walked(r), r.i < r.count,
         ~Has(Wrap(Anchor.loc + r.i))
  PROVE  ~Bounded
<1>1. PICK n : n = r.i
  OBVIOUS
<1>2. n \in Slots /\ GoesOn(n)
  BY <1>1, NextSlot DEF Walked
<1>3. \A j \in 0..(n - 1) : Slot(j).tag # 8
  BY <1>2 DEF GoesOn
<1> QED BY <1>1, <1>2, <1>3 DEF Bounded, Anchor

\* What the walk knows after the next descriptor.
LEMMA TakesTheNext ==
  ASSUME image \in Images, NEW r \in WalkType, Walked(r), r.i < r.count,
         Has(Wrap(Anchor.loc + r.i)), Slot(r.i).tag # 8,
         NEW t, t = [Taken(r, Slot(r.i)) EXCEPT !.i = @ + 1]
  PROVE  t \in WalkType /\ Walked(t) /\ t.pc = r.pc /\ t.compat = r.compat
<1>1. PICK n, s : n = r.i /\ s = Slot(r.i)
  OBVIOUS
<1>2. /\ n \in Nat /\ n + 1 \in 0..W /\ n + 1 <= r.count /\ r.count \in Nat
      /\ r.count \in 0..W
  BY <1>1, NextSlot DEF WalkType
<1>3. s.tag \in Nat /\ s.loc \in LBA /\ s.len \in LBA
  BY <1>1, ImageFacts DEF Slot, Anchor
<1>4. /\ t.i = n + 1 /\ t.loc = r.loc /\ t.count = r.count /\ t.pc = r.pc
      /\ t.compat = r.compat /\ t \in WalkType
      /\ (s.tag = 5 => t.partFound = TRUE)
      /\ (s.tag # 5 => t.partFound = r.partFound)
      /\ (s.tag = 5 => t.partStart = s.loc /\ t.partLen = s.len)
      /\ (s.tag # 5 => t.partStart = r.partStart /\ t.partLen = r.partLen)
      /\ (s.tag = 6 => t.fsdFound = TRUE /\ t.fsd = s.loc)
      /\ (s.tag # 6 => t.fsdFound = r.fsdFound /\ t.fsd = r.fsd)
  <2>a. PICK loc, len : loc = s.loc /\ len = s.len
    OBVIOUS
  <2>b. loc \in LBA /\ len \in LBA /\ r \in WalkType
    BY <1>3, <2>a
  <2>1. CASE s.tag = 5
    <3>1. t = [r EXCEPT !.partFound = TRUE, !.partStart = loc,
                        !.partLen = len, !.i = n + 1]
      BY <1>1, <2>1, <2>a DEF Taken, WalkType
    <3>2. t \in WalkType
      BY ONLY <1>2, <2>b, <3>1 DEF WalkType
    <3>3. /\ t.i = n + 1 /\ t.loc = r.loc /\ t.count = r.count /\ t.pc = r.pc
          /\ t.compat = r.compat /\ t.partFound = TRUE
          /\ t.partStart = loc /\ t.partLen = len
          /\ t.fsdFound = r.fsdFound /\ t.fsd = r.fsd
      BY ONLY <2>b, <3>1 DEF WalkType
    <3> QED BY <2>1, <2>a, <3>2, <3>3
  <2>2. CASE s.tag = 6
    <3>1. t = [r EXCEPT !.fsdFound = TRUE, !.fsd = loc, !.i = n + 1]
      BY <1>1, <2>2, <2>a DEF Taken, WalkType
    <3>2. t \in WalkType
      BY ONLY <1>2, <2>b, <3>1 DEF WalkType
    <3>3. /\ t.i = n + 1 /\ t.loc = r.loc /\ t.count = r.count /\ t.pc = r.pc
          /\ t.compat = r.compat /\ t.fsdFound = TRUE /\ t.fsd = loc
          /\ t.partFound = r.partFound
          /\ t.partStart = r.partStart /\ t.partLen = r.partLen
      BY ONLY <2>b, <3>1 DEF WalkType
    <3> QED BY <2>2, <2>a, <3>2, <3>3
  <2>3. CASE s.tag # 5 /\ s.tag # 6
    <3>1. t = [r EXCEPT !.i = n + 1]
      BY <1>1, <2>3 DEF Taken, WalkType
    <3> QED BY <1>2, <1>3, <2>3, <3>1 DEF WalkType
  <2> QED BY <2>1, <2>2, <2>3
<1>5. \A k : k \in 0..n => k \in 0..(n - 1) \/ k = n
  BY <1>2
<1>6. n \in 0..n /\ \A k \in 0..(n - 1) : k \in 0..n /\ ~(k > n) /\ n > k
  BY <1>2
<1>7. (n + 1) - 1 = n
  BY <1>2
<1>8. GoesOn(n + 1)
  <2>1. GoesOn(n)
    BY <1>1 DEF Walked
  <2> QED BY <1>1, <1>5, <1>7, <2>1 DEF GoesOn
<1>9. ASSUME NEW tag, s.tag = tag PROVE LastBefore(n + 1, tag, n)
  BY <1>1, <1>2, <1>5, <1>6, <1>7, <1>9 DEF LastBefore
<1>10. ASSUME NEW tag, s.tag # tag, NEW k, LastBefore(n, tag, k)
       PROVE  LastBefore(n + 1, tag, k)
  BY <1>1, <1>2, <1>5, <1>6, <1>7, <1>10 DEF LastBefore
<1>11. ASSUME NEW tag, s.tag # tag, \A k \in 0..(n - 1) : Slot(k).tag # tag
       PROVE  \A k \in 0..((n + 1) - 1) : Slot(k).tag # tag
  BY <1>1, <1>5, <1>7, <1>11
<1>12. Knows(t)
  <2>1. Knows(r)
    BY DEF Walked
  <2>2. t.partFound => \E k : /\ LastBefore(t.i, 5, k)
                              /\ t.partStart = Slot(k).loc /\ t.partLen = Slot(k).len
    <3>1. CASE s.tag = 5
      BY <1>1, <1>4, <1>9, <3>1
    <3>2. CASE s.tag # 5
      BY <1>1, <1>4, <1>10, <2>1, <3>2 DEF Knows
    <3> QED BY <3>1, <3>2
  <2>3. ~t.partFound => \A k \in 0..(t.i - 1) : Slot(k).tag # 5
    BY <1>1, <1>4, <1>11, <2>1 DEF Knows
  <2>4. t.fsdFound => \E k : LastBefore(t.i, 6, k) /\ t.fsd = Slot(k).loc
    <3>1. CASE s.tag = 6
      BY <1>1, <1>4, <1>9, <3>1
    <3>2. CASE s.tag # 6
      BY <1>1, <1>4, <1>10, <2>1, <3>2 DEF Knows
    <3> QED BY <3>1, <3>2
  <2>5. ~t.fsdFound => \A k \in 0..(t.i - 1) : Slot(k).tag # 6
    BY <1>1, <1>4, <1>11, <2>1 DEF Knows
  <2> QED BY <2>2, <2>3, <2>4, <2>5 DEF Knows
<1>13. t.i \in 0..t.count
  BY <1>2, <1>4
<1> QED BY <1>4, <1>8, <1>12, <1>13 DEF Walked

-----------------------------------------------------------------------------
(***************************************************************************)
(* The frame of a step.                                                    *)
(***************************************************************************)
FaultPlaces == {"anchor", "vds", "fsd", "alt", "root"}

LEMMA KnownGrows ==
  ASSUME NEW x, NEW r, NEW a, NEW b, a \subseteq b, Known(x, r, a)
  PROVE  Known(x, r, b)
<1>1. Clear(x, b) => Clear(x, a)
  BY DEF Clear
<1>2. /\ Lost(x, a) => Lost(x, b)
      /\ Missing(x, r, a) => Missing(x, r, b)
      /\ Astray(x, a) => Astray(x, b)
  BY <1>1 DEF Lost, Missing, Astray
<1> QED BY <1>2 DEF Known

LEMMA KnownStays ==
  ASSUME image' = image, NEW x, NEW r, Known(x, r, faults')
  PROVE  Known(x, r, faults)'
<1>1. /\ Exact' = Exact /\ Slots' = Slots /\ Anchor' = Anchor
      /\ \A k : Slot(k)' = Slot(k)
      /\ \A n : Has(n)' = Has(n) /\ At(n)' = At(n)
  BY DEF Exact, Slots, Anchor, Slot, Has, At
<1>2. /\ \A k : Reached(k)' = Reached(k)
      /\ \A n : GoesOn(n)' = GoesOn(n)
      /\ Bounded' = Bounded
  BY <1>1 DEF Reached, GoesOn, Bounded, Anchor
<1>3. \A tag, k : Prevails(tag, k)' = Prevails(tag, k)
  BY <1>1, <1>2 DEF Prevails
<1>4. \A n, tag, k : LastBefore(n, tag, k)' = LastBefore(n, tag, k)
  BY <1>1 DEF LastBefore
<1>5. Knows(r)' = Knows(r) /\ Ended(r)' = Ended(r)
  BY <1>1, <1>2, <1>4 DEF Knows, Ended
<1>6. Walked(r)' = Walked(r)
  BY <1>1, <1>2, <1>5 DEF Walked
<1>7. Resolves(r)' = Resolves(r) /\ NoChain' = NoChain
  BY <1>1, <1>3 DEF Resolves, NoChain
<1>8. /\ Missing(x, r, faults)' = Missing(x, r, faults')
      /\ Lost(x, faults)' = Lost(x, faults')
      /\ Astray(x, faults)' = Astray(x, faults')
  BY <1>1, <1>2, <1>7 DEF Missing, Astray, Lost, Clear
<1>9. MapIsCut' = MapIsCut
  <2>1. ASSUME NEW k PROVE Overreads(Slot(k))' = Overreads(Slot(k))
    <3>1. PICK s : s = Slot(k)
      OBVIOUS
    <3>2. Slot(k)' = s
      BY <1>1, <3>1
    <3>3. MapOff(Slot(k))' = MapOff(s)
      BY <3>2, Zenon DEF MapOff
    <3>4. \A m : CutMap(Slot(k), m)' = CutMap(s, m)
      BY <3>2, <3>3 DEF CutMap
    <3>5. Overreads(Slot(k))' = Overreads(s)
      BY <3>2, <3>4 DEF Overreads
    <3> QED BY <3>1, <3>5
  <2> QED BY <1>1, <1>2, <2>1 DEF MapIsCut
<1> QED BY <1>1, <1>2, <1>5, <1>6, <1>7, <1>8, <1>9 DEF Known

LEMMA StepKeeps ==
  ASSUME Inv, NEW x \in Walkers, NEW r \in WalkType, r.i <= r.count,
         image' = image, w' = [w EXCEPT ![x] = r],
         faults \subseteq faults', faults' \subseteq Walkers \X FaultPlaces,
         Known(x, r, faults')
  PROVE  Inv'
<1>1. w \in [Walkers -> WalkType] /\ \A y \in Walkers : w[y].i <= w[y].count
  BY DEF Inv, TypeOK, WalkType
<1>2. /\ w' \in [Walkers -> WalkType]
      /\ w'[x] = r /\ \A y \in Walkers : y # x => w'[y] = w[y]
  BY <1>1
<1>3. \A y \in Walkers : w'[y].i <= w'[y].count
  BY <1>1, <1>2
<1>4. TypeOK'
  BY <1>2, <1>3 DEF TypeOK, WalkType, FaultPlaces
<1>5. ASSUME NEW y \in Walkers PROVE Known(y, w[y], faults)'
  <2>1. PICK v : v = w'[y]
    OBVIOUS
  <2>2. Known(y, v, faults')
    <3>1. CASE y = x
      BY <1>2, <2>1, <3>1
    <3>2. CASE y # x
      <4>1. v = w[y] /\ Known(y, w[y], faults)
        BY <1>2, <2>1, <3>2 DEF Inv
      <4> QED BY <4>1, KnownGrows
    <3> QED BY <3>1, <3>2
  <2>3. Known(y, v, faults)'
    BY <2>2, KnownStays
  <2> QED BY <2>1, <2>3
<1> QED BY <1>4, <1>5 DEF Inv

\* The walk that moves.
LEMMA InvFacts ==
  ASSUME Inv, NEW x \in Walkers
  PROVE  /\ image \in Images /\ w[x] \in WalkType /\ w[x].i <= w[x].count
         /\ Known(x, w[x], faults)
         /\ faults \subseteq Walkers \X FaultPlaces
  BY DEF Inv, TypeOK, WalkType, FaultPlaces

\* Steps that only change where the walk is.
LEMMA MoveKeeps ==
  ASSUME Inv, NEW x \in Walkers,
         NEW how \in {"anchor", "vds", "resolve", "fsd", "alt", "root"} \cup Over,
         w' = [w EXCEPT ![x] = [w[x] EXCEPT !.pc = how]],
         image' = image, faults \subseteq faults',
         faults' \subseteq Walkers \X FaultPlaces,
         Known(x, [w[x] EXCEPT !.pc = how], faults')
  PROVE  Inv'
<1>1. PICK r : r = [w[x] EXCEPT !.pc = how]
  OBVIOUS
<1>2. w[x] \in WalkType /\ w[x].i <= w[x].count
  BY InvFacts
<1>3. r \in WalkType /\ r.i = w[x].i /\ r.count = w[x].count
  BY <1>1, <1>2 DEF WalkType
<1> QED BY <1>1, <1>2, <1>3, StepKeeps

\* What is known of a walk does not depend on where it is.
LEMMA MovedWalk ==
  ASSUME NEW v \in WalkType, NEW r,
         NEW how \in {"anchor", "vds", "resolve", "fsd", "alt", "root"} \cup Over,
         r = [v EXCEPT !.pc = how]
  PROVE  /\ r \in WalkType /\ r.pc = how /\ r.compat = v.compat /\ r.root = v.root
         /\ r.partFound = v.partFound /\ r.fsdFound = v.fsdFound
         /\ r.i = v.i
         /\ Walked(r) = Walked(v) /\ Ended(r) = Ended(v)
         /\ Resolves(r) = Resolves(v)
         /\ \A s : Valid(r, s) = Valid(v, s)
<1>1. /\ r \in WalkType /\ r.pc = how /\ r.compat = v.compat /\ r.root = v.root
      /\ r.partFound = v.partFound /\ r.fsdFound = v.fsdFound
      /\ r.i = v.i /\ r.count = v.count /\ r.loc = v.loc
      /\ r.partStart = v.partStart /\ r.partLen = v.partLen /\ r.fsd = v.fsd
  BY DEF WalkType
<1>2. Knows(r) = Knows(v)
  BY <1>1 DEF Knows
<1> QED BY <1>1, <1>2 DEF Walked, Ended, Resolves, Valid

-----------------------------------------------------------------------------
(***************************************************************************)
(* The steps.                                                              *)
(***************************************************************************)
LEMMA ReadAnchorKeeps ==
  ASSUME Inv, NEW x \in Walkers, ReadAnchor(x) PROVE Inv'
<1>1. PICK v : v = w[x]
  OBVIOUS
<1>2. /\ image \in Images /\ v \in WalkType /\ v = Start /\ image.anchored
      /\ faults \subseteq Walkers \X FaultPlaces
  BY <1>1, InvFacts DEF ReadAnchor, Known
<1>3. CASE /\ x = "Diagnose" => image.anchor.tag = 2
           /\ Step(x, [w[x] EXCEPT !.pc = "vds", !.loc = image.anchor.loc,
                                   !.count = SectorCount(image.anchor.len)])
  <2>1. PICK a, c : a = Anchor.loc /\ c = SectorCount(Anchor.len)
    OBVIOUS
  <2>2. a \in LBA /\ c \in 0..W /\ c >= 0
    BY <1>2, <2>1, ImageFacts, CountFacts
  <2>3. PICK r : r = [v EXCEPT !.pc = "vds", !.loc = a, !.count = c]
    OBVIOUS
  <2>4. /\ r \in WalkType /\ r.pc = "vds" /\ r.loc = a /\ r.count = c /\ r.i = 0
        /\ r.partFound = FALSE /\ r.fsdFound = FALSE /\ r.compat = FALSE
    <3>1. /\ v.i = 0 /\ v.partFound = FALSE /\ v.fsdFound = FALSE
          /\ v.compat = FALSE
      BY <1>2 DEF Start
    <3>2. v \in WalkType
      BY <1>2
    <3> QED BY ONLY <2>2, <2>3, <3>1, <3>2 DEF WalkType
  <2>5. Walked(r)
    <3>1. Knows(r)
      BY <2>4 DEF Knows
    <3>2. GoesOn(0) /\ 0 \in 0..c
      BY <2>2 DEF GoesOn
    <3> QED BY <1>2, <2>1, <2>4, <3>1, <3>2 DEF Walked
  <2>6. Known(x, r, faults)
    BY <2>4, <2>5 DEF Known
  <2>7. w' = [w EXCEPT ![x] = r] /\ image' = image /\ faults' = faults
    BY <1>1, <1>3, <2>1, <2>3 DEF Step, Anchor
  <2>8. r.i <= r.count
    BY <2>2, <2>4
  <2> QED BY <1>2, <2>4, <2>6, <2>7, <2>8, StepKeeps
<1>4. CASE x = "Diagnose" /\ image.anchor.tag # 2 /\ End(x, "error")
  <2>1. PICK r : r = [v EXCEPT !.pc = "error"]
    OBVIOUS
  <2>2. r.pc = "error" /\ r.compat = FALSE
    <3>1. v.compat = FALSE
      BY <1>2 DEF Start
    <3> QED BY <1>2, <2>1, <3>1 DEF WalkType
  <2>3. Missing(x, r, faults)
    BY <1>4 DEF Missing, Anchor
  <2>4. Known(x, r, faults)
    BY <2>2, <2>3 DEF Known
  <2>5. /\ w' = [w EXCEPT ![x] = [w[x] EXCEPT !.pc = "error"]]
        /\ image' = image /\ faults' = faults
    BY <1>4 DEF End, Step
  <2> QED BY <1>1, <1>2, <2>1, <2>4, <2>5, MoveKeeps DEF Over
<1> QED BY <1>3, <1>4 DEF ReadAnchor

\* Where the walk of the sequence is.
LEMMA InSequence ==
  ASSUME Inv, NEW x \in Walkers, NEW v, v = w[x], v.pc = "vds"
  PROVE  /\ image \in Images /\ v \in WalkType /\ Walked(v) /\ v.compat = FALSE
         /\ VdsLBA(x) = Wrap(Anchor.loc + v.i)
         /\ Descriptor(x) = Slot(v.i)
<1>1. image \in Images /\ v \in WalkType /\ Walked(v) /\ v.compat = FALSE
  BY InvFacts DEF Known
<1>2. v.loc = Anchor.loc
  BY <1>1 DEF Walked
<1> QED BY <1>1, <1>2 DEF VdsLBA, Descriptor, Slot, Anchor

LEMMA ReadDescriptorKeeps ==
  ASSUME Inv, NEW x \in Walkers, ReadDescriptor(x) PROVE Inv'
<1>1. PICK v : v = w[x]
  OBVIOUS
<1>2. v.pc = "vds" /\ v.i < v.count
  BY <1>1 DEF ReadDescriptor, Walking
<1>3. /\ image \in Images /\ v \in WalkType /\ Walked(v) /\ v.compat = FALSE
      /\ VdsLBA(x) = Wrap(Anchor.loc + v.i) /\ Descriptor(x) = Slot(v.i)
  BY <1>1, <1>2, InSequence
<1>4. PICK r : r = [Taken(v, Slot(v.i)) EXCEPT !.i = @ + 1]
  OBVIOUS
<1>5. Has(Wrap(Anchor.loc + v.i)) /\ Slot(v.i).tag # 8
  BY <1>3 DEF ReadDescriptor
<1>6. r \in WalkType /\ Walked(r) /\ r.pc = "vds" /\ r.compat = FALSE
  BY <1>2, <1>3, <1>4, <1>5, TakesTheNext
<1>7. Known(x, r, faults)
  BY <1>6 DEF Known
<1>8. w' = [w EXCEPT ![x] = r] /\ image' = image /\ faults' = faults
  BY <1>1, <1>3, <1>4 DEF ReadDescriptor, Step
<1>9. r.i <= r.count
  <2>1. r.i \in 0..r.count /\ r.count \in 0..W /\ W \in Nat
    BY <1>3, <1>6, ImageFacts DEF Walked, WalkType
  <2> QED BY <2>1
<1> QED BY <1>6, <1>7, <1>8, <1>9, StepKeeps, InvFacts

\* The end of the sequence.
LEMMA ResolveFrom ==
  ASSUME Inv, NEW x \in Walkers, w[x].pc = "vds",
         Ended(w[x]) \/ Lost(x, faults'),
         x = "NewVolume" /\ Exact => Bounded,
         w' = [w EXCEPT ![x] = [w[x] EXCEPT !.pc = "resolve"]],
         image' = image, faults \subseteq faults',
         faults' \subseteq Walkers \X FaultPlaces
  PROVE  Inv'
<1>1. PICK v, r : v = w[x] /\ r = [v EXCEPT !.pc = "resolve"]
  OBVIOUS
<1>2. v \in WalkType /\ Walked(v) /\ v.compat = FALSE
  BY <1>1, InSequence
<1>3. /\ r \in WalkType /\ r.pc = "resolve" /\ r.compat = FALSE /\ Walked(r)
      /\ Ended(r) = Ended(v)
  BY <1>1, <1>2, MovedWalk
<1>4. Known(x, r, faults')
  BY <1>1, <1>3 DEF Known
<1> QED BY <1>1, <1>4, MoveKeeps

LEMMA ReadTerminatorKeeps ==
  ASSUME Inv, NEW x \in Walkers, ReadTerminator(x) PROVE Inv'
<1>1. PICK v : v = w[x]
  OBVIOUS
<1>2. v.pc = "vds" /\ w[x].pc = "vds"
  BY <1>1 DEF ReadTerminator, Walking
<1>3. /\ image \in Images /\ v \in WalkType /\ Walked(v)
      /\ VdsLBA(x) = Wrap(Anchor.loc + v.i) /\ Descriptor(x) = Slot(v.i)
  BY <1>1, <1>2, InSequence
<1>4. Has(Wrap(Anchor.loc + v.i)) /\ Slot(v.i).tag = 8
  BY <1>3 DEF ReadTerminator
<1>5. Ended(v) /\ Bounded
  BY <1>3, <1>4, EndsHere, TerminatorBounds
<1>6. /\ w' = [w EXCEPT ![x] = [w[x] EXCEPT !.pc = "resolve"]]
      /\ image' = image /\ faults' = faults
  BY DEF ReadTerminator, End, Step
<1> QED BY <1>1, <1>2, <1>5, <1>6, ResolveFrom, InvFacts

LEMMA WalkEndsKeeps ==
  ASSUME Inv, NEW x \in Walkers, WalkEnds(x) PROVE Inv'
<1>1. PICK v : v = w[x]
  OBVIOUS
<1>2. v.pc = "vds" /\ w[x].pc = "vds" /\ v.i >= v.count
  BY <1>1 DEF WalkEnds
<1>3. image \in Images /\ v \in WalkType /\ Walked(v)
  BY <1>1, <1>2, InSequence
<1>4. Ended(v) /\ (Exact => Bounded)
  BY <1>2, <1>3, AllPassed
<1>5. /\ w' = [w EXCEPT ![x] = [w[x] EXCEPT !.pc = "resolve"]]
      /\ image' = image /\ faults' = faults
  BY DEF WalkEnds, End, Step
<1> QED BY <1>1, <1>2, <1>4, <1>5, ResolveFrom, InvFacts

LEMMA ResolveKeeps ==
  ASSUME Inv, NEW x \in Walkers, Resolve(x) PROVE Inv'
<1>1. PICK v : v = w[x]
  OBVIOUS
<1>2. /\ image \in Images /\ v \in WalkType /\ v.pc = "resolve" /\ Walked(v)
      /\ Ended(v) \/ Lost(x, faults)
      /\ x = "NewVolume" /\ Exact => Bounded
      /\ v.compat = FALSE /\ faults \subseteq Walkers \X FaultPlaces
  BY <1>1, InvFacts DEF Resolve, Known
<1>3. CASE v.partFound /\ v.fsdFound
  <2>1. PICK r : r = [v EXCEPT !.pc = "fsd"]
    OBVIOUS
  <2>2. /\ r.pc = "fsd" /\ r.compat = FALSE /\ Walked(r) /\ Ended(r) = Ended(v)
        /\ r.partFound /\ r.fsdFound
    BY <1>2, <1>3, <2>1, MovedWalk
  <2>3. Known(x, r, faults)
    BY <1>2, <2>2 DEF Known
  <2>4. /\ w' = [w EXCEPT ![x] = [w[x] EXCEPT !.pc = "fsd"]]
        /\ image' = image /\ faults' = faults
    BY <1>1, <1>3 DEF Resolve, End, Step
  <2> QED BY <1>1, <1>2, <2>1, <2>3, <2>4, MoveKeeps
<1>4. CASE ~(v.partFound /\ v.fsdFound)
  <2>1. PICK r : r = [v EXCEPT !.pc = "error"]
    OBVIOUS
  <2>2. r.pc = "error" /\ r.compat = FALSE
    BY <1>2, <2>1, MovedWalk DEF Over
  <2>3. Missing(x, r, faults)
    <3>1. CASE Lost(x, faults)
      BY <3>1 DEF Lost, Missing, Astray
    <3>2. CASE ~Exact
      BY <3>2 DEF Missing, Astray
    <3>3. CASE Ended(v) /\ Exact
      <4>1. (\A p : ~Prevails(5, p)) \/ (\A q : ~Prevails(6, q))
        BY <1>2, <1>4, <3>3, WholeWalk
      <4> QED BY <4>1 DEF NoChain, Missing, Astray
    <3> QED BY <1>2, <3>1, <3>2, <3>3
  <2>4. Known(x, r, faults)
    BY <2>2, <2>3 DEF Known
  <2>5. /\ w' = [w EXCEPT ![x] = [w[x] EXCEPT !.pc = "error"]]
        /\ image' = image /\ faults' = faults
    BY <1>1, <1>4 DEF Resolve, End, Step
  <2> QED BY <1>1, <1>2, <2>1, <2>4, <2>5, MoveKeeps DEF Over
<1> QED BY <1>3, <1>4

\* A walk that stops short of the root, with the reason it has.
LEMMA StopKeeps ==
  ASSUME Inv, NEW x \in Walkers, NEW how \in {"error", "panic"},
         w[x].pc # "opened",
         how = "error" => Missing(x, w[x], faults'),
         how = "panic" => Astray(x, faults') \/ MapIsCut,
         w' = [w EXCEPT ![x] = [w[x] EXCEPT !.pc = how]],
         image' = image, faults \subseteq faults',
         faults' \subseteq Walkers \X FaultPlaces
  PROVE  Inv'
<1>1. PICK v, r : v = w[x] /\ r = [v EXCEPT !.pc = how]
  OBVIOUS
<1>2. v \in WalkType /\ v.compat = FALSE
  BY <1>1, InvFacts DEF Known
<1>3. how \in {"anchor", "vds", "resolve", "fsd", "alt", "root"} \cup Over
  BY DEF Over
<1>4. /\ r.pc = how /\ r.compat = FALSE /\ r.root = v.root
      /\ Resolves(r) = Resolves(v)
  BY <1>1, <1>2, <1>3, MovedWalk
<1>5. how = "error" => Missing(x, r, faults')
  BY <1>1, <1>4 DEF Missing, Astray
<1>6. Known(x, r, faults')
  BY <1>4, <1>5 DEF Known
<1> QED BY <1>1, <1>3, <1>6, MoveKeeps

LEMMA ShowMapsOverreadsKeeps ==
  ASSUME Inv, NEW x \in Walkers, ShowMapsOverreads(x) PROVE Inv'
<1>1. PICK v : v = w[x]
  OBVIOUS
<1>2. v.pc = "vds" /\ w[x].pc = "vds" /\ v.i < v.count
  BY <1>1 DEF ShowMapsOverreads, Walking
<1>3. /\ image \in Images /\ v \in WalkType /\ Walked(v)
      /\ VdsLBA(x) = Wrap(Anchor.loc + v.i) /\ Descriptor(x) = Slot(v.i)
  BY <1>1, <1>2, InSequence
<1>4. /\ Has(Wrap(Anchor.loc + v.i)) /\ Overreads(Slot(v.i))
      /\ w' = [w EXCEPT ![x] = [w[x] EXCEPT !.pc = "panic"]]
      /\ image' = image /\ faults' = faults
  BY <1>3 DEF ShowMapsOverreads, End, Step
<1>5. PICK n : n = v.i
  OBVIOUS
<1>6. n \in Slots /\ n \in Nat /\ GoesOn(n)
  BY <1>2, <1>3, <1>5, NextSlot DEF Walked
<1>7. Reached(n)
  <2>1. Slot(n).tag # 8
    BY <1>4, <1>5 DEF Overreads
  <2>2. ASSUME NEW j \in 0..n PROVE j \in 0..(n - 1) \/ j = n
    BY <1>6
  <2> QED BY <1>4, <1>5, <1>6, <2>1, <2>2 DEF GoesOn, Reached, Anchor
<1>8. MapIsCut
  BY <1>4, <1>5, <1>6, <1>7 DEF MapIsCut
<1> QED BY <1>2, <1>4, <1>8, StopKeeps, InvFacts

\* The walk at the file set.
LEMMA AtFileSet ==
  ASSUME Inv, NEW x \in Walkers, NEW v, v = w[x], v.pc = "fsd"
  PROVE  /\ image \in Images /\ v \in WalkType /\ Walked(v) /\ v.compat = FALSE
         /\ Ended(v) \/ Lost(x, faults)
         /\ x = "NewVolume" /\ Exact => Bounded
         /\ v.partFound /\ v.fsdFound
         /\ FsdLBA(x) = Wrap(v.partStart + v.fsd)
         /\ faults \subseteq Walkers \X FaultPlaces
  BY InvFacts DEF Known, FsdLBA

LEMMA NoFileSetMisses ==
  ASSUME Inv, NEW x \in Walkers, NEW v, v = w[x], v.pc = "fsd", NEW failed,
         faults \subseteq failed,
         ~(Has(FsdLBA(x)) /\ At(FsdLBA(x)).tag = 256)
  PROVE  Astray(x, failed) /\ Missing(x, v, failed)
<1>1. /\ image \in Images /\ v \in WalkType /\ Walked(v)
      /\ Ended(v) \/ Lost(x, faults)
      /\ v.partFound /\ v.fsdFound
      /\ FsdLBA(x) = Wrap(v.partStart + v.fsd)
  BY AtFileSet
<1>2. CASE Lost(x, faults)
  BY <1>2 DEF Lost, Clear, Astray, Missing
<1>3. CASE Ended(v)
  <2>1. NoChain
    BY <1>1, <1>3, NoFileSet
  <2> QED BY <2>1 DEF Astray, Missing
<1> QED BY <1>1, <1>2, <1>3

LEMMA ReadFSDKeeps ==
  ASSUME Inv, NEW x \in Walkers, ReadFSD(x) PROVE Inv'
<1>1. PICK v : v = w[x]
  OBVIOUS
<1>2. v.pc = "fsd" /\ w[x].pc = "fsd"
  BY <1>1 DEF ReadFSD
<1>3. /\ image \in Images /\ v \in WalkType /\ Walked(v) /\ v.compat = FALSE
      /\ Ended(v) \/ Lost(x, faults)
      /\ x = "NewVolume" /\ Exact => Bounded
      /\ v.partFound /\ v.fsdFound
      /\ FsdLBA(x) = Wrap(v.partStart + v.fsd)
      /\ faults \subseteq Walkers \X FaultPlaces
  BY <1>1, <1>2, AtFileSet
<1>4. PICK n : n = Wrap(v.partStart + v.fsd)
  OBVIOUS
<1>5. Has(n) /\ At(n).tag = 256
  BY <1>3, <1>4 DEF ReadFSD
<1>6. PICK root : root = Wrap(v.partStart + At(n).loc)
  OBVIOUS
<1>7. root \in LBA
  <2>1. PICK a, b : a = v.partStart /\ b = At(n).loc
    OBVIOUS
  <2>2. a \in LBA /\ b \in LBA /\ W \in Nat \ {0}
    BY <1>3, <1>5, <2>1, ImageFacts DEF WalkType
  <2>3. a + b \in Nat
    BY <2>2 DEF LBA
  <2> QED BY <1>6, <2>1, <2>2, <2>3, WrapFacts
<1>8. PICK r : r = [v EXCEPT !.pc = "root", !.root = root]
  OBVIOUS
<1>9. /\ r \in WalkType /\ r.pc = "root" /\ r.compat = FALSE /\ r.root = root
      /\ r.partFound /\ r.fsdFound /\ r.i = v.i /\ r.count = v.count
      /\ r.loc = v.loc /\ r.partFound = v.partFound /\ r.fsdFound = v.fsdFound
      /\ r.partStart = v.partStart /\ r.partLen = v.partLen /\ r.fsd = v.fsd
  BY <1>3, <1>7, <1>8 DEF WalkType
<1>10. Walked(r) /\ Ended(r) = Ended(v)
  <2>1. Knows(r) = Knows(v)
    BY <1>9 DEF Knows
  <2> QED BY <1>3, <1>9, <2>1 DEF Walked, Ended
<1>11. Resolves(r) \/ Lost(x, faults)
  <2>1. CASE Lost(x, faults)
    BY <2>1
  <2>2. CASE Ended(v)
    <3>1. PICK p \in Slots, q \in Slots :
            /\ Prevails(5, p) /\ Prevails(6, q)
            /\ v.partStart = Slot(p).loc /\ v.partLen = Slot(p).len
            /\ v.fsd = Slot(q).loc
      BY <1>3, <2>2, FoundBoth
    <3>2. /\ Has(Wrap(r.partStart + r.fsd))
          /\ At(Wrap(r.partStart + r.fsd)).tag = 256
          /\ r.root = Wrap(r.partStart + At(Wrap(r.partStart + r.fsd)).loc)
      BY <1>4, <1>5, <1>6, <1>9
    <3> QED BY <1>9, <3>1, <3>2 DEF Resolves
  <2> QED BY <1>3, <2>1, <2>2
<1>12. Known(x, r, faults)
  BY <1>3, <1>9, <1>10, <1>11 DEF Known
<1>13. w' = [w EXCEPT ![x] = r] /\ image' = image /\ faults' = faults
  BY <1>1, <1>3, <1>4, <1>6, <1>8 DEF ReadFSD, Step
<1>14. r.i <= r.count
  BY <1>1, <1>9, InvFacts
<1> QED BY <1>3, <1>9, <1>12, <1>13, <1>14, StepKeeps

LEMMA WrongFSDKeeps ==
  ASSUME Inv, NEW x \in Walkers, WrongFSD(x) PROVE Inv'
<1>1. PICK v : v = w[x]
  OBVIOUS
<1>2. v.pc = "fsd" /\ w[x].pc = "fsd" /\ At(FsdLBA(x)).tag # 256
  BY <1>1 DEF WrongFSD
<1>3. /\ v \in WalkType /\ Walked(v) /\ v.compat = FALSE
      /\ Ended(v) \/ Lost(x, faults)
      /\ x = "NewVolume" /\ Exact => Bounded
      /\ v.partFound /\ v.fsdFound
      /\ faults \subseteq Walkers \X FaultPlaces
  BY <1>1, <1>2, AtFileSet
<1>4. Astray(x, faults) /\ Missing(x, v, faults)
  BY <1>1, <1>2, NoFileSetMisses
<1>5. CASE x = "Diagnose"
  <2>1. PICK r : r = [v EXCEPT !.pc = "alt"]
    OBVIOUS
  <2>2. /\ r.pc = "alt" /\ r.compat = FALSE /\ Walked(r) /\ Ended(r) = Ended(v)
        /\ r.partFound /\ r.fsdFound /\ r.root = v.root
        /\ Resolves(r) = Resolves(v)
    BY <1>3, <2>1, MovedWalk
  <2>3. Known(x, r, faults)
    BY <1>3, <1>4, <2>2 DEF Known
  <2>4. /\ w' = [w EXCEPT ![x] = [w[x] EXCEPT !.pc = "alt"]]
        /\ image' = image /\ faults' = faults
    BY <1>5 DEF WrongFSD, End, Step
  <2> QED BY <1>1, <1>3, <2>1, <2>3, <2>4, MoveKeeps
<1>6. CASE x # "Diagnose"
  <2>1. /\ w' = [w EXCEPT ![x] = [w[x] EXCEPT !.pc = "error"]]
        /\ image' = image /\ faults' = faults
    BY <1>6 DEF WrongFSD, End, Step
  <2> QED BY <1>1, <1>2, <1>3, <1>4, <2>1, StopKeeps
<1> QED BY <1>5, <1>6

LEMMA AltFSDKeeps ==
  ASSUME Inv, NEW x \in Walkers, AltFSD(x) PROVE Inv'
<1>1. PICK v : v = w[x]
  OBVIOUS
<1>2. /\ w[x].pc = "alt" /\ Astray(x, faults)
      /\ faults \subseteq Walkers \X FaultPlaces
  BY <1>1, InvFacts DEF AltFSD, Known
<1>3. CASE End(x, "error")
  BY <1>1, <1>2, <1>3, StopKeeps DEF End, Step, Missing, Astray
<1>4. CASE /\ w' = [w EXCEPT ![x].pc = "panic"]
           /\ faults' = IF Has(w[x].fsd) THEN faults \cup {<<x, "alt">>} ELSE faults
           /\ UNCHANGED image
  <2>1. faults \subseteq faults' /\ faults' \subseteq Walkers \X FaultPlaces
    BY <1>2, <1>4 DEF FaultPlaces
  <2>2. Astray(x, faults')
    BY <1>2, <2>1 DEF Astray, Clear
  <2> QED BY <1>1, <1>2, <1>4, <2>1, <2>2, StopKeeps
<1> QED BY <1>3, <1>4 DEF AltFSD

\* The walk at the root's entry.
LEMMA AtRoot ==
  ASSUME Inv, NEW x \in Walkers, NEW v, v = w[x], v.pc = "root"
  PROVE  /\ image \in Images /\ v \in WalkType /\ Walked(v) /\ v.compat = FALSE
         /\ Ended(v) \/ Lost(x, faults)
         /\ x = "NewVolume" /\ Exact => Bounded
         /\ v.partFound /\ v.fsdFound
         /\ Resolves(v) \/ Lost(x, faults)
         /\ faults \subseteq Walkers \X FaultPlaces
  BY InvFacts DEF Known

\* The volume is open, or the diagnosis complete.
LEMMA OpenKeeps ==
  ASSUME Inv, NEW x \in Walkers, w[x].pc = "root", NEW compat \in BOOLEAN,
         w' = [w EXCEPT ![x] = [w[x] EXCEPT !.pc = "opened", !.compat = compat]],
         image' = image, faults \subseteq faults',
         faults' \subseteq Walkers \X FaultPlaces
  PROVE  Inv'
<1>1. PICK v, r : v = w[x] /\ r = [v EXCEPT !.pc = "opened", !.compat = compat]
  OBVIOUS
<1>2. /\ v \in WalkType /\ Walked(v)
      /\ Ended(v) \/ Lost(x, faults)
      /\ x = "NewVolume" /\ Exact => Bounded
      /\ v.partFound /\ v.fsdFound
      /\ Resolves(v) \/ Lost(x, faults)
  BY <1>1, AtRoot
<1>3. /\ r \in WalkType /\ r.pc = "opened" /\ r.compat = compat
      /\ r.root = v.root /\ r.i = v.i /\ r.count = v.count /\ r.loc = v.loc
      /\ r.partFound = v.partFound /\ r.fsdFound = v.fsdFound
      /\ r.partStart = v.partStart /\ r.partLen = v.partLen /\ r.fsd = v.fsd
  BY <1>1, <1>2 DEF WalkType, Over
<1>4. Walked(r) /\ Ended(r) = Ended(v) /\ Resolves(r) = Resolves(v)
  <2>1. Knows(r) = Knows(v)
    BY <1>3 DEF Knows
  <2> QED BY <1>2, <1>3, <2>1 DEF Walked, Ended, Resolves
<1>5. Lost(x, faults) => Lost(x, faults')
  BY DEF Lost, Clear
<1>6. Known(x, r, faults')
  BY <1>2, <1>3, <1>4, <1>5 DEF Known
<1>7. r.i <= r.count
  BY <1>1, <1>3, InvFacts
<1> QED BY <1>1, <1>3, <1>6, <1>7, StepKeeps

LEMMA ReadRootKeeps ==
  ASSUME Inv, NEW x \in Walkers, ReadRoot(x) PROVE Inv'
<1> DEFINE c == /\ x = "NewVolume" /\ At(w[x].root).tag = 261
                /\ ~Valid(w[x], At(w[x].root))
<1>1. Has(w[x].root) /\ w[x].pc = "root"
  BY DEF ReadRoot
<1>2. c \in BOOLEAN
  OBVIOUS
<1>3. /\ w' = [w EXCEPT ![x] = [w[x] EXCEPT !.pc = "opened", !.compat = c]]
      /\ image' = image /\ faults' = faults
  BY DEF ReadRoot, Step
<1> HIDE DEF c
<1> QED BY <1>1, <1>2, <1>3, OpenKeeps, InvFacts

\* A read that fails of what the image holds is remembered.
LEMMA FailureFacts ==
  ASSUME Inv, NEW x \in Walkers, ReadFails(x)
  PROVE  /\ w[x].pc \in {"anchor", "fsd", "root"} \/ Walking(x)
         /\ w' = [w EXCEPT ![x] = [w[x] EXCEPT !.pc = AfterFailure(x)]]
         /\ image' = image /\ faults \subseteq faults'
         /\ faults' \subseteq Walkers \X FaultPlaces
         /\ Held(x) => ~Clear(x, faults')
<1>1. w[x].pc \in FaultPlaces
  BY DEF ReadFails, Walking, FaultPlaces
<1>2. faults \subseteq Walkers \X FaultPlaces
  BY InvFacts
<1>3. faults' = IF Held(x) THEN faults \cup {<<x, w[x].pc>>} ELSE faults
  BY DEF ReadFails
<1>4. faults \subseteq faults' /\ faults' \subseteq Walkers \X FaultPlaces
  BY <1>1, <1>2, <1>3
<1>5. ASSUME Held(x) PROVE ~Clear(x, faults')
  <2>1. <<x, w[x].pc>> \in faults' /\ <<x, w[x].pc>>[1] = x
    BY <1>3, <1>5
  <2> QED BY <2>1 DEF Clear
<1> QED BY <1>4, <1>5 DEF ReadFails

LEMMA AnchorFailsKeeps ==
  ASSUME Inv, NEW x \in Walkers, ReadFails(x), w[x].pc = "anchor" PROVE Inv'
<1>1. /\ w' = [w EXCEPT ![x] = [w[x] EXCEPT !.pc = "error"]]
      /\ image' = image /\ faults \subseteq faults'
      /\ faults' \subseteq Walkers \X FaultPlaces
      /\ image.anchored => ~Clear(x, faults')
  BY FailureFacts DEF AfterFailure, Held
<1>2. Missing(x, w[x], faults')
  BY <1>1 DEF Missing, Astray
<1> QED BY <1>1, <1>2, StopKeeps

LEMMA DescriptorFailsKeeps ==
  ASSUME Inv, NEW x \in Walkers, ReadFails(x), w[x].pc = "vds" PROVE Inv'
<1>1. PICK v : v = w[x]
  OBVIOUS
<1>2. /\ image \in Images /\ v \in WalkType /\ Walked(v)
      /\ VdsLBA(x) = Wrap(Anchor.loc + v.i)
  BY <1>1, InSequence
<1>3. v.i < v.count
  BY <1>1 DEF ReadFails, Walking
<1>4. /\ image' = image /\ faults \subseteq faults'
      /\ faults' \subseteq Walkers \X FaultPlaces
      /\ Has(Wrap(Anchor.loc + v.i)) => ~Clear(x, faults')
  BY <1>2, FailureFacts DEF Held
<1>5. CASE x = "Diagnose"
  <2>1. w' = [w EXCEPT ![x] = [w[x] EXCEPT !.pc = "resolve"]]
    BY <1>5, FailureFacts DEF AfterFailure
  <2>2. Ended(v) \/ Lost(x, faults')
    BY <1>2, <1>4, <1>5, EndsHere DEF Lost
  <2> QED BY <1>1, <1>4, <1>5, <2>1, <2>2, ResolveFrom
<1>6. CASE x # "Diagnose"
  <2>1. w' = [w EXCEPT ![x] = [w[x] EXCEPT !.pc = "error"]] /\ x = "NewVolume"
    BY <1>6, FailureFacts DEF AfterFailure, Walkers
  <2>2. Missing(x, v, faults')
    BY <1>2, <1>3, <1>4, <2>1, LeavesTheImage DEF Missing, Astray
  <2> QED BY <1>1, <1>4, <2>1, <2>2, StopKeeps
<1> QED BY <1>5, <1>6

LEMMA FileSetFailsKeeps ==
  ASSUME Inv, NEW x \in Walkers, ReadFails(x), w[x].pc = "fsd" PROVE Inv'
<1>1. PICK v : v = w[x]
  OBVIOUS
<1>2. /\ w' = [w EXCEPT ![x] = [w[x] EXCEPT !.pc = "error"]]
      /\ image' = image /\ faults \subseteq faults'
      /\ faults' \subseteq Walkers \X FaultPlaces
      /\ Has(FsdLBA(x)) => ~Clear(x, faults')
  BY FailureFacts DEF AfterFailure, Held
<1>3. Missing(x, v, faults')
  <2>1. CASE Has(FsdLBA(x))
    BY <1>2, <2>1 DEF Missing, Astray
  <2>2. CASE ~Has(FsdLBA(x))
    BY <1>1, <1>2, <2>2, NoFileSetMisses
  <2> QED BY <2>1, <2>2
<1> QED BY <1>1, <1>2, <1>3, StopKeeps

LEMMA RootFailsKeeps ==
  ASSUME Inv, NEW x \in Walkers, ReadFails(x), w[x].pc = "root" PROVE Inv'
<1>1. PICK v : v = w[x]
  OBVIOUS
<1>2. /\ image' = image /\ faults \subseteq faults'
      /\ faults' \subseteq Walkers \X FaultPlaces
      /\ Has(v.root) => ~Clear(x, faults')
  BY <1>1, FailureFacts DEF Held
<1>3. /\ v \in WalkType /\ v.compat = FALSE
      /\ Resolves(v) \/ Lost(x, faults)
  BY <1>1, AtRoot
<1>4. CASE x = "NewVolume"
  <2>1. w' = [w EXCEPT ![x] = [w[x] EXCEPT !.pc = "opened"]]
    BY <1>4, FailureFacts DEF AfterFailure, Walking
  <2>2. [v EXCEPT !.pc = "opened"] = [v EXCEPT !.pc = "opened", !.compat = FALSE]
    BY <1>3 DEF WalkType
  <2> QED BY <1>1, <1>2, <1>4, <2>1, <2>2, OpenKeeps
<1>5. CASE x = "Diagnose"
  <2>1. w' = [w EXCEPT ![x] = [w[x] EXCEPT !.pc = "error"]]
    BY <1>5, FailureFacts DEF AfterFailure, Walking
  <2>2. Missing(x, v, faults')
    <3>1. CASE Has(v.root)
      BY <1>2, <3>1 DEF Missing, Astray
    <3>2. CASE Lost(x, faults)
      BY <1>2, <3>2 DEF Lost, Clear, Missing, Astray
    <3>3. CASE ~Has(v.root) /\ Resolves(v)
      BY <1>5, <3>3 DEF Missing, Astray
    <3> QED BY <1>3, <3>1, <3>2, <3>3
  <2> QED BY <1>1, <1>2, <2>1, <2>2, StopKeeps
<1> QED BY <1>4, <1>5 DEF Walkers

LEMMA ReadFailsKeeps ==
  ASSUME Inv, NEW x \in Walkers, ReadFails(x) PROVE Inv'
<1>1. w[x].pc \in {"anchor", "vds", "fsd", "root"}
  BY DEF ReadFails, Walking
<1> QED BY <1>1, AnchorFailsKeeps, DescriptorFailsKeeps, FileSetFailsKeeps,
           RootFailsKeeps

-----------------------------------------------------------------------------
(***************************************************************************)
(* The theorems.                                                           *)
(***************************************************************************)
LEMMA InitInv == Init => Inv
<1> SUFFICES ASSUME Init PROVE Inv
  OBVIOUS
<1>1. /\ image \in Images /\ faults = {} /\ w = [x \in Walkers |-> Start]
      /\ W \in Nat \ {0}
  BY ImagesAssumption DEF Init
<1>2. Start \in WalkType /\ Start.i <= Start.count /\ Start.pc = "anchor"
      /\ Start.compat = FALSE
  BY <1>1 DEF Start, WalkType, LBA
<1>3. \A x \in Walkers : w[x] = Start
  BY <1>1
<1>4. TypeOK
  <2>1. w \in [Walkers -> WalkType]
    BY <1>1, <1>2
  <2> QED BY <1>1, <1>2, <1>3, <2>1 DEF TypeOK, WalkType
<1>5. \A x \in Walkers : Known(x, w[x], faults)
  BY <1>2, <1>3 DEF Known
<1> QED BY <1>1, <1>4, <1>5 DEF Inv

LEMMA NextInv == Inv /\ [Next]_vars => Inv'
<1> SUFFICES ASSUME Inv, [Next]_vars PROVE Inv'
  OBVIOUS
<1>1. CASE Next
  <2>1. PICK x \in Walkers : WalkStep(x)
    BY <1>1 DEF Next
  <2>2. CASE ReadAnchor(x)
    BY <2>2, ReadAnchorKeeps
  <2>3. CASE ReadDescriptor(x)
    BY <2>3, ReadDescriptorKeeps
  <2>a. CASE ShowMapsOverreads(x)
    BY <2>a, ShowMapsOverreadsKeeps
  <2>4. CASE ReadTerminator(x)
    BY <2>4, ReadTerminatorKeeps
  <2>5. CASE WalkEnds(x)
    BY <2>5, WalkEndsKeeps
  <2>6. CASE Resolve(x)
    BY <2>6, ResolveKeeps
  <2>7. CASE ReadFSD(x)
    BY <2>7, ReadFSDKeeps
  <2>8. CASE WrongFSD(x)
    BY <2>8, WrongFSDKeeps
  <2>9. CASE AltFSD(x)
    BY <2>9, AltFSDKeeps
  <2>10. CASE ReadRoot(x)
    BY <2>10, ReadRootKeeps
  <2>11. CASE ReadFails(x)
    BY <2>11, ReadFailsKeeps
  <2> QED BY <2>1, <2>2, <2>3, <2>4, <2>5, <2>6, <2>7, <2>8, <2>9, <2>10, <2>11,
          <2>a DEF WalkStep
<1>2. CASE UNCHANGED vars
  <2>1. image' = image /\ w' = w /\ faults' = faults
    BY <1>2 DEF vars
  <2>2. TypeOK'
    BY <2>1 DEF Inv, TypeOK
  <2>3. ASSUME NEW x \in Walkers PROVE Known(x, w[x], faults)'
    <3>1. PICK v : v = w[x]
      OBVIOUS
    <3>2. Known(x, v, faults')
      BY <2>1, <3>1 DEF Inv
    <3>3. Known(x, v, faults)'
      BY <2>1, <3>2, KnownStays
    <3> QED BY <2>1, <3>1, <3>3
  <2> QED BY <2>1, <2>2, <2>3 DEF Inv
<1> QED BY <1>1, <1>2

\* What is known of the walks is invariant.
THEOREM Invariance == Spec => []Inv
<1> QED BY InitInv, NextInv, PTL DEF Spec

\* Type correctness, with the position of a walk within its sequence
\* (udf/volume.go:39-148, udf/diagnose.go:36-234).
THEOREM TypeCorrect == Spec => []TypeOK
<1>1. Inv => TypeOK
  BY DEF Inv
<1> QED BY <1>1, Invariance, PTL

\* A volume that opens is the one its chain leads to, on any image, and with no
\* failed read every image of a whole chain opens (udf/volume.go:39-104).
THEOREM ChainOpened == Spec => []OpensTheChain
<1>1. ASSUME Inv PROVE OpensTheChain
  <2>1. PICK v : v = w["NewVolume"]
    OBVIOUS
  <2>2. image \in Images /\ v \in WalkType /\ Known("NewVolume", v, faults)
    BY <1>1, <2>1, InvFacts DEF Walkers
  <2>3. ~Lost("NewVolume", faults)
    BY DEF Lost
  <2>4. v.pc = "opened" => Bounded /\ Resolves(v)
    BY <2>2, <2>3, FoundIsExact DEF Known
  <2>5. ASSUME v.pc = "error", Faultless("NewVolume"), Exact
        PROVE  ~image.anchored \/ ~Bounded \/ NoChain
    <3>1. Clear("NewVolume", faults)
      BY <2>5 DEF Clear, Faultless
    <3> QED BY <2>2, <2>5, <3>1 DEF Known, Missing, Astray
  <2> QED BY <2>1, <2>4, <2>5 DEF OpensTheChain, NoChain, Exact, Anchor
<1> QED BY <1>1, Invariance, PTL

\* Diagnose walks the chain of the volume that opens: it rejects one only for
\* its anchor or its root's entry, and panics on one only for a cut map
\* (udf/diagnose.go:36-234, udf/volume.go:39-104).
THEOREM DiagnosisAgrees == Spec => []DiagnoseAgrees
<1>1. ASSUME Inv PROVE DiagnoseAgrees
  <2>1. PICK v, d : v = w["NewVolume"] /\ d = w["Diagnose"]
    OBVIOUS
  <2>2. /\ image \in Images /\ v \in WalkType /\ d \in WalkType
        /\ Known("NewVolume", v, faults) /\ Known("Diagnose", d, faults)
    BY <1>1, <2>1, InvFacts DEF Walkers
  <2>3. SUFFICES ASSUME faults = {} PROVE DiagnoseAgrees
    BY DEF DiagnoseAgrees
  <2>4. \A x : Clear(x, faults) /\ ~Lost(x, faults)
    BY <2>3 DEF Clear, Lost
  <2>5. v.pc = "opened" => Resolves(v) /\ Walked(v) /\ Exact
    BY <2>2, <2>4, FoundIsExact DEF Known
  <2>6. d.pc \in {"root", "opened"} => Resolves(d) /\ Walked(d) /\ Exact
    BY <2>2, <2>4, FoundIsExact DEF Known
  <2>7. ASSUME Resolves(v), Resolves(d)
        PROVE  v.root = d.root /\ v.partStart = d.partStart /\ v.partLen = d.partLen
    <3>1. PICK p \in Slots, q \in Slots :
            /\ Prevails(5, p) /\ Prevails(6, q)
            /\ v.partStart = Slot(p).loc /\ v.partLen = Slot(p).len
            /\ v.fsd = Slot(q).loc
            /\ v.root = Wrap(v.partStart + At(Wrap(v.partStart + v.fsd)).loc)
      BY <2>7 DEF Resolves
    <3>2. PICK a \in Slots, b \in Slots :
            /\ Prevails(5, a) /\ Prevails(6, b)
            /\ d.partStart = Slot(a).loc /\ d.partLen = Slot(a).len
            /\ d.fsd = Slot(b).loc
            /\ d.root = Wrap(d.partStart + At(Wrap(d.partStart + d.fsd)).loc)
      BY <2>7 DEF Resolves
    <3>3. a = p /\ b = q
      BY <2>2, <3>1, <3>2, PrevailsOnce
    <3> QED BY <3>1, <3>2, <3>3
  <2>8. \A r : Resolves(r) => ~NoChain
    BY DEF Resolves, NoChain
  <2>9. ASSUME v.pc = "opened", d.pc = "error"
        PROVE  image.anchor.tag # 2 \/ ~Has(v.root)
    <3>1. Resolves(v) /\ Exact /\ image.anchored /\ ~NoChain
      BY <2>5, <2>8, <2>9 DEF Walked
    <3>2. Missing("Diagnose", d, faults)
      BY <2>2, <2>9 DEF Known
    <3>3. Anchor.tag # 2 \/ (Resolves(d) /\ ~Has(d.root))
      BY <2>4, <3>1, <3>2 DEF Missing, Astray
    <3> QED BY <2>7, <3>1, <3>3 DEF Anchor
  <2>a. ASSUME v.pc = "opened", d.pc = "panic" PROVE MapIsCut
    <3>1. ~NoChain
      BY <2>5, <2>8, <2>a
    <3> QED BY <2>2, <2>4, <2>a, <3>1 DEF Known, Astray
  <2>10. ASSUME v.pc = "error", d.pc = "opened" PROVE ~Bounded
    <3>1. Resolves(d) /\ Exact /\ image.anchored /\ ~NoChain
      BY <2>6, <2>8, <2>10 DEF Walked
    <3>2. Missing("NewVolume", v, faults)
      BY <2>2, <2>10 DEF Known
    <3> QED BY <2>4, <3>1, <3>2 DEF Missing, Astray
  <2> QED BY <2>1, <2>5, <2>6, <2>7, <2>9, <2>a, <2>10 DEF DiagnoseAgrees
<1> QED BY <1>1, Invariance, PTL

=============================================================================
