-------------------------- MODULE PathLookupProofs --------------------------
(***************************************************************************)
(* Proofs about PathLookup, for every volume of the four kinds, every path *)
(* and every sequence of calls: type correctness, FieldsInAnyOrder,        *)
(* ListedIsFound, and that PathLookup implements Namespace.                *)
(*                                                                         *)
(* The loops of the code are recursive functions; what they compute is     *)
(* proved by induction along the loop (Iterates, StaysIn, InductionUpTo).  *)
(* The inductive invariant Inv says, of a call in progress, that its node  *)
(* is that of an entry the names passed lead to (Leads), the only one as   *)
(* long as no read of a child's entry has failed; and of a call that is    *)
(* over, that its answer is one Namespace allows.                          *)
(***************************************************************************)
EXTENDS PathLookup, FiniteSetTheorems, Induction

-----------------------------------------------------------------------------
LEMMA MinOf ==
  ASSUME NEW T, T \subseteq Nat, T # {}
  PROVE  Min(T) \in T /\ \A k \in T : Min(T) <= k
BY LeastNatural DEF Min

-----------------------------------------------------------------------------
(***************************************************************************)
(* Paths.                                                                  *)
(***************************************************************************)
Names == Seq(Chars)

LEMMA CleanedIsPath ==
  ASSUME NEW q \in Seq(Names), NEW name \in Names
  PROVE  Cleaned(q, name) \in Seq(Names)
<1> HIDE DEF Names
<1>1. Append(q, name) \in Seq(Names)
  OBVIOUS
<1>2. q # <<>> => Front(q) \in Seq(Names)
  BY DEF Front
<1> QED BY <1>1, <1>2 DEF Cleaned

CleanRun(path, h) ==
  h = [k \in 0..Len(path) |-> IF k = 0 THEN <<>> ELSE Cleaned(h[k - 1], path[k])]

LEMMA CleanedAll ==
  ASSUME NEW path \in Seq(Names)
  PROVE  \E h \in [0..Len(path) -> Seq(Names)] : CleanRun(path, h) /\ Clean(path) = h[Len(path)]
<1> PICK n \in Nat : n = Len(path)
  OBVIOUS
<1> PICK S : S = Seq(Names)
  OBVIOUS
<1> PICK a : a = <<>>
  OBVIOUS
<1> a \in S
  OBVIOUS
<1>1. \A k \in 1..n : path[k] \in Names
  OBVIOUS
<1>2. PICK g : g = [z \in S \X (1..n) |-> Cleaned(z[1], path[z[2]])]
  OBVIOUS
<1>3. g \in [S \X (1..n) -> S]
  BY <1>1, <1>2, CleanedIsPath
<1>4. \A q \in S, k \in 1..n : g[<<q, k>>] = Cleaned(q, path[k])
  BY <1>2
<1>5. PICK f \in [0..n -> S] : Runs(f, n, a, g)
  BY <1>3, Iterates
<1>6. CleanRun(path, f)
  <2>1. ASSUME NEW k \in 0..n
        PROVE  f[k] = IF k = 0 THEN <<>> ELSE Cleaned(f[k - 1], path[k])
    <3>1. k # 0 => k - 1 \in 0..n /\ k \in 1..n
      OBVIOUS
    <3> QED BY <1>4, <1>5, <3>1 DEF Runs
  <2> QED BY <2>1 DEF CleanRun
<1>7. PICK h : CleanRun(path, h) /\ Clean(path) = h[n]
  BY <1>6 DEF Clean, CleanRun
<1>8. h \in [0..n -> S]
  <2>1. h = [k \in 0..n |-> h[k]] /\ h[0] \in S
    BY <1>7 DEF CleanRun
  <2>2. ASSUME NEW k \in 1..n, h[k - 1] \in S PROVE h[k] \in S
    <3>1. h[k] = Cleaned(h[k - 1], path[k])
      BY <1>7 DEF CleanRun
    <3> QED BY <1>1, <2>2, <3>1, CleanedIsPath
  <2> QED BY <2>1, <2>2, StaysIn
<1> QED BY <1>7, <1>8

LEMMA CleanIsPath ==
  ASSUME NEW path \in Seq(Names)
  PROVE  Clean(path) \in Seq(Names)
<1>1. PICK h \in [0..Len(path) -> Seq(Names)] : Clean(path) = h[Len(path)]
  BY CleanedAll
<1>2. Len(path) \in 0..Len(path)
  OBVIOUS
<1> QED BY <1>1, <1>2

-----------------------------------------------------------------------------
(***************************************************************************)
(* The records of a UDF directory that are kept.                           *)
(***************************************************************************)
Count(v, n) == Len(v.nodes[n].records)

KeepNext(v, n, lost, s, k) == IF Kept(v, n, lost, k) THEN Append(s, k) ELSE s

KeepRun(v, n, lost, h) ==
  h = [k \in 0..Count(v, n) |-> IF k = 0 THEN <<>> ELSE KeepNext(v, n, lost, h[k - 1], k)]

\* s holds the places among the first k that are kept, in their order.
KeptTo(v, n, lost, s, k) ==
  /\ s \in Seq(Nat)
  /\ \A i \in DOMAIN s : s[i] \in 1..k /\ Kept(v, n, lost, s[i])
  /\ \A i, j \in DOMAIN s : i < j => s[i] < s[j]
  /\ \A m \in 1..k : Kept(v, n, lost, m) => \E i \in DOMAIN s : s[i] = m

LEMMA KeepOne ==
  ASSUME NEW v, NEW n, NEW lost, NEW s, NEW k \in Nat \ {0}, KeptTo(v, n, lost, s, k - 1)
  PROVE  KeptTo(v, n, lost, KeepNext(v, n, lost, s, k), k)
<1>1. /\ s \in Seq(Nat) /\ Len(s) \in Nat /\ DOMAIN s = 1..Len(s)
      /\ \A i \in DOMAIN s : s[i] \in 1..(k - 1) /\ s[i] \in 1..k /\ s[i] \in Nat /\ s[i] < k
      /\ \A i \in DOMAIN s : Kept(v, n, lost, s[i])
      /\ \A i, j \in DOMAIN s : i < j => s[i] < s[j]
      /\ \A m \in 1..(k - 1) : Kept(v, n, lost, m) => \E i \in DOMAIN s : s[i] = m
  BY DEF KeptTo
<1>2. \A m \in 1..k : m # k => m \in 1..(k - 1)
  OBVIOUS
<1>3. CASE ~Kept(v, n, lost, k)
  <2>1. KeepNext(v, n, lost, s, k) = s
    BY <1>3 DEF KeepNext
  <2>2. \A m \in 1..k : Kept(v, n, lost, m) => \E i \in DOMAIN s : s[i] = m
    BY <1>1, <1>2, <1>3
  <2> QED BY <1>1, <2>1, <2>2 DEF KeptTo
<1>4. CASE Kept(v, n, lost, k)
  <2>1. PICK t : t = Append(s, k)
    OBVIOUS
  <2>2. /\ t \in Seq(Nat) /\ DOMAIN t = 1..(Len(s) + 1)
        /\ \A i \in 1..Len(s) : t[i] = s[i]
        /\ t[Len(s) + 1] = k
    BY <1>1, <2>1
  <2>3. \A i \in DOMAIN t : i \in DOMAIN s \/ i = Len(s) + 1
    BY <1>1, <2>2
  <2>4. \A i \in DOMAIN t : t[i] \in 1..k /\ Kept(v, n, lost, t[i])
    BY <1>1, <1>4, <2>2, <2>3
  <2>5. ASSUME NEW i \in DOMAIN t, NEW j \in DOMAIN t, i < j PROVE t[i] < t[j]
    <3>1. i \in DOMAIN s
      BY <1>1, <2>2, <2>5
    <3>2. CASE j \in DOMAIN s
      BY <1>1, <2>2, <2>5, <3>1, <3>2
    <3>3. CASE j = Len(s) + 1
      BY <1>1, <2>2, <3>1, <3>3
    <3> QED BY <2>3, <3>2, <3>3
  <2>6. ASSUME NEW m \in 1..k, Kept(v, n, lost, m) PROVE \E i \in DOMAIN t : t[i] = m
    <3>1. CASE m = k
      <4>1. Len(s) + 1 \in DOMAIN t
        BY <1>1, <2>2
      <4> QED BY <2>2, <3>1, <4>1
    <3>2. CASE m # k
      <4>1. PICK i \in DOMAIN s : s[i] = m
        BY <1>1, <1>2, <2>6, <3>2
      <4>2. i \in DOMAIN t /\ t[i] = m
        BY <1>1, <2>2, <4>1
      <4> QED BY <4>2
    <3> QED BY <3>1, <3>2
  <2>7. KeepNext(v, n, lost, s, k) = t
    BY <1>4, <2>1 DEF KeepNext
  <2> QED BY <2>2, <2>4, <2>5, <2>6, <2>7 DEF KeptTo
<1> QED BY <1>3, <1>4

LEMMA KeptFacts ==
  ASSUME NEW v, NEW n, NEW lost, Count(v, n) \in Nat
  PROVE  KeptTo(v, n, lost, KeptPlaces(v, n, lost), Count(v, n))
<1> PICK c \in Nat : c = Count(v, n)
  OBVIOUS
<1> PICK S : S = Seq(Nat)
  OBVIOUS
<1> PICK a : a = <<>>
  OBVIOUS
<1> a \in S
  OBVIOUS
<1>1. PICK g : g = [z \in S \X (1..c) |-> KeepNext(v, n, lost, z[1], z[2])]
  OBVIOUS
<1>2. ASSUME NEW s \in S, NEW k \in 1..c PROVE KeepNext(v, n, lost, s, k) \in S
  BY DEF KeepNext
<1>3. g \in [S \X (1..c) -> S]
  BY <1>1, <1>2
<1>4. \A s \in S, k \in 1..c : g[<<s, k>>] = KeepNext(v, n, lost, s, k)
  BY <1>1
<1>5. PICK f \in [0..c -> S] : Runs(f, c, a, g)
  BY <1>3, Iterates
<1>6. KeepRun(v, n, lost, f)
  <2>1. ASSUME NEW k \in 0..c
        PROVE  f[k] = IF k = 0 THEN <<>> ELSE KeepNext(v, n, lost, f[k - 1], k)
    <3>1. k # 0 => k - 1 \in 0..c /\ k \in 1..c
      OBVIOUS
    <3> QED BY <1>4, <1>5, <3>1 DEF Runs
  <2> QED BY <2>1 DEF KeepRun
<1>7. PICK h : KeepRun(v, n, lost, h) /\ KeptPlaces(v, n, lost) = h[c]
  BY <1>6 DEF KeptPlaces, KeepRun, KeepNext, Count
<1>8. PICK P : P = { k \in 0..c : KeptTo(v, n, lost, h[k], k) }
  OBVIOUS
<1>9. 0 \in P
  <2>1. h[0] = <<>>
    BY <1>7 DEF KeepRun
  <2>2. KeptTo(v, n, lost, <<>>, 0)
    BY DEF KeptTo
  <2> QED BY <1>8, <2>1, <2>2
<1>10. ASSUME NEW k \in 1..c, k - 1 \in P PROVE k \in P
  <2>1. h[k] = KeepNext(v, n, lost, h[k - 1], k)
    BY <1>7 DEF KeepRun
  <2>2. KeptTo(v, n, lost, h[k - 1], k - 1)
    BY <1>8, <1>10
  <2> QED BY <1>8, <2>1, <2>2, KeepOne
<1>11. c \in P
  <2>1. c \in 0..c
    OBVIOUS
  <2> QED BY <1>9, <1>10, <2>1, InductionUpTo
<1> QED BY <1>7, <1>8, <1>11

-----------------------------------------------------------------------------
(***************************************************************************)
(* Rock Ridge fields.                                                      *)
(***************************************************************************)
PartsRun(q, h) ==
  h = [k \in 0..Len(q) |-> IF k = 0 THEN <<>> ELSE Added(h[k - 1], q[k])]

\* s is the first k components, if none is cut.
PartsTo(q, s, k) ==
  /\ s \in Seq(STRING)
  /\ Cut \notin ToSet(q) => Len(s) = k /\ \A i \in 1..k : s[i] = q[i]

LEMMA AddOne ==
  ASSUME NEW q \in Seq(STRING), NEW s, NEW k \in 1..Len(q), PartsTo(q, s, k - 1)
  PROVE  PartsTo(q, Added(s, q[k]), k)
<1>1. /\ s \in Seq(STRING) /\ q[k] \in STRING /\ q[k] \in ToSet(q) /\ k \in Nat \ {0}
      /\ Cut \notin ToSet(q) => Len(s) = k - 1 /\ \A i \in 1..(k - 1) : s[i] = q[i]
  BY DEF PartsTo, ToSet
<1>2. CASE q[k] = Cut
  BY <1>1, <1>2 DEF PartsTo, Added
<1>3. CASE q[k] # Cut
  <2>1. PICK t : t = Append(s, q[k])
    OBVIOUS
  <2>2. t \in Seq(STRING) /\ Len(t) = Len(s) + 1 /\ t[Len(s) + 1] = q[k]
    BY <1>1, <2>1
  <2>3. \A i \in 1..Len(s) : t[i] = s[i]
    BY <1>1, <2>1
  <2>4. ASSUME Cut \notin ToSet(q), NEW i \in 1..k PROVE t[i] = q[i]
    <3>1. CASE i = k
      BY <1>1, <2>2, <2>4, <3>1
    <3>2. CASE i # k
      <4>1. i \in 1..(k - 1) /\ i \in 1..Len(s)
        BY <1>1, <2>4, <3>2
      <4> QED BY <1>1, <2>3, <2>4, <4>1
    <3> QED BY <3>1, <3>2
  <2>5. Cut \notin ToSet(q) => Len(t) = k
    BY <1>1, <2>2
  <2>6. Added(s, q[k]) = t
    BY <1>3, <2>1 DEF Added
  <2> QED BY <2>2, <2>4, <2>5, <2>6 DEF PartsTo
<1> QED BY <1>2, <1>3

LEMMA PartsFacts ==
  ASSUME NEW f, f.components \in Seq(STRING)
  PROVE  /\ Parts(f) \in Seq(STRING)
         /\ Cut \notin ToSet(f.components) => Parts(f) = f.components
<1> PICK q \in Seq(STRING) : q = f.components
  OBVIOUS
<1> PICK n \in Nat : n = Len(q)
  OBVIOUS
<1> PICK S : S = Seq(STRING)
  OBVIOUS
<1> PICK a : a = <<>>
  OBVIOUS
<1> a \in S
  OBVIOUS
<1>1. PICK g : g = [z \in S \X (1..n) |-> Added(z[1], q[z[2]])]
  OBVIOUS
<1>2. ASSUME NEW s \in S, NEW k \in 1..n PROVE Added(s, q[k]) \in S
  <2>1. s \in Seq(STRING) /\ q[k] \in STRING
    OBVIOUS
  <2>2. Append(s, q[k]) \in Seq(STRING)
    BY <2>1
  <2> QED BY <2>1, <2>2 DEF Added
<1>3. g \in [S \X (1..n) -> S]
  BY <1>1, <1>2
<1>4. \A s \in S, k \in 1..n : g[<<s, k>>] = Added(s, q[k])
  BY <1>1
<1>5. PICK r \in [0..n -> S] : Runs(r, n, a, g)
  BY <1>3, Iterates
<1>6. PartsRun(q, r)
  <2>1. ASSUME NEW k \in 0..n
        PROVE  r[k] = IF k = 0 THEN <<>> ELSE Added(r[k - 1], q[k])
    <3>1. k # 0 => k - 1 \in 0..n /\ k \in 1..n
      OBVIOUS
    <3> QED BY <1>4, <1>5, <3>1 DEF Runs
  <2> QED BY <2>1 DEF PartsRun
<1>7. PICK h : PartsRun(q, h) /\ Parts(f) = h[n]
  BY <1>6 DEF Parts, PartsRun
<1>8. PICK P : P = { k \in 0..n : PartsTo(q, h[k], k) }
  OBVIOUS
<1>9. 0 \in P
  <2>1. h[0] = <<>>
    BY <1>7 DEF PartsRun
  <2>2. PartsTo(q, <<>>, 0)
    BY DEF PartsTo
  <2> QED BY <1>8, <2>1, <2>2
<1>10. ASSUME NEW k \in 1..n, k - 1 \in P PROVE k \in P
  <2>1. h[k] = Added(h[k - 1], q[k])
    BY <1>7 DEF PartsRun
  <2>2. PartsTo(q, h[k - 1], k - 1)
    BY <1>8, <1>10
  <2> QED BY <1>8, <2>1, <2>2, AddOne
<1>11. PartsTo(q, Parts(f), n)
  <2>1. n \in 0..n
    OBVIOUS
  <2>2. n \in P
    BY <1>9, <1>10, <2>1, InductionUpTo
  <2> QED BY <1>7, <1>8, <2>2
<1>12. PICK s : s = Parts(f)
  OBVIOUS
<1>13. s \in Seq(STRING) /\ (Cut \notin ToSet(q) => Len(s) = n /\ \A i \in 1..n : s[i] = q[i])
  BY <1>11, <1>12 DEF PartsTo
<1>14. Cut \notin ToSet(q) => s = q
  BY <1>13
<1> QED BY <1>12, <1>13, <1>14

\* What parsing makes of an entry whatever the fields say.
EntryType(rec) ==
  [name : {rec.name}, isDir : {rec.isDir}, node : {rec.node},
   mode : SUBSET {"dir", "symlink"}, modTime : Int,
   rrName : Seq(Chars), rrTarget : Seq(STRING), rrIsLink : BOOLEAN]

LEMMA FieldKinds ==
  ASSUME NEW f \in FieldType
  PROVE  /\ f.sig = "NM" => f.text \in Seq(Chars)
         /\ f.sig = "SL" => f.short \in BOOLEAN /\ f.components \in Seq(STRING)
         /\ f.sig = "PX" => f.short \in BOOLEAN /\ f.mode \in SUBSET {"dir", "symlink"}
         /\ f.sig = "TF" => /\ f.flags \in SUBSET (0..6) /\ f.stamps \in Seq(0..6)
                            /\ InBitOrder(f)
BY DEF FieldType

\* The place of the modification's stamp.
LEMMA StampPlace ==
  ASSUME NEW flags, 1 \in flags
  PROVE  Cardinality(flags \cap {0, 1}) = IF 0 \in flags THEN 2 ELSE 1
<1>1. IsFiniteSet({1}) /\ Cardinality({1}) = 1
  BY FS_Singleton
<1>2. CASE 0 \in flags
  <2>1. flags \cap {0, 1} = {1} \cup {0}
    BY <1>2
  <2>2. Cardinality({1} \cup {0}) = 1 + 1
    BY <1>1, FS_AddElement
  <2> QED BY <1>2, <2>1, <2>2
<1>3. CASE 0 \notin flags
  <2>1. flags \cap {0, 1} = {1}
    BY <1>3
  <2> QED BY <1>1, <1>3, <2>1
<1> QED BY <1>2, <1>3

LEMMA FieldTyped ==
  ASSUME NEW rec, NEW e \in EntryType(rec), NEW f \in FieldType
  PROVE  Field(e, f) \in EntryType(rec)
<1> USE DEF EntryType
<1>1. CASE f.sig = "NM"
  <2>1. f.text \in Seq(Chars) /\ e.rrName \in Seq(Chars)
    BY <1>1, FieldKinds
  <2>2. e.rrName \o f.text \in Seq(Chars)
    BY <2>1
  <2>3. NM(e, f) \in EntryType(rec)
    BY <2>2 DEF NM
  <2> QED BY <1>1, <2>3 DEF Field
<1>2. CASE f.sig = "SL"
  <2>1. Parts(f) \in Seq(STRING)
    BY <1>2, FieldKinds, PartsFacts
  <2>2. <<>> \in Seq(STRING) /\ e.mode \cup {"symlink"} \in SUBSET {"dir", "symlink"}
    OBVIOUS
  <2>3. SL(e, f) \in EntryType(rec)
    BY <2>1, <2>2 DEF SL
  <2> QED BY <1>2, <2>3 DEF Field
<1>3. CASE f.sig = "PX"
  <2>1. PX(e, f) \in EntryType(rec)
    BY <1>3, FieldKinds DEF PX
  <2> QED BY <1>3, <2>1 DEF Field
<1>4. CASE f.sig = "TF"
  <2>1. f.stamps \in Seq(0..6)
    BY <1>4, FieldKinds
  <2>2. PICK k : k = Cardinality(f.flags \cap {0, 1})
    OBVIOUS
  <2>3. 1 \in f.flags => k \in {1, 2}
    BY <2>2, StampPlace
  <2>4. 1 \in f.flags /\ k <= Len(f.stamps) => f.stamps[k] \in Int
    <3>1. PICK t \in Seq(0..6) : t = f.stamps
      BY <2>1
    <3>2. \A j \in 1..Len(t) : t[j] \in Int
      OBVIOUS
    <3> QED BY <2>3, <3>1, <3>2
  <2>5. TF(e, f) \in EntryType(rec)
    BY <2>2, <2>4 DEF TF
  <2> QED BY <1>4, <2>5 DEF Field
<1>5. CASE f.sig \notin {"NM", "SL", "PX", "TF"}
  BY <1>5 DEF Field
<1> QED BY <1>1, <1>2, <1>3, <1>4, <1>5

ParsedRun(sua, e, h) ==
  h = [k \in 0..Len(sua) |-> IF k = 0 THEN e ELSE Field(h[k - 1], sua[k])]

LEMMA SoundFacts ==
  ASSUME NEW sua, Len(sua) \in Nat, DOMAIN sua = 1..Len(sua)
  PROVE  /\ Sound(sua) \in 0..Len(sua)
         /\ (\A k \in DOMAIN sua : sua[k].sig # "Bad") => Sound(sua) = Len(sua)
<1> DEFINE bad == { k \in DOMAIN sua : sua[k].sig = "Bad" }
<1>1. bad \subseteq 1..Len(sua) /\ bad \subseteq Nat
  OBVIOUS
<1>2. bad # {} => Min(bad) \in bad
  <2> HIDE DEF bad
  <2> QED BY <1>1, MinOf
<1>3. Sound(sua) = IF bad = {} THEN Len(sua) ELSE Min(bad) - 1
  BY DEF Sound
<1>4. bad # {} => Min(bad) \in 1..Len(sua)
  BY <1>1, <1>2
<1>5. (\A k \in DOMAIN sua : sua[k].sig # "Bad") => bad = {}
  OBVIOUS
<1> HIDE DEF bad
<1> QED BY <1>3, <1>4, <1>5

LEMMA Parsed ==
  ASSUME NEW rec, NEW e \in EntryType(rec), NEW sua \in Seq(FieldType)
  PROVE  \E h \in [0..Len(sua) -> EntryType(rec)] :
           ParsedRun(sua, e, h) /\ parseRockRidge(sua, e) = h[Sound(sua)]
<1> PICK n \in Nat : n = Len(sua)
  OBVIOUS
<1> PICK S : S = EntryType(rec)
  OBVIOUS
<1> e \in S
  OBVIOUS
<1>1. PICK g : g = [z \in S \X (1..n) |-> Field(z[1], sua[z[2]])]
  OBVIOUS
<1>2. ASSUME NEW s \in S, NEW k \in 1..n PROVE Field(s, sua[k]) \in S
  <2>1. sua[k] \in FieldType
    OBVIOUS
  <2> QED BY <2>1, FieldTyped
<1>3. g \in [S \X (1..n) -> S]
  BY <1>1, <1>2
<1>4. \A s \in S, k \in 1..n : g[<<s, k>>] = Field(s, sua[k])
  BY <1>1
<1>5. PICK r \in [0..n -> S] : Runs(r, n, e, g)
  BY <1>3, Iterates
<1>6. ParsedRun(sua, e, r)
  <2>1. ASSUME NEW k \in 0..n
        PROVE  r[k] = IF k = 0 THEN e ELSE Field(r[k - 1], sua[k])
    <3>1. k # 0 => k - 1 \in 0..n /\ k \in 1..n
      OBVIOUS
    <3> QED BY <1>4, <1>5, <3>1 DEF Runs
  <2> QED BY <2>1 DEF ParsedRun
<1>7. PICK h : ParsedRun(sua, e, h) /\ parseRockRidge(sua, e) = h[Sound(sua)]
  BY <1>6 DEF parseRockRidge, ParsedRun
<1>8. h \in [0..n -> S]
  <2>1. h = [k \in 0..n |-> h[k]] /\ h[0] \in S
    BY <1>7 DEF ParsedRun
  <2>2. ASSUME NEW k \in 1..n, h[k - 1] \in S PROVE h[k] \in S
    <3>1. h[k] = Field(h[k - 1], sua[k])
      BY <1>7 DEF ParsedRun
    <3> QED BY <1>2, <2>2, <3>1
  <2> QED BY <2>1, <2>2, StaysIn
<1> QED BY <1>7, <1>8

LEMMA RecordFacts ==
  ASSUME NEW nodes, NEW rec \in Record(nodes)
  PROVE  /\ rec.name \in Seq(Chars) /\ rec.isDir \in BOOLEAN /\ rec.node \in nodes
         /\ rec.sua \in Seq(FieldType)
         /\ Plain(rec) \in EntryType(rec)
<1>1. /\ rec.name \in Seq(Chars) /\ rec.isDir \in BOOLEAN /\ rec.node \in nodes
      /\ rec.sua \in Seq(FieldType)
  BY DEF Record
<1>2. <<>> \in Seq(Chars) /\ <<>> \in Seq(STRING) /\ -1 \in Int
  OBVIOUS
<1>3. (IF rec.isDir THEN {"dir"} ELSE {}) \in SUBSET {"dir", "symlink"}
  OBVIOUS
<1>4. Plain(rec) \in EntryType(rec)
  BY <1>2, <1>3 DEF Plain, EntryType
<1> QED BY <1>1, <1>4

LEMMA RecordTyped ==
  ASSUME NEW nodes, NEW rec \in Record(nodes), NEW kind
  PROVE  /\ parseRecord(rec, kind) \in EntryType(rec)
         /\ kind # "rockridge" => parseRecord(rec, kind) = Plain(rec)
<1>1. Plain(rec) \in EntryType(rec) /\ rec.sua \in Seq(FieldType)
  BY RecordFacts
<1>2. parseRockRidge(rec.sua, Plain(rec)) \in EntryType(rec)
  <2>1. PICK h \in [0..Len(rec.sua) -> EntryType(rec)] :
               parseRockRidge(rec.sua, Plain(rec)) = h[Sound(rec.sua)]
    BY <1>1, Parsed
  <2>2. Sound(rec.sua) \in 0..Len(rec.sua)
    BY <1>1, SoundFacts
  <2> QED BY <2>1, <2>2
<1> QED BY <1>1, <1>2 DEF parseRecord

-----------------------------------------------------------------------------
(***************************************************************************)
(* Rock Ridge fields in any order: what the first k fields of a well-      *)
(* formed area have said.                                                  *)
(***************************************************************************)
Has(sua, sig, k) == \E j \in 1..k : sua[j].sig = sig

Timed(sua, k) == \E j \in 1..k : sua[j].sig = "TF" /\ 1 \in sua[j].flags

FinalMode(rec) ==
  IF rec.isDir THEN {"dir"}
  ELSE IF Has(rec.sua, "SL", Len(rec.sua)) THEN {"symlink"} ELSE {}

SaidTo(rec, e, k) ==
  /\ e.rrIsLink <=> Has(rec.sua, "SL", k)
  /\ \A j \in 1..k : rec.sua[j].sig = "SL" => e.rrTarget = rec.sua[j].components
  /\ e.mode = IF Has(rec.sua, "PX", k) THEN FinalMode(rec)
              ELSE IF rec.isDir THEN {"dir"}
              ELSE IF Has(rec.sua, "SL", k) THEN {"symlink"} ELSE {}
  /\ e.modTime = IF Timed(rec.sua, k) THEN 1 ELSE -1

\* A well-formed area, by place.
LEMMA WellFormedFacts ==
  ASSUME NEW nodes, NEW rec \in Record(nodes), WellFormed(rec), NEW k \in DOMAIN rec.sua
  PROVE  /\ rec.sua[k] \in FieldType /\ rec.sua[k].sig # "Bad"
         /\ \A j \in DOMAIN rec.sua :
              rec.sua[j].sig = rec.sua[k].sig /\ rec.sua[k].sig \in {"SL", "PX", "TF"} => j = k
         /\ rec.sua[k].sig = "SL" =>
              /\ ~rec.isDir /\ ~rec.sua[k].short /\ Cut \notin ToSet(rec.sua[k].components)
              /\ ~EmptyTarget(rec.sua[k].components)
         /\ rec.sua[k].sig = "PX" => ~rec.sua[k].short /\ rec.sua[k].mode = FinalMode(rec)
         /\ rec.sua[k].sig = "TF" => Len(rec.sua[k].stamps) = Cardinality(rec.sua[k].flags)
<1>1. rec.sua \in Seq(FieldType) /\ DOMAIN rec.sua = 1..Len(rec.sua)
  BY RecordFacts
<1>2. PICK f : f = rec.sua[k]
  OBVIOUS
<1>3. f \in FieldType /\ f \in ToSet(rec.sua) /\ f \in Of(rec.sua, f.sig)
  BY <1>1, <1>2 DEF ToSet, Of
<1>4. Of(rec.sua, "SL") # {} <=> Has(rec.sua, "SL", Len(rec.sua))
  BY <1>1 DEF Of, Has, ToSet
<1>5. f.sig # "Bad"
  BY <1>3 DEF WellFormed
<1>6. \A j \in DOMAIN rec.sua :
        rec.sua[j].sig = f.sig /\ f.sig \in {"SL", "PX", "TF"} => j = k
  BY <1>2 DEF WellFormed
<1>7. f.sig = "SL" => /\ ~rec.isDir /\ ~f.short /\ Cut \notin ToSet(f.components)
                      /\ ~EmptyTarget(f.components)
  BY <1>3 DEF WellFormed
<1>8. f.sig = "PX" => ~f.short /\ f.mode = FinalMode(rec)
  BY <1>3, <1>4 DEF WellFormed, FinalMode
<1>9. f.sig = "TF" => Len(f.stamps) = Cardinality(f.flags)
  BY <1>3 DEF WellFormed
<1> QED BY <1>2, <1>3, <1>5, <1>6, <1>7, <1>8, <1>9

\* The stamps of a well-formed TF: that of the modification is where TF looks
\* for it.
LEMMA StampAt ==
  ASSUME NEW f, f.flags \in SUBSET (0..6), f.stamps \in Seq(0..6), InBitOrder(f),
         Len(f.stamps) = Cardinality(f.flags), 1 \in f.flags
  PROVE  LET k == Cardinality(f.flags \cap {0, 1})
         IN  k <= Len(f.stamps) /\ f.stamps[k] = 1
<1> PICK s \in Seq(0..6) : s = f.stamps
  OBVIOUS
<1> PICK F \in SUBSET (0..6) : F = f.flags
  OBVIOUS
<1> PICK k : k = Cardinality(F \cap {0, 1})
  OBVIOUS
<1> PICK n \in Nat : n = Len(s)
  OBVIOUS
<1>1. k = IF 0 \in F THEN 2 ELSE 1
  BY StampPlace
<1>2. k <= n
  <2>1. IsFiniteSet(0..6)
    <3>1. 0 \in Int /\ 6 \in Int
      OBVIOUS
    <3> QED BY ONLY <3>1, FS_Interval
  <2>2. IsFiniteSet(F)
    BY <2>1, FS_Subset
  <2>3. Cardinality(F \cap {0, 1}) <= Cardinality(F)
    BY <2>2, FS_Subset
  <2> QED BY <2>3
<1>3. /\ \A j \in 1..n : s[j] \in 0..6
      /\ \A i, j \in 1..n : i < j => s[i] < s[j]
      /\ \A b \in F, j \in 1..n : b < s[j] => \E i \in 1..n : s[i] = b
      /\ \A j \in 1..n : s[j] \in F
  BY DEF InBitOrder, ToSet
<1>4. s[k] = 1
  <2>1. CASE 0 \notin F
    <3>1. k = 1 /\ 1 \in 1..n
      BY <1>1, <1>2, <2>1
    <3>2. s[1] \in 0..6 /\ s[1] # 0
      BY <1>3, <2>1, <3>1
    <3>3. ~(1 < s[1])
      BY <1>3, <3>1
    <3> QED BY <3>1, <3>2, <3>3
  <2>2. CASE 0 \in F
    <3>1. k = 2 /\ 1 \in 1..n /\ 2 \in 1..n
      BY <1>1, <1>2, <2>2
    <3>2. s[1] \in 0..6 /\ s[2] \in 0..6 /\ s[1] < s[2]
      BY <1>3, <3>1
    <3>3. ~(0 < s[1])
      BY <1>3, <2>2, <3>1, <3>2
    <3>4. ~(1 < s[2])
      BY <1>3, <3>1, <3>2, <3>3
    <3> QED BY <3>1, <3>2, <3>4
  <2> QED BY <2>1, <2>2
<1> QED BY <1>2, <1>4

\* Each field adds what it says.
LEMMA SaidNext ==
  ASSUME NEW nodes, NEW rec \in Record(nodes), WellFormed(rec),
         NEW k \in 1..Len(rec.sua), NEW e \in EntryType(rec), SaidTo(rec, e, k - 1)
  PROVE  SaidTo(rec, Field(e, rec.sua[k]), k)
<1> PICK n \in Nat : n = Len(rec.sua)
  BY RecordFacts
<1>1. k \in DOMAIN rec.sua /\ DOMAIN rec.sua = 1..n /\ k \in 1..n
  BY RecordFacts
<1>2. PICK f : f = rec.sua[k]
  OBVIOUS
<1>3. PICK d : d = Field(e, f)
  OBVIOUS
<1>4. /\ f \in FieldType /\ f.sig # "Bad"
      /\ \A j \in 1..n : rec.sua[j].sig = f.sig /\ f.sig \in {"SL", "PX", "TF"} => j = k
      /\ f.sig = "SL" => /\ ~rec.isDir /\ ~f.short /\ Cut \notin ToSet(f.components)
                         /\ ~EmptyTarget(f.components)
      /\ f.sig = "PX" => ~f.short /\ f.mode = FinalMode(rec)
      /\ f.sig = "TF" => Len(f.stamps) = Cardinality(f.flags)
  BY <1>1, <1>2, WellFormedFacts
<1>5. \A j \in 1..k : j = k \/ j \in 1..(k - 1)
  OBVIOUS
<1>6. \A j \in 1..(k - 1) : j \in 1..n /\ j # k /\ j \in 1..k
  BY <1>1
<1>7. /\ e.rrIsLink <=> Has(rec.sua, "SL", k - 1)
      /\ \A j \in 1..(k - 1) : rec.sua[j].sig = "SL" => e.rrTarget = rec.sua[j].components
      /\ e.mode = IF Has(rec.sua, "PX", k - 1) THEN FinalMode(rec)
                  ELSE IF rec.isDir THEN {"dir"}
                  ELSE IF Has(rec.sua, "SL", k - 1) THEN {"symlink"} ELSE {}
      /\ e.modTime = IF Timed(rec.sua, k - 1) THEN 1 ELSE -1
  BY DEF SaidTo
<1>8. /\ Has(rec.sua, "SL", k) <=> (Has(rec.sua, "SL", k - 1) \/ f.sig = "SL")
      /\ Has(rec.sua, "PX", k) <=> (Has(rec.sua, "PX", k - 1) \/ f.sig = "PX")
  BY <1>2, <1>5, <1>6 DEF Has
<1>9. Timed(rec.sua, k) <=> (Timed(rec.sua, k - 1) \/ (f.sig = "TF" /\ 1 \in f.flags))
  BY <1>2, <1>5, <1>6 DEF Timed
<1>10. CASE f.sig = "SL"
  <2>1. ~Has(rec.sua, "SL", k - 1) /\ Has(rec.sua, "SL", n)
    BY <1>1, <1>2, <1>4, <1>6, <1>10 DEF Has
  <2>2. f.components \in Seq(STRING)
    BY <1>4, <1>10, FieldKinds
  <2>3. Parts(f) = f.components
    BY <1>4, <1>10, <2>2, PartsFacts
  <2>4. d = [e EXCEPT !.rrTarget = f.components, !.rrIsLink = TRUE, !.mode = @ \cup {"symlink"}]
    BY <1>3, <1>4, <1>10, <2>3 DEF Field, SL
  <2>5. /\ d.rrIsLink = TRUE /\ d.rrTarget = f.components /\ d.modTime = e.modTime
        /\ d.mode = e.mode \cup {"symlink"}
    BY <2>4 DEF EntryType
  <2>6. d.mode = IF Has(rec.sua, "PX", k) THEN FinalMode(rec) ELSE {"symlink"}
    <3>1. FinalMode(rec) = {"symlink"}
      BY <1>4, <1>10, <2>1 DEF FinalMode
    <3> QED BY <1>4, <1>7, <1>8, <1>10, <2>1, <2>5, <3>1
  <2>7. \A j \in 1..k : rec.sua[j].sig = "SL" => d.rrTarget = rec.sua[j].components
    BY <1>2, <1>4, <1>5, <1>6, <1>10, <2>5
  <2>8. d.modTime = IF Timed(rec.sua, k) THEN 1 ELSE -1
    BY <1>7, <1>9, <1>10, <2>5
  <2> QED BY <1>2, <1>3, <1>4, <1>8, <1>10, <2>5, <2>6, <2>7, <2>8 DEF SaidTo
<1>11. CASE f.sig = "PX"
  <2>1. d = [e EXCEPT !.mode = f.mode]
    BY <1>3, <1>4, <1>11 DEF Field, PX
  <2>2. /\ d.rrIsLink = e.rrIsLink /\ d.rrTarget = e.rrTarget /\ d.modTime = e.modTime
        /\ d.mode = FinalMode(rec)
    BY <1>4, <1>11, <2>1 DEF EntryType
  <2>3. \A j \in 1..k : rec.sua[j].sig = "SL" => d.rrTarget = rec.sua[j].components
    BY <1>2, <1>5, <1>7, <1>11, <2>2
  <2> QED BY <1>2, <1>3, <1>7, <1>8, <1>9, <1>11, <2>2, <2>3 DEF SaidTo
<1>12. CASE f.sig = "TF"
  <2>1. ~Timed(rec.sua, k - 1)
    BY <1>4, <1>6, <1>12 DEF Timed
  <2>2. f.flags \in SUBSET (0..6) /\ f.stamps \in Seq(0..6) /\ InBitOrder(f)
    BY <1>4, <1>12, FieldKinds
  <2>3. d = IF 1 \in f.flags THEN [e EXCEPT !.modTime = 1] ELSE e
    <3>1. CASE 1 \in f.flags
      <4>1. PICK i : i = Cardinality(f.flags \cap {0, 1})
        OBVIOUS
      <4>2. i <= Len(f.stamps) /\ f.stamps[i] = 1
        BY <1>4, <1>12, <2>2, <3>1, <4>1, StampAt
      <4> QED BY <1>3, <1>12, <3>1, <4>1, <4>2 DEF Field, TF
    <3>2. CASE 1 \notin f.flags
      BY <1>3, <1>12, <3>2 DEF Field, TF
    <3> QED BY <3>1, <3>2
  <2>4. /\ d.rrIsLink = e.rrIsLink /\ d.rrTarget = e.rrTarget /\ d.mode = e.mode
        /\ d.modTime = IF 1 \in f.flags THEN 1 ELSE e.modTime
    BY <2>3 DEF EntryType
  <2>5. \A j \in 1..k : rec.sua[j].sig = "SL" => d.rrTarget = rec.sua[j].components
    BY <1>2, <1>5, <1>7, <1>12, <2>4
  <2>6. d.modTime = IF Timed(rec.sua, k) THEN 1 ELSE -1
    BY <1>7, <1>9, <1>12, <2>1, <2>4
  <2> QED BY <1>2, <1>3, <1>7, <1>8, <1>12, <2>4, <2>5, <2>6 DEF SaidTo
<1>13. CASE f.sig \notin {"SL", "PX", "TF"}
  <2>1. /\ d.rrIsLink = e.rrIsLink /\ d.rrTarget = e.rrTarget
        /\ d.mode = e.mode /\ d.modTime = e.modTime
    BY <1>3, <1>13 DEF Field, NM, EntryType
  <2>2. \A j \in 1..k : rec.sua[j].sig = "SL" => d.rrTarget = rec.sua[j].components
    BY <1>2, <1>5, <1>7, <1>13, <2>1
  <2> QED BY <1>2, <1>3, <1>7, <1>8, <1>9, <1>13, <2>1, <2>2 DEF SaidTo
<1> QED BY <1>10, <1>11, <1>12, <1>13

LEMMA SaidByAll ==
  ASSUME NEW nodes, NEW rec \in Record(nodes), WellFormed(rec)
  PROVE  SaysWhatIsRecorded(rec, parseRecord(rec, "rockridge"))
<1> PICK n \in Nat : n = Len(rec.sua)
  BY RecordFacts
<1> PICK e : e = Plain(rec)
  OBVIOUS
<1>1. /\ rec.sua \in Seq(FieldType) /\ DOMAIN rec.sua = 1..n
      /\ e \in EntryType(rec)
  BY RecordFacts
<1>2. PICK h \in [0..n -> EntryType(rec)] :
         ParsedRun(rec.sua, e, h) /\ parseRockRidge(rec.sua, e) = h[Sound(rec.sua)]
  BY <1>1, Parsed
<1>3. Sound(rec.sua) = n
  BY <1>1, SoundFacts, WellFormedFacts
<1>4. PICK P : P = { k \in 0..n : SaidTo(rec, h[k], k) }
  OBVIOUS
<1>5. 0 \in P
  <2>1. h[0] = e
    BY <1>2 DEF ParsedRun
  <2>2. /\ e.rrIsLink = FALSE /\ e.mode = (IF rec.isDir THEN {"dir"} ELSE {})
        /\ e.modTime = -1
    BY DEF Plain
  <2>3. ~Has(rec.sua, "SL", 0) /\ ~Has(rec.sua, "PX", 0) /\ ~Timed(rec.sua, 0)
    BY DEF Has, Timed
  <2>4. SaidTo(rec, e, 0)
    BY <2>2, <2>3 DEF SaidTo
  <2> QED BY <1>4, <2>1, <2>4
<1>6. ASSUME NEW k \in 1..n, k - 1 \in P PROVE k \in P
  <2>1. h[k] = Field(h[k - 1], rec.sua[k])
    BY <1>2 DEF ParsedRun
  <2>2. SaidTo(rec, h[k - 1], k - 1) /\ h[k - 1] \in EntryType(rec)
    BY <1>2, <1>4, <1>6
  <2> QED BY <1>4, <2>1, <2>2, SaidNext
<1>7. PICK d \in EntryType(rec) : d = parseRecord(rec, "rockridge") /\ SaidTo(rec, d, n)
  <2>1. n \in 0..n
    OBVIOUS
  <2>2. n \in P
    BY <1>5, <1>6, <2>1, InductionUpTo
  <2> QED BY <1>2, <1>3, <1>4, <2>1, <2>2 DEF parseRecord
<1>8. /\ Of(rec.sua, "SL") # {} <=> Has(rec.sua, "SL", n)
      /\ \A f \in Of(rec.sua, "SL") : \E j \in 1..n : f = rec.sua[j] /\ rec.sua[j].sig = "SL"
      /\ (\E f \in Of(rec.sua, "TF") : 1 \in f.flags) <=> Timed(rec.sua, n)
  BY <1>1 DEF Of, Has, Timed, ToSet
<1>9. Has(rec.sua, "SL", n) => ~rec.isDir
  BY <1>1, WellFormedFacts DEF Has
<1>10. d.mode = IF rec.isDir THEN {"dir"} ELSE IF d.rrIsLink THEN {"symlink"} ELSE {}
  BY <1>7, <1>9 DEF SaidTo, FinalMode
<1>11. d.rrIsLink \in BOOLEAN
  BY <1>7 DEF EntryType
<1>12. d.rrIsLink = (Of(rec.sua, "SL") # {})
  BY <1>7, <1>8, <1>11 DEF SaidTo
<1>13. \A f \in Of(rec.sua, "SL") : d.rrTarget = f.components
  BY <1>7, <1>8 DEF SaidTo
<1>14. d.modTime = IF \E f \in Of(rec.sua, "TF") : 1 \in f.flags THEN 1 ELSE -1
  BY <1>7, <1>8 DEF SaidTo
<1> QED BY <1>7, <1>10, <1>12, <1>13, <1>14 DEF SaysWhatIsRecorded


-----------------------------------------------------------------------------
(***************************************************************************)
(* The entries of a directory.                                             *)
(***************************************************************************)
\* What an entry of a volume can be.
Entry(v) ==
  { e \in [name : Names, isDir : BOOLEAN, node : DOMAIN v.nodes,
           mode : SUBSET {"dir", "symlink"}, modTime : Int,
           rrName : Names, rrTarget : Seq(STRING), rrIsLink : BOOLEAN] :
      /\ v.kind # "rockridge" => ~e.rrIsLink /\ e.rrName = <<>>
      /\ IsUdf(v) => v.nodes[e.node].type # "bad" }

LEMMA NodeFacts ==
  ASSUME NEW v, Volume(v), NEW n \in DOMAIN v.nodes
  PROVE  /\ Count(v, n) \in Nat /\ DOMAIN v.nodes[n].records = 1..Count(v, n)
         /\ \A k \in 1..Count(v, n) : v.nodes[n].records[k] \in Record(DOMAIN v.nodes)
         /\ v.nodes[n].type \in {"dir", "file", "bad"}
<1>1. /\ v.nodes[n].records \in Seq(Record(DOMAIN v.nodes))
      /\ v.nodes[n].type \in {"dir", "file", "bad"}
  BY DEF Volume
<1>2. PICK r \in Seq(Record(DOMAIN v.nodes)) : r = v.nodes[n].records
  BY <1>1
<1> QED BY <1>1, <1>2 DEF Count

LEMMA PlainWithMode ==
  ASSUME NEW v, NEW rec, rec.name \in Names, rec.isDir \in BOOLEAN, rec.node \in DOMAIN v.nodes,
         v.kind = "udf" => v.nodes[rec.node].type # "bad",
         NEW m \in SUBSET {"dir", "symlink"}
  PROVE  LET e == [Plain(rec) EXCEPT !.mode = m]
         IN  e \in Entry(v) /\ e.node = rec.node /\ e.isDir = rec.isDir
<1>1. PICK s : s = <<>>
  OBVIOUS
<1>2. s \in Names /\ s \in Seq(STRING) /\ -1 \in Int
  BY <1>1 DEF Names
<1>3. PICK d \in SUBSET {"dir", "symlink"} : d = IF rec.isDir THEN {"dir"} ELSE {}
  OBVIOUS
<1>4. PICK p : p = Plain(rec)
  OBVIOUS
<1>5. p \in [name : {rec.name}, isDir : {rec.isDir}, node : {rec.node},
             mode : SUBSET {"dir", "symlink"}, modTime : Int,
             rrName : {s}, rrTarget : {s}, rrIsLink : {FALSE}]
  BY <1>1, <1>2, <1>3, <1>4 DEF Plain
<1>6. PICK e : e = [p EXCEPT !.mode = m]
  OBVIOUS
<1>7. e \in [name : {rec.name}, isDir : {rec.isDir}, node : {rec.node},
             mode : SUBSET {"dir", "symlink"}, modTime : Int,
             rrName : {s}, rrTarget : {s}, rrIsLink : {FALSE}]
  BY <1>5, <1>6
<1>8. e \in Entry(v) /\ e.node = rec.node /\ e.isDir = rec.isDir
  BY <1>1, <1>2, <1>7 DEF Entry, IsUdf
<1> QED BY <1>4, <1>6, <1>8

LEMMA UdfEntryTyped ==
  ASSUME NEW v, IsUdf(v), NEW rec \in Record(DOMAIN v.nodes), v.nodes[rec.node].type # "bad"
  PROVE  UdfEntry(v, rec) \in Entry(v)
<1>1. /\ rec.name \in Names /\ rec.isDir \in BOOLEAN /\ rec.node \in DOMAIN v.nodes
  BY RecordFacts DEF Names
<1>2. PICK m \in SUBSET {"dir", "symlink"} :
        m = IF v.nodes[rec.node].type = "dir" THEN {"dir"} ELSE {}
  OBVIOUS
<1>3. UdfEntry(v, rec) = [Plain(rec) EXCEPT !.mode = m]
  BY <1>2 DEF UdfEntry
<1> QED BY <1>1, <1>3, PlainWithMode

LEMMA IsoEntryTyped ==
  ASSUME NEW v, ~IsUdf(v), NEW rec \in Record(DOMAIN v.nodes)
  PROVE  parseRecord(rec, v.kind) \in Entry(v)
<1>1. PICK e \in EntryType(rec) :
        /\ e = parseRecord(rec, v.kind)
        /\ v.kind # "rockridge" => e = Plain(rec)
  BY RecordTyped
<1>2. rec.name \in Names /\ rec.isDir \in BOOLEAN /\ rec.node \in DOMAIN v.nodes
  BY RecordFacts DEF Names
<1>3. e \in [name : Names, isDir : BOOLEAN, node : DOMAIN v.nodes,
             mode : SUBSET {"dir", "symlink"}, modTime : Int,
             rrName : Names, rrTarget : Seq(STRING), rrIsLink : BOOLEAN]
  BY <1>1, <1>2 DEF EntryType, Names
<1>4. v.kind # "rockridge" => ~e.rrIsLink /\ e.rrName = <<>>
  BY <1>1 DEF Plain
<1> QED BY <1>1, <1>3, <1>4 DEF Entry

BadRoot(v) == IsUdf(v) /\ v.nodes[v.root].type = "bad"

LEMMA RootEntryTyped ==
  ASSUME NEW v, Volume(v), ~BadRoot(v)
  PROVE  /\ RootEntry(v) \in Entry(v) /\ RootEntry(v).node = v.root
         /\ ~IsUdf(v) => RootEntry(v).isDir
<1>1. v.root \in DOMAIN v.nodes
  BY DEF Volume
<1>2. PICK m \in SUBSET {"dir", "symlink"} :
        m = IF IsUdf(v) /\ (IsUdf(v) => v.nodes[v.root].type = "dir") THEN {"dir"} ELSE {}
  OBVIOUS
<1>3. PICK rec : rec = [name |-> <<>>, node |-> v.root,
                        isDir |-> (IsUdf(v) => v.nodes[v.root].type = "dir")]
  OBVIOUS
<1>4. rec.name \in Names /\ rec.isDir \in BOOLEAN /\ rec.node = v.root
  BY <1>3 DEF Names, IsUdf
<1>5. ~IsUdf(v) => rec.isDir
  BY <1>3
<1>6. RootEntry(v) = [Plain(rec) EXCEPT !.mode = m]
  BY <1>2, <1>3 DEF RootEntry
<1>7. v.kind = "udf" => v.nodes[rec.node].type # "bad"
  BY <1>4 DEF BadRoot, IsUdf
<1> QED BY <1>1, <1>4, <1>5, <1>6, <1>7, PlainWithMode

LEMMA ChildrenTyped ==
  ASSUME NEW v, Volume(v), NEW n \in DOMAIN v.nodes, NEW lost
  PROVE  Children(v, n, lost) \in Seq(Entry(v))
<1> PICK records : records = v.nodes[n].records
  OBVIOUS
<1> PICK c \in Nat : c = Count(v, n)
  BY NodeFacts
<1>1. DOMAIN records = 1..c /\ \A k \in 1..c : records[k] \in Record(DOMAIN v.nodes)
  BY NodeFacts
<1>2. CASE IsUdf(v)
  <2>1. PICK s : s = KeptPlaces(v, n, lost)
    OBVIOUS
  <2>2. KeptTo(v, n, lost, s, c)
    BY <2>1, KeptFacts
  <2>3. s \in Seq(Nat) /\ \A i \in DOMAIN s : s[i] \in 1..c /\ Kept(v, n, lost, s[i])
    BY <2>2 DEF KeptTo
  <2>4. Children(v, n, lost) = [j \in 1..Len(s) |-> UdfEntry(v, records[s[j]])]
    BY <1>2, <2>1, <2>3 DEF Children
  <2>5. ASSUME NEW j \in 1..Len(s) PROVE UdfEntry(v, records[s[j]]) \in Entry(v)
    <3>1. s[j] \in 1..c /\ Kept(v, n, lost, s[j])
      BY <2>3
    <3>2. v.nodes[records[s[j]].node].type # "bad"
      BY <3>1 DEF Kept
    <3> QED BY <1>1, <1>2, <3>1, <3>2, UdfEntryTyped
  <2>6. Len(s) \in Nat
    BY <2>3
  <2> QED BY <2>4, <2>5, <2>6
<1>3. CASE ~IsUdf(v)
  <2>1. Children(v, n, lost) = [k \in 1..c |-> parseRecord(records[k], v.kind)]
    BY <1>1, <1>3 DEF Children
  <2>2. \A k \in 1..c : parseRecord(records[k], v.kind) \in Entry(v)
    BY <1>1, <1>3, IsoEntryTyped
  <2> QED BY <2>1, <2>2
<1> QED BY <1>2, <1>3

\* The children without those in lost are all the children, some left out.
LEMMA ChildrenThinned ==
  ASSUME NEW v, Volume(v), NEW n \in DOMAIN v.nodes, NEW lost, IsUdf(v) \/ lost = {}
  PROVE  Tree!Thinned(Children(v, n, lost), Children(v, n, {}))
<1> PICK records : records = v.nodes[n].records
  OBVIOUS
<1> PICK c \in Nat : c = Count(v, n)
  BY NodeFacts
<1> PICK r : r = Children(v, n, {})
  OBVIOUS
<1> PICK s : s = Children(v, n, lost)
  OBVIOUS
<1>1. r \in Seq(Entry(v)) /\ s \in Seq(Entry(v))
  BY ChildrenTyped
<1>2. CASE lost = {}
  <2>1. PICK at : at = [i \in DOMAIN s |-> i]
    OBVIOUS
  <2>2. at \in [DOMAIN s -> DOMAIN r] /\ DOMAIN r \in SUBSET DOMAIN r
    BY <1>2, <2>1
  <2>3. (\A i, j \in DOMAIN s : i < j => at[i] < at[j]) /\ \A i \in DOMAIN s : s[i] = r[at[i]]
    BY <1>2, <2>1
  <2> QED BY <2>2, <2>3 DEF Tree!Thinned
<1>3. CASE IsUdf(v)
  <2>1. PICK p : p = KeptPlaces(v, n, lost)
    OBVIOUS
  <2>2. PICK q : q = KeptPlaces(v, n, {})
    OBVIOUS
  <2>3. KeptTo(v, n, lost, p, c) /\ KeptTo(v, n, {}, q, c)
    BY <2>1, <2>2, KeptFacts
  <2>4. /\ p \in Seq(Nat) /\ \A i \in DOMAIN p : p[i] \in 1..c /\ Kept(v, n, lost, p[i])
        /\ \A i, j \in DOMAIN p : i < j => p[i] < p[j]
    BY <2>3 DEF KeptTo
  <2>5. /\ q \in Seq(Nat)
        /\ \A i, j \in DOMAIN q : i < j => q[i] < q[j]
        /\ \A m \in 1..c : Kept(v, n, {}, m) => \E i \in DOMAIN q : q[i] = m
    BY <2>3 DEF KeptTo
  <2>6. \A m : Kept(v, n, lost, m) => Kept(v, n, {}, m)
    BY DEF Kept
  <2>7. /\ s = [j \in DOMAIN p |-> UdfEntry(v, records[p[j]])]
        /\ r = [j \in DOMAIN q |-> UdfEntry(v, records[q[j]])]
    BY <1>3, <2>1, <2>2 DEF Children
  <2>8. DOMAIN s = DOMAIN p /\ DOMAIN r = DOMAIN q
    BY <2>7
  <2>9. PICK at : at = [i \in DOMAIN s |-> CHOOSE j \in DOMAIN r : q[j] = p[i]]
    OBVIOUS
  <2>10. ASSUME NEW i \in DOMAIN s PROVE at[i] \in DOMAIN r /\ q[at[i]] = p[i]
    <3>1. \E j \in DOMAIN r : q[j] = p[i]
      BY <2>4, <2>5, <2>6, <2>8
    <3> QED BY <2>9, <3>1
  <2>11. at \in [DOMAIN s -> DOMAIN r] /\ DOMAIN r \in SUBSET DOMAIN r
    BY <2>9, <2>10
  <2>12. ASSUME NEW i \in DOMAIN s, NEW j \in DOMAIN s, i < j PROVE at[i] < at[j]
    <3>1. p[i] < p[j] /\ p[i] \in Nat /\ p[j] \in Nat
      BY <2>4, <2>8, <2>12
    <3>2. at[i] \in DOMAIN q /\ at[j] \in DOMAIN q /\ q[at[i]] = p[i] /\ q[at[j]] = p[j]
      BY <2>8, <2>10
    <3>3. DOMAIN q = 1..Len(q) /\ Len(q) \in Nat
      BY <2>5
    <3>4. ~(at[j] < at[i]) /\ at[i] # at[j]
      BY <2>5, <3>1, <3>2
    <3> QED BY <3>2, <3>3, <3>4
  <2>13. ASSUME NEW i \in DOMAIN s PROVE s[i] = r[at[i]]
    BY <2>7, <2>8, <2>10
  <2> QED BY <2>11, <2>12, <2>13 DEF Tree!Thinned
<1> QED BY <1>2, <1>3


-----------------------------------------------------------------------------
(***************************************************************************)
(* The entries along a path.                                               *)
(***************************************************************************)
RootSet(v) == IF IsUdf(v) /\ v.nodes[v.root].type = "bad" THEN {} ELSE {RootEntry(v)}

AlongRun(v, q, first, h) ==
  h = [k \in 0..Len(q) |->
         IF k = 0 THEN RootSet(v) ELSE Below(v, h[k - 1], q[k], first)]

LEMMA BelowTyped ==
  ASSUME NEW v, Volume(v), NEW D \in SUBSET Entry(v), NEW name, NEW first
  PROVE  Below(v, D, name, first) \in SUBSET Entry(v)
<1>1. ASSUME NEW e \in Below(v, D, name, first) PROVE e \in Entry(v)
  <2>1. PICK d \in D : e \in Named(v, Children(v, d.node, {}), name, first)
    BY DEF Below
  <2>2. PICK s : s = Children(v, d.node, {})
    OBVIOUS
  <2>3. s \in Seq(Entry(v))
    BY <2>2, ChildrenTyped DEF Entry
  <2>4. PICK j \in DOMAIN s : e = s[j]
    BY <2>1, <2>2 DEF Named, SameName
  <2> QED BY <2>3, <2>4
<1> QED BY <1>1

LEMMA AlongFacts ==
  ASSUME NEW v, Volume(v), NEW q, Len(q) \in Nat, NEW first
  PROVE  /\ Along(v, q, first) \in [0..Len(q) -> SUBSET Entry(v)]
         /\ AlongRun(v, q, first, Along(v, q, first))
<1> PICK n \in Nat : n = Len(q)
  OBVIOUS
<1> PICK S : S = SUBSET Entry(v)
  OBVIOUS
<1> PICK a : a = RootSet(v)
  OBVIOUS
<1> a \in S
  BY RootEntryTyped DEF RootSet, BadRoot
<1>1. PICK g : g = [z \in S \X (1..n) |-> Below(v, z[1], q[z[2]], first)]
  OBVIOUS
<1>2. ASSUME NEW D \in S, NEW k \in 1..n PROVE Below(v, D, q[k], first) \in S
  BY BelowTyped
<1>3. g \in [S \X (1..n) -> S]
  BY <1>1, <1>2
<1>4. \A D \in S, k \in 1..n : g[<<D, k>>] = Below(v, D, q[k], first)
  BY <1>1
<1>5. PICK r \in [0..n -> S] : Runs(r, n, a, g)
  BY <1>3, Iterates
<1>6. AlongRun(v, q, first, r)
  <2>1. ASSUME NEW k \in 0..n
        PROVE  r[k] = IF k = 0 THEN RootSet(v) ELSE Below(v, r[k - 1], q[k], first)
    <3>1. k # 0 => k - 1 \in 0..n /\ k \in 1..n
      OBVIOUS
    <3> QED BY <1>4, <1>5, <3>1 DEF Runs
  <2> QED BY <2>1 DEF AlongRun
<1>7. PICK h : AlongRun(v, q, first, h) /\ Along(v, q, first) = h
  BY <1>6 DEF Along, AlongRun, RootSet
<1>8. h \in [0..n -> S]
  <2>1. h = [k \in 0..n |-> h[k]] /\ h[0] \in S
    BY <1>7 DEF AlongRun
  <2>2. ASSUME NEW k \in 1..n, h[k - 1] \in S PROVE h[k] \in S
    <3>1. h[k] = Below(v, h[k - 1], q[k], first)
      BY <1>7 DEF AlongRun
    <3> QED BY <1>2, <2>2, <3>1
  <2> QED BY <2>1, <2>2, StaysIn
<1> QED BY <1>7, <1>8

\* The first of the path is the root, and then each is below the one before.
LEMMA AlongSteps ==
  ASSUME NEW v, Volume(v), NEW q, Len(q) \in Nat, NEW first
  PROVE  /\ Along(v, q, first)[0] = RootSet(v)
         /\ \A k \in 1..Len(q) :
              Along(v, q, first)[k] = Below(v, Along(v, q, first)[k - 1], q[k], first)
<1>1. PICK h : h = Along(v, q, first) /\ AlongRun(v, q, first, h)
  BY AlongFacts
<1>2. h[0] = RootSet(v)
  BY <1>1 DEF AlongRun
<1>3. \A k \in 1..Len(q) : h[k] = Below(v, h[k - 1], q[k], first)
  BY <1>1 DEF AlongRun
<1> QED BY <1>1, <1>2, <1>3

\* Below nothing there is nothing.
LEMMA AlongNothing ==
  ASSUME NEW v, Volume(v), NEW q, Len(q) \in Nat, NEW first,
         NEW i \in 0..Len(q), Along(v, q, first)[i] = {}
  PROVE  Along(v, q, first)[Len(q)] = {}
<1> PICK n \in Nat : n = Len(q)
  OBVIOUS
<1>1. PICK h : h = Along(v, q, first)
  OBVIOUS
<1>2. \A k \in 1..n : h[k] = Below(v, h[k - 1], q[k], first)
  BY <1>1, AlongSteps
<1>3. PICK P : P = { k \in 0..n : k >= i => h[k] = {} }
  OBVIOUS
<1>4. 0 \in P
  BY <1>1, <1>3
<1>5. ASSUME NEW k \in 1..n, k - 1 \in P PROVE k \in P
  <2>1. CASE k <= i
    BY <1>1, <1>3, <2>1
  <2>2. CASE k > i
    <3>1. h[k - 1] = {}
      BY <1>3, <1>5, <2>2
    <3>2. h[k] = {}
      BY <1>2, <3>1 DEF Below
    <3> QED BY <1>3, <3>2
  <2> QED BY <2>1, <2>2
<1>6. n \in P
  <2>1. n \in 0..n
    OBVIOUS
  <2> QED BY <1>4, <1>5, <2>1, InductionUpTo
<1> QED BY <1>1, <1>3, <1>6

\* A longer path leads by the same entries.
LEMMA AlongLonger ==
  ASSUME NEW v, Volume(v), NEW p \in Seq(Names), NEW name \in Names, NEW first
  PROVE  Along(v, Append(p, name), first)[Len(p)] = Along(v, p, first)[Len(p)]
<1> PICK n \in Nat : n = Len(p)
  OBVIOUS
<1>1. PICK q : q = Append(p, name)
  OBVIOUS
<1>2. Len(q) = n + 1 /\ Len(q) \in Nat /\ \A k \in 1..n : q[k] = p[k]
  BY <1>1
<1>3. PICK h : h = Along(v, p, first)
  OBVIOUS
<1>4. PICK g : g = Along(v, q, first)
  OBVIOUS
<1>5. h[0] = RootSet(v) /\ \A k \in 1..n : h[k] = Below(v, h[k - 1], p[k], first)
  BY <1>3, AlongSteps
<1>6. g[0] = RootSet(v) /\ \A k \in 1..(n + 1) : g[k] = Below(v, g[k - 1], q[k], first)
  BY <1>2, <1>4, AlongSteps
<1>7. PICK P : P = { k \in 0..n : g[k] = h[k] }
  OBVIOUS
<1>8. 0 \in P
  BY <1>5, <1>6, <1>7
<1>9. ASSUME NEW k \in 1..n, k - 1 \in P PROVE k \in P
  <2>1. g[k - 1] = h[k - 1] /\ q[k] = p[k] /\ k \in 1..(n + 1)
    BY <1>2, <1>7, <1>9
  <2> QED BY <1>5, <1>6, <1>7, <2>1
<1>10. n \in P
  <2>1. n \in 0..n
    OBVIOUS
  <2> QED BY <1>8, <1>9, <2>1, InductionUpTo
<1> QED BY <1>1, <1>3, <1>4, <1>7, <1>10

LEMMA NamedFirst ==
  ASSUME NEW v, NEW children, NEW X, children \in Seq(X), NEW name
  PROVE  LET same == SameName(v, children, name)
         IN  Named(v, children, name, TRUE) =
               IF same = {} THEN {} ELSE {children[Min(same)]}
<1>1. PICK same : same = SameName(v, children, name)
  OBVIOUS
<1>2. same \subseteq Nat
  BY <1>1 DEF SameName
<1>3. Named(v, children, name, TRUE) =
        { children[j] : j \in { j \in same : \A i \in same : j <= i } }
  BY <1>1 DEF Named
<1>4. CASE same = {}
  BY <1>1, <1>3, <1>4
<1>5. CASE same # {}
  <2>1. PICK m : m = Min(same)
    OBVIOUS
  <2>2. m \in same /\ \A k \in same : m <= k
    BY <1>2, <1>5, <2>1, MinOf
  <2>3. ASSUME NEW j \in same, \A i \in same : j <= i PROVE j = m
    <3>1. j <= m /\ m <= j /\ j \in Nat /\ m \in Nat
      BY <1>2, <2>2, <2>3
    <3> QED BY <3>1
  <2>4. { j \in same : \A i \in same : j <= i } = {m}
    BY <2>2, <2>3
  <2> QED BY <1>1, <1>3, <1>5, <2>1, <2>4
<1> QED BY <1>4, <1>5

\* The name lookup is at, and where it goes.
LEMMA FoundFacts ==
  ASSUME NEW children, NEW X, children \in Seq(X), NEW name
  PROVE  /\ Found(children, name) = 0 => SameName(vol, children, name) = {}
         /\ Found(children, name) # 0 =>
              /\ Found(children, name) \in SameName(vol, children, name)
              /\ Found(children, name) = Min(SameName(vol, children, name))
              /\ SameName(vol, children, name) # {}
<1>1. PICK same : same = SameName(vol, children, name)
  OBVIOUS
<1>2. same \subseteq Nat /\ 0 \notin same
  BY <1>1 DEF SameName
<1>3. same # {} => Min(same) \in same
  BY <1>2, MinOf
<1> QED BY <1>1, <1>2, <1>3 DEF Found


-----------------------------------------------------------------------------
(***************************************************************************)
(* Where a call has got to: d is an entry that the first k names of q lead *)
(* to, the only one if no read failed on the way.                          *)
(***************************************************************************)
Leads(v, q, k, d, failed) ==
  /\ ~BadRoot(v) /\ d \in Entry(v)
  /\ d \in Along(v, q, FALSE)[k]
  /\ failed = "none" => Along(v, q, TRUE)[k] = {d}

LEMMA RootLeads ==
  ASSUME NEW v, Volume(v), NEW q, Len(q) \in Nat, ~BadRoot(v), NEW failed
  PROVE  Leads(v, q, 0, RootEntry(v), failed)
<1>1. RootSet(v) = {RootEntry(v)}
  BY DEF RootSet, BadRoot
<1> QED BY <1>1, AlongSteps, RootEntryTyped DEF Leads

\* One more name: lookup finds what it leads to, or there is nothing.
LEMMA LeadsNext ==
  ASSUME Volume(vol), NEW q, Len(q) \in Nat, NEW i \in 0..(Len(q) - 1), NEW d, NEW failed,
         Leads(vol, q, i, d, failed), Enterable(vol, d),
         NEW lost, IsUdf(vol) \/ lost = {}
  PROVE  LET children == Children(vol, d.node, lost)
             k == Found(children, q[i + 1])
         IN  /\ k # 0 => Leads(vol, q, i + 1, children[k], IF lost = {} THEN failed ELSE "entry")
             /\ k = 0 /\ lost = {} /\ failed = "none" => Along(vol, q, TRUE)[Len(q)] = {}
<1> PICK n \in Nat : n = Len(q)
  OBVIOUS
<1> PICK name : name = q[i + 1]
  OBVIOUS
<1> PICK s : s = Children(vol, d.node, lost)
  OBVIOUS
<1> PICK r : r = Children(vol, d.node, {})
  OBVIOUS
<1> PICK k : k = Found(s, name)
  OBVIOUS
<1>1. i + 1 \in 1..n /\ i \in 0..n /\ (i + 1) - 1 = i /\ i + 1 \in 0..n
  OBVIOUS
<1>2. d.node \in DOMAIN vol.nodes
  BY DEF Leads, Entry
<1>3. s \in Seq(Entry(vol)) /\ r \in Seq(Entry(vol)) /\ Tree!Thinned(s, r)
  BY <1>2, ChildrenTyped, ChildrenThinned
<1>4. \A first : Along(vol, q, first)[i + 1] = Below(vol, Along(vol, q, first)[i], name, first)
  BY <1>1, AlongSteps
<1>5. Along(vol, q, FALSE)[i + 1] = Below(vol, Along(vol, q, FALSE)[i], name, FALSE)
  BY ONLY <1>4, Zenon
<1>6. Along(vol, q, TRUE)[i + 1] = Below(vol, Along(vol, q, TRUE)[i], name, TRUE)
  BY ONLY <1>4, Zenon
<1>7. PICK same : same = SameName(vol, s, name)
  OBVIOUS
<1>8. /\ k = 0 => same = {}
      /\ k # 0 => k \in same /\ k = Min(same) /\ same # {}
  BY <1>3, <1>7, FoundFacts
<1>9. Named(vol, s, name, TRUE) = IF same = {} THEN {} ELSE {s[Min(same)]}
  BY <1>3, <1>7, NamedFirst
<1>10. ASSUME k # 0
       PROVE  s[k] \in Entry(vol) /\ s[k] \in Along(vol, q, FALSE)[i + 1]
  <2>1. k \in SameName(vol, s, name)
    BY <1>7, <1>8, <1>10
  <2>2. k \in DOMAIN s /\ nameMatch(vol.kind, s[k], name)
    BY <2>1 DEF SameName
  <2>3. PICK j \in DOMAIN r : r[j] = s[k]
    BY <1>3, <2>2 DEF Tree!Thinned
  <2>4. j \in SameName(vol, r, name)
    BY <2>2, <2>3 DEF SameName
  <2>5. s[k] \in Named(vol, r, name, FALSE)
    BY <2>3, <2>4 DEF Named
  <2>6. d \in Along(vol, q, FALSE)[i]
    BY DEF Leads
  <2>7. s[k] \in Below(vol, Along(vol, q, FALSE)[i], name, FALSE)
    BY <2>5, <2>6 DEF Below
  <2>8. s[k] \in Entry(vol)
    BY <1>3, <2>2
  <2> QED BY <1>5, <2>7, <2>8
<1>11. ASSUME lost = {}, failed = "none"
       PROVE  Along(vol, q, TRUE)[i + 1] = Named(vol, s, name, TRUE)
  <2>1. Along(vol, q, TRUE)[i] = {d}
    BY <1>11 DEF Leads
  <2>2. Below(vol, {d}, name, TRUE) = Named(vol, s, name, TRUE)
    BY <1>11 DEF Below
  <2> QED BY <1>6, <2>1, <2>2
<1>12. ASSUME lost = {}, failed = "none", k # 0
       PROVE  Along(vol, q, TRUE)[i + 1] = {s[k]}
  BY <1>8, <1>9, <1>11, <1>12
<1>13. ASSUME lost = {}, failed = "none", k = 0
       PROVE  Along(vol, q, TRUE)[n] = {}
  <2>1. Along(vol, q, TRUE)[i + 1] = {}
    BY <1>8, <1>9, <1>11, <1>13
  <2> QED BY <1>1, <2>1, AlongNothing
<1>14. k # 0 => Leads(vol, q, i + 1, s[k], IF lost = {} THEN failed ELSE "entry")
  <2>1. ~BadRoot(vol)
    BY DEF Leads
  <2> QED BY <1>10, <1>12, <2>1 DEF Leads
<1> QED BY <1>13, <1>14

\* There is nothing below what is no directory.
LEMMA LeadsNowhere ==
  ASSUME NEW v, Volume(v), NEW q, Len(q) \in Nat, NEW i \in 0..(Len(q) - 1), NEW d,
         Leads(v, q, i, d, "none"), ~Enterable(v, d)
  PROVE  Along(v, q, TRUE)[Len(q)] = {}
<1>1. i + 1 \in 1..Len(q) /\ (i + 1) - 1 = i /\ i + 1 \in 0..Len(q)
  OBVIOUS
<1>2. Along(v, q, TRUE)[i + 1] = Below(v, {d}, q[i + 1], TRUE)
  <2>1. \A first : Along(v, q, first)[i + 1] = Below(v, Along(v, q, first)[i], q[i + 1], first)
    BY <1>1, AlongSteps
  <2>2. Along(v, q, TRUE)[i + 1] = Below(v, Along(v, q, TRUE)[i], q[i + 1], TRUE)
    BY ONLY <2>1, Zenon
  <2>3. Along(v, q, TRUE)[i] = {d}
    BY DEF Leads
  <2> QED BY <2>2, <2>3
<1>3. Below(v, {d}, q[i + 1], TRUE) = {}
  BY DEF Below
<1> QED BY <1>1, <1>2, <1>3, AlongNothing

-----------------------------------------------------------------------------
(***************************************************************************)
(* Which answers are justified.                                            *)
(***************************************************************************)
LEMMA NothingThere ==
  ASSUME NEW x, x.failed = "none", EntryAt(vol, x.path) = {}, Tree!Absent(x)
  PROVE  Tree!Justified(x)
BY DEF Tree!Justified, Tree!Right

LEMMA ChildLost ==
  ASSUME NEW x, x.failed = "entry", x.ret.st \in {"not_exist", "not_dir"}
  PROVE  Tree!Justified(x)
BY DEF Tree!Justified, Tree!Lacking

LEMMA EntryThere ==
  ASSUME NEW x, x.failed \in {"none", "entry"}, NEW e,
         Leads(vol, x.path, Len(x.path), e, x.failed), Tree!Of(x, e)
  PROVE  Tree!Justified(x)
<1>1. CASE x.failed = "none"
  <2>1. EntryAt(vol, x.path) = {e}
    BY <1>1 DEF Leads, EntryAt
  <2> QED BY <1>1, <2>1 DEF Tree!Justified, Tree!Right
<1>2. CASE x.failed = "entry"
  <2>1. e \in AnyAt(vol, x.path)
    BY DEF Leads, AnyAt
  <2> QED BY <1>2, <2>1 DEF Tree!Justified, Tree!Lacking
<1> QED BY <1>1, <1>2

LEMMA EntryLacking ==
  ASSUME NEW x, x.failed = "entry", NEW e,
         Leads(vol, x.path, Len(x.path), e, x.failed), Tree!Lacks(x, e)
  PROVE  Tree!Justified(x)
<1>1. e \in AnyAt(vol, x.path)
  BY DEF Leads, AnyAt
<1> QED BY <1>1 DEF Tree!Justified, Tree!Lacking

LEMMA ReadFailed ==
  ASSUME NEW x, x.failed = "read", x.ret.st = "io"
  PROVE  Tree!Justified(x)
BY DEF Tree!Justified

LEMMA MemoryShort ==
  ASSUME NEW x, x.failed = "memory", x.ret.st = "panic", HugeAlong(vol, x.path)
  PROVE  Tree!Justified(x)
BY DEF Tree!Justified


-----------------------------------------------------------------------------
(***************************************************************************)
(* The inductive invariant, part by part.                                  *)
(***************************************************************************)
Values(v) == Seq(Entry(v)) \cup Seq(DOMAIN v.nodes) \cup Seq(STRING)

Statuses ==
  {"ok", "not_exist", "not_dir", "is_dir", "not_link", "unsupported", "invalid", "io",
   "panic"}

Calls(v) ==
  [op : Methods \cup {"none", "HandleReadDir"}, path : Seq(Names), count : Int,
   pc : {"idle", "lookup", "list", "read", "done"}, i : Nat,
   node : DOMAIN v.nodes \cup {0}, failed : {"none", "entry", "read", "memory"},
   ret : [st : Statuses \cup {"none"}, val : Values(v)]]

\* What the client sees of the call c.
Client(c) ==
  [st     |-> CASE c.pc = "idle" -> "quiet"
                [] c.pc = "done" -> "answered"
                [] OTHER         -> "asked",
   op     |-> c.op, path |-> c.path, count |-> c.count,
   failed |-> IF c.pc = "done" THEN c.failed ELSE "none",
   ret    |-> c.ret]

CallTyped(c) ==
  /\ c \in Calls(vol) /\ c.i <= Len(c.path)
  /\ c.op # "HandleReadDir" => c.count = 0
  /\ c.failed = "entry" => IsUdf(vol)

\* A listing is of a directory, or of the root; a file's content is that of no
\* directory; and lookup only goes below directories.
MayDo(c, d) ==
  /\ c.pc = "lookup" => c.op \in Methods /\ (~IsUdf(vol) => d.isDir)
  /\ c.pc = "list" =>
       \/ c.op \in {"ReadDir", "HandleReadDir"} /\ d.isDir
       \/ c.op = "ReadDir" /\ c.path = <<>>
  /\ c.pc = "read" => c.op = "ReadFile" /\ ~d.isDir

\* The node of a call in progress is that of an entry its path leads to, or of
\* a root that is none.
Walking(c) ==
  /\ c.failed \in {"none", "entry"}
  /\ c.pc = "lookup" /\ c.i = Len(c.path) => IsUdf(vol) /\ c.path = <<>>
  /\ IF BadRoot(vol)
     THEN c.i = 0 /\ c.node = vol.root /\ c.failed = "none" /\ c.pc # "read"
          /\ (c.pc = "lookup" => c.op \in Methods)
     ELSE \E d \in Entry(vol) :
            /\ d.node = c.node /\ MayDo(c, d)
            /\ Leads(vol, c.path, IF c.pc = "lookup" THEN c.i ELSE Len(c.path), d, c.failed)

CallOK(c) ==
  /\ CallTyped(c) /\ (c.pc = "idle" => c.op = "none")
  /\ c.pc = "done" <=> c.ret.st # "none"
  /\ c.pc \in {"lookup", "list", "read"} => Walking(c)
  /\ c.pc = "done" => Tree!Justified(Client(c))
  /\ c.op = "Open" /\ c.ret.st = "ok" =>
       /\ c.failed \in {"none", "entry"}
       /\ Leads(vol, c.path, Len(c.path), c.ret.val[1], c.failed)

\* The path a handle was opened with leads to its entry.
HandleOK ==
  handle # <<>> =>
    \E h \in [path : Seq(Names), e : Entry(vol), failed : {"none", "entry"}] :
      /\ handle = <<h>> /\ Leads(vol, h.path, Len(h.path), h.e, h.failed)
      /\ h.failed = "entry" => IsUdf(vol)

\* A listing is of all the children of the directory its path leads to.
SeenOK ==
  /\ seen.path \in Seq(Names) /\ seen.node \in DOMAIN vol.nodes
  /\ seen.entries # <<>> =>
       /\ seen.entries = Children(vol, seen.node, {})
       /\ \E d \in Entry(vol) : /\ d.node = seen.node /\ (~IsUdf(vol) => d.isDir)
                                /\ Leads(vol, seen.path, Len(seen.path), d, "none")

Inv == vol \in Volumes /\ CallOK(call) /\ HandleOK /\ SeenOK

LEMMA VolumeOf == ASSUME vol \in Volumes PROVE Volume(vol)
BY VolumesAssumption

LEMMA AnsweredFacts ==
  ASSUME NEW c, CallTyped(c), NEW st \in Statuses, NEW val \in Values(vol)
  PROVE  LET d == Answered(c, st, val)
         IN  /\ CallTyped(d) /\ d.pc = "done" /\ d.ret = [st |-> st, val |-> val]
             /\ d.op = c.op /\ d.path = c.path /\ d.count = c.count /\ d.failed = c.failed
             /\ Client(d) = [st |-> "answered", op |-> c.op, path |-> c.path,
                             count |-> c.count, failed |-> c.failed,
                             ret |-> [st |-> st, val |-> val]]
<1>1. PICK r : r = [st |-> st, val |-> val]
  OBVIOUS
<1>2. r \in [st : Statuses \cup {"none"}, val : Values(vol)]
  BY <1>1
<1>3. PICK d : d = [c EXCEPT !.pc = "done", !.ret = r]
  OBVIOUS
<1>4. c \in Calls(vol)
  BY DEF CallTyped
<1>5. /\ d \in Calls(vol) /\ d.pc = "done" /\ d.ret = r /\ d.op = c.op /\ d.path = c.path
      /\ d.count = c.count /\ d.failed = c.failed /\ d.i = c.i
  BY <1>2, <1>3, <1>4 DEF Calls
<1>6. CallTyped(d)
  BY <1>5 DEF CallTyped
<1>7. Client(d) = [st |-> "answered", op |-> c.op, path |-> c.path,
                   count |-> c.count, failed |-> c.failed, ret |-> r]
  BY <1>5 DEF Client
<1>8. Answered(c, st, val) = d
  BY <1>1, <1>3 DEF Answered
<1> QED BY <1>1, <1>5, <1>6, <1>7, <1>8

\* An answer that is justified leaves the call in order.
LEMMA AnsweredOK ==
  ASSUME NEW c, CallTyped(c), NEW st \in Statuses, NEW val \in Values(vol),
         Tree!Justified([st |-> "answered", op |-> c.op, path |-> c.path, count |-> c.count,
                         failed |-> c.failed, ret |-> [st |-> st, val |-> val]]),
         c.op = "Open" /\ st = "ok" =>
           c.failed \in {"none", "entry"} /\ Leads(vol, c.path, Len(c.path), val[1], c.failed)
  PROVE  CallOK(Answered(c, st, val))
<1>1. PICK d : d = Answered(c, st, val)
  OBVIOUS
<1>2. PICK r : r = [st |-> st, val |-> val]
  OBVIOUS
<1>3. /\ CallTyped(d) /\ d.pc = "done" /\ d.ret = r
      /\ d.op = c.op /\ d.path = c.path /\ d.count = c.count /\ d.failed = c.failed
      /\ Client(d) = [st |-> "answered", op |-> c.op, path |-> c.path,
                      count |-> c.count, failed |-> c.failed, ret |-> r]
  BY <1>1, <1>2, AnsweredFacts
<1>4. r.st = st /\ r.val = val
  BY <1>2
<1>5. Tree!Justified(Client(d))
  BY <1>2, <1>3
<1>6. d.op = "Open" /\ d.ret.st = "ok" =>
        /\ d.failed \in {"none", "entry"}
        /\ Leads(vol, d.path, Len(d.path), d.ret.val[1], d.failed)
  BY <1>3, <1>4
<1>7. d.pc = "done" <=> d.ret.st # "none"
  BY <1>3, <1>4 DEF Statuses
<1> QED BY <1>1, <1>3, <1>5, <1>6, <1>7 DEF CallOK


\* The answers that a path leads to, and those of a path that leads nowhere.
Replied(c, st, val) ==
  [st |-> "answered", op |-> c.op, path |-> c.path, count |-> c.count,
   failed |-> c.failed, ret |-> [st |-> st, val |-> val]]

LEMMA EntryAnswered ==
  ASSUME NEW c, CallTyped(c), c.failed \in {"none", "entry"},
         NEW e, Leads(vol, c.path, Len(c.path), e, c.failed),
         NEW st \in Statuses, NEW val \in Values(vol), Tree!Of(Replied(c, st, val), e),
         c.op = "Open" /\ st = "ok" => val = <<e>>
  PROVE  CallOK(Answered(c, st, val))
<1>1. PICK x : x = Replied(c, st, val)
  OBVIOUS
<1>2. x.failed = c.failed /\ x.path = c.path
  BY <1>1 DEF Replied
<1>3. Tree!Justified(x)
  BY <1>1, <1>2, EntryThere
<1>4. c.op = "Open" /\ st = "ok" => Leads(vol, c.path, Len(c.path), val[1], c.failed)
  OBVIOUS
<1> QED BY <1>1, <1>3, <1>4, AnsweredOK DEF Replied

LEMMA NothingAnswered ==
  ASSUME NEW c, CallTyped(c), NEW st \in {"not_exist", "not_dir", "invalid", "unsupported"},
         c.failed \in {"none", "entry"},
         c.failed = "none" => EntryAt(vol, c.path) = {},
         c.failed = "entry" => st \in {"not_exist", "not_dir"}
  PROVE  CallOK(Answered(c, st, <<>>))
<1>1. PICK val : val = <<>>
  OBVIOUS
<1>2. val \in Values(vol) /\ st \in Statuses
  BY <1>1 DEF Values, Statuses
<1>3. PICK x : x = Replied(c, st, val)
  OBVIOUS
<1>4. x.failed = c.failed /\ x.path = c.path /\ x.ret.st = st
  BY <1>3 DEF Replied
<1>5. Tree!Justified(x)
  <2>1. CASE c.failed = "none"
    <3>1. Tree!Absent(x)
      BY <1>4 DEF Tree!Absent
    <3> QED BY <1>4, <2>1, <3>1, NothingThere
  <2>2. CASE c.failed = "entry"
    BY <1>4, <2>2, ChildLost
  <2> QED BY <2>1, <2>2
<1> QED BY <1>1, <1>2, <1>3, <1>5, AnsweredOK DEF Replied

LEMMA GivenOK ==
  ASSUME Volume(vol), NEW c, CallTyped(c), c.op \in Methods, c.failed \in {"none", "entry"},
         c.ret.st = "none", NEW e, Leads(vol, c.path, Len(c.path), e, c.failed)
  PROVE  CallOK(Given(c, e))
<1>1. /\ e \in Entry(vol) /\ e.isDir \in BOOLEAN /\ e.rrIsLink \in BOOLEAN
      /\ e.node \in DOMAIN vol.nodes /\ e.rrTarget \in Seq(STRING) /\ ~BadRoot(vol)
  BY DEF Leads, Entry
<1>2. PICK nil : nil = <<>>
  OBVIOUS
<1>3. nil \in Values(vol) /\ e.rrTarget \in Values(vol) /\ <<e>> \in Values(vol)
  BY <1>1, <1>2 DEF Values
<1>5. CASE c.op = "ReadFile" /\ e.isDir
  <2>1. Tree!Of(Replied(c, "is_dir", nil), e)
    <3>1. PICK x : x = Replied(c, "is_dir", nil)
      OBVIOUS
    <3>2. x.op = c.op /\ x.ret = [st |-> "is_dir", val |-> nil]
      BY <3>1 DEF Replied
    <3> QED BY <1>5, <3>1, <3>2 DEF Tree!Of, Tree!Listing
  <2>2. CallOK(Answered(c, "is_dir", nil))
    BY <1>3, <1>5, <2>1, EntryAnswered DEF Statuses
  <2> QED BY <1>2, <1>5, <2>2 DEF Given
<1>6. CASE c.op = "ReadFile" /\ ~e.isDir
  <2>1. PICK d : d = [c EXCEPT !.pc = "read", !.node = e.node]
    OBVIOUS
  <2>2. /\ d \in Calls(vol) /\ d.pc = "read" /\ d.op = c.op /\ d.path = c.path /\ d.i = c.i
        /\ d.count = c.count /\ d.failed = c.failed /\ d.node = e.node /\ d.ret = c.ret
    BY <1>1, <2>1 DEF Calls, CallTyped
  <2>3. CallTyped(d)
    BY <2>2 DEF CallTyped
  <2>4. Walking(d)
    BY <1>1, <1>6, <2>2 DEF Walking, MayDo
  <2>5. CallOK(d)
    BY <1>6, <2>2, <2>3, <2>4 DEF CallOK
  <2> QED BY <1>6, <2>1, <2>5 DEF Given
<1>7. CASE c.op = "ReadDir" /\ e.isDir
  <2>1. PICK d : d = [c EXCEPT !.pc = "list", !.node = e.node]
    OBVIOUS
  <2>2. /\ d \in Calls(vol) /\ d.pc = "list" /\ d.op = c.op /\ d.path = c.path /\ d.i = c.i
        /\ d.count = c.count /\ d.failed = c.failed /\ d.node = e.node /\ d.ret = c.ret
    BY <1>1, <2>1 DEF Calls, CallTyped
  <2>3. CallTyped(d)
    BY <2>2 DEF CallTyped
  <2>4. Walking(d)
    BY <1>1, <1>7, <2>2 DEF Walking, MayDo
  <2>5. CallOK(d)
    BY <1>7, <2>2, <2>3, <2>4 DEF CallOK
  <2> QED BY <1>7, <2>1, <2>5 DEF Given
<1>8. CASE c.op = "ReadDir" /\ ~e.isDir
  <2>1. Tree!Of(Replied(c, "not_dir", nil), e)
    <3>1. PICK x : x = Replied(c, "not_dir", nil)
      OBVIOUS
    <3>2. x.op = c.op /\ x.ret = [st |-> "not_dir", val |-> nil]
      BY <3>1 DEF Replied
    <3> QED BY <1>8, <3>1, <3>2 DEF Tree!Of, Tree!Listing
  <2>2. CallOK(Answered(c, "not_dir", nil))
    BY <1>3, <1>8, <2>1, EntryAnswered DEF Statuses
  <2> QED BY <1>2, <1>8, <2>2 DEF Given
<1>9. CASE c.op = "Readlink" /\ e.rrIsLink
  <2>1. PICK target : target = e.rrTarget
    OBVIOUS
  <2>2. Tree!Of(Replied(c, "ok", target), e)
    <3>1. PICK x : x = Replied(c, "ok", target)
      OBVIOUS
    <3>2. x.op = c.op /\ x.ret = [st |-> "ok", val |-> target]
      BY <3>1 DEF Replied
    <3> QED BY <1>9, <2>1, <3>1, <3>2 DEF Tree!Of, Tree!Listing, Tree!Ok
  <2>3. CallOK(Answered(c, "ok", target))
    BY <1>3, <1>9, <2>1, <2>2, EntryAnswered DEF Statuses
  <2> QED BY <1>9, <2>1, <2>3 DEF Given
<1>10. CASE c.op = "Readlink" /\ ~e.rrIsLink
  <2>1. Tree!Of(Replied(c, "not_link", nil), e)
    <3>1. PICK x : x = Replied(c, "not_link", nil)
      OBVIOUS
    <3>2. x.op = c.op /\ x.ret = [st |-> "not_link", val |-> nil]
      BY <3>1 DEF Replied
    <3> QED BY <1>10, <3>1, <3>2 DEF Tree!Of, Tree!Listing
  <2>2. CallOK(Answered(c, "not_link", nil))
    BY <1>3, <1>10, <2>1, EntryAnswered DEF Statuses
  <2> QED BY <1>2, <1>10, <2>2 DEF Given
<1>11. CASE c.op \in {"Stat", "Open"}
  <2>1. PICK val : val = <<e>>
    OBVIOUS
  <2>2. Tree!Of(Replied(c, "ok", val), e)
    <3>1. PICK x : x = Replied(c, "ok", val)
      OBVIOUS
    <3>2. x.op = c.op /\ x.ret = [st |-> "ok", val |-> val]
      BY <3>1 DEF Replied
    <3> QED BY <1>11, <2>1, <3>1, <3>2 DEF Tree!Of, Tree!Listing, Tree!Ok
  <2>3. CallOK(Answered(c, "ok", val))
    BY <1>3, <2>1, <2>2, EntryAnswered DEF Statuses
  <2> QED BY <1>11, <2>1, <2>3 DEF Given
<1> QED BY <1>1, <1>5, <1>6, <1>7, <1>8, <1>9, <1>10, <1>11 DEF Methods

\* A failing read, or a panic of make, ends the call.
LEMMA FailedOK ==
  ASSUME NEW c, CallTyped(c), NEW how, NEW st,
         \/ how = "read" /\ st = "io"
         \/ how = "memory" /\ st = "panic" /\ HugeAlong(vol, c.path)
  PROVE  CallOK(Answered([c EXCEPT !.failed = how], st, <<>>))
<1>1. PICK val : val = <<>>
  OBVIOUS
<1>2. val \in Values(vol) /\ st \in Statuses
  BY <1>1 DEF Values, Statuses
<1>3. PICK d : d = [c EXCEPT !.failed = how]
  OBVIOUS
<1>4. /\ d \in Calls(vol) /\ d.failed = how /\ d.path = c.path /\ d.i = c.i /\ d.op = c.op
      /\ d.count = c.count
  BY <1>3 DEF CallTyped, Calls
<1>5. CallTyped(d)
  BY <1>4 DEF CallTyped
<1>6. PICK x : x = Replied(d, st, val)
  OBVIOUS
<1>7. Tree!Justified(x)
  <2>1. x.failed = how /\ x.ret.st = st /\ x.path = c.path
    BY <1>4, <1>6 DEF Replied
  <2> QED BY <2>1, ReadFailed, MemoryShort
<1>8. CallOK(Answered(d, st, val))
  BY <1>2, <1>5, <1>6, <1>7, AnsweredOK DEF Replied
<1> QED BY <1>1, <1>3, <1>8


-----------------------------------------------------------------------------
(***************************************************************************)
(* The steps.                                                              *)
(***************************************************************************)
\* An answer is justified in the volume before a step if it is in that after.
LEMMA SameJustified ==
  ASSUME NEW x, x.failed \in {"none", "entry", "read", "memory"}, Client(call)' = x, vol' = vol
  PROVE  Tree!Justified(x) <=> Tree!Justified(Client(call))'
<1>1. \A e : Tree!Of(x, e) <=> Tree!Of(Client(call), e)'
  BY DEF Tree!Of, Tree!Listing, Tree!MayList
<1>2. \A e : Tree!Lacks(x, e) <=> Tree!Lacks(Client(call), e)'
  BY DEF Tree!Lacks, Tree!Listing, Tree!MayList
<1>3. Tree!Right(x) <=> Tree!Right(Client(call))'
  BY <1>1 DEF Tree!Right, Tree!Absent
<1>4. Tree!Lacking(x) <=> Tree!Lacking(Client(call))'
  BY <1>1, <1>2 DEF Tree!Lacking
<1> QED BY <1>3, <1>4 DEF Tree!Justified

\* What is so of c is so of the call that c has become.
LEMMA CallBecomes ==
  ASSUME NEW c, CallOK(c), call' = c, vol' = vol
  PROVE  CallOK(call)'
<1>1. CallTyped(call)'
  BY DEF CallOK, CallTyped
<1>2. Walking(c) => Walking(call)'
  BY DEF Walking, MayDo
<1>3. Tree!Justified(Client(c)) => Tree!Justified(Client(call))'
  <2>1. PICK x : x = Client(c)
    OBVIOUS
  <2>2. Client(call)' = x
    BY <2>1 DEF Client
  <2>3. x.failed \in {"none", "entry", "read", "memory"}
    BY <2>1 DEF Client, CallOK, CallTyped, Calls
  <2> QED BY <2>1, <2>2, <2>3, SameJustified
<1> QED BY <1>1, <1>2, <1>3 DEF CallOK

\* What is left to show of a step: that the call is as it should be after it,
\* and the listing remembered.
LEMMA StepOK ==
  ASSUME Inv, NEW c, CallOK(c), Step(c), SeenOK'
  PROVE  Inv'
<1>1. call' = c /\ vol' = vol
  BY DEF Step
<1>2. CallOK(call)'
  BY <1>1, CallBecomes
<1>3. HandleOK'
  <2>1. CASE c.op = "Open" /\ c.ret.st = "ok"
    <3>1. PICK h : h = [path |-> c.path, e |-> c.ret.val[1], failed |-> c.failed]
      OBVIOUS
    <3>2. handle' = <<h>>
      BY <2>1, <3>1 DEF Step
    <3>3. /\ c.failed \in {"none", "entry"} /\ c.path \in Seq(Names)
          /\ c.failed = "entry" => IsUdf(vol)
          /\ Leads(vol, c.path, Len(c.path), c.ret.val[1], c.failed)
      BY <2>1 DEF CallOK, CallTyped, Calls
    <3>4. c.ret.val[1] \in Entry(vol)
      BY <3>3 DEF Leads
    <3>5. /\ h \in [path : Seq(Names), e : Entry(vol), failed : {"none", "entry"}]
          /\ h.path = c.path /\ h.e = c.ret.val[1] /\ h.failed = c.failed
      BY <3>1, <3>3, <3>4
    <3>6. Leads(vol, h.path, Len(h.path), h.e, h.failed) /\ (h.failed = "entry" => IsUdf(vol))
      BY <3>3, <3>5
    <3> QED BY <1>1, <3>2, <3>5, <3>6 DEF HandleOK
  <2>2. CASE ~(c.op = "Open" /\ c.ret.st = "ok")
    <3>1. handle' = handle
      BY <2>2 DEF Step
    <3> QED BY <1>1, <3>1 DEF HandleOK, Inv
  <2> QED BY <2>1, <2>2
<1>4. (vol \in Volumes)'
  BY <1>1 DEF Inv
<1> QED BY <1>2, <1>3, <1>4 DEF Inv

LEMMA SeenKept ==
  ASSUME Inv, UNCHANGED <<vol, seen>>
  PROVE  SeenOK'
BY DEF Inv, SeenOK

LEMMA CleanRoot ==
  ASSUME NEW path \in Seq(Names), path \in {<<>>, <<Dot>>}
  PROVE  Clean(path) = <<>>
<1>1. PICK h : CleanRun(path, h) /\ Clean(path) = h[Len(path)]
  BY CleanedAll
<1>2. CASE path = <<>>
  BY <1>1, <1>2 DEF CleanRun
<1>3. CASE path = <<Dot>>
  <2>1. h[0] = <<>> /\ h[1] = Cleaned(h[0], Dot) /\ Clean(path) = h[1]
    BY <1>1, <1>3 DEF CleanRun
  <2>2. Cleaned(<<>>, Dot) = <<>>
    BY DEF Cleaned
  <2> QED BY <2>1, <2>2
<1> QED BY <1>2, <1>3

\* What the call is before it has looked at anything.
Fresh(op, path) == [Idle EXCEPT !.op = op, !.path = Clean(path), !.node = vol.root]

LEMMA FreshFacts ==
  ASSUME Inv, NEW op \in Methods, NEW path \in Paths
  PROVE  LET c == Fresh(op, path)
         IN  /\ CallTyped(c) /\ c.op = op /\ c.path = Clean(path) /\ c.node = vol.root
             /\ c.pc = "idle" /\ c.i = 0 /\ c.failed = "none" /\ c.ret.st = "none"
<1>1. Clean(path) \in Seq(Names)
  <2>1. path \in Seq(Names)
    BY VolumesAssumption DEF Names
  <2> QED BY <2>1, CleanIsPath
<1>2. PICK q \in Seq(Names) : q = Clean(path)
  BY <1>1
<1>3. vol.root \in DOMAIN vol.nodes
  BY VolumeOf DEF Inv, Volume
<1>4. PICK r : r = [st |-> "none", val |-> <<>>]
  OBVIOUS
<1>5. r \in [st : Statuses \cup {"none"}, val : Values(vol)] /\ r.st = "none"
  <2>1. PICK val : val = <<>>
    OBVIOUS
  <2>2. val \in Values(vol)
    BY <2>1 DEF Values
  <2> QED BY <1>4, <2>1, <2>2
<1>6. PICK d : d = Idle
  OBVIOUS
<1>7. PICK nil : nil = <<>>
  OBVIOUS
<1>8. nil \in Seq(Names)
  BY <1>7
<1>9. d = [op |-> "none", path |-> nil, count |-> 0, pc |-> "idle", i |-> 0,
           node |-> 0, failed |-> "none", ret |-> r]
  BY <1>4, <1>6, <1>7 DEF Idle
<1>10. /\ d \in Calls(vol) /\ d.pc = "idle" /\ d.i = 0 /\ d.count = 0 /\ d.failed = "none"
       /\ d.ret = r
  BY <1>5, <1>8, <1>9 DEF Calls
<1>11. PICK c : c = [d EXCEPT !.op = op, !.path = q, !.node = vol.root]
  OBVIOUS
<1>12. /\ c \in Calls(vol) /\ c.pc = "idle" /\ c.i = 0 /\ c.count = 0 /\ c.failed = "none"
       /\ c.ret = r /\ c.op = op /\ c.path = q /\ c.node = vol.root
  BY <1>3, <1>10, <1>11 DEF Calls
<1>13. CallTyped(c)
  BY <1>12 DEF CallTyped
<1>14. Fresh(op, path) = c
  BY <1>2, <1>6, <1>11 DEF Fresh
<1> QED BY <1>2, <1>5, <1>12, <1>13, <1>14


LEMMA CallPreserves ==
  ASSUME Inv, NEW op \in Methods, NEW path \in Paths, Call(op, path)
  PROVE  Inv'
<1>1. PICK c : c = Fresh(op, path)
  OBVIOUS
<1>2. /\ CallTyped(c) /\ c.op = op /\ c.path = Clean(path) /\ c.node = vol.root
      /\ c.pc = "idle" /\ c.i = 0 /\ c.failed = "none" /\ c.ret.st = "none"
      /\ c \in Calls(vol) /\ c.path \in Seq(Names) /\ Len(c.path) \in Nat
  <2>1. /\ CallTyped(c) /\ c.op = op /\ c.path = Clean(path) /\ c.node = vol.root
        /\ c.pc = "idle" /\ c.i = 0 /\ c.failed = "none" /\ c.ret.st = "none"
    BY <1>1, FreshFacts
  <2>2. c \in Calls(vol) /\ c.path \in Seq(Names)
    BY <2>1 DEF CallTyped, Calls
  <2> QED BY <2>1, <2>2
<1>3. Volume(vol) /\ vol.root \in DOMAIN vol.nodes
  BY VolumeOf DEF Inv, Volume
<1>4. ~BadRoot(vol) => /\ Leads(vol, c.path, 0, RootEntry(vol), "none")
                       /\ RootEntry(vol) \in Entry(vol) /\ RootEntry(vol).node = vol.root
                       /\ ~IsUdf(vol) => RootEntry(vol).isDir
  BY <1>2, <1>3, RootLeads, RootEntryTyped
<1>5. SeenOK'
  BY SeenKept DEF Call, Step
<1>6. Step(IF op = "Readlink" /\ vol.kind # "rockridge"
           THEN Answered(c, "unsupported", <<>>)
           ELSE IF op = "ReadDir" /\ path \in {<<>>, <<Dot>>}
           THEN [c EXCEPT !.pc = "list"]
           ELSE IF c.path = <<>> /\ ~IsUdf(vol) THEN Given(c, RootEntry(vol))
           ELSE [c EXCEPT !.pc = "lookup"])
  BY <1>1 DEF Call, Fresh
<1>7. CASE op = "Readlink" /\ vol.kind # "rockridge"
  <2>1. PICK nil : nil = <<>>
    OBVIOUS
  <2>2. PICK x : x = Replied(c, "unsupported", nil)
    OBVIOUS
  <2>3. x.failed = "none" /\ x.op = "Readlink" /\ x.path = c.path /\ x.ret.st = "unsupported"
    BY <1>2, <1>7, <2>2 DEF Replied
  <2>4. ASSUME NEW e \in EntryAt(vol, x.path) PROVE Tree!Of(x, e)
    <3>1. EntryAt(vol, x.path) \in SUBSET Entry(vol)
      <4>1. Along(vol, c.path, TRUE) \in [0..Len(c.path) -> SUBSET Entry(vol)]
        BY <1>2, <1>3, AlongFacts
      <4>2. Len(c.path) \in 0..Len(c.path)
        BY <1>2
      <4> QED BY <2>3, <4>1, <4>2 DEF EntryAt
    <3>2. ~e.rrIsLink
      BY <1>7, <3>1 DEF Entry
    <3> QED BY <2>3, <3>2 DEF Tree!Of, Tree!Listing
  <2>5. Tree!Absent(x)
    BY <2>3 DEF Tree!Absent
  <2>6. Tree!Justified(x)
    BY <2>3, <2>4, <2>5 DEF Tree!Justified, Tree!Right
  <2>7. nil \in Values(vol) /\ "unsupported" \in Statuses
    BY <2>1 DEF Values, Statuses
  <2>8. CallOK(Answered(c, "unsupported", nil))
    BY <1>2, <2>2, <2>6, <2>7, AnsweredOK DEF Replied
  <2> QED BY <1>5, <1>6, <1>7, <2>1, <2>8, StepOK
<1>8. CASE op = "ReadDir" /\ path \in {<<>>, <<Dot>>}
  <2>1. c.path = <<>> /\ Len(c.path) = 0
    <3>1. path \in Seq(Names)
      BY VolumesAssumption DEF Names
    <3> QED BY <1>2, <1>8, <3>1, CleanRoot
  <2>2. PICK d : d = [c EXCEPT !.pc = "list"]
    OBVIOUS
  <2>3. /\ d \in Calls(vol) /\ d.pc = "list" /\ d.op = op /\ d.path = c.path /\ d.i = 0
        /\ d.count = c.count /\ d.failed = "none" /\ d.node = vol.root /\ d.ret = c.ret
    BY <1>2, <2>2 DEF Calls
  <2>4. CallTyped(d)
    BY <1>2, <2>3 DEF CallTyped
  <2>5. Walking(d)
    BY <1>4, <1>8, <2>1, <2>3 DEF Walking, MayDo
  <2>6. CallOK(d)
    BY <1>2, <1>8, <2>3, <2>4, <2>5 DEF CallOK
  <2> QED BY <1>5, <1>6, <1>8, <2>2, <2>6, StepOK
<1>9. CASE /\ ~(op = "Readlink" /\ vol.kind # "rockridge")
           /\ ~(op = "ReadDir" /\ path \in {<<>>, <<Dot>>})
  <2>1. CASE c.path = <<>> /\ ~IsUdf(vol)
    <3>1. Len(c.path) = 0 /\ ~BadRoot(vol)
      BY <2>1 DEF BadRoot
    <3>2. CallOK(Given(c, RootEntry(vol)))
      BY <1>2, <1>3, <1>4, <3>1, GivenOK
    <3> QED BY <1>5, <1>6, <1>9, <2>1, <3>2, StepOK
  <2>2. CASE ~(c.path = <<>> /\ ~IsUdf(vol))
    <3>1. PICK d : d = [c EXCEPT !.pc = "lookup"]
      OBVIOUS
    <3>2. /\ d \in Calls(vol) /\ d.pc = "lookup" /\ d.op = op /\ d.path = c.path /\ d.i = 0
          /\ d.count = c.count /\ d.failed = "none" /\ d.node = vol.root /\ d.ret = c.ret
      BY <1>2, <3>1 DEF Calls
    <3>3. CallTyped(d)
      BY <1>2, <3>2 DEF CallTyped
    <3>4. d.i = Len(d.path) => IsUdf(vol) /\ d.path = <<>>
      BY <1>2, <2>2, <3>2
    <3>5. Walking(d)
      BY <1>4, <3>2, <3>4 DEF Walking, MayDo
    <3>6. CallOK(d)
      BY <1>2, <3>2, <3>3, <3>5 DEF CallOK
    <3> QED BY <1>5, <1>6, <1>9, <2>2, <3>1, <3>6, StepOK
  <2> QED BY <2>1, <2>2
<1> QED BY <1>7, <1>8, <1>9

LEMMA HandleReadDirPreserves ==
  ASSUME Inv, NEW n \in Counts, HandleReadDir(n)
  PROVE  Inv'
<1>1. PICK h \in [path : Seq(Names), e : Entry(vol), failed : {"none", "entry"}] :
        /\ handle = <<h>> /\ Leads(vol, h.path, Len(h.path), h.e, h.failed)
        /\ h.failed = "entry" => IsUdf(vol)
  BY DEF HandleReadDir, Inv, HandleOK
<1>2. PICK c : c = [Idle EXCEPT !.op = "HandleReadDir", !.path = h.path, !.count = n,
                                !.node = h.e.node, !.failed = h.failed]
  OBVIOUS
<1>3. /\ c \in Calls(vol) /\ c.pc = "idle" /\ c.i = 0 /\ c.count = n /\ c.failed = h.failed
      /\ c.op = "HandleReadDir" /\ c.path = h.path /\ c.node = h.e.node /\ c.ret.st = "none"
  <2>1. n \in Int /\ h.e.node \in DOMAIN vol.nodes
    BY VolumesAssumption DEF Entry
  <2>2. PICK nil : nil = <<>>
    OBVIOUS
  <2>3. nil \in Seq(Names) /\ nil \in Values(vol)
    BY <2>2 DEF Values
  <2>4. PICK r : r = [st |-> "none", val |-> nil]
    OBVIOUS
  <2>5. r \in [st : Statuses \cup {"none"}, val : Values(vol)] /\ r.st = "none"
    BY <2>3, <2>4
  <2>6. PICK d : d = Idle
    OBVIOUS
  <2>7. d = [op |-> "none", path |-> nil, count |-> 0, pc |-> "idle", i |-> 0,
             node |-> 0, failed |-> "none", ret |-> r]
    BY <2>2, <2>4, <2>6 DEF Idle
  <2>8. d \in Calls(vol) /\ d.pc = "idle" /\ d.i = 0 /\ d.ret = r
    BY <2>3, <2>5, <2>7 DEF Calls
  <2>9. c = [d EXCEPT !.op = "HandleReadDir", !.path = h.path, !.count = n,
                      !.node = h.e.node, !.failed = h.failed]
    BY <1>2, <2>6
  <2> QED BY <2>1, <2>5, <2>8, <2>9 DEF Calls
<1>4. CallTyped(c) /\ Len(h.path) \in Nat
  <2>1. h.path \in Seq(Names)
    OBVIOUS
  <2>2. Len(h.path) \in Nat
    BY <2>1
  <2> QED BY <1>1, <1>3, <2>2 DEF CallTyped
<1>5. SeenOK'
  BY SeenKept DEF HandleReadDir, Step
<1>6. Step(IF h.e.isDir THEN [c EXCEPT !.pc = "list"] ELSE Answered(c, "not_dir", <<>>))
  BY <1>1, <1>2 DEF HandleReadDir
<1>7. CASE h.e.isDir
  <2>1. PICK d : d = [c EXCEPT !.pc = "list"]
    OBVIOUS
  <2>2. /\ d \in Calls(vol) /\ d.pc = "list" /\ d.op = c.op /\ d.path = h.path /\ d.i = 0
        /\ d.count = n /\ d.failed = h.failed /\ d.node = h.e.node /\ d.ret = c.ret
    BY <1>3, <2>1 DEF Calls
  <2>3. CallTyped(d)
    BY <1>3, <1>4, <2>2 DEF CallTyped
  <2>4. MayDo(d, h.e)
    BY <1>3, <1>7, <2>2 DEF MayDo
  <2>5. ~BadRoot(vol) /\ h.e \in Entry(vol) /\ h.failed \in {"none", "entry"}
    BY <1>1 DEF Leads
  <2>6. Walking(d)
    BY <1>1, <2>2, <2>4, <2>5 DEF Walking
  <2>7. CallOK(d)
    BY <1>3, <2>2, <2>3, <2>6 DEF CallOK
  <2> QED BY <1>5, <1>6, <1>7, <2>1, <2>7, StepOK
<1>8. CASE ~h.e.isDir
  <2>1. PICK nil : nil = <<>>
    OBVIOUS
  <2>2. nil \in Values(vol) /\ "not_dir" \in Statuses /\ c.failed \in {"none", "entry"}
    BY <1>3, <2>1 DEF Values, Statuses
  <2>3. PICK x : x = Replied(c, "not_dir", nil)
    OBVIOUS
  <2>4. x.op = "HandleReadDir" /\ x.ret.st = "not_dir"
    BY <1>3, <2>3 DEF Replied
  <2>5. Tree!Of(x, h.e)
    BY <1>8, <2>4 DEF Tree!Of, Tree!Listing
  <2>6. CallOK(Answered(c, "not_dir", nil))
    BY <1>1, <1>3, <1>4, <2>2, <2>3, <2>5, EntryAnswered
  <2> QED BY <1>5, <1>6, <1>8, <2>1, <2>6, StepOK
<1> QED BY <1>7, <1>8


LEMMA InProgress ==
  ASSUME Inv, call.pc \in {"lookup", "list", "read"}
  PROVE  /\ Volume(vol) /\ CallTyped(call) /\ Walking(call) /\ call.ret.st = "none"
         /\ call \in Calls(vol) /\ call.path \in Seq(Names) /\ Len(call.path) \in Nat
         /\ call.i \in 0..Len(call.path)
         /\ call.failed \in {"none", "entry"} /\ (call.failed = "entry" => IsUdf(vol))
<1>1. Volume(vol) /\ CallTyped(call) /\ Walking(call) /\ call.ret.st = "none"
  BY VolumeOf DEF Inv, CallOK
<1>2. call \in Calls(vol) /\ call.path \in Seq(Names) /\ call.i \in Nat
  BY <1>1 DEF CallTyped, Calls
<1>3. Len(call.path) \in Nat
  BY <1>2
<1>4. call.i \in 0..Len(call.path)
  BY <1>1, <1>2, <1>3 DEF CallTyped
<1>5. call.failed \in {"none", "entry"} /\ (call.failed = "entry" => IsUdf(vol))
  BY <1>1 DEF Walking, CallTyped
<1> QED BY <1>1, <1>2, <1>3, <1>4, <1>5

\* A call that is not at a root that is none is at an entry of the volume.
LEMMA AtEntry ==
  ASSUME Inv, call.pc \in {"lookup", "list", "read"}, ~Unparsable
  PROVE  \E d \in Entry(vol) :
           /\ d.node = call.node /\ MayDo(call, d)
           /\ Leads(vol, call.path, IF call.pc = "lookup" THEN call.i ELSE Len(call.path),
                    d, call.failed)
<1>1. ~BadRoot(vol)
  BY InProgress DEF Walking, Unparsable, BadRoot
<1> QED BY <1>1, InProgress DEF Walking

LEMMA LookupInvalidPreserves ==
  ASSUME Inv, LookupInvalid
  PROVE  Inv'
<1>1. call.pc \in {"lookup", "list", "read"}
  BY DEF LookupInvalid
<1>2. BadRoot(vol)
  <2> SUFFICES ASSUME ~BadRoot(vol) PROVE FALSE
    OBVIOUS
  <2>1. PICK d \in Entry(vol) : d.node = call.node
    BY <1>1, InProgress DEF Walking
  <2> QED BY <2>1 DEF Entry, LookupInvalid, Unparsable
<1>3. call.failed = "none"
  BY <1>1, <1>2, InProgress DEF Walking
<1>4. EntryAt(vol, call.path) = {}
  <2>1. Along(vol, call.path, TRUE)[0] = {}
    <3>1. \A first : Along(vol, call.path, first)[0] = RootSet(vol)
      BY <1>1, InProgress, AlongSteps
    <3>2. Along(vol, call.path, TRUE)[0] = RootSet(vol)
      BY ONLY <3>1, Zenon
    <3> QED BY <1>2, <3>2 DEF RootSet, BadRoot
  <2>2. 0 \in 0..Len(call.path)
    BY <1>1, InProgress
  <2>3. Along(vol, call.path, TRUE)[Len(call.path)] = {}
    BY <1>1, <2>1, <2>2, InProgress, AlongNothing
  <2> QED BY <2>3 DEF EntryAt
<1>5. CallOK(Answered(call, "invalid", <<>>))
  BY <1>1, <1>3, <1>4, InProgress, NothingAnswered
<1>6. SeenOK'
  BY SeenKept DEF LookupInvalid, Step
<1> QED BY <1>5, <1>6, StepOK DEF LookupInvalid

LEMMA LookupRootPreserves ==
  ASSUME Inv, LookupRoot
  PROVE  Inv'
<1>1. call.pc = "lookup" /\ ~Unparsable /\ call.i = Len(call.path)
  BY DEF LookupRoot
<1>2. IsUdf(vol) /\ call.path = <<>> /\ Len(call.path) = 0
  BY <1>1, InProgress DEF Walking
<1>3. PICK d \in Entry(vol) : MayDo(call, d) /\ Leads(vol, call.path, 0, d, call.failed)
  BY <1>1, <1>2, AtEntry
<1>4. d = RootEntry(vol)
  <2>1. Along(vol, call.path, FALSE)[0] = RootSet(vol)
    <3>1. \A first : Along(vol, call.path, first)[0] = RootSet(vol)
      BY <1>1, InProgress, AlongSteps
    <3> QED BY ONLY <3>1, Zenon
  <2>2. d \in RootSet(vol)
    BY <1>3, <2>1 DEF Leads
  <2> QED BY <2>2 DEF RootSet
<1>5. CallOK(Given(call, RootEntry(vol)))
  <2>1. call.op \in Methods
    BY <1>1, <1>3 DEF MayDo
  <2> QED BY <1>1, <1>2, <1>3, <1>4, <2>1, InProgress, GivenOK
<1>6. SeenOK'
  BY SeenKept DEF LookupRoot, Step
<1> QED BY <1>5, <1>6, StepOK DEF LookupRoot

LEMMA LookupNotDirPreserves ==
  ASSUME Inv, LookupNotDir
  PROVE  Inv'
<1>1. /\ call.pc = "lookup" /\ IsUdf(vol) /\ vol.nodes[call.node].type = "file"
      /\ call.i < Len(call.path) /\ ~Unparsable
  BY DEF LookupNotDir, Unparsable
<1>2. PICK d \in Entry(vol) : d.node = call.node /\ Leads(vol, call.path, call.i, d, call.failed)
  BY <1>1, AtEntry
<1>3. ~Enterable(vol, d)
  BY <1>1, <1>2 DEF Enterable
<1>4. call.failed = "none" => EntryAt(vol, call.path) = {}
  <2> SUFFICES ASSUME call.failed = "none" PROVE EntryAt(vol, call.path) = {}
    OBVIOUS
  <2>1. call.i \in 0..(Len(call.path) - 1)
    BY <1>1, InProgress
  <2>2. Leads(vol, call.path, call.i, d, "none")
    BY <1>2
  <2>3. Volume(vol) /\ Len(call.path) \in Nat
    BY <1>1, InProgress
  <2>4. Along(vol, call.path, TRUE)[Len(call.path)] = {}
    BY <1>3, <2>1, <2>2, <2>3, LeadsNowhere
  <2> QED BY <2>4 DEF EntryAt
<1>5. CallOK(Answered(call, "not_dir", <<>>))
  BY <1>1, <1>4, InProgress, NothingAnswered
<1>6. SeenOK'
  BY SeenKept DEF LookupNotDir, Step
<1> QED BY <1>5, <1>6, StepOK DEF LookupNotDir

LEMMA NotingFacts ==
  ASSUME Inv, call.pc \in {"lookup", "list", "read"}, NEW lost \in Losses(call.node)
  PROVE  LET c == Noting(lost)
         IN  /\ c \in Calls(vol) /\ CallTyped(c)
             /\ c.failed = (IF lost = {} THEN call.failed ELSE "entry")
             /\ c.failed \in {"none", "entry"} /\ c.ret = call.ret /\ c.ret.st = "none"
             /\ c.op = call.op /\ c.path = call.path /\ c.count = call.count /\ c.pc = call.pc
             /\ c.i = call.i /\ c.node = call.node
             /\ IsUdf(vol) \/ lost = {}
<1>1. IsUdf(vol) \/ lost = {}
  BY DEF Losses
<1>2. CASE lost = {}
  BY <1>1, <1>2, InProgress DEF Noting
<1>3. CASE lost # {}
  <2>1. PICK c : c = [call EXCEPT !.failed = "entry"]
    OBVIOUS
  <2>2. call \in Calls(vol) /\ CallTyped(call) /\ call.ret.st = "none"
    BY InProgress
  <2>3. /\ c \in Calls(vol) /\ c.failed = "entry" /\ c.ret = call.ret /\ c.op = call.op
        /\ c.path = call.path /\ c.count = call.count /\ c.pc = call.pc /\ c.i = call.i
        /\ c.node = call.node
    BY <2>1, <2>2 DEF Calls
  <2>4. CallTyped(c)
    BY <1>1, <1>3, <2>2, <2>3 DEF CallTyped
  <2>5. Noting(lost) = c
    BY <1>3, <2>1 DEF Noting
  <2> QED BY <1>1, <1>3, <2>2, <2>3, <2>4, <2>5
<1> QED BY <1>2, <1>3

\* In a directory, lookup is at an entry it may go below.
LEMMA AtDirectory ==
  ASSUME Inv, InDirectory
  PROVE  /\ call.pc = "lookup" /\ call.i \in 0..(Len(call.path) - 1) /\ call.op \in Methods
         /\ \E d \in Entry(vol) :
              /\ d.node = call.node /\ Enterable(vol, d)
              /\ Leads(vol, call.path, call.i, d, call.failed)
<1>1. call.pc = "lookup" /\ ~Unparsable
  BY DEF InDirectory, Unparsable
<1>2. call.i \in 0..(Len(call.path) - 1)
  BY <1>1, InProgress DEF InDirectory
<1>3. PICK d \in Entry(vol) : /\ d.node = call.node /\ MayDo(call, d)
                              /\ Leads(vol, call.path, call.i, d, call.failed)
  BY <1>1, AtEntry
<1>4. Enterable(vol, d) /\ call.op \in Methods
  BY <1>1, <1>3 DEF Enterable, MayDo, InDirectory
<1> QED BY <1>1, <1>2, <1>3, <1>4

LEMMA LookupAbsentPreserves ==
  ASSUME Inv, NEW lost \in Losses(call.node), LookupAbsent(lost)
  PROVE  Inv'
<1>1. InDirectory /\ call.pc = "lookup" /\ call.i \in 0..(Len(call.path) - 1)
  BY AtDirectory DEF LookupAbsent
<1>2. PICK d \in Entry(vol) : /\ d.node = call.node /\ Enterable(vol, d)
                              /\ Leads(vol, call.path, call.i, d, call.failed)
  BY <1>1, AtDirectory
<1>3. PICK c : c = Noting(lost)
  OBVIOUS
<1>4. /\ CallTyped(c) /\ c.failed = (IF lost = {} THEN call.failed ELSE "entry")
      /\ c.failed \in {"none", "entry"} /\ c.path = call.path /\ (IsUdf(vol) \/ lost = {})
  BY <1>1, <1>3, NotingFacts
<1>5. Found(Children(vol, d.node, lost), call.path[call.i + 1]) = 0
  BY <1>2 DEF LookupAbsent, Part
<1>6. lost = {} /\ call.failed = "none" => Along(vol, call.path, TRUE)[Len(call.path)] = {}
  BY <1>1, <1>2, <1>4, <1>5, InProgress, LeadsNext
<1>7. c.failed = "none" => EntryAt(vol, c.path) = {}
  BY <1>4, <1>6 DEF EntryAt
<1>8. CallOK(Answered(c, "not_exist", <<>>))
  BY <1>4, <1>7, NothingAnswered
<1>9. SeenOK'
  BY SeenKept DEF LookupAbsent, Step
<1> QED BY <1>3, <1>8, <1>9, StepOK DEF LookupAbsent

LEMMA LookupNextPreserves ==
  ASSUME Inv, NEW lost \in Losses(call.node), LookupNext(lost)
  PROVE  Inv'
<1>1. /\ InDirectory /\ call.pc = "lookup" /\ call.i \in 0..(Len(call.path) - 1)
      /\ call.op \in Methods
  BY AtDirectory DEF LookupNext
<1>2. PICK d \in Entry(vol) : /\ d.node = call.node /\ Enterable(vol, d)
                              /\ Leads(vol, call.path, call.i, d, call.failed)
  BY <1>1, AtDirectory
<1>3. PICK c : c = Noting(lost)
  OBVIOUS
<1>4. /\ CallTyped(c) /\ c.failed = (IF lost = {} THEN call.failed ELSE "entry")
      /\ c.failed \in {"none", "entry"} /\ (IsUdf(vol) \/ lost = {}) /\ c.path = call.path
      /\ c.op = call.op /\ c.i = call.i /\ c.pc = "lookup" /\ c.ret.st = "none" /\ c \in Calls(vol)
  BY <1>1, <1>3, NotingFacts
<1>5. PICK k : k = Found(Children(vol, d.node, lost), call.path[call.i + 1])
  OBVIOUS
<1>6. PICK e : e = Children(vol, d.node, lost)[k]
  OBVIOUS
<1>7. k # 0 /\ Step(IF c.i + 1 = Len(c.path) THEN Given(c, e)
                    ELSE IF IsUdf(vol) \/ e.isDir
                    THEN [c EXCEPT !.i = @ + 1, !.node = e.node]
                    ELSE Answered(c, "not_dir", <<>>))
  BY <1>2, <1>3, <1>5, <1>6 DEF LookupNext, Part
<1>8. Leads(vol, c.path, c.i + 1, e, c.failed)
  <2>1. Leads(vol, call.path, call.i + 1, e, IF lost = {} THEN call.failed ELSE "entry")
    BY <1>1, <1>2, <1>4, <1>5, <1>6, <1>7, InProgress, LeadsNext
  <2> QED BY <1>4, <2>1
<1>9. SeenOK'
  BY SeenKept DEF LookupNext, Step
<1>10. Volume(vol) /\ Len(c.path) \in Nat /\ c.i + 1 \in 1..Len(c.path) /\ c.i \in Nat
  BY <1>1, <1>4, InProgress
<1>11. CASE c.i + 1 = Len(c.path)
  <2>1. CallOK(Given(c, e))
    BY <1>1, <1>4, <1>8, <1>10, <1>11, GivenOK
  <2> QED BY <1>7, <1>9, <1>11, <2>1, StepOK
<1>12. CASE c.i + 1 # Len(c.path) /\ (IsUdf(vol) \/ e.isDir)
  <2>1. e \in Entry(vol) /\ e.node \in DOMAIN vol.nodes /\ ~BadRoot(vol)
    BY <1>8 DEF Leads, Entry
  <2>2. PICK b : b = [c EXCEPT !.i = @ + 1, !.node = e.node]
    OBVIOUS
  <2>3. /\ b \in Calls(vol) /\ b.pc = "lookup" /\ b.op = c.op /\ b.path = c.path /\ b.i = c.i + 1
        /\ b.count = c.count /\ b.failed = c.failed /\ b.node = e.node /\ b.ret = c.ret
    <3>1. PICK i \in Nat : i = c.i + 1
      BY <1>10
    <3>2. b = [c EXCEPT !.i = i, !.node = e.node]
      BY <1>4, <2>2, <3>1 DEF Calls
    <3> QED BY <1>4, <2>1, <3>1, <3>2 DEF Calls
  <2>4. CallTyped(b) /\ b.i # Len(b.path)
    BY <1>4, <1>10, <1>12, <2>3 DEF CallTyped
  <2>5. MayDo(b, e)
    BY <1>1, <1>4, <1>12, <2>3 DEF MayDo
  <2>6. Walking(b)
    BY <1>4, <1>8, <2>1, <2>3, <2>4, <2>5 DEF Walking
  <2>7. CallOK(b)
    BY <1>4, <2>3, <2>4, <2>6 DEF CallOK
  <2> QED BY <1>7, <1>9, <1>12, <2>2, <2>7, StepOK
<1>13. CASE c.i + 1 # Len(c.path) /\ ~(IsUdf(vol) \/ e.isDir)
  <2>1. ~Enterable(vol, e) /\ c.failed = "none"
    BY <1>4, <1>13 DEF Enterable, CallTyped
  <2>2. c.i + 1 \in 0..(Len(c.path) - 1)
    BY <1>10, <1>13
  <2>3. Leads(vol, c.path, c.i + 1, e, "none")
    BY <1>8, <2>1
  <2>4. EntryAt(vol, c.path) = {}
    <3>1. Along(vol, c.path, TRUE)[Len(c.path)] = {}
      BY <1>10, <2>1, <2>2, <2>3, LeadsNowhere
    <3> QED BY <3>1 DEF EntryAt
  <2>5. CallOK(Answered(c, "not_dir", <<>>))
    BY <1>4, <2>1, <2>4, NothingAnswered
  <2> QED BY <1>7, <1>9, <1>13, <2>5, StepOK
<1> QED BY <1>11, <1>12, <1>13


\* What ReadDir of a handle keeps of a thinned listing is thinned too.
LEMMA FirstFacts ==
  ASSUME NEW X, NEW s \in Seq(X), NEW r, Tree!Thinned(s, r), NEW n \in Int
  PROVE  /\ FirstOf(s, n) \in Seq(X) /\ Tree!Thinned(FirstOf(s, n), r)
         /\ n > 0 => Len(FirstOf(s, n)) <= n
<1>1. Len(s) \in Nat /\ DOMAIN s = 1..Len(s)
  OBVIOUS
<1>2. CASE n > 0 /\ n < Len(s)
  <2>1. PICK t : t = SubSeq(s, 1, n)
    OBVIOUS
  <2>2. t \in Seq(X) /\ Len(t) = n /\ DOMAIN t = 1..n /\ \A i \in 1..n : t[i] = s[i]
    BY <1>1, <1>2, <2>1
  <2>3. PICK kept \in SUBSET DOMAIN r : \E at \in [DOMAIN s -> kept] :
          /\ \A i, j \in DOMAIN s : i < j => at[i] < at[j]
          /\ \A i \in DOMAIN s : s[i] = r[at[i]]
    BY DEF Tree!Thinned
  <2>4. PICK at \in [DOMAIN s -> kept] :
          /\ \A i, j \in DOMAIN s : i < j => at[i] < at[j]
          /\ \A i \in DOMAIN s : s[i] = r[at[i]]
    BY <2>3
  <2>5. \A i \in 1..n : i \in DOMAIN s
    BY <1>1, <1>2
  <2>6. PICK as : as = [i \in 1..n |-> at[i]]
    OBVIOUS
  <2>7. as \in [DOMAIN t -> kept]
    BY <2>2, <2>4, <2>5, <2>6
  <2>8. /\ \A i, j \in DOMAIN t : i < j => as[i] < as[j]
        /\ \A i \in DOMAIN t : t[i] = r[as[i]]
    BY <2>2, <2>4, <2>5, <2>6
  <2>9. Tree!Thinned(t, r)
    BY <2>7, <2>8 DEF Tree!Thinned
  <2> QED BY <1>2, <2>1, <2>2, <2>9 DEF FirstOf
<1>3. CASE ~(n > 0 /\ n < Len(s))
  BY <1>1, <1>3 DEF FirstOf
<1> QED BY <1>2, <1>3

LEMMA ListPreserves ==
  ASSUME Inv, NEW lost \in Losses(call.node), List(lost)
  PROVE  Inv'
<1>1. call.pc = "list" /\ ~Unparsable
  BY DEF List
<1>2. PICK d \in Entry(vol) : /\ d.node = call.node /\ MayDo(call, d)
                              /\ Leads(vol, call.path, Len(call.path), d, call.failed)
  BY <1>1, AtEntry
<1>3. PICK c : c = Noting(lost)
  OBVIOUS
<1>4. /\ CallTyped(c) /\ c.failed = (IF lost = {} THEN call.failed ELSE "entry")
      /\ c.failed \in {"none", "entry"} /\ (IsUdf(vol) \/ lost = {}) /\ c.path = call.path
      /\ c.op = call.op /\ c.count = call.count /\ c.count \in Int /\ c \in Calls(vol)
  <2>1. /\ CallTyped(c) /\ c.failed = (IF lost = {} THEN call.failed ELSE "entry")
        /\ c.failed \in {"none", "entry"} /\ (IsUdf(vol) \/ lost = {}) /\ c.path = call.path
        /\ c.op = call.op /\ c.count = call.count /\ c \in Calls(vol)
    BY <1>1, <1>3, NotingFacts
  <2> QED BY <2>1 DEF Calls
<1>5. PICK s : s = Children(vol, d.node, lost)
  OBVIOUS
<1>6. PICK r : r = Children(vol, d.node, {})
  OBVIOUS
<1>7. s \in Seq(Entry(vol)) /\ r \in Seq(Entry(vol)) /\ Tree!Thinned(s, r)
  <2>1. Volume(vol) /\ d.node \in DOMAIN vol.nodes
    BY <1>1, InProgress DEF Entry
  <2> QED BY <1>4, <1>5, <1>6, <2>1, ChildrenTyped, ChildrenThinned
<1>8. PICK entries : entries = FirstOf(s, c.count)
  OBVIOUS
<1>9. /\ entries \in Seq(Entry(vol)) /\ Tree!Thinned(entries, r)
      /\ c.count > 0 => Len(entries) <= c.count
  BY <1>4, <1>7, <1>8, FirstFacts
<1>10. /\ Step(Answered(c, "ok", entries))
       /\ seen' = IF call.op = "ReadDir" /\ lost = {} /\ call.failed = "none"
                  THEN [path |-> call.path, node |-> call.node, entries |-> entries]
                  ELSE seen
  BY <1>2, <1>3, <1>4, <1>5, <1>8 DEF List
<1>11. PICK x : x = Replied(c, "ok", entries)
  OBVIOUS
<1>12. /\ x.op = c.op /\ x.path = c.path /\ x.count = c.count /\ x.failed = c.failed
       /\ x.ret = [st |-> "ok", val |-> entries] /\ x.ret.st = "ok" /\ x.ret.val = entries
  BY <1>11 DEF Replied
<1>13. Tree!Listing(x) /\ Tree!MayList(x, d) /\ c.op # "Open"
  BY <1>1, <1>2, <1>4, <1>12 DEF MayDo, Tree!Listing, Tree!MayList
<1>14. entries \in Values(vol) /\ "ok" \in Statuses
  BY <1>9 DEF Values, Statuses
<1>15. CallOK(Answered(c, "ok", entries))
  <2>1. CASE c.failed = "none"
    <3>1. lost = {} /\ call.failed = "none"
      BY <1>4, <2>1
    <3>2. entries = Tree!First(EntriesOf(vol, d), x.count)
      <4>1. Tree!First(r, x.count) = FirstOf(r, c.count)
        BY <1>12 DEF Tree!First, FirstOf
      <4> QED BY <1>5, <1>6, <1>8, <3>1, <4>1 DEF EntriesOf
    <3>3. Tree!Of(x, d)
      BY <1>12, <1>13, <3>2 DEF Tree!Of, Tree!Listing, Tree!Ok
    <3>4. Leads(vol, c.path, Len(c.path), d, c.failed)
      BY <1>2, <1>4, <2>1, <3>1
    <3> QED BY <1>4, <1>11, <1>13, <1>14, <3>3, <3>4, EntryAnswered
  <2>2. CASE c.failed = "entry"
    <3>1. Tree!Lacks(x, d)
      <4>1. EntriesOf(vol, d) = r
        BY <1>6 DEF EntriesOf
      <4> QED BY <1>9, <1>12, <1>13, <4>1 DEF Tree!Lacks
    <3>2. Leads(vol, x.path, Len(x.path), d, x.failed)
      BY <1>2, <1>4, <1>12, <2>2 DEF Leads
    <3>3. Tree!Justified(x)
      BY <1>12, <2>2, <3>1, <3>2, EntryLacking
    <3> QED BY <1>4, <1>11, <1>13, <1>14, <3>3, AnsweredOK DEF Replied
  <2> QED BY <1>4, <2>1, <2>2
<1>16. SeenOK'
  <2>1. CASE call.op = "ReadDir" /\ lost = {} /\ call.failed = "none"
    <3>1. vol' = vol
      BY <1>10 DEF Step
    <3>2. PICK z : z = [path |-> call.path, node |-> call.node, entries |-> entries]
      OBVIOUS
    <3>3. seen' = z /\ z.path = call.path /\ z.node = d.node /\ z.entries = entries
      BY <1>2, <1>10, <2>1, <3>2
    <3>4. entries = r
      <4>1. c.count = 0
        BY <1>4, <2>1 DEF CallTyped
      <4> QED BY <1>5, <1>6, <1>8, <2>1, <4>1 DEF FirstOf
    <3>5. d.isDir \/ IsUdf(vol)
      <4>1. CASE call.path = <<>>
        <5>1. Along(vol, call.path, FALSE)[0] = RootSet(vol)
          <6>1. \A first : Along(vol, call.path, first)[0] = RootSet(vol)
            BY <1>1, InProgress, AlongSteps
          <6> QED BY ONLY <6>1, Zenon
        <5>2. d \in RootSet(vol) /\ ~BadRoot(vol) /\ Volume(vol)
          BY <1>1, <1>2, <4>1, <5>1, InProgress DEF Leads
        <5>3. d = RootEntry(vol)
          BY <5>2 DEF RootSet
        <5> QED BY <5>2, <5>3, RootEntryTyped
      <4>2. CASE call.path # <<>>
        BY <1>1, <1>2, <4>2 DEF MayDo
      <4> QED BY <4>1, <4>2
    <3>6. Leads(vol, call.path, Len(call.path), d, "none")
      BY <1>2, <2>1
    <3>7. call.path \in Seq(Names) /\ d.node \in DOMAIN vol.nodes
      BY <1>1, InProgress DEF Entry
    <3> QED BY <1>6, <3>1, <3>3, <3>4, <3>5, <3>6, <3>7 DEF SeenOK
  <2>2. CASE ~(call.op = "ReadDir" /\ lost = {} /\ call.failed = "none")
    BY <1>10, <2>2, SeenKept DEF Step
  <2> QED BY <2>1, <2>2
<1> QED BY <1>10, <1>15, <1>16, StepOK

LEMMA ReadPreserves ==
  ASSUME Inv, Read
  PROVE  Inv'
<1>1. call.pc = "read"
  BY DEF Read
<1>2. PICK d \in Entry(vol) : /\ d.node = call.node /\ call.op = "ReadFile" /\ ~d.isDir
                              /\ Leads(vol, call.path, Len(call.path), d, call.failed)
  <2>1. ~BadRoot(vol)
    BY <1>1, InProgress DEF Walking
  <2> QED BY <1>1, <2>1, InProgress DEF Walking, MayDo
<1>3. PICK val : val = <<call.node>>
  OBVIOUS
<1>4. val \in Values(vol) /\ "ok" \in Statuses
  <2>1. PICK N : N = DOMAIN vol.nodes
    OBVIOUS
  <2>2. call.node \in N
    BY <1>2, <2>1 DEF Entry
  <2>3. val \in Seq(N)
    BY <1>3, <2>2
  <2> QED BY <2>1, <2>3 DEF Values, Statuses
<1>5. PICK x : x = Replied(call, "ok", val)
  OBVIOUS
<1>6. x.op = "ReadFile" /\ x.ret = [st |-> "ok", val |-> val]
  BY <1>2, <1>5 DEF Replied
<1>7. Tree!Of(x, d)
  BY <1>2, <1>3, <1>6 DEF Tree!Of, Tree!Ok, Tree!Listing
<1>8. CallOK(Answered(call, "ok", val))
  BY <1>1, <1>2, <1>4, <1>5, <1>7, InProgress, EntryAnswered
<1>9. SeenOK'
  BY SeenKept DEF Read, Step
<1> QED BY <1>3, <1>8, <1>9, StepOK DEF Read

\* A buffer is made for the contents of an entry the path leads to.
LEMMA MakePanicsPreserves ==
  ASSUME Inv, MakePanics
  PROVE  Inv'
<1>1. /\ call.pc \in {"lookup", "list", "read"} /\ ~Unparsable
      /\ call.pc = "lookup" => call.i \in 0..Len(call.path)
  BY InProgress DEF MakePanics, InDirectory, Unparsable
<1>2. PICK d \in Entry(vol) :
        /\ d.node = call.node
        /\ Leads(vol, call.path, IF call.pc = "lookup" THEN call.i ELSE Len(call.path),
                 d, call.failed)
  BY <1>1, AtEntry
<1>3. PICK k : k = IF call.pc = "lookup" THEN call.i ELSE Len(call.path)
  OBVIOUS
<1>4. k \in 0..Len(call.path)
  BY <1>1, <1>3, InProgress
<1>5. d \in Along(vol, call.path, FALSE)[k]
  BY <1>2, <1>3 DEF Leads
<1>6. HugeAlong(vol, call.path)
  BY <1>2, <1>4, <1>5 DEF HugeAlong, MakePanics, Held
<1>7. CallTyped(call)
  BY DEF Inv, CallOK
<1>8. CallOK(Answered([call EXCEPT !.failed = "memory"], "panic", <<>>))
  BY <1>6, <1>7, FailedOK
<1>9. SeenOK'
  BY SeenKept DEF MakePanics, Step
<1> QED BY <1>8, <1>9, StepOK DEF MakePanics

LEMMA ReadFailsPreserves ==
  ASSUME Inv, ReadFails
  PROVE  Inv'
<1>1. CallTyped(call)
  BY DEF Inv, CallOK
<1>2. CallOK(Answered([call EXCEPT !.failed = "read"], "io", <<>>))
  BY <1>1, FailedOK
<1>3. SeenOK'
  BY SeenKept DEF ReadFails, Step
<1> QED BY <1>2, <1>3, StepOK DEF ReadFails


-----------------------------------------------------------------------------
(***************************************************************************)
(* What follows for the specification.                                     *)
(***************************************************************************)
LEMMA InitInv ==
  ASSUME Init
  PROVE  Inv
<1>1. Volume(vol) /\ vol.root \in DOMAIN vol.nodes
  BY VolumesAssumption DEF Init, Volume
<1>2. PICK nil : nil = <<>>
  OBVIOUS
<1>3. nil \in Seq(Names) /\ nil \in Values(vol) /\ Len(nil) = 0
  BY <1>2 DEF Values
<1>4. PICK r : r = [st |-> "none", val |-> nil]
  OBVIOUS
<1>5. r \in [st : Statuses \cup {"none"}, val : Values(vol)] /\ r.st = "none"
  BY <1>3, <1>4
<1>6. call = [op |-> "none", path |-> nil, count |-> 0, pc |-> "idle", i |-> 0,
              node |-> 0, failed |-> "none", ret |-> r]
  BY <1>2, <1>4 DEF Init, Idle
<1>7. /\ call \in Calls(vol) /\ call.pc = "idle" /\ call.i = 0 /\ call.count = 0
      /\ call.failed = "none" /\ call.ret = r /\ call.path = nil /\ call.op = "none"
  BY <1>3, <1>5, <1>6 DEF Calls
<1>8. CallOK(call)
  <2>1. CallTyped(call)
    BY <1>3, <1>7 DEF CallTyped
  <2> QED BY <1>5, <1>7, <2>1 DEF CallOK
<1>9. HandleOK
  BY DEF Init, HandleOK
<1>10. SeenOK
  <2>1. seen = [path |-> nil, node |-> vol.root, entries |-> nil]
    BY <1>2 DEF Init
  <2>2. seen.path = nil /\ seen.node = vol.root /\ seen.entries = nil
    BY <2>1
  <2> QED BY <1>1, <1>2, <1>3, <2>2 DEF SeenOK
<1> QED BY <1>8, <1>9, <1>10 DEF Init, Inv

LEMMA NextInv ==
  ASSUME Inv, Next
  PROVE  Inv'
<1>1. ASSUME NEW op \in Methods, NEW path \in Paths, Call(op, path) PROVE Inv'
  BY <1>1, CallPreserves
<1>2. ASSUME NEW n \in Counts, HandleReadDir(n) PROVE Inv'
  BY <1>2, HandleReadDirPreserves
<1>3. CASE LookupInvalid
  BY <1>3, LookupInvalidPreserves
<1>4. CASE LookupRoot
  BY <1>4, LookupRootPreserves
<1>5. CASE LookupNotDir
  BY <1>5, LookupNotDirPreserves
<1>6. ASSUME NEW lost \in Losses(call.node), LookupAbsent(lost) PROVE Inv'
  BY <1>6, LookupAbsentPreserves
<1>7. ASSUME NEW lost \in Losses(call.node), LookupNext(lost) PROVE Inv'
  BY <1>7, LookupNextPreserves
<1>8. ASSUME NEW lost \in Losses(call.node), List(lost) PROVE Inv'
  BY <1>8, ListPreserves
<1>9. CASE Read
  BY <1>9, ReadPreserves
<1>10. CASE ReadFails
  BY <1>10, ReadFailsPreserves
<1>11. CASE MakePanics
  BY <1>11, MakePanicsPreserves
<1> QED BY <1>1, <1>2, <1>3, <1>4, <1>5, <1>6, <1>7, <1>8, <1>9, <1>10, <1>11 DEF Next

LEMMA StutterInv ==
  ASSUME Inv, UNCHANGED vars
  PROVE  Inv'
<1>1. call' = call /\ vol' = vol /\ handle' = handle /\ seen' = seen
  BY DEF vars
<1>2. CallOK(call)'
  BY <1>1, CallBecomes DEF Inv
<1>3. HandleOK' /\ SeenOK'
  BY <1>1 DEF Inv, HandleOK, SeenOK
<1> QED BY <1>1, <1>2, <1>3 DEF Inv

LEMMA Invariance == Spec => []Inv
<1>1. Inv /\ [Next]_vars => Inv'
  BY NextInv, StutterInv
<1> QED BY InitInv, <1>1, PTL DEF Spec

\* TypeOK: a call is at a place of its path and has an answer once it is over,
\* and handles and listings are of nodes of the volume
\* (iso9660/volume.go:120-240, udf/volume.go:208-528).
THEOREM TypeCorrect == Spec => []TypeOK
<1>1. ASSUME Inv PROVE TypeOK
  <2>1. CallTyped(call) /\ call \in Calls(vol) /\ call.path \in Seq(Names)
    BY <1>1 DEF Inv, CallOK, CallTyped, Calls
  <2>2. /\ call.op \in Methods \cup {"none", "HandleReadDir"} /\ call.i \in Nat
        /\ call.pc \in {"idle", "lookup", "list", "read", "done"}
        /\ call.node \in DOMAIN vol.nodes \cup {0}
        /\ call.failed \in {"none", "entry", "read", "memory"}
        /\ call.failed = "entry" => IsUdf(vol)
    BY <2>1 DEF Calls, CallTyped
  <2>3. call.i \in 0..Len(call.path)
    BY <2>1, <2>2 DEF CallTyped
  <2>4. call.pc = "lookup" /\ call.i = Len(call.path) => IsUdf(vol) /\ call.path = <<>>
    BY <1>1 DEF Inv, CallOK, Walking
  <2>5. (call.pc = "done") = (call.ret.st # "none")
    BY <1>1 DEF Inv, CallOK
  <2>6. handle # <<>> => handle[1].e.node \in DOMAIN vol.nodes
    <3> SUFFICES ASSUME handle # <<>> PROVE handle[1].e.node \in DOMAIN vol.nodes
      OBVIOUS
    <3>1. PICK h \in [path : Seq(Names), e : Entry(vol), failed : {"none", "entry"}] :
            handle = <<h>>
      BY <1>1 DEF Inv, HandleOK
    <3>2. h.e \in Entry(vol) /\ handle[1] = h
      BY <3>1
    <3> QED BY <3>2 DEF Entry
  <2>7. seen.path \in Seq(Names) /\ seen.node \in DOMAIN vol.nodes
    BY <1>1 DEF Inv, SeenOK
  <2>8. vol \in Volumes
    BY <1>1 DEF Inv
  <2> QED BY <2>1, <2>2, <2>3, <2>4, <2>5, <2>6, <2>7, <2>8 DEF TypeOK, Names
<1> QED BY Invariance, <1>1, PTL

\* The fields of a well-formed System Use Area say the same in any order,
\* however many they are (iso9660/rockridge.go:21-129).
THEOREM AnyFieldOrder == Spec => []FieldsInAnyOrder
<1>1. ASSUME Inv PROVE FieldsInAnyOrder
  <2> SUFFICES ASSUME vol.kind = "rockridge", NEW k \in DOMAIN seen.entries,
                      WellFormed(vol.nodes[seen.node].records[k])
               PROVE  SaysWhatIsRecorded(vol.nodes[seen.node].records[k], seen.entries[k])
    BY DEF FieldsInAnyOrder
  <2>1. PICK records : records = vol.nodes[seen.node].records
    OBVIOUS
  <2>2. seen.node \in DOMAIN vol.nodes /\ seen.entries = Children(vol, seen.node, {})
    BY <1>1 DEF Inv, SeenOK
  <2>3. seen.entries = [j \in DOMAIN records |-> parseRecord(records[j], "rockridge")]
    BY <2>1, <2>2 DEF Children, IsUdf
  <2>4. k \in DOMAIN records /\ seen.entries[k] = parseRecord(records[k], "rockridge")
    BY <2>3
  <2>5. records[k] \in Record(DOMAIN vol.nodes)
    BY <1>1, <2>1, <2>2, <2>4, VolumeOf, NodeFacts DEF Inv
  <2> QED BY <2>1, <2>4, <2>5, SaidByAll
<1> QED BY Invariance, <1>1, PTL

\* An entry answers to the name it is seen by.
LEMMA OwnName ==
  ASSUME Volume(vol), NEW e \in Entry(vol)
  PROVE  nameMatch(vol.kind, e, effectiveName(e))
<1>1. vol.kind # "rockridge" => effectiveName(e) = e.name
  BY DEF Entry, effectiveName
<1> QED BY <1>1 DEF nameMatch, effectiveName

\* Each entry of a listing is what Stat of its path answers
\* (iso9660/volume.go:176-240, udf/volume.go:402-528).
THEOREM ListedFound == Spec => []ListedIsFound
<1>1. ASSUME Inv PROVE ListedIsFound
  <2> SUFFICES ASSUME NEW k \in DOMAIN seen.entries,
                      call.pc = "done", call.op = "Stat", call.failed = "none",
                      call.path = Append(seen.path, effectiveName(seen.entries[k])),
                      Addressable(seen.entries, k),
                      IsUdf(vol) => vol.nodes[seen.node].type = "dir"
               PROVE  call.ret = [st |-> "ok", val |-> <<seen.entries[k]>>]
    BY DEF ListedIsFound
  <2>1. PICK s : s = seen.entries
    OBVIOUS
  <2>2. PICK d \in Entry(vol) :
          /\ s = Children(vol, d.node, {}) /\ d.node = seen.node /\ (~IsUdf(vol) => d.isDir)
          /\ Leads(vol, seen.path, Len(seen.path), d, "none")
    BY <1>1, <2>1 DEF Inv, SeenOK
  <2>3. Volume(vol) /\ d.node \in DOMAIN vol.nodes
    BY <1>1, VolumeOf DEF Inv, Entry
  <2>4. s \in Seq(Entry(vol)) /\ s[k] \in Entry(vol)
    <3>1. s \in Seq(Entry(vol))
      BY <2>2, <2>3, ChildrenTyped
    <3> QED BY <2>1, <3>1
  <2>5. PICK name : name = effectiveName(s[k])
    OBVIOUS
  <2>6. name \in Names /\ seen.path \in Seq(Names)
    <3>1. name \in Names
      BY <2>4, <2>5 DEF effectiveName, Entry
    <3> QED BY <1>1, <3>1 DEF Inv, SeenOK
  <2>7. PICK n \in Nat : n = Len(seen.path)
    BY <2>6
  <2>8. /\ call.path = Append(seen.path, name) /\ Len(call.path) = n + 1
        /\ call.path[n + 1] = name
    BY <2>1, <2>5, <2>6, <2>7
  <2>9. SameName(vol, s, name) = {k}
    <3>1. nameMatch(vol.kind, s[k], name)
      BY <2>3, <2>4, <2>5, OwnName
    <3>2. \A j \in DOMAIN s \ {k} : ~nameMatch(vol.kind, s[j], name)
      BY <2>1, <2>5 DEF Addressable
    <3> QED BY <2>1, <3>1, <3>2 DEF SameName
  <2>10. Named(vol, s, name, TRUE) = {s[k]}
    <3>1. PICK same : same = SameName(vol, s, name)
      OBVIOUS
    <3>2. { j \in same : \A i \in same : j <= i } = {k}
      <4>1. k \in Nat
        BY <2>1, <2>4
      <4> QED BY <2>9, <3>1, <4>1
    <3>3. Named(vol, s, name, TRUE) = { s[j] : j \in { j \in same : \A i \in same : j <= i } }
      BY <3>1 DEF Named
    <3> QED BY <3>2, <3>3
  <2>11. EntryAt(vol, call.path) = {s[k]}
    <3>1. Along(vol, call.path, TRUE)[n] = {d}
      <4>1. \A first : Along(vol, call.path, first)[n] = Along(vol, seen.path, first)[n]
        BY <2>3, <2>6, <2>7, <2>8, AlongLonger
      <4>2. Along(vol, call.path, TRUE)[n] = Along(vol, seen.path, TRUE)[n]
        BY ONLY <4>1, Zenon
      <4> QED BY <2>2, <2>7, <4>2 DEF Leads
    <3>2. Along(vol, call.path, TRUE)[n + 1] = Below(vol, {d}, name, TRUE)
      <4>1. \A first : Along(vol, call.path, first)[n + 1]
                         = Below(vol, Along(vol, call.path, first)[n], name, first)
        <5>1. PICK m \in 1..Len(call.path) : m = n + 1
          BY <2>8
        <5>2. \A first : Along(vol, call.path, first)[m]
                           = Below(vol, Along(vol, call.path, first)[m - 1], call.path[m], first)
          <6>1. PICK p : p = call.path
            OBVIOUS
          <6>2. Len(p) \in Nat /\ m \in 1..Len(p)
            BY <2>8, <6>1
          <6>3. \A first : \A i \in 1..Len(p) :
                  Along(vol, p, first)[i] = Below(vol, Along(vol, p, first)[i - 1], p[i], first)
            BY <2>3, <6>2, AlongSteps
          <6> QED BY <6>1, <6>2, <6>3
        <5>3. m - 1 = n
          BY <5>1
        <5> QED BY <2>8, <5>1, <5>2, <5>3
      <4>2. Along(vol, call.path, TRUE)[n + 1]
              = Below(vol, Along(vol, call.path, TRUE)[n], name, TRUE)
        BY ONLY <4>1, Zenon
      <4> QED BY <3>1, <4>2
    <3>3. Enterable(vol, d)
      BY <2>2 DEF Enterable
    <3>4. Below(vol, {d}, name, TRUE) = Named(vol, s, name, TRUE)
      BY <2>2, <3>3 DEF Below
    <3> QED BY <2>8, <2>10, <3>2, <3>4 DEF EntryAt
  <2>12. PICK x : x = Client(call)
    OBVIOUS
  <2>13. x.failed = "none" /\ x.path = call.path /\ x.op = "Stat" /\ x.ret = call.ret
    BY <2>12 DEF Client
  <2>14. Tree!Justified(x)
    BY <1>1, <2>12 DEF Inv, CallOK
  <2>15. Tree!Of(x, s[k])
    BY <2>11, <2>13, <2>14 DEF Tree!Justified, Tree!Right
  <2> QED BY <2>1, <2>13, <2>15 DEF Tree!Of, Tree!Ok, Tree!Listing
<1> QED BY Invariance, <1>1, PTL

-----------------------------------------------------------------------------
\* What the client sees of a call in progress stays.
Same(c, b) ==
  /\ b.op = c.op /\ b.path = c.path /\ b.count = c.count
  /\ b.pc # "idle" /\ (b.pc # "done" => b.ret = c.ret)

LEMMA AnsweredSame ==
  ASSUME NEW c \in Calls(vol), NEW st, NEW val
  PROVE  Same(c, Answered(c, st, val))
BY DEF Same, Answered, Calls

LEMMA GivenSame ==
  ASSUME NEW c \in Calls(vol), c.pc # "idle", NEW e
  PROVE  Same(c, Given(c, e))
<1>1. \A st, val : Same(c, Answered(c, st, val))
  BY AnsweredSame
<1>2. Same(c, [c EXCEPT !.pc = "read", !.node = e.node])
  BY DEF Same, Calls
<1>3. Same(c, [c EXCEPT !.pc = "list", !.node = e.node])
  BY DEF Same, Calls
<1> QED BY <1>1, <1>2, <1>3 DEF Given

LEMMA StaysSame ==
  ASSUME Inv, Next, call.pc \in {"lookup", "list", "read"}
  PROVE  Same(call, call')
<1>1. call \in Calls(vol)
  BY InProgress
<1>2. CASE LookupInvalid
  BY <1>1, <1>2, AnsweredSame DEF LookupInvalid, Step
<1>3. CASE LookupRoot
  BY <1>1, <1>3, GivenSame DEF LookupRoot, Step
<1>4. CASE LookupNotDir
  BY <1>1, <1>4, AnsweredSame DEF LookupNotDir, Step
<1>5. ASSUME NEW lost \in Losses(call.node),
             LookupAbsent(lost) \/ LookupNext(lost) \/ List(lost)
      PROVE  Same(call, call')
  <2>1. PICK c : c = Noting(lost)
    OBVIOUS
  <2>2. /\ c \in Calls(vol) /\ c.ret = call.ret /\ c.op = call.op /\ c.path = call.path
        /\ c.count = call.count /\ c.pc = call.pc
    BY <2>1, NotingFacts
  <2>3. \A b : Same(c, b) => Same(call, b)
    BY <2>2 DEF Same
  <2>4. CASE LookupAbsent(lost)
    BY <2>1, <2>2, <2>3, <2>4, AnsweredSame DEF LookupAbsent, Step
  <2>5. CASE LookupNext(lost)
    <3>1. PICK e : call' = IF c.i + 1 = Len(c.path) THEN Given(c, e)
                           ELSE IF IsUdf(vol) \/ e.isDir
                           THEN [c EXCEPT !.i = @ + 1, !.node = e.node]
                           ELSE Answered(c, "not_dir", <<>>)
      BY <2>1, <2>5 DEF LookupNext, Step
    <3>2. Same(c, Given(c, e)) /\ Same(c, Answered(c, "not_dir", <<>>))
      BY <2>2, GivenSame, AnsweredSame
    <3>3. Same(c, [c EXCEPT !.i = @ + 1, !.node = e.node])
      BY <2>2 DEF Same, Calls
    <3> QED BY <2>3, <3>1, <3>2, <3>3
  <2>6. CASE List(lost)
    BY <2>1, <2>2, <2>3, <2>6, AnsweredSame DEF List, Step
  <2> QED BY <1>5, <2>4, <2>5, <2>6
<1>6. CASE Read
  BY <1>1, <1>6, AnsweredSame DEF Read, Step
<1>7. CASE ReadFails \/ MakePanics
  <2>0. PICK how, st : call' = Answered([call EXCEPT !.failed = how], st, <<>>)
                      /\ how \in {"read", "memory"}
    BY <1>7 DEF ReadFails, MakePanics, Step
  <2>1. PICK c : c = [call EXCEPT !.failed = how]
    OBVIOUS
  <2>2. /\ c \in Calls(vol) /\ c.op = call.op /\ c.path = call.path /\ c.count = call.count
    BY <1>1, <2>0, <2>1 DEF Calls
  <2>3. PICK b : b = Answered(c, st, <<>>)
    OBVIOUS
  <2>4. Same(c, b) /\ b.pc = "done"
    BY <2>2, <2>3, AnsweredSame DEF Answered, Calls
  <2>5. call' = b
    BY <2>0, <2>1, <2>3
  <2> QED BY <2>2, <2>4, <2>5 DEF Same
<1>8. ~Ready
  BY DEF Ready
<1> QED BY <1>2, <1>3, <1>4, <1>5, <1>6, <1>7, <1>8 DEF Next, Call, HandleReadDir

\* A call is asked: it is not idle any more.
LEMMA Asks ==
  ASSUME Inv, Inv', Next, Ready
  PROVE  call.pc \in {"idle", "done"} /\ call'.pc \in {"lookup", "list", "read", "done"}
<1>1. call.pc \in {"idle", "done"}
  BY DEF Ready
<1>2. call'.op # "none"
  <2>1. ASSUME NEW op \in Methods, NEW path \in Paths, Call(op, path) PROVE call'.op # "none"
    <3>1. PICK c : c = Fresh(op, path)
      OBVIOUS
    <3>2. c \in Calls(vol) /\ c.op = op
      BY <3>1, FreshFacts DEF CallTyped
    <3>3. /\ Answered(c, "unsupported", <<>>).op = op
          /\ [c EXCEPT !.pc = "list"].op = op /\ [c EXCEPT !.pc = "lookup"].op = op
      BY <3>2 DEF Answered, Calls
    <3>4. Given(c, RootEntry(vol)).op = op
      BY <3>2 DEF Given, Answered, Calls
    <3>5. call'.op = op
      BY <2>1, <3>1, <3>3, <3>4 DEF Call, Fresh, Step
    <3> QED BY <3>5 DEF Methods
  <2>2. ASSUME NEW n \in Counts, HandleReadDir(n) PROVE call'.op # "none"
    <3>1. PICK c : c = [Idle EXCEPT !.op = "HandleReadDir", !.path = handle[1].path, !.count = n,
                                    !.node = handle[1].e.node, !.failed = handle[1].failed]
      OBVIOUS
    <3>2. PICK b : b = IF handle[1].e.isDir THEN [c EXCEPT !.pc = "list"]
                       ELSE Answered(c, "not_dir", <<>>)
      OBVIOUS
    <3>3. b.op = "HandleReadDir"
      BY <3>1, <3>2 DEF Idle, Answered
    <3>4. call' = b
      BY <2>2, <3>1, <3>2 DEF HandleReadDir, Step
    <3> QED BY <3>3, <3>4
  <2> QED BY <1>1, <2>1, <2>2 DEF Next, LookupInvalid, LookupRoot, LookupNotDir, InDirectory,
                LookupAbsent, LookupNext, List, Read, MakePanics, ReadFails, Ready
<1>3. call'.pc # "idle" /\ call'.pc \in {"idle", "lookup", "list", "read", "done"}
  BY <1>2 DEF Inv, CallOK, CallTyped, Calls
<1> QED BY <1>1, <1>3

\* A volume is a fixed tree of names: every answer is the tree's entry at the
\* cleaned path, or what is left of it by a failed read
\* (iso9660/volume.go:120-240, udf/volume.go:208-528).
THEOREM Refinement == Spec => ImplementsNamespace
<1>1. Init => Tree!Init
  BY DEF Init, Tree!Init, Exchange, Idle
<1>2. ASSUME Inv, Inv', Next PROVE [Tree!Next]_<<vol, Exchange>>
  <2>1. vol' = vol
    BY <1>2 DEF Next, Call, HandleReadDir, LookupInvalid, LookupRoot, LookupNotDir,
                LookupAbsent, LookupNext, List, Read, MakePanics, ReadFails, Step
  <2>2. PICK x : x = Client(call)
    OBVIOUS
  <2>3. PICK y : y = Client(call)'
    OBVIOUS
  <2>4. Exchange = x /\ Exchange' = y
    BY <2>2, <2>3 DEF Exchange, Client
  <2>5. /\ x.st = (CASE call.pc = "idle" -> "quiet" [] call.pc = "done" -> "answered"
                     [] OTHER -> "asked")
        /\ x.op = call.op /\ x.path = call.path /\ x.count = call.count
    BY <2>2 DEF Client
  <2>6. /\ y.st = (CASE call'.pc = "idle" -> "quiet" [] call'.pc = "done" -> "answered"
                     [] OTHER -> "asked")
        /\ y.op = call'.op /\ y.path = call'.path /\ y.count = call'.count
        /\ y.failed = (IF call'.pc = "done" THEN call'.failed ELSE "none")
    BY <2>3 DEF Client
  <2>7. call'.pc = "done" => Tree!Justified(y)
    <3>1. call'.pc = "done" => Tree!Justified(Client(call))'
      BY <1>2 DEF Inv, CallOK
    <3>2. y.failed \in {"none", "entry", "read", "memory"}
      BY <1>2, <2>6 DEF Inv, CallOK, CallTyped, Calls
    <3> QED BY <2>1, <2>3, <3>1, <3>2, SameJustified
  <2>8. CASE Ready
    <3>1. call.pc \in {"idle", "done"} /\ call'.pc \in {"lookup", "list", "read", "done"}
      BY <1>2, <2>8, Asks
    <3>2. x.st \in {"quiet", "answered"}
      BY <2>5, <3>1
    <3>3. CASE call'.pc = "done"
      <4>1. y.st = "answered"
        BY <2>6, <3>3
      <4> QED BY <2>1, <2>4, <2>7, <3>2, <3>3, <4>1 DEF Tree!Next, Tree!AskAndAnswer
    <3>4. CASE call'.pc # "done"
      <4>1. y.st = "asked"
        BY <2>6, <3>1, <3>4
      <4> QED BY <2>1, <2>4, <3>2, <4>1 DEF Tree!Next, Tree!Ask
    <3> QED BY <3>3, <3>4
  <2>9. CASE ~Ready
    <3>1. call.pc \in {"lookup", "list", "read"}
      BY <1>2, <2>9 DEF Ready, Inv, CallOK, CallTyped, Calls
    <3>2. Same(call, call')
      BY <1>2, <3>1, StaysSame
    <3>3. x.st = "asked"
      BY <2>5, <3>1
    <3>4. CASE call'.pc = "done"
      <4>1. y.st = "answered" /\ y.op = x.op /\ y.path = x.path /\ y.count = x.count
        BY <2>5, <2>6, <3>2, <3>4 DEF Same
      <4> QED BY <2>1, <2>4, <2>7, <3>3, <3>4, <4>1 DEF Tree!Next, Tree!Answer
    <3>5. CASE call'.pc # "done"
      <4>1. y = x
        BY <2>2, <2>3, <3>1, <3>2, <3>5 DEF Same, Client
      <4> QED BY <2>1, <2>4, <4>1
    <3> QED BY <3>4, <3>5
  <2> QED BY <2>8, <2>9
<1>3. ASSUME UNCHANGED vars PROVE UNCHANGED <<vol, Exchange>>
  BY <1>3 DEF vars, Exchange
<1>4. Inv /\ Inv' /\ [Next]_vars => [Tree!Next]_<<vol, Exchange>>
  BY <1>2, <1>3
<1> QED BY <1>1, <1>4, Invariance, PTL DEF Spec, ImplementsNamespace, Tree!Spec

=============================================================================
