----------------------------- MODULE DiscProofs -----------------------------
(***************************************************************************)
(* Proofs about Attach and Disc, for every image, every first sector and   *)
(* every end of the scan: what Attach lists, what Mount gives, and that    *)
(* Detach is final, whatever Mount is between two reads of.                *)
(*                                                                         *)
(* The properties speak of an answer.  Those of Attach are inductive once  *)
(* it is said what each of the two scans knows at the head of its loop:    *)
(* what it has met, and that nothing before its place ends the sequence    *)
(* (Place).  Those of Disc rest on what Attach is proved to list, and on   *)
(* what a Mount in progress knows (CallInv): the layer it is at, where its *)
(* scan for a descriptor stands, and that each layer before it was passed  *)
(* over for a reason.                                                      *)
(***************************************************************************)
EXTENDS Disc, TLAPS

(***************************************************************************)
(* Attach.                                                                 *)
(***************************************************************************)
Before(n) == Start..(n - 1)

\* The descriptor set goes on at least up to sector n.
Clean(n) ==
  /\ n >= Start
  /\ \A k \in Before(n) :
       Has(k) /\ At(k).id = "CD001" /\ At(k).type # "terminator"

Susp(k) == IsPrimary(k) /\ At(k).susp

\* The result r of the probe is right about the sectors S.
Knows(S, r) ==
  /\ r.HasISO9660 <=> \E k \in S : IsPrimary(k)
  /\ r.HasJoliet <=> \E k \in S : IsJoliet(k)

KnowsRoot(S, r, failed) ==
  /\ r.HasRockRidge => \E k \in S : Susp(k)
  /\ (\E k \in S : Susp(k)) => r.HasRockRidge \/ "root" \in failed

IsoHead(n, r, failed) ==
  Clean(n) /\ Knows(Before(n), r) /\ KnowsRoot(Before(n), r, failed)

RootHead(n, r, failed) ==
  /\ n >= Start /\ Clean(n + 1) /\ At(n).type = "primary"
  /\ Knows(Before(n + 1), r) /\ KnowsRoot(Before(n), r, failed)
  /\ ~r.HasRockRidge

IsoDone(r, failed) == Knows(Sectors, r) /\ KnowsRoot(Sectors, r, failed)

UdfHead(n, bea) ==
  /\ n \in Start..ScanEnd
  /\ \A k \in Before(n) : Has(k) /\ At(k).id # "TEA01"
  /\ bea <=> \E k \in Before(n) : At(k).id = "BEA01"
  /\ \A j, k \in Before(n) : j < k /\ At(j).id = "BEA01" => At(k).id # "NSR"

\* The recognition sequence of a UDF disc, as OnDisc has it.
UdfSequence ==
  \E b, n \in Sectors \cap 0..(ScanEnd - 1) :
    /\ b < n /\ At(b).id = "BEA01" /\ At(n).id = "NSR"
    /\ \A k \in Start..n : At(k).id # "TEA01"

Place(p, n, r, bea, failed) ==
  /\ p \in {"called", "iso", "root"} => ~bea
  /\ p = "called" => n = Start /\ r = NoResult
  /\ p = "iso" => IsoHead(n, r, failed)
  /\ p = "root" => RootHead(n, r, failed)
  /\ p \in {"udf", "anchor"} => IsoDone(r, failed)
  /\ p = "udf" => UdfHead(n, bea)
  /\ p = "anchor" => UdfSequence

File(p, ff) ==
  /\ p = "called" => ff = "none"
  /\ p \in {"iso", "root", "udf", "anchor", "attached"} => ff = "open"
  /\ p = "failed" => ff # "open"

Inv ==
  /\ TypeOK
  /\ Place(pc, lba, res, foundBEA, faults)
  /\ File(pc, f)
  /\ ListsWhatIsThere
  /\ RejectionIsJustified

-----------------------------------------------------------------------------
(***************************************************************************)
(* The image.                                                              *)
(***************************************************************************)
LEMMA ImageFacts ==
  ASSUME image \in Images
  PROVE  /\ Len(image.sectors) \in Nat
         /\ image.anchor \in BOOLEAN
         /\ Start \in Nat /\ ScanEnd \in Nat /\ Start < ScanEnd
         /\ \A n : Has(n) => n \in Nat /\ n >= Start /\ At(n) \in Sector
         /\ \A n : Has(n) <=> n \in Sectors
<1>1. image \in Image /\ Start \in Nat /\ ScanEnd \in Nat /\ Start < ScanEnd
  BY ImagesAssumption
<1>2. image.sectors \in Seq(Sector) /\ image.anchor \in BOOLEAN
  BY <1>1 DEF Image
<1>3. Len(image.sectors) \in Nat
  BY <1>2
<1>4. ASSUME NEW n, Has(n) PROVE n \in Nat /\ n >= Start /\ At(n) \in Sector
  <2>1. n \in Nat /\ n >= Start
    BY <1>1, <1>3, <1>4 DEF Has
  <2>2. n - Start + 1 \in 1..Len(image.sectors)
    BY <1>1, <1>3, <1>4 DEF Has
  <2> QED BY <1>2, <2>1, <2>2 DEF At
<1>5. \A n : Has(n) <=> n \in Sectors
  BY DEF Has, Sectors
<1> QED BY <1>1, <1>2, <1>3, <1>4, <1>5

LEMMA CleanInVDS ==
  ASSUME image \in Images, NEW n \in Nat, Clean(n)
  PROVE  \A k \in Before(n) : InVDS(k)
<1> SUFFICES ASSUME NEW k \in Before(n) PROVE InVDS(k)
  OBVIOUS
<1>1. Start \in Nat /\ k \in Int /\ k < n
  BY ImageFacts DEF Before
<1>2. \A j \in Start..k : j \in Before(n)
  BY <1>1 DEF Before
<1> QED BY <1>2 DEF Clean, InVDS

LEMMA BeforeNext ==
  ASSUME NEW n \in Nat, Start \in Nat, n >= Start
  PROVE  Before(n + 1) = Before(n) \cup {n}
  BY DEF Before

\* What is on the disc, layer by layer.
LEMMA OnDiscFacts ==
  /\ OnDisc \subseteq {"UDF", "Joliet", "RockRidge", "ISO9660"}
  /\ "ISO9660" \in OnDisc <=> \E n \in Sectors : IsPrimary(n)
  /\ "RockRidge" \in OnDisc <=> \E n \in Sectors : Susp(n)
  /\ "Joliet" \in OnDisc <=> \E n \in Sectors : IsJoliet(n)
  /\ "UDF" \in OnDisc <=> image.anchor /\ UdfSequence
  BY DEF OnDisc, Susp, UdfSequence

-----------------------------------------------------------------------------
(***************************************************************************)
(* The list of layers.                                                     *)
(***************************************************************************)
Items(s) == { s[i] : i \in 1..Len(s) }

LayerNames == {"UDF", "Joliet", "RockRidge", "ISO9660"}

LEMMA ConcatFacts ==
  ASSUME NEW S, NEW a \in Seq(S), NEW b \in Seq(S)
  PROVE  a \o b \in Seq(S) /\ Items(a \o b) = Items(a) \cup Items(b)
<1>1. a \o b \in Seq(S) /\ Len(a \o b) = Len(a) + Len(b)
  OBVIOUS
<1>2. Len(a) \in Nat /\ Len(b) \in Nat
  OBVIOUS
<1>3. /\ \A i \in 1..Len(a) : (a \o b)[i] = a[i]
      /\ \A i \in 1..Len(b) : (a \o b)[Len(a) + i] = b[i]
  OBVIOUS
<1>4. ASSUME NEW i \in 1..Len(a \o b) PROVE (a \o b)[i] \in Items(a) \cup Items(b)
  <2>1. CASE i <= Len(a)
    <3>1. i \in 1..Len(a)
      BY <2>1
    <3> QED BY <1>3, <3>1 DEF Items
  <2>2. CASE ~(i <= Len(a))
    <3>1. PICK j : j = i - Len(a)
      OBVIOUS
    <3>2. j \in 1..Len(b) /\ Len(a) + j = i
      BY <1>1, <1>2, <2>2, <3>1
    <3>3. (a \o b)[Len(a) + j] = b[j]
      BY <1>3, <3>2
    <3>4. (a \o b)[i] = b[j]
      BY <3>2, <3>3
    <3> QED BY <3>2, <3>4 DEF Items
  <2> QED BY <2>1, <2>2
<1>5. ASSUME NEW i \in 1..Len(a) PROVE a[i] \in Items(a \o b)
  <2>1. i \in 1..Len(a \o b) /\ (a \o b)[i] = a[i]
    BY <1>1, <1>2, <1>3
  <2> QED BY <2>1 DEF Items
<1>6. ASSUME NEW i \in 1..Len(b) PROVE b[i] \in Items(a \o b)
  <2>1. Len(a) + i \in 1..Len(a \o b) /\ (a \o b)[Len(a) + i] = b[i]
    BY <1>1, <1>2, <1>3
  <2> QED BY <2>1 DEF Items
<1>7. Items(a \o b) = Items(a) \cup Items(b)
  BY <1>4, <1>5, <1>6 DEF Items
<1> QED BY <1>1, <1>7

LEMMA OptionFacts ==
  ASSUME NEW has, NEW x \in LayerNames
  PROVE  LET s == IF has THEN <<x>> ELSE <<>>
         IN  s \in Seq(LayerNames) /\ Items(s) = IF has THEN {x} ELSE {}
<1>1. <<x>> \in Seq(LayerNames) /\ Len(<<x>>) = 1 /\ <<x>>[1] = x
  OBVIOUS
<1>2. <<>> \in Seq(LayerNames) /\ Len(<<>>) = 0
  OBVIOUS
<1>3. Items(<<x>>) = {x} /\ Items(<<>>) = {}
  BY <1>1, <1>2 DEF Items
<1> QED BY <1>1, <1>2, <1>3

LEMMA LayersFacts ==
  ASSUME NEW has \in BOOLEAN
  PROVE  /\ Layers(has) \in Seq(LayerNames)
         /\ \A l \in LayerNames :
              l \in Items(Layers(has)) <=>
                \/ l = "UDF" /\ has
                \/ l = "Joliet" /\ res.HasJoliet
                \/ l = "RockRidge" /\ res.HasRockRidge
                \/ l = "ISO9660" /\ res.HasISO9660
<1>1. PICK u : u = IF has THEN <<"UDF">> ELSE <<>>
  OBVIOUS
<1>2. PICK j : j = IF res.HasJoliet THEN <<"Joliet">> ELSE <<>>
  OBVIOUS
<1>3. PICK r : r = IF res.HasRockRidge THEN <<"RockRidge">> ELSE <<>>
  OBVIOUS
<1>4. PICK i : i = IF res.HasISO9660 THEN <<"ISO9660">> ELSE <<>>
  OBVIOUS
<1>5. /\ u \in Seq(LayerNames) /\ Items(u) = IF has THEN {"UDF"} ELSE {}
      /\ j \in Seq(LayerNames) /\ Items(j) = IF res.HasJoliet THEN {"Joliet"} ELSE {}
      /\ r \in Seq(LayerNames) /\ Items(r) = IF res.HasRockRidge THEN {"RockRidge"} ELSE {}
      /\ i \in Seq(LayerNames) /\ Items(i) = IF res.HasISO9660 THEN {"ISO9660"} ELSE {}
  <2>1. "UDF" \in LayerNames /\ "Joliet" \in LayerNames
        /\ "RockRidge" \in LayerNames /\ "ISO9660" \in LayerNames
    BY DEF LayerNames
  <2> QED BY <1>1, <1>2, <1>3, <1>4, <2>1, OptionFacts
<1>0. \A s, t \in Seq(LayerNames) :
        s \o t \in Seq(LayerNames) /\ Items(s \o t) = Items(s) \cup Items(t)
  BY ConcatFacts
<1>6. PICK uj : uj = u \o j
  OBVIOUS
<1>7. uj \in Seq(LayerNames) /\ Items(uj) = Items(u) \cup Items(j)
  BY <1>0, <1>5, <1>6
<1>8. PICK ujr : ujr = uj \o r
  OBVIOUS
<1>9. ujr \in Seq(LayerNames) /\ Items(ujr) = Items(uj) \cup Items(r)
  BY <1>0, <1>5, <1>7, <1>8
<1>a. PICK all : all = ujr \o i
  OBVIOUS
<1>b. all \in Seq(LayerNames) /\ Items(all) = Items(ujr) \cup Items(i)
  BY <1>0, <1>5, <1>9, <1>a
<1>c. Layers(has) = all
  BY <1>1, <1>2, <1>3, <1>4, <1>6, <1>8, <1>a DEF Layers
<1>10. Items(Layers(has)) = ((Items(u) \cup Items(j)) \cup Items(r)) \cup Items(i)
  BY <1>7, <1>9, <1>b, <1>c
<1>11. \A l : l \in Items(Layers(has)) <=>
                \/ l = "UDF" /\ has
                \/ l = "Joliet" /\ res.HasJoliet
                \/ l = "RockRidge" /\ res.HasRockRidge
                \/ l = "ISO9660" /\ res.HasISO9660
  BY <1>5, <1>10
<1> QED BY <1>b, <1>c, <1>11

-----------------------------------------------------------------------------
(***************************************************************************)
(* Steps.  The image never changes, so it is enough to look at the values  *)
(* a step leaves.                                                          *)
(***************************************************************************)
\* The invariant but for its types, which each step shows in one go.
Known == Place(pc, lba, res, foundBEA, faults) /\ File(pc, f)

LEMMA MoveKeepsPlace ==
  ASSUME image' = image, NEW p, NEW n, NEW r, NEW bea, NEW failed,
         pc' = p, lba' = n, res' = r, foundBEA' = bea, faults' = failed,
         Place(p, n, r, bea, failed), File(p, f')
  PROVE  Known'
<1>1. /\ Place(pc', lba', res', foundBEA', faults')
      /\ File(pc', f')
  OBVIOUS
<1> QED BY <1>1
      DEF Known, Place, File, IsoHead, RootHead, IsoDone, UdfHead, UdfSequence,
          Knows, KnowsRoot, Susp, Clean, Before, IsPrimary, IsJoliet, InVDS,
          Sectors, Has, At

\* A step that gives no answer.
LEMMA NoAnswer ==
  ASSUME pc' \notin {"attached", "failed"}
  PROVE  ListsWhatIsThere' /\ RejectionIsJustified'
  BY DEF ListsWhatIsThere, RejectionIsJustified

LEMMA PlaceFacts ==
  ASSUME Inv
  PROVE  /\ image \in Images /\ lba \in Nat /\ foundBEA \in BOOLEAN
         /\ res \in [HasISO9660 : BOOLEAN, HasJoliet : BOOLEAN, HasRockRidge : BOOLEAN,
                     PvdSector : Nat, SvdSector : Nat]
         /\ Place(pc, lba, res, foundBEA, faults) /\ File(pc, f)
  BY DEF Inv, TypeOK

\* One descriptor more that is neither the terminator nor foreign.
LEMMA CleanNext ==
  ASSUME image \in Images, NEW n \in Nat, Clean(n), Has(n),
         At(n).id = "CD001", At(n).type # "terminator"
  PROVE  /\ Clean(n + 1) /\ InVDS(n)
         /\ Before(n + 1) = Before(n) \cup {n}
<1>1. Start \in Nat /\ n >= Start
  BY ImageFacts DEF Clean
<1>2. Before(n + 1) = Before(n) \cup {n}
  BY <1>1, BeforeNext
<1>3. Clean(n + 1)
  BY <1>1, <1>2 DEF Clean
<1>4. n \in Before(n + 1)
  BY <1>2
<1> QED BY <1>2, <1>3, <1>4, CleanInVDS

LEMMA MetKept ==
  ASSUME image' = image, NEW r, res' = r, Met(r)
  PROVE  Met(res)'
  BY DEF Met, IsPrimary, IsJoliet, InVDS, Has, At

LEMMA TypesKept ==
  ASSUME Inv, AttachNext
  PROVE  TypeOK'
<1>0. TypeOK
  BY DEF Inv
<1>1. Start \in Nat /\ NoResult.PvdSector \in Nat /\ lba + 1 \in Nat
  BY <1>0, ImagesAssumption DEF TypeOK, NoResult
<1>2. image \in Images
  BY <1>0 DEF TypeOK
<1>m. image' = image /\ res' = res => Met(res)'
  BY <1>0, MetKept DEF TypeOK
<1>n. ASSUME Magic, At(lba).type # "terminator" PROVE InVDS(lba)
  <2>1. Clean(lba) /\ lba \in Nat
    BY <1>0, <1>n DEF Inv, Place, IsoHead, Magic, TypeOK
  <2> QED BY <1>2, <1>n, <2>1, CleanNext DEF Magic
<1>3. CASE OpenFile
  BY <1>0, <1>1, <1>3, <1>m DEF TypeOK, OpenFile
<1>4. CASE IsoPrimary
  <2>1. PICK r : r = [res EXCEPT !.HasISO9660 = TRUE, !.PvdSector = lba]
    OBVIOUS
  <2>2. res' = r /\ image' = image /\ At(lba).type = "primary" /\ Magic
    BY <1>4, <2>1 DEF IsoPrimary, Goto
  <2>3. /\ r.HasISO9660 = TRUE /\ r.PvdSector = lba
        /\ r.HasJoliet = res.HasJoliet /\ r.SvdSector = res.SvdSector
    BY <1>0, <2>1 DEF TypeOK
  <2>4. Met(r)
    BY <1>0, <1>n, <2>2, <2>3 DEF Met, IsPrimary, TypeOK
  <2>5. Met(res)'
    BY <2>2, <2>4, MetKept
  <2> QED BY <1>0, <1>1, <1>4, <2>5 DEF TypeOK, IsoPrimary, Goto
<1>5. CASE IsoRoot
  <2>1. RootHead(lba, res, faults) /\ lba \in Nat /\ Start \in Nat
    BY <1>5, PlaceFacts, ImageFacts DEF IsoRoot, Place
  <2>2. lba \in Before(lba + 1)
    BY <2>1 DEF RootHead, Before
  <2>3. At(lba) \in Sector
    BY <1>2, <2>1, <2>2, ImageFacts DEF RootHead, Clean
  <2>4. At(lba).susp \in BOOLEAN
    BY <2>3 DEF Sector
  <2>5. PICK r : r = res'
    OBVIOUS
  <2>6. /\ r.HasISO9660 = res.HasISO9660 /\ r.PvdSector = res.PvdSector
        /\ r.HasJoliet = res.HasJoliet /\ r.SvdSector = res.SvdSector
    BY <1>0, <1>5, <2>5 DEF TypeOK, IsoRoot
  <2>7. Met(r)
    BY <1>0, <2>6 DEF Met, TypeOK
  <2>8. Met(res)'
    BY <1>5, <2>5, <2>7, MetKept DEF IsoRoot, Goto
  <2> QED BY <1>0, <1>1, <1>5, <2>4, <2>8 DEF TypeOK, IsoRoot, Goto
<1>6. CASE IsoSupplementary
  <2>1. image' = image /\ At(lba).type = "supp" /\ Magic
    BY <1>6 DEF IsoSupplementary, Goto
  <2>2. CASE At(lba).joliet
    <3>1. PICK r : r = [res EXCEPT !.HasJoliet = TRUE, !.SvdSector = lba]
      OBVIOUS
    <3>2. /\ r.HasJoliet = TRUE /\ r.SvdSector = lba
          /\ r.HasISO9660 = res.HasISO9660 /\ r.PvdSector = res.PvdSector
      BY <1>0, <3>1 DEF TypeOK
    <3>3. Met(r)
      BY <1>0, <1>n, <2>1, <2>2, <3>2 DEF Met, IsJoliet, TypeOK
    <3>4. Met(res)'
      BY <1>6, <2>1, <2>2, <3>1, <3>3, MetKept DEF IsoSupplementary
    <3> QED BY <1>0, <1>1, <1>6, <3>4 DEF TypeOK, IsoSupplementary, Goto
  <2>3. CASE ~At(lba).joliet
    BY <1>0, <1>1, <1>6, <1>m, <2>3 DEF TypeOK, IsoSupplementary, Goto
  <2> QED BY <2>2, <2>3
<1>7. CASE IsoOther \/ IsoEnd \/ UdfBegin \/ UdfFound \/ UdfOther
  BY <1>0, <1>1, <1>7, <1>m DEF TypeOK, IsoOther, IsoEnd, UdfBegin, UdfFound, UdfOther, Goto
<1>8. ASSUME NEW has \in BOOLEAN, Answer(has), faults' \subseteq faults \cup {"anchor"}
      PROVE  TypeOK'
  <2>1. Layers(has) \in Seq(LayerNames)
    BY LayersFacts
  <2> QED BY <1>0, <1>8, <1>m, <2>1 DEF TypeOK, Answer, GiveUp, LayerNames
<1>9. CASE UdfAbsent
  BY <1>8, <1>9 DEF UdfAbsent
<1>10. CASE UdfAnchor
  BY <1>2, <1>8, <1>10, ImageFacts DEF UdfAnchor
<1>11. CASE ProbeFails
  BY <1>0, <1>11, <1>m DEF TypeOK, ProbeFails, GiveUp
<1> QED BY <1>3, <1>4, <1>5, <1>6, <1>7, <1>9, <1>10, <1>11 DEF AttachNext

\* The image is opened, or the call fails.
LEMMA OpenKnown ==
  ASSUME Inv, OpenFile
  PROVE  Known' /\ ListsWhatIsThere' /\ RejectionIsJustified'
<1>1. /\ image \in Images /\ Place(pc, lba, res, foundBEA, faults) /\ File(pc, f)
      /\ Start \in Nat
  BY PlaceFacts, ImageFacts
<1>2. /\ pc = "called" /\ lba' = Start /\ image' = image /\ res' = res
      /\ foundBEA' = foundBEA /\ faults' = faults
  BY DEF OpenFile
<1>3. CASE f' = "open" /\ pc' = "iso"
  <2>1. Before(Start) = {} /\ Clean(Start)
    BY <1>1 DEF Before, Clean
  <2>2. IsoHead(Start, res, faults) /\ ~foundBEA
    BY <1>1, <1>2, <2>1 DEF Place, IsoHead, Knows, KnowsRoot, NoResult
  <2>3. Place("iso", Start, res, foundBEA, faults) /\ File("iso", f')
    BY <1>3, <2>2 DEF Place, File
  <2> QED BY <1>2, <1>3, <2>3, MoveKeepsPlace, NoAnswer
<1>4. CASE f' = f /\ pc' = "failed"
  <2>1. Place("failed", Start, res, foundBEA, faults) /\ File("failed", f') /\ f' = "none"
    BY <1>1, <1>2, <1>4 DEF Place, File
  <2> QED BY <1>2, <1>4, <2>1, MoveKeepsPlace DEF ListsWhatIsThere, RejectionIsJustified
<1> QED BY <1>3, <1>4 DEF OpenFile

\* The steps of the first scan.
LEMMA PrimaryKnown ==
  ASSUME Inv, IsoPrimary
  PROVE  Known' /\ ListsWhatIsThere' /\ RejectionIsJustified'
<1>1. PICK n : n = lba
  OBVIOUS
<1>2. PICK r : r = [res EXCEPT !.HasISO9660 = TRUE, !.PvdSector = n]
  OBVIOUS
<1>3. /\ image \in Images /\ n \in Nat /\ IsoHead(n, res, faults)
      /\ Has(n) /\ At(n).id = "CD001" /\ At(n).type = "primary" /\ ~foundBEA
      /\ f = "open" /\ Start \in Nat
  BY <1>1, PlaceFacts, ImageFacts DEF IsoPrimary, Magic, Place, File
<1>4. /\ image' = image /\ res' = r /\ foundBEA' = foundBEA /\ faults' = faults
      /\ f' = f
  BY <1>1, <1>2 DEF IsoPrimary, Goto
<1>5. /\ r.HasISO9660 = TRUE /\ r.HasJoliet = res.HasJoliet
      /\ r.HasRockRidge = res.HasRockRidge
  BY <1>2, PlaceFacts
<1>6. /\ Clean(n + 1) /\ InVDS(n) /\ Before(n + 1) = Before(n) \cup {n}
      /\ n >= Start
  BY <1>3, CleanNext DEF IsoHead, Clean
<1>7. IsPrimary(n) /\ ~IsJoliet(n)
  BY <1>3, <1>6 DEF IsPrimary, IsJoliet
<1>8. Knows(Before(n + 1), r) /\ KnowsRoot(Before(n), r, faults)
  BY <1>3, <1>5, <1>6, <1>7 DEF IsoHead, Knows, KnowsRoot
<1>9. CASE res.HasRockRidge
  <2>1. \E k \in Before(n + 1) : Susp(k)
    BY <1>3, <1>6, <1>9 DEF IsoHead, KnowsRoot
  <2>2. KnowsRoot(Before(n + 1), r, faults)
    BY <1>5, <1>9, <2>1 DEF KnowsRoot
  <2>3. Place("iso", n + 1, r, foundBEA, faults) /\ File("iso", f')
    BY <1>3, <1>4, <1>6, <1>8, <2>2 DEF Place, File, IsoHead
  <2>4. pc' = "iso" /\ lba' = n + 1
    BY <1>1, <1>9 DEF IsoPrimary, Goto
  <2> QED BY <1>4, <2>3, <2>4, MoveKeepsPlace, NoAnswer
<1>10. CASE ~res.HasRockRidge
  <2>1. Place("root", n, r, foundBEA, faults) /\ File("root", f')
    BY <1>3, <1>4, <1>5, <1>6, <1>8, <1>10 DEF Place, File, RootHead
  <2>2. pc' = "root" /\ lba' = n
    BY <1>1, <1>10 DEF IsoPrimary, Goto
  <2> QED BY <1>4, <2>1, <2>2, MoveKeepsPlace, NoAnswer
<1> QED BY <1>9, <1>10

LEMMA RootKnown ==
  ASSUME Inv, IsoRoot
  PROVE  Known' /\ ListsWhatIsThere' /\ RejectionIsJustified'
<1>1. PICK n : n = lba
  OBVIOUS
<1>2. /\ image \in Images /\ n \in Nat /\ RootHead(n, res, faults) /\ ~foundBEA
      /\ f = "open" /\ Start \in Nat
  BY <1>1, PlaceFacts, ImageFacts DEF IsoRoot, Place, File
<1>3. /\ image' = image /\ foundBEA' = foundBEA /\ f' = f
      /\ pc' = "iso" /\ lba' = n + 1
  BY <1>1 DEF IsoRoot, Goto
<1>4. Before(n + 1) = Before(n) \cup {n} /\ Clean(n + 1) /\ n \in Before(n + 1)
  BY <1>2, BeforeNext DEF RootHead
<1>5. n + 1 \in Nat
  BY <1>2
<1>6. IsPrimary(n)
  BY <1>2, <1>4, <1>5, CleanInVDS DEF RootHead, IsPrimary
<1>7. ASSUME NEW r, NEW failed, res' = r, faults' = failed,
             r.HasISO9660 = res.HasISO9660, r.HasJoliet = res.HasJoliet,
             KnowsRoot(Before(n + 1), r, failed)
      PROVE  Known' /\ ListsWhatIsThere' /\ RejectionIsJustified'
  <2>1. Knows(Before(n + 1), r)
    BY <1>2, <1>7 DEF RootHead, Knows
  <2>2. Place("iso", n + 1, r, foundBEA, failed) /\ File("iso", f')
    BY <1>2, <1>3, <1>4, <1>7, <2>1 DEF Place, File, IsoHead
  <2> QED BY <1>3, <1>7, <2>2, MoveKeepsPlace, NoAnswer
<1>8. CASE res' = [res EXCEPT !.HasRockRidge = At(lba).susp] /\ faults' = faults
  <2>1. PICK r : r = [res EXCEPT !.HasRockRidge = At(n).susp]
    OBVIOUS
  <2>2. /\ r.HasISO9660 = res.HasISO9660 /\ r.HasJoliet = res.HasJoliet
        /\ r.HasRockRidge = At(n).susp
    BY <2>1, PlaceFacts
  <2>3. At(n).susp <=> Susp(n)
    BY <1>6 DEF Susp
  <2>4. r.HasRockRidge <=> Susp(n)
    BY <2>2, <2>3
  <2>5. (\E k \in Before(n) : Susp(k)) => "root" \in faults
    BY <1>2 DEF RootHead, KnowsRoot
  <2>6. KnowsRoot(Before(n + 1), r, faults)
    BY <1>4, <2>4, <2>5 DEF KnowsRoot
  <2> QED BY <1>1, <1>7, <1>8, <2>1, <2>2, <2>6
<1>9. CASE faults' = faults \cup {"root"} /\ res' = res
  <2>1. KnowsRoot(Before(n + 1), res, faults \cup {"root"})
    BY <1>2 DEF RootHead, KnowsRoot
  <2> QED BY <1>7, <1>9, <2>1
<1> QED BY <1>8, <1>9 DEF IsoRoot

LEMMA DescriptorKnown ==
  ASSUME Inv, IsoSupplementary \/ IsoOther
  PROVE  Known' /\ ListsWhatIsThere' /\ RejectionIsJustified'
<1>1. PICK n : n = lba
  OBVIOUS
<1>2. /\ image \in Images /\ n \in Nat /\ IsoHead(n, res, faults)
      /\ Has(n) /\ At(n).id = "CD001" /\ At(n).type \in {"supp", "other"}
      /\ ~foundBEA /\ f = "open" /\ Start \in Nat
  BY <1>1, PlaceFacts, ImageFacts DEF IsoSupplementary, IsoOther, Magic, Place, File
<1>3. /\ image' = image /\ foundBEA' = foundBEA /\ f' = f /\ faults' = faults
      /\ pc' = "iso" /\ lba' = n + 1
  BY <1>1 DEF IsoSupplementary, IsoOther, Goto
<1>4. Clean(n + 1) /\ InVDS(n) /\ Before(n + 1) = Before(n) \cup {n}
  BY <1>2, CleanNext DEF IsoHead
<1>5. ~IsPrimary(n) /\ ~Susp(n)
  BY <1>2 DEF IsPrimary, Susp
<1>6. ASSUME NEW r, res' = r, r.HasISO9660 = res.HasISO9660,
             r.HasRockRidge = res.HasRockRidge,
             r.HasJoliet <=> res.HasJoliet \/ IsJoliet(n)
      PROVE  Known' /\ ListsWhatIsThere' /\ RejectionIsJustified'
  <2>1. Knows(Before(n + 1), r) /\ KnowsRoot(Before(n + 1), r, faults)
    BY <1>2, <1>4, <1>5, <1>6 DEF IsoHead, Knows, KnowsRoot
  <2>2. Place("iso", n + 1, r, foundBEA, faults) /\ File("iso", f')
    BY <1>2, <1>3, <1>4, <2>1 DEF Place, File, IsoHead
  <2> QED BY <1>3, <1>6, <2>2, MoveKeepsPlace, NoAnswer
<1>7. CASE IsoSupplementary /\ At(n).joliet
  <2>1. PICK r : r = [res EXCEPT !.HasJoliet = TRUE, !.SvdSector = n]
    OBVIOUS
  <2>2. /\ r.HasISO9660 = res.HasISO9660 /\ r.HasJoliet = TRUE
        /\ r.HasRockRidge = res.HasRockRidge
    BY <2>1, PlaceFacts
  <2>3. res' = r
    BY <1>1, <1>7, <2>1 DEF IsoSupplementary
  <2>4. IsJoliet(n)
    BY <1>1, <1>4, <1>7 DEF IsJoliet, IsoSupplementary, Magic
  <2> QED BY <1>6, <2>2, <2>3, <2>4
<1>8. CASE res' = res /\ ~IsJoliet(n)
  BY <1>6, <1>8
<1>9. CASE IsoSupplementary /\ ~At(n).joliet
  BY <1>1, <1>8, <1>9 DEF IsoSupplementary, IsJoliet
<1>10. CASE IsoOther
  BY <1>1, <1>8, <1>10 DEF IsoOther, IsJoliet
<1> QED BY <1>7, <1>9, <1>10

\* Nothing of the descriptor set lies at or after its end.
LEMMA EndKnown ==
  ASSUME Inv, IsoEnd
  PROVE  Known' /\ ListsWhatIsThere' /\ RejectionIsJustified'
<1>1. PICK n : n = lba
  OBVIOUS
<1>2. /\ image \in Images /\ n \in Nat /\ IsoHead(n, res, faults)
      /\ Has(n) /\ (At(n).id = "CD001" => At(n).type = "terminator")
      /\ ~foundBEA /\ f = "open" /\ Start \in Nat /\ Start < ScanEnd /\ ScanEnd \in Nat
  BY <1>1, PlaceFacts, ImageFacts DEF IsoEnd, Place, File
<1>3. /\ image' = image /\ foundBEA' = foundBEA /\ f' = f /\ faults' = faults
      /\ res' = res /\ pc' = "udf" /\ lba' = Start
  BY DEF IsoEnd, Goto
<1>4. ASSUME NEW k, InVDS(k) PROVE k \in Before(n) /\ k \in Sectors
  <2>1. k \in Nat /\ k >= Start /\ k \in Sectors
    BY <1>2, <1>4, ImageFacts DEF InVDS
  <2>2. ~(n \in Start..k)
    BY <1>2, <1>4 DEF InVDS
  <2>3. n >= Start
    BY <1>2 DEF IsoHead, Clean
  <2> QED BY <1>2, <2>1, <2>2, <2>3 DEF Before
<1>5. ASSUME NEW k, IsPrimary(k) \/ IsJoliet(k) \/ Susp(k)
      PROVE  k \in Before(n) /\ k \in Sectors
  BY <1>4, <1>5 DEF IsPrimary, IsJoliet, Susp
<1>6. IsoDone(res, faults)
  BY <1>2, <1>5 DEF IsoHead, IsoDone, Knows, KnowsRoot
<1>7. Before(Start) = {} /\ Start \in Start..ScanEnd
  BY <1>2 DEF Before
<1>8. UdfHead(Start, foundBEA)
  BY <1>2, <1>7 DEF UdfHead
<1>9. Place("udf", Start, res, foundBEA, faults) /\ File("udf", f')
  BY <1>2, <1>3, <1>6, <1>8 DEF Place, File
<1> QED BY <1>3, <1>9, MoveKeepsPlace, NoAnswer

\* The steps of the second scan.
LEMMA UdfTurnKnown ==
  ASSUME Inv, UdfBegin \/ UdfOther
  PROVE  Known' /\ ListsWhatIsThere' /\ RejectionIsJustified'
<1>1. PICK n : n = lba
  OBVIOUS
<1>2. PICK bea : bea = foundBEA'
  OBVIOUS
<1>3. /\ image \in Images /\ n \in Nat /\ UdfHead(n, foundBEA) /\ IsoDone(res, faults)
      /\ Has(n) /\ n < ScanEnd /\ f = "open" /\ Start \in Nat /\ ScanEnd \in Nat
  BY <1>1, PlaceFacts, ImageFacts DEF UdfBegin, UdfOther, Scanning, Place, File
<1>4. /\ image' = image /\ f' = f /\ faults' = faults
      /\ res' = res /\ pc' = "udf" /\ lba' = n + 1
  BY <1>1 DEF UdfBegin, UdfOther, Goto
<1>5. /\ At(n).id # "TEA01"
      /\ bea <=> foundBEA \/ At(n).id = "BEA01"
      /\ foundBEA => At(n).id # "NSR"
  BY <1>1, <1>2, PlaceFacts DEF UdfBegin, UdfOther, Scanning
<1>6. Before(n + 1) = Before(n) \cup {n} /\ n + 1 \in Start..ScanEnd
  BY <1>3, BeforeNext DEF UdfHead
<1>7. \A k \in Before(n) : k < n
  BY <1>3 DEF Before
<1>8. UdfHead(n + 1, bea)
  <2>1. \A k \in Before(n + 1) : Has(k) /\ At(k).id # "TEA01"
    BY <1>3, <1>5, <1>6 DEF UdfHead
  <2>2. bea <=> \E k \in Before(n + 1) : At(k).id = "BEA01"
    BY <1>3, <1>5, <1>6 DEF UdfHead
  <2>3. ASSUME NEW j \in Before(n + 1), NEW k \in Before(n + 1),
               j < k, At(j).id = "BEA01"
        PROVE  At(k).id # "NSR"
    <3>1. CASE k = n
      <4>1. j # n
        BY <1>3, <2>3, <3>1
      <4>2. foundBEA
        BY <1>3, <1>6, <2>3, <4>1 DEF UdfHead
      <4> QED BY <1>5, <3>1, <4>2
    <3>2. CASE k # n
      <4>1. k \in Before(n) /\ k < n
        BY <1>6, <1>7, <3>2
      <4>2. j # n
        BY <1>3, <2>3, <4>1 DEF Before
      <4>3. j \in Before(n)
        BY <1>6, <4>2
      <4> QED BY <1>3, <2>3, <4>1, <4>3 DEF UdfHead
    <3> QED BY <3>1, <3>2
  <2> QED BY <1>6, <2>1, <2>2, <2>3 DEF UdfHead
<1>9. Place("udf", n + 1, res, bea, faults) /\ File("udf", f')
  BY <1>3, <1>4, <1>8 DEF Place, File
<1> QED BY <1>2, <1>4, <1>9, MoveKeepsPlace, NoAnswer

LEMMA FoundKnown ==
  ASSUME Inv, UdfFound
  PROVE  Known' /\ ListsWhatIsThere' /\ RejectionIsJustified'
<1>1. PICK n : n = lba
  OBVIOUS
<1>2. /\ image \in Images /\ n \in Nat /\ UdfHead(n, foundBEA) /\ IsoDone(res, faults)
      /\ Has(n) /\ n < ScanEnd /\ f = "open" /\ Start \in Nat /\ ScanEnd \in Nat
      /\ foundBEA /\ At(n).id = "NSR"
  BY <1>1, PlaceFacts, ImageFacts DEF UdfFound, Scanning, Place, File
<1>3. /\ image' = image /\ f' = f /\ faults' = faults /\ foundBEA' = foundBEA
      /\ res' = res /\ pc' = "anchor" /\ lba' = n
  BY <1>1 DEF UdfFound, Goto
<1>4. UdfSequence
  <2>1. PICK b \in Before(n) : At(b).id = "BEA01"
    BY <1>2 DEF UdfHead
  <2>2. b \in Nat /\ b < n /\ Has(b)
    BY <1>2, <2>1, ImageFacts DEF UdfHead, Before
  <2>3. /\ b \in Sectors \cap 0..(ScanEnd - 1)
        /\ n \in Sectors \cap 0..(ScanEnd - 1)
    BY <1>2, <2>2, ImageFacts
  <2>4. \A k \in Start..n : At(k).id # "TEA01"
    <3>1. \A k \in Start..n : k \in Before(n) \/ k = n
      BY <1>2 DEF Before
    <3> QED BY <1>2, <3>1 DEF UdfHead
  <2> QED BY <1>2, <2>1, <2>2, <2>3, <2>4 DEF UdfSequence
<1>5. Place("anchor", n, res, foundBEA, faults) /\ File("anchor", f')
  BY <1>2, <1>3, <1>4 DEF Place, File
<1> QED BY <1>3, <1>5, MoveKeepsPlace, NoAnswer

-----------------------------------------------------------------------------
(***************************************************************************)
(* Answers.                                                                *)
(***************************************************************************)
\* A sector that ends the second scan without an answer: none follows.
LEMMA NoSequence ==
  ASSUME image \in Images, NEW n \in Nat, UdfHead(n, foundBEA),
         n = ScanEnd \/ (Has(n) /\ At(n).id = "TEA01")
  PROVE  ~UdfSequence
<1> SUFFICES ASSUME UdfSequence PROVE FALSE
  OBVIOUS
<1>1. PICK b, k \in Sectors \cap 0..(ScanEnd - 1) :
         /\ b < k /\ At(b).id = "BEA01" /\ At(k).id = "NSR"
         /\ \A j \in Start..k : At(j).id # "TEA01"
  BY DEF UdfSequence
<1>2. /\ Start \in Nat /\ ScanEnd \in Nat /\ n >= Start
      /\ b \in Nat /\ k \in Nat /\ b >= Start /\ k >= Start /\ k < ScanEnd
  BY <1>1, ImageFacts DEF UdfHead
<1>3. k < n
  <2>1. CASE n = ScanEnd
    BY <1>2, <2>1
  <2>2. CASE Has(n) /\ At(n).id = "TEA01"
    <3>1. ~(n \in Start..k)
      BY <1>1, <2>2
    <3> QED BY <1>2, <3>1
  <2> QED BY <2>1, <2>2
<1>4. b \in Before(n) /\ k \in Before(n)
  BY <1>1, <1>2, <1>3 DEF Before
<1> QED BY <1>1, <1>4 DEF UdfHead

\* An answer of udf.Probe that is right, but for a failed read, makes the
\* answer of Attach right.
LEMMA AnswerKnown ==
  ASSUME Inv, NEW has \in BOOLEAN, Answer(has), pc \in {"udf", "anchor"},
         has => "UDF" \in OnDisc,
         "UDF" \in OnDisc => has \/ "anchor" \in faults',
         faults \subseteq faults'
  PROVE  Known' /\ ListsWhatIsThere' /\ RejectionIsJustified'
<1>1. PICK failed : failed = faults'
  OBVIOUS
<1>2. /\ image \in Images /\ IsoDone(res, faults) /\ f = "open"
      /\ foundBEA \in BOOLEAN
  BY PlaceFacts DEF Place, File
<1>3. image' = image /\ lba' = lba /\ res' = res /\ foundBEA' = foundBEA
  BY DEF Answer, GiveUp
<1>4. /\ Layers(has) \in Seq(LayerNames)
      /\ \A l \in LayerNames :
           l \in Items(Layers(has)) <=>
             \/ l = "UDF" /\ has
             \/ l = "Joliet" /\ res.HasJoliet
             \/ l = "RockRidge" /\ res.HasRockRidge
             \/ l = "ISO9660" /\ res.HasISO9660
  BY LayersFacts
<1>5. /\ res.HasISO9660 <=> "ISO9660" \in OnDisc
      /\ res.HasJoliet <=> "Joliet" \in OnDisc
      /\ res.HasRockRidge => "RockRidge" \in OnDisc
      /\ "RockRidge" \in OnDisc => res.HasRockRidge \/ "root" \in faults
  BY <1>2, OnDiscFacts DEF IsoDone, Knows, KnowsRoot
<1>6. PICK found : found = Items(Layers(has))
  OBVIOUS
<1>7. found \subseteq LayerNames
  BY <1>4, <1>6 DEF Items
<1>8. /\ found \subseteq OnDisc
      /\ "RockRidge" \in OnDisc \ found => "root" \in failed
      /\ "UDF" \in OnDisc \ found => "anchor" \in failed
      /\ OnDisc \ found \subseteq {"RockRidge", "UDF"}
  <2>1. /\ "UDF" \in found <=> has
        /\ "Joliet" \in found <=> res.HasJoliet
        /\ "RockRidge" \in found <=> res.HasRockRidge
        /\ "ISO9660" \in found <=> res.HasISO9660
    BY <1>4, <1>6 DEF LayerNames
  <2> QED BY <1>1, <1>5, <1>7, <2>1, OnDiscFacts DEF LayerNames
<1>9. CASE Layers(has) # <<>> /\ fses' = Layers(has) /\ pc' = "attached" /\ f' = f
  <2>1. Place("attached", lba, res, foundBEA, failed) /\ File("attached", f')
    BY <1>2, <1>9 DEF Place, File
  <2>2. Known'
    BY <1>1, <1>3, <1>9, <2>1, MoveKeepsPlace
  <2>3. Found' = found
    BY <1>6, <1>9 DEF Found, Items
  <2>4. OnDisc' = OnDisc
    BY <1>3 DEF OnDisc, Sectors, IsPrimary, IsJoliet, InVDS, Has, At
  <2>5. ListsWhatIsThere'
    BY <1>1, <1>8, <2>3, <2>4 DEF ListsWhatIsThere
  <2>6. RejectionIsJustified'
    BY <1>9 DEF RejectionIsJustified
  <2> QED BY <2>2, <2>5, <2>6
<1>10. CASE Layers(has) = <<>> /\ pc' = "failed" /\ f' = "closed"
  <2>1. Place("failed", lba, res, foundBEA, failed) /\ File("failed", f')
    BY <1>10 DEF Place, File
  <2>2. Known'
    BY <1>1, <1>3, <1>10, <2>1, MoveKeepsPlace
  <2>3. OnDisc' = OnDisc
    BY <1>3 DEF OnDisc, Sectors, IsPrimary, IsJoliet, InVDS, Has, At
  <2>4. found = {}
    BY <1>6, <1>10 DEF Items
  <2>5. failed # {} \/ OnDisc = {}
    BY <1>8, <2>4
  <2>6. RejectionIsJustified'
    BY <1>1, <2>3, <2>5 DEF RejectionIsJustified
  <2>7. ListsWhatIsThere'
    BY <1>10 DEF ListsWhatIsThere
  <2> QED BY <2>2, <2>6, <2>7
<1> QED BY <1>9, <1>10 DEF Answer, GiveUp

LEMMA AbsentKnown ==
  ASSUME Inv, UdfAbsent
  PROVE  Known' /\ ListsWhatIsThere' /\ RejectionIsJustified'
<1>1. /\ image \in Images /\ lba \in Nat /\ UdfHead(lba, foundBEA) /\ pc = "udf"
  BY PlaceFacts DEF UdfAbsent, Place
<1>2. ~UdfSequence
  BY <1>1, NoSequence DEF UdfAbsent
<1>3. "UDF" \notin OnDisc
  BY <1>2, OnDiscFacts
<1> QED BY <1>1, <1>3, AnswerKnown DEF UdfAbsent

LEMMA AnchorKnown ==
  ASSUME Inv, UdfAnchor
  PROVE  Known' /\ ListsWhatIsThere' /\ RejectionIsJustified'
<1>1. image \in Images /\ UdfSequence /\ pc = "anchor"
  BY PlaceFacts DEF UdfAnchor, Place
<1>2. "UDF" \in OnDisc <=> image.anchor
  BY <1>1, OnDiscFacts
<1>3. CASE Answer(image.anchor) /\ faults' = faults
  BY <1>1, <1>2, <1>3, AnswerKnown, ImageFacts
<1>4. CASE Answer(FALSE) /\ faults' = faults \cup {"anchor"}
  BY <1>1, <1>4, AnswerKnown
<1> QED BY <1>3, <1>4 DEF UdfAnchor

\* A read fails because it fails, or because the image ends there.
LEMMA FailsKnown ==
  ASSUME Inv, ProbeFails
  PROVE  Known' /\ ListsWhatIsThere' /\ RejectionIsJustified'
<1>1. PICK failed : failed = faults'
  OBVIOUS
<1>2. PICK n : n = lba
  OBVIOUS
<1>3. /\ image \in Images /\ n \in Nat /\ foundBEA \in BOOLEAN
      /\ Place(pc, n, res, foundBEA, faults)
      /\ Len(image.sectors) \in Nat /\ Start \in Nat /\ ScanEnd \in Nat
  BY <1>2, PlaceFacts, ImageFacts
<1>4. /\ image' = image /\ lba' = n /\ res' = res /\ foundBEA' = foundBEA
      /\ pc' = "failed" /\ f' = "closed"
  BY <1>2 DEF ProbeFails, GiveUp
<1>5. Place("failed", n, res, foundBEA, failed) /\ File("failed", f')
  BY <1>4 DEF Place, File
<1>6. Known'
  BY <1>1, <1>4, <1>5, MoveKeepsPlace
<1>7. \/ failed # {}
      \/ Len(image.sectors) < ScanEnd - Start
      \/ \A k \in Sectors : InVDS(k)
  <2>1. CASE Has(n)
    BY <1>1, <1>2, <2>1 DEF ProbeFails
  <2>2. CASE ~Has(n) /\ pc = "iso"
    <3>1. Clean(n) /\ n >= Start
      BY <1>3, <2>2 DEF Place, IsoHead, Clean
    <3>2. n >= Start + Len(image.sectors)
      BY <1>3, <2>2, <3>1 DEF Has
    <3>3. \A k \in Sectors : k \in Before(n)
      BY <1>3, <3>2 DEF Sectors, Before
    <3> QED BY <1>3, <3>1, <3>3, CleanInVDS
  <2>3. CASE ~Has(n) /\ pc = "udf" /\ n < ScanEnd
    <3>1. n >= Start
      BY <1>3, <2>3 DEF Place, UdfHead
    <3>2. n >= Start + Len(image.sectors)
      BY <1>3, <2>3, <3>1 DEF Has
    <3> QED BY <1>3, <2>3, <3>2
  <2> QED BY <1>2, <2>1, <2>2, <2>3 DEF ProbeFails
<1>8. RejectionIsJustified'
  BY <1>1, <1>4, <1>7
     DEF RejectionIsJustified, Sectors, InVDS, Has, At
<1>9. ListsWhatIsThere'
  BY <1>4 DEF ListsWhatIsThere
<1> QED BY <1>6, <1>8, <1>9

-----------------------------------------------------------------------------
(***************************************************************************)
(* The theorems.                                                           *)
(***************************************************************************)
LEMMA InitInv == AttachInit => Inv
<1> SUFFICES ASSUME AttachInit PROVE Inv
  OBVIOUS
<1>1. TypeOK
  <2>1. Start \in Nat /\ fses \in Seq({"UDF", "Joliet", "RockRidge", "ISO9660"})
    BY ImagesAssumption DEF AttachInit
  <2>2. res \in [HasISO9660 : BOOLEAN, HasJoliet : BOOLEAN, HasRockRidge : BOOLEAN,
                 PvdSector : Nat, SvdSector : Nat]
    BY DEF AttachInit, NoResult
  <2>3. Met(res)
    BY DEF AttachInit, NoResult, Met
  <2> QED BY <2>1, <2>2, <2>3 DEF AttachInit, TypeOK
<1>2. Place(pc, lba, res, foundBEA, faults) /\ File(pc, f)
  BY DEF AttachInit, Place, File
<1> QED BY <1>1, <1>2 DEF AttachInit, Inv, ListsWhatIsThere, RejectionIsJustified

LEMMA StepInv == Inv /\ AttachNext => Inv'
<1> SUFFICES ASSUME Inv, AttachNext PROVE Inv'
  OBVIOUS
<1>1. Known' /\ ListsWhatIsThere' /\ RejectionIsJustified'
  BY OpenKnown, PrimaryKnown, RootKnown, DescriptorKnown, EndKnown, UdfTurnKnown,
     FoundKnown, AbsentKnown, AnchorKnown, FailsKnown DEF AttachNext
<1>2. TypeOK'
  BY TypesKept
<1> QED BY <1>1, <1>2 DEF Inv, Known

LEMMA NextInv == Inv /\ [AttachNext]_attachVars => Inv'
<1> SUFFICES ASSUME Inv, [AttachNext]_attachVars PROVE Inv'
  OBVIOUS
<1>1. CASE AttachNext
  BY <1>1, StepInv
<1>2. CASE UNCHANGED attachVars
  <2>1. /\ image' = image /\ f' = f /\ pc' = pc /\ lba' = lba /\ res' = res
        /\ foundBEA' = foundBEA /\ faults' = faults /\ fses' = fses
    BY <1>2 DEF attachVars, probing
  <2>2. TypeOK'
    BY <2>1, MetKept DEF Inv, TypeOK
  <2>3. Place(pc, lba, res, foundBEA, faults) /\ File(pc, f')
    BY <2>1 DEF Inv
  <2>4. Known'
    BY <2>1, <2>3, MoveKeepsPlace
  <2>5. OnDisc' = OnDisc
    BY <2>1 DEF OnDisc, Sectors, IsPrimary, IsJoliet, InVDS, Has, At
  <2>6. Found' = Found
    BY <2>1 DEF Found
  <2>7. (\A n \in Sectors : InVDS(n))' <=> \A n \in Sectors : InVDS(n)
    BY <2>1 DEF Sectors, InVDS, Has, At
  <2>8. ListsWhatIsThere'
    BY <2>1, <2>5, <2>6 DEF Inv, ListsWhatIsThere
  <2>9. RejectionIsJustified'
    BY <2>1, <2>5, <2>7 DEF Inv, RejectionIsJustified
  <2> QED BY <2>2, <2>4, <2>8, <2>9 DEF Inv, Known
<1> QED BY <1>1, <1>2

\* The invariant of the two scans, on any image (attach.go:22-61,
\* iso9660/detect.go:30-76, udf/detect.go:24-66).
THEOREM Invariance == Spec => []Inv
<1> QED BY InitInv, NextInv, PTL DEF Spec

\* Types hold on any image: no layer is listed that the code has no name for,
\* and the two sectors of a result are those of a primary and of a Joliet
\* descriptor of the set (attach.go:22-61, iso9660/detect.go:42-76).
THEOREM TypeCorrect == Spec => []TypeOK
<1>1. Inv => TypeOK
  BY DEF Inv
<1> QED BY <1>1, Invariance, PTL

\* On any image, however long its descriptor set, Attach lists what the disc
\* holds, and a failed read hides no more than it may (attach.go:34-61).
THEOREM ListsTheDisc == Spec => []ListsWhatIsThere
<1>1. Inv => ListsWhatIsThere
  BY DEF Inv
<1> QED BY <1>1, Invariance, PTL

\* No path out of Attach leaks the file or hands out a closed one
\* (attach.go:22-32).
THEOREM FileOwned == Spec => []NoLeakedFile
<1>1. Inv => NoLeakedFile
  BY DEF Inv, File, NoLeakedFile
<1> QED BY <1>1, Invariance, PTL

\* On any image, Attach rejects only for a reason (attach.go:28-61).
THEOREM Rejections == Spec => []RejectionIsJustified
<1>1. Inv => RejectionIsJustified
  BY DEF Inv
<1> QED BY <1>1, Invariance, PTL

-----------------------------------------------------------------------------
(***************************************************************************)
(* Mount and Detach.                                                       *)
(***************************************************************************)
Working == {"udf", "find", "descriptor", "list"}

\* A reason not to give layer l.
Passed(l, failed) == Content(l) # "entries" \/ l \in failed

\* The layer the call r is at.
LayerInv(r) ==
  /\ r.layer \in Found
  /\ r.vol = NoVolume
  /\ r.want = "auto" => r.i \in 1..Len(fses) /\ r.layer = fses[r.i]
  /\ r.want # "auto" => r.layer = r.want

\* The descriptor the call r is at.
PlaceInv(r) ==
  /\ r.pc = "udf" => r.layer = "UDF"
  /\ r.pc = "find" =>
       /\ r.layer = "Joliet" /\ r.vd >= Start
       /\ \A k \in Sectors : IsJoliet(k) => r.vd <= k
  /\ r.pc \in {"descriptor", "list"} =>
       /\ r.layer = "Joliet" => FirstJoliet(r.vd)
       /\ r.layer \in {"RockRidge", "ISO9660"} => r.vd = Start
  /\ r.pc = "descriptor" => r.layer # "UDF"
  /\ r.pc = "list" => r.want = "auto"

AutoInv(r) ==
  /\ r.pc = "next" =>
       r.want = "auto" /\ r.vol = NoVolume /\ r.i \in 1..(Len(fses) + 1)
  /\ r.want = "auto" /\ r.pc # "idle" =>
       \A j \in 1..Len(fses) : j < r.i => Passed(fses[j], r.failed)
  /\ r.want = "auto" /\ r.pc = "done" =>
       \/ r.vol = NoVolume /\ r.i > Len(fses)
       \/ /\ r.i \in 1..Len(fses) /\ r.vol.layer = fses[r.i]
          /\ Content(r.vol.layer) = "entries"

NamedInv(r) ==
  r.pc = "done" /\ r.want \in Found =>
    \/ r.vol.layer = r.want
    \/ r.want \in r.failed
    \/ r.want = "UDF" /\ image.udf = "unopenable"

CallInv(r) ==
  /\ r.pc = "idle" => r = Unmounted
  /\ r.pc # "idle" => pc = "attached"
  /\ r.pc \in Working => LayerInv(r) /\ PlaceInv(r)
  /\ AutoInv(r)
  /\ NamedInv(r)
  /\ r.vol.layer = "Joliet" => FirstJoliet(r.vol.vd)
  /\ r.late => f = "closed" /\ r.vol = NoVolume

Released ==
  /\ pc # "attached" => handle = "file" /\ detached = "none"
  /\ detached # "none" => f = "closed"
  /\ handle = "nil" => f = "closed"

\* What Attach has established.  Only Detach, later, closes the file.
Attached ==
  /\ TypeOK /\ ListsWhatIsThere
  /\ pc # "attached" => Inv

DiscInv == DiscTypeOK /\ Attached /\ Released /\ CallInv(m)

-----------------------------------------------------------------------------
(***************************************************************************)
(* Layers and descriptors of the image.                                    *)
(***************************************************************************)
LEMMA FoundFacts ==
  ASSUME Attached, pc = "attached"
  PROVE  /\ image \in Images /\ Found \subseteq OnDisc /\ "auto" \notin Found
         /\ Found \subseteq AllLayers
         /\ fses \in Seq(AllLayers) /\ Len(fses) \in Nat
         /\ \A j \in 1..Len(fses) : fses[j] \in Found
<1>1. /\ image \in Images /\ Found \subseteq OnDisc
      /\ fses \in Seq({"UDF", "Joliet", "RockRidge", "ISO9660"})
  BY DEF Attached, TypeOK, ListsWhatIsThere
<1>2. fses \in Seq(AllLayers) /\ Len(fses) \in Nat
  BY <1>1 DEF AllLayers
<1>3. \A j \in 1..Len(fses) : fses[j] \in Found
  BY DEF Found
<1>4. Found \subseteq AllLayers /\ "auto" \notin Found
  BY <1>1, OnDiscFacts DEF AllLayers
<1> QED BY <1>1, <1>2, <1>3, <1>4

\* An ISO 9660 layer has a first descriptor, and a Joliet layer one no scan
\* from the first sector on can miss.
LEMMA DescriptorFacts ==
  ASSUME Attached, pc = "attached"
  PROVE  /\ Found \cap {"RockRidge", "ISO9660"} # {} => Has(Start)
         /\ "Joliet" \in Found => \E k \in Sectors : IsJoliet(k)
<1>1. image \in Images /\ Found \subseteq OnDisc
  BY FoundFacts
<1>2. ASSUME NEW n, IsPrimary(n) PROVE Has(Start)
  <2>1. Has(n)
    BY <1>2 DEF IsPrimary, InVDS
  <2> QED BY <1>1, <2>1, ImageFacts DEF Has
<1>3. Found \cap {"RockRidge", "ISO9660"} # {} => Has(Start)
  BY <1>1, <1>2, OnDiscFacts DEF Susp
<1> QED BY <1>1, <1>3, OnDiscFacts

\* What the scan of findVD meets from a place at or before the first Joliet
\* descriptor of the set.
LEMMA ScanFacts ==
  ASSUME image \in Images, NEW n \in Nat, n >= Start,
         \E k \in Sectors : IsJoliet(k),
         \A k \in Sectors : IsJoliet(k) => n <= k
  PROVE  /\ Has(n) /\ At(n).type # "terminator"
         /\ At(n).type = "supp" /\ At(n).id = "CD001" /\ At(n).joliet => FirstJoliet(n)
         /\ ~(At(n).type = "supp" /\ At(n).id = "CD001" /\ At(n).joliet) =>
              \A k \in Sectors : IsJoliet(k) => n + 1 <= k
<1>1. PICK j \in Sectors : IsJoliet(j)
  OBVIOUS
<1>2. /\ Start \in Nat /\ j \in Nat /\ n <= j /\ Len(image.sectors) \in Nat
      /\ InVDS(j) /\ Has(j)
  BY <1>1, ImageFacts DEF IsJoliet, InVDS
<1>3. Has(n)
  BY <1>2 DEF Has
<1>4. \A k \in Start..n : At(k).id = "CD001" /\ At(k).type # "terminator"
  <2>1. \A k \in Start..n : k \in Start..j
    BY <1>2
  <2> QED BY <1>2, <2>1 DEF InVDS
<1>5. InVDS(n) /\ At(n).type # "terminator"
  <2>1. n \in Start..n
    BY <1>2
  <2> QED BY <1>3, <1>4, <2>1 DEF InVDS
<1>6. n \in Sectors
  BY <1>3, ImageFacts
<1>7. ASSUME At(n).type = "supp" /\ At(n).id = "CD001" /\ At(n).joliet
      PROVE  FirstJoliet(n)
  BY <1>5, <1>7 DEF IsJoliet, FirstJoliet
<1>8. ASSUME ~(At(n).type = "supp" /\ At(n).id = "CD001" /\ At(n).joliet)
      PROVE  \A k \in Sectors : IsJoliet(k) => n + 1 <= k
  <2> SUFFICES ASSUME NEW k \in Sectors, IsJoliet(k) PROVE n + 1 <= k
    OBVIOUS
  <2>1. k \in Nat /\ n <= k
    BY ImageFacts
  <2>2. At(k).id = "CD001"
    <3>1. InVDS(k) /\ k \in Start..k
      BY <1>2, <2>1 DEF IsJoliet
    <3> QED BY <3>1 DEF InVDS
  <2>3. k # n
    BY <1>8, <2>2 DEF IsJoliet
  <2> QED BY <2>1, <2>3
<1> QED BY <1>3, <1>5, <1>7, <1>8

\* There is one first Joliet descriptor, so a listing of its root is a
\* listing of the layer's.
LEMMA FirstIsOne ==
  ASSUME image \in Images, NEW n, FirstJoliet(n)
  PROVE  n \in Nat /\ Has(n) /\ Content("Joliet") = At(n).root
<1>1. \A k : FirstJoliet(k) => k \in Sectors /\ Has(k) /\ k \in Nat
  BY ImageFacts DEF FirstJoliet, IsJoliet, InVDS
<1>2. \A k \in Sectors : FirstJoliet(k) => k = n
  <2> SUFFICES ASSUME NEW k \in Sectors, FirstJoliet(k) PROVE k = n
    OBVIOUS
  <2>1. k <= n /\ n <= k
    BY <1>1 DEF FirstJoliet
  <2> QED BY <1>1, <2>1
<1>3. PICK c : c = CHOOSE k \in Sectors : FirstJoliet(k)
  OBVIOUS
<1>4. c = n
  BY <1>1, <1>2, <1>3
<1>5. Content("Joliet") = At(c).root
  BY <1>3 DEF Content
<1> QED BY <1>1, <1>4, <1>5

LEMMA RootFacts ==
  ASSUME Attached, pc = "attached", NEW r, r.pc = "list",
         LayerInv(r), PlaceInv(r)
  PROVE  RootOf(r) = Content(r.layer)
<1>1. image \in Images /\ r.layer \in AllLayers
  BY FoundFacts DEF LayerInv
<1>2. CASE r.layer = "UDF"
  BY <1>2 DEF RootOf, Content
<1>3. CASE r.layer = "Joliet"
  BY <1>1, <1>3, FirstIsOne DEF RootOf, PlaceInv
<1>4. CASE r.layer \in {"RockRidge", "ISO9660"}
  BY <1>4 DEF RootOf, PlaceInv, Content
<1> QED BY <1>1, <1>2, <1>3, <1>4 DEF AllLayers

-----------------------------------------------------------------------------
(***************************************************************************)
(* A step of Mount moves m alone: it is enough to look at what it leaves.  *)
(***************************************************************************)
CallType ==
  [pc : {"idle", "next", "udf", "find", "descriptor", "list", "done"},
   want : AllLayers \cup {"auto"}, i : Nat, layer : AllLayers \cup {"none"},
   vd : Nat, vol : [layer : AllLayers \cup {"none"}, vd : Nat],
   late : BOOLEAN, failed : SUBSET AllLayers]

LEMMA SameImage ==
  ASSUME image' = image, fses' = fses
  PROVE  /\ Found' = Found /\ OnDisc' = OnDisc /\ Sectors' = Sectors
         /\ \A n : IsJoliet(n)' <=> IsJoliet(n)
         /\ \A n : FirstJoliet(n)' <=> FirstJoliet(n)
         /\ \A l : Content(l)' = Content(l)
<1>1. Found' = Found /\ Sectors' = Sectors
  BY DEF Found, Sectors
<1>2. OnDisc' = OnDisc
  BY DEF OnDisc, Sectors, IsPrimary, IsJoliet, InVDS, Has, At
<1>3. \A n : IsJoliet(n)' <=> IsJoliet(n)
  BY DEF IsJoliet, InVDS, Has, At
<1>4. \A n : FirstJoliet(n)' <=> FirstJoliet(n)
  BY <1>1, <1>3 DEF FirstJoliet
<1>5. \A l : Content(l)' = Content(l)
  BY <1>1, <1>4 DEF Content, At
<1> QED BY <1>1, <1>2, <1>3, <1>4, <1>5

\* The invariant of a call speaks of the image, the list, and the file once
\* it is closed.
LEMMA CallKept ==
  ASSUME image' = image, fses' = fses, pc' = pc, f = "closed" => f' = "closed",
         NEW r, m' = r, CallInv(r)
  PROVE  CallInv(m)'
<1>1. /\ Found' = Found /\ Sectors' = Sectors
      /\ \A n : IsJoliet(n)' <=> IsJoliet(n)
      /\ \A n : FirstJoliet(n)' <=> FirstJoliet(n)
      /\ \A l : Content(l)' = Content(l)
  BY SameImage
<1>2. LayerInv(r) => LayerInv(m)'
  BY <1>1 DEF LayerInv
<1>3. PlaceInv(r) => PlaceInv(m)'
  BY <1>1 DEF PlaceInv
<1>4. AutoInv(r) => AutoInv(m)'
  BY <1>1 DEF AutoInv, Passed
<1>5. NamedInv(r) => NamedInv(m)'
  BY <1>1 DEF NamedInv
<1>6. m' = r
  OBVIOUS
<1> QED BY <1>1, <1>2, <1>3, <1>4, <1>5, <1>6 DEF CallInv

LEMMA MountKeeps ==
  ASSUME DiscInv, NEW r \in CallType, MountTo(r), CallInv(r)
  PROVE  DiscInv'
<1>1. /\ image' = image /\ f' = f /\ pc' = pc /\ lba' = lba /\ res' = res
      /\ foundBEA' = foundBEA /\ fses' = fses /\ faults' = faults
      /\ handle' = handle /\ detached' = detached /\ m' = r
  BY DEF MountTo, attachVars, probing
<1>2. DiscTypeOK'
  <2>1. r.pc \in Working => r.layer \in Found
    BY DEF CallInv, LayerInv
  <2> QED BY <1>1, <2>1, SameImage DEF DiscInv, DiscTypeOK, CallType, Working
<1>3. Released'
  BY <1>1 DEF DiscInv, Released
<1>4. Attached'
  <2>1. ListsWhatIsThere' /\ TypeOK'
    BY <1>1, SameImage, MetKept DEF DiscInv, Attached, ListsWhatIsThere, TypeOK
  <2>2. pc # "attached" => UNCHANGED attachVars
    BY <1>1 DEF attachVars, probing
  <2>3. pc # "attached" => Inv'
    BY <2>2, NextInv DEF DiscInv, Attached
  <2> QED BY <1>1, <2>1, <2>3 DEF Attached
<1>5. CallInv(m)'
  BY <1>1, CallKept
<1> QED BY <1>2, <1>3, <1>4, <1>5 DEF DiscInv

LEMMA CallFacts ==
  ASSUME DiscInv
  PROVE  /\ m \in CallType /\ CallInv(m) /\ Attached /\ Released
         /\ m.i \in Nat /\ m.vd \in Nat /\ m.layer \in AllLayers \cup {"none"}
         /\ m.failed \subseteq AllLayers /\ m.want \in AllLayers \cup {"auto"}
         /\ Start \in Nat
<1>1. m \in CallType /\ CallInv(m) /\ Attached /\ Released
  BY DEF DiscInv, DiscTypeOK, CallType
<1>2. Start \in Nat
  BY ImagesAssumption
<1> QED BY <1>1, <1>2 DEF CallType

\* The call begins to open a layer that Attach has listed.
LEMMA OpeningKnown ==
  ASSUME Attached, pc = "attached", NEW r \in CallType, r.pc \in {"idle", "next"},
         r.vol = NoVolume, r.late => f = "closed", NEW l \in Found,
         r.want # "auto" => l = r.want,
         r.want = "auto" =>
           /\ r.i \in 1..Len(fses) /\ l = fses[r.i]
           /\ \A j \in 1..Len(fses) : j < r.i => Passed(fses[j], r.failed)
  PROVE  Opening(r, l) \in CallType /\ CallInv(Opening(r, l))
<1>1. /\ image \in Images /\ l \in AllLayers /\ Start \in Nat
  BY FoundFacts, ImagesAssumption
<1>2. PICK q : q = Opening(r, l)
  OBVIOUS
<1>3. PICK place : place = CASE l = "UDF"    -> "udf"
                             [] l = "Joliet" -> "find"
                             [] OTHER        -> "descriptor"
  OBVIOUS
<1>4. /\ place \in Working
      /\ place = "udf" => l = "UDF"
      /\ place = "find" => l = "Joliet"
      /\ place = "descriptor" => l \in {"RockRidge", "ISO9660"}
      /\ place # "list"
  BY <1>1, <1>3 DEF Working, AllLayers
<1>5. q = [r EXCEPT !.layer = l, !.vd = Start, !.pc = place]
  BY <1>2, <1>3 DEF Opening
<1>6. /\ q \in CallType /\ q.layer = l /\ q.vd = Start /\ q.pc = place
      /\ q.vol = r.vol /\ q.want = r.want /\ q.i = r.i /\ q.failed = r.failed
      /\ q.late = r.late
  BY <1>1, <1>4, <1>5 DEF CallType, Working
<1>7. LayerInv(q)
  BY <1>6 DEF LayerInv
<1>8. PlaceInv(q)
  <2>1. \A k \in Sectors : Start <= k
    BY <1>1, ImageFacts
  <2> QED BY <1>1, <1>4, <1>6, <2>1 DEF PlaceInv
<1>9. AutoInv(q)
  BY <1>4, <1>6 DEF AutoInv, Working
<1>10. NamedInv(q) /\ q.pc # "idle" /\ q.vol.layer # "Joliet"
  BY <1>4, <1>6 DEF NamedInv, Working, NoVolume
<1> QED BY <1>2, <1>6, <1>7, <1>8, <1>9, <1>10 DEF CallInv

\* The layer the call is at is not given, for a reason.
LEMMA FailingKnown ==
  ASSUME Attached, pc = "attached", NEW r \in CallType, r.pc \in Working,
         LayerInv(r), AutoInv(r), r.late => f = "closed",
         Passed(r.layer, r.failed),
         r.want # "auto" => r.layer \in r.failed
                              \/ (r.layer = "UDF" /\ image.udf = "unopenable")
  PROVE  Failing(r) \in CallType /\ CallInv(Failing(r))
<1>1. PICK q : q = Failing(r)
  OBVIOUS
<1>2. r.i \in Nat /\ Len(fses) \in Nat
  BY FoundFacts DEF CallType
<1>3. r.vol = NoVolume
  BY DEF LayerInv
<1>4. CASE r.want = "auto"
  <2>1. q = [r EXCEPT !.pc = "next", !.i = @ + 1]
    BY <1>1, <1>4 DEF Failing
  <2>2. r.i + 1 \in Nat
    BY <1>2
  <2>3. /\ q \in CallType /\ q.pc = "next" /\ q.i = r.i + 1 /\ q.vol = NoVolume
        /\ q.want = "auto" /\ q.failed = r.failed /\ q.late = r.late
    BY <1>3, <1>4, <2>1, <2>2 DEF CallType
  <2>4. r.i \in 1..Len(fses) /\ r.layer = fses[r.i]
    BY <1>4 DEF LayerInv
  <2>5. ASSUME NEW j \in 1..Len(fses), j < r.i + 1
        PROVE  Passed(fses[j], r.failed)
    <3>1. CASE j = r.i
      BY <2>4, <3>1
    <3>2. CASE j # r.i
      <4>1. j < r.i
        BY <1>2, <2>5, <3>2
      <4> QED BY <1>4, <4>1 DEF AutoInv, Working
    <3> QED BY <3>1, <3>2
  <2>6. q.i \in 1..(Len(fses) + 1)
    BY <1>2, <2>3, <2>4
  <2>7. AutoInv(q)
    BY <2>3, <2>5, <2>6 DEF AutoInv
  <2>8. NamedInv(q) /\ q.pc \notin Working /\ q.vol.layer # "Joliet"
    BY <2>3 DEF NamedInv, Working, NoVolume
  <2> QED BY <1>1, <2>3, <2>7, <2>8 DEF CallInv
<1>5. CASE r.want # "auto"
  <2>1. q = [r EXCEPT !.pc = "done"]
    BY <1>1, <1>5 DEF Failing
  <2>2. /\ q \in CallType /\ q.pc = "done" /\ q.vol = NoVolume
        /\ q.want = r.want /\ q.failed = r.failed /\ q.late = r.late
    BY <1>3, <2>1 DEF CallType
  <2>3. AutoInv(q)
    BY <1>5, <2>2 DEF AutoInv
  <2>4. NamedInv(q)
    BY <1>5, <2>2 DEF NamedInv, LayerInv
  <2>5. q.pc \notin Working /\ q.vol.layer # "Joliet"
    BY <2>2 DEF Working, NoVolume
  <2> QED BY <1>1, <2>2, <2>3, <2>4, <2>5 DEF CallInv
<1> QED BY <1>4, <1>5

\* The layer the call is at opens.
LEMMA OpenedKnown ==
  ASSUME Attached, pc = "attached", f = "open", NEW r \in CallType,
         r.pc \in {"udf", "descriptor"}, CallInv(r)
  PROVE  Opened(r) \in CallType /\ CallInv(Opened(r))
<1>1. PICK q : q = Opened(r)
  OBVIOUS
<1>2. /\ LayerInv(r) /\ PlaceInv(r) /\ AutoInv(r) /\ ~r.late /\ r.vol = NoVolume
      /\ r.layer \in AllLayers /\ r.vd \in Nat
  BY FoundFacts DEF CallInv, Working, LayerInv, CallType
<1>3. CASE r.want = "auto"
  <2>1. q = [r EXCEPT !.pc = "list"]
    BY <1>1, <1>3 DEF Opened
  <2>2. /\ q \in CallType /\ q.pc = "list" /\ q.vol = NoVolume /\ q.want = "auto"
        /\ q.layer = r.layer /\ q.vd = r.vd /\ q.i = r.i
        /\ q.failed = r.failed /\ q.late = r.late
    BY <1>2, <1>3, <2>1 DEF CallType
  <2>3. LayerInv(q)
    BY <1>2, <1>3, <2>2 DEF LayerInv
  <2>4. PlaceInv(q)
    BY <1>2, <2>2 DEF PlaceInv
  <2>5. AutoInv(q)
    BY <1>2, <1>3, <2>2 DEF AutoInv
  <2>6. NamedInv(q) /\ q.vol.layer # "Joliet"
    BY <2>2 DEF NamedInv, NoVolume
  <2> QED BY <1>1, <1>2, <2>2, <2>3, <2>4, <2>5, <2>6 DEF CallInv
<1>4. CASE r.want # "auto"
  <2>1. q = [r EXCEPT !.pc = "done", !.vol = [layer |-> r.layer, vd |-> r.vd]]
    BY <1>1, <1>4 DEF Opened
  <2>2. [layer |-> r.layer, vd |-> r.vd] \in [layer : AllLayers \cup {"none"}, vd : Nat]
    BY <1>2
  <2>3. /\ q \in CallType /\ q.pc = "done" /\ q.want = r.want
        /\ q.vol.layer = r.layer /\ q.vol.vd = r.vd
        /\ q.failed = r.failed /\ q.late = r.late
    BY <2>1, <2>2 DEF CallType
  <2>4. AutoInv(q)
    BY <1>4, <2>3 DEF AutoInv
  <2>5. NamedInv(q)
    BY <1>2, <1>4, <2>3 DEF NamedInv, LayerInv
  <2>6. q.vol.layer = "Joliet" => FirstJoliet(q.vol.vd)
    BY <1>2, <2>3 DEF PlaceInv
  <2>7. q.pc \notin Working
    BY <2>3 DEF Working
  <2> QED BY <1>1, <1>2, <2>3, <2>4, <2>5, <2>6, <2>7 DEF CallInv
<1> QED BY <1>3, <1>4

-----------------------------------------------------------------------------
(***************************************************************************)
(* The steps of Mount.                                                     *)
(***************************************************************************)
LEMMA CallBegins ==
  ASSUME DiscInv, NEW want \in AllLayers \cup {"auto"}, MountCall(want)
  PROVE  DiscInv'
<1>1. /\ Attached /\ Released /\ pc = "attached" /\ Start \in Nat
  BY CallFacts DEF MountCall
<1>2. /\ Found \subseteq AllLayers /\ "auto" \notin Found /\ Len(fses) \in Nat
  BY <1>1, FoundFacts
<1>3. PICK r : r = [Unmounted EXCEPT !.want = want, !.late = (handle = "nil")]
  OBVIOUS
<1>4. /\ Unmounted \in CallType
  BY DEF Unmounted, CallType, NoVolume
<1>5. /\ r \in CallType /\ r.pc = "idle" /\ r.want = want /\ r.i = 1
      /\ r.vol = NoVolume /\ r.late = (handle = "nil") /\ r.failed = {}
  <2>1. (handle = "nil") \in BOOLEAN
    OBVIOUS
  <2> QED BY <1>3, <1>4, <2>1 DEF Unmounted, CallType
<1>6. r.late => f = "closed"
  BY <1>1, <1>5 DEF Released
<1>7. CASE want = "auto"
  <2>1. PICK q : q = [r EXCEPT !.pc = "next"]
    OBVIOUS
  <2>2. MountTo(q)
    BY <1>2, <1>3, <1>7, <2>1 DEF MountCall
  <2>3. /\ q \in CallType /\ q.pc = "next" /\ q.want = "auto" /\ q.i = 1
        /\ q.vol = NoVolume /\ q.late = r.late /\ q.failed = {}
    BY <1>5, <1>7, <2>1 DEF CallType
  <2>4. \A j \in 1..Len(fses) : ~(j < 1)
    BY <1>2
  <2>5. 1 \in 1..(Len(fses) + 1)
    BY <1>2
  <2>6. AutoInv(q)
    BY <2>3, <2>4, <2>5 DEF AutoInv
  <2>7. NamedInv(q) /\ q.pc \notin Working /\ q.vol.layer # "Joliet"
    BY <2>3 DEF NamedInv, Working, NoVolume
  <2>8. CallInv(q)
    BY <1>1, <1>6, <2>3, <2>6, <2>7 DEF CallInv
  <2> QED BY <2>2, <2>3, <2>8, MountKeeps
<1>8. CASE want \in Found
  <2>1. want # "auto"
    BY <1>2, <1>8
  <2>2. MountTo(Opening(r, want))
    BY <1>3, <1>8, <2>1 DEF MountCall
  <2>3. Opening(r, want) \in CallType /\ CallInv(Opening(r, want))
    BY <1>1, <1>5, <1>6, <1>8, <2>1, OpeningKnown
  <2> QED BY <2>2, <2>3, MountKeeps
<1>9. CASE want # "auto" /\ want \notin Found
  <2>1. PICK q : q = [r EXCEPT !.pc = "done"]
    OBVIOUS
  <2>2. MountTo(q)
    BY <1>3, <1>9, <2>1 DEF MountCall
  <2>3. /\ q \in CallType /\ q.pc = "done" /\ q.want = want
        /\ q.vol = NoVolume /\ q.late = r.late
    BY <1>5, <2>1 DEF CallType
  <2>4. AutoInv(q) /\ NamedInv(q)
    BY <1>9, <2>3 DEF AutoInv, NamedInv
  <2>5. q.pc \notin Working /\ q.vol.layer # "Joliet"
    BY <2>3 DEF Working, NoVolume
  <2>6. CallInv(q)
    BY <1>1, <1>6, <2>3, <2>4, <2>5 DEF CallInv
  <2> QED BY <2>2, <2>3, <2>6, MountKeeps
<1> QED BY <1>7, <1>8, <1>9

LEMMA ListGoesOn ==
  ASSUME DiscInv, MountNext \/ MountNone
  PROVE  DiscInv'
<1>1. PICK r : r = m
  OBVIOUS
<1>2. /\ r \in CallType /\ CallInv(r) /\ Attached /\ r.pc = "next" /\ r.i \in Nat
  BY <1>1, CallFacts DEF MountNext, MountNone
<1>3. /\ pc = "attached" /\ AutoInv(r) /\ r.want = "auto" /\ r.vol = NoVolume
      /\ r.i \in 1..(Len(fses) + 1) /\ (r.late => f = "closed")
  BY <1>2 DEF CallInv, AutoInv
<1>4. Len(fses) \in Nat /\ \A j \in 1..Len(fses) : fses[j] \in Found
  BY <1>2, <1>3, FoundFacts
<1>5. CASE MountNext
  <2>1. PICK l : l = fses[r.i]
    OBVIOUS
  <2>2. r.i \in 1..Len(fses) /\ MountTo(Opening(r, l))
    BY <1>1, <1>3, <1>4, <1>5, <2>1 DEF MountNext
  <2>3. l \in Found
    BY <1>4, <2>1, <2>2
  <2>4. \A j \in 1..Len(fses) : j < r.i => Passed(fses[j], r.failed)
    BY <1>2, <1>3 DEF AutoInv
  <2>5. Opening(r, l) \in CallType /\ CallInv(Opening(r, l))
    BY <1>2, <1>3, <2>1, <2>2, <2>3, <2>4, OpeningKnown
  <2> QED BY <2>2, <2>5, MountKeeps
<1>6. CASE MountNone
  <2>1. PICK q : q = [r EXCEPT !.pc = "done"]
    OBVIOUS
  <2>2. r.i > Len(fses) /\ MountTo(q)
    BY <1>1, <1>6, <2>1 DEF MountNone
  <2>3. /\ q \in CallType /\ q.pc = "done" /\ q.want = "auto" /\ q.i = r.i
        /\ q.vol = NoVolume /\ q.late = r.late /\ q.failed = r.failed
    BY <1>2, <1>3, <2>1 DEF CallType
  <2>4. AutoInv(q)
    BY <1>2, <1>3, <2>2, <2>3 DEF AutoInv
  <2>5. NamedInv(q)
    BY <1>2, <1>3, <2>3, FoundFacts DEF NamedInv
  <2>6. q.pc \notin Working /\ q.vol.layer # "Joliet"
    BY <2>3 DEF Working, NoVolume
  <2>7. CallInv(q)
    BY <1>3, <2>3, <2>4, <2>5, <2>6 DEF CallInv
  <2> QED BY <2>2, <2>3, <2>7, MountKeeps
<1> QED BY <1>5, <1>6

\* What is known of a call at a read.
LEMMA AtRead ==
  ASSUME DiscInv, m.pc \in Working
  PROVE  /\ m \in CallType /\ CallInv(m) /\ Attached /\ pc = "attached"
         /\ LayerInv(m) /\ PlaceInv(m) /\ AutoInv(m)
         /\ m.late => f = "closed"
         /\ image \in Images /\ m.vd \in Nat
<1>1. m \in CallType /\ CallInv(m) /\ Attached /\ m.vd \in Nat
  BY CallFacts
<1>2. pc = "attached" /\ LayerInv(m) /\ PlaceInv(m) /\ AutoInv(m) /\ (m.late => f = "closed")
  BY <1>1 DEF CallInv, Working
<1> QED BY <1>1, <1>2, FoundFacts

LEMMA LayerOpens ==
  ASSUME DiscInv, OpenUdf \/ ReadDescriptor
  PROVE  DiscInv'
<1>1. PICK r : r = m
  OBVIOUS
<1>2. r.pc \in {"udf", "descriptor"} /\ f = "open" /\ r.pc \in Working
  BY <1>1 DEF OpenUdf, ReadDescriptor, CanRead, Working
<1>3. /\ r \in CallType /\ CallInv(r) /\ Attached /\ pc = "attached"
      /\ LayerInv(r) /\ PlaceInv(r) /\ AutoInv(r) /\ (r.late => f = "closed")
  BY <1>1, <1>2, AtRead
<1>4. CASE MountTo(Opened(r))
  <2>1. Opened(r) \in CallType /\ CallInv(Opened(r))
    BY <1>2, <1>3, OpenedKnown
  <2> QED BY <1>4, <2>1, MountKeeps
<1>5. CASE r.pc = "udf" /\ image.udf = "unopenable" /\ MountTo(Failing(r))
  <2>1. r.layer = "UDF"
    BY <1>3, <1>5 DEF PlaceInv
  <2>2. Passed(r.layer, r.failed)
    BY <1>5, <2>1 DEF Passed, Content
  <2>3. Failing(r) \in CallType /\ CallInv(Failing(r))
    BY <1>2, <1>3, <1>5, <2>1, <2>2, FailingKnown
  <2> QED BY <1>5, <2>3, MountKeeps
<1> QED BY <1>1, <1>4, <1>5 DEF OpenUdf, ReadDescriptor

\* findVD never meets the end of the set before it has found what the probe
\* found.
LEMMA ScanGoesOn ==
  ASSUME DiscInv, FindJoliet
  PROVE  DiscInv'
<1>1. PICK r : r = m
  OBVIOUS
<1>2. r.pc = "find" /\ r.pc \in Working
  BY <1>1 DEF FindJoliet, Working
<1>3. /\ r \in CallType /\ CallInv(r) /\ Attached /\ pc = "attached"
      /\ LayerInv(r) /\ PlaceInv(r) /\ AutoInv(r) /\ (r.late => f = "closed")
      /\ image \in Images /\ r.vd \in Nat /\ r.vol = NoVolume
  BY <1>1, <1>2, AtRead DEF LayerInv
<1>4. /\ r.layer = "Joliet" /\ r.vd >= Start
      /\ \A k \in Sectors : IsJoliet(k) => r.vd <= k
  BY <1>2, <1>3 DEF PlaceInv
<1>5. \E k \in Sectors : IsJoliet(k)
  BY <1>3, <1>4, DescriptorFacts DEF LayerInv
<1>6. PICK n : n = r.vd
  OBVIOUS
<1>7. /\ At(n).type # "terminator"
      /\ At(n).type = "supp" /\ At(n).id = "CD001" /\ At(n).joliet => FirstJoliet(n)
      /\ ~(At(n).type = "supp" /\ At(n).id = "CD001" /\ At(n).joliet) =>
           \A k \in Sectors : IsJoliet(k) => n + 1 <= k
  BY <1>3, <1>4, <1>5, <1>6, ScanFacts
<1>8. CASE At(n).type = "supp" /\ At(n).id = "CD001" /\ At(n).joliet
  <2>1. PICK q : q = [r EXCEPT !.pc = "descriptor"]
    OBVIOUS
  <2>2. MountTo(q)
    BY <1>1, <1>6, <1>7, <1>8, <2>1 DEF FindJoliet
  <2>3. /\ q \in CallType /\ q.pc = "descriptor" /\ q.vol = NoVolume
        /\ q.want = r.want /\ q.layer = "Joliet" /\ q.vd = n /\ q.i = r.i
        /\ q.failed = r.failed /\ q.late = r.late
    BY <1>3, <1>4, <1>6, <2>1 DEF CallType
  <2>4. LayerInv(q)
    BY <1>3, <1>4, <2>3 DEF LayerInv
  <2>5. PlaceInv(q)
    BY <1>7, <1>8, <2>3 DEF PlaceInv
  <2>6. AutoInv(q)
    BY <1>2, <1>3, <2>3 DEF AutoInv
  <2>7. NamedInv(q) /\ q.vol.layer # "Joliet"
    BY <2>3 DEF NamedInv, NoVolume
  <2>8. CallInv(q)
    BY <1>3, <2>3, <2>4, <2>5, <2>6, <2>7 DEF CallInv
  <2> QED BY <2>2, <2>3, <2>8, MountKeeps
<1>9. CASE ~(At(n).type = "supp" /\ At(n).id = "CD001" /\ At(n).joliet)
  <2>1. PICK q : q = [r EXCEPT !.vd = @ + 1]
    OBVIOUS
  <2>2. MountTo(q)
    BY <1>1, <1>6, <1>7, <1>9, <2>1 DEF FindJoliet
  <2>3. r.vd + 1 \in Nat
    BY <1>3
  <2>4. /\ q \in CallType /\ q.pc = "find" /\ q.vol = NoVolume
        /\ q.want = r.want /\ q.layer = "Joliet" /\ q.vd = n + 1 /\ q.i = r.i
        /\ q.failed = r.failed /\ q.late = r.late
    BY <1>2, <1>3, <1>4, <1>6, <2>1, <2>3 DEF CallType
  <2>5. LayerInv(q)
    BY <1>3, <1>4, <2>4 DEF LayerInv
  <2>6. n + 1 >= Start
    BY <1>3, <1>4, <1>6, ImageFacts
  <2>7. PlaceInv(q)
    BY <1>7, <1>9, <2>4, <2>6 DEF PlaceInv
  <2>8. AutoInv(q)
    BY <1>2, <1>3, <2>4 DEF AutoInv
  <2>9. NamedInv(q) /\ q.vol.layer # "Joliet"
    BY <2>4 DEF NamedInv, NoVolume
  <2>10. CallInv(q)
    BY <1>3, <2>4, <2>5, <2>7, <2>8, <2>9 DEF CallInv
  <2> QED BY <2>2, <2>4, <2>10, MountKeeps
<1> QED BY <1>8, <1>9

LEMMA RootIsListed ==
  ASSUME DiscInv, ListRoot
  PROVE  DiscInv'
<1>1. PICK r : r = m
  OBVIOUS
<1>2. r.pc = "list" /\ f = "open" /\ r.pc \in Working
  BY <1>1 DEF ListRoot, CanRead, Working
<1>3. /\ r \in CallType /\ CallInv(r) /\ Attached /\ pc = "attached"
      /\ LayerInv(r) /\ PlaceInv(r) /\ AutoInv(r) /\ (r.late => f = "closed")
      /\ image \in Images /\ r.vd \in Nat /\ r.want = "auto"
  BY <1>1, <1>2, AtRead DEF PlaceInv
<1>4. RootOf(r) = Content(r.layer) /\ r.layer \in AllLayers
  BY <1>2, <1>3, RootFacts, FoundFacts DEF LayerInv
<1>5. CASE RootOf(r) = "entries"
  <2>1. PICK q : q = [r EXCEPT !.pc = "done", !.vol = [layer |-> r.layer, vd |-> r.vd]]
    OBVIOUS
  <2>2. MountTo(q)
    BY <1>1, <1>5, <2>1 DEF ListRoot
  <2>3. [layer |-> r.layer, vd |-> r.vd] \in [layer : AllLayers \cup {"none"}, vd : Nat]
    BY <1>3, <1>4
  <2>4. /\ q \in CallType /\ q.pc = "done" /\ q.want = "auto" /\ q.i = r.i
        /\ q.vol.layer = r.layer /\ q.vol.vd = r.vd
        /\ q.failed = r.failed /\ q.late = r.late
    BY <1>3, <2>1, <2>3 DEF CallType
  <2>5. q.i \in 1..Len(fses) /\ q.vol.layer = fses[q.i]
    BY <1>3, <2>4 DEF LayerInv
  <2>6. AutoInv(q)
    BY <1>2, <1>3, <1>4, <1>5, <2>4, <2>5 DEF AutoInv
  <2>7. NamedInv(q)
    BY <1>3, <2>4, FoundFacts DEF NamedInv
  <2>8. q.vol.layer = "Joliet" => FirstJoliet(q.vol.vd)
    BY <1>2, <1>3, <2>4 DEF PlaceInv
  <2>9. q.pc \notin Working /\ ~q.late
    BY <1>2, <1>3, <2>4 DEF Working
  <2>10. CallInv(q)
    BY <1>3, <2>4, <2>6, <2>7, <2>8, <2>9 DEF CallInv
  <2> QED BY <2>2, <2>4, <2>10, MountKeeps
<1>6. CASE RootOf(r) # "entries"
  <2>1. MountTo(Failing(r))
    BY <1>1, <1>6 DEF ListRoot
  <2>2. Passed(r.layer, r.failed)
    BY <1>4, <1>6 DEF Passed
  <2>3. Failing(r) \in CallType /\ CallInv(Failing(r))
    BY <1>2, <1>3, <2>2, FailingKnown
  <2> QED BY <2>1, <2>3, MountKeeps
<1> QED BY <1>5, <1>6

\* The descriptor a call is at is on the image, so it fails to be read only
\* by failing.
LEMMA ReadFaults ==
  ASSUME DiscInv, MountFault
  PROVE  DiscInv'
<1>1. PICK r : r = m
  OBVIOUS
<1>2. r.pc \in Working
  BY <1>1 DEF MountFault, Working
<1>3. /\ r \in CallType /\ CallInv(r) /\ Attached /\ pc = "attached"
      /\ LayerInv(r) /\ PlaceInv(r) /\ AutoInv(r) /\ (r.late => f = "closed")
      /\ image \in Images /\ r.vd \in Nat
  BY <1>1, <1>2, AtRead
<1>4. r.layer \in AllLayers /\ r.layer \in Found
  BY <1>3, FoundFacts DEF LayerInv
<1>5. r.pc \in {"find", "descriptor"} => Has(r.vd)
  <2>1. CASE r.pc = "find"
    <3>1. /\ r.layer = "Joliet" /\ r.vd >= Start
          /\ \A k \in Sectors : IsJoliet(k) => r.vd <= k
      BY <1>3, <2>1 DEF PlaceInv
    <3>2. \E k \in Sectors : IsJoliet(k)
      BY <1>3, <1>4, <3>1, DescriptorFacts
    <3> QED BY <1>3, <3>1, <3>2, ScanFacts
  <2>2. CASE r.pc = "descriptor"
    <3>1. CASE r.layer = "Joliet"
      BY <1>3, <2>2, <3>1, FirstIsOne DEF PlaceInv
    <3>2. CASE r.layer \in {"RockRidge", "ISO9660"}
      <4>1. Has(Start)
        BY <1>3, <1>4, <3>2, DescriptorFacts
      <4> QED BY <1>3, <2>2, <3>2, <4>1 DEF PlaceInv
    <3> QED BY <1>3, <1>4, <2>2, <3>1, <3>2 DEF PlaceInv, AllLayers
  <2> QED BY <2>1, <2>2
<1>6. MountTo(Faulty(r))
  BY <1>1, <1>5 DEF MountFault
<1>7. PICK q : q = [r EXCEPT !.failed = @ \cup {r.layer}]
  OBVIOUS
<1>8. /\ q \in CallType /\ q.pc = r.pc /\ q.want = r.want /\ q.i = r.i
      /\ q.layer = r.layer /\ q.vol = r.vol /\ q.late = r.late
      /\ q.failed = r.failed \cup {r.layer}
  BY <1>3, <1>4, <1>7 DEF CallType
<1>9. LayerInv(q)
  BY <1>3, <1>8 DEF LayerInv
<1>10. AutoInv(q)
  BY <1>2, <1>3, <1>8 DEF AutoInv, Passed, Working
<1>11. Passed(q.layer, q.failed) /\ q.layer \in q.failed
  BY <1>8 DEF Passed
<1>12. Failing(q) \in CallType /\ CallInv(Failing(q))
  BY <1>2, <1>3, <1>8, <1>9, <1>10, <1>11, FailingKnown
<1>13. Faulty(r) = Failing(q)
  BY <1>7 DEF Faulty
<1> QED BY <1>6, <1>12, <1>13, MountKeeps

-----------------------------------------------------------------------------
(***************************************************************************)
(* Attach and Detach.                                                      *)
(***************************************************************************)
LEMMA AttachKeeps ==
  ASSUME DiscInv, AttachStep
  PROVE  DiscInv'
<1>1. AttachNext /\ handle' = handle /\ m' = m /\ detached' = detached
  BY DEF AttachStep, discVars
<1>2. pc # "attached"
  BY <1>1 DEF AttachNext, OpenFile, IsoPrimary, IsoRoot, IsoSupplementary, IsoOther,
              IsoEnd, Magic, UdfBegin, UdfFound, UdfOther, Scanning, UdfAbsent,
              UdfAnchor, ProbeFails
<1>3. Inv /\ m.pc = "idle" /\ m = Unmounted /\ handle = "file" /\ detached = "none"
  BY <1>2 DEF DiscInv, Attached, CallInv, Released
<1>4. Inv'
  BY <1>1, <1>3, StepInv
<1>5. Attached'
  BY <1>4 DEF Attached, Inv
<1>6. Released'
  BY <1>1, <1>3 DEF Released
<1>7. DiscTypeOK'
  BY <1>1, <1>3 DEF DiscInv, DiscTypeOK
<1>8. CallInv(m)'
  <2>1. /\ m'.pc = "idle" /\ m' = Unmounted /\ m'.want = "auto" /\ m'.late = FALSE
        /\ m'.vol.layer = "none"
    BY <1>1, <1>3 DEF Unmounted, NoVolume
  <2>2. AutoInv(m)' /\ NamedInv(m)'
    BY <2>1 DEF AutoInv, NamedInv
  <2> QED BY <2>1, <2>2 DEF CallInv, Working
<1> QED BY <1>5, <1>6, <1>7, <1>8 DEF DiscInv

LEMMA DetachKeeps ==
  ASSUME DiscInv, Detach
  PROVE  DiscInv'
<1>1. /\ pc = "attached" /\ image' = image /\ pc' = pc /\ fses' = fses /\ m' = m
      /\ lba' = lba /\ res' = res /\ foundBEA' = foundBEA /\ faults' = faults
  BY DEF Detach, probing
<1>2. /\ f' \in {"none", "open", "closed"} /\ (f = "closed" => f' = "closed")
      /\ handle' \in {"file", "nil"} /\ detached' \in {"nil", "error"}
      /\ f' = "closed"
  BY DEF Detach, DiscInv, DiscTypeOK, Released, Attached, TypeOK
<1>3. Released'
  BY <1>1, <1>2 DEF Released
<1>4. DiscTypeOK'
  BY <1>1, <1>2, SameImage DEF DiscInv, DiscTypeOK
<1>5. Attached'
  BY <1>1, <1>2, SameImage, MetKept DEF DiscInv, Attached, ListsWhatIsThere, TypeOK
<1>6. CallInv(m)'
  BY <1>1, <1>2, CallKept DEF DiscInv
<1> QED BY <1>3, <1>4, <1>5, <1>6 DEF DiscInv

-----------------------------------------------------------------------------
(***************************************************************************)
(* The theorems.                                                           *)
(***************************************************************************)
LEMMA InitDisc == Init => DiscInv
<1> SUFFICES ASSUME Init PROVE DiscInv
  OBVIOUS
<1>1. Inv
  BY InitInv DEF Init
<1>2. Attached
  BY <1>1 DEF Attached, Inv
<1>3. m = Unmounted /\ handle = "file" /\ detached = "none"
  BY DEF Init
<1>4. Released
  BY <1>3 DEF Released
<1>5. DiscTypeOK
  BY <1>3 DEF DiscTypeOK, Unmounted, NoVolume
<1>6. /\ m.pc = "idle" /\ m.want = "auto" /\ m.late = FALSE /\ m.vol.layer = "none"
  BY <1>3 DEF Unmounted, NoVolume
<1>7. AutoInv(m) /\ NamedInv(m)
  BY <1>6 DEF AutoInv, NamedInv
<1>8. CallInv(m)
  BY <1>3, <1>6, <1>7 DEF CallInv, Working
<1> QED BY <1>2, <1>4, <1>5, <1>8 DEF DiscInv

LEMMA NextDisc == DiscInv /\ [Next]_vars => DiscInv'
<1> SUFFICES ASSUME DiscInv, [Next]_vars PROVE DiscInv'
  OBVIOUS
<1>1. CASE UNCHANGED vars
  <2>1. m \in CallType /\ CallInv(m)
    BY CallFacts
  <2>2. MountTo(m)
    BY <1>1 DEF vars, discVars, MountTo
  <2> QED BY <2>1, <2>2, MountKeeps
<1>2. CASE MountStep
  BY <1>2, ListGoesOn, LayerOpens, ScanGoesOn, RootIsListed, ReadFaults DEF MountStep
<1> QED BY <1>1, <1>2, AttachKeeps, CallBegins, DetachKeeps DEF Next

\* The invariant of the life of a Disc, on any image (mount.go:23-106,
\* detach.go:7-16).
THEOREM DiscInvariance == DiscSpec => []DiscInv
<1> QED BY InitDisc, NextDisc, PTL DEF DiscSpec

\* The locals and the result of a call of Mount keep their types, and a call
\* only reads a layer that Attach has listed (mount.go:25-83).
THEOREM DiscTypeCorrect == DiscSpec => []DiscTypeOK
<1>1. DiscInv => DiscTypeOK
  BY DEF DiscInv
<1> QED BY <1>1, DiscInvariance, PTL

\* On any image and with any failures, Mount without an argument gives the
\* best layer that lists an entry (mount.go:46-67).
THEOREM AutomaticChoice == DiscSpec => []MountPicksBest
<1>1. DiscInv => MountPicksBest
  <2> SUFFICES ASSUME DiscInv, m.pc = "done", m.want = "auto"
               PROVE  /\ m.vol # NoVolume => Content(m.vol.layer) = "entries"
                      /\ \A i \in 1..Len(fses) :
                           (\A j \in 1..i : fses[j] # m.vol.layer) =>
                             Passed(fses[i], m.failed)
    BY DEF MountPicksBest, Automatic, Passed
  <2>1. AutoInv(m) /\ m.i \in Nat /\ pc = "attached"
    BY CallFacts DEF CallInv
  <2>2. Len(fses) \in Nat
    BY <2>1, CallFacts, FoundFacts
  <2>3. \A j \in 1..Len(fses) : j < m.i => Passed(fses[j], m.failed)
    BY <2>1 DEF AutoInv
  <2>4. \/ m.vol = NoVolume /\ m.i > Len(fses)
        \/ /\ m.i \in 1..Len(fses) /\ m.vol.layer = fses[m.i]
           /\ Content(m.vol.layer) = "entries"
    BY <2>1 DEF AutoInv
  <2>5. ASSUME NEW i \in 1..Len(fses), \A j \in 1..i : fses[j] # m.vol.layer
        PROVE  i < m.i
    <3>1. CASE m.i > Len(fses)
      BY <2>1, <2>2, <3>1
    <3>2. CASE m.i \in 1..Len(fses) /\ m.vol.layer = fses[m.i]
      <4>1. ~(m.i \in 1..i)
        BY <2>5, <3>2
      <4> QED BY <2>1, <2>2, <3>2, <4>1
    <3> QED BY <2>4, <3>1, <3>2
  <2> QED BY <2>3, <2>4, <2>5
<1> QED BY <1>1, DiscInvariance, PTL

\* What Attach lists can be mounted by name, on any image: the scan of findVD
\* never ends before the descriptor the probe found (mount.go:70-106,
\* iso9660/volume.go:61-102).
THEOREM NamedLayers == DiscSpec => []ListedLayersOpen
<1>1. DiscInv => ListedLayersOpen
  BY DEF DiscInv, CallInv, NamedInv, ListedLayersOpen
<1> QED BY <1>1, DiscInvariance, PTL

\* On any image, a Joliet volume is a view of the set's first Joliet
\* descriptor (iso9660/volume.go:81-97).
THEOREM JolietDescriptor == DiscSpec => []JolietIsItsDescriptor
<1>1. DiscInv => JolietIsItsDescriptor
  BY DEF DiscInv, CallInv, JolietIsItsDescriptor
<1> QED BY <1>1, DiscInvariance, PTL

\* Detach is final, wherever between two reads of a Mount it falls
\* (detach.go:7-16).
THEOREM DetachIsFinal == DiscSpec => []NothingAfterDetach
<1>1. DiscInv => NothingAfterDetach
  BY DEF DiscInv, CallInv, Released, NothingAfterDetach
<1> QED BY <1>1, DiscInvariance, PTL
=============================================================================
