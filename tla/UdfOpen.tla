------------------------------ MODULE UdfOpen ------------------------------
(***************************************************************************)
(* The chain a UDF volume is opened along, from the anchor to the root's   *)
(* file entry, walked twice over the same image: by NewVolume              *)
(* (udf/volume.go) and by Diagnose (udf/diagnose.go), which prints what it *)
(* reads for a volume that does not open as it should.  Sector numbers are *)
(* uint32 and wrap.                                                        *)
(***************************************************************************)
EXTENDS Integers, Sequences

CONSTANTS
  Images,      \* the images that may be opened
  W,           \* 2^32
  S            \* bytes in a sector

VARIABLES
  image,       \* the image; never changes
  w,           \* the two walks: where each is, its locals and its result
  faults       \* history: per walk, where it met a read that failed

vars == <<image, w, faults>>

Walkers == {"NewVolume", "Diagnose"}

LBA == 0..(W - 1)

(***************************************************************************)
(* A sector of the chain is its tag with the fields the walk takes from a  *)
(* descriptor of that tag: (5) loc and len of a partition, (6) loc of the  *)
(* file set and maps, the first bytes of as many partition maps as it says *)
(* it has, (256) loc of the root.  Of an extended file entry (261) fits    *)
(* says whether the standard layout gives a descriptor area that lies in   *)
(* the sector, and ext whether the first descriptor there has a length;    *)
(* loc is the block it names.                                              *)
(***************************************************************************)
Byte == 0..255

Sector == [tag : Nat, loc : LBA, len : LBA, fits : BOOLEAN, ext : BOOLEAN,
           inline : BOOLEAN, maps : Seq([type : Byte, len : Byte])]

\* anchor is sector 256, its loc and len the extent of the main sequence.
ASSUME ImagesAssumption ==
  /\ W \in Nat \ {0} /\ S \in Nat \ {0}
  /\ \A i \in Images :
       /\ i.anchored \in BOOLEAN /\ i.anchor \in Sector
       /\ DOMAIN i.sectors \subseteq LBA
       /\ \A n \in DOMAIN i.sectors : i.sectors[n] \in Sector

Wrap(n) == n % W

Has(n) == n \in DOMAIN image.sectors

At(n) == image.sectors[n]

Start ==
  [pc |-> "anchor", loc |-> 0, count |-> 0, i |-> 0,
   partFound |-> FALSE, partStart |-> 0, partLen |-> 0,
   fsdFound |-> FALSE, fsd |-> 0, root |-> 0, compat |-> FALSE]

Step(x, r) == w' = [w EXCEPT ![x] = r] /\ UNCHANGED <<image, faults>>

End(x, how) == Step(x, [w[x] EXCEPT !.pc = how])

\* The sectors of the sequence; the sum wraps in 32 bits.
SectorCount(len) == Wrap(len + S - 1) \div S

\* Only Diagnose looks at the tag of sector 256.
ReadAnchor(x) ==
  /\ w[x].pc = "anchor" /\ image.anchored
  /\ \/ /\ x = "Diagnose" => image.anchor.tag = 2
        /\ Step(x, [w[x] EXCEPT !.pc = "vds", !.loc = image.anchor.loc,
                                !.count = SectorCount(image.anchor.len)])
     \/ x = "Diagnose" /\ image.anchor.tag # 2 /\ End(x, "error")

(***************************************************************************)
(* The volume descriptor sequence                                          *)
(***************************************************************************)
\* Mutant of Walking: one sector too many.
WalkingOn(x) == w[x].pc = "vds" /\ w[x].i <= w[x].count

Walking(x) == w[x].pc = "vds" /\ w[x].i < w[x].count

VdsLBA(x) == Wrap(w[x].loc + w[x].i)

Descriptor(x) == At(VdsLBA(x))

\* Mutant of Taken: the first partition descriptor counts.
TakenFirst(r, s) ==
  CASE s.tag = 5 /\ ~r.partFound ->
         [r EXCEPT !.partFound = TRUE, !.partStart = s.loc, !.partLen = s.len]
    [] s.tag = 6 -> [r EXCEPT !.fsdFound = TRUE, !.fsd = s.loc]
    [] OTHER     -> r

\* The walk's locals after the descriptor s: the last of a kind counts.
Taken(r, s) ==
  CASE s.tag = 5 ->
         [r EXCEPT !.partFound = TRUE, !.partStart = s.loc, !.partLen = s.len]
    [] s.tag = 6 -> [r EXCEPT !.fsdFound = TRUE, !.fsd = s.loc]
    [] OTHER     -> r

(***************************************************************************)
(* Diagnose shows the partition maps of a logical volume descriptor, from  *)
(* byte 440 on.  A map of length 0 is the last; one is shown if its type   *)
(* and length lie in the sector, but of a type 1 map the six bytes up to   *)
(* the partition's number are taken.                                       *)
(***************************************************************************)
\* Where the map after the first m begins.
MapOff(s) ==
  LET off[m \in 0..Len(s.maps)] ==
        IF m = 0 THEN 440 ELSE off[m - 1] + s.maps[m].len
  IN  off

CutMap(s, m) ==
  /\ \A j \in 1..(m - 1) : s.maps[j].len # 0
  /\ s.maps[m].type = 1 /\ s.maps[m].len >= 6
  /\ MapOff(s)[m - 1] + 2 <= S /\ MapOff(s)[m - 1] + 6 > S

\* Showing the descriptor s slices its sector out of range.
Overreads(s) == s.tag = 6 /\ \E m \in 1..Len(s.maps) : CutMap(s, m)

\* Mutant of ReadDescriptor: a descriptor of no interest is read again.
ReadDescriptorAgain(x) ==
  /\ Walking(x) /\ Has(VdsLBA(x)) /\ Descriptor(x).tag # 8
  /\ x = "Diagnose" => ~Overreads(Descriptor(x))
  /\ Step(x, [Taken(w[x], Descriptor(x)) EXCEPT
                !.i = IF Descriptor(x).tag \in {5, 6} THEN @ + 1 ELSE @])

ReadDescriptor(x) ==
  /\ Walking(x) /\ Has(VdsLBA(x)) /\ Descriptor(x).tag # 8
  /\ x = "Diagnose" => ~Overreads(Descriptor(x))
  /\ Step(x, [Taken(w[x], Descriptor(x)) EXCEPT !.i = @ + 1])

ShowMapsOverreads(x) ==
  /\ x = "Diagnose" /\ Walking(x) /\ Has(VdsLBA(x))
  /\ Overreads(Descriptor(x)) /\ End(x, "panic")

ReadTerminator(x) ==
  /\ Walking(x) /\ Has(VdsLBA(x)) /\ Descriptor(x).tag = 8
  /\ End(x, "resolve")

WalkEnds(x) == w[x].pc = "vds" /\ w[x].i >= w[x].count /\ End(x, "resolve")

Resolve(x) ==
  /\ w[x].pc = "resolve"
  /\ End(x, IF w[x].partFound /\ w[x].fsdFound THEN "fsd" ELSE "error")

(***************************************************************************)
(* The file set descriptor and the root's file entry                       *)
(***************************************************************************)
FsdLBA(x) == Wrap(w[x].partStart + w[x].fsd)

ReadFSD(x) ==
  /\ w[x].pc = "fsd" /\ Has(FsdLBA(x)) /\ At(FsdLBA(x)).tag = 256
  /\ Step(x, [w[x] EXCEPT !.pc = "root",
                          !.root = Wrap(w[x].partStart + At(FsdLBA(x)).loc)])

\* Of a wrong tag Diagnose makes another attempt; NewVolume gives up.
WrongFSD(x) ==
  /\ w[x].pc = "fsd" /\ Has(FsdLBA(x)) /\ At(FsdLBA(x)).tag # 256
  /\ End(x, IF x = "Diagnose" THEN "alt" ELSE "error")

\* Mutant of AltFSD: the walk goes on from the other sector if that is right.
AltFSDTaken(x) ==
  /\ w[x].pc = "alt" /\ Has(w[x].fsd)
  /\ IF At(w[x].fsd).tag = 256
     THEN Step(x, [w[x] EXCEPT !.pc = "root",
                     !.root = Wrap(w[x].partStart + At(w[x].fsd).loc)])
     ELSE End(x, "error")

\* The sector without the start of the partition added.  Its read error is
\* dropped, and the nil buffer of a failed read sliced.
AltFSD(x) ==
  /\ w[x].pc = "alt"
  /\ \/ Has(w[x].fsd) /\ End(x, "error")
     \/ /\ w' = [w EXCEPT ![x].pc = "panic"]
        /\ faults' = IF Has(w[x].fsd) THEN faults \cup {<<x, "alt">>} ELSE faults
        /\ UNCHANGED image

\* adRangeValid of the standard layout of an extended file entry.
Valid(r, s) == s.fits /\ (s.inline \/ (s.ext /\ s.loc < r.partLen))

\* NewVolume settles the layout of every extended file entry of the volume.
ReadRoot(x) ==
  /\ w[x].pc = "root" /\ Has(w[x].root)
  /\ Step(x, [w[x] EXCEPT !.pc = "opened",
                !.compat = /\ x = "NewVolume" /\ At(w[x].root).tag = 261
                           /\ ~Valid(w[x], At(w[x].root))])

(***************************************************************************)
(* Reads that fail                                                         *)
(***************************************************************************)
\* The image holds the sector x reads next.
Held(x) ==
  CASE w[x].pc = "anchor" -> image.anchored
    [] w[x].pc = "vds"    -> Has(VdsLBA(x))
    [] w[x].pc = "fsd"    -> Has(FsdLBA(x))
    [] w[x].pc = "root"   -> Has(w[x].root)

\* Diagnose ends the sequence where a read fails; NewVolume takes the standard
\* layout when the root's entry cannot be read.
AfterFailure(x) ==
  CASE w[x].pc = "vds" /\ x = "Diagnose" -> "resolve"
    [] w[x].pc = "root" /\ x = "NewVolume" -> "opened"
    [] OTHER -> "error"

ReadFails(x) ==
  /\ w[x].pc \in {"anchor", "fsd", "root"} \/ Walking(x)
  /\ w' = [w EXCEPT ![x].pc = AfterFailure(x)]
  /\ faults' = IF Held(x) THEN faults \cup {<<x, w[x].pc>>} ELSE faults
  /\ UNCHANGED image

Init == image \in Images /\ w = [x \in Walkers |-> Start] /\ faults = {}

WalkStep(x) ==
  \/ ReadAnchor(x)
  \/ ReadDescriptor(x) \/ ShowMapsOverreads(x) \/ ReadTerminator(x)
  \/ WalkEnds(x) \/ Resolve(x)
  \/ ReadFSD(x) \/ WrongFSD(x) \/ AltFSD(x) \/ ReadRoot(x) \/ ReadFails(x)

Next == \E x \in Walkers : WalkStep(x)

Spec == Init /\ [][Next]_vars

\* A walk goes on, and not only because a read of what is there fails.
FairSpec == Spec /\ \A x \in Walkers : WF_vars(WalkStep(x) /\ UNCHANGED faults)

-----------------------------------------------------------------------------
Over == {"opened", "error", "panic"}

TypeOK ==
  /\ w \in [Walkers ->
       [pc : {"anchor", "vds", "resolve", "fsd", "alt", "root"} \cup Over,
        loc : LBA, count : 0..W, i : 0..W,
        partFound : BOOLEAN, partStart : LBA, partLen : LBA,
        fsdFound : BOOLEAN, fsd : LBA, root : LBA, compat : BOOLEAN]]
  /\ \A x \in Walkers : w[x].i <= w[x].count
  /\ faults \subseteq Walkers \X {"anchor", "vds", "fsd", "alt", "root"}

(***************************************************************************)
(* The chain, said without the walk.  Slot k of the sequence counts if no  *)
(* terminator and no sector beyond the image comes before it.              *)
(***************************************************************************)
\* The length is stated right: adding all but one byte of a sector to it does
\* not wrap.
Slots == 0..((image.anchor.len + S - 1) \div S - 1)

Slot(k) == At(Wrap(image.anchor.loc + k))

Reached(k) ==
  \A j \in 0..k : Has(Wrap(image.anchor.loc + j)) /\ Slot(j).tag # 8

\* The sequence ends before the image does.
Bounded ==
  \A k \in Slots :
    Has(Wrap(image.anchor.loc + k)) \/ \E j \in 0..(k - 1) : Slot(j).tag = 8

\* Slot k holds the descriptor of this tag that counts.
Prevails(tag, k) ==
  /\ k \in Slots /\ Reached(k) /\ Slot(k).tag = tag
  /\ \A j \in Slots : j > k /\ Reached(j) => Slot(j).tag # tag

Resolves(r) ==
  \E p, q \in Slots :
    /\ Prevails(5, p) /\ Prevails(6, q)
    /\ r.partStart = Slot(p).loc /\ r.partLen = Slot(p).len
    /\ r.fsd = Slot(q).loc
    /\ Has(Wrap(r.partStart + r.fsd))
    /\ At(Wrap(r.partStart + r.fsd)).tag = 256
    /\ r.root = Wrap(r.partStart + At(Wrap(r.partStart + r.fsd)).loc)

\* A logical volume descriptor of the sequence has a map that is cut.
MapIsCut == \E k \in Slots : Reached(k) /\ Overreads(Slot(k))

Faultless(x) == \A f \in faults : f[1] # x

\* A volume that opens is the one the chain leads to, by its last partition
\* and last file set before the terminator, and without a failed read exactly
\* the images with a whole chain open (udf/volume.go:39-104).
OpensTheChain ==
  LET v == w["NewVolume"]
  IN  /\ v.pc = "opened" => Bounded /\ Resolves(v)
      /\ v.pc = "error" /\ Faultless("NewVolume") /\ image.anchor.len <= W - S =>
           \/ ~image.anchored \/ ~Bounded
           \/ ~ \E p, q \in Slots :
                  /\ Prevails(5, p) /\ Prevails(6, q)
                  /\ LET n == Wrap(Slot(p).loc + Slot(q).loc)
                     IN  Has(n) /\ At(n).tag = 256

\* A diagnosis is of the volume that is opened: without failed reads the two
\* walks of the same chain resolve the same partition and the same root.  Of a
\* volume that opens, Diagnose only rejects an anchor of another tag and a
\* root's entry that is not on the image, and only panics on a partition map
\* that begins in the sector and is cut by its end; of one that does not, it
\* only makes sense of a sequence the image cuts short
\* (udf/diagnose.go:36-234, udf/volume.go:39-104).
DiagnoseAgrees ==
  LET v == w["NewVolume"]
      d == w["Diagnose"]
  IN  faults = {} =>
        /\ v.pc = "opened" /\ d.pc \in {"root", "opened"} =>
             /\ v.root = d.root
             /\ v.partStart = d.partStart /\ v.partLen = d.partLen
        /\ v.pc = "opened" /\ d.pc = "error" =>
             image.anchor.tag # 2 \/ ~Has(v.root)
        /\ v.pc = "opened" /\ d.pc = "panic" => MapIsCut
        /\ v.pc = "error" /\ d.pc = "opened" => ~Bounded

\* Both walks end, whatever the anchor says of the sequence's place and length.
BothEnd == \A x \in Walkers : <>(w[x].pc \in Over)

\* Diagnose "walks the entire UDF chain, printing every intermediate value so
\* broken offsets are immediately visible" (udf/diagnose.go:11-12): it ends by
\* itself on any image.
DiagnoseCompletes == w["Diagnose"].pc # "panic"
=============================================================================
