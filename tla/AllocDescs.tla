----------------------------- MODULE AllocDescs -----------------------------
(***************************************************************************)
(* One call of parseFileEntry (udf/volume.go): from the sector of a file   *)
(* entry to the extents of the file.  An area of allocation descriptors    *)
(* may be continued, by a descriptor of type 3, in another extent of the   *)
(* partition, which parseADs walks recursively before it goes on with the  *)
(* area it was in: the stack of the areas being walked is the goroutine's. *)
(*                                                                         *)
(* A file entry is known by what the two layouts of its body find in it:   *)
(* the area where the layout in use looks for one, <<>> when that has no   *)
(* length or does not fit in the sector.                                   *)
(***************************************************************************)
EXTENDS Integers, Sequences, SequencesExt, FiniteSets

CONSTANTS
  Volumes,    \* the volumes, with one file entry each
  S,          \* bytes in a sector
  W,          \* 2^32: sector numbers are uint32
  MaxDepth    \* nested areas a goroutine's stack has room for

VARIABLES
  vol,        \* the volume: partStart, efeFECompat, the entry, the sectors
  pc,         \* "entry", "walk", or how the call ended
  stack,      \* the areas being walked, each with the place in it
  extents,    \* fe.extents
  inline      \* fe.inlineData, <<>> when there is none

vars == <<vol, pc, stack, extents, inline>>

Descriptor == [type : 0..3, len : Nat, pos : Nat]
Area == Seq(Descriptor)
Layouts == {"standard", "fe"}

\* style is the layout the entry was written in.  A sector that begins with an
\* allocation extent descriptor has tag 328, and size is where its list ends.
Entry == [tag : Nat, alloc : 0..7, style : Layouts, at : [Layouts -> Area]]
Sector == [tag : Nat, list : Area, size : Nat]

ASSUME VolumesAssumption ==
  /\ S \in Nat \ {0} /\ W \in Nat \ {0} /\ MaxDepth \in Nat \ {0}
  /\ \A v \in Volumes :
       /\ v.partStart \in 0..(W - 1) /\ v.compat \in BOOLEAN
       /\ v.entry \in Entry
       /\ DOMAIN v.sectors \subseteq 0..(W - 1)
       /\ \A l \in DOMAIN v.sectors : v.sectors[l] \in Sector

-----------------------------------------------------------------------------
\* resolveADLayout: only a 261 entry of a volume not marked as compatible has
\* the standard body.
Layout(v) == IF v.entry.tag = 261 /\ ~v.compat THEN "standard" ELSE "fe"

Body == vol.entry.at[Layout(vol)]

Lba(v, d) == (v.partStart + d.pos) % W

Span(v, d) == Lba(v, d)..(Lba(v, d) + (d.len + S - 1) \div S - 1)

\* The sectors a continuation descriptor asks for are on the image.
Held(v, d) == Span(v, d) \subseteq DOMAIN v.sectors

\* What is read there begins with an allocation extent descriptor whose list
\* does not go past the sectors read.
Continues(v, d) ==
  /\ v.sectors[Lba(v, d)].tag = 328
  /\ v.sectors[Lba(v, d)].size <= ((d.len + S - 1) \div S) * S

\* The descriptor the innermost walk is at, and the stack once it is past it.
Top == Last(stack)
AtDescriptor == pc = "walk" /\ Top.i <= Len(Top.area)
Here == Top.area[Top.i]
Advanced == Append(Front(stack), [Top EXCEPT !.i = @ + 1])
Frame(area) == [area |-> area, i |-> 1]

Walk(s) == stack' = s /\ UNCHANGED <<vol, pc, inline>>

Stop(how) == pc' = how /\ UNCHANGED <<vol, stack, extents, inline>>

ReadInline ==
  /\ pc = "entry" /\ vol.entry.tag \in {260, 261} /\ vol.entry.alloc = 3
  /\ inline' = Body /\ pc' = "done"
  /\ UNCHANGED <<vol, stack, extents>>

ReadArea ==
  /\ pc = "entry" /\ vol.entry.tag \in {260, 261} /\ vol.entry.alloc < 3
  /\ pc' = "walk" /\ stack' = <<Frame(Body)>>
  /\ UNCHANGED <<vol, extents, inline>>

\* An allocation type above 3 is noticed once there is something to parse.
ReadUnsupported ==
  /\ pc = "entry" /\ vol.entry.tag \in {260, 261} /\ vol.entry.alloc > 3
  /\ Stop(IF Body = <<>> THEN "done" ELSE "error")

\* The sector cannot be read, or holds something else than a file entry.
NoEntry == pc = "entry" /\ Stop("error")

\* Mutant of Recorded: empty extents are kept too.
RecordedEmpty(d) == d.type \in {0, 1}

Recorded(d) == d.type \in {0, 1} /\ d.len > 0

TakeExtent ==
  /\ AtDescriptor /\ Recorded(Here)
  /\ extents' = Append(extents, [lba |-> Lba(vol, Here), len |-> Here.len])
  /\ Walk(Advanced)

\* An empty extent, and one that is neither recorded nor allocated.
PassOver ==
  /\ AtDescriptor
  /\ Here.len = 0 \/ Here.type = 2
  /\ Walk(Advanced) /\ UNCHANGED extents

Continue ==
  /\ AtDescriptor /\ Here.type = 3 /\ Here.len > 0
  /\ Held(vol, Here) /\ Continues(vol, Here) /\ Len(stack) < MaxDepth
  /\ Walk(Append(Advanced, Frame(vol.sectors[Lba(vol, Here)].list)))
  /\ UNCHANGED extents

\* What the descriptor leads to is not an area: nothing is said of it.
ContinueNowhere ==
  /\ AtDescriptor /\ Here.type = 3 /\ Here.len > 0
  /\ Held(vol, Here) /\ ~Continues(vol, Here)
  /\ Walk(Advanced) /\ UNCHANGED extents

\* Mutant of ContinueFails: the rest of the file goes missing.
ContinueFailsSilent ==
  /\ AtDescriptor /\ Here.type = 3 /\ Here.len > 0
  /\ Walk(Advanced) /\ UNCHANGED extents

\* ReadSectors fails, past the end of the image or for any other reason.
ContinueFails ==
  /\ AtDescriptor /\ Here.type = 3 /\ Here.len > 0
  /\ Stop("error")

\* The goroutine's stack is used up: the program is aborted.
Overflow ==
  /\ AtDescriptor /\ Here.type = 3 /\ Here.len > 0
  /\ Held(vol, Here) /\ Continues(vol, Here) /\ Len(stack) = MaxDepth
  /\ Stop("overflow")

\* Mutant of EndArea: the area is walked again.
EndAreaAgain ==
  /\ pc = "walk" /\ Top.i > Len(Top.area)
  /\ Walk(Append(Front(stack), Frame(Top.area))) /\ UNCHANGED extents

EndArea ==
  /\ pc = "walk" /\ Top.i > Len(Top.area)
  /\ \/ Len(stack) > 1 /\ Walk(Front(stack)) /\ UNCHANGED extents
     \/ Len(stack) = 1 /\ Stop("done")

Init ==
  /\ vol \in Volumes
  /\ pc = "entry" /\ stack = <<>> /\ extents = <<>> /\ inline = <<>>

Sound == ReadInline \/ ReadArea \/ ReadUnsupported \/ TakeExtent \/ PassOver
         \/ Continue \/ ContinueNowhere \/ Overflow \/ EndArea

Next == Sound \/ NoEntry \/ ContinueFails

Spec == Init /\ [][Next]_vars

\* Reads that fail end no walk for us, but those that must fail.
FairSpec ==
  /\ Spec
  /\ WF_vars(Sound)
  /\ WF_vars(NoEntry /\ vol.entry.tag \notin {260, 261})
  /\ WF_vars(ContinueFails /\ ~Held(vol, Here))

-----------------------------------------------------------------------------
\* Locals have their types, and every extent has a length, which is what
\* ReadAt and the streams take of it (module UdfFile).
TypeOK ==
  /\ vol \in Volumes
  /\ pc \in {"entry", "walk", "done", "error", "overflow"}
  /\ stack \in Seq([area : Area, i : Nat \ {0}]) /\ Len(stack) <= MaxDepth
  /\ pc = "walk" => stack # <<>>
  /\ extents \in Seq([lba : 0..(W - 1), len : Nat \ {0}])
  /\ inline \in Area

\* Every extent comes from a descriptor of an area of this volume, whether
\* the chain of areas is right, cut, or returns to itself: no sector
\* outside what the file entry leads to is ever taken for the file's
\* (udf/volume.go:326-391).
Areas == {Body} \cup { vol.sectors[l].list : l \in DOMAIN vol.sectors }

ExtentsAreRecorded ==
  \A k \in 1..Len(extents) :
    \E a \in Areas : \E j \in 1..Len(a) :
      /\ Recorded(a[j])
      /\ extents[k] = [lba |-> Lba(vol, a[j]), len |-> a[j].len]

(***************************************************************************)
(* The file's descriptors in logical order, by the levels of continuation: *)
(* Level(v)[k] gives for each sector those of the area there and of what   *)
(* continues it, k levels deep.                                            *)
(***************************************************************************)
Leads(v, d) == d.type = 3 /\ d.len > 0 /\ Held(v, d) /\ Continues(v, d)

\* What a descriptor of an area stands for, level[l] being what sector l does.
Part(v, d, level) ==
  IF Leads(v, d) THEN level[Lba(v, d)]
  ELSE IF d.type = 3 \/ d.len = 0 THEN <<>> ELSE <<d>>

\* What the descriptors of an area up to each place in it stand for.
Expansion(v, area, level) ==
  LET upto[j \in 0..Len(area)] ==
        IF j = 0 THEN <<>> ELSE upto[j - 1] \o Part(v, area[j], level)
  IN  upto

Expanded(v, area, level) == Expansion(v, area, level)[Len(area)]

Depth(v) == Cardinality(DOMAIN v.sectors)

Level(v) ==
  LET level[k \in 0..Depth(v)] ==
        [l \in DOMAIN v.sectors |->
           IF k = 0 THEN <<>> ELSE Expanded(v, v.sectors[l].list, level[k - 1])]
  IN  level

\* The descriptors of the file as it was written.
Written(v) == Expanded(v, v.entry.at[v.entry.style], Level(v)[Depth(v)])

\* The extents of a sequence of descriptors, up to each place in it.
Extents(v, s) ==
  LET upto[j \in 0..Len(s)] ==
        IF j = 0 THEN <<>>
        ELSE IF Recorded(s[j])
             THEN Append(upto[j - 1], [lba |-> Lba(v, s[j]), len |-> s[j].len])
             ELSE upto[j - 1]
  IN  upto

\* The layout the volume settled on is that of this entry.
LayoutAgrees(v) == (v.entry.style = "fe") = (v.entry.tag = 260 \/ v.compat)

\* An entry that is parsed has all the extents of its chain in order, however
\* the areas are nested: none is lost when a continuation cannot be read, and
\* the descriptors after a continuation come after it (udf/volume.go:326-398).
ExtentsAreTheChain ==
  pc = "done" /\ vol.entry.alloc < 3 /\ LayoutAgrees(vol) =>
    extents = Extents(vol, Written(vol))[Len(Written(vol))]

\* Some chain of continuations from the entry is longer than the image.
Reach(v) ==
  LET reach[k \in 0..(Depth(v) + 1)] ==
        IF k = 0 THEN {v.entry.at[Layout(v)]}
        ELSE UNION { { v.sectors[Lba(v, a[j])].list :
                         j \in { j \in 1..Len(a) : Leads(v, a[j]) } } :
                     a \in reach[k - 1] }
  IN  reach

Cyclic(v) == Reach(v)[Depth(v) + 1] # {}

\* The walk ends, and the stack suffices, unless a chain of continuations
\* returns to itself: no nesting of areas that are there is too deep, and no
\* walk goes on for ever (udf/volume.go:369-383).
ParseEnds == <>(pc \in {"done", "error"} \/ (Cyclic(vol) /\ pc = "overflow"))

\* The number of bytes in a sequence of extents or of descriptors.
Bytes(s) == FoldLeft(LAMBDA n, d : n + d.len, 0, s)

\* What ReadAt is said to do, "mapping logical byte offsets across UDF
\* extents" (udf/volume.go:643-644): the extents kept before one hold as many
\* bytes as the file has before it, so that it begins at its logical offset.
OffsetsAreLogical ==
  pc = "done" /\ vol.entry.alloc < 3 /\ LayoutAgrees(vol) =>
    \A j \in 1..Len(Written(vol)) :
      LET before == SubSeq(Written(vol), 1, j - 1)
          kept   == Len(Extents(vol, before)[j - 1])
      IN  Recorded(Written(vol)[j]) =>
            Bytes(SubSeq(extents, 1, kept)) = Bytes(before)
=============================================================================
