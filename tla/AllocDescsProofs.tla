-------------------------- MODULE AllocDescsProofs --------------------------
(***************************************************************************)
(* Proofs about AllocDescs, for every set of volumes, every sector size,   *)
(* every width of a sector number and every depth of the stack.            *)
(***************************************************************************)
EXTENDS AllocDescs, SequenceTheorems, FiniteSetTheorems, Induction

FrameType == [area : Area, i : Nat \ {0}]

\* Each area being walked is one of the volume's.
StackIsOfAreas == \A k \in 1..Len(stack) : stack[k].area \in Areas

\* The inductive invariant.  Where an extent comes from depends on what the
\* stack holds, which ExtentsAreRecorded does not speak of.
Inv == TypeOK /\ StackIsOfAreas /\ ExtentsAreRecorded

-----------------------------------------------------------------------------
\* What the assumption says of one volume: resolveADLayout finds an area.
LEMMA VolumeFacts ==
  ASSUME NEW v \in Volumes
  PROVE  /\ v.entry.at[Layout(v)] \in Area
         /\ \A l \in DOMAIN v.sectors : v.sectors[l].list \in Area
         /\ v.partStart \in 0..(W - 1)
         /\ W \in Nat \ {0} /\ S \in Nat \ {0} /\ MaxDepth \in Nat \ {0}
<1>1. v.entry \in Entry /\ \A l \in DOMAIN v.sectors : v.sectors[l] \in Sector
  BY VolumesAssumption
<1>2. Layout(v) \in Layouts
  BY DEF Layout, Layouts
<1>3. v.entry.at \in [Layouts -> Area]
  BY <1>1 DEF Entry
<1>4. \A l \in DOMAIN v.sectors : v.sectors[l].list \in Area
  BY <1>1 DEF Sector
<1> QED
  BY <1>2, <1>3, <1>4, VolumesAssumption

\* A position in the partition is a sector number, by the sum that wraps.
LEMMA LbaInRange ==
  ASSUME NEW v \in Volumes, NEW d \in Descriptor
  PROVE  Lba(v, d) \in 0..(W - 1)
<1>1. d.pos \in Nat
  BY DEF Descriptor
<1>2. v.partStart \in Nat /\ W \in Nat \ {0}
  BY VolumeFacts
<1>3. PICK n : n = v.partStart + d.pos
  OBVIOUS
<1>4. n \in Nat
  BY <1>1, <1>2, <1>3
<1>5. n % W \in 0..(W - 1)
  BY <1>2, <1>4
<1> QED
  BY <1>3, <1>5 DEF Lba

\* A continuation that is on the image begins in a sector of it.
LEMMA HeldBegins ==
  ASSUME NEW v \in Volumes, NEW d \in Descriptor, d.len > 0, Held(v, d)
  PROVE  Lba(v, d) \in DOMAIN v.sectors
<1>1. d.len \in Nat /\ S \in Nat \ {0}
  BY VolumeFacts DEF Descriptor
<1>2. PICK q : q = (d.len + S - 1) \div S
  OBVIOUS
<1>3. q \in Int /\ q >= 1
  BY <1>1, <1>2
<1>4. Lba(v, d) \in Int
  BY LbaInRange, VolumeFacts
<1>5. Lba(v, d) \in Lba(v, d)..(Lba(v, d) + q - 1)
  BY <1>3, <1>4
<1> QED
  BY <1>2, <1>5 DEF Held, Span

\* Every area of a volume is a sequence of descriptors.
LEMMA AreasAreAreas ==
  ASSUME vol \in Volumes
  PROVE  Areas \subseteq Area
BY VolumeFacts DEF Areas, Body

-----------------------------------------------------------------------------
\* Where the walk is: an area of the volume, and a descriptor in it.
LEMMA TopFacts ==
  ASSUME Inv, pc = "walk"
  PROVE  /\ Len(stack) \in Nat \ {0} /\ Len(stack) <= MaxDepth
         /\ Top \in FrameType /\ Top.area \in Areas
         /\ Top.i <= Len(Top.area) =>
              /\ Here \in Descriptor
              /\ \E a \in Areas : \E j \in 1..Len(a) : Here = a[j]
<1>1. stack \in Seq(FrameType) /\ stack # <<>> /\ Len(stack) <= MaxDepth
  BY DEF Inv, TypeOK, FrameType
<1>2. Len(stack) \in Nat \ {0}
  BY <1>1
<1>3. Top \in FrameType /\ Top.area \in Areas
  BY <1>1, <1>2 DEF Inv, StackIsOfAreas, Top, Last
<1>4. Top.area \in Area /\ Top.i \in Nat \ {0}
  BY <1>3 DEF FrameType
<1>5. ASSUME Top.i <= Len(Top.area)
      PROVE  Top.i \in 1..Len(Top.area) /\ Here \in Descriptor
  BY <1>4, <1>5 DEF Here, Area
<1> QED
  BY <1>1, <1>2, <1>3, <1>5 DEF Here

\* The stack past a descriptor is as high as before, over the same areas.
LEMMA AdvancedFacts ==
  ASSUME Inv, pc = "walk"
  PROVE  /\ Advanced \in Seq(FrameType) /\ Len(Advanced) = Len(stack)
         /\ Advanced[Len(stack)] = [stack[Len(stack)] EXCEPT !.i = @ + 1]
         /\ \A k \in 1..(Len(stack) - 1) : Advanced[k] = stack[k]
         /\ Front(stack) \in Seq(FrameType) /\ Len(Front(stack)) = Len(stack) - 1
         /\ \A k \in 1..(Len(stack) - 1) : Front(stack)[k] = stack[k]
         /\ \A k \in 1..Len(Advanced) : Advanced[k].area \in Areas
         /\ \A k \in 1..Len(Front(stack)) : Front(stack)[k].area \in Areas
<1>1. stack \in Seq(FrameType) /\ Len(stack) \in Nat \ {0}
  BY TopFacts DEF Inv, TypeOK, FrameType
<1>2. /\ Front(stack) \in Seq(FrameType) /\ Len(Front(stack)) = Len(stack) - 1
      /\ \A k \in 1..(Len(stack) - 1) : Front(stack)[k] = stack[k]
  <2>1. PICK n : n = Len(stack) - 1
    OBVIOUS
  <2>2. n \in Nat /\ \A k \in 1..n : stack[k] \in FrameType
    BY <1>1, <2>1
  <2>3. /\ SubSeq(stack, 1, n) \in Seq(FrameType)
        /\ Len(SubSeq(stack, 1, n)) = n
        /\ \A k \in 1..n : SubSeq(stack, 1, n)[k] = stack[k]
    BY <2>2, SubSeqProperties
  <2> QED
    BY <2>1, <2>3 DEF Front
<1>3. PICK f : f = [Top EXCEPT !.i = @ + 1]
  OBVIOUS
<1>4. f \in FrameType /\ f.area = Top.area
  BY <1>3, TopFacts DEF FrameType
<1>5. Advanced = Append(Front(stack), f)
  BY <1>3 DEF Advanced
<1>6. /\ Advanced \in Seq(FrameType) /\ Len(Advanced) = Len(stack)
      /\ \A k \in 1..Len(stack) :
           Advanced[k] = IF k = Len(stack) THEN f ELSE stack[k]
  BY <1>1, <1>2, <1>4, <1>5
<1>7. \A k \in 1..Len(stack) : stack[k].area \in Areas
  BY DEF Inv, StackIsOfAreas
<1>8. \A k \in 1..Len(Advanced) : Advanced[k].area \in Areas
  BY <1>4, <1>6, <1>7, TopFacts
<1>9. \A k \in 1..Len(Front(stack)) : Front(stack)[k].area \in Areas
  BY <1>1, <1>2, <1>7
<1>10. /\ Advanced[Len(stack)] = [stack[Len(stack)] EXCEPT !.i = @ + 1]
       /\ \A k \in 1..(Len(stack) - 1) : Advanced[k] = stack[k]
  <2>1. Top = stack[Len(stack)]
    BY DEF Top, Last
  <2>2. Advanced[Len(stack)] = f
    BY <1>1, <1>6
  <2>3. \A k \in 1..(Len(stack) - 1) : Advanced[k] = stack[k]
    BY <1>1, <1>6
  <2> QED
    BY ONLY <1>3, <2>1, <2>2, <2>3
<1> QED
  BY <1>2, <1>6, <1>8, <1>9, <1>10

\* A step that only moves the stack, over areas of the volume.
LEMMA WalkKeeps ==
  ASSUME Inv, pc = "walk", NEW s \in Seq(FrameType), s # <<>>, Len(s) <= MaxDepth,
         \A k \in 1..Len(s) : s[k].area \in Areas,
         Walk(s), UNCHANGED extents
  PROVE  Inv'
<1>1. Areas' = Areas
  BY DEF Walk, Areas, Body, Layout
<1>2. TypeOK'
  BY DEF Inv, TypeOK, Walk, FrameType
<1>3. StackIsOfAreas'
  BY <1>1 DEF Walk, StackIsOfAreas
<1>4. ExtentsAreRecorded'
  BY <1>1 DEF Inv, ExtentsAreRecorded, Walk, Lba, Recorded
<1> QED
  BY <1>2, <1>3, <1>4 DEF Inv

\* A step that only ends the call, or that changes nothing.
LEMMA StopKeeps ==
  ASSUME Inv, UNCHANGED <<vol, stack, extents, inline>>,
         pc' \in {"done", "error", "overflow", pc}
  PROVE  Inv'
<1>1. Areas' = Areas
  BY DEF Areas, Body, Layout
<1>2. TypeOK'
  BY DEF Inv, TypeOK
<1> QED
  BY <1>1, <1>2 DEF Inv, StackIsOfAreas, ExtentsAreRecorded, Lba, Recorded

LEMMA EntryKeeps ==
  ASSUME Inv, ReadInline \/ ReadArea
  PROVE  Inv'
<1>1. vol \in Volumes /\ Body \in Area /\ Body \in Areas
  BY VolumeFacts DEF Inv, TypeOK, Body, Areas
<1>2. Areas' = Areas
  BY DEF ReadInline, ReadArea, Areas, Body, Layout
<1>3. CASE ReadInline
  <2>1. TypeOK'
    BY <1>1, <1>3 DEF Inv, TypeOK, ReadInline
  <2> QED
    BY <1>2, <1>3, <2>1
    DEF Inv, ReadInline, StackIsOfAreas, ExtentsAreRecorded, Lba, Recorded
<1>4. CASE ReadArea
  <2>1. PICK f : f = Frame(Body)
    OBVIOUS
  <2>2. f \in FrameType /\ f.area = Body
    BY <1>1, <2>1 DEF Frame, FrameType
  <2>3. stack' = <<f>> /\ pc' = "walk" /\ UNCHANGED <<vol, extents, inline>>
    BY <1>4, <2>1 DEF ReadArea
  <2>4. stack' \in Seq(FrameType) /\ Len(stack') = 1 /\ stack' # <<>> /\ stack'[1] = f
    BY <2>2, <2>3
  <2>5. TypeOK'
    <3>1. Len(stack') <= MaxDepth
      BY <1>1, <2>4, VolumeFacts
    <3> QED
      BY <2>3, <2>4, <3>1 DEF Inv, TypeOK, FrameType
  <2>6. StackIsOfAreas'
    BY <1>1, <1>2, <2>2, <2>4 DEF StackIsOfAreas
  <2>7. ExtentsAreRecorded'
    BY <1>2, <2>3 DEF Inv, ExtentsAreRecorded, Lba, Recorded
  <2> QED
    BY <2>5, <2>6, <2>7 DEF Inv
<1> QED
  BY <1>3, <1>4

LEMMA TakeExtentKeeps ==
  ASSUME Inv, TakeExtent
  PROVE  Inv'
<1>1. pc = "walk" /\ Top.i <= Len(Top.area) /\ Recorded(Here) /\ Walk(Advanced)
  BY DEF TakeExtent, AtDescriptor
<1>2. vol \in Volumes /\ Here \in Descriptor
  BY <1>1, TopFacts DEF Inv, TypeOK
<1>3. PICK x : x = [lba |-> Lba(vol, Here), len |-> Here.len]
  OBVIOUS
<1>4. x \in [lba : 0..(W - 1), len : Nat \ {0}]
  <2>1. Lba(vol, Here) \in 0..(W - 1)
    BY <1>2, LbaInRange
  <2>2. Here.len \in Nat \ {0}
    BY <1>1, <1>2 DEF Recorded, Descriptor
  <2> QED
    BY <1>3, <2>1, <2>2
<1>5. extents' = Append(extents, x)
  BY <1>3 DEF TakeExtent
<1>6. extents \in Seq([lba : 0..(W - 1), len : Nat \ {0}])
  BY DEF Inv, TypeOK
<1>7. /\ extents' \in Seq([lba : 0..(W - 1), len : Nat \ {0}])
      /\ \A k \in 1..Len(extents') :
           \/ k \in 1..Len(extents) /\ extents'[k] = extents[k]
           \/ extents'[k] = x
  BY <1>4, <1>5, <1>6
<1>8. UNCHANGED <<vol, pc, inline>> /\ stack' = Advanced
  BY <1>1 DEF Walk
<1>9. Areas' = Areas
  BY <1>8 DEF Areas, Body, Layout
<1>10. TypeOK'
  <2>1. stack' \in Seq(FrameType) /\ stack' # <<>> /\ Len(stack') <= MaxDepth
    BY <1>1, <1>8, AdvancedFacts, TopFacts
  <2> QED
    BY <1>7, <1>8, <2>1 DEF Inv, TypeOK, FrameType
<1>11. StackIsOfAreas'
  BY <1>1, <1>8, <1>9, AdvancedFacts DEF StackIsOfAreas
<1>12. ExtentsAreRecorded'
  <2>1. PICK a \in Areas : \E j \in 1..Len(a) : Here = a[j]
    BY <1>1, TopFacts
  <2>a. PICK j \in 1..Len(a) : Here = a[j]
    BY <2>1
  <2>2. Recorded(a[j]) /\ x = [lba |-> Lba(vol, a[j]), len |-> a[j].len]
    BY <1>1, <1>3, <2>a
  <2>3. \A k \in 1..Len(extents') :
          \E b \in Areas : \E i \in 1..Len(b) :
            /\ Recorded(b[i])
            /\ extents'[k] = [lba |-> Lba(vol, b[i]), len |-> b[i].len]
    BY <1>7, <2>2 DEF Inv, ExtentsAreRecorded
  <2> QED
    BY <1>8, <1>9, <2>3 DEF ExtentsAreRecorded, Lba, Recorded
<1> QED
  BY <1>10, <1>11, <1>12 DEF Inv

LEMMA ContinueKeeps ==
  ASSUME Inv, Continue
  PROVE  Inv'
<1>1. /\ pc = "walk" /\ Top.i <= Len(Top.area) /\ Here.len > 0
      /\ Held(vol, Here) /\ Len(stack) < MaxDepth
      /\ Walk(Append(Advanced, Frame(vol.sectors[Lba(vol, Here)].list)))
      /\ UNCHANGED extents
  BY DEF Continue, AtDescriptor
<1>2. vol \in Volumes /\ Here \in Descriptor
  BY <1>1, TopFacts DEF Inv, TypeOK
<1>3. PICK a : a = vol.sectors[Lba(vol, Here)].list
  OBVIOUS
<1>4. a \in Areas /\ a \in Area
  BY <1>1, <1>2, <1>3, HeldBegins, AreasAreAreas DEF Areas
<1>5. PICK f : f = Frame(a)
  OBVIOUS
<1>6. f \in FrameType /\ f.area = a
  BY <1>4, <1>5 DEF Frame, FrameType
<1>7. PICK s : s = Append(Advanced, f)
  OBVIOUS
<1>8. /\ s \in Seq(FrameType) /\ s # <<>> /\ Len(s) = Len(stack) + 1
      /\ \A k \in 1..Len(s) :
           s[k] = IF k = Len(stack) + 1 THEN f ELSE Advanced[k]
  BY <1>1, <1>6, <1>7, AdvancedFacts, TopFacts
<1>9. Len(s) <= MaxDepth
  BY <1>1, <1>2, <1>8, TopFacts, VolumeFacts
<1>10. \A k \in 1..Len(s) : s[k].area \in Areas
  BY <1>1, <1>4, <1>6, <1>8, AdvancedFacts, TopFacts
<1>11. Walk(s)
  BY <1>1, <1>3, <1>5, <1>7
<1> QED
  BY <1>1, <1>8, <1>9, <1>10, <1>11, WalkKeeps

\* Going on to the next descriptor without an extent.
LEMMA PassKeeps ==
  ASSUME Inv, PassOver \/ ContinueNowhere
  PROVE  Inv'
<1>1. pc = "walk" /\ Walk(Advanced) /\ UNCHANGED extents
  BY DEF PassOver, ContinueNowhere, AtDescriptor
<1>2. /\ Advanced \in Seq(FrameType) /\ Advanced # <<>> /\ Len(Advanced) <= MaxDepth
      /\ \A k \in 1..Len(Advanced) : Advanced[k].area \in Areas
  BY <1>1, AdvancedFacts, TopFacts
<1> QED
  BY <1>1, <1>2, WalkKeeps

LEMMA EndAreaKeeps ==
  ASSUME Inv, EndArea
  PROVE  Inv'
<1>1. CASE pc = "walk" /\ Len(stack) > 1 /\ Walk(Front(stack)) /\ UNCHANGED extents
  <2>1. /\ Front(stack) \in Seq(FrameType) /\ Front(stack) # <<>>
        /\ Len(Front(stack)) <= MaxDepth
        /\ \A k \in 1..Len(Front(stack)) : Front(stack)[k].area \in Areas
    BY <1>1, AdvancedFacts, TopFacts, VolumeFacts DEF Inv, TypeOK
  <2> QED
    BY <1>1, <2>1, WalkKeeps
<1>2. CASE Stop("done")
  BY <1>2, StopKeeps DEF Stop
<1> QED
  BY <1>1, <1>2 DEF EndArea

-----------------------------------------------------------------------------
\* The invariant holds of every state of every call, on a chain of areas that
\* is right, cut, or returns to itself.
THEOREM Invariance == Spec => []Inv
<1>1. Init => Inv
  <2> SUFFICES ASSUME Init PROVE Inv
    OBVIOUS
  <2>1. TypeOK
    <3>1. MaxDepth \in Nat
      BY VolumesAssumption
    <3> QED
      BY <3>1 DEF Init, TypeOK, Area
  <2> QED
    BY <2>1 DEF Init, Inv, StackIsOfAreas, ExtentsAreRecorded
<1>2. Inv /\ [Next]_vars => Inv'
  <2> SUFFICES ASSUME Inv, [Next]_vars PROVE Inv'
    OBVIOUS
  <2>1. CASE ReadInline \/ ReadArea
    BY <2>1, EntryKeeps
  <2>2. CASE ReadUnsupported \/ NoEntry \/ ContinueFails \/ Overflow
    BY <2>2, StopKeeps DEF ReadUnsupported, NoEntry, ContinueFails, Overflow, Stop
  <2>3. CASE TakeExtent
    BY <2>3, TakeExtentKeeps
  <2>4. CASE PassOver \/ ContinueNowhere
    BY <2>4, PassKeeps
  <2>5. CASE Continue
    BY <2>5, ContinueKeeps
  <2>6. CASE EndArea
    BY <2>6, EndAreaKeeps
  <2>7. CASE UNCHANGED vars
    BY <2>7, StopKeeps DEF vars
  <2> QED
    BY <2>1, <2>2, <2>3, <2>4, <2>5, <2>6, <2>7 DEF Next, Sound
<1> QED
  BY <1>1, <1>2, PTL DEF Spec

\* Type correctness: whatever the descriptors say, an extent has a sector
\* number and a length above zero, and the stack never has more areas than it
\* has room for (udf/volume.go:326-391).
THEOREM TypeCorrect == Spec => []TypeOK
<1>1. Inv => TypeOK
  BY DEF Inv
<1> QED
  BY <1>1, Invariance, PTL

\* No extent is made up: each comes from a descriptor in the area of the entry
\* or in one that is on the image, by the sector number that descriptor gives
\* (udf/volume.go:369-389).
THEOREM ExtentsRecorded == Spec => []ExtentsAreRecorded
<1>1. Inv => ExtentsAreRecorded
  BY DEF Inv
<1> QED
  BY <1>1, Invariance, PTL
-----------------------------------------------------------------------------
(***************************************************************************)
(* The loops of the yardstick: what an area stands for, and which extents  *)
(* a sequence of descriptors has.                                          *)
(***************************************************************************)
Levels(v) == [DOMAIN v.sectors -> Area]

LEMMA PartIsArea ==
  ASSUME NEW v \in Volumes, NEW d \in Descriptor, NEW level \in Levels(v)
  PROVE  Part(v, d, level) \in Area
<1>1. Leads(v, d) => level[Lba(v, d)] \in Area
  BY HeldBegins DEF Leads, Levels
<1>2. <<>> \in Area /\ <<d>> \in Area
  BY DEF Area
<1> QED
  BY <1>1, <1>2 DEF Part

ExpansionIs(v, area, level, h) ==
  h = [j \in 0..Len(area) |->
         IF j = 0 THEN <<>> ELSE h[j - 1] \o Part(v, area[j], level)]

\* The expansion of an area grows by one descriptor's part at a time.
LEMMA ExpansionFacts ==
  ASSUME NEW v \in Volumes, NEW area \in Area, NEW level \in Levels(v)
  PROVE  /\ Expansion(v, area, level) \in [0..Len(area) -> Area]
         /\ Expansion(v, area, level)[0] = <<>>
         /\ \A j \in 1..Len(area) :
              Expansion(v, area, level)[j]
                = Expansion(v, area, level)[j - 1] \o Part(v, area[j], level)
<1> PICK n \in Nat : n = Len(area)
  BY DEF Area
<1>1. \A j \in 1..n : area[j] \in Descriptor
  BY DEF Area
<1>2. \A q \in Area, j \in 1..n : q \o Part(v, area[j], level) \in Area
  BY <1>1, PartIsArea DEF Area
<1>3. PICK g : g = [z \in Area \X (1..n) |-> z[1] \o Part(v, area[z[2]], level)]
  OBVIOUS
<1>4. /\ g \in [Area \X (1..n) -> Area]
      /\ \A q \in Area, j \in 1..n : g[<<q, j>>] = q \o Part(v, area[j], level)
  BY <1>2, <1>3
<1>5. PICK a : a = <<>>
  OBVIOUS
<1>6. a \in Area
  BY <1>5 DEF Area
<1>7. PICK f \in [0..n -> Area] : Runs(f, n, a, g)
  BY <1>4, <1>6, Iterates
<1>8. ExpansionIs(v, area, level, f)
  <2>1. ASSUME NEW j \in 0..n
        PROVE  f[j] = IF j = 0 THEN <<>> ELSE f[j - 1] \o Part(v, area[j], level)
    <3>1. j # 0 => j - 1 \in 0..n /\ j \in 1..n
      OBVIOUS
    <3> QED
      BY <1>4, <1>5, <1>7, <3>1 DEF Runs
  <2> QED
    BY <2>1 DEF ExpansionIs
<1>9. PICK h : ExpansionIs(v, area, level, h) /\ Expansion(v, area, level) = h
  BY <1>8 DEF Expansion, ExpansionIs
<1>10. /\ h = [j \in 0..n |-> h[j]] /\ h[0] = <<>>
       /\ \A j \in 1..n : h[j] = h[j - 1] \o Part(v, area[j], level)
  <2>1. h = [j \in 0..n |->
               IF j = 0 THEN <<>> ELSE h[j - 1] \o Part(v, area[j], level)]
    BY <1>9 DEF ExpansionIs
  <2>2. \A j \in 1..n : j \in 0..n /\ j # 0
    OBVIOUS
  <2>3. 0 \in 0..n
    OBVIOUS
  <2>4. h = [j \in 0..n |-> h[j]]
    BY ONLY <2>1
  <2>5. h[0] = <<>>
    BY ONLY <2>1, <2>3
  <2> QED
    BY ONLY <2>1, <2>2, <2>4, <2>5
<1>11. h \in [0..n -> Area]
  <2>1. h[0] \in Area
    BY <1>5, <1>6, <1>10
  <2>2. \A j \in 1..n : h[j - 1] \in Area => h[j] \in Area
    BY <1>2, <1>10
  <2> QED
    BY ONLY n \in Nat, <1>10, <2>1, <2>2, StaysIn
<1>12. Expansion(v, area, level) = h
  BY <1>9
<1> QED
  BY <1>10, <1>11, <1>12

LEMMA ExpandedIsArea ==
  ASSUME NEW v \in Volumes, NEW area \in Area, NEW level \in Levels(v)
  PROVE  Expanded(v, area, level) \in Area
<1>1. PICK e : e = Expansion(v, area, level)
  OBVIOUS
<1>2. e \in [0..Len(area) -> Area]
  BY <1>1, ExpansionFacts
<1>3. Len(area) \in 0..Len(area)
  BY DEF Area
<1>4. e[Len(area)] \in Area
  BY <1>2, <1>3
<1> QED
  BY <1>1, <1>4 DEF Expanded

\* Only the sectors that an area leads to matter to what it stands for.
LEMMA SameExpansion ==
  ASSUME NEW v \in Volumes, NEW area \in Area,
         NEW level \in Levels(v), NEW other \in Levels(v),
         \A j \in 1..Len(area) :
           Leads(v, area[j]) => level[Lba(v, area[j])] = other[Lba(v, area[j])]
  PROVE  Expanded(v, area, level) = Expanded(v, area, other)
<1> PICK n \in Nat : n = Len(area)
  BY DEF Area
<1>1. PICK e : e = Expansion(v, area, level)
  OBVIOUS
<1>2. PICK f : f = Expansion(v, area, other)
  OBVIOUS
<1>3. /\ e[0] = f[0]
      /\ \A j \in 1..n : e[j] = e[j - 1] \o Part(v, area[j], level)
      /\ \A j \in 1..n : f[j] = f[j - 1] \o Part(v, area[j], other)
  BY <1>1, <1>2, ExpansionFacts
<1>4. \A j \in 1..n : Part(v, area[j], level) = Part(v, area[j], other)
  BY DEF Part
<1>5. PICK P : P = { j \in 0..n : e[j] = f[j] }
  OBVIOUS
<1>6. \A j \in 0..n : j \in P
  <2>1. 0 \in P
    BY <1>3, <1>5
  <2>2. ASSUME NEW j \in 1..n, j - 1 \in P PROVE j \in P
    <3>1. e[j - 1] = f[j - 1]
      BY <1>5, <2>2
    <3>2. e[j] = f[j]
      BY <1>3, <1>4, <3>1
    <3> QED
      BY <1>5, <3>2
  <2> QED
    BY <2>1, <2>2, InductionUpTo
<1>7. e[n] = f[n]
  BY <1>5, <1>6
<1> QED
  BY <1>1, <1>2, <1>7 DEF Expanded

Extent == [lba : 0..(W - 1), len : Nat \ {0}]

ExtentOf(v, d) == [lba |-> Lba(v, d), len |-> d.len]

LEMMA ExtentOfIsExtent ==
  ASSUME NEW v \in Volumes, NEW d \in Descriptor, Recorded(d)
  PROVE  ExtentOf(v, d) \in Extent
BY LbaInRange DEF Recorded, ExtentOf, Extent, Descriptor

ExtentsIs(v, s, h) ==
  h = [j \in 0..Len(s) |->
         IF j = 0 THEN <<>>
         ELSE IF Recorded(s[j])
              THEN Append(h[j - 1], [lba |-> Lba(v, s[j]), len |-> s[j].len])
              ELSE h[j - 1]]

LEMMA ExtentsFacts ==
  ASSUME NEW v \in Volumes, NEW s \in Area
  PROVE  /\ Extents(v, s) \in [0..Len(s) -> Seq(Extent)]
         /\ Extents(v, s)[0] = <<>>
         /\ \A j \in 1..Len(s) :
              Extents(v, s)[j] = IF Recorded(s[j])
                                 THEN Append(Extents(v, s)[j - 1], ExtentOf(v, s[j]))
                                 ELSE Extents(v, s)[j - 1]
<1> PICK n \in Nat : n = Len(s)
  BY DEF Area
<1> DEFINE Step(q, j) == IF Recorded(s[j]) THEN Append(q, ExtentOf(v, s[j])) ELSE q
<1>1. \A j \in 1..n : s[j] \in Descriptor
  BY DEF Area
<1> PICK Q : Q = Seq(Extent)
  OBVIOUS
<1>2. ASSUME NEW q \in Q, NEW j \in 1..n PROVE Step(q, j) \in Q
  BY <1>1, ExtentOfIsExtent
<1>3. PICK g : g = [z \in Q \X (1..n) |-> Step(z[1], z[2])]
  OBVIOUS
<1>4. /\ g \in [Q \X (1..n) -> Q]
      /\ \A q \in Q, j \in 1..n : g[<<q, j>>] = Step(q, j)
  <2> HIDE DEF Step
  <2> QED
    BY <1>2, <1>3
<1>5. PICK a : a = <<>>
  OBVIOUS
<1>6. a \in Q
  BY <1>5
<1>7. PICK f \in [0..n -> Q] : Runs(f, n, a, g)
  <2> HIDE DEF Step
  <2> QED
    BY <1>4, <1>6, Iterates
<1>8. ExtentsIs(v, s, f)
  <2>1. ASSUME NEW j \in 0..n
        PROVE  f[j] = IF j = 0 THEN <<>> ELSE Step(f[j - 1], j)
    <3>1. j # 0 => j - 1 \in 0..n /\ j \in 1..n
      OBVIOUS
    <3> HIDE DEF Step
    <3> QED
      BY <1>4, <1>5, <1>7, <3>1 DEF Runs
  <2>2. f = [j \in 0..n |-> f[j]]
    OBVIOUS
  <2> QED
    BY <2>1, <2>2 DEF ExtentsIs, ExtentOf
<1>9. PICK h : ExtentsIs(v, s, h) /\ Extents(v, s) = h
  BY <1>8 DEF Extents, ExtentsIs
<1>10. /\ h = [j \in 0..n |-> h[j]] /\ h[0] = <<>>
       /\ \A j \in 1..n : h[j] = Step(h[j - 1], j)
  <2>1. h = [j \in 0..n |-> IF j = 0 THEN <<>> ELSE Step(h[j - 1], j)]
    BY <1>9 DEF ExtentsIs, ExtentOf
  <2>2. (\A j \in 1..n : j \in 0..n /\ j # 0) /\ 0 \in 0..n
    OBVIOUS
  <2> HIDE DEF Step
  <2>4. h = [j \in 0..n |-> h[j]]
    BY ONLY <2>1
  <2>5. h[0] = <<>>
    BY ONLY <2>1, <2>2
  <2> QED
    BY ONLY <2>1, <2>2, <2>4, <2>5
<1>11. h \in [0..n -> Q]
  <2> HIDE DEF Step
  <2>1. h[0] \in Q
    BY <1>5, <1>6, <1>10
  <2>2. \A j \in 1..n : h[j - 1] \in Q => h[j] \in Q
    BY <1>2, <1>10
  <2> QED
    BY ONLY n \in Nat, <1>10, <2>1, <2>2, StaysIn
<1> QED
  BY <1>9, <1>10, <1>11

\* All the extents of a sequence of descriptors.
AllExtents(v, s) == Extents(v, s)[Len(s)]

LEMMA AllExtentsAre ==
  ASSUME NEW v \in Volumes, NEW s \in Area
  PROVE  AllExtents(v, s) \in Seq(Extent)
<1>1. Len(s) \in 0..Len(s)
  BY DEF Area
<1> QED
  BY <1>1, ExtentsFacts DEF AllExtents

\* The extents of one sequence after another: by induction along the second.
LEMMA ExtentsOfBoth ==
  ASSUME NEW v \in Volumes, NEW s \in Area, NEW t \in Area
  PROVE  /\ s \o t \in Area
         /\ AllExtents(v, s \o t) = AllExtents(v, s) \o AllExtents(v, t)
<1> PICK m \in Nat : m = Len(s)
  BY DEF Area
<1> PICK n \in Nat : n = Len(t)
  BY DEF Area
<1> PICK u : u = s \o t
  OBVIOUS
<1>1. /\ u \in Area /\ Len(u) = m + n
      /\ \A j \in 1..m : u[j] = s[j]
      /\ \A j \in 1..n : u[m + j] = t[j]
  BY DEF Area
<1>2. PICK e : e = Extents(v, s)
  OBVIOUS
<1>3. PICK f : f = Extents(v, t)
  OBVIOUS
<1>4. PICK h : h = Extents(v, u)
  OBVIOUS
<1>5. /\ e \in [0..m -> Seq(Extent)] /\ e[0] = <<>>
      /\ \A j \in 1..m : e[j] = IF Recorded(s[j]) THEN Append(e[j - 1], ExtentOf(v, s[j]))
                                ELSE e[j - 1]
  BY <1>2, ExtentsFacts
<1>6. /\ f \in [0..n -> Seq(Extent)] /\ f[0] = <<>>
      /\ \A j \in 1..n : f[j] = IF Recorded(t[j]) THEN Append(f[j - 1], ExtentOf(v, t[j]))
                                ELSE f[j - 1]
  BY <1>3, ExtentsFacts
<1>7. /\ h[0] = <<>>
      /\ \A j \in 1..(m + n) :
           h[j] = IF Recorded(u[j]) THEN Append(h[j - 1], ExtentOf(v, u[j])) ELSE h[j - 1]
  BY <1>1, <1>4, ExtentsFacts
<1>8. h[m] = e[m]
  <2>1. PICK P : P = { j \in 0..m : h[j] = e[j] }
    OBVIOUS
  <2>2. 0 \in P
    BY <1>5, <1>7, <2>1
  <2>3. ASSUME NEW j \in 1..m, j - 1 \in P PROVE j \in P
    <3>1. j \in 1..(m + n) /\ j \in 0..m /\ h[j - 1] = e[j - 1]
      BY <2>1, <2>3
    <3> QED
      BY <1>1, <1>5, <1>7, <2>1, <3>1
  <2>4. \A j \in 0..m : j \in P
    BY <2>2, <2>3, InductionUpTo
  <2> QED
    BY <2>1, <2>4
<1> PICK p \in Seq(Extent) : p = e[m]
  BY <1>5
<1>9. PICK P : P = { j \in 0..n : h[m + j] = p \o f[j] }
  OBVIOUS
<1>10. h[m] = p
  BY <1>8
<1>11. 0 \in P
  <2>1. p \o <<>> = p
    OBVIOUS
  <2>2. m + 0 = m
    OBVIOUS
  <2> QED
    BY <1>6, <1>9, <1>10, <2>1, <2>2
<1>12. ASSUME NEW j \in 1..n, j - 1 \in P PROVE j \in P
  <2>1. PICK i \in 1..(m + n) : i = m + j
    OBVIOUS
  <2>2. i - 1 = m + (j - 1) /\ j - 1 \in 0..n /\ j \in 0..n
    BY <2>1
  <2>3. h[i - 1] = p \o f[j - 1]
    <3>1. h[m + (j - 1)] = p \o f[j - 1]
      BY <1>9, <1>12
    <3> QED
      BY <2>2, <3>1
  <2>4. t[j] \in Descriptor
    BY DEF Area
  <2> PICK q \in Seq(Extent) : q = f[j - 1]
    BY ONLY <1>6, <2>2
  <2>5. u[i] = t[j]
    BY <1>1, <2>1
  <2>6. h[i] = IF Recorded(t[j]) THEN Append(h[i - 1], ExtentOf(v, t[j])) ELSE h[i - 1]
    <3>1. h[i] = IF Recorded(u[i]) THEN Append(h[i - 1], ExtentOf(v, u[i])) ELSE h[i - 1]
      BY ONLY <1>7, i \in 1..(m + n)
    <3> QED
      BY ONLY <2>5, <3>1
  <2>7. h[i] = p \o f[j]
    <3>1. CASE Recorded(t[j])
      <4>1. PICK x \in Extent : x = ExtentOf(v, t[j])
        BY <2>4, <3>1, ExtentOfIsExtent
      <4>2. Append(p \o q, x) = p \o Append(q, x)
        <5> PICK T : T = Extent
          OBVIOUS
        <5>1. p \in Seq(T) /\ q \in Seq(T) /\ x \in T
          OBVIOUS
        <5> QED
          BY ONLY <5>1
      <4> QED
        <5>1. h[i] = Append(h[i - 1], x) /\ f[j] = Append(q, x)
          BY <1>6, <2>6, <3>1, <4>1
        <5> QED
          BY <2>3, <4>2, <5>1
    <3>2. CASE ~Recorded(t[j])
      BY <1>6, <2>3, <2>6, <3>2
    <3> QED
      BY <3>1, <3>2
  <2> QED
    BY <1>9, <2>1, <2>2, <2>7
<1>13. \A j \in 0..n : j \in P
  BY <1>11, <1>12, InductionUpTo
<1>14. h[m + n] = p \o f[n]
  <2>1. n \in P
    BY <1>13
  <2> QED
    BY <1>9, <2>1
<1> QED
  BY <1>1, <1>2, <1>3, <1>4, <1>14 DEF AllExtents

-----------------------------------------------------------------------------
(***************************************************************************)
(* Chains that end.  A walk that is over has met no chain that returns to  *)
(* itself; for a sector from which none does, as many levels as the image  *)
(* has sectors are enough: Level(v)[Depth(v)] solves the equation that     *)
(* says what its area stands for (Solves).                                 *)
(***************************************************************************)
List(v, l) == v.sectors[l].list

\* All that the area in sector l leads to is in P.
LeadsInto(v, l, P) ==
  \A j \in 1..Len(List(v, l)) :
    Leads(v, List(v, l)[j]) => Lba(v, List(v, l)[j]) \in P

\* P has every sector whose area leads into P alone.
Inductive(v, P) == \A l \in DOMAIN v.sectors : LeadsInto(v, l, P) => l \in P

\* The sectors from which every chain ends: the least inductive set.
Ending(v) ==
  { l \in DOMAIN v.sectors :
      \A P \in SUBSET DOMAIN v.sectors : Inductive(v, P) => l \in P }

LEMMA EndingIsInductive ==
  ASSUME NEW v, NEW l \in DOMAIN v.sectors, LeadsInto(v, l, Ending(v))
  PROVE  l \in Ending(v)
<1> SUFFICES ASSUME NEW P \in SUBSET DOMAIN v.sectors, Inductive(v, P)
             PROVE  l \in P
  BY DEF Ending
<1>1. Ending(v) \subseteq P
  BY DEF Ending
<1>2. LeadsInto(v, l, P)
  BY <1>1 DEF LeadsInto
<1> QED
  BY <1>2 DEF Inductive

LEMMA DepthFacts ==
  ASSUME NEW v \in Volumes
  PROVE  IsFiniteSet(DOMAIN v.sectors) /\ Depth(v) \in Nat
<1>1. DOMAIN v.sectors \subseteq 0..(W - 1) /\ W \in Nat \ {0}
  BY VolumesAssumption
<1>2. IsFiniteSet(0..(W - 1))
  BY <1>1, FS_Interval
<1>3. IsFiniteSet(DOMAIN v.sectors)
  BY <1>1, <1>2, FS_Subset
<1> QED
  BY <1>3, FS_CardinalityType DEF Depth

LevelIs(v, h) ==
  h = [k \in 0..Depth(v) |->
         [l \in DOMAIN v.sectors |->
            IF k = 0 THEN <<>> ELSE Expanded(v, v.sectors[l].list, h[k - 1])]]

LEMMA LevelFacts ==
  ASSUME NEW v \in Volumes
  PROVE  /\ Level(v) \in [0..Depth(v) -> Levels(v)]
         /\ \A k \in 1..Depth(v) : \A l \in DOMAIN v.sectors :
              Level(v)[k][l] = Expanded(v, List(v, l), Level(v)[k - 1])
<1> PICK n \in Nat : n = Depth(v)
  BY DepthFacts
<1> PICK D : D = DOMAIN v.sectors
  OBVIOUS
<1> PICK L : L = Levels(v)
  OBVIOUS
<1> DEFINE Next1(x) == [l \in D |-> Expanded(v, v.sectors[l].list, x)]
<1>1. ASSUME NEW x \in L PROVE Next1(x) \in L
  <2>1. ASSUME NEW l \in D PROVE Expanded(v, v.sectors[l].list, x) \in Area
    BY VolumeFacts, ExpandedIsArea
  <2> QED
    BY <2>1 DEF Levels
<1>2. PICK a : a = [l \in D |-> <<>>]
  OBVIOUS
<1>3. a \in L
  BY <1>2 DEF Levels, Area
<1> DEFINE g == [z \in L \X (1..n) |-> Next1(z[1])]
<1>4. /\ g \in [L \X (1..n) -> L]
      /\ \A x \in L, k \in 1..n : g[<<x, k>>] = Next1(x)
  <2> HIDE DEF Next1
  <2> QED
    BY <1>1
<1>5. PICK f \in [0..n -> L] : Runs(f, n, a, g)
  <2> HIDE DEF g
  <2> QED
    BY <1>3, <1>4, Iterates
<1>6. LevelIs(v, f)
  <2>1. ASSUME NEW k \in 0..n
        PROVE  f[k] = IF k = 0 THEN a ELSE Next1(f[k - 1])
    <3>1. k # 0 => k - 1 \in 0..n /\ k \in 1..n
      OBVIOUS
    <3> HIDE DEF g, Next1
    <3> QED
      BY <1>4, <1>5, <3>1 DEF Runs
  <2>2. ASSUME NEW k \in 0..n
        PROVE  f[k] = [l \in D |-> IF k = 0 THEN <<>>
                                   ELSE Expanded(v, v.sectors[l].list, f[k - 1])]
    BY <1>2, <2>1
  <2>3. f = [k \in 0..n |-> f[k]]
    OBVIOUS
  <2> QED
    BY ONLY <2>2, <2>3, n = Depth(v), D = DOMAIN v.sectors DEF LevelIs
<1>7. PICK h : LevelIs(v, h) /\ Level(v) = h
  BY <1>6 DEF Level, LevelIs
<1>8. h = [k \in 0..n |-> [l \in D |-> IF k = 0 THEN <<>>
                                       ELSE Expanded(v, v.sectors[l].list, h[k - 1])]]
  BY <1>7 DEF LevelIs
<1>9. (\A k \in 1..n : k \in 0..n /\ k # 0) /\ 0 \in 0..n
  OBVIOUS
<1>10. /\ h = [k \in 0..n |-> h[k]] /\ h[0] = a
       /\ \A k \in 1..n : h[k] = Next1(h[k - 1])
  <2>1. h = [k \in 0..n |-> h[k]]
    BY ONLY <1>8
  <2>2. h[0] = a
    BY ONLY <1>2, <1>8, <1>9
  <2>3. \A k \in 1..n : h[k] = Next1(h[k - 1])
    BY ONLY <1>8, <1>9
  <2> QED
    BY <2>1, <2>2, <2>3
<1>11. h \in [0..n -> L]
  <2> HIDE DEF Next1
  <2>1. h[0] \in L
    BY <1>3, <1>10
  <2>2. \A k \in 1..n : h[k - 1] \in L => h[k] \in L
    BY <1>1, <1>10
  <2> QED
    BY ONLY n \in Nat, <1>10, <2>1, <2>2, StaysIn
<1>12. ASSUME NEW k \in 1..n, NEW l \in D
       PROVE  h[k][l] = Expanded(v, List(v, l), h[k - 1])
  <2>1. h[k] = [i \in D |-> Expanded(v, v.sectors[i].list, h[k - 1])]
    BY <1>10
  <2> QED
    BY ONLY <2>1, l \in D DEF List
<1>13. Level(v) = h
  BY <1>7
<1> QED
  BY ONLY n = Depth(v), D = DOMAIN v.sectors, L = Levels(v), <1>11, <1>12, <1>13

\* What each sector stands for, when no chain from it returns to itself.
Full(v) == Level(v)[Depth(v)]

\* The sectors from which every chain ends within k areas.
Within(v, F) ==
  /\ F \in [0..Depth(v) -> SUBSET DOMAIN v.sectors]
  /\ F[0] = {}
  /\ \A k \in 1..Depth(v) :
       F[k] = { l \in DOMAIN v.sectors : LeadsInto(v, l, F[k - 1]) }

LEMMA WithinExists ==
  ASSUME NEW v \in Volumes
  PROVE  \E F : Within(v, F)
<1> PICK n \in Nat : n = Depth(v)
  BY DepthFacts
<1> PICK D : D = DOMAIN v.sectors
  OBVIOUS
<1> PICK Q : Q = SUBSET D
  OBVIOUS
<1> DEFINE Next1(x) == { l \in D : LeadsInto(v, l, x) }
<1> DEFINE g == [z \in Q \X (1..n) |-> Next1(z[1])]
<1>1. \A x \in Q : Next1(x) \in Q
  OBVIOUS
<1>2. /\ g \in [Q \X (1..n) -> Q]
      /\ \A x \in Q, k \in 1..n : g[<<x, k>>] = Next1(x)
  <2> HIDE DEF Next1
  <2> QED
    BY <1>1
<1>3. PICK a : a = {}
  OBVIOUS
<1>4. a \in Q
  BY <1>3
<1>5. PICK F \in [0..n -> Q] : Runs(F, n, a, g)
  <2> HIDE DEF g
  <2> QED
    BY <1>2, <1>4, Iterates
<1>6. F[0] = {} /\ \A k \in 1..n : F[k] = Next1(F[k - 1])
  <2>1. \A k \in 1..n : k - 1 \in 0..n
    OBVIOUS
  <2> HIDE DEF g, Next1
  <2> QED
    BY <1>2, <1>3, <1>5, <2>1 DEF Runs
<1> QED
  BY <1>5, <1>6 DEF Within

LEMMA WithinGrows ==
  ASSUME NEW v \in Volumes, NEW F, Within(v, F)
  PROVE  \A k \in 1..Depth(v) : F[k - 1] \subseteq F[k]
<1> PICK n \in Nat : n = Depth(v)
  BY DepthFacts
<1>1. PICK P : P = { k \in 0..n : k # 0 => F[k - 1] \subseteq F[k] }
  OBVIOUS
<1>2. 0 \in P
  BY <1>1
<1>3. ASSUME NEW k \in 1..n, k - 1 \in P PROVE k \in P
  <2>1. CASE k = 1
    <3>1. F[k - 1] = {}
      BY <2>1 DEF Within
    <3> QED
      BY <1>1, <3>1
  <2>2. CASE k # 1
    <3> PICK i \in 1..n : i = k - 1
      BY <2>2
    <3>1. F[i - 1] \subseteq F[i]
      BY <1>1, <1>3
    <3>2. /\ F[i] = { l \in DOMAIN v.sectors : LeadsInto(v, l, F[i - 1]) }
          /\ F[k] = { l \in DOMAIN v.sectors : LeadsInto(v, l, F[k - 1]) }
      BY DEF Within
    <3>3. \A l : LeadsInto(v, l, F[i - 1]) => LeadsInto(v, l, F[i])
      BY <3>1 DEF LeadsInto
    <3>4. F[k - 1] \subseteq F[k]
      BY <3>2, <3>3
    <3> QED
      BY <1>1, <3>4
  <2> QED
    BY <2>1, <2>2
<1>4. \A k \in 0..n : k \in P
  BY <1>2, <1>3, InductionUpTo
<1>5. ASSUME NEW k \in 1..n PROVE F[k - 1] \subseteq F[k]
  <2>1. k \in P /\ k # 0
    BY <1>4
  <2> QED
    BY <1>1, <2>1
<1> QED
  BY <1>5

\* Each level is larger than the one before or nothing is added any more, and
\* there are only as many sectors as there are levels.
LEMMA WithinStops ==
  ASSUME NEW v \in Volumes, NEW F, Within(v, F)
  PROVE  \E k \in 0..Depth(v) : Inductive(v, F[k])
<1> PICK n \in Nat : n = Depth(v)
  BY DepthFacts
<1> PICK D : D = DOMAIN v.sectors
  OBVIOUS
<1>1. /\ \A k \in 0..n : F[k] \subseteq D
      /\ F[0] = {}
      /\ \A k \in 1..n : F[k] = { l \in D : LeadsInto(v, l, F[k - 1]) }
  BY DEF Within
<1>2. \A k \in 1..n : F[k - 1] \subseteq F[k]
  BY WithinGrows
<1>3. CASE \E k \in 1..n : F[k - 1] = F[k]
  <2>1. PICK k \in 1..n : F[k - 1] = F[k]
    BY <1>3
  <2>2. \A l \in D : LeadsInto(v, l, F[k]) => l \in F[k]
    BY <1>1, <2>1
  <2> QED
    BY <2>2 DEF Inductive
<1>4. CASE \A k \in 1..n : F[k - 1] # F[k]
  <2>1. IsFiniteSet(D) /\ n = Cardinality(D)
    BY DepthFacts DEF Depth
  <2>2. \A k \in 0..n : IsFiniteSet(F[k]) /\ Cardinality(F[k]) \in Nat
    BY <1>1, <2>1, FS_Subset, FS_CardinalityType
  <2>3. PICK P : P = { k \in 0..n : Cardinality(F[k]) >= k }
    OBVIOUS
  <2>4. 0 \in P
    BY <2>2, <2>3
  <2>5. ASSUME NEW k \in 1..n, k - 1 \in P PROVE k \in P
    <3>1. k - 1 \in 0..n /\ Cardinality(F[k - 1]) >= k - 1
      BY <2>3, <2>5
    <3>2. F[k - 1] \in SUBSET F[k] /\ F[k - 1] # F[k]
      BY <1>2, <1>4
    <3>3. Cardinality(F[k - 1]) <= Cardinality(F[k])
          /\ Cardinality(F[k - 1]) # Cardinality(F[k])
      BY <2>2, <3>2, FS_Subset
    <3>4. Cardinality(F[k - 1]) \in Nat /\ Cardinality(F[k]) \in Nat
      BY <2>2, <3>1
    <3>5. Cardinality(F[k]) >= k
      BY <3>1, <3>3, <3>4
    <3> QED
      BY <2>3, <3>5
  <2>6. \A k \in 0..n : k \in P
    BY <2>4, <2>5, InductionUpTo
  <2>7. Cardinality(F[n]) >= n /\ F[n] \in SUBSET D
    BY <1>1, <2>3, <2>6
  <2>8. Cardinality(F[n]) <= Cardinality(D) /\ (Cardinality(D) = Cardinality(F[n]) => D = F[n])
    BY <2>1, <2>7, FS_Subset
  <2>9. Cardinality(F[n]) = Cardinality(D)
    BY <2>1, <2>2, <2>7, <2>8
  <2>10. F[n] = D
    BY <2>8, <2>9
  <2>11. Inductive(v, F[n])
    BY <2>10 DEF Inductive
  <2> QED
    BY <2>11
<1> QED
  BY <1>3, <1>4

LEMMA EndingWithin ==
  ASSUME NEW v \in Volumes, NEW F, Within(v, F), NEW l \in Ending(v)
  PROVE  \E k \in 1..Depth(v) : l \in F[k]
<1>1. PICK k \in 0..Depth(v) : Inductive(v, F[k])
  BY WithinStops
<1>2. F[k] \in SUBSET DOMAIN v.sectors /\ F[0] = {}
  BY DEF Within
<1>3. l \in F[k]
  BY <1>1, <1>2 DEF Ending
<1>4. k # 0
  BY <1>2, <1>3
<1>5. k \in 1..Depth(v)
  BY <1>4, DepthFacts
<1> QED
  BY <1>3, <1>5

\* What an area within k levels leads to is within k - 1.
LEMMA LedTo ==
  ASSUME NEW v \in Volumes, NEW F, Within(v, F),
         NEW k \in 1..Depth(v), NEW l \in F[k]
  PROVE  /\ l \in DOMAIN v.sectors
         /\ List(v, l) \in Area
         /\ \A j \in 1..Len(List(v, l)) :
              Leads(v, List(v, l)[j]) => Lba(v, List(v, l)[j]) \in F[k - 1]
<1>1. l \in DOMAIN v.sectors /\ LeadsInto(v, l, F[k - 1])
  BY DEF Within
<1> QED
  BY <1>1, VolumeFacts DEF LeadsInto, List

\* More levels add nothing to a sector whose chains end within k.
LEMMA Settled ==
  ASSUME NEW v \in Volumes, NEW F, Within(v, F)
  PROVE  \A k \in 0..Depth(v) : \A l \in F[k] : \A m \in k..Depth(v) :
           Level(v)[m][l] = Level(v)[k][l]
<1> PICK n \in Nat : n = Depth(v)
  BY DepthFacts
<1> PICK h : h = Level(v)
  OBVIOUS
<1>1. /\ h \in [0..n -> Levels(v)]
      /\ \A k \in 1..n : \A l \in DOMAIN v.sectors : h[k][l] = Expanded(v, List(v, l), h[k - 1])
  BY LevelFacts
<1>2. PICK P : P = { k \in 0..n : \A l \in F[k] : \A m \in k..n : h[m][l] = h[k][l] }
  OBVIOUS
<1>3. 0 \in P
  <2>1. F[0] = {}
    BY DEF Within
  <2> QED
    BY <1>2, <2>1
<1>4. ASSUME NEW k \in 1..n, k - 1 \in P PROVE k \in P
  <2>1. ASSUME NEW l \in F[k], NEW m \in k..n PROVE h[m][l] = h[k][l]
    <3>1. m \in 1..n /\ m - 1 \in 0..n /\ k - 1 \in 0..n /\ m - 1 \in (k - 1)..n
      OBVIOUS
    <3>2. /\ l \in DOMAIN v.sectors /\ List(v, l) \in Area
          /\ \A j \in 1..Len(List(v, l)) :
               Leads(v, List(v, l)[j]) => Lba(v, List(v, l)[j]) \in F[k - 1]
      BY LedTo
    <3>3. \A x \in F[k - 1] : h[m - 1][x] = h[k - 1][x]
      BY <1>2, <1>4, <3>1
    <3>4. h[m - 1] \in Levels(v) /\ h[k - 1] \in Levels(v)
      BY <1>1, <3>1
    <3>5. Expanded(v, List(v, l), h[m - 1]) = Expanded(v, List(v, l), h[k - 1])
      BY <3>2, <3>3, <3>4, SameExpansion
    <3> QED
      BY <1>1, <3>1, <3>2, <3>5
  <2> QED
    BY <1>2, <2>1
<1>5. \A k \in 0..n : k \in P
  BY <1>3, <1>4, InductionUpTo
<1>6. \A k \in 0..n : \A l \in F[k] : \A m \in k..n : h[m][l] = h[k][l]
  BY <1>2, <1>5
<1> QED
  BY <1>6

LEMMA FullIsLevel ==
  ASSUME NEW v \in Volumes
  PROVE  Full(v) \in Levels(v)
<1>1. Depth(v) \in 0..Depth(v)
  BY DepthFacts
<1> QED
  BY <1>1, LevelFacts DEF Full

LEMMA FullSolves ==
  ASSUME NEW v \in Volumes, NEW l \in Ending(v)
  PROVE  /\ l \in DOMAIN v.sectors
         /\ Full(v)[l] = Expanded(v, List(v, l), Full(v))
<1> PICK n \in Nat : n = Depth(v)
  BY DepthFacts
<1> PICK h : h = Level(v)
  OBVIOUS
<1>1. PICK F : Within(v, F)
  BY WithinExists
<1>2. PICK k \in 1..n : l \in F[k]
  BY <1>1, EndingWithin
<1>3. n \in 1..n /\ n - 1 \in 0..n /\ k - 1 \in 0..n /\ n - 1 \in (k - 1)..n /\ n \in (k - 1)..n
  OBVIOUS
<1>4. /\ l \in DOMAIN v.sectors /\ List(v, l) \in Area
      /\ \A j \in 1..Len(List(v, l)) :
           Leads(v, List(v, l)[j]) => Lba(v, List(v, l)[j]) \in F[k - 1]
  BY <1>1, <1>2, LedTo
<1>5. \A x \in F[k - 1] : h[n - 1][x] = h[n][x]
  <2>1. \A x \in F[k - 1] : \A m \in (k - 1)..n : h[m][x] = h[k - 1][x]
    BY <1>1, <1>3, Settled
  <2> QED
    BY <1>3, <2>1
<1>6. h[n - 1] \in Levels(v) /\ h[n] \in Levels(v)
  BY <1>3, LevelFacts
<1>7. Expanded(v, List(v, l), h[n - 1]) = Expanded(v, List(v, l), h[n])
  BY <1>4, <1>5, <1>6, SameExpansion
<1>8. h[n][l] = Expanded(v, List(v, l), h[n - 1])
  BY <1>3, <1>4, LevelFacts
<1> QED
  BY <1>4, <1>7, <1>8 DEF Full

-----------------------------------------------------------------------------
(***************************************************************************)
(* The walk.  Past(s, k) descriptors of the k-th area of the stack s are   *)
(* done with: in an area that another is above, all before the one that    *)
(* led there.                                                              *)
(***************************************************************************)
Past(s, k) == IF k = Len(s) THEN s[k].i - 1 ELSE s[k].i - 2

\* Chains that a walk of an area has gone into and come back from end.
Returned(v, s, k) ==
  /\ Past(s, k) \in 0..Len(s[k].area)
  /\ \A j \in 1..Past(s, k) :
       Leads(v, s[k].area[j]) => Lba(v, s[k].area[j]) \in Ending(v)

\* The area above the k-th is where the k-th was left.
LedOn(v, s, k) ==
  /\ s[k].i - 1 \in 1..Len(s[k].area)
  /\ Leads(v, s[k].area[s[k].i - 1])
  /\ s[k + 1].area = List(v, Lba(v, s[k].area[s[k].i - 1]))

Joined(p, q) == p \o q

LEMMA JoinedFacts ==
  ASSUME NEW p \in Area, NEW q \in Area
  PROVE  Joined(p, q) \in Area /\ Joined(p, <<>>) = p
BY DEF Area, Joined

LEMMA JoinedInTurn ==
  ASSUME NEW p \in Area, NEW q \in Area, NEW r \in Area
  PROVE  Joined(Joined(p, q), r) = Joined(p, Joined(q, r))
BY ConcatAssociative DEF Area, Joined

\* What the descriptors of an area up to each place in it stand for.
UpTo(v, area) == Expansion(v, area, Full(v))

LEMMA UpToFacts ==
  ASSUME NEW v \in Volumes, NEW area \in Area
  PROVE  /\ UpTo(v, area) \in [0..Len(area) -> Area]
         /\ UpTo(v, area)[0] = <<>>
         /\ \A j \in 1..Len(area) :
              /\ Part(v, area[j], Full(v)) \in Area
              /\ UpTo(v, area)[j] = Joined(UpTo(v, area)[j - 1], Part(v, area[j], Full(v)))
<1> PICK level \in Levels(v) : level = Full(v)
  BY FullIsLevel
<1>1. /\ Expansion(v, area, level) \in [0..Len(area) -> Area]
      /\ Expansion(v, area, level)[0] = <<>>
      /\ \A j \in 1..Len(area) :
           Expansion(v, area, level)[j]
             = Expansion(v, area, level)[j - 1] \o Part(v, area[j], level)
  BY ExpansionFacts
<1>2. \A j \in 1..Len(area) : Part(v, area[j], level) \in Area
  <2>1. \A j \in 1..Len(area) : area[j] \in Descriptor
    BY DEF Area
  <2> QED
    BY <2>1, PartIsArea
<1> QED
  BY ONLY <1>1, <1>2, level = Full(v) DEF UpTo, Joined

\* c[k] is what the lowest k areas of the stack, as far as they are done
\* with, stand for.
Gathers(v, s, c) ==
  /\ c \in [0..Len(s) -> Area]
  /\ c[0] = <<>>
  /\ \A k \in 1..Len(s) : c[k] = Joined(c[k - 1], UpTo(v, s[k].area)[Past(s, k)])

\* s is the stack of a walk of v that has gone through the descriptors t.
Walked(v, s, t) ==
  /\ s \in Seq(FrameType) /\ Len(s) \in Nat \ {0}
  /\ s[1].area = v.entry.at[Layout(v)]
  /\ \A k \in 1..Len(s) : Returned(v, s, k)
  /\ \A k \in 1..(Len(s) - 1) : LedOn(v, s, k)
  /\ \E c : Gathers(v, s, c) /\ t = c[Len(s)]

LEMMA WalkBegins ==
  ASSUME NEW v \in Volumes
  PROVE  Walked(v, <<Frame(v.entry.at[Layout(v)])>>, <<>>)
<1> PICK a \in Area : a = v.entry.at[Layout(v)]
  BY VolumeFacts
<1> PICK s : s = <<Frame(a)>>
  OBVIOUS
<1>1. s \in Seq(FrameType) /\ Len(s) = 1 /\ s[1] = Frame(a)
  BY DEF Frame, FrameType
<1>2. s[1].area = a /\ s[1].i = 1 /\ Past(s, 1) = 0
  BY <1>1 DEF Frame, Past
<1>3. Returned(v, s, 1)
  BY <1>2 DEF Returned, Area
<1> PICK e : e = <<>>
  OBVIOUS
<1>4. PICK c : c = [k \in 0..1 |-> e]
  OBVIOUS
<1>5. e \in Area /\ Joined(e, e) = e /\ UpTo(v, a)[0] = e
  <2>1. e \in Area
    BY DEF Area
  <2> QED
    BY <2>1, JoinedFacts, UpToFacts
<1>6. c \in [0..1 -> Area] /\ c[0] = e /\ c[1] = e
  BY <1>4, <1>5
<1>7. \A k \in 1..1 : c[k] = Joined(c[k - 1], UpTo(v, s[k].area)[Past(s, k)])
  <2>1. c[1] = Joined(c[1 - 1], UpTo(v, s[1].area)[Past(s, 1)])
    BY <1>2, <1>5, <1>6
  <2> QED
    BY <2>1
<1>8. Gathers(v, s, c)
  BY <1>1, <1>6, <1>7 DEF Gathers
<1> QED
  BY <1>1, <1>2, <1>3, <1>6, <1>8 DEF Walked

\* What holds of any stack.
LEMMA WalkedFacts ==
  ASSUME NEW v \in Volumes, NEW s, NEW t, Walked(v, s, t)
  PROVE  /\ Len(s) \in Nat \ {0}
         /\ \A k \in 1..Len(s) : s[k] \in FrameType /\ s[k].area \in Area
         /\ t \in Area
<1>1. PICK c : Gathers(v, s, c) /\ t = c[Len(s)]
  BY DEF Walked
<1>2. s \in Seq(FrameType) /\ Len(s) \in Nat \ {0}
  BY DEF Walked
<1>3. Len(s) \in 0..Len(s)
  BY <1>2
<1>4. t \in Area
  BY <1>1, <1>3 DEF Gathers
<1>5. \A k \in 1..Len(s) : s[k] \in FrameType
  BY <1>2
<1> QED
  BY <1>2, <1>4, <1>5 DEF FrameType

\* What a stack that is the same below its top has gone through: x, when the
\* top is done with up to y.
LEMMA SameBelow ==
  ASSUME NEW v \in Volumes, NEW s, NEW n \in Nat \ {0}, n = Len(s), NEW c, Gathers(v, s, c),
         NEW u, Len(u) = n, NEW x \in Area,
         \A k \in 1..(n - 1) : u[k].area = s[k].area /\ Past(u, k) = Past(s, k),
         x = Joined(c[n - 1], UpTo(v, u[n].area)[Past(u, n)])
  PROVE  \E b : Gathers(v, u, b) /\ b[n] = x
<1>1. /\ c \in [0..n -> Area] /\ c[0] = <<>>
      /\ \A k \in 1..n : c[k] = Joined(c[k - 1], UpTo(v, s[k].area)[Past(s, k)])
  BY DEF Gathers
<1>2. PICK b : b = [k \in 0..n |-> IF k = n THEN x ELSE c[k]]
  OBVIOUS
<1>3. b \in [0..n -> Area] /\ b[n] = x /\ \A k \in 0..(n - 1) : b[k] = c[k]
  BY ONLY <1>1, <1>2, x \in Area, n \in Nat \ {0}
<1>4. b[0] = <<>>
  <2>1. 0 \in 0..(n - 1)
    OBVIOUS
  <2> QED
    BY ONLY <1>1, <1>3, <2>1
<1>5. ASSUME NEW k \in 1..n
      PROVE  b[k] = Joined(b[k - 1], UpTo(v, u[k].area)[Past(u, k)])
  <2>1. k - 1 \in 0..(n - 1)
    OBVIOUS
  <2>2. b[k - 1] = c[k - 1]
    BY <1>3, <2>1
  <2>3. CASE k = n
    <3>1. b[n - 1] = c[n - 1]
      BY <2>2, <2>3
    <3>2. x = Joined(b[n - 1], UpTo(v, u[n].area)[Past(u, n)])
      BY <3>1
    <3>3. b[n] = x
      BY <1>3
    <3> QED
      BY ONLY <2>3, <3>2, <3>3
  <2>4. CASE k # n
    <3>1. k \in 1..(n - 1) /\ k \in 0..(n - 1)
      BY <2>4
    <3>2. b[k] = c[k] /\ u[k].area = s[k].area /\ Past(u, k) = Past(s, k)
      BY <1>3, <3>1
    <3> QED
      BY <1>1, <2>2, <3>2
  <2> QED
    BY <2>3, <2>4
<1> QED
  BY <1>3, <1>4, <1>5 DEF Gathers

\* Past a descriptor that leads nowhere, the walk has gone through that too.
LEMMA WalkAdvances ==
  ASSUME NEW v \in Volumes, NEW s, NEW t, Walked(v, s, t),
         s[Len(s)].i \in 1..Len(s[Len(s)].area),
         ~Leads(v, s[Len(s)].area[s[Len(s)].i]),
         NEW u \in Seq(FrameType), Len(u) = Len(s),
         u[Len(s)] = [s[Len(s)] EXCEPT !.i = @ + 1],
         \A k \in 1..(Len(s) - 1) : u[k] = s[k]
  PROVE  Walked(v, u, Joined(t, Part(v, s[Len(s)].area[s[Len(s)].i], Full(v))))
<1> PICK n \in Nat \ {0} : n = Len(s)
  BY WalkedFacts
<1> PICK a \in Area : a = s[n].area
  BY WalkedFacts
<1> PICK i \in 1..Len(a) : i = s[n].i
  OBVIOUS
<1> PICK d : d = a[i]
  OBVIOUS
<1>1. PICK c : Gathers(v, s, c) /\ t = c[n]
  BY DEF Walked
<1>2. u[n].area = a /\ u[n].i = i + 1 /\ \A k \in 1..(n - 1) : u[k] = s[k]
  <2>1. s[n] \in FrameType
    BY WalkedFacts
  <2>2. u[n] = [s[n] EXCEPT !.i = @ + 1]
    OBVIOUS
  <2>3. u[n].area = a /\ u[n].i = i + 1
    BY ONLY <2>1, <2>2, a = s[n].area, i = s[n].i DEF FrameType
  <2>4. \A k \in 1..(n - 1) : u[k] = s[k]
    OBVIOUS
  <2> QED
    BY ONLY <2>3, <2>4
<1>3. Len(a) \in Nat /\ i \in Nat \ {0} /\ i <= Len(a)
  BY DEF Area
<1>4. /\ Past(s, n) = i - 1 /\ Past(u, n) = i
      /\ \A k \in 1..(n - 1) : Past(u, k) = Past(s, k)
  BY <1>2, <1>3 DEF Past
<1>5. \A k \in 1..n : Returned(v, u, k)
  <2>1. ASSUME NEW k \in 1..(n - 1) PROVE Returned(v, u, k)
    <3>1. Returned(v, s, k)
      BY DEF Walked
    <3>2. u[k] = s[k] /\ Past(u, k) = Past(s, k)
      BY <1>2, <1>4
    <3> QED
      BY ONLY <3>1, <3>2 DEF Returned
  <2>2. Returned(v, u, n)
    <3>1. i \in 0..Len(a) /\ \A j \in 1..i : j = i \/ j \in 1..(i - 1)
      BY <1>3
    <3>2. \A j \in 1..(i - 1) : Leads(v, a[j]) => Lba(v, a[j]) \in Ending(v)
      <4>1. Returned(v, s, n)
        BY DEF Walked
      <4> QED
        BY <1>4, <4>1 DEF Returned
    <3> QED
      BY <1>2, <1>4, <3>1, <3>2 DEF Returned
  <2> QED
    BY <2>1, <2>2
<1>6. \A k \in 1..(n - 1) : LedOn(v, u, k)
  <2> SUFFICES ASSUME NEW k \in 1..(n - 1) PROVE LedOn(v, u, k)
    OBVIOUS
  <2>1. LedOn(v, s, k)
    BY DEF Walked
  <2>2. u[k + 1].area = s[k + 1].area
    BY <1>2
  <2>3. u[k] = s[k]
    BY <1>2
  <2> QED
    BY <2>1, <2>2, <2>3 DEF LedOn
<1>7. u[1].area = v.entry.at[Layout(v)]
  BY <1>2 DEF Walked
<1> PICK p \in Area : p = Part(v, d, Full(v))
  BY UpToFacts
<1> PICK f : f = UpTo(v, a)
  OBVIOUS
<1>8. f \in [0..Len(a) -> Area] /\ f[i] = Joined(f[i - 1], p)
  BY UpToFacts
<1>9. Joined(t, p) = Joined(c[n - 1], f[i])
  <2>1. t = Joined(c[n - 1], f[i - 1])
    <3>1. n \in 1..n
      OBVIOUS
    <3>2. c[n] = Joined(c[n - 1], UpTo(v, s[n].area)[Past(s, n)])
      BY <1>1, <3>1 DEF Gathers
    <3> QED
      BY <1>1, <1>4, <3>2
  <2>2. c[n - 1] \in Area /\ f[i - 1] \in Area
    <3>1. n - 1 \in 0..n /\ i - 1 \in 0..Len(a)
      BY <1>3
    <3> QED
      BY <1>1, <1>8, <3>1 DEF Gathers
  <2>3. Joined(Joined(c[n - 1], f[i - 1]), p) = Joined(c[n - 1], Joined(f[i - 1], p))
    <3> PICK x \in Area : x = c[n - 1]
      BY <2>2
    <3> PICK y \in Area : y = f[i - 1]
      BY <2>2
    <3>1. Joined(Joined(x, y), p) = Joined(x, Joined(y, p))
      BY JoinedInTurn
    <3> QED
      BY <3>1
  <2> QED
    BY ONLY <1>8, <2>1, <2>3
<1>10. Joined(t, p) \in Area
  BY WalkedFacts, JoinedFacts
<1>11. \E b : Gathers(v, u, b) /\ b[n] = Joined(t, p)
  <2>1. Joined(t, p) = Joined(c[n - 1], UpTo(v, u[n].area)[Past(u, n)])
    BY <1>2, <1>4, <1>9
  <2>2. \A k \in 1..(n - 1) : u[k].area = s[k].area /\ Past(u, k) = Past(s, k)
    BY <1>2, <1>4
  <2>3. Len(u) = n /\ Gathers(v, s, c)
    BY <1>1
  <2> PICK x \in Area : x = Joined(t, p)
    BY <1>10
  <2>4. x = Joined(c[n - 1], UpTo(v, u[n].area)[Past(u, n)])
    BY <2>1
  <2>5. \E b : Gathers(v, u, b) /\ b[n] = x
    BY <2>2, <2>3, <2>4, SameBelow
  <2> QED
    BY <2>5
<1> QED
  BY <1>5, <1>6, <1>7, <1>11 DEF Walked

\* Into an area that the descriptor at the top leads to.
LEMMA WalkDescends ==
  ASSUME NEW v \in Volumes, NEW s, NEW t, Walked(v, s, t),
         NEW d, s[Len(s)].i \in 1..Len(s[Len(s)].area),
         d = s[Len(s)].area[s[Len(s)].i], Leads(v, d),
         NEW u \in Seq(FrameType), Len(u) = Len(s) + 1,
         u[Len(s)] = [s[Len(s)] EXCEPT !.i = @ + 1],
         \A k \in 1..(Len(s) - 1) : u[k] = s[k],
         u[Len(s) + 1] = Frame(List(v, Lba(v, d))), List(v, Lba(v, d)) \in Area
  PROVE  Walked(v, u, t)
<1> PICK n \in Nat \ {0} : n = Len(s)
  BY WalkedFacts
<1> PICK m \in Nat \ {0} : m = n + 1
  OBVIOUS
<1> PICK a \in Area : a = s[n].area
  BY WalkedFacts
<1> PICK i \in 1..Len(a) : i = s[n].i
  OBVIOUS
<1> PICK list \in Area : list = List(v, Lba(v, d))
  OBVIOUS
<1>1. PICK c : Gathers(v, s, c) /\ t = c[n]
  BY DEF Walked
<1>2. u[n].area = a /\ u[n].i = i + 1 /\ \A k \in 1..(n - 1) : u[k] = s[k]
  <2>1. s[n] \in FrameType
    BY WalkedFacts
  <2>2. u[n] = [s[n] EXCEPT !.i = @ + 1]
    OBVIOUS
  <2>3. u[n].area = a /\ u[n].i = i + 1
    BY ONLY <2>1, <2>2, a = s[n].area, i = s[n].i DEF FrameType
  <2>4. \A k \in 1..(n - 1) : u[k] = s[k]
    OBVIOUS
  <2> QED
    BY ONLY <2>3, <2>4
<1>3. u[m].area = list /\ u[m].i = 1 /\ Len(u) = m
  BY DEF Frame
<1>4. \A k \in 1..n : u[k].area = s[k].area /\ Past(u, k) = Past(s, k)
  <2>1. i \in Nat
    BY DEF Area
  <2>2. u[n].area = s[n].area /\ Past(u, n) = Past(s, n)
    BY <1>2, <1>3, <2>1 DEF Past
  <2>3. \A k \in 1..(n - 1) : u[k].area = s[k].area /\ Past(u, k) = Past(s, k)
    BY <1>2, <1>3 DEF Past
  <2> QED
    BY <2>2, <2>3
<1>5. Past(u, m) = 0
  BY <1>3 DEF Past
<1>6. \A k \in 1..m : Returned(v, u, k)
  <2>1. ASSUME NEW k \in 1..n PROVE Returned(v, u, k)
    <3>1. Returned(v, s, k)
      BY DEF Walked
    <3> QED
      BY ONLY <1>4, <3>1, k \in 1..n DEF Returned
  <2>2. Returned(v, u, m)
    BY <1>3, <1>5 DEF Returned, Area
  <2> QED
    BY <2>1, <2>2
<1>7. \A k \in 1..n : LedOn(v, u, k)
  <2>1. ASSUME NEW k \in 1..(n - 1) PROVE LedOn(v, u, k)
    <3>1. LedOn(v, s, k)
      BY DEF Walked
    <3>2. u[k] = s[k]
      BY <1>2
    <3>3. u[k + 1].area = s[k + 1].area
      BY <1>4
    <3> QED
      BY ONLY <3>1, <3>2, <3>3 DEF LedOn
  <2>2. LedOn(v, u, n)
    <3>1. i \in Nat /\ u[n].i - 1 = i
      BY <1>2 DEF Area
    <3>2. a[i] = d
      OBVIOUS
    <3> QED
      BY <1>2, <1>3, <3>1, <3>2 DEF LedOn
  <2> QED
    BY <2>1, <2>2
<1>8. u[1].area = v.entry.at[Layout(v)]
  BY <1>4 DEF Walked
<1>9. /\ c \in [0..n -> Area] /\ c[0] = <<>>
      /\ \A k \in 1..n : c[k] = Joined(c[k - 1], UpTo(v, s[k].area)[Past(s, k)])
  BY <1>1 DEF Gathers
<1>10. PICK b : b = [k \in 0..m |-> IF k = m THEN t ELSE c[k]]
  OBVIOUS
<1>11. t \in Area
  BY WalkedFacts
<1>12. b \in [0..m -> Area] /\ b[m] = t /\ \A k \in 0..n : b[k] = c[k]
  BY ONLY <1>9, <1>10, <1>11, n \in Nat \ {0}, m = n + 1
<1>13. ASSUME NEW k \in 1..m
       PROVE  b[k] = Joined(b[k - 1], UpTo(v, u[k].area)[Past(u, k)])
  <2>1. CASE k = m
    <3>1. UpTo(v, u[m].area)[Past(u, m)] = <<>>
      BY <1>3, <1>5, UpToFacts
    <3>2. Joined(t, <<>>) = t
      BY <1>11, JoinedFacts
    <3>3. m - 1 = n /\ n \in 0..n
      OBVIOUS
    <3>4. b[m - 1] = t
      BY <1>1, <1>12, <3>3
    <3> QED
      BY ONLY <1>12, <2>1, <3>1, <3>2, <3>4
  <2>2. CASE k # m
    <3>1. k \in 1..n /\ k \in 0..n /\ k - 1 \in 0..n
      BY <2>2
    <3>2. b[k] = c[k] /\ b[k - 1] = c[k - 1]
      BY <1>12, <3>1
    <3>3. c[k] = Joined(c[k - 1], UpTo(v, s[k].area)[Past(s, k)])
      BY <1>9, <3>1
    <3>4. u[k].area = s[k].area /\ Past(u, k) = Past(s, k)
      BY <1>4, <3>1
    <3> QED
      BY ONLY <3>2, <3>3, <3>4
  <2> QED
    BY <2>1, <2>2
<1>14. Gathers(v, u, b)
  <2>1. b[0] = <<>>
    BY <1>9, <1>12
  <2> QED
    BY <1>3, <1>12, <1>13, <2>1 DEF Gathers
<1> QED
  BY <1>3, <1>6, <1>7, <1>8, <1>12, <1>14 DEF Walked

\* The top, when it is done with, stands for what led to it.
LEMMA TopIsDone ==
  ASSUME NEW v \in Volumes, NEW s, NEW t, Walked(v, s, t),
         s[Len(s)].i > Len(s[Len(s)].area)
  PROVE  LET area == s[Len(s)].area
         IN  /\ Past(s, Len(s)) = Len(area)
             /\ \A j \in 1..Len(area) : Leads(v, area[j]) => Lba(v, area[j]) \in Ending(v)
<1> PICK n \in Nat \ {0} : n = Len(s)
  BY WalkedFacts
<1> PICK a \in Area : a = s[n].area
  BY WalkedFacts
<1>1. s[n].i \in Nat \ {0} /\ Len(a) \in Nat
  BY WalkedFacts DEF FrameType, Area
<1>2. Returned(v, s, n)
  BY DEF Walked
<1>3. Past(s, n) = s[n].i - 1
  BY DEF Past
<1>4. Past(s, n) = Len(a)
  BY <1>1, <1>2, <1>3 DEF Returned
<1> QED
  BY <1>2, <1>4 DEF Returned

\* Back from an area whose chains end, to the one that led there.
LEMMA WalkReturns ==
  ASSUME NEW v \in Volumes, NEW s, NEW t, Walked(v, s, t), Len(s) > 1,
         s[Len(s)].i > Len(s[Len(s)].area),
         NEW u \in Seq(FrameType), Len(u) = Len(s) - 1,
         \A k \in 1..(Len(s) - 1) : u[k] = s[k]
  PROVE  Walked(v, u, t)
<1> PICK n \in Nat \ {0} : n = Len(s)
  BY WalkedFacts
<1> PICK m \in Nat \ {0} : m = n - 1
  OBVIOUS
<1> PICK a \in Area : a = s[m].area
  BY WalkedFacts
<1> PICK top \in Area : top = s[n].area
  BY WalkedFacts
<1>1. LedOn(v, s, m)
  BY DEF Walked
<1> PICK i \in 1..Len(a) : i = s[m].i - 1
  BY <1>1 DEF LedOn
<1> PICK d : d = a[i]
  OBVIOUS
<1>2. Leads(v, d) /\ top = List(v, Lba(v, d))
  BY <1>1 DEF LedOn
<1> PICK l : l = Lba(v, d)
  OBVIOUS
<1>3. l \in Ending(v)
  <2>1. \A j \in 1..Len(top) : Leads(v, top[j]) => Lba(v, top[j]) \in Ending(v)
    BY TopIsDone
  <2>2. l \in DOMAIN v.sectors
    <3>1. d \in Descriptor
      BY DEF Area
    <3> QED
      BY <1>2, <3>1, HeldBegins DEF Leads
  <2>3. LeadsInto(v, l, Ending(v))
    BY <1>2, <2>1 DEF LeadsInto
  <2> QED
    BY <2>2, <2>3, EndingIsInductive
<1>4. Part(v, d, Full(v)) = Expanded(v, top, Full(v))
  <2>1. Part(v, d, Full(v)) = Full(v)[l]
    BY <1>2 DEF Part
  <2>2. Full(v)[l] = Expanded(v, List(v, l), Full(v))
    BY <1>3, FullSolves
  <2> QED
    BY <1>2, <2>1, <2>2
<1>5. i \in Nat \ {0} /\ Len(a) \in Nat /\ i <= Len(a)
  BY DEF Area
<1>6. Len(u) = m /\ u[m] = s[m] /\ s[m].i = i + 1 /\ \A k \in 1..(m - 1) : u[k] = s[k]
  <2>1. s[m] \in FrameType
    BY WalkedFacts
  <2>2. s[m].i \in Nat
    BY <2>1 DEF FrameType
  <2> QED
    BY <2>2
<1>7. /\ Past(s, m) = i - 1 /\ Past(u, m) = i
      /\ \A k \in 1..(m - 1) : Past(u, k) = Past(s, k)
  BY <1>5, <1>6 DEF Past
<1>8. \A k \in 1..m : Returned(v, u, k)
  <2>1. ASSUME NEW k \in 1..(m - 1) PROVE Returned(v, u, k)
    <3>1. Returned(v, s, k)
      BY DEF Walked
    <3>2. u[k] = s[k] /\ Past(u, k) = Past(s, k)
      BY <1>6, <1>7
    <3> QED
      BY ONLY <3>1, <3>2 DEF Returned
  <2>2. Returned(v, u, m)
    <3>1. i \in 0..Len(a) /\ \A j \in 1..i : j = i \/ j \in 1..(i - 1)
      BY <1>5
    <3>2. \A j \in 1..(i - 1) : Leads(v, a[j]) => Lba(v, a[j]) \in Ending(v)
      <4>1. Returned(v, s, m)
        BY DEF Walked
      <4> QED
        BY <1>7, <4>1 DEF Returned
    <3> QED
      BY <1>3, <1>6, <1>7, <3>1, <3>2 DEF Returned
  <2> QED
    BY <2>1, <2>2
<1>9. \A k \in 1..(m - 1) : LedOn(v, u, k)
  <2> SUFFICES ASSUME NEW k \in 1..(m - 1) PROVE LedOn(v, u, k)
    OBVIOUS
  <2>1. LedOn(v, s, k)
    BY DEF Walked
  <2>2. u[k] = s[k] /\ u[k + 1] = s[k + 1]
    BY <1>6
  <2> QED
    BY ONLY <2>1, <2>2 DEF LedOn
<1>10. u[1].area = v.entry.at[Layout(v)]
  <2>1. u[1] = s[1]
    OBVIOUS
  <2> QED
    BY <2>1 DEF Walked
<1>11. PICK c : Gathers(v, s, c) /\ t = c[n]
  BY DEF Walked
<1>12. /\ c \in [0..n -> Area] /\ c[0] = <<>>
       /\ \A k \in 1..n : c[k] = Joined(c[k - 1], UpTo(v, s[k].area)[Past(s, k)])
  BY <1>11 DEF Gathers
<1>14. PICK e : e = [k \in 0..m |-> IF k = m THEN t ELSE c[k]]
  OBVIOUS
<1>15. t \in Area
  BY WalkedFacts
<1>16. e \in [0..m -> Area] /\ e[m] = t /\ \A k \in 0..(m - 1) : e[k] = c[k]
  BY ONLY <1>12, <1>14, <1>15, n \in Nat \ {0}, m \in Nat \ {0}, m = n - 1
<1> PICK f : f = UpTo(v, a)
  OBVIOUS
<1>17. t = Joined(c[m - 1], f[i])
  <2>1. t = Joined(c[m], UpTo(v, top)[Len(top)])
    <3>1. Past(s, n) = Len(top)
      BY TopIsDone
    <3>2. n \in 1..n /\ n - 1 = m
      OBVIOUS
    <3>3. c[n] = Joined(c[n - 1], UpTo(v, s[n].area)[Past(s, n)])
      BY <1>12, <3>2
    <3> QED
      BY ONLY <1>11, <3>1, <3>2, <3>3, top = s[n].area
  <2>2. UpTo(v, top)[Len(top)] = Part(v, d, Full(v))
    BY <1>4 DEF UpTo, Expanded
  <2>3. c[m] = Joined(c[m - 1], f[i - 1])
    <3>1. m \in 1..n
      OBVIOUS
    <3>2. c[m] = Joined(c[m - 1], UpTo(v, s[m].area)[Past(s, m)])
      BY <1>12, <3>1
    <3> QED
      BY ONLY <1>7, <3>2, a = s[m].area, f = UpTo(v, a)
  <2>4. /\ f \in [0..Len(a) -> Area] /\ f[i] = Joined(f[i - 1], Part(v, d, Full(v)))
        /\ Part(v, d, Full(v)) \in Area
    BY UpToFacts
  <2> PICK x \in Area : x = c[m - 1]
    <3>1. m - 1 \in 0..n
      OBVIOUS
    <3> QED
      BY <1>12, <3>1
  <2> PICK y \in Area : y = f[i - 1]
    <3>1. i - 1 \in 0..Len(a)
      BY <1>5
    <3> QED
      BY <2>4, <3>1
  <2> PICK p \in Area : p = Part(v, d, Full(v))
    BY <2>4
  <2>5. Joined(Joined(x, y), p) = Joined(x, Joined(y, p))
    BY JoinedInTurn
  <2>6. t = Joined(c[m], p)
    BY ONLY <2>1, <2>2, p = Part(v, d, Full(v))
  <2>7. c[m] = Joined(x, y)
    BY ONLY <2>3, x = c[m - 1], y = f[i - 1]
  <2>8. f[i] = Joined(y, p)
    BY ONLY <2>4, p = Part(v, d, Full(v)), y = f[i - 1]
  <2> QED
    BY ONLY <2>5, <2>6, <2>7, <2>8, x = c[m - 1]
<1>18. ASSUME NEW k \in 1..m
       PROVE  e[k] = Joined(e[k - 1], UpTo(v, u[k].area)[Past(u, k)])
  <2>1. k - 1 \in 0..(m - 1)
    OBVIOUS
  <2>2. e[k - 1] = c[k - 1]
    BY <1>16, <2>1
  <2>3. CASE k = m
    <3>1. e[m - 1] = c[m - 1]
      BY <2>2, <2>3
    <3>2. u[m].area = a
      BY <1>6
    <3> QED
      BY ONLY <1>7, <1>16, <1>17, <2>3, <3>1, <3>2, f = UpTo(v, a)
  <2>4. CASE k # m
    <3>1. k \in 1..(m - 1) /\ k \in 0..(m - 1) /\ k \in 1..n
      BY <2>4
    <3>2. e[k] = c[k] /\ u[k] = s[k] /\ Past(u, k) = Past(s, k)
      BY <1>6, <1>7, <1>16, <3>1
    <3>3. c[k] = Joined(c[k - 1], UpTo(v, s[k].area)[Past(s, k)])
      BY <1>12, <3>1
    <3> QED
      BY ONLY <2>2, <3>2, <3>3
  <2> QED
    BY <2>3, <2>4
<1>19. Gathers(v, u, e)
  <2>1. e[0] = <<>>
    <3>1. 0 \in 0..(m - 1)
      OBVIOUS
    <3> QED
      BY <1>12, <1>16, <3>1
  <2> QED
    BY <1>6, <1>16, <1>18, <2>1 DEF Gathers
<1> QED
  BY <1>6, <1>8, <1>9, <1>10, <1>16, <1>19 DEF Walked

\* At the end of the lowest area, what was gone through is the chain.
LEMMA WalkEnds ==
  ASSUME NEW v \in Volumes, NEW s, NEW t, Walked(v, s, t), Len(s) = 1,
         s[1].i > Len(s[1].area)
  PROVE  t = Expanded(v, v.entry.at[Layout(v)], Full(v))
<1> PICK a \in Area : a = s[1].area
  BY WalkedFacts
<1>1. a = v.entry.at[Layout(v)]
  BY DEF Walked
<1>2. PICK c : Gathers(v, s, c) /\ t = c[1]
  BY DEF Walked
<1>3. Past(s, 1) = Len(a)
  BY TopIsDone
<1>4. c[0] = <<>> /\ c[1] = Joined(c[0], UpTo(v, a)[Len(a)])
  BY <1>2, <1>3 DEF Gathers
<1> PICK x \in Area : x = UpTo(v, a)[Len(a)]
  <2>1. Len(a) \in 0..Len(a)
    BY DEF Area
  <2>2. UpTo(v, a) \in [0..Len(a) -> Area]
    BY UpToFacts
  <2> QED
    BY <2>1, <2>2
<1>5. Joined(<<>>, x) = x
  BY DEF Joined, Area
<1>6. t = x
  BY ONLY <1>2, <1>4, <1>5, x = UpTo(v, a)[Len(a)]
<1> QED
  BY <1>1, <1>6 DEF UpTo, Expanded

-----------------------------------------------------------------------------
(***************************************************************************)
(* The extents of a walk, and of one that is over.                         *)
(***************************************************************************)
ChainInv ==
  /\ pc = "entry" => extents = <<>>
  /\ pc = "walk" =>
       /\ vol.entry.tag \in {260, 261}
       /\ \E t : Walked(vol, stack, t) /\ extents = AllExtents(vol, t)
  /\ pc = "done" /\ vol.entry.alloc < 3 =>
       /\ vol.entry.tag \in {260, 261}
       /\ extents = AllExtents(vol, Expanded(vol, Body, Full(vol)))

LEMMA NoExtents ==
  ASSUME NEW v \in Volumes
  PROVE  <<>> \in Area /\ AllExtents(v, <<>>) = <<>>
<1>1. <<>> \in Area /\ Len(<<>>) = 0
  BY DEF Area
<1> PICK s \in Area : s = <<>>
  BY <1>1
<1>2. Extents(v, s)[0] = <<>>
  BY ExtentsFacts
<1> QED
  BY <1>1, <1>2 DEF AllExtents

LEMMA OneExtent ==
  ASSUME NEW v \in Volumes, NEW d \in Descriptor
  PROVE  /\ <<d>> \in Area
         /\ AllExtents(v, <<d>>) = IF Recorded(d) THEN <<ExtentOf(v, d)>> ELSE <<>>
<1> PICK s : s = <<d>>
  OBVIOUS
<1>1. s \in Area /\ Len(s) = 1 /\ s[1] = d
  BY DEF Area
<1> PICK h : h = Extents(v, s)
  OBVIOUS
<1>2. /\ h[0] = <<>>
      /\ \A j \in 1..1 : h[j] = IF Recorded(s[j]) THEN Append(h[j - 1], ExtentOf(v, s[j]))
                                ELSE h[j - 1]
  BY <1>1, ExtentsFacts
<1>3. h[1] = IF Recorded(d) THEN Append(<<>>, ExtentOf(v, d)) ELSE <<>>
  <2>1. h[1] = IF Recorded(s[1]) THEN Append(h[0], ExtentOf(v, s[1])) ELSE h[0]
    BY <1>2
  <2> QED
    BY <1>1, <1>2, <2>1
<1>4. Append(<<>>, ExtentOf(v, d)) = <<ExtentOf(v, d)>>
  OBVIOUS
<1>5. AllExtents(v, s) = h[1]
  BY <1>1 DEF AllExtents
<1> QED
  BY ONLY <1>1, <1>3, <1>4, <1>5, s = <<d>>

\* What a turn of the loop that goes into no other area does to the extents.
LEMMA StepExtents ==
  ASSUME NEW v \in Volumes, NEW t \in Area, NEW d \in Descriptor, ~Leads(v, d)
  PROVE  AllExtents(v, Joined(t, Part(v, d, Full(v))))
           = IF Recorded(d) THEN Append(AllExtents(v, t), ExtentOf(v, d))
             ELSE AllExtents(v, t)
<1> PICK x \in Seq(Extent) : x = AllExtents(v, t)
  BY AllExtentsAre
<1>1. CASE d.type = 3 \/ d.len = 0
  <2>1. Part(v, d, Full(v)) = <<>>
    BY <1>1 DEF Part
  <2>2. ~Recorded(d)
    BY <1>1 DEF Recorded, Descriptor
  <2>3. Joined(t, <<>>) = t
    BY NoExtents, JoinedFacts
  <2> QED
    BY <2>1, <2>2, <2>3
<1>2. CASE ~(d.type = 3 \/ d.len = 0)
  <2>1. Part(v, d, Full(v)) = <<d>>
    BY <1>2 DEF Part
  <2>2. AllExtents(v, Joined(t, <<d>>)) = x \o AllExtents(v, <<d>>)
    BY OneExtent, ExtentsOfBoth DEF Joined
  <2>3. CASE Recorded(d)
    <3> PICK y \in Extent : y = ExtentOf(v, d)
      BY <2>3, ExtentOfIsExtent
    <3>1. x \o <<y>> = Append(x, y)
      OBVIOUS
    <3>2. AllExtents(v, <<d>>) = <<y>>
      BY <2>3, OneExtent
    <3> QED
      BY <2>1, <2>2, <2>3, <3>1, <3>2
  <2>4. CASE ~Recorded(d)
    <3>1. x \o <<>> = x
      OBVIOUS
    <3>2. AllExtents(v, <<d>>) = <<>>
      BY <2>4, OneExtent
    <3> QED
      BY <2>1, <2>2, <2>4, <3>1, <3>2
  <2> QED
    BY <2>3, <2>4
<1> QED
  BY <1>1, <1>2

LEMMA ChainInit == Init => ChainInv
BY DEF Init, ChainInv

\* A descriptor that leads to no other area.
LEMMA ForwardKeepsChain ==
  ASSUME Inv, ChainInv, TakeExtent \/ PassOver \/ ContinueNowhere
  PROVE  ChainInv'
<1>1. /\ pc = "walk" /\ Top.i <= Len(Top.area)
      /\ stack' = Advanced /\ UNCHANGED <<vol, pc>>
  BY DEF TakeExtent, PassOver, ContinueNowhere, AtDescriptor, Walk
<1>2. vol \in Volumes /\ Top \in FrameType /\ Here \in Descriptor
  BY <1>1, TopFacts DEF Inv, TypeOK
<1>3. ~Leads(vol, Here)
  <2>1. Here.len \in Nat
    BY <1>2 DEF Descriptor
  <2> QED
    BY <2>1 DEF TakeExtent, PassOver, ContinueNowhere, Recorded, Leads
<1>4. extents' = IF Recorded(Here) THEN Append(extents, ExtentOf(vol, Here)) ELSE extents
  <2>1. CASE TakeExtent
    BY <2>1 DEF TakeExtent, ExtentOf
  <2>2. CASE PassOver \/ ContinueNowhere
    <3>1. ~Recorded(Here) /\ extents' = extents
      BY <1>2, <2>2 DEF PassOver, ContinueNowhere, Recorded, Descriptor
    <3> QED
      BY <3>1
  <2> QED
    BY <2>1, <2>2
<1>5. PICK t : Walked(vol, stack, t) /\ extents = AllExtents(vol, t)
  BY <1>1 DEF ChainInv
<1> PICK n \in Nat \ {0} : n = Len(stack)
  BY <1>1, TopFacts
<1>6. Top = stack[n] /\ Here = stack[n].area[stack[n].i]
  BY DEF Top, Last, Here
<1>7. stack[n].i \in 1..Len(stack[n].area)
  BY <1>1, <1>2, <1>6 DEF FrameType, Area
<1>8. /\ Advanced \in Seq(FrameType) /\ Len(Advanced) = n
      /\ Advanced[n] = [stack[n] EXCEPT !.i = @ + 1]
      /\ \A k \in 1..(n - 1) : Advanced[k] = stack[k]
  BY <1>1, AdvancedFacts
<1> PICK u : u = Joined(t, Part(vol, Here, Full(vol)))
  OBVIOUS
<1>9. Walked(vol, Advanced, u)
  BY <1>2, <1>3, <1>5, <1>6, <1>7, <1>8, WalkAdvances
<1>10. extents' = AllExtents(vol, u)
  <2>1. t \in Area
    BY <1>2, <1>5, WalkedFacts
  <2> QED
    BY <1>2, <1>3, <1>4, <1>5, <2>1, StepExtents
<1>11. vol.entry.tag \in {260, 261}
  BY <1>1 DEF ChainInv
<1>12. \E x : Walked(vol', stack', x) /\ extents' = AllExtents(vol', x)
  BY <1>1, <1>9, <1>10
<1> QED
  BY <1>1, <1>11, <1>12 DEF ChainInv

LEMMA ContinueKeepsChain ==
  ASSUME Inv, ChainInv, Continue
  PROVE  ChainInv'
<1>1. /\ pc = "walk" /\ Top.i <= Len(Top.area)
      /\ Leads(vol, Here)
      /\ stack' = Append(Advanced, Frame(List(vol, Lba(vol, Here))))
      /\ UNCHANGED <<vol, pc, extents>>
  BY DEF Continue, AtDescriptor, Walk, Leads, List
<1>2. vol \in Volumes /\ Top \in FrameType /\ Here \in Descriptor
  BY <1>1, TopFacts DEF Inv, TypeOK
<1>3. List(vol, Lba(vol, Here)) \in Area
  <2>1. Lba(vol, Here) \in DOMAIN vol.sectors
    BY <1>1, <1>2, HeldBegins DEF Leads
  <2> QED
    BY <1>2, <2>1, VolumeFacts DEF List
<1>4. PICK t : Walked(vol, stack, t) /\ extents = AllExtents(vol, t)
  BY <1>1 DEF ChainInv
<1> PICK n \in Nat \ {0} : n = Len(stack)
  BY <1>1, TopFacts
<1>5. Top = stack[n] /\ Here = stack[n].area[stack[n].i]
  BY DEF Top, Last, Here
<1>6. stack[n].i \in 1..Len(stack[n].area)
  BY <1>1, <1>2, <1>5 DEF FrameType, Area
<1>7. /\ Advanced \in Seq(FrameType) /\ Len(Advanced) = n
      /\ Advanced[n] = [stack[n] EXCEPT !.i = @ + 1]
      /\ \A k \in 1..(n - 1) : Advanced[k] = stack[k]
  BY <1>1, AdvancedFacts
<1> PICK list \in Area : list = List(vol, Lba(vol, Here))
  BY <1>3
<1> PICK f : f = Frame(list)
  OBVIOUS
<1> f \in FrameType
  BY DEF Frame, FrameType
<1> PICK u : u = Append(Advanced, f)
  OBVIOUS
<1>8. /\ u \in Seq(FrameType) /\ Len(u) = n + 1 /\ u[n + 1] = f
      /\ \A k \in 1..n : u[k] = Advanced[k]
  BY <1>7
<1>9. /\ u[n] = [stack[n] EXCEPT !.i = @ + 1]
      /\ \A k \in 1..(n - 1) : u[k] = stack[k]
  <2>1. n \in 1..n /\ \A k \in 1..(n - 1) : k \in 1..n
    OBVIOUS
  <2> QED
    BY ONLY <1>7, <1>8, <2>1
<1>10. Walked(vol, u, t)
  BY <1>1, <1>2, <1>3, <1>4, <1>5, <1>6, <1>8, <1>9, WalkDescends
<1>11. \E x : Walked(vol', stack', x) /\ extents' = AllExtents(vol', x)
  BY <1>1, <1>4, <1>10
<1> QED
  BY <1>1, <1>11 DEF ChainInv

LEMMA EndAreaKeepsChain ==
  ASSUME Inv, ChainInv, EndArea
  PROVE  ChainInv'
<1>1. pc = "walk" /\ Top.i > Len(Top.area) /\ UNCHANGED vol /\ extents' = extents
  BY DEF EndArea, Walk, Stop
<1>2. vol \in Volumes
  BY DEF Inv, TypeOK
<1>3. PICK t : Walked(vol, stack, t) /\ extents = AllExtents(vol, t)
  BY <1>1 DEF ChainInv
<1>4. vol.entry.tag \in {260, 261}
  BY <1>1 DEF ChainInv
<1> PICK n \in Nat \ {0} : n = Len(stack)
  BY <1>1, TopFacts
<1>5. stack[n].i > Len(stack[n].area)
  BY <1>1 DEF Top, Last
<1>6. CASE n > 1 /\ Walk(Front(stack))
  <2>1. /\ Front(stack) \in Seq(FrameType) /\ Len(Front(stack)) = n - 1
        /\ \A k \in 1..(n - 1) : Front(stack)[k] = stack[k]
    BY <1>1, AdvancedFacts
  <2>2. Walked(vol, Front(stack), t)
    BY <1>2, <1>3, <1>5, <1>6, <2>1, WalkReturns
  <2>3. \E x : Walked(vol', stack', x) /\ extents' = AllExtents(vol', x)
    BY <1>1, <1>3, <1>6, <2>2 DEF Walk
  <2> QED
    BY <1>1, <1>4, <1>6, <2>3 DEF ChainInv, Walk
<1>7. CASE n = 1 /\ Stop("done")
  <2>1. t = Expanded(vol, Body, Full(vol))
    BY <1>2, <1>3, <1>5, <1>7, WalkEnds DEF Body
  <2>2. Body' = Body /\ vol' = vol /\ extents' = extents /\ pc' = "done"
    BY <1>7 DEF Stop, Body, Layout
  <2>3. extents' = AllExtents(vol', Expanded(vol', Body', Full(vol')))
    BY <1>3, <2>1, <2>2
  <2> QED
    BY <1>4, <2>2, <2>3 DEF ChainInv
<1> QED
  BY <1>6, <1>7 DEF EndArea

LEMMA EntryKeepsChain ==
  ASSUME Inv, ChainInv, ReadInline \/ ReadArea \/ ReadUnsupported
  PROVE  ChainInv'
<1>1. pc = "entry" /\ vol' = vol /\ extents' = extents
  BY DEF ReadInline, ReadArea, ReadUnsupported, Stop
<1>2. vol \in Volumes
  BY DEF Inv, TypeOK
<1>3. vol.entry.alloc \in 0..7
  BY <1>2, VolumesAssumption DEF Entry
<1>4. CASE ReadInline \/ ReadUnsupported
  <2>1. pc' \in {"done", "error"} /\ ~(vol'.entry.alloc < 3)
    BY <1>1, <1>3, <1>4 DEF ReadInline, ReadUnsupported, Stop
  <2> QED
    BY <2>1 DEF ChainInv
<1>5. CASE ReadArea
  <2>1. /\ vol.entry.tag \in {260, 261} /\ pc' = "walk"
        /\ stack' = <<Frame(vol.entry.at[Layout(vol)])>>
    BY <1>5 DEF ReadArea, Body
  <2>2. Walked(vol, stack', <<>>)
    BY <1>2, <2>1, WalkBegins
  <2>3. extents = AllExtents(vol, <<>>)
    BY <1>1, <1>2, NoExtents DEF ChainInv
  <2>4. \E x : Walked(vol', stack', x) /\ extents' = AllExtents(vol', x)
    BY <1>1, <2>2, <2>3
  <2> QED
    BY <1>1, <2>1, <2>4 DEF ChainInv
<1> QED
  BY <1>4, <1>5

LEMMA ChainInvariance == Spec => [](Inv /\ ChainInv)
<1>1. Inv /\ ChainInv /\ [Next]_vars => ChainInv'
  <2> SUFFICES ASSUME Inv, ChainInv, [Next]_vars PROVE ChainInv'
    OBVIOUS
  <2>1. CASE ReadInline \/ ReadArea \/ ReadUnsupported
    BY <2>1, EntryKeepsChain
  <2>2. CASE NoEntry \/ ContinueFails \/ Overflow
    <3>1. pc' \in {"error", "overflow"}
      BY <2>2 DEF NoEntry, ContinueFails, Overflow, Stop
    <3> QED
      BY <3>1 DEF ChainInv
  <2>3. CASE TakeExtent \/ PassOver \/ ContinueNowhere
    BY <2>3, ForwardKeepsChain
  <2>4. CASE Continue
    BY <2>4, ContinueKeepsChain
  <2>5. CASE EndArea
    BY <2>5, EndAreaKeepsChain
  <2>6. CASE UNCHANGED vars
    <3>1. UNCHANGED <<vol, pc, stack, extents, inline>> /\ Body' = Body
      BY <2>6 DEF vars, Body, Layout
    <3> QED
      BY <3>1 DEF ChainInv
  <2> QED
    BY <2>1, <2>2, <2>3, <2>4, <2>5, <2>6 DEF Next, Sound
<1> QED
  BY <1>1, ChainInit, Invariance, PTL DEF Spec

\* An entry that is parsed has the extents of its whole chain, in order: every
\* area a continuation leads to is walked to its end before the one it is in
\* goes on, and a chain that returns to itself is never taken for one that is
\* over (udf/volume.go:326-398).
THEOREM WholeChain == Spec => []ExtentsAreTheChain
<1>1. Inv /\ ChainInv => ExtentsAreTheChain
  <2> SUFFICES ASSUME Inv, ChainInv, pc = "done", vol.entry.alloc < 3, LayoutAgrees(vol)
               PROVE  extents = AllExtents(vol, Written(vol))
    BY DEF ExtentsAreTheChain, AllExtents
  <2>1. vol.entry.tag \in {260, 261} /\ extents = AllExtents(vol, Expanded(vol, Body, Full(vol)))
    BY DEF ChainInv
  <2>2. vol.entry.style \in Layouts
    BY VolumesAssumption DEF Inv, TypeOK, Entry
  <2>3. Layout(vol) = vol.entry.style
    BY <2>1, <2>2 DEF Layout, LayoutAgrees, Layouts
  <2>4. Expanded(vol, Body, Full(vol)) = Written(vol)
    BY <2>3 DEF Body, Written, Full
  <2> QED
    BY <2>1, <2>4
<1> QED
  BY <1>1, ChainInvariance, PTL
=============================================================================
