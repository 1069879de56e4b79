---------------------------- MODULE MCAllocDescs ----------------------------
(***************************************************************************)
(* AllocDescs with sectors of two bytes, sector numbers of three bits and  *)
(* a partition that starts at sector 6, so that positions from 2 on wrap.  *)
(* Sectors 0 and 1 may hold continuation areas; sector 2 is on some images *)
(* and never holds one.                                                    *)
(***************************************************************************)
EXTENDS AllocDescs

D(type, len, pos) == [type |-> type, len |-> len, pos |-> pos]

File    == D(0, 3, 0)
Reserve == D(1, 1, 1)
Hole    == D(2, 2, 0)
Empty   == D(0, 0, 0)
ToFirst(len)  == D(3, len, 2)     \* sector 0
ToSecond(len) == D(3, len, 3)     \* sector 1
ToOther       == D(3, 1, 4)       \* sector 2

EntryAreas ==
  { <<>>, <<File>>, <<ToFirst(1)>>, <<File, ToFirst(3), Reserve>>, <<Hole, File>>,
    <<ToFirst(0), ToFirst(1), ToSecond(1)>>, <<File, ToOther, Reserve>> }

Lists ==
  { <<>>, <<Reserve>>, <<ToSecond(1), File>>, <<Empty, ToFirst(2)>>,
    <<File, Hole, Reserve>> }

Aed(list, size) == [tag |-> 328, list |-> list, size |-> size]
Other == [tag |-> 0, list |-> <<>>, size |-> 0]

\* An entry whose other layout finds another area.
FileEntry(tag, alloc, style, area) ==
  [tag |-> tag, alloc |-> alloc, style |-> style,
   at |-> [l \in Layouts |-> IF l = style THEN area ELSE <<Reserve>>]]

MCEntries ==
  { FileEntry(261, 1, style, area) : style \in Layouts, area \in EntryAreas }
  \cup { FileEntry(260, 1, "fe", area) : area \in EntryAreas }
  \cup { FileEntry(261, alloc, "fe", area) :
            alloc \in {3, 4}, area \in {<<>>, <<File>>} }
  \cup { FileEntry(256, 1, "fe", <<File>>) }

MCImages ==
  { [l \in 0..2 |-> CASE l = 0 -> Aed(a, n) [] l = 1 -> Aed(b, 2) [] OTHER -> Other] :
      a \in Lists, b \in Lists, n \in {2, 4} }
  \cup { [l \in 0..1 |-> IF l = 0 THEN Other ELSE Aed(b, 2)] : b \in Lists }

MCVolumes ==
  { [partStart |-> 6, compat |-> c, entry |-> e, sectors |-> m] :
      c \in BOOLEAN, e \in MCEntries, m \in MCImages }
=============================================================================
