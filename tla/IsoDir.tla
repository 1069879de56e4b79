------------------------------- MODULE IsoDir -------------------------------
(***************************************************************************)
(* One call of the directory reader of an ISO 9660 view (readDir in        *)
(* iso9660/volume.go): the extent is read in whole sectors and walked      *)
(* record by record.  A record is known by the offset it begins at; of its *)
(* bytes the walk looks at the first, its length.  The lba and the length  *)
(* come from a directory record or a volume descriptor, both off the disc, *)
(* so nothing is assumed of them but their width.                          *)
(***************************************************************************)
EXTENDS Integers, Sequences, FiniteSets

CONSTANTS
  S,           \* bytes in a sector, region.SectorSize
  W,           \* 2^32: the length and the count of sectors are uint32
  MinRecord,   \* bytes below which parseRecord refuses a record (34)
  Extents,     \* what may follow the directory's first sector on the image
  Lengths      \* the data lengths a record may state

VARIABLES
  bytes,       \* the image from the first byte of the directory to its end
  length,      \* the stated data length
  pc,          \* "read", "scan", or how the call ended
  n,           \* len(data)
  offset,
  skip,        \* how many records are still to be passed over
  entries,     \* the records accepted, by offset
  dots         \* history: the records passed over

vars == <<bytes, length, pc, n, offset, skip, entries, dots>>

ASSUME SizesAssumption ==
  /\ S \in Nat \ {0} /\ W \in Nat \ {0} /\ MinRecord \in Nat \ {0}
  /\ Lengths \subseteq 0..(W - 1)
  /\ \A b \in Extents : \A o \in DOMAIN b :
       /\ o \in Nat /\ b[o] \in Nat
       /\ o > 0 => o - 1 \in DOMAIN b

\* Mutant of NextSector: the sector the offset is in, not the next one.
SameSector(o) == (o \div S) * S

\* The first offset after o that begins a sector.
NextSector(o) == (o \div S + 1) * S

\* Mutant of SectorCount: a last sector that is not full is not counted.
WholeSectors == (length % W) \div S

\* Sectors that hold the directory; the sum wraps in 32 bits.
SectorCount == ((length + S - 1) % W) \div S

Held(o) == o \in DOMAIN bytes

Scan == pc = "scan" /\ offset < length

\* data[offset], in range.
RecLen == bytes[offset]

Walk(to) == offset' = to /\ UNCHANGED <<bytes, length, n>>

Stop(how) ==
  /\ pc' = how
  /\ UNCHANGED <<bytes, length, n, offset, skip, entries, dots>>

(***************************************************************************)
(* The call                                                                *)
(***************************************************************************)
ReadSectors ==
  /\ pc = "read"
  /\ \A o \in 0..(SectorCount * S - 1) : Held(o)
  /\ pc' = "scan" /\ n' = SectorCount * S
  /\ UNCHANGED <<bytes, length, offset, skip, entries, dots>>

\* The image ends before the extent does, or the read fails.
ReadFails == pc = "read" /\ Stop("error")

\* data[offset] beyond the end of data panics.
OutOfRange == Scan /\ offset >= n /\ Stop("panic")

\* Mutant of Padding: a zero ends the directory, not the sector.
PaddingEnds == Scan /\ offset < n /\ RecLen = 0 /\ Stop("done")

\* A length of zero: padding up to the end of the sector.
Padding ==
  /\ Scan /\ offset < n /\ RecLen = 0
  /\ \/ NextSector(offset) >= length /\ Stop("done")
     \/ /\ NextSector(offset) < length
        /\ Walk(NextSector(offset))
        /\ UNCHANGED <<pc, skip, entries, dots>>

\* A record that goes past the end of the data ends the listing.
CutRecord ==
  /\ Scan /\ offset < n /\ RecLen # 0 /\ offset + RecLen > n
  /\ Stop("done")

\* Mutant of SkipRecord: every record counts down, also once two are passed.
SkipAlways ==
  /\ Scan /\ offset < n /\ RecLen # 0 /\ offset + RecLen <= n
  /\ skip' = skip - 1 /\ dots' = dots \cup {offset}
  /\ Walk(offset + RecLen)
  /\ UNCHANGED <<pc, entries>>

\* "." and ".." are taken to be the first two records.
SkipRecord ==
  /\ Scan /\ offset < n /\ RecLen # 0 /\ offset + RecLen <= n
  /\ skip > 0
  /\ skip' = skip - 1 /\ dots' = dots \cup {offset}
  /\ Walk(offset + RecLen)
  /\ UNCHANGED <<pc, entries>>

\* Mutant of TakeRecord: the end of the data is not looked at.
TakeUncut ==
  /\ Scan /\ offset < n /\ RecLen # 0
  /\ skip = 0
  /\ entries' = IF RecLen >= MinRecord THEN Append(entries, offset) ELSE entries
  /\ Walk(offset + RecLen)
  /\ UNCHANGED <<pc, skip, dots>>

\* parseRecord refuses a record too short for its fixed fields.
TakeRecord ==
  /\ Scan /\ offset < n /\ RecLen # 0 /\ offset + RecLen <= n
  /\ skip = 0
  /\ entries' = IF RecLen >= MinRecord THEN Append(entries, offset) ELSE entries
  /\ Walk(offset + RecLen)
  /\ UNCHANGED <<pc, skip, dots>>

EndReached == pc = "scan" /\ offset >= length /\ Stop("done")

Init ==
  /\ bytes \in Extents /\ length \in Lengths
  /\ pc = "read" /\ n = 0 /\ offset = 0 /\ skip = 2
  /\ entries = <<>> /\ dots = {}

Next ==
  \/ ReadSectors \/ ReadFails
  \/ OutOfRange \/ Padding \/ CutRecord \/ SkipRecord \/ TakeRecord \/ EndReached

Spec == Init /\ [][Next]_vars

FairSpec == Spec /\ WF_vars(Next)

-----------------------------------------------------------------------------
TypeOK ==
  /\ bytes \in Extents /\ length \in Lengths
  /\ pc \in {"read", "scan", "done", "error", "panic"}
  /\ n \in Nat /\ offset \in Nat /\ skip \in 0..2
  /\ entries \in Seq(Nat) /\ dots \subseteq Nat

\* The walk indexes its data out of range only for a length within a sector of
\* 2^32, where the sector count wraps to zero (iso9660/volume.go:246-256).
PanicsOnlyOnWrap == pc = "panic" => length > W - S

\* Records never overlap and never leave the data, whatever bytes the
\* directory holds: the slice handed to parseRecord is in range, and no byte is
\* read as part of two entries (iso9660/volume.go:266-277).
EntriesAreDisjoint ==
  /\ \A i \in 1..Len(entries) :
       entries[i] < length /\ entries[i] + bytes[entries[i]] <= n
  /\ \A i, j \in 1..Len(entries) :
       i < j => entries[i] + bytes[entries[i]] <= entries[j]

(***************************************************************************)
(* R is the set of the records of a well-formed directory: in each sector  *)
(* they lie end to end from its first byte, none crosses into the next,    *)
(* and what is left of the sector begins with a zero.                      *)
(***************************************************************************)
InOneSector(o) == o + bytes[o] <= NextSector(o)

Begins(o) == o % S = 0

Layout(R) ==
  /\ length % S = 0 /\ length <= W - S
  /\ \A o \in 0..(length - 1) : Held(o)
  /\ \A o \in R :
       /\ o \in 0..(length - 1)
       /\ bytes[o] >= MinRecord /\ InOneSector(o)
       /\ ~Begins(o) => \E q \in R : q + bytes[q] = o
       /\ LET end == o + bytes[o]
          IN  Begins(end) \/ end \in R \/ bytes[end] = 0
  /\ \A o \in 0..(length - 1) : Begins(o) => o \in R \/ bytes[o] = 0

Listed == { entries[i] : i \in 1..Len(entries) }

\* A well-formed directory is listed completely: every record but the first
\* two, in order, and nothing else (iso9660/volume.go:252-279).
ListsTheDirectory ==
  pc = "done" =>
    \A R \in SUBSET (0..(length - 1)) :
      Layout(R) =>
        /\ Listed \cup dots = R
        /\ \A d \in dots, e \in Listed : d < e
        /\ \A i, j \in 1..Len(entries) : i < j => entries[i] < entries[j]
        /\ Listed # {} => Cardinality(dots) = 2

\* The walk always ends, on any bytes.
ReadDirReturns == <>(pc \in {"done", "error", "panic"})
=============================================================================
