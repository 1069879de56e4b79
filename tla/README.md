# diskiso, specified in TLA+

diskiso is a Go library and command-line program that reads optical-disc images. It finds
the filesystem layers of an image (UDF, Joliet, Rock Ridge, plain ISO 9660), mounts one of
them, and lists directories and reads files. This directory holds a TLA+ model of it: the
modules, the TLC runs that check them on small instances, and proofs checked by TLAPS.

Every definition that models code is tied to the lines it models in `PROJECT.json` (`map`);
`runs`, `mutants`, `hazards`, `findings` and `theorems` are listed there too.

## 1. The system

| Part | Source | State it keeps | Operations |
|---|---|---|---|
| Sector reader | `internal/region/region.go` | a reference to an `io.ReaderAt` | `ReadSector`, `ReadSectors`, `ReadBytes`, `NewExtentReader` |
| Attach and probing | `attach.go`, `iso9660/detect.go`, `udf/detect.go` | the open file, the probe result | `Attach`, `probeFilesystems`, the two `Probe`s |
| Disc | `disc.go`, `mount.go`, `detach.go` | the file, the layer list | `Mount`, `Detach`, `Filesystems` |
| ISO 9660 volume | `iso9660/volume.go`, `dirent.go` | root extent, label, kind of view | `NewVolume`, `ReadDir`, `Stat`, `Open`, `ReadFile` |
| Rock Ridge | `iso9660/rockridge.go` | one directory entry being filled | `parseRockRidge` and its fields |
| UDF volume | `udf/volume.go` | partition, root entry, entry layout | `NewVolume`, `ReadDir`, `Stat`, `Open`, `ReadFile` |
| UDF open file | `udf/volume.go` | extents and a stream position | `Read`, `ReadAt`, `ReadDir` |
| UDF diagnosis | `udf/diagnose.go` | locals | `Diagnose` |
| Command line | `cmd/main.go` | options, the mounted volume | `run`, `ls`, `cat`, `get` |

How they interact. `Attach` opens the file and runs both probes on it; the `Disc` keeps the
file and the list. `Mount` makes a volume, which keeps *its own* pointer to the same file, as
does every file opened on that volume; `Detach` closes the file under all of them. Nothing is
cached and nothing is written back: all communication is through that file, and through two
scans of the same sectors that have to agree (the probe and the open of a layer, the volume
and the diagnosis, `Mount` and the loops of the program).

Nothing in the library takes a lock and nothing starts a goroutine. What makes it hard:

* reads fail at any point of a sequence, because of the medium, because the image is cut
  short, or because another goroutine called `Detach`;
* `io.ReaderAt` permits parallel `ReadAt` calls on one handle;
* every length, sector number and offset comes off the disc, and much of the arithmetic is
  in 32 bits and wraps;
* the same fact is established in several places by different rules.

## 2. The modules

| Module | Models | Status |
|---|---|---|
| `UdfFile` | an open UDF file: the stream, `ReadAt`, `ReadFile`, `Detach` under them | modelled, checked, proved about |
| `ReaderAt` | abstract: what `ReadAt` promises to concurrent callers | refined by `UdfFile` |
| `UdfFileProofs` | the theorems about `UdfFile`: `ReadAt` and the refinement, the stream, `ReadFile` | proved |
| `Attach` | opening and probing an image | modelled, checked, proved about |
| `Disc` | extends `Attach`: `Mount` and `Detach` on the result | modelled, checked, proved about |
| `DiscProofs` | the theorems about `Attach` and `Disc` | proved |
| `IsoDir` | the ISO 9660 directory reader | modelled, checked, proved about |
| `IsoDirProofs` | the theorems about `IsoDir` | proved |
| `UdfOpen` | the UDF descriptor chain, as the volume and as `Diagnose` walk it | modelled, checked, proved about |
| `UdfOpenProofs` | the theorems about `UdfOpen` | proved |
| `AllocDescs` | `parseFileEntry`: from a file entry's sector to the file's extents | modelled, checked, proved about |
| `AllocDescsProofs` | the theorems about `AllocDescs` | proved |
| `RockRidge` | operators: a directory record, its Rock Ridge fields, and how names compare | modelled, checked and proved about in `PathLookup` |
| `PathLookup` | extends `RockRidge`: the calls by path on a volume of any of the four kinds | modelled, checked, proved about |
| `PathLookupProofs` | the theorems about `PathLookup` and `RockRidge` | proved |
| `Namespace` | abstract: what the interface `Volume` promises to a client, a fixed tree of names | refined by `PathLookup` |
| `Cli` | one run of the program | modelled, checked, proved about |
| `CliProofs` | the theorems about `Cli` | proved |
| `Induction` | lemmas: induction on the naturals, and the values of a loop | proved, used by the proofs of `UdfFile`, `IsoDir`, `AllocDescs`, `PathLookup` |

Each `MC...` module gives a module its finite constants and each `.cfg` is one run.

**Conventions.** An action is what the code does between two reads of the image. A read
that succeeds and a read that fails are two actions, and the failing one is always enabled;
fault histories (`faults`, `m.failed`, `faulty`) record the failures the image does not
explain, so that properties can say "unless a read failed". A panic is an outcome
(`pc = "panic"` or `err = "panic"`), never a state without successor. A 32-bit sum is `% W`.

### UdfFile

A byte stands for its offset in the image, so that "the right byte" is an equation between
numbers. `fe` is the `fileEntry`: its extents, each with its base, its length and the
logical offset at which it begins (which the code does not store; it is the property's
yardstick), its information length `total`, and whether its data is inline. `call[c]` holds the
locals of goroutine `c` in `ReadAt`: `off`, the extent index `i`, `cursor`, the count `n`;
one turn of the loop is one step (`ReadAtSkip`, `ReadAtCopy` or `ReadAtFail`). `str` is
the reader `Open` builds, an `io.LimitReader` over an `io.MultiReader` over one section
reader per extent; `StreamCut` is the case in which the image ends inside an extent and the
section reader's end of file is taken for the extent's end. `rf` and `buf` are a `ReadFile`
call. The entries may have a last extent padded beyond the information length, fewer bytes
recorded than the information length, or inline data shorter than it.

The information length is a `uint64` off the disc. `ReadAt` and the stream convert it
(`Int64`, `Size`; `W` is 2^64), so that one of 2^63 or more is negative there: every offset is
beyond such a file and its stream is empty, unless its data is inline. `ReadFile` makes a
slice of the unconverted length first, which panics beyond `MaxAlloc`. What a stream delivers is
compared with what the image holds of the file (`HeldBefore`, `IsHeldByte`): on a truncated image the
bytes that are there, in order, with no gap but those the image was cut short of.

### Attach, Disc

`Attach.image` is the list of sectors from 16 on, each with what the probes see of it: its
identifier, its type, whether it is Joliet, whether the root directory it points to has SUSP
fields. `IsoPrimary`, `IsoSupplementary`, `IsoOther` and `IsoEnd` are the turns of the scan
of the descriptor set, `UdfBegin`, `UdfFound`, `UdfOther` and `UdfAbsent` those of the
recognition sequence, `GiveUp` and `Answer` what `Attach` does with the results. `Disc`
extends it with `Mount` (a state machine over the layers, one step per layer opened,
descriptor read or root listed), and `Detach`, whose `Close` may fail. `handle` is the field
`d.f`; `f` the file itself. The type invariants say what no Go type does: a sector recorded in the
result is that of a descriptor of its kind (`Met`), and a layer that is being opened is listed.

### IsoDir

`bytes` maps an offset of the directory to the byte there, of which the walk looks at the
record lengths. `OutOfRange`, `Padding`, `CutRecord`, `SkipRecord`, `TakeRecord` and
`EndReached` are the branches of one turn of the loop; `skip` is the count of records still
taken to be `.` and `..`. Nothing is assumed of the stated length or the bytes.

### UdfOpen

The two walkers `NewVolume` and `Diagnose` go over one image, each with its own position.
They share the actions that are the same code twice and part where the code does: only
`Diagnose` looks at the anchor's tag, goes on where the sequence cannot be read, and tries a second
sector for the file set (`AltFSD`); only `NewVolume` settles the layout of extended file
entries (`ReadRoot`), and opens although the root's entry cannot be read. Only `Diagnose` goes
through the partition maps of a logical volume descriptor, in the step in which it takes the
descriptor; a map whose type and length lie in the sector but whose first six bytes do not
(`CutMap`) makes it panic (`ShowMapsOverreads`). Of a map the model has the type and the length.

### AllocDescs

One call of `parseFileEntry`. `parseADs` calls itself for a continuation area, so the locals
of the calls in progress are a `stack` of areas, each with the place in it: `Continue` is a
call, `EndArea` a return, `TakeExtent` and `PassOver` the other turns of the loop, and
`Overflow` the end of the goroutine's stack at `MaxDepth` areas. A descriptor is its type,
length and position; which of the three descriptor formats an entry uses changes only where these
are. An entry is known by what each of the two body layouts finds in it (`at`), as the
volume settled on one when it was opened (`UdfOpen!ReadRoot`): where the two disagree the
model reads what the code would, and the property makes no claim. A sector number is a sum
that wraps. The property's yardstick, `Written`, is the chain expanded level by level,
without a stack: `Level(v)[k]` follows the continuations `k` levels deep, and `Depth(v)`, as many as the
image has sectors, are enough.

### RockRidge, PathLookup, Namespace

`RockRidge` has one operator per field, from an entry to an entry, and `parseRockRidge`
applies them one after another over the System Use Area (a recursive function of the number of fields passed). A mode is the set of type bits it has, a link target
the sequence of its parts. `Cut` stands for a component that claims more bytes than there
are: the `break` at `rockridge.go:78` leaves the `switch` and not the loop, so the bytes are taken
for components of their own. A modification time is known by the stamp it was read from.

`PathLookup` is a client making one call after another. `Call` is the beginning of `Stat`,
`Open`, `ReadFile`, `ReadDir` or `Readlink`; each turn of the loop in `lookup` or
`lookupFileEntry` is a step (`LookupNext`, `LookupAbsent`, `LookupNotDir`), as it reads one
directory, and `Given` is what each method does with the entry found. The two packages share
these actions and part where the code does (`IsUdf`): an ISO 9660 record has its child's
type and extent; a UDF identifier gives a type of its own (`UdfEntry`) and leads to an entry
that has to be read, for a child of any directory on the way, and whose failed read leaves the child
out (`lost`). A UDF entry also states a length of its own, for which `ReadFile` and `readDirEntries` make a
buffer: of one in `huge` the call ends in a panic (`MakePanics`). `handle` is the last file opened, with whether a read failed in its `Open`; `seen` is the last full listing, a history.
`IsoDir` covers how records are found in a directory's bytes.

`Namespace` is the abstract volume: `At(v, q)`, the entry at a path, is a constant operator,
so the tree is fixed; a call is asked and answered, and the answer is the tree's, or `io` if
a read failed, or lacks a child if a child's own entry could not be read, or a panic where an entry on the way is
`TooLarge`. Such a child may also be
missed on the way, so that a second child of the same name is found in its place: `AnyAt(v, q)` is what
a path may then lead to. The refinement mapping takes `EntryAt`, the first child of each name along the
path, for `At`, and `AnyAt` of `PathLookup`, any child of each name along it, for the other.

### Cli

`line` is the arguments, `rest` what the flag parser has left of them. Parsing stops at the
first argument that is not an option (`ParseEnd`), as `flag.FlagSet` does. `PickLayer` and
`PassLayer` are the loops `runInfo` and `runFS` have beside `Mount`'s. The disc is seen as
`Attach` and `Disc` leave it: a list of layers, what becomes of each, and the names each has: `paths` can be
opened, and of those `dirs` and the root can be listed (`Lists`).

## 3. Runs

| Run | Question | Bounds |
|---|---|---|
| `udf_file` | Do the three readers of a file deliver the file's bytes, give errors only with a cause, and return? Does `ReadAt` refine `ReaderAt`? | one `ReadAt` caller beside the stream and a `ReadFile`, or two callers; nine file entries, image of 4 or 5 bytes, `W = 12`, a slice of at most 4 bytes |
| `attach` | Does the layer list say what the disc holds? | every image of up to 4 sectors over 10 kinds of sector |
| `disc` | Does `Mount` take the best layer, and give nothing after `Detach`? | up to 2 descriptors, two ends of the set, every outcome of a root |
| `iso_dir` | Are records disjoint and complete, on any bytes? | sectors of 4 bytes, up to 2 of them, every stated length below `W = 12` |
| `udf_open` | Is the opened volume the one the chain leads to, and the one diagnosed? | three descriptor slots, sectors of 2048 bytes, numbers below `W = 8192`; six tables of partition maps |
| `alloc` | Are the extents all those of the chain, in order, and does the walk end? | 3 sectors, 2 of which may hold areas; 7 entry areas, 5 continuation areas; sectors of 2 bytes, 3-bit sector numbers; a stack of 5 areas |
| `paths` | Is every answer that of a fixed tree? Do listing and lookup agree? Does the order of Rock Ridge fields matter? | trees of two directories, 11 paths; records with every pair of 10 fields and four proper ones in every order; `ReadDir` of a handle with 0 or 1; UDF entries too long for a buffer |
| `cli` | Does the program show the layer it should and keep `get`'s destination safe? | two options, a command, one more option; two layers in every condition, with a directory and a file |

Why the bounds suffice. In `udf_file` the entries cover each shape `parseFileEntry` can
return: extents out of disk order, three extents, a padded last one, an unrecorded tail,
none, lengths beyond the slice limit and beyond int64, and inline data complete, short and of a length that is no
int64; images of 4 bytes cut some of the extents off. A buffer of 3 spans extents and one of 1 does not.
In `attach` four sectors hold the longest sequence that matters (BEA01, NSR, TEA01 and one
more at any place), and `ScanEnd` is reachable. In `iso_dir` two sectors let a record reach into
the next one, and `W` is three sectors, so that the wrap happens. In `udf_open` the length of the
main sequence and the file set's sector wrap at `W`, which is four sectors as 2^32 is a whole number of them; the maps
end with the sector, one byte and four bytes beyond it, and begin too late to be looked at. Counters that Go keeps
in a machine integer and no image of these sizes brings near its limit (offsets in 64 bits)
are unbounded in the modules and bounded by the instance. In `alloc` the two areas can
continue each other, themselves, or the sector that is no area or not on the image, so that
loops, cut chains, and nesting three deep occur; a chain without a loop needs at most three areas of the
stack's five. In `paths` a name occurs twice up to case, a Rock Ridge name is another
entry's plain name, a record has no name, a directory leads back to the root, a UDF identifier is wrong about
its entry in both directions, a UDF directory has two children of one name in either order (`UdfSameName`),
a UDF root cannot be read or is the entry of a file (`UdfFileRoot`), and a file, a directory and a root are
too long for a buffer (`UdfHuge`).

`udf_file` has the one state constraint of the project, `Bounded`: a state in which the second
`ReadAt` caller has called and the stream or a `ReadFile` is not at rest is checked and not explored further. What
is left is every pair of `ReadAt` calls, interleaved, and one `ReadAt` call beside both other
readers; three readers beside a second caller share no state with it but the file, which
`Detach` closes in either case.

Deadlock checking is off where a run of the component ends by itself (`attach`, `disc`,
`iso_dir`, `udf_open`, `alloc`, `cli`): the code returns. It is on in the `udf_file` and
`paths` runs, where a client may always call again.

Four runs show where the code does other than the repository says; each checks one property:

| Run | Says | Code |
|---|---|---|
| `readat_short` | "implements io.ReaderAt" (`udf/volume.go:643`) | a short count with a nil error at the end of the file |
| `alloc_sparse` | "by mapping logical byte offsets across UDF extents" (`udf/volume.go:643`) | an extent that is not recorded is dropped with its length, and what follows it is read at lower offsets |
| `udf_diagnose` | "so broken offsets are immediately visible" (`udf/diagnose.go:11`) | a panic on the second attempt, whose read error is dropped |
| `cli_layer` | `--fs <cmd> [args] [--layer <fs>]` (`cmd/main.go:27`) | a `--layer` there is an argument of the command, and has no effect: `ls a --layer iso9660` lists `a` of the automatic layer |

The models show other differences between the code and what is said of it, which have no
run of their own:

* `ReadAt` maps "logical byte offsets across UDF extents" (`udf/volume.go:643`), but of a file whose information length
  is 2^63 or more it answers EOF at every offset, although the extents reach: `int64(totalLen)` is negative
  (`UdfFile!Size`; the last case of `ReadAtErrorIsJustified`'s clause about EOF).
* `Diagnose` "walks the entire UDF chain" (`udf/diagnose.go:11`), but panics on a volume that opens if a type 1 partition
  map has its first two bytes in the sector and not its first six: the loop asks for two and slices six
  (`UdfOpen!CutMap`; `DiagnoseAgrees` names the case).
* Opening a UDF volume "determines whether Extended File Entries [...] use the standard ECMA-167 body layout [...] or the
  FE-compatible layout" (`udf/volume.go:106`), but a failed read of the root's entry is passed over, and the standard
  layout is taken whatever the disc's is (`UdfOpen!AfterFailure`).
* `disc.go:13` says of `Filesystems` "The first entry is what Mount selects automatically";
  `Mount` passes over a first layer that does not open or lists nothing (`Disc!MountNext`). `README.md:96-97`
  says likewise that "the first detected layer" is used; `mount.go:15-20` says what the code does.
* `iso9660/volume.go:79` says "PVD is always sector 16". The probe accepts the primary
  descriptor at any sector of the set and records which, and nothing reads that: the plain
  and Rock Ridge views are then made from another descriptor (`Disc!ReadDescriptor`).
* `dirent.go:22` speaks of a "symlink target from "SL" entries", but a link split over
  several SL fields has only the components of the last (`RockRidge!SL`; NM does join its parts). This
  is why `WellFormed` asks for one SL field.
* `ReadDir(n)` of an open file answers the first `n` entries on each call, where
  `fs.ReadDirFile` would go on from the last (`PathLookup!FirstOf`).
* A UDF file identifier that calls its entry a directory, or no directory, overrides the type of that entry in what
  a client gets, and not in the walk of a path (`PathLookup!UdfEntry`, `Enterable`). Nothing says which of the two
  is meant: the abstract tree is entered by the rule of the code, and `ListedIsFound` leaves such a directory out.
* One layout of extended file entries is used for the whole volume, as `udf/volume.go:113-115` intends. An entry of the other
  layout is misread, and `ExtentsAreTheChain` makes no claim of it (`AllocDescs!LayoutAgrees`).
* A continuation whose sector is no allocation extent descriptor is passed over in silence,
  so that the file is shorter and no error is given (`AllocDescs!ContinueNowhere`).
* The flag of a deleted UDF file identifier is not looked at: deleted names are listed.
* The root's `Stat` on an ISO 9660 view says it is a directory and gives no mode.

## 4. Fairness

Safety properties assume none. For liveness, a call that has begun is scheduled until it
returns: weak fairness of the steps of each goroutine's call (`UdfFile!Fairness`), of the
single call of `Attach`, `readDir`, `parseFileEntry` and the program, and of each of the two walks
of `UdfOpen`. `Disc` has weak fairness of the steps of `Attach` and of `Mount` separately,
so that an endless series of `Detach` calls does not excuse a `Mount` that never returns.
The weak fairness is of the steps in which no read fails that could succeed (`UNCHANGED
faults`, `Sound`): a read may always fail, and no liveness property rests on that to end a
loop, or on a read that succeeds. `AllocDescs` adds the reads that must fail: of something
that is no file entry, and of a continuation that is not on the image. Nothing is assumed of clients: new calls need not come.

## 5. What is proved

`UdfFileProofs` proves, for every set of callers, every set of file entries whose extents lie
end to end, and every image size:

* `TypeCorrect`: `Spec => []TypeOK`;
* `ReadAtCorrect`: no `ReadAt` call, on any path out of its loop, delivers a byte that is not
  the file's at that offset;
* `ReadAtErrors`: a nil error means a full buffer, EOF means that the extents do not reach or, with nothing
  delivered, that the information length is no int64, and the only panic is that of inline data shorter than the
  information length;
* `Refinement`: `ReadAt` implements `ReaderAt`, with any number of goroutines, failing reads
  and `Detach` at any time;
* `StreamCorrect`: on any image, cut short or not, the stream has delivered the beginning of what the image holds
  of the file after any `Read` calls, failures and a `Detach`, and so the beginning of the file if it holds it all;
* `ReadFileCorrect`: a `ReadFile` that succeeds returned the file's bytes at their offsets and zeros
  where nothing is recorded;
* `WaysAgree`: what a stream read to its end delivered is the beginning of what a successful `ReadFile`
  returned, and the rest of `ReadFile`'s buffer is zero fill; a `ReadFile` that succeeds shows that the image was not
  cut short.

The first four follow from `Invariance`, `Spec => []Inv`. `TypeOK` and the two properties are not
inductive: that the bytes of the next extent are the right ones depends on `off`, `cursor` and
`i` agreeing. `Inv` adds what holds at the head of the loop (`AtHead`): `cursor` is the logical start
of extent `i`, `off` is the offset asked for plus `n`, and unless the buffer is
full `off` is not before `cursor`. One lemma per action shows that it keeps `Inv`;
`BytesOfExtent` ties the disk offset the code computes to the byte it ought to be. The
refinement then needs only that a step of one caller is a request, an answer or a stutter
of the abstract reader.

For the stream, the invariant adds where the multi-reader stands (`Placed`): the bytes delivered are
those the image holds of the extents before section `i`, and the position in it (`HeldInv`). For `ReadFile`, `FileHead` is what its loop knows: `offset`
is the start of the next extent cut at the information length, and the buffer is right up to there and zero
after it. That the two agree needs that a byte of the file lies in one extent only (`OneByte`), by induction over the
extents' starts.

The assumptions are `FileEntriesAssumption` in `UdfFile`: extents have positive length and lie end to
end by the definition of `start`, an inline entry has one data area, information lengths are below `W`, a slice
is shorter than `W \div 2`, and the sizes are naturals. TLC evaluates it in every run of the module.

`IsoDirProofs` proves, for every sector size, every width of a length, every image and every
stated length (assumption: `SizesAssumption`, the sizes are positive and the bytes naturals):

* `TypeCorrect`: `Spec => []TypeOK`;
* `NoOtherPanic`: `readDir` indexes its data out of range only when the stated length is within a
  sector of 2^32. The invariant behind it is that a walk in progress has data not shorter than
  the stated length unless that is so, which is the arithmetic of rounding up to sectors
  (`SectorCountFacts`);
* `DisjointEntries`: accepted records lie in the data and do not overlap. The property says
  nothing of the offset, so it is not inductive: `WalkInv` adds that every accepted record
  ends at or before it, and that the data is on the image;
* `CompleteListing`: a well-formed directory is listed completely: every record but the first two, in order,
  and nothing else. `ListInv` says of a walk on its way that the records it has met, listed or taken for
  the dot entries, are exactly those before its offset; that
  it meets the next one is an induction along the directory (`NoneBetween`): the first record it would pass by
  has one before it that it did not.

`AllocDescsProofs` proves, for every set of volumes, every sector size, every width of a
sector number and every depth of the stack (assumption: `VolumesAssumption`, the entries and sectors are of
their types):

* `TypeCorrect`: `Spec => []TypeOK`. It includes that every extent has a positive length,
  the part of `UdfFile`'s `FileEntriesAssumption` that is about `parseFileEntry`; that the
  extents lie end to end is there by the definition of `start`.
* `ExtentsRecorded`: each extent is that of a recorded descriptor of an area the volume has, whether
  the chain is right, cut or a loop. What a turn of the loop takes depends on what the stack holds,
  so the invariant adds `StackIsOfAreas`. No run checks this property: it is the theorem's.
* `WholeChain`: an entry that is parsed has the extents of its whole chain, in order. `Walked` says
  what the stack knows: each area above another is the one that its descriptor led to, and the parts of all the areas
  that are done with, from the lowest up, are what the extents come from (`Gathers`). When an area is left, what was gone through
  in it must be what the yardstick says it stands for, and the yardstick is cut off at `Depth(v)` levels. This is where
  a chain that returns to itself must be excluded: `Ending(v)`, the least set of sectors that holds each one whose area
  leads into it alone, grows by the area that is left (`EndingIsInductive`), and a sector of it needs no more levels
  than there are sectors (`WithinStops`, `Settled`, `FullSolves`).

`DiscProofs` proves all four invariants of `Attach` for every image, every first sector and every
end of the scan (assumption: `ImagesAssumption`), so no bound of `MCAttach` matters to them:
`TypeCorrect`, `ListsTheDisc`, `FileOwned` and `Rejections`. The properties speak of the answer alone;
`Place` says what each scan knows at its next sector: everything before it is of the set, and the result
so far is right about exactly those sectors (`Knows`), but for Rock Ridge after a failed read
(`KnowsRoot`). At the end of the set, that nothing later belongs to it makes the result right about the
disc. `LayersFacts` says what the concatenation that builds the list contains.

Every layer Attach lists is on the disc, and from that `DiscProofs` proves of `Disc`
`DiscTypeCorrect`, `AutomaticChoice`, `NamedLayers`, `JolietDescriptor` and `DetachIsFinal`. `CallInv` says
what a `Mount` in progress knows: its layer is listed, each layer before it was passed over for a reason,
and a scan for the Joliet descriptor has not gone past the first one. `ScanFacts` is
the heart of it: `findVD`, which recognises the terminator by other rules than the probe, cannot meet what it
takes for one before it has found what the probe found.

`UdfOpenProofs` proves all three invariants of `UdfOpen` for every image, every sector size and every width
of a sector number (assumption: `ImagesAssumption`): `TypeCorrect`, `ChainOpened` and
`DiagnosisAgrees`. The properties compare walks that are over. `Known` says of each walk on its
way which slots it has passed and that it holds the last partition and file set among them (`Knows`), at the end of the
sequence that no slot beyond counts (`Ended`), and, where it gives up, the link that is missing (`Missing`) or the map that
is cut. The
two walks then agree because only one descriptor of a tag prevails (`PrevailsOnce`). The arithmetic is in
`CountFacts`: a length within a sector of 2^32 wraps to no sectors at all, so a walk that found a
descriptor had its length stated right.

`CliProofs` proves, for every command line and every disc: `TypeCorrect`, `SafeDestination` (get touches its
destination only once the source is open, and success means a whole copy) and `SameChoice` (the layer is
Mount's choice when no read fails). Its invariant says what the destination is at each place of the
program, and which layers the loop has passed over.

`PathLookupProofs` proves, for every set of volumes of the four kinds, every path and every sequence of calls:

* `TypeCorrect`: `Spec => []TypeOK`;
* `Refinement`: every step of `PathLookup` is one of `Namespace` or a stutter, so that every answer of a volume is that of a
  fixed tree, whatever calls were made before and whatever reads failed, and a panic comes only where an entry the path
  may lead along is longer than any buffer;
* `ListedFound`: each name of a listing without a failed read is found by the lookup of its path, as the entry listed, unless
  another child of its directory has a name that compares equal;
* `AnyFieldOrder`: the proper Rock Ridge fields of a record give the same entry in any order.

The assumption is `VolumesAssumption`: volumes, paths and counts are of their types, so that records lead to nodes of
their volume. That the time stamps of a TF field lie in the order of the bits that announce them, as their offsets in
the field do, is part of the type of such a field (`InBitOrder` in `RockRidge`).
The inductive invariant says of a call in progress (`Walking`) that its node is that of an entry the names passed may lead to
(`Leads`), the only one as long as no read of a child's own entry has failed; of a call that is over, and of the open
handle, that the answer is one `Namespace` allows. The names of a path, the lookup along it, the fields
of a record and the parts of a link are loops, which the modules write as recursive functions; what they
compute is proved by induction along the loop.

`Induction` has the lemmas these inductions use: a set of naturals has a least element
(`LeastNatural`), what holds at 0 and at each turn if at the one before holds up to the end
(`InductionUpTo`), and that a recursively defined loop has values (`Iterates`). They quantify over sets, where the
library's induction theorems quantify over predicates.

Every invariant of the passing runs, and both refinements, are proved. Only model-checked is liveness (`EveryCallReturns`,
`AttachReturns`, `MountReturns`, `ReadDirReturns`, `BothEnd`, `ParseEnds`, `RunEnds`): the provers have no rule for `ENABLED`, which weak fairness is
about.

## 6. Not modelled

* Character sets, version suffixes, dates, labels, sizes in a listing, the text `Diagnose` prints:
  wording, on which no control depends.
* The wrappers that present an entry as `fs.FileInfo` and `fs.DirEntry`, permission bits,
  and the names of layers.
* The bytes of UDF file identifiers (`readDirEntries`'s walk over them): a UDF directory is the
  sequence of its identifiers. `IsoDir` does this for ISO 9660, where a record can reach out of its data.
* The Rock Ridge continuation area, which the code skips; a system use area is what the record holds.
* The checksums of tags are taken to do what they do: an anchor is valid or not.

## 7. Plan

Done: 1 `UdfFile` with `ReaderAt` and its proofs; 2 `Attach` and 3 `Disc` and their proofs; 4 `IsoDir` and its
proofs; 5 `UdfOpen` and its proofs; 6 `Cli` and its proofs; 7 `AllocDescs` and its proofs; 8 `RockRidge` and 9 `PathLookup` with
`Namespace`, and their proofs. Next:

10. The composition of `AllocDescs` and `UdfFile`: the entries of one the file entries of
    the other, which would turn `FileEntriesAssumption` into a theorem.
11. The descriptors `Diagnose` prints beside the chain it walks.
12. The safety part of termination: a measure that each turn of a loop decreases, as an action property, and that a chain of areas
    without a loop never uses up the stack.
