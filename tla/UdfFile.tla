------------------------------ MODULE UdfFile ------------------------------
(***************************************************************************)
(* One open UDF file (udf/volume.go): the streaming reader that Open       *)
(* builds, the random-access ReadAt of the same handle, and ReadFile of    *)
(* the same path, over the extents parseFileEntry produced.  The volume    *)
(* keeps its own pointer to the image's *os.File, which Detach closes.     *)
(*                                                                         *)
(* A byte is represented by its offset in the image, so that "the right    *)
(* byte" is an equation between numbers.  io.ReaderAt lets clients run     *)
(* ReadAt calls in parallel: each caller is a goroutine whose call is      *)
(* split at its reads of the image.                                        *)
(***************************************************************************)
EXTENDS Integers, Sequences

CONSTANTS
  Callers,      \* goroutines that call ReadAt on the open file
  FileEntries,  \* the file entries the volume may hold
  ImageSizes,   \* the lengths, in bytes, the image file may have
  ReadAtLens,   \* the buffer lengths passed to ReadAt
  ReadLens,     \* the buffer lengths passed to Read
  W,            \* 2^64: information lengths are uint64, offsets int64
  MaxAlloc      \* the longest slice make gives

VARIABLES
  fe,         \* the fileEntry of the open file; never changes
  imageSize,  \* length of the image file in bytes; never changes
  file,       \* the *os.File shared by the disc's volumes: "open" or "closed"
  call,       \* per caller, the locals and the result of its ReadAt call
  p,          \* per caller, the bytes its call has put into the buffer
  str,        \* the streaming reader: its position and the call in progress
  got,        \* every byte the streaming reader has delivered
  rf,         \* the ReadFile call: its locals and its result
  buf         \* the buffer of that call

atvars == <<call, p>>
strvars == <<str, got>>
rfvars == <<rf, buf>>
image == <<fe, imageSize, file>>
vars == <<image, atvars, strvars, rfvars>>

Min2(a, b) == IF a <= b THEN a ELSE b

(***************************************************************************)
(* File entries.  base is lba * SectorSize; start is the logical offset at *)
(* which the extent begins, the sum of the lengths before it, which the    *)
(* code does not store.  An inline entry keeps its allocation-descriptor   *)
(* area as its only extent and reads it from memory.                       *)
(***************************************************************************)
Extent == [base : Nat, len : Nat \ {0}, start : Nat]

FileEntry == [inline : BOOLEAN, extents : Seq(Extent), total : 0..(W - 1)]

Contiguous(ext) ==
  /\ ext # <<>> => ext[1].start = 0
  /\ \A j \in 1..(Len(ext) - 1) : ext[j + 1].start = ext[j].start + ext[j].len

\* The number of logical bytes the extents hold.
Covered(ext) ==
  IF ext = <<>> THEN 0 ELSE ext[Len(ext)].start + ext[Len(ext)].len

ASSUME FileEntriesAssumption ==
  /\ W \in Nat /\ MaxAlloc \in Nat /\ MaxAlloc < W \div 2
  /\ FileEntries \subseteq FileEntry
  /\ \A f \in FileEntries : Contiguous(f.extents)
  /\ \A f \in FileEntries : f.inline => Len(f.extents) = 1
  /\ ImageSizes \subseteq Nat
  /\ ReadAtLens \subseteq Nat
  /\ ReadLens \subseteq Nat \ {0}

\* Logical byte k of the file f is byte a of the image.
IsByte(f, k, a) ==
  \E j \in 1..Len(f.extents) :
    LET e == f.extents[j]
    IN  e.start <= k /\ k < e.start + e.len /\ a = e.base + (k - e.start)

\* The conversion of a uint64: from 2^63 on it is negative.
Int64(n) == IF n < W \div 2 THEN n ELSE n - W

Size == Int64(fe.total)

\* The bytes of extent j that an image of this size holds; inline data were
\* read with the entry.
OnImage(f, size, j) ==
  LET e == f.extents[j]
  IN  IF f.inline THEN e.len
      ELSE IF e.base >= size THEN 0 ELSE Min2(e.len, size - e.base)

\* HeldBefore(f, size)[j]: the bytes it holds of the first j extents.
HeldBefore(f, size) ==
  LET held[j \in 0..Len(f.extents)] ==
        IF j = 0 THEN 0 ELSE held[j - 1] + OnImage(f, size, j)
  IN  held

\* ReadBytes, the pread of exactly len bytes, can succeed only on an open
\* file that holds the whole range; it may fail at any time.
Readable(off, len) == file = "open" /\ off + len <= imageSize

(***************************************************************************)
(* ReadAt                                                                  *)
(***************************************************************************)
Idle == [pc |-> "idle", want |-> 0, off0 |-> 0, off |-> 0, i |-> 1,
         cursor |-> 0, n |-> 0, err |-> "none"]

\* Mutant of PLen: the buffer is not cut at the end of the file.
PLenUncut(r) == r.want

\* len(p) once ReadAt has cut p at the end of the file.
PLen(r) == Min2(r.want, Size - r.off0)

\* The n bytes of b and len more, read at image offset from.
Extend(b, n, from, len) ==
  [k \in 0..(n + len - 1) |-> IF k < n THEN b[k] ELSE from + (k - n)]

\* A step of c's call that leaves it with locals r and buffer b.
CallStep(c, r, b) ==
  /\ call' = [call EXCEPT ![c] = r]
  /\ p' = [p EXCEPT ![c] = b]
  /\ UNCHANGED <<image, strvars, rfvars>>

\* A return from c's call with the bytes copied so far.
Return(c, err) ==
  CallStep(c, [call[c] EXCEPT !.pc = "done", !.err = err], p[c])

ReadAtCall(c, want, off) ==
  /\ call[c].pc \in {"idle", "done"}
  /\ CallStep(c, [Idle EXCEPT !.pc = "enter", !.want = want,
                              !.off0 = off, !.off = off], <<>>)

\* The two checks on the offset.
ReadAtReject(c) ==
  /\ call[c].pc = "enter"
  /\ \/ call[c].off0 < 0 /\ Return(c, "invalid")
     \/ call[c].off0 >= 0 /\ call[c].off0 >= Size /\ Return(c, "eof")

Accepted(c) == call[c].pc = "enter" /\ call[c].off0 \in 0..(Size - 1)

\* copy(p, inlineData[off:]).  The slice expression panics when the data is
\* shorter than off.
ReadAtInline(c) ==
  /\ Accepted(c) /\ fe.inline
  /\ LET r    == call[c]
         data == fe.extents[1]
         n    == Min2(PLen(r), data.len - r.off0)
     IN  \/ /\ r.off0 <= data.len
            /\ CallStep(c, [r EXCEPT !.pc = "done", !.n = n,
                              !.err = IF n < PLen(r) THEN "eof" ELSE "nil"],
                        Extend(p[c], 0, data.base + r.off0, n))
         \/ r.off0 > data.len /\ Return(c, "panic")

ReadAtEnter(c) ==
  /\ Accepted(c) /\ ~fe.inline
  /\ CallStep(c, [call[c] EXCEPT !.pc = "loop"], p[c])

\* Mutant of More: the loop stops before the last extent.
MoreButLast(r) == r.i < Len(fe.extents) /\ r.n < PLen(r)

\* The loop goes on while extents are left and the buffer is not full.
More(r) == r.i <= Len(fe.extents) /\ r.n < PLen(r)

Beyond(r) == r.off >= r.cursor + fe.extents[r.i].len

\* Mutant of Skipped: continue without the next extent.
SkippedStuck(r) == r

Skipped(r) ==
  [r EXCEPT !.i = @ + 1, !.cursor = @ + fe.extents[r.i].len]

ReadAtSkip(c) ==
  /\ call[c].pc = "loop" /\ More(call[c]) /\ Beyond(call[c])
  /\ CallStep(c, Skipped(call[c]), p[c])

\* Mutant of DiskOff: every extent is read from its beginning.
DiskOffOfExtent(r) == fe.extents[r.i].base

DiskOff(r) == fe.extents[r.i].base + (r.off - r.cursor)

CanRead(r) == Min2(fe.extents[r.i].len - (r.off - r.cursor), PLen(r) - r.n)

\* Mutant of Copied: the whole extent is counted instead of what was copied.
CopiedExtent(r) ==
  [r EXCEPT !.i = @ + 1, !.cursor = @ + fe.extents[r.i].len,
            !.n = @ + fe.extents[r.i].len, !.off = @ + fe.extents[r.i].len]

Copied(r) ==
  [r EXCEPT !.i = @ + 1, !.cursor = @ + fe.extents[r.i].len,
            !.n = @ + CanRead(r), !.off = @ + CanRead(r)]

ReadAtCopy(c) ==
  /\ call[c].pc = "loop" /\ More(call[c]) /\ ~Beyond(call[c])
  /\ LET r == call[c]
     IN  /\ Readable(DiskOff(r), CanRead(r))
         /\ CallStep(c, Copied(r), Extend(p[c], r.n, DiskOff(r), CanRead(r)))

\* ReadBytes returns no bytes with its error.
ReadAtFail(c) ==
  /\ call[c].pc = "loop" /\ More(call[c]) /\ ~Beyond(call[c])
  /\ Return(c, "io")

ReadAtReturn(c) ==
  /\ call[c].pc = "loop" /\ ~More(call[c])
  /\ Return(c, IF call[c].n < PLen(call[c]) THEN "eof" ELSE "nil")

(***************************************************************************)
(* Read: io.LimitReader over io.MultiReader over one section reader per    *)
(* extent, or a bytes.Reader over the inline data.                         *)
(***************************************************************************)
\* Mutant of StrInit: the stream is not limited to the information length.
StrInitUnlimited ==
  [pc |-> "idle", want |-> 0, i |-> 1, pos |-> 0, left |-> Covered(fe.extents),
   cnt |-> 0, ret |-> "none"]

\* A length that is negative as an int64 leaves nothing to read.
StrInit == [pc |-> "idle", want |-> 0, i |-> 1, pos |-> 0, left |-> Size,
            cnt |-> 0, ret |-> "none"]

StrStep(s, b) == str' = s /\ got' = b /\ UNCHANGED <<image, atvars, rfvars>>

\* What the section reader is asked for, and what the image still holds of it.
Asked ==
  Min2(IF fe.inline THEN str.want ELSE Min2(str.want, str.left),
       fe.extents[str.i].len - str.pos)

From == fe.extents[str.i].base + str.pos

Held ==
  IF fe.inline THEN Asked
  ELSE IF From >= imageSize THEN 0 ELSE Min2(Asked, imageSize - From)

InSection ==
  /\ str.pc = "reading" /\ (fe.inline \/ str.left > 0)
  /\ str.i <= Len(fe.extents) /\ str.pos < fe.extents[str.i].len

\* The stream after m more bytes, and a return from Read.
Delivered(m) == [str EXCEPT !.pos = @ + m, !.left = @ - m, !.cnt = @ + m]

Grown(m) == Extend(got, str.cnt, From, m)

Returned(s, ret) == [s EXCEPT !.pc = "idle", !.want = 0, !.ret = ret]

StreamCall(k) ==
  /\ str.pc = "idle"
  /\ StrStep([str EXCEPT !.pc = "reading", !.want = k, !.ret = "none"], got)

\* The limit is used up, or no reader is left.
StreamEnd ==
  /\ str.pc = "reading"
  /\ \/ ~fe.inline /\ str.left <= 0
     \/ str.i > Len(fe.extents)
  /\ StrStep(Returned(str, "eof"), got)

\* A section reader at its limit answers EOF; MultiReader takes the next one.
StreamNext ==
  /\ str.pc = "reading" /\ (fe.inline \/ str.left > 0)
  /\ str.i <= Len(fe.extents) /\ str.pos = fe.extents[str.i].len
  /\ StrStep([str EXCEPT !.i = @ + 1, !.pos = 0], got)

StreamCopy ==
  /\ InSection /\ (fe.inline \/ file = "open") /\ Held = Asked
  /\ StrStep(Returned(Delivered(Asked), "nil"), Grown(Asked))

\* Mutant of StreamCut: the bytes before the end of the image are lost.
StreamCutLosing ==
  /\ InSection /\ ~fe.inline /\ file = "open" /\ Held < Asked
  /\ StrStep([str EXCEPT !.i = @ + 1, !.pos = 0], got)

\* The image ends inside the extent: the pread's EOF is taken for the end of
\* the section, and MultiReader drops that reader.
StreamCut ==
  /\ InSection /\ ~fe.inline /\ file = "open" /\ Held < Asked
  /\ LET s == [Delivered(Held) EXCEPT !.i = @ + 1, !.pos = 0]
     IN  \/ Held = 0 /\ StrStep(s, got)
         \/ Held > 0 /\ StrStep(Returned(s,
                IF s.i <= Len(fe.extents) THEN "nil" ELSE "eof"), Grown(Held))

\* A failed pread; bytes read before the failure are delivered with the error.
StreamFail(m) ==
  /\ InSection /\ ~fe.inline
  /\ m = 0 \/ (file = "open" /\ m <= Held /\ m < Asked)
  /\ StrStep(Returned(Delivered(m), "io"), Grown(m))

(***************************************************************************)
(* ReadFile: a zeroed buffer of the information length, which may be more  *)
(* than make can give, filled extent by extent.                            *)
(***************************************************************************)
Zero == -1

RfInit == [pc |-> "idle", i |-> 1, offset |-> 0, ret |-> "none"]

RfStep(r, b) == rf' = r /\ buf' = b /\ UNCHANGED <<image, atvars, strvars>>

ReadFileCall ==
  /\ rf.pc \in {"idle", "done"}
  /\ \/ /\ fe.inline
        /\ RfStep([RfInit EXCEPT !.pc = "done", !.ret = "nil"],
                  Extend(<<>>, 0, fe.extents[1].base, fe.extents[1].len))
     \/ /\ ~fe.inline /\ fe.total <= MaxAlloc
        /\ RfStep([RfInit EXCEPT !.pc = "loop"],
                  [k \in 0..(fe.total - 1) |-> Zero])
     \/ /\ ~fe.inline /\ fe.total > MaxAlloc
        /\ RfStep([RfInit EXCEPT !.pc = "done", !.ret = "panic"], <<>>)

\* copy(buf[offset:], b): the part of the extent the buffer has room for.
ReadFileExtent ==
  /\ rf.pc = "loop" /\ rf.i <= Len(fe.extents)
  /\ LET e == fe.extents[rf.i]
         n == Min2(e.len, fe.total - rf.offset)
     IN  /\ Readable(e.base, e.len)
         /\ RfStep([rf EXCEPT !.i = @ + 1, !.offset = @ + n],
                   [k \in DOMAIN buf |->
                      IF k \in rf.offset..(rf.offset + n - 1)
                      THEN e.base + (k - rf.offset) ELSE buf[k]])

\* Mutant of ReadFileFail: an extent that cannot be read is passed over.
ReadFileFailIgnored ==
  /\ rf.pc = "loop" /\ rf.i <= Len(fe.extents)
  /\ RfStep([rf EXCEPT !.i = @ + 1], buf)

ReadFileFail ==
  /\ rf.pc = "loop" /\ rf.i <= Len(fe.extents)
  /\ RfStep([rf EXCEPT !.pc = "done", !.ret = "io"], <<>>)

ReadFileReturn ==
  /\ rf.pc = "loop" /\ rf.i > Len(fe.extents)
  /\ RfStep([rf EXCEPT !.pc = "done", !.ret = "nil"], buf)

(***************************************************************************)
(* The specification                                                       *)
(***************************************************************************)
\* Disc.Detach closes the *os.File under the open handles.
Detach ==
  /\ file = "open" /\ file' = "closed"
  /\ UNCHANGED <<fe, imageSize, atvars, strvars, rfvars>>

Init ==
  /\ fe \in FileEntries
  /\ imageSize \in ImageSizes
  /\ file = "open"
  /\ call = [c \in Callers |-> Idle] /\ p = [c \in Callers |-> <<>>]
  /\ str = StrInit /\ got = <<>>
  /\ rf = RfInit /\ buf = <<>>

ReadAtStep(c) ==
  \/ ReadAtReject(c) \/ ReadAtInline(c) \/ ReadAtEnter(c)
  \/ ReadAtSkip(c) \/ ReadAtCopy(c) \/ ReadAtFail(c) \/ ReadAtReturn(c)

StreamStep ==
  \/ StreamEnd \/ StreamNext \/ StreamCopy \/ StreamCut
  \/ \E m \in 0..str.want : StreamFail(m)

ReadFileStep == ReadFileExtent \/ ReadFileFail \/ ReadFileReturn

\* Offsets are bounded to one beyond the file, where nothing new happens, and
\* to int64.
Next ==
  \/ \E c \in Callers :
       \/ \E want \in ReadAtLens, off \in (-1)..Min2(fe.total, W \div 2 - 1) :
            ReadAtCall(c, want, off)
       \/ ReadAtStep(c)
  \/ \E k \in ReadLens : StreamCall(k)
  \/ StreamStep
  \/ ReadFileCall
  \/ ReadFileStep
  \/ Detach

Spec == Init /\ [][Next]_vars

\* A goroutine inside a call is scheduled until the call returns, and not only
\* by way of a failure of a read that could succeed.
Sound(failed, could) == failed => ~could

Fairness ==
  /\ \A c \in Callers :
       WF_vars(ReadAtStep(c) /\
               Sound(call'[c].err = "io", Readable(DiskOff(call[c]), CanRead(call[c]))))
  /\ WF_vars(StreamStep /\ Sound(str'.ret = "io", file = "open"))
  /\ WF_vars(ReadFileStep /\
              Sound(rf'.ret = "io", Readable(fe.extents[rf.i].base, fe.extents[rf.i].len)))

FairSpec == Spec /\ Fairness

-----------------------------------------------------------------------------
CallType ==
  [pc : {"idle", "enter", "loop", "done"}, want : Nat, off0 : Int, off : Int,
   i : Nat \ {0}, cursor : Nat, n : Nat,
   err : {"none", "nil", "eof", "io", "invalid", "panic"}]

StrType ==
  [pc : {"idle", "reading"}, want : Nat, i : Nat \ {0}, pos : Nat, left : Int,
   cnt : Nat, ret : {"none", "nil", "eof", "io"}]

RfType ==
  [pc : {"idle", "loop", "done"}, i : Nat \ {0}, offset : Nat,
   ret : {"none", "nil", "io", "panic"}]

\* Locals hold what Go's types allow, and a count of bytes delivered is the
\* number of bytes delivered.
TypeOK ==
  /\ fe \in FileEntries
  /\ imageSize \in ImageSizes
  /\ file \in {"open", "closed"}
  /\ call \in [Callers -> CallType]
  /\ DOMAIN p = Callers
  /\ \A c \in Callers : p[c] \in [0..(call[c].n - 1) -> Nat]
  /\ str \in StrType /\ got \in [0..(str.cnt - 1) -> Nat]
  /\ rf \in RfType

\* The image holds every extent of the file: it was not cut short.
ImageComplete ==
  \/ fe.inline
  \/ \A j \in 1..Len(fe.extents) :
       fe.extents[j].base + fe.extents[j].len <= imageSize

\* Address a is byte k of what the image holds of the file.
IsHeldByte(k, a) ==
  \E j \in 1..Len(fe.extents) :
    LET before == HeldBefore(fe, imageSize)[j - 1]
    IN  /\ before <= k /\ k < before + OnImage(fe, imageSize, j)
        /\ a = fe.extents[j].base + (k - before)

\* The length of the answer r is due, of the file's real length.
Due(r) == Min2(r.want, fe.total - r.off0)

\* The loop of ReadAt maps logical offsets across the extents: whatever it has
\* copied so far, at any point and on any path out, is the run of the file's
\* bytes that begins at the offset asked for (udf/volume.go:643-697).
ReadAtReturnsTheBytes ==
  \A c \in Callers : \A k \in 0..(call[c].n - 1) :
    IsByte(fe, call[c].off0 + k, p[c][k])

\* ReadAt answers without an error only when it filled the buffer up to the
\* end of the file, panics only on inline data cut short, and answers EOF on
\* an offset inside the file only when the recorded extents really do not
\* reach that far, but for a length that is no int64: of such a file it has
\* delivered nothing (udf/volume.go:646-697).
ReadAtErrorIsJustified ==
  \A c \in Callers :
    LET r == call[c]
    IN  r.pc = "done" =>
          /\ r.err = "nil" => r.n = Due(r)
          /\ r.err = "eof" /\ r.off0 < fe.total =>
               \/ Covered(fe.extents) < r.off0 + Due(r)
               \/ Size < 0 /\ r.n = 0
          /\ r.err = "panic" => fe.inline /\ Covered(fe.extents) < fe.total

\* The io.ReaderAt contract ReadAt is said to implement (udf/volume.go:643):
\* an answer shorter than the buffer passed in carries an error.
ShortReadHasError ==
  \A c \in Callers :
    call[c].pc = "done" /\ call[c].n < call[c].want => call[c].err # "nil"

\* What the reader returned by Open has delivered, over any sequence of Read
\* calls with any buffer sizes and failures between them, is the beginning of
\* what the image holds of the file: no byte twice, none out of order, and
\* none left out but those the image was cut short of, so that of an image
\* that was not it is the beginning of the file (udf/volume.go:232-253).
StreamIsAPrefix ==
  \A k \in 0..(str.cnt - 1) :
    IsHeldByte(k, got[k]) /\ (ImageComplete => IsByte(fe, k, got[k]))

\* The two ways to read a whole file agree: when a stream came to its end and
\* ReadFile succeeded, the image was not cut short, the stream's bytes are the
\* buffer's, and what the buffer holds beyond them is the zero fill of bytes
\* no extent records (udf/volume.go:208-253).
StreamAgreesWithReadFile ==
  str.ret = "eof" /\ rf.pc = "done" /\ rf.ret = "nil" =>
    /\ ImageComplete
    /\ DOMAIN got \subseteq DOMAIN buf
    /\ \A k \in DOMAIN buf : buf[k] = IF k < str.cnt THEN got[k] ELSE Zero

\* ReadFile succeeds only with the file's bytes at their offsets, and with all
\* the bytes the extents record (udf/volume.go:219-229).
ReadFileIsExact ==
  rf.pc = "done" /\ rf.ret = "nil" =>
    \A k \in DOMAIN buf :
      IF k < Covered(fe.extents) THEN IsByte(fe, k, buf[k]) ELSE buf[k] = Zero

\* Every call returns, whatever the extents, the image and the other
\* goroutines do.
EveryCallReturns ==
  /\ \A c \in Callers : call[c].pc \in {"enter", "loop"} ~> call[c].pc = "done"
  /\ str.pc = "reading" ~> str.pc = "idle"
  /\ rf.pc = "loop" ~> rf.pc = "done"

\* What a caller of ReadAt sees of its call: nothing before the return.
Seen(r, b) ==
  [st   |-> CASE r.pc = "idle" -> "quiet"
              [] r.pc = "done" -> "answered"
              [] OTHER         -> "asked",
   want |-> r.want, off |-> r.off0,
   n    |-> IF r.pc = "done" THEN r.n ELSE 0,
   out  |-> IF r.pc = "done" THEN b ELSE <<>>,
   err  |-> IF r.pc = "done" THEN r.err ELSE "none"]

Contract == INSTANCE ReaderAt
              WITH content  <- fe,
                   exchange <- [c \in Callers |-> Seen(call[c], p[c])]

\* ReadAt implements the abstract random-access reader: each call is answered
\* once, atomically as far as the caller can see, whatever happens to the
\* image between its preads (udf/volume.go:643-697).
ImplementsReaderAt == Contract!Spec
=============================================================================
