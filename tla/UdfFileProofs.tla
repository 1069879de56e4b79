--------------------------- MODULE UdfFileProofs ---------------------------
(***************************************************************************)
(* Proofs about UdfFile, for every set of callers, every file entry whose  *)
(* extents are laid end to end, and every image.                           *)
(*                                                                         *)
(* TypeOK and the properties of ReadAt are not inductive by themselves:    *)
(* they need what the loop of ReadAt knows at its head, LoopInv.           *)
(***************************************************************************)
EXTENDS UdfFile, Induction

\* Logical offset at which extent j begins; one past the last, the end of the
\* recorded bytes.
StartOf(j) ==
  IF j <= Len(fe.extents) THEN fe.extents[j].start ELSE Covered(fe.extents)

\* What holds at the head of the loop over the extents, for the locals r.
AtHead(r) ==
  /\ ~fe.inline
  /\ r.off0 \in 0..(Size - 1)
  /\ r.i \in 1..(Len(fe.extents) + 1)
  /\ r.cursor = StartOf(r.i)
  /\ r.off = r.off0 + r.n
  /\ r.n <= PLen(r)
  /\ r.n = PLen(r) \/ r.off >= r.cursor

Fresh(r) == r.i = 1 /\ r.cursor = 0 /\ r.n = 0 /\ r.off = r.off0

CallInv(r) ==
  /\ r.pc = "enter" => Fresh(r)
  /\ r.pc = "loop" => AtHead(r)

LoopInv == \A c \in Callers : CallInv(call[c])

\* ReadFile never fills more than its buffer.
Filled == rf.offset <= fe.total

Justified(r) ==
  r.pc = "done" =>
    /\ r.err = "nil" => r.n = Due(r)
    /\ r.err = "eof" /\ r.off0 < fe.total =>
         \/ Covered(fe.extents) < r.off0 + Due(r)
         \/ Size < 0 /\ r.n = 0
    /\ r.err = "panic" => fe.inline /\ Covered(fe.extents) < fe.total

Bytes(r, b) == \A k \in 0..(r.n - 1) : IsByte(fe, r.off0 + k, b[k])

Inv ==
  /\ TypeOK
  /\ LoopInv
  /\ Filled
  /\ ReadAtReturnsTheBytes
  /\ ReadAtErrorIsJustified

-----------------------------------------------------------------------------
(***************************************************************************)
(* The file entry.                                                         *)
(***************************************************************************)
LEMMA EntryFacts ==
  ASSUME fe \in FileEntries
  PROVE  /\ fe \in FileEntry
         /\ Contiguous(fe.extents)
         /\ fe.inline \in BOOLEAN
         /\ fe.total \in Nat
         /\ Size \in Int /\ (Size = fe.total \/ Size < 0)
         /\ fe.total <= MaxAlloc => Size = fe.total
         /\ Len(fe.extents) \in Nat
         /\ fe.inline => Len(fe.extents) = 1
         /\ \A j \in 1..Len(fe.extents) :
              /\ fe.extents[j] \in Extent
              /\ fe.extents[j].base \in Nat
              /\ fe.extents[j].len \in Nat \ {0}
              /\ fe.extents[j].start \in Nat
<1>1. fe \in FileEntry /\ Contiguous(fe.extents)
  BY FileEntriesAssumption
<1>2. fe.inline => Len(fe.extents) = 1
  BY FileEntriesAssumption
<1>3. fe.inline \in BOOLEAN /\ fe.extents \in Seq(Extent) /\ fe.total \in 0..(W - 1)
  BY <1>1 DEF FileEntry
<1>a. PICK half : half = W \div 2
  OBVIOUS
<1>b. W \in Nat /\ half \in Int /\ MaxAlloc \in Nat /\ MaxAlloc < half
  BY <1>a, FileEntriesAssumption
<1>c. Size = IF fe.total < half THEN fe.total ELSE fe.total - W
  BY <1>a DEF Size, Int64
<1>6. /\ fe.total \in Nat /\ Size \in Int /\ (Size = fe.total \/ Size < 0)
      /\ fe.total <= MaxAlloc => Size = fe.total
  BY <1>3, <1>b, <1>c
<1>4. /\ Len(fe.extents) \in Nat
      /\ \A j \in 1..Len(fe.extents) : fe.extents[j] \in Extent
  BY <1>3
<1>5. \A e \in Extent : e.base \in Nat /\ e.len \in Nat \ {0} /\ e.start \in Nat
  BY DEF Extent
<1> QED BY <1>1, <1>2, <1>3, <1>4, <1>5, <1>6

\* The extents are consecutive, so the loop's cursor is the start of the next.
LEMMA StartFacts ==
  ASSUME fe \in FileEntries
  PROVE  /\ StartOf(1) = 0
         /\ \A j \in 1..(Len(fe.extents) + 1) : StartOf(j) \in Nat
         /\ \A j \in 1..Len(fe.extents) :
              StartOf(j + 1) = StartOf(j) + fe.extents[j].len
         /\ StartOf(Len(fe.extents) + 1) = Covered(fe.extents)
<1> DEFINE ext == fe.extents
<1>1. /\ Len(ext) \in Nat
      /\ \A j \in 1..Len(ext) : ext[j].len \in Nat /\ ext[j].start \in Nat
      /\ Contiguous(ext)
  BY EntryFacts
<1>2. Len(ext) = 0 => ext = <<>>
  BY EntryFacts DEF FileEntry
<1>3. ext = <<>> => Len(ext) = 0
  OBVIOUS
<1>4. CASE ext = <<>>
  BY <1>1, <1>3, <1>4 DEF StartOf, Covered
<1>5. CASE ext # <<>>
  <2>1. Len(ext) >= 1
    BY <1>1, <1>2, <1>5
  <2>2. Covered(ext) = ext[Len(ext)].start + ext[Len(ext)].len
    BY <1>5 DEF Covered
  <2> HIDE DEF ext
  <2>3. ASSUME NEW j \in 1..Len(ext)
        PROVE  (IF j + 1 <= Len(ext) THEN ext[j + 1].start ELSE Covered(ext))
                 = ext[j].start + ext[j].len
    <3>1. CASE j = Len(ext)
      BY <1>1, <2>2, <3>1
    <3>2. CASE j # Len(ext)
      BY <1>1, <3>2 DEF Contiguous
    <3> QED BY <3>1, <3>2
  <2>4. ext[1].start = 0
    BY <1>1, <1>5 DEF Contiguous
  <2>5. StartOf(1) = 0
    BY <1>1, <2>1, <2>4 DEF StartOf, ext
  <2>6. \A j \in 1..(Len(ext) + 1) : StartOf(j) \in Nat
    BY <1>1, <2>1, <2>2 DEF StartOf, ext
  <2>7. \A j \in 1..Len(ext) : StartOf(j + 1) = StartOf(j) + ext[j].len
    BY <1>1, <2>3 DEF StartOf, ext
  <2>8. StartOf(Len(ext) + 1) = Covered(ext)
    BY <1>1 DEF StartOf, ext
  <2> QED BY <2>5, <2>6, <2>7, <2>8 DEF ext
<1> QED BY <1>4, <1>5

LEMMA MinFacts ==
  \A a, b \in Int : /\ Min2(a, b) \in Int
                    /\ Min2(a, b) <= a /\ Min2(a, b) <= b
                    /\ Min2(a, b) = a \/ Min2(a, b) = b
  BY DEF Min2

\* Appending a run of image bytes to the buffer.
LEMMA ExtendFacts ==
  ASSUME NEW n \in Nat, NEW len \in Nat, NEW from \in Nat,
         NEW b, b \in [0..(n - 1) -> Nat]
  PROVE  /\ Extend(b, n, from, len) \in [0..(n + len - 1) -> Nat]
         /\ \A k \in 0..(n - 1) : Extend(b, n, from, len)[k] = b[k]
         /\ \A k \in n..(n + len - 1) : Extend(b, n, from, len)[k] = from + (k - n)
  BY DEF Extend

\* A run of bytes read from inside extent j is the file's.
LEMMA BytesOfExtent ==
  ASSUME NEW f, NEW j \in 1..Len(f.extents), f.extents[j] \in Extent,
         NEW n \in Nat, NEW m \in Nat, NEW off \in Nat, NEW b,
         f.extents[j].start <= off,
         off + m <= f.extents[j].start + f.extents[j].len,
         \A k \in n..(n + m - 1) :
           b[k] = f.extents[j].base + (off - f.extents[j].start) + (k - n)
  PROVE  \A k \in n..(n + m - 1) : IsByte(f, off + (k - n), b[k])
<1> TAKE k \in n..(n + m - 1)
<1>1. PICK e : e = f.extents[j]
  OBVIOUS
<1>2. PICK x : x = off + (k - n)
  OBVIOUS
<1>3. PICK a : a = b[k]
  OBVIOUS
<1>4. e.start <= x /\ x < e.start + e.len /\ a = e.base + (x - e.start)
  <2>1. e.base \in Nat /\ e.len \in Nat /\ e.start \in Nat
    BY <1>1 DEF Extent
  <2>2. e.start <= off /\ off + m <= e.start + e.len
    BY <1>1
  <2>3. a = e.base + (off - e.start) + (k - n)
    BY <1>1, <1>3
  <2> QED BY <1>2, <2>1, <2>2, <2>3
<1>5. IsByte(f, x, a)
  BY <1>1, <1>4 DEF IsByte
<1> QED BY <1>2, <1>3, <1>5

LEMMA PLenFacts ==
  ASSUME NEW r \in CallType, Size \in Int, r.off0 \in 0..(Size - 1)
  PROVE  PLen(r) \in Nat
<1>1. r.want \in Nat /\ r.off0 \in Int
  BY DEF CallType
<1> QED BY <1>1 DEF PLen, Min2

\* An offset is accepted only in a file whose length is an int64, and so the
\* buffer is cut at the end of the file.
LEMMA DueFacts ==
  ASSUME fe \in FileEntries, NEW r, r.off0 \in 0..(Size - 1)
  PROVE  Size = fe.total /\ Due(r) = PLen(r)
<1>1. Size = fe.total
  BY EntryFacts
<1> QED BY <1>1 DEF Due, PLen

-----------------------------------------------------------------------------
(***************************************************************************)
(* Steps of ReadAt.  A step of c's call leaves everything else alone, so   *)
(* it is enough to look at the locals and the buffer it leaves.            *)
(***************************************************************************)
LEMMA CallStepKeepsInv ==
  ASSUME Inv, NEW c \in Callers, NEW r, NEW b, CallStep(c, r, b),
         r \in CallType, b \in [0..(r.n - 1) -> Nat],
         CallInv(r), Justified(r), Bytes(r, b)
  PROVE  Inv'
<1>1. /\ fe' = fe /\ imageSize' = imageSize /\ file' = file
      /\ str' = str /\ got' = got /\ rf' = rf /\ buf' = buf
  BY DEF CallStep, image, strvars, rfvars
<1>2. /\ call' = [call EXCEPT ![c] = r]
      /\ p' = [p EXCEPT ![c] = b]
  BY DEF CallStep
<1>3. call \in [Callers -> CallType] /\ DOMAIN p = Callers
  BY DEF Inv, TypeOK
<1>4. \A d \in Callers : /\ call'[d] = IF d = c THEN r ELSE call[d]
                         /\ p'[d] = IF d = c THEN b ELSE p[d]
  BY <1>2, <1>3
<1>5. TypeOK'
  <2>1. call' \in [Callers -> CallType]
    BY <1>2, <1>3
  <2>2. DOMAIN p' = Callers
    BY <1>2, <1>3
  <2>3. \A d \in Callers : p'[d] \in [0..(call'[d].n - 1) -> Nat]
    BY <1>4 DEF Inv, TypeOK
  <2> QED BY <1>1, <2>1, <2>2, <2>3 DEF Inv, TypeOK
<1>6. LoopInv'
  <2> SUFFICES ASSUME NEW d \in Callers PROVE CallInv(call[d])'
    BY DEF LoopInv
  <2>1. CallInv(call'[d])
    BY <1>4 DEF Inv, LoopInv
  <2> QED BY <1>1, <2>1 DEF CallInv, Fresh, AtHead, StartOf, PLen, Size
<1>7. Filled'
  BY <1>1 DEF Inv, Filled
<1>8. ReadAtReturnsTheBytes'
  <2> SUFFICES ASSUME NEW d \in Callers, NEW k \in 0..(call'[d].n - 1)
               PROVE  IsByte(fe, call'[d].off0 + k, p'[d][k])
    BY <1>1 DEF ReadAtReturnsTheBytes
  <2>1. CASE d = c
    BY <1>4, <2>1 DEF Bytes
  <2>2. CASE d # c
    BY <1>4, <2>2 DEF Inv, ReadAtReturnsTheBytes
  <2> QED BY <2>1, <2>2
<1>9. ReadAtErrorIsJustified'
  <2> SUFFICES ASSUME NEW d \in Callers PROVE Justified(call[d])'
    BY DEF ReadAtErrorIsJustified, Justified
  <2>1. Justified(call'[d])
    BY <1>4 DEF Inv, ReadAtErrorIsJustified, Justified
  <2> QED BY <1>1, <2>1 DEF Justified, Due, Size
<1> QED BY <1>5, <1>6, <1>7, <1>8, <1>9 DEF Inv

\* The facts about one call that its steps use.
LEMMA CallFacts ==
  ASSUME Inv, NEW c \in Callers
  PROVE  /\ fe \in FileEntries
         /\ call[c] \in CallType
         /\ p[c] \in [0..(call[c].n - 1) -> Nat]
         /\ CallInv(call[c])
         /\ Justified(call[c])
         /\ Bytes(call[c], p[c])
  BY DEF Inv, TypeOK, LoopInv, ReadAtReturnsTheBytes, ReadAtErrorIsJustified,
         Justified, Bytes

LEMMA ReturnKeepsInv ==
  ASSUME Inv, NEW c \in Callers,
         NEW err \in {"nil", "eof", "io", "invalid", "panic"}, Return(c, err),
         Justified([call[c] EXCEPT !.pc = "done", !.err = err])
  PROVE  Inv'
<1> DEFINE r == [call[c] EXCEPT !.pc = "done", !.err = err]
<1>1. call[c] \in CallType /\ p[c] \in [0..(call[c].n - 1) -> Nat] /\ Bytes(call[c], p[c])
  BY CallFacts
<1>2. r \in CallType /\ r.pc = "done" /\ r.n = call[c].n /\ r.off0 = call[c].off0
  BY <1>1 DEF CallType
<1>3. CallStep(c, r, p[c])
  BY DEF Return
<1>4. p[c] \in [0..(r.n - 1) -> Nat] /\ Bytes(r, p[c])
  BY <1>1, <1>2 DEF Bytes
<1>5. CallInv(r)
  BY <1>2 DEF CallInv
<1> HIDE DEF r
<1>6. Justified(r)
  BY DEF r
<1> QED BY <1>2, <1>3, <1>4, <1>5, <1>6, CallStepKeepsInv

\* A call that begins.
LEMMA CallKeepsInv ==
  ASSUME Inv, NEW c \in Callers, NEW want \in Nat, NEW off \in Int,
         ReadAtCall(c, want, off)
  PROVE  Inv'
<1> DEFINE r == [Idle EXCEPT !.pc = "enter", !.want = want,
                             !.off0 = off, !.off = off]
<1>1. CallStep(c, r, <<>>)
  BY DEF ReadAtCall
<1>a. Idle \in CallType /\ Idle.n = 0 /\ Idle.i = 1 /\ Idle.cursor = 0
  BY DEF CallType, Idle
<1>2. /\ r \in CallType /\ r.pc = "enter" /\ r.n = 0 /\ r.i = 1
      /\ r.cursor = 0 /\ r.off = r.off0
  BY <1>a DEF CallType
<1>3. <<>> \in [0..(r.n - 1) -> Nat]
  BY <1>2
<1>4. CallInv(r) /\ Justified(r) /\ Bytes(r, <<>>)
  BY <1>2 DEF CallInv, Fresh, Justified, Bytes
<1> HIDE DEF r
<1> QED BY <1>1, <1>2, <1>3, <1>4, CallStepKeepsInv

LEMMA RejectKeepsInv ==
  ASSUME Inv, NEW c \in Callers, ReadAtReject(c)
  PROVE  Inv'
<1>1. /\ call[c] \in CallType /\ Size \in Int /\ fe.total \in Nat
      /\ Size = fe.total \/ Size < 0
  BY CallFacts, EntryFacts
<1>2. CASE call[c].off0 < 0 /\ Return(c, "invalid")
  <2>1. Justified([call[c] EXCEPT !.pc = "done", !.err = "invalid"])
    BY <1>1 DEF CallType, Justified
  <2> QED BY <1>2, <2>1, ReturnKeepsInv
<1>3. CASE call[c].off0 >= 0 /\ call[c].off0 >= Size /\ Return(c, "eof")
  <2>1. call[c].n = 0
    BY CallFacts DEF ReadAtReject, CallInv, Fresh
  <2>2. Justified([call[c] EXCEPT !.pc = "done", !.err = "eof"])
    BY <1>1, <1>3, <2>1 DEF CallType, Justified
  <2> QED BY <1>3, <2>2, ReturnKeepsInv
<1> QED BY <1>2, <1>3 DEF ReadAtReject

LEMMA EnterKeepsInv ==
  ASSUME Inv, NEW c \in Callers, ReadAtEnter(c)
  PROVE  Inv'
<1> DEFINE q == call[c]
           r == [q EXCEPT !.pc = "loop"]
<1>1. /\ q \in CallType /\ p[c] \in [0..(q.n - 1) -> Nat] /\ Bytes(q, p[c])
      /\ fe \in FileEntries /\ q.pc = "enter" /\ Fresh(q)
  BY CallFacts DEF CallInv, ReadAtEnter, Accepted
<1>2. /\ ~fe.inline /\ q.off0 \in 0..(Size - 1) /\ CallStep(c, r, p[c])
  BY DEF ReadAtEnter, Accepted
<1> HIDE DEF q
<1>3. /\ r \in CallType /\ r.pc = "loop" /\ r.n = q.n /\ r.off0 = q.off0
      /\ r.want = q.want /\ Fresh(r)
  BY <1>1 DEF CallType, Fresh
<1>4. Bytes(r, p[c]) /\ p[c] \in [0..(r.n - 1) -> Nat]
  BY <1>1, <1>3 DEF Bytes
<1> HIDE DEF r
<1>5. AtHead(r)
  <2>1. Len(fe.extents) \in Nat /\ Size \in Int /\ StartOf(1) = 0
    BY <1>1, EntryFacts, StartFacts
  <2>2. PLen(r) \in Nat
    BY <1>2, <1>3, <2>1 DEF PLen, Min2, CallType
  <2> QED BY <1>2, <1>3, <2>1, <2>2 DEF AtHead, Fresh, CallType
<1>6. CallInv(r) /\ Justified(r)
  BY <1>3, <1>5 DEF CallInv, Justified
<1> QED BY <1>2, <1>3, <1>4, <1>6, CallStepKeepsInv

LEMMA InlineKeepsInv ==
  ASSUME Inv, NEW c \in Callers, ReadAtInline(c)
  PROVE  Inv'
<1>1. PICK q : q = call[c]
  OBVIOUS
<1>2. PICK data : data = fe.extents[1]
  OBVIOUS
<1>3. /\ fe \in FileEntries /\ q \in CallType /\ fe.inline
      /\ q.off0 \in 0..(Size - 1)
      /\ q.n = 0 /\ p[c] \in [0..(0 - 1) -> Nat]
  BY <1>1, CallFacts DEF ReadAtInline, Accepted, CallInv, Fresh
<1>4. /\ Size \in Int /\ Len(fe.extents) = 1 /\ data \in Extent
      /\ data.base \in Nat /\ data.len \in Nat \ {0}
      /\ Contiguous(fe.extents)
  BY <1>2, <1>3, EntryFacts
<1>5. data.start = 0 /\ Covered(fe.extents) = data.len
  <2>1. Len(fe.extents) = 1
    BY <1>4
  <2>2. fe.extents # <<>>
    BY <2>1
  <2> QED BY <1>2, <1>4, <2>2 DEF Contiguous, Covered
<1>a. Size = fe.total
  BY <1>3, DueFacts
<1>6. PICK m : m = Min2(PLen(q), data.len - q.off0)
  OBVIOUS
<1>7. PICK r : r = [q EXCEPT !.pc = "done", !.n = m,
                             !.err = IF m < PLen(q) THEN "eof" ELSE "nil"]
  OBVIOUS
<1>8. PICK b : b = Extend(p[c], 0, data.base + q.off0, m)
  OBVIOUS
<1>9. CASE q.off0 <= data.len /\ CallStep(c, r, b)
  <2>1. PLen(q) \in Nat /\ q.off0 \in Nat /\ data.len - q.off0 \in Nat
    BY <1>3, <1>4, <1>9, PLenFacts
  <2>2. /\ m \in Nat /\ m <= PLen(q) /\ q.off0 + m <= data.len
        /\ (m < PLen(q) => m = data.len - q.off0)
    BY <1>4, <1>6, <2>1 DEF Min2
  <2>3. /\ r \in CallType /\ r.pc = "done" /\ r.n = m /\ r.off0 = q.off0
        /\ r.want = q.want /\ r.err = IF m < PLen(q) THEN "eof" ELSE "nil"
    BY <1>3, <1>7, <2>2 DEF CallType
  <2>4. /\ b \in [0..(0 + m - 1) -> Nat]
        /\ \A k \in 0..(0 + m - 1) : b[k] = data.base + q.off0 + (k - 0)
    <3>1. PICK from : from = data.base + q.off0
      OBVIOUS
    <3>2. from \in Nat /\ m \in Nat /\ p[c] \in [0..(0 - 1) -> Nat]
      BY <1>3, <1>4, <2>1, <2>2, <3>1
    <3>3. b = Extend(p[c], 0, from, m)
      BY <1>8, <3>1
    <3>4. /\ b \in [0..(0 + m - 1) -> Nat]
          /\ \A k \in 0..(0 + m - 1) : b[k] = from + (k - 0)
      BY <3>2, <3>3 DEF Extend
    <3> QED BY <3>1, <3>4
  <2>5. \A k \in 0..(0 + m - 1) : IsByte(fe, q.off0 + (k - 0), b[k])
    <3>1. 1 \in 1..Len(fe.extents)
      BY <1>4
    <3>2. \A k \in 0..(0 + m - 1) :
            b[k] = data.base + (q.off0 - data.start) + (k - 0)
      BY <1>4, <1>5, <2>1, <2>2, <2>4
    <3>3. data.start <= q.off0 /\ q.off0 + m <= data.start + data.len
      BY <1>4, <1>5, <2>1, <2>2
    <3> QED BY <1>2, <1>4, <2>1, <2>2, <3>1, <3>2, <3>3, BytesOfExtent
  <2>6. b \in [0..(r.n - 1) -> Nat] /\ Bytes(r, b)
    <3>1. 0 + m - 1 = r.n - 1 /\ \A k \in 0..(m - 1) : q.off0 + (k - 0) = r.off0 + k
      BY <2>1, <2>2, <2>3
    <3> QED BY <2>2, <2>3, <2>4, <2>5, <3>1 DEF Bytes
  <2>7. Due(r) = PLen(q)
    BY <1>3, <2>3, DueFacts DEF PLen
  <2>8. Justified(r) /\ CallInv(r)
    BY <1>4, <1>5, <2>1, <2>2, <2>3, <2>7 DEF Justified, CallInv
  <2> QED BY <1>9, <2>3, <2>6, <2>8, CallStepKeepsInv
<1>10. CASE q.off0 > data.len /\ Return(c, "panic")
  <2>1. Justified([call[c] EXCEPT !.pc = "done", !.err = "panic"])
    BY <1>1, <1>3, <1>4, <1>5, <1>10, <1>a DEF CallType, Justified
  <2> QED BY <1>10, <2>1, ReturnKeepsInv
<1> QED BY <1>1, <1>2, <1>6, <1>7, <1>8, <1>9, <1>10 DEF ReadAtInline

\* What a step inside the loop starts from.
LEMMA InLoop ==
  ASSUME Inv, NEW c \in Callers, call[c].pc = "loop", NEW q, q = call[c]
  PROVE  /\ fe \in FileEntries /\ q \in CallType
         /\ p[c] \in [0..(q.n - 1) -> Nat] /\ Bytes(q, p[c])
         /\ ~fe.inline /\ q.pc = "loop"
         /\ Size \in Int /\ Len(fe.extents) \in Nat
         /\ q.off0 \in Nat /\ q.off0 < Size /\ Due(q) = PLen(q)
         /\ q.n \in Nat /\ q.cursor \in Nat /\ PLen(q) \in Nat
         /\ q.i \in Nat \ {0} /\ q.i <= Len(fe.extents) + 1
         /\ q.cursor = StartOf(q.i)
         /\ q.off = q.off0 + q.n /\ q.n <= PLen(q)
         /\ q.n = PLen(q) \/ q.off >= q.cursor
<1>1. /\ fe \in FileEntries /\ q \in CallType /\ AtHead(q)
      /\ p[c] \in [0..(q.n - 1) -> Nat] /\ Bytes(q, p[c])
  BY CallFacts DEF CallInv
<1>2. Size \in Int /\ Len(fe.extents) \in Nat
  BY <1>1, EntryFacts
<1>3. q.off0 \in 0..(Size - 1) /\ q.n \in Nat /\ q.cursor \in Nat /\ q.i \in Nat \ {0}
  BY <1>1 DEF AtHead, CallType
<1>4. PLen(q) \in Nat
  BY <1>1, <1>2, <1>3, PLenFacts
<1>5. Due(q) = PLen(q)
  BY <1>1, <1>3, DueFacts
<1> QED BY <1>1, <1>2, <1>3, <1>4, <1>5 DEF AtHead

LEMMA SkipKeepsInv ==
  ASSUME Inv, NEW c \in Callers, ReadAtSkip(c)
  PROVE  Inv'
<1>1. PICK q : q = call[c]
  OBVIOUS
<1>2. PICK r : r = Skipped(q)
  OBVIOUS
<1>3. CallStep(c, r, p[c]) /\ More(q) /\ Beyond(q) /\ call[c].pc = "loop"
  BY <1>1, <1>2 DEF ReadAtSkip
<1>4. /\ fe \in FileEntries /\ q \in CallType
      /\ p[c] \in [0..(q.n - 1) -> Nat] /\ Bytes(q, p[c])
      /\ ~fe.inline /\ q.pc = "loop"
      /\ Size \in Int /\ Len(fe.extents) \in Nat
      /\ q.off0 \in Nat /\ q.off0 < Size
      /\ q.n \in Nat /\ q.cursor \in Nat /\ PLen(q) \in Nat
      /\ q.i \in Nat \ {0} /\ q.i <= Len(fe.extents)
      /\ q.cursor = StartOf(q.i)
      /\ q.off = q.off0 + q.n /\ q.n < PLen(q)
  BY <1>1, <1>3, InLoop DEF More
<1>5. PICK len : len = fe.extents[q.i].len
  OBVIOUS
<1>6. len \in Nat /\ StartOf(q.i + 1) = q.cursor + len /\ q.off >= q.cursor + len
  BY <1>3, <1>4, <1>5, EntryFacts, StartFacts DEF Beyond
<1>7. r = [q EXCEPT !.i = @ + 1, !.cursor = @ + len]
  BY <1>2, <1>5 DEF Skipped
<1>8. /\ r \in CallType /\ r.pc = "loop" /\ r.i = q.i + 1 /\ r.cursor = q.cursor + len
      /\ r.n = q.n /\ r.off = q.off /\ r.off0 = q.off0 /\ r.want = q.want
  <2>1. q.i + 1 \in Nat \ {0} /\ q.cursor + len \in Nat /\ q \in CallType /\ q.pc = "loop"
    BY <1>4, <1>6
  <2> QED BY <1>7, <2>1 DEF CallType
<1>9. PLen(r) = PLen(q)
  BY <1>8 DEF PLen
<1>10. AtHead(r)
  <2>1. r.off0 \in 0..(Size - 1) /\ r.i \in 1..(Len(fe.extents) + 1)
    BY <1>4, <1>8
  <2>2. r.cursor = StartOf(r.i) /\ r.off = r.off0 + r.n
    BY <1>4, <1>6, <1>8
  <2>3. r.n <= PLen(r) /\ r.off >= r.cursor
    BY <1>4, <1>6, <1>8, <1>9
  <2> QED BY <1>4, <2>1, <2>2, <2>3 DEF AtHead
<1>11. p[c] \in [0..(r.n - 1) -> Nat] /\ Bytes(r, p[c])
  BY <1>4, <1>8 DEF Bytes
<1>12. CallInv(r) /\ Justified(r)
  BY <1>8, <1>10 DEF CallInv, Justified
<1> QED BY <1>3, <1>8, <1>11, <1>12, CallStepKeepsInv

LEMMA CopyKeepsInv ==
  ASSUME Inv, NEW c \in Callers, ReadAtCopy(c)
  PROVE  Inv'
<1>1. PICK q : q = call[c]
  OBVIOUS
<1>2. PICK r : r = Copied(q)
  OBVIOUS
<1>3. PICK b : b = Extend(p[c], q.n, DiskOff(q), CanRead(q))
  OBVIOUS
<1>4. CallStep(c, r, b) /\ More(q) /\ ~Beyond(q) /\ call[c].pc = "loop"
  BY <1>1, <1>2, <1>3 DEF ReadAtCopy
<1>5. /\ fe \in FileEntries /\ q \in CallType
      /\ p[c] \in [0..(q.n - 1) -> Nat] /\ Bytes(q, p[c])
      /\ ~fe.inline /\ q.pc = "loop"
      /\ Size \in Int /\ Len(fe.extents) \in Nat
      /\ q.off0 \in Nat /\ q.off0 < Size
      /\ q.n \in Nat /\ q.cursor \in Nat /\ PLen(q) \in Nat
      /\ q.i \in 1..Len(fe.extents)
      /\ q.cursor = StartOf(q.i)
      /\ q.off = q.off0 + q.n /\ q.n < PLen(q) /\ q.off >= q.cursor
  BY <1>1, <1>4, InLoop DEF More
<1>6. PICK e : e = fe.extents[q.i]
  OBVIOUS
<1>7. PICK m : m = CanRead(q)
  OBVIOUS
<1>8. e \in Extent /\ e.len \in Nat /\ e.base \in Nat /\ e.start \in Nat
  BY <1>5, <1>6, EntryFacts
<1>9. e.start = q.cursor /\ StartOf(q.i + 1) = q.cursor + e.len
  <2>1. StartOf(q.i) = e.start
    BY <1>5, <1>6 DEF StartOf
  <2>2. StartOf(q.i + 1) = StartOf(q.i) + e.len
    BY <1>5, <1>6, StartFacts
  <2> QED BY <1>5, <2>1, <2>2
<1>a. q.off \in Nat /\ q.off < q.cursor + e.len
  <2>1. q.off \in Nat
    BY <1>5
  <2>2. ~(q.off >= q.cursor + e.len)
    BY <1>4, <1>6 DEF Beyond
  <2> QED BY <1>5, <1>8, <2>1, <2>2
<1>b. /\ m \in Nat /\ q.off + m <= q.cursor + e.len /\ q.n + m <= PLen(q)
      /\ q.n + m = PLen(q) \/ q.off + m = q.cursor + e.len
  <2>1. m = Min2(e.len - (q.off - q.cursor), PLen(q) - q.n)
    BY <1>6, <1>7 DEF CanRead
  <2>2. PICK off : off = q.off
    OBVIOUS
  <2>3. PICK cursor : cursor = q.cursor
    OBVIOUS
  <2>4. PICK n : n = q.n
    OBVIOUS
  <2>5. PICK full : full = PLen(q)
    OBVIOUS
  <2>6. /\ e.len \in Nat /\ off \in Nat /\ cursor \in Nat /\ n \in Nat /\ full \in Nat
        /\ cursor <= off /\ off < cursor + e.len /\ n < full
        /\ m = Min2(e.len - (off - cursor), full - n)
    BY <1>5, <1>8, <1>a, <2>1, <2>2, <2>3, <2>4, <2>5
  <2>7. /\ m \in Nat /\ off + m <= cursor + e.len /\ n + m <= full
        /\ n + m = full \/ off + m = cursor + e.len
    BY <2>6 DEF Min2
  <2> QED BY <2>2, <2>3, <2>4, <2>5, <2>7
<1>10. r = [q EXCEPT !.i = @ + 1, !.cursor = @ + e.len, !.n = @ + m, !.off = @ + m]
  BY <1>2, <1>6, <1>7 DEF Copied
<1>11. /\ r.pc = "loop" /\ r.i = q.i + 1 /\ r.cursor = q.cursor + e.len
       /\ r.n = q.n + m /\ r.off = q.off + m /\ r.off0 = q.off0 /\ r.want = q.want
  BY <1>5, <1>10 DEF CallType
<1>c. r \in CallType
  <2>1. /\ q.i + 1 \in Nat \ {0} /\ q.cursor + e.len \in Nat
        /\ q.n + m \in Nat /\ q.off + m \in Int
    <3>1. q.i \in Nat \ {0} /\ q.cursor \in Nat /\ q.n \in Nat
      BY <1>5
    <3>2. q.off \in Nat /\ m \in Nat /\ e.len \in Nat
      BY <1>8, <1>a, <1>b
    <3> QED BY <3>1, <3>2
  <2>2. q \in CallType
    BY <1>5
  <2> QED BY <1>10, <2>1, <2>2 DEF CallType
<1>12. PLen(r) = PLen(q)
  BY <1>11 DEF PLen
<1>13. AtHead(r)
  <2>1. r.i \in 1..(Len(fe.extents) + 1)
    BY <1>5, <1>11
  <2>2. r.cursor = StartOf(r.i)
    BY <1>9, <1>11
  <2>3. r.off0 \in 0..(Size - 1)
    BY <1>5, <1>11
  <2>4. r.off = r.off0 + r.n
    BY <1>5, <1>11, <1>b
  <2>5. r.n <= PLen(r) /\ (r.n = PLen(r) \/ r.off >= r.cursor)
    BY <1>5, <1>8, <1>11, <1>12, <1>a, <1>b
  <2> QED BY <1>5, <2>1, <2>2, <2>3, <2>4, <2>5 DEF AtHead
<1>14. /\ b \in [0..(q.n + m - 1) -> Nat]
       /\ \A k \in 0..(q.n - 1) : b[k] = p[c][k]
       /\ \A k \in q.n..(q.n + m - 1) : b[k] = e.base + (q.off - e.start) + (k - q.n)
  <2>1. PICK from : from = e.base + (q.off - q.cursor)
    OBVIOUS
  <2>2. from \in Nat
    <3>1. q.off - q.cursor \in Nat
      BY <1>5, <1>a
    <3> QED BY <1>8, <2>1, <3>1
  <2>3. b = Extend(p[c], q.n, from, m)
    BY <1>3, <1>6, <1>7, <2>1 DEF DiskOff
  <2>4. /\ b \in [0..(q.n + m - 1) -> Nat]
        /\ \A k \in 0..(q.n - 1) : b[k] = p[c][k]
        /\ \A k \in q.n..(q.n + m - 1) : b[k] = from + (k - q.n)
    <3>1. PICK n : n = q.n
      OBVIOUS
    <3>2. n \in Nat /\ p[c] \in [0..(n - 1) -> Nat] /\ b = Extend(p[c], n, from, m)
      BY <1>5, <2>3, <3>1
    <3>3. m \in Nat
      BY <1>b
    <3>4. /\ b \in [0..(n + m - 1) -> Nat]
          /\ \A k \in 0..(n - 1) : b[k] = p[c][k]
          /\ \A k \in n..(n + m - 1) : b[k] = from + (k - n)
      BY <2>2, <3>2, <3>3 DEF Extend
    <3> QED BY <3>1, <3>4
  <2> QED BY <1>9, <2>1, <2>4
<1>15. \A k \in q.n..(q.n + m - 1) : IsByte(fe, q.off + (k - q.n), b[k])
  <2>1. e.start <= q.off /\ q.off + m <= e.start + e.len
    BY <1>5, <1>9, <1>b
  <2> QED BY <1>5, <1>6, <1>8, <1>14, <1>a, <1>b, <2>1, BytesOfExtent
<1>16. b \in [0..(r.n - 1) -> Nat] /\ Bytes(r, b)
  <2>1. ASSUME NEW k \in 0..(q.n + m - 1)
        PROVE  IsByte(fe, q.off0 + k, b[k])
    <3>1. CASE k < q.n
      <4>1. k \in 0..(q.n - 1)
        BY <1>5, <1>b, <3>1
      <4> QED BY <1>5, <1>14, <4>1 DEF Bytes
    <3>2. CASE k >= q.n
      <4>1. q.off + (k - q.n) = q.off0 + k
        BY <1>5
      <4>2. k \in q.n..(q.n + m - 1)
        BY <1>5, <1>b, <3>2
      <4> QED BY <1>15, <4>1, <4>2
    <3> QED BY <1>5, <3>1, <3>2
  <2>2. r.n - 1 = q.n + m - 1
    <3>1. r.n = q.n + m
      BY <1>11
    <3>2. q.n \in Nat /\ m \in Nat
      BY <1>5, <1>b
    <3> QED BY <3>1, <3>2
  <2>3. Bytes(r, b)
    BY <1>11, <2>1, <2>2 DEF Bytes
  <2> QED BY <1>14, <2>2, <2>3
<1>17. CallInv(r) /\ Justified(r)
  BY <1>11, <1>13 DEF CallInv, Justified
<1> QED BY <1>4, <1>c, <1>16, <1>17, CallStepKeepsInv

LEMMA EndKeepsInv ==
  ASSUME Inv, NEW c \in Callers, ReadAtFail(c) \/ ReadAtReturn(c)
  PROVE  Inv'
<1>1. PICK q : q = call[c]
  OBVIOUS
<1>2. CASE ReadAtFail(c)
  <2>1. q \in CallType
    BY <1>1, CallFacts
  <2>2. Justified([call[c] EXCEPT !.pc = "done", !.err = "io"])
    BY <1>1, <2>1 DEF CallType, Justified
  <2> QED BY <1>2, <2>2, ReturnKeepsInv DEF ReadAtFail
<1>3. CASE ReadAtReturn(c)
  <2>1. PICK err : err = IF q.n < PLen(q) THEN "eof" ELSE "nil"
    OBVIOUS
  <2>2. Return(c, err) /\ ~More(q) /\ call[c].pc = "loop"
    BY <1>1, <1>3, <2>1 DEF ReadAtReturn
  <2>3. /\ q \in CallType /\ fe \in FileEntries /\ Len(fe.extents) \in Nat
        /\ q.n \in Nat /\ PLen(q) \in Nat /\ q.n <= PLen(q) /\ q.off0 \in Nat
        /\ q.i \in Nat /\ q.i <= Len(fe.extents) + 1
        /\ q.cursor = StartOf(q.i) /\ q.off = q.off0 + q.n
        /\ q.n = PLen(q) \/ q.off >= q.cursor
        /\ Due(q) = PLen(q)
    BY <1>1, <2>2, InLoop
  <2>4. PICK r : r = [q EXCEPT !.pc = "done", !.err = err]
    OBVIOUS
  <2>5. r.off0 = q.off0 /\ r.n = q.n /\ r.want = q.want /\ r.err = err /\ r.pc = "done"
    BY <2>3, <2>4 DEF CallType
  <2>6. Due(r) = PLen(q)
    BY <2>3, <2>5 DEF Due
  <2>7. q.n < PLen(q) => Covered(fe.extents) < q.off0 + PLen(q)
    <3>1. q.n < PLen(q) => q.cursor = Covered(fe.extents) /\ q.cursor \in Nat
      <4>1. q.n < PLen(q) => q.i = Len(fe.extents) + 1
        BY <2>2, <2>3 DEF More
      <4> QED BY <2>3, <4>1, StartFacts
    <3> QED BY <2>3, <3>1
  <2>8. Justified(r)
    BY <2>1, <2>3, <2>5, <2>6, <2>7 DEF Justified
  <2> QED BY <1>1, <2>1, <2>2, <2>4, <2>8, ReturnKeepsInv
<1> QED BY <1>2, <1>3

-----------------------------------------------------------------------------
(***************************************************************************)
(* Steps of the stream and of ReadFile, and Detach: the calls of ReadAt    *)
(* are left alone, so only the types of what moved remain to be shown.     *)
(***************************************************************************)
LEMMA OthersKeepInv ==
  ASSUME Inv, fe' = fe, imageSize' = imageSize, file' \in {"open", "closed"},
         call' = call, p' = p,
         str' \in StrType, got' \in [0..(str'.cnt - 1) -> Nat],
         rf' \in RfType, rf'.offset <= fe.total
  PROVE  Inv'
<1>1. TypeOK'
  BY DEF Inv, TypeOK
<1>2. LoopInv'
  BY DEF Inv, LoopInv, CallInv, Fresh, AtHead, StartOf, PLen, Size
<1>3. Filled'
  BY DEF Filled
<1>4. ReadAtReturnsTheBytes'
  BY DEF Inv, ReadAtReturnsTheBytes
<1>5. ReadAtErrorIsJustified'
  BY DEF Inv, ReadAtErrorIsJustified, Due, Size
<1> QED BY <1>1, <1>2, <1>3, <1>4, <1>5 DEF Inv

LEMMA StrStepKeepsInv ==
  ASSUME Inv, NEW s \in StrType, NEW b \in [0..(s.cnt - 1) -> Nat], StrStep(s, b)
  PROVE  Inv'
<1>1. /\ fe' = fe /\ imageSize' = imageSize /\ file' = file
      /\ call' = call /\ p' = p /\ rf' = rf /\ str' = s /\ got' = b
  BY DEF StrStep, image, atvars, rfvars
<1>2. file \in {"open", "closed"} /\ rf \in RfType /\ rf.offset <= fe.total
  BY DEF Inv, TypeOK, Filled
<1> QED BY <1>1, <1>2, OthersKeepInv

LEMMA RfStepKeepsInv ==
  ASSUME Inv, NEW r \in RfType, NEW b, RfStep(r, b), r.offset <= fe.total
  PROVE  Inv'
<1>1. /\ fe' = fe /\ imageSize' = imageSize /\ file' = file
      /\ call' = call /\ p' = p /\ rf' = r /\ str' = str /\ got' = got
  BY DEF RfStep, image, atvars, strvars
<1>2. file \in {"open", "closed"} /\ str \in StrType /\ got \in [0..(str.cnt - 1) -> Nat]
  BY DEF Inv, TypeOK
<1> QED BY <1>1, <1>2, OthersKeepInv

\* A Read that delivers m bytes of the section it is in.
LEMMA DeliverFacts ==
  ASSUME Inv, InSection, NEW m \in Nat
  PROVE  /\ Delivered(m) \in StrType
         /\ Delivered(m).cnt = str.cnt + m
         /\ Delivered(m).i = str.i
         /\ Grown(m) \in [0..(str.cnt + m - 1) -> Nat]
<1>1. PICK s : s = str
  OBVIOUS
<1>2. s \in StrType /\ got \in [0..(s.cnt - 1) -> Nat] /\ fe \in FileEntries
  BY <1>1 DEF Inv, TypeOK
<1>3. s.cnt \in Nat /\ s.pos \in Nat /\ s.left \in Int /\ s.i \in Nat \ {0}
  BY <1>2 DEF StrType
<1>4. s.cnt + m \in Nat /\ s.pos + m \in Nat /\ s.left - m \in Int
  BY <1>3
<1>5. Delivered(m) = [s EXCEPT !.pos = @ + m, !.left = @ - m, !.cnt = @ + m]
  BY <1>1 DEF Delivered
<1>6. Delivered(m) \in StrType /\ Delivered(m).cnt = s.cnt + m /\ Delivered(m).i = s.i
  BY <1>2, <1>4, <1>5 DEF StrType
<1>7. s.i \in 1..Len(fe.extents)
  BY <1>1, <1>2, <1>3, EntryFacts DEF InSection
<1>8. fe.extents[s.i].base \in Nat
  BY <1>2, <1>7, EntryFacts
<1>9. PICK from : from = fe.extents[s.i].base + s.pos
  OBVIOUS
<1>10. from \in Nat
  BY <1>3, <1>8, <1>9
<1>11. Grown(m) = Extend(got, s.cnt, from, m)
  BY <1>1, <1>9 DEF Grown, From
<1>12. Extend(got, s.cnt, from, m) \in [0..(s.cnt + m - 1) -> Nat]
  <2>1. PICK n : n = s.cnt
    OBVIOUS
  <2>2. n \in Nat /\ got \in [0..(n - 1) -> Nat]
    BY <1>2, <1>3, <2>1
  <2>3. Extend(got, n, from, m) \in [0..(n + m - 1) -> Nat]
    BY <1>10, <2>2 DEF Extend
  <2> QED BY <2>1, <2>3
<1> QED BY <1>1, <1>6, <1>11, <1>12

\* How much a section reader is asked for, and how much of it there is.
LEMMA HeldFacts ==
  ASSUME Inv, InSection
  PROVE  Asked \in Nat /\ Held \in Nat
<1>1. PICK s : s = str
  OBVIOUS
<1>2. s \in StrType /\ fe \in FileEntries /\ imageSize \in Nat
  BY <1>1, FileEntriesAssumption DEF Inv, TypeOK
<1>3. s.want \in Nat /\ s.pos \in Nat /\ s.left \in Int /\ s.i \in Nat \ {0}
  BY <1>2 DEF StrType
<1>4. s.i \in 1..Len(fe.extents)
  BY <1>1, <1>2, <1>3, EntryFacts DEF InSection
<1>5. PICK e : e = fe.extents[s.i]
  OBVIOUS
<1>6. e.base \in Nat /\ e.len \in Nat
  BY <1>2, <1>4, <1>5, EntryFacts
<1>7. s.pos < e.len /\ (fe.inline \/ s.left > 0)
  BY <1>1, <1>5 DEF InSection
<1>8. Asked \in Nat
  <2>1. Asked = Min2(IF fe.inline THEN s.want ELSE Min2(s.want, s.left), e.len - s.pos)
    BY <1>1, <1>5 DEF Asked
  <2>2. PICK room : room = e.len - s.pos
    OBVIOUS
  <2>3. room \in Nat
    BY <1>3, <1>6, <1>7, <2>2
  <2>4. PICK a : a = IF fe.inline THEN s.want ELSE Min2(s.want, s.left)
    OBVIOUS
  <2>5. a \in Nat
    BY <1>3, <1>7, <2>4 DEF Min2
  <2>6. Asked = Min2(a, room)
    BY <2>1, <2>2, <2>4
  <2> QED BY <2>3, <2>5, <2>6 DEF Min2
<1>9. Held \in Nat
  <2>1. From = e.base + s.pos
    BY <1>1, <1>5 DEF From
  <2>2. From \in Nat
    BY <1>3, <1>6, <2>1
  <2>3. CASE fe.inline
    BY <1>8, <2>3 DEF Held
  <2>4. CASE ~fe.inline /\ From >= imageSize
    BY <2>4 DEF Held
  <2>5. CASE ~fe.inline /\ ~(From >= imageSize)
    <3>1. imageSize - From \in Nat
      BY <1>2, <2>2, <2>5
    <3>2. Held = Min2(Asked, imageSize - From)
      BY <2>5 DEF Held
    <3>3. Min2(Asked, imageSize - From) = Asked \/ Min2(Asked, imageSize - From) = imageSize - From
      BY DEF Min2
    <3> QED BY <1>8, <3>1, <3>2, <3>3
  <2> QED BY <2>3, <2>4, <2>5
<1> QED BY <1>8, <1>9

LEMMA ReturnedFacts ==
  ASSUME NEW s \in StrType, NEW ret \in {"nil", "eof", "io"}
  PROVE  Returned(s, ret) \in StrType /\ Returned(s, ret).cnt = s.cnt
  BY DEF Returned, StrType

LEMMA StreamKeepsInv ==
  ASSUME Inv, (\E k \in ReadLens : StreamCall(k)) \/ StreamStep
  PROVE  Inv'
<1>1. /\ str \in StrType /\ got \in [0..(str.cnt - 1) -> Nat]
      /\ str.want \in Nat /\ str.i \in Nat \ {0} /\ str.cnt \in Nat
  BY DEF Inv, TypeOK, StrType
<1>2. ASSUME NEW k \in ReadLens, StreamCall(k) PROVE Inv'
  <2>1. PICK s : s = [str EXCEPT !.pc = "reading", !.want = k, !.ret = "none"]
    OBVIOUS
  <2>2. k \in Nat
    BY FileEntriesAssumption
  <2>3. s \in StrType /\ s.cnt = str.cnt
    BY <1>1, <2>1, <2>2 DEF StrType
  <2>4. StrStep(s, got) /\ got \in [0..(s.cnt - 1) -> Nat]
    BY <1>1, <1>2, <2>1, <2>3 DEF StreamCall
  <2> QED BY <2>3, <2>4, StrStepKeepsInv
<1>3. CASE StreamEnd
  <2>1. PICK s : s = Returned(str, "eof")
    OBVIOUS
  <2>2. s \in StrType /\ s.cnt = str.cnt
    BY <1>1, <2>1, ReturnedFacts
  <2>3. StrStep(s, got) /\ got \in [0..(s.cnt - 1) -> Nat]
    BY <1>1, <1>3, <2>1, <2>2 DEF StreamEnd
  <2> QED BY <2>2, <2>3, StrStepKeepsInv
<1>4. CASE StreamNext
  <2>1. PICK s : s = [str EXCEPT !.i = @ + 1, !.pos = 0]
    OBVIOUS
  <2>2. str.i + 1 \in Nat \ {0}
    BY <1>1
  <2>3. s \in StrType /\ s.cnt = str.cnt
    BY <1>1, <2>1, <2>2 DEF StrType
  <2>4. StrStep(s, got) /\ got \in [0..(s.cnt - 1) -> Nat]
    BY <1>1, <1>4, <2>1, <2>3 DEF StreamNext
  <2> QED BY <2>3, <2>4, StrStepKeepsInv
<1>5. ASSUME InSection, NEW m \in Nat, NEW s \in StrType, s.cnt = str.cnt + m,
             NEW ret \in {"nil", "eof", "io"}, StrStep(Returned(s, ret), Grown(m))
      PROVE  Inv'
  <2>1. PICK t : t = Returned(s, ret)
    OBVIOUS
  <2>2. t \in StrType /\ t.cnt = s.cnt
    BY <2>1, ReturnedFacts
  <2>3. Grown(m) \in [0..(str.cnt + m - 1) -> Nat]
    BY <1>5, DeliverFacts
  <2>4. Grown(m) \in [0..(t.cnt - 1) -> Nat]
    <3>1. t.cnt = str.cnt + m
      BY <1>5, <2>2
    <3>2. t.cnt - 1 = str.cnt + m - 1
      BY <1>1, <3>1
    <3> QED BY <2>3, <3>2
  <2>5. StrStep(t, Grown(m))
    BY <1>5, <2>1
  <2> QED BY <2>2, <2>4, <2>5, StrStepKeepsInv
<1>6. CASE StreamCopy
  <2>1. PICK m : m = Asked
    OBVIOUS
  <2>2. InSection /\ m \in Nat /\ StrStep(Returned(Delivered(m), "nil"), Grown(m))
    BY <1>6, <2>1, HeldFacts DEF StreamCopy
  <2>3. Delivered(m) \in StrType /\ Delivered(m).cnt = str.cnt + m
    BY <2>2, DeliverFacts
  <2> QED BY <1>5, <2>2, <2>3
<1>7. CASE StreamCut
  <2>1. PICK m : m = Held
    OBVIOUS
  <2>2. InSection /\ m \in Nat
    BY <1>7, <2>1, HeldFacts DEF StreamCut
  <2>3. PICK d : d = Delivered(m)
    OBVIOUS
  <2>4. d \in StrType /\ d.cnt = str.cnt + m /\ d.i \in Nat \ {0}
    BY <2>2, <2>3, DeliverFacts DEF StrType
  <2>5. PICK s : s = [d EXCEPT !.i = @ + 1, !.pos = 0]
    OBVIOUS
  <2>6. s \in StrType /\ s.cnt = str.cnt + m
    <3>1. d.i + 1 \in Nat \ {0}
      BY <2>4
    <3> QED BY <2>4, <2>5, <3>1 DEF StrType
  <2>7. CASE m = 0 /\ StrStep(s, got)
    <3>1. s.cnt = str.cnt
      BY <1>1, <2>6, <2>7
    <3>2. got \in [0..(s.cnt - 1) -> Nat]
      BY <1>1, <3>1
    <3> QED BY <2>6, <2>7, <3>2, StrStepKeepsInv
  <2>8. CASE StrStep(Returned(s, IF s.i <= Len(fe.extents) THEN "nil" ELSE "eof"), Grown(m))
    <3>1. PICK ret : ret = IF s.i <= Len(fe.extents) THEN "nil" ELSE "eof"
      OBVIOUS
    <3>2. ret \in {"nil", "eof", "io"} /\ StrStep(Returned(s, ret), Grown(m))
      BY <2>8, <3>1
    <3> QED BY <1>5, <2>2, <2>6, <3>2
  <2> QED BY <1>7, <2>1, <2>3, <2>5, <2>7, <2>8 DEF StreamCut
<1>8. ASSUME NEW m \in 0..str.want, StreamFail(m) PROVE Inv'
  <2>1. InSection /\ m \in Nat /\ StrStep(Returned(Delivered(m), "io"), Grown(m))
    BY <1>1, <1>8 DEF StreamFail
  <2>2. Delivered(m) \in StrType /\ Delivered(m).cnt = str.cnt + m
    BY <2>1, DeliverFacts
  <2> QED BY <1>5, <2>1, <2>2
<1> QED BY <1>2, <1>3, <1>4, <1>6, <1>7, <1>8 DEF StreamStep

LEMMA ReadFileKeepsInv ==
  ASSUME Inv, ReadFileCall \/ ReadFileStep
  PROVE  Inv'
<1>1. /\ rf \in RfType /\ rf.i \in Nat \ {0} /\ rf.offset \in Nat
      /\ rf.offset <= fe.total /\ fe \in FileEntries /\ fe.total \in Nat
  BY EntryFacts DEF Inv, TypeOK, RfType, Filled
<1>2. RfInit \in RfType /\ RfInit.offset = 0
  BY DEF RfInit, RfType
<1>3. ASSUME NEW r, NEW b, RfStep(r, b), NEW pc \in {"idle", "loop", "done"},
             NEW ret \in {"none", "nil", "io", "panic"}, NEW q \in RfType,
             q.offset <= fe.total, r = [q EXCEPT !.pc = pc, !.ret = ret]
      PROVE  Inv'
  <2>1. r \in RfType /\ r.offset = q.offset
    BY <1>3 DEF RfType
  <2> QED BY <1>3, <2>1, RfStepKeepsInv
<1>4. CASE ReadFileCall
  <2>1. RfInit.ret = "none" /\ RfInit.offset <= fe.total
    BY <1>1, <1>2 DEF RfInit
  <2>2. [RfInit EXCEPT !.pc = "loop"] = [RfInit EXCEPT !.pc = "loop", !.ret = "none"]
    BY <1>2, <2>1 DEF RfType
  <2> QED BY <1>2, <1>3, <1>4, <2>1, <2>2 DEF ReadFileCall
<1>5. CASE ReadFileExtent
  <2>1. rf.i \in 1..Len(fe.extents)
    BY <1>1, <1>5, EntryFacts DEF ReadFileExtent
  <2>2. PICK e : e = fe.extents[rf.i]
    OBVIOUS
  <2>3. e.len \in Nat
    BY <1>1, <2>1, <2>2, EntryFacts
  <2>4. PICK n : n = Min2(e.len, fe.total - rf.offset)
    OBVIOUS
  <2>5. n \in Nat /\ rf.offset + n <= fe.total
    <3>1. PICK room : room = fe.total - rf.offset
      OBVIOUS
    <3>2. room \in Nat /\ n = Min2(e.len, room)
      BY <1>1, <2>4, <3>1
    <3>3. n \in Nat /\ n <= room
      BY <2>3, <3>2 DEF Min2
    <3> QED BY <1>1, <3>1, <3>3
  <2>6. PICK r : r = [rf EXCEPT !.i = @ + 1, !.offset = @ + n]
    OBVIOUS
  <2>7. r \in RfType /\ r.offset = rf.offset + n
    <3>1. rf.i + 1 \in Nat \ {0} /\ rf.offset + n \in Nat
      BY <1>1, <2>5
    <3> QED BY <1>1, <2>6, <3>1 DEF RfType
  <2>8. \E b : RfStep(r, b)
    BY <1>5, <2>2, <2>4, <2>6 DEF ReadFileExtent
  <2> QED BY <2>5, <2>7, <2>8, RfStepKeepsInv
<1>6. CASE ReadFileFail
  BY <1>1, <1>3, <1>6 DEF ReadFileFail
<1>7. CASE ReadFileReturn
  BY <1>1, <1>3, <1>7 DEF ReadFileReturn
<1> QED BY <1>4, <1>5, <1>6, <1>7 DEF ReadFileStep

LEMMA DetachKeepsInv ==
  ASSUME Inv, Detach
  PROVE  Inv'
<1>1. /\ fe' = fe /\ imageSize' = imageSize /\ file' = "closed"
      /\ call' = call /\ p' = p /\ str' = str /\ got' = got /\ rf' = rf
  BY DEF Detach, atvars, strvars, rfvars
<1>2. /\ str \in StrType /\ got \in [0..(str.cnt - 1) -> Nat]
      /\ rf \in RfType /\ rf.offset <= fe.total
  BY DEF Inv, TypeOK, Filled
<1> QED BY <1>1, <1>2, OthersKeepInv

-----------------------------------------------------------------------------
(***************************************************************************)
(* The invariant.                                                          *)
(***************************************************************************)
LEMMA InitInv == Init => Inv
<1> SUFFICES ASSUME Init PROVE Inv
  OBVIOUS
<1>1. fe \in FileEntries /\ fe.total \in Nat /\ Size \in Int
  BY EntryFacts DEF Init
<1>2. Idle \in CallType /\ Idle.pc = "idle" /\ Idle.n = 0
  BY DEF Idle, CallType
<1>3. \A c \in Callers : call[c] = Idle /\ p[c] = <<>>
  BY DEF Init
<1>4. \A c \in Callers : p[c] \in [0..(call[c].n - 1) -> Nat]
  <2>1. <<>> \in [0..(0 - 1) -> Nat]
    OBVIOUS
  <2> QED BY <1>2, <1>3, <2>1
<1>5. StrInit \in StrType /\ StrInit.cnt = 0
  BY <1>1 DEF StrInit, StrType
<1>6. got \in [0..(str.cnt - 1) -> Nat]
  <2>1. <<>> \in [0..(0 - 1) -> Nat]
    OBVIOUS
  <2> QED BY <1>5, <2>1 DEF Init
<1>7. RfInit \in RfType /\ RfInit.offset = 0
  BY DEF RfInit, RfType
<1>8. TypeOK
  BY <1>1, <1>2, <1>4, <1>5, <1>6, <1>7 DEF Init, TypeOK
<1>9. LoopInv
  BY <1>2, <1>3 DEF LoopInv, CallInv
<1>10. Filled
  BY <1>1, <1>7 DEF Filled, Init
<1>11. ReadAtReturnsTheBytes
  BY <1>2, <1>3 DEF ReadAtReturnsTheBytes
<1>12. ReadAtErrorIsJustified
  BY <1>2, <1>3 DEF ReadAtErrorIsJustified
<1> QED BY <1>8, <1>9, <1>10, <1>11, <1>12 DEF Inv

LEMMA NextInv == Inv /\ [Next]_vars => Inv'
<1> SUFFICES ASSUME Inv, [Next]_vars PROVE Inv'
  OBVIOUS
<1>1. ASSUME NEW c \in Callers, NEW want \in ReadAtLens, NEW off \in (-1)..Min2(fe.total, W \div 2 - 1),
             ReadAtCall(c, want, off)
      PROVE  Inv'
  <2>1. want \in Nat /\ off \in Int
    BY FileEntriesAssumption
  <2> QED BY <1>1, <2>1, CallKeepsInv
<1>2. ASSUME NEW c \in Callers, ReadAtStep(c) PROVE Inv'
  BY <1>2, RejectKeepsInv, InlineKeepsInv, EnterKeepsInv, SkipKeepsInv,
     CopyKeepsInv, EndKeepsInv DEF ReadAtStep
<1>3. CASE (\E k \in ReadLens : StreamCall(k)) \/ StreamStep
  BY <1>3, StreamKeepsInv
<1>4. CASE ReadFileCall \/ ReadFileStep
  BY <1>4, ReadFileKeepsInv
<1>5. CASE Detach
  BY <1>5, DetachKeepsInv
<1>6. CASE UNCHANGED vars
  <2>1. /\ fe' = fe /\ imageSize' = imageSize /\ file' = file
        /\ call' = call /\ p' = p /\ str' = str /\ got' = got /\ rf' = rf
    BY <1>6 DEF vars, image, atvars, strvars, rfvars
  <2>2. /\ file \in {"open", "closed"} /\ str \in StrType
        /\ got \in [0..(str.cnt - 1) -> Nat] /\ rf \in RfType /\ rf.offset <= fe.total
    BY DEF Inv, TypeOK, Filled
  <2> QED BY <2>1, <2>2, OthersKeepInv
<1> QED BY <1>1, <1>2, <1>3, <1>4, <1>5, <1>6 DEF Next

THEOREM Invariance == Spec => []Inv
<1> QED BY InitInv, NextInv, PTL DEF Spec

\* The locals of every call, of the stream and of ReadFile keep their types,
\* and every byte counted as delivered was delivered.
THEOREM TypeCorrect == Spec => []TypeOK
<1>1. Inv => TypeOK
  BY DEF Inv
<1> QED BY <1>1, Invariance, PTL

\* Whatever any number of callers ask of ReadAt, in whatever order their reads
\* of the image happen and fail, what a call has copied is the run of the
\* file's bytes that begins at the offset asked for.
THEOREM ReadAtCorrect == Spec => []ReadAtReturnsTheBytes
<1>1. Inv => ReadAtReturnsTheBytes
  BY DEF Inv
<1> QED BY <1>1, Invariance, PTL

\* ReadAt answers nil only with a buffer full to the end of the file, and EOF
\* inside the file only when the recorded extents do not reach that far, or,
\* with nothing delivered, when the length of the file is no int64.
THEOREM ReadAtErrors == Spec => []ReadAtErrorIsJustified
<1>1. Inv => ReadAtErrorIsJustified
  BY DEF Inv
<1> QED BY <1>1, Invariance, PTL

-----------------------------------------------------------------------------
(***************************************************************************)
(* ReadAt implements ReaderAt.  A call is asked when it begins and         *)
(* answered when it returns; the steps between are stutters.               *)
(***************************************************************************)
Asks(q, r) == q.pc \in {"idle", "done"} /\ r.pc = "enter" /\ r.n = 0

Answers(q, r) ==
  /\ q.pc \in {"enter", "loop"} /\ r.pc = "done"
  /\ r.want = q.want /\ r.off0 = q.off0
  /\ r.n <= r.want
  /\ r.n > 0 => r.off0 + r.n <= fe.total
  /\ r.err = "nil" => r.n = r.want \/ r.off0 + r.n = fe.total

Hidden(q, r) ==
  /\ q.pc \in {"enter", "loop"} /\ r.pc \in {"enter", "loop"}
  /\ r.want = q.want /\ r.off0 = q.off0

LEMMA CallStepRefines ==
  ASSUME Inv, NEW c \in Callers, NEW r, NEW b, CallStep(c, r, b), Bytes(r, b),
         Asks(call[c], r) \/ Answers(call[c], r) \/ Hidden(call[c], r)
  PROVE  [Contract!Next]_<<fe, [d \in Callers |-> Seen(call[d], p[d])]>>
<1>1. /\ fe' = fe
      /\ call' = [call EXCEPT ![c] = r] /\ p' = [p EXCEPT ![c] = b]
  BY DEF CallStep, image
<1>2. call \in [Callers -> CallType] /\ DOMAIN p = Callers
  BY DEF Inv, TypeOK
<1>3. /\ call'[c] = r /\ p'[c] = b
      /\ \A d \in Callers \ {c} : call'[d] = call[d] /\ p'[d] = p[d]
  BY <1>1, <1>2
<1>4. PICK x : x = [d \in Callers |-> Seen(call[d], p[d])]
  OBVIOUS
<1>5. PICK y : y = [d \in Callers |-> Seen(call'[d], p'[d])]
  OBVIOUS
<1>6. /\ x[c] = Seen(call[c], p[c]) /\ y[c] = Seen(r, b)
      /\ \A d \in Callers \ {c} : y[d] = x[d]
  BY <1>3, <1>4, <1>5
<1>7. CASE Hidden(call[c], r)
  <2>1. Seen(r, b) = Seen(call[c], p[c])
    BY <1>7 DEF Hidden, Seen
  <2>2. \A d \in Callers : Seen(call'[d], p'[d]) = Seen(call[d], p[d])
    BY <1>3, <2>1
  <2>3. [d \in Callers |-> Seen(call'[d], p'[d])] = [d \in Callers |-> Seen(call[d], p[d])]
    BY <2>2
  <2> QED BY <1>1, <2>3
<1>8. CASE Asks(call[c], r)
  <2>1. x[c].st \in {"quiet", "answered"} /\ y[c].st = "asked" /\ y[c].n = 0
    BY <1>6, <1>8 DEF Asks, Seen
  <2> QED BY <1>1, <1>4, <1>5, <1>6, <2>1 DEF Contract!Next, Contract!Ask
<1>9. CASE Answers(call[c], r)
  <2>1. /\ x[c].st = "asked" /\ y[c].st = "answered"
        /\ y[c].want = x[c].want /\ y[c].off = x[c].off
        /\ y[c].n = r.n /\ y[c].want = r.want /\ y[c].off = r.off0
        /\ y[c].out = b /\ y[c].err = r.err
    BY <1>6, <1>9 DEF Answers, Seen
  <2>2. /\ y[c].n <= y[c].want
        /\ y[c].n > 0 => y[c].off + y[c].n <= fe.total
        /\ y[c].err = "nil" => y[c].n = y[c].want \/ y[c].off + y[c].n = fe.total
    BY <1>9, <2>1 DEF Answers
  <2>3. \A k \in 0..(y[c].n - 1) : IsByte(fe, y[c].off + k, y[c].out[k])
    BY <2>1 DEF Bytes
  <2>4. y = [d \in Callers |-> Seen(call[d], p[d])]'
    BY <1>5
  <2>5. Contract!Answer(c)
    BY <1>1, <1>4, <2>1, <2>2, <2>3, <2>4
       DEF Contract!Answer, Contract!Genuine, Contract!Complete
  <2> QED BY <1>1, <1>4, <1>6, <2>4, <2>5 DEF Contract!Next
<1> QED BY <1>7, <1>8, <1>9

\* The last step of an accepted call: n bytes, no more than the cut buffer.
LEMMA AnswerFacts ==
  ASSUME fe.total \in Nat, Size = fe.total, NEW q \in CallType, NEW r \in CallType,
         q.pc \in {"enter", "loop"}, r.pc = "done",
         r.want = q.want, r.off0 = q.off0, q.off0 \in 0..(Size - 1),
         r.n <= PLen(q), r.err = "nil" => r.n = PLen(q)
  PROVE  Answers(q, r)
<1>1. r.want \in Nat /\ r.n \in Nat /\ r.off0 \in Int
  BY DEF CallType
<1>2. PICK n : n = r.n
  OBVIOUS
<1>3. PICK room : room = fe.total - r.off0
  OBVIOUS
<1>4. PICK want : want = r.want
  OBVIOUS
<1>5. room \in Nat /\ want \in Nat /\ n \in Nat
  BY <1>1, <1>2, <1>3, <1>4
<1>6. n <= Min2(want, room) /\ (r.err = "nil" => n = Min2(want, room))
  BY <1>2, <1>3, <1>4 DEF PLen
<1>7. n <= want /\ n <= room /\ (r.err = "nil" => n = want \/ n = room)
  BY <1>5, <1>6 DEF Min2
<1> QED BY <1>1, <1>2, <1>3, <1>4, <1>5, <1>7 DEF Answers

LEMMA ReadAtRefines ==
  ASSUME Inv, NEW c \in Callers, ReadAtStep(c)
  PROVE  [Contract!Next]_<<fe, [d \in Callers |-> Seen(call[d], p[d])]>>
<1>1. PICK q : q = call[c]
  OBVIOUS
<1>2. /\ fe \in FileEntries /\ fe.total \in Nat /\ Size \in Int /\ q \in CallType
      /\ q.n \in Nat /\ q.want \in Nat /\ q.off0 \in Int
      /\ CallInv(q) /\ Bytes(q, p[c])
  BY <1>1, CallFacts, EntryFacts DEF CallType
\* A return with the bytes copied so far.
<1>3. ASSUME NEW err \in {"nil", "eof", "io", "invalid", "panic"}, Return(c, err),
             Answers(q, [q EXCEPT !.pc = "done", !.err = err])
      PROVE  [Contract!Next]_<<fe, [d \in Callers |-> Seen(call[d], p[d])]>>
  <2>1. PICK r : r = [q EXCEPT !.pc = "done", !.err = err]
    OBVIOUS
  <2>2. Bytes(r, p[c])
    <3>1. r.n = q.n /\ r.off0 = q.off0
      BY <1>2, <2>1 DEF CallType
    <3> QED BY <1>2, <3>1 DEF Bytes
  <2>3. CallStep(c, r, p[c])
    BY <1>1, <1>3, <2>1 DEF Return
  <2>4. Answers(call[c], r)
    BY <1>1, <1>3, <2>1
  <2> QED BY <2>2, <2>3, <2>4, CallStepRefines
\* A return before anything was copied.
<1>4. ASSUME NEW err \in {"eof", "invalid", "panic"}, Return(c, err), q.pc = "enter"
      PROVE  [Contract!Next]_<<fe, [d \in Callers |-> Seen(call[d], p[d])]>>
  <2>1. PICK r : r = [q EXCEPT !.pc = "done", !.err = err]
    OBVIOUS
  <2>2. /\ r.pc = "done" /\ r.err = err /\ r.n = 0 /\ r.want = q.want
        /\ r.off0 = q.off0
    BY <1>2, <1>4, <2>1 DEF CallType, CallInv, Fresh
  <2>3. Answers(q, r)
    BY <1>2, <1>4, <2>2 DEF Answers
  <2> QED BY <1>3, <1>4, <2>1, <2>3
<1>5. CASE ReadAtReject(c)
  BY <1>1, <1>4, <1>5 DEF ReadAtReject
<1>6. CASE ReadAtInline(c)
  <2>1. PICK data : data = fe.extents[1]
    OBVIOUS
  <2>2. PICK n : n = Min2(PLen(q), data.len - q.off0)
    OBVIOUS
  <2>3. PICK r : r = [q EXCEPT !.pc = "done", !.n = n,
                               !.err = IF n < PLen(q) THEN "eof" ELSE "nil"]
    OBVIOUS
  <2>4. PICK b : b = Extend(p[c], 0, data.base + q.off0, n)
    OBVIOUS
  <2>5. q.pc = "enter" /\ q.off0 \in 0..(Size - 1) /\ fe.inline
    BY <1>1, <1>6 DEF ReadAtInline, Accepted
  <2>6. CASE q.off0 > data.len /\ Return(c, "panic")
    BY <1>4, <2>5, <2>6
  <2>7. CASE q.off0 <= data.len /\ CallStep(c, r, b)
    <3>1. PLen(q) \in Nat /\ data.len \in Nat
      BY <1>2, <2>1, <2>5, PLenFacts, EntryFacts
    <3>2. n \in Nat /\ n <= PLen(q) /\ (n < PLen(q) \/ n = PLen(q))
      <4>1. PICK room : room = data.len - q.off0
        OBVIOUS
      <4>2. room \in Nat /\ n = Min2(PLen(q), room)
        BY <1>2, <2>2, <2>5, <2>7, <3>1, <4>1
      <4> QED BY <3>1, <4>2 DEF Min2
    <3>3. /\ r \in CallType /\ r.pc = "done" /\ r.n = n /\ r.want = q.want
          /\ r.off0 = q.off0 /\ r.err = IF n < PLen(q) THEN "eof" ELSE "nil"
      BY <1>2, <2>3, <3>2 DEF CallType
    <3>a. Size = fe.total
      BY <1>2, <2>5, DueFacts
    <3>4. Answers(q, r)
      BY <1>2, <2>5, <3>2, <3>3, <3>a, AnswerFacts
    <3>5. Bytes(r, b)
      <4>1. Inv'
        BY <1>6, InlineKeepsInv
      <4>2. call'[c] = r /\ p'[c] = b /\ fe' = fe
        BY <2>7 DEF CallStep, image, Inv, TypeOK
      <4>3. Bytes(call[c], p[c])'
        BY <4>1 DEF Inv, ReadAtReturnsTheBytes, Bytes
      <4> QED BY <4>2, <4>3 DEF Bytes
    <3> QED BY <1>1, <2>7, <3>4, <3>5, CallStepRefines
  <2> QED BY <1>1, <1>6, <2>1, <2>2, <2>3, <2>4, <2>6, <2>7 DEF ReadAtInline
<1>7. ASSUME NEW r, NEW b, CallStep(c, r, b), Inv', Hidden(q, r)
      PROVE  [Contract!Next]_<<fe, [d \in Callers |-> Seen(call[d], p[d])]>>
  <2>1. call'[c] = r /\ p'[c] = b /\ fe' = fe
    BY <1>7 DEF CallStep, image, Inv, TypeOK
  <2>2. Bytes(call[c], p[c])'
    BY <1>7 DEF Inv, ReadAtReturnsTheBytes, Bytes
  <2>3. Bytes(r, b)
    BY <2>1, <2>2 DEF Bytes
  <2> QED BY <1>1, <1>7, <2>3, CallStepRefines
<1>8. CASE ReadAtEnter(c)
  <2>1. PICK r : r = [q EXCEPT !.pc = "loop"]
    OBVIOUS
  <2>2. q.pc = "enter" /\ CallStep(c, r, p[c])
    BY <1>1, <1>8, <2>1 DEF ReadAtEnter, Accepted
  <2>3. Hidden(q, r)
    BY <1>2, <2>1, <2>2 DEF Hidden, CallType
  <2> QED BY <1>7, <1>8, <2>2, <2>3, EnterKeepsInv
<1>9. CASE ReadAtSkip(c)
  <2>1. PICK r : r = Skipped(q)
    OBVIOUS
  <2>2. q.pc = "loop" /\ CallStep(c, r, p[c])
    BY <1>1, <1>9, <2>1 DEF ReadAtSkip
  <2>3. Hidden(q, r)
    BY <1>2, <2>1, <2>2 DEF Hidden, Skipped, CallType
  <2> QED BY <1>7, <1>9, <2>2, <2>3, SkipKeepsInv
<1>10. CASE ReadAtCopy(c)
  <2>1. PICK r : r = Copied(q)
    OBVIOUS
  <2>2. PICK b : b = Extend(p[c], q.n, DiskOff(q), CanRead(q))
    OBVIOUS
  <2>3. q.pc = "loop" /\ CallStep(c, r, b)
    BY <1>1, <1>10, <2>1, <2>2 DEF ReadAtCopy
  <2>4. Hidden(q, r)
    BY <1>2, <2>1, <2>3 DEF Hidden, Copied, CallType
  <2> QED BY <1>7, <1>10, <2>3, <2>4, CopyKeepsInv
<1>11. CASE ReadAtFail(c) \/ ReadAtReturn(c)
  <2>1. q.pc = "loop"
    BY <1>1, <1>11 DEF ReadAtFail, ReadAtReturn
  <2>2. q.off0 \in 0..(Size - 1) /\ q.n <= PLen(q) /\ PLen(q) \in Nat
    BY <1>2, <2>1, PLenFacts DEF CallInv, AtHead
  <2>3. ASSUME NEW err \in {"nil", "eof", "io", "invalid", "panic"},
               Return(c, err), err = "nil" => q.n = PLen(q)
        PROVE  [Contract!Next]_<<fe, [d \in Callers |-> Seen(call[d], p[d])]>>
    <3>1. PICK r : r = [q EXCEPT !.pc = "done", !.err = err]
      OBVIOUS
    <3>2. /\ r \in CallType /\ r.pc = "done" /\ r.err = err /\ r.n = q.n
          /\ r.want = q.want /\ r.off0 = q.off0
      BY <1>2, <3>1 DEF CallType
    <3>a. Size = fe.total
      BY <1>2, <2>2, DueFacts
    <3>3. Answers(q, r)
      BY <1>2, <2>1, <2>2, <2>3, <3>2, <3>a, AnswerFacts
    <3> QED BY <1>3, <2>3, <3>1, <3>3
  <2>4. CASE ReadAtFail(c)
    BY <2>3, <2>4 DEF ReadAtFail
  <2>5. CASE ReadAtReturn(c)
    <3>1. Return(c, IF q.n < PLen(q) THEN "eof" ELSE "nil")
      BY <1>1, <2>5 DEF ReadAtReturn
    <3>2. CASE q.n < PLen(q)
      BY <2>3, <3>1, <3>2
    <3>3. CASE ~(q.n < PLen(q))
      <4>1. q.n = PLen(q)
        BY <1>2, <2>2, <3>3
      <4> QED BY <2>3, <3>1, <3>3, <4>1
    <3> QED BY <3>2, <3>3
  <2> QED BY <1>11, <2>4, <2>5
<1> QED BY <1>5, <1>6, <1>8, <1>9, <1>10, <1>11 DEF ReadAtStep

\* Every step of the detailed specification is a step of the contract or
\* leaves what the callers see as it was.
LEMMA StepRefines ==
  Inv /\ [Next]_vars
    => [Contract!Next]_<<fe, [d \in Callers |-> Seen(call[d], p[d])]>>
<1> SUFFICES ASSUME Inv, [Next]_vars
             PROVE  [Contract!Next]_<<fe, [d \in Callers |-> Seen(call[d], p[d])]>>
  OBVIOUS
<1>1. ASSUME NEW c \in Callers, NEW want \in ReadAtLens, NEW off \in (-1)..Min2(fe.total, W \div 2 - 1),
             ReadAtCall(c, want, off)
      PROVE  [Contract!Next]_<<fe, [d \in Callers |-> Seen(call[d], p[d])]>>
  <2>1. PICK r : r = [Idle EXCEPT !.pc = "enter", !.want = want,
                                  !.off0 = off, !.off = off]
    OBVIOUS
  <2>2. want \in Nat /\ off \in Int
    BY FileEntriesAssumption
  <2>3. Idle \in CallType /\ Idle.n = 0
    BY DEF Idle, CallType
  <2>4. r.pc = "enter" /\ r.n = 0
    BY <2>1, <2>3 DEF CallType
  <2>5. CallStep(c, r, <<>>) /\ call[c].pc \in {"idle", "done"}
    BY <1>1, <2>1 DEF ReadAtCall
  <2> QED BY <2>4, <2>5, CallStepRefines DEF Asks, Bytes
<1>2. ASSUME NEW c \in Callers, ReadAtStep(c)
      PROVE  [Contract!Next]_<<fe, [d \in Callers |-> Seen(call[d], p[d])]>>
  BY <1>2, ReadAtRefines
<1>3. CASE UNCHANGED <<fe, call, p>>
  BY <1>3
<1>4. (\E k \in ReadLens : StreamCall(k)) \/ StreamStep => UNCHANGED <<fe, call, p>>
  BY DEF StreamCall, StreamStep, StreamEnd, StreamNext, StreamCopy, StreamCut,
         StreamFail, StrStep, image, atvars
<1>5. ReadFileCall \/ ReadFileStep \/ Detach \/ UNCHANGED vars => UNCHANGED <<fe, call, p>>
  BY DEF ReadFileCall, ReadFileStep, ReadFileExtent, ReadFileFail,
         ReadFileReturn, RfStep, Detach, vars, image, atvars
<1> QED BY <1>1, <1>2, <1>3, <1>4, <1>5 DEF Next

\* ReadAt, with all its callers, implements the abstract random-access reader.
THEOREM Refinement == Spec => ImplementsReaderAt
<1>1. Init => Contract!Init
  <2>1. Seen(Idle, <<>>) = Contract!Quiet
    BY DEF Seen, Idle, Contract!Quiet
  <2> QED BY <2>1 DEF Init, Contract!Init
<1>2. Inv /\ [Next]_vars => [Contract!Next]_<<fe, [c \in Callers |-> Seen(call[c], p[c])]>>
  BY StepRefines
<1>3. Spec => Contract!Init /\ [][Contract!Next]_<<fe, [c \in Callers |-> Seen(call[c], p[c])]>>
  BY <1>1, <1>2, Invariance, PTL DEF Spec
<1> QED BY <1>3, PTL DEF ImplementsReaderAt, Contract!Spec
-----------------------------------------------------------------------------
(***************************************************************************)
(* The two other ways to read an open file, the stream and ReadFile.       *)
(*                                                                         *)
(* None of their properties is inductive by itself: they need where the    *)
(* multi-reader stands, what the limited reader has left, and what the     *)
(* loop of ReadFile knows at its head, on top of Inv.                      *)
(***************************************************************************)
\* The bytes delivered are those before the place the stream is at.
Placed(s) ==
  /\ s.i \in 1..(Len(fe.extents) + 1)
  /\ s.cnt = StartOf(s.i) + s.pos
  /\ s.i <= Len(fe.extents) => s.pos <= fe.extents[s.i].len
  /\ s.i > Len(fe.extents) => s.pos = 0

Prefix(s, b) == \A k \in 0..(s.cnt - 1) : IsByte(fe, k, b[k])

StreamInv == ImageComplete => Placed(str) /\ Prefix(str, got)

\* What holds of ReadFile's buffer b once the extents before i are copied.
FilledTo(b, i) ==
  \A k \in DOMAIN b :
    IF k < StartOf(i) THEN IsByte(fe, k, b[k]) ELSE b[k] = Zero

\* The image holds the extents before i.
WholeTo(i) ==
  \A j \in 1..(i - 1) : fe.extents[j].base + fe.extents[j].len <= imageSize

FileHead(r, b) ==
  /\ ~fe.inline
  /\ r.i \in 1..(Len(fe.extents) + 1)
  /\ r.offset = Min2(StartOf(r.i), fe.total)
  /\ Size = fe.total /\ WholeTo(r.i)
  /\ DOMAIN b = 0..(fe.total - 1)
  /\ FilledTo(b, r.i)

BufLen == IF fe.inline THEN fe.extents[1].len ELSE fe.total

RfExact(r, b) ==
  r.pc = "done" /\ r.ret = "nil" =>
    /\ ImageComplete /\ (fe.inline \/ Size = fe.total)
    /\ DOMAIN b = 0..(BufLen - 1)
    /\ \A k \in DOMAIN b :
         IF k < Covered(fe.extents) THEN IsByte(fe, k, b[k]) ELSE b[k] = Zero

RfInv == (rf.pc = "loop" => FileHead(rf, buf)) /\ RfExact(rf, buf)

-----------------------------------------------------------------------------
(***************************************************************************)
(* The stream.                                                             *)
(***************************************************************************)
LEMMA StrStepKeeps ==
  ASSUME NEW s, NEW b, StrStep(s, b), ImageComplete => Placed(s) /\ Prefix(s, b)
  PROVE  StreamInv'
<1>1. fe' = fe /\ imageSize' = imageSize /\ str' = s /\ got' = b
  BY DEF StrStep, image
<1> QED BY <1>1 DEF StreamInv, ImageComplete, Placed, Prefix, StartOf

\* Where the section reader in use stands, on an image that holds the file.
LEMMA SectionFacts ==
  ASSUME Inv, StreamInv, ImageComplete, InSection
  PROVE  /\ str.i \in 1..Len(fe.extents)
         /\ str \in StrType /\ got \in [0..(str.cnt - 1) -> Nat]
         /\ fe.extents[str.i] \in Extent
         /\ StartOf(str.i) = fe.extents[str.i].start
         /\ str.cnt = fe.extents[str.i].start + str.pos
         /\ Asked \in Nat /\ str.pos + Asked <= fe.extents[str.i].len
         /\ Held = Asked
<1>1. PICK s : s = str
  OBVIOUS
<1>2. s \in StrType /\ got \in [0..(s.cnt - 1) -> Nat] /\ fe \in FileEntries
  BY <1>1 DEF Inv, TypeOK
<1>3. s.want \in Nat /\ s.pos \in Nat /\ s.left \in Int /\ s.i \in Nat \ {0}
  BY <1>2 DEF StrType
<1>4. s.i \in 1..Len(fe.extents) /\ s.i <= Len(fe.extents)
  BY <1>1, <1>2, <1>3, EntryFacts DEF InSection
<1>5. PICK e : e = fe.extents[s.i]
  OBVIOUS
<1>6. e \in Extent /\ e.base \in Nat /\ e.len \in Nat /\ e.start \in Nat
  BY <1>2, <1>4, <1>5, EntryFacts
<1>7. s.pos < e.len
  BY <1>1, <1>5 DEF InSection
<1>8. StartOf(s.i) = e.start
  BY <1>4, <1>5 DEF StartOf
<1>9. s.cnt = e.start + s.pos
  BY <1>1, <1>8 DEF StreamInv, Placed
<1>10. Asked \in Nat
  BY HeldFacts
<1>11. Asked <= e.len - s.pos
  <2>1. PICK room : room = e.len - s.pos
    OBVIOUS
  <2>2. room \in Int
    BY <1>3, <1>6, <2>1
  <2>3. PICK a : a = IF fe.inline THEN s.want ELSE Min2(s.want, s.left)
    OBVIOUS
  <2>4. a \in Int
    BY <1>3, <2>3 DEF Min2
  <2>5. Asked = Min2(a, room)
    BY <1>1, <1>5, <2>1, <2>3 DEF Asked
  <2> QED BY <2>1, <2>2, <2>4, <2>5, MinFacts
<1>12. s.pos + Asked <= e.len
  BY <1>3, <1>6, <1>10, <1>11
<1>13. Held = Asked
  <2> SUFFICES ASSUME ~fe.inline PROVE Held = Asked
    BY DEF Held
  <2>1. e.base + e.len <= imageSize /\ imageSize \in Nat
    BY <1>2, <1>4, <1>5, FileEntriesAssumption DEF Inv, TypeOK, ImageComplete
  <2>2. From = e.base + s.pos
    BY <1>1, <1>5 DEF From
  <2>3. From \in Nat /\ ~(From >= imageSize) /\ Asked <= imageSize - From
    BY <1>3, <1>6, <1>7, <1>10, <1>12, <2>1, <2>2
  <2>4. imageSize - From \in Int
    BY <2>1, <2>3
  <2>5. Min2(Asked, imageSize - From) = Asked
    BY <2>3 DEF Min2
  <2> QED BY <2>3, <2>5 DEF Held
<1> QED BY <1>1, <1>2, <1>4, <1>5, <1>6, <1>8, <1>9, <1>10, <1>12, <1>13

\* m more bytes of the section reader in use are the next m of the file.
LEMMA DeliveredKeeps ==
  ASSUME Inv, StreamInv, ImageComplete, InSection, NEW m \in Nat, m <= Asked
  PROVE  Placed(Delivered(m)) /\ Prefix(Delivered(m), Grown(m))
<1>1. PICK s : s = str
  OBVIOUS
<1>2. PICK e : e = fe.extents[s.i]
  OBVIOUS
<1>3. /\ s.i \in 1..Len(fe.extents) /\ s \in StrType
      /\ got \in [0..(s.cnt - 1) -> Nat]
      /\ e \in Extent /\ StartOf(s.i) = e.start /\ s.cnt = e.start + s.pos
      /\ Asked \in Nat /\ s.pos + Asked <= e.len
  BY <1>1, <1>2, SectionFacts
<1>4. /\ s.pos \in Nat /\ s.cnt \in Nat
      /\ e.base \in Nat /\ e.len \in Nat /\ e.start \in Nat
  BY <1>3 DEF StrType, Extent
<1>5. Len(fe.extents) \in Nat
  BY EntryFacts DEF Inv, TypeOK
<1>6. PICK d : d = Delivered(m)
  OBVIOUS
<1>7. d.i = s.i /\ d.pos = s.pos + m /\ d.cnt = s.cnt + m
  BY <1>1, <1>3, <1>6 DEF Delivered, StrType
<1>8. s.pos + m <= e.len
  BY <1>3, <1>4
<1>9. s.cnt + m = e.start + (s.pos + m)
  BY <1>3, <1>4
<1>10. Placed(d)
  <2>1. d.i \in 1..(Len(fe.extents) + 1) /\ ~(d.i > Len(fe.extents))
    BY <1>3, <1>5, <1>7
  <2> QED BY <1>2, <1>3, <1>7, <1>8, <1>9, <2>1 DEF Placed
<1>11. PICK n : n = s.cnt
  OBVIOUS
<1>12. PICK from : from = e.base + s.pos
  OBVIOUS
<1>13. PICK b : b = Grown(m)
  OBVIOUS
<1>14. b = Extend(got, n, from, m)
  BY <1>1, <1>2, <1>11, <1>12, <1>13 DEF Grown, From
<1>15. n \in Nat /\ from \in Nat /\ got \in [0..(n - 1) -> Nat]
  BY <1>3, <1>4, <1>11, <1>12
<1>16. /\ \A k \in 0..(n - 1) : b[k] = got[k]
       /\ \A k \in n..(n + m - 1) : b[k] = from + (k - n)
  <2>1. /\ \A k \in 0..(n - 1) : Extend(got, n, from, m)[k] = got[k]
        /\ \A k \in n..(n + m - 1) : Extend(got, n, from, m)[k] = from + (k - n)
    BY <1>15 DEF Extend
  <2> QED BY <1>14, <2>1
<1>17. \A k \in n..(n + m - 1) : IsByte(fe, n + (k - n), b[k])
  <2>1. e.start <= n /\ n + m <= e.start + e.len
    BY <1>3, <1>4, <1>8, <1>9, <1>11
  <2>2. from = e.base + (n - e.start)
    BY <1>3, <1>4, <1>11, <1>12
  <2>3. \A k \in n..(n + m - 1) : b[k] = e.base + (n - e.start) + (k - n)
    BY <1>16, <2>2
  <2>4. PICK j : j = s.i
    OBVIOUS
  <2>5. /\ j \in 1..Len(fe.extents) /\ fe.extents[j] \in Extent
        /\ fe.extents[j].start <= n
        /\ n + m <= fe.extents[j].start + fe.extents[j].len
        /\ \A k \in n..(n + m - 1) :
             b[k] = fe.extents[j].base + (n - fe.extents[j].start) + (k - n)
    BY <1>2, <1>3, <2>1, <2>3, <2>4
  <2> QED BY <1>15, <2>5, BytesOfExtent
<1>18. Prefix(d, b)
  <2> SUFFICES ASSUME NEW k \in 0..(d.cnt - 1) PROVE IsByte(fe, k, b[k])
    BY DEF Prefix
  <2>1. k \in Nat /\ k < n + m
    BY <1>7, <1>11, <1>15
  <2>2. CASE k < n
    <3>1. k \in 0..(n - 1)
      BY <1>15, <2>1, <2>2
    <3>2. IsByte(fe, k, got[k])
      BY <1>1, <1>11, <3>1 DEF StreamInv, Prefix
    <3> QED BY <1>16, <3>1, <3>2
  <2>3. CASE ~(k < n)
    <3>1. k \in n..(n + m - 1) /\ n + (k - n) = k
      BY <1>15, <2>1, <2>3
    <3> QED BY <1>17, <3>1
  <2> QED BY <2>2, <2>3
<1> QED BY <1>6, <1>10, <1>13, <1>18

\* A return changes neither the place nor the bytes.
LEMMA ReturnedKeeps ==
  ASSUME NEW s \in StrType, NEW ret, NEW b, Placed(s) /\ Prefix(s, b)
  PROVE  Placed(Returned(s, ret)) /\ Prefix(Returned(s, ret), b)
<1>1. PICK t : t = Returned(s, ret)
  OBVIOUS
<1>2. t.i = s.i /\ t.pos = s.pos /\ t.cnt = s.cnt
  BY <1>1 DEF Returned, StrType
<1> QED BY <1>1, <1>2 DEF Placed, Prefix

LEMMA StreamKeeps ==
  ASSUME Inv, StreamInv, (\E k \in ReadLens : StreamCall(k)) \/ StreamStep
  PROVE  StreamInv'
<1>1. /\ str \in StrType /\ fe \in FileEntries
      /\ str.pos \in Nat /\ str.i \in Nat /\ str.cnt \in Nat /\ str.want \in Nat
  BY DEF Inv, TypeOK, StrType
<1>2. ImageComplete => Placed(str) /\ Prefix(str, got)
  BY DEF StreamInv
<1>3. ASSUME NEW k, StreamCall(k) PROVE StreamInv'
  <2>1. PICK s : s = [str EXCEPT !.pc = "reading", !.want = k, !.ret = "none"]
    OBVIOUS
  <2>2. s.i = str.i /\ s.pos = str.pos /\ s.cnt = str.cnt
    BY <1>1, <2>1 DEF StrType
  <2>3. ImageComplete => Placed(s) /\ Prefix(s, got)
    BY <1>2, <2>2 DEF Placed, Prefix
  <2> QED BY <1>3, <2>1, <2>3, StrStepKeeps DEF StreamCall
<1>4. CASE StreamEnd
  <2>1. ImageComplete => Placed(Returned(str, "eof")) /\ Prefix(Returned(str, "eof"), got)
    BY <1>1, <1>2, ReturnedKeeps
  <2> QED BY <1>4, <2>1, StrStepKeeps DEF StreamEnd
<1>5. CASE StreamNext
  <2>1. PICK s : s = [str EXCEPT !.i = @ + 1, !.pos = 0]
    OBVIOUS
  <2>2. s.i = str.i + 1 /\ s.pos = 0 /\ s.cnt = str.cnt
    BY <1>1, <2>1 DEF StrType
  <2>3. ASSUME ImageComplete PROVE Placed(s) /\ Prefix(s, got)
    <3>1. str.i \in 1..Len(fe.extents) /\ Len(fe.extents) \in Nat
      BY <1>1, <1>2, <1>5, <2>3, EntryFacts DEF StreamNext, Placed
    <3>2. StartOf(str.i + 1) = StartOf(str.i) + fe.extents[str.i].len
      BY <1>1, <3>1, StartFacts
    <3>3. str.cnt = StartOf(str.i) + fe.extents[str.i].len
      BY <1>2, <1>5, <2>3 DEF StreamNext, Placed
    <3>4. str.cnt = StartOf(s.i) + 0
      BY <1>1, <2>2, <3>2, <3>3
    <3>5. s.i \in 1..(Len(fe.extents) + 1)
      BY <2>2, <3>1
    <3>6. s.i <= Len(fe.extents) => 0 <= fe.extents[s.i].len
      <4>1. s.i <= Len(fe.extents) => s.i \in 1..Len(fe.extents)
        BY <3>1, <3>5
      <4> QED BY <1>1, <4>1, EntryFacts
    <3> QED BY <1>2, <2>2, <2>3, <3>4, <3>5, <3>6 DEF Placed, Prefix
  <2> QED BY <1>5, <2>1, <2>3, StrStepKeeps DEF StreamNext
<1>6. ASSUME InSection, NEW m \in Nat, ImageComplete => m <= Asked, NEW ret,
             StrStep(Returned(Delivered(m), ret), Grown(m))
      PROVE  StreamInv'
  <2>1. Delivered(m) \in StrType
    BY <1>6, DeliverFacts
  <2>2. ImageComplete => Placed(Delivered(m)) /\ Prefix(Delivered(m), Grown(m))
    BY <1>6, DeliveredKeeps
  <2>3. ImageComplete => /\ Placed(Returned(Delivered(m), ret))
                         /\ Prefix(Returned(Delivered(m), ret), Grown(m))
    BY <2>1, <2>2, ReturnedKeeps
  <2> QED BY <1>6, <2>3, StrStepKeeps
<1>7. CASE StreamCopy
  <2>1. InSection /\ Asked \in Nat
    BY <1>7, HeldFacts DEF StreamCopy
  <2>2. Asked <= Asked
    BY <2>1
  <2> QED BY <1>6, <1>7, <2>1, <2>2 DEF StreamCopy
<1>8. CASE StreamCut
  <2>1. \E s, b : StrStep(s, b)
    BY <1>8 DEF StreamCut
  <2>2. fe' = fe /\ imageSize' = imageSize
    BY <2>1 DEF StrStep, image
  <2>3. ImageComplete => FALSE
    <3>1. InSection /\ Held < Asked
      BY <1>8 DEF StreamCut
    <3>2. ImageComplete => Held = Asked /\ Asked \in Nat
      BY <3>1, SectionFacts
    <3> QED BY <3>1, <3>2
  <2> QED BY <2>2, <2>3 DEF StreamInv, ImageComplete
<1>9. ASSUME NEW m \in 0..str.want, StreamFail(m) PROVE StreamInv'
  <2>1. InSection /\ m \in Nat /\ StrStep(Returned(Delivered(m), "io"), Grown(m))
    BY <1>1, <1>9 DEF StreamFail
  <2>2. m <= Asked
    BY <1>9, <2>1, HeldFacts DEF StreamFail
  <2> QED BY <1>6, <2>1, <2>2
<1> QED BY <1>3, <1>4, <1>5, <1>7, <1>8, <1>9 DEF StreamStep

-----------------------------------------------------------------------------
(***************************************************************************)
(* ReadFile.                                                               *)
(***************************************************************************)
LEMMA RfStepKeeps ==
  ASSUME NEW r, NEW b, RfStep(r, b),
         r.pc = "loop" => FileHead(r, b), RfExact(r, b)
  PROVE  RfInv'
<1>1. fe' = fe /\ imageSize' = imageSize /\ rf' = r /\ buf' = b
  BY DEF RfStep, image
<1>2. (rf'.pc = "loop" => FileHead(rf', buf')) /\ RfExact(rf', buf')
  BY <1>1
<1> QED BY <1>1, <1>2 DEF RfInv, FileHead, RfExact, FilledTo, StartOf, BufLen,
                         WholeTo, ImageComplete, Size

LEMMA RfFacts ==
  ASSUME Inv, RfInv
  PROVE  /\ rf \in RfType /\ fe \in FileEntries /\ fe.total \in Nat
         /\ Len(fe.extents) \in Nat /\ rf.i \in Nat \ {0} /\ rf.offset \in Nat
         /\ rf.pc = "loop" => FileHead(rf, buf)
         /\ RfExact(rf, buf)
  BY EntryFacts DEF Inv, TypeOK, RfType, RfInv

LEMMA CallExact ==
  ASSUME Inv, RfInv, ReadFileCall
  PROVE  RfInv'
<1>1. fe \in FileEntries /\ fe.total \in Nat /\ Len(fe.extents) \in Nat
  BY RfFacts
<1>2. CASE fe.inline
  <2>1. PICK r : r = [RfInit EXCEPT !.pc = "done", !.ret = "nil"]
    OBVIOUS
  <2>2. PICK e : e = fe.extents[1]
    OBVIOUS
  <2>3. PICK b : b = Extend(<<>>, 0, e.base, e.len)
    OBVIOUS
  <2>4. RfStep(r, b)
    BY <1>2, <2>1, <2>2, <2>3 DEF ReadFileCall
  <2>5. /\ Len(fe.extents) = 1 /\ e \in Extent
        /\ e.base \in Nat /\ e.len \in Nat /\ e.start \in Nat
    BY <1>1, <1>2, <2>2, EntryFacts
  <2>6. StartOf(1) = e.start /\ e.start = 0
    BY <1>1, <2>2, <2>5, StartFacts DEF StartOf
  <2>7. Covered(fe.extents) = e.len
    <3>1. StartOf(2) = StartOf(1) + e.len
      BY <1>1, <2>2, <2>5, StartFacts
    <3>2. StartOf(2) = Covered(fe.extents)
      BY <1>1, <2>5, StartFacts
    <3> QED BY <2>5, <2>6, <3>1, <3>2
  <2>8. DOMAIN b = 0..(e.len - 1)
    <3>1. 0 + e.len - 1 = e.len - 1
      BY <2>5
    <3> QED BY <2>3, <3>1 DEF Extend
  <2>9. \A k \in 0..(e.len - 1) : b[k] = e.base + k
    BY <2>3, <2>5 DEF Extend
  <2>10. \A k \in 0..(e.len - 1) : IsByte(fe, k, b[k])
    <3> SUFFICES ASSUME NEW k \in 0..(e.len - 1) PROVE IsByte(fe, k, b[k])
      OBVIOUS
    <3>1. e.start <= k /\ k < e.start + e.len /\ b[k] = e.base + (k - e.start)
      BY <2>5, <2>6, <2>9
    <3>2. 1 \in 1..Len(fe.extents)
      BY <2>5
    <3> QED BY <2>2, <3>1, <3>2 DEF IsByte
  <2>11. \A k \in DOMAIN b : k < Covered(fe.extents) /\ IsByte(fe, k, b[k])
    BY <2>5, <2>7, <2>8, <2>10
  <2>12. r.pc # "loop"
    BY <2>1 DEF RfInit
  <2>13. BufLen = e.len
    BY <1>2, <2>2 DEF BufLen
  <2>14. ImageComplete
    BY <1>2 DEF ImageComplete
  <2> QED BY <1>2, <2>4, <2>8, <2>11, <2>12, <2>13, <2>14, RfStepKeeps DEF RfExact
<1>a. CASE ~fe.inline /\ fe.total > MaxAlloc
  <2>1. PICK r : r = [RfInit EXCEPT !.pc = "done", !.ret = "panic"]
    OBVIOUS
  <2>2. r.pc = "done" /\ r.ret = "panic"
    BY <2>1 DEF RfInit
  <2>3. RfStep(r, <<>>)
    BY <1>1, <1>a, <2>1, FileEntriesAssumption DEF ReadFileCall
  <2> QED BY <2>2, <2>3, RfStepKeeps DEF RfExact
<1>3. CASE ~fe.inline /\ fe.total <= MaxAlloc
  <2>1. PICK r : r = [RfInit EXCEPT !.pc = "loop"]
    OBVIOUS
  <2>2. PICK b : b = [k \in 0..(fe.total - 1) |-> Zero]
    OBVIOUS
  <2>3. RfStep(r, b)
    BY <1>1, <1>3, <2>1, <2>2, FileEntriesAssumption DEF ReadFileCall
  <2>4. r.pc = "loop" /\ r.i = 1 /\ r.offset = 0
    BY <2>1 DEF RfInit
  <2>5. StartOf(1) = 0
    BY <1>1, StartFacts
  <2>6. Min2(0, fe.total) = 0
    BY <1>1 DEF Min2
  <2>7. FilledTo(b, 1)
    BY <2>2, <2>5 DEF FilledTo
  <2>8. 1 \in 1..(Len(fe.extents) + 1)
    BY <1>1
  <2>a. Size = fe.total
    BY <1>1, <1>3, EntryFacts
  <2>b. WholeTo(1)
    BY DEF WholeTo
  <2>9. FileHead(r, b)
    BY <1>3, <2>2, <2>4, <2>5, <2>6, <2>7, <2>8, <2>a, <2>b DEF FileHead
  <2>10. RfExact(r, b)
    BY <2>4 DEF RfExact
  <2> QED BY <2>3, <2>9, <2>10, RfStepKeeps
<1> QED BY <1>1, <1>2, <1>3, <1>a, FileEntriesAssumption

\* One extent more: the bytes before the next extent are in place.
LEMMA ExtentExact ==
  ASSUME Inv, RfInv, ReadFileExtent
  PROVE  RfInv'
<1>1. PICK q : q = rf
  OBVIOUS
<1>2. PICK total : total = fe.total
  OBVIOUS
<1>3. /\ q \in RfType /\ fe \in FileEntries /\ total \in Nat /\ q.pc = "loop"
      /\ Len(fe.extents) \in Nat /\ q.i \in Nat \ {0} /\ q.offset \in Nat
      /\ FileHead(q, buf) /\ q.i <= Len(fe.extents)
  BY <1>1, <1>2, RfFacts DEF ReadFileExtent
<1>4. q.i \in 1..Len(fe.extents)
  BY <1>3
<1>5. PICK e : e = fe.extents[q.i]
  OBVIOUS
<1>6. PICK s : s = StartOf(q.i)
  OBVIOUS
<1>7. /\ e \in Extent /\ e.base \in Nat /\ e.len \in Nat /\ e.start \in Nat
      /\ s = e.start /\ StartOf(q.i + 1) = s + e.len
  BY <1>3, <1>4, <1>5, <1>6, EntryFacts, StartFacts DEF StartOf
<1>8. PICK o : o = q.offset
  OBVIOUS
<1>9. /\ o \in Nat /\ o = Min2(s, total) /\ DOMAIN buf = 0..(total - 1)
      /\ \A k \in DOMAIN buf : IF k < s THEN IsByte(fe, k, buf[k]) ELSE buf[k] = Zero
  BY <1>2, <1>3, <1>6, <1>8 DEF FileHead, FilledTo
<1>10. PICK n : n = Min2(e.len, total - o)
  OBVIOUS
<1>11. n \in Nat /\ o <= total /\ o + n = Min2(s + e.len, total)
  <2>1. CASE s <= total
    <3>1. o = s
      BY <1>9, <2>1 DEF Min2
    <3> QED BY <1>3, <1>7, <1>10, <2>1, <3>1 DEF Min2
  <2>2. CASE ~(s <= total)
    <3>1. o = total
      BY <1>9, <2>2 DEF Min2
    <3> QED BY <1>3, <1>7, <1>10, <2>2, <3>1 DEF Min2
  <2> QED BY <2>1, <2>2
<1>12. PICK r : r = [q EXCEPT !.i = @ + 1, !.offset = @ + n]
  OBVIOUS
<1>13. r.pc = "loop" /\ r.i = q.i + 1 /\ r.offset = o + n
  BY <1>3, <1>8, <1>12 DEF RfType
<1>14. PICK b : b = [k \in DOMAIN buf |-> IF k \in o..(o + n - 1)
                                         THEN e.base + (k - o) ELSE buf[k]]
  OBVIOUS
<1>15. RfStep(r, b)
  BY <1>1, <1>2, <1>5, <1>8, <1>10, <1>12, <1>14 DEF ReadFileExtent
<1>16. DOMAIN b = 0..(total - 1)
  BY <1>9, <1>14
<1>17. \A k \in 0..(total - 1) :
         IF k < s + e.len THEN IsByte(fe, k, b[k]) ELSE b[k] = Zero
  <2> SUFFICES ASSUME NEW k \in 0..(total - 1)
               PROVE  IF k < s + e.len THEN IsByte(fe, k, b[k]) ELSE b[k] = Zero
    OBVIOUS
  <2>1. /\ b[k] = IF k \in o..(o + n - 1) THEN e.base + (k - o) ELSE buf[k]
        /\ IF k < s THEN IsByte(fe, k, buf[k]) ELSE buf[k] = Zero
    BY <1>9, <1>14
  <2>2. CASE k < s
    <3>1. o > k
      BY <1>3, <1>7, <1>9, <2>2 DEF Min2
    <3>2. ~(k \in o..(o + n - 1)) /\ k < s + e.len
      BY <1>7, <1>9, <2>2, <3>1
    <3> QED BY <2>1, <2>2, <3>2
  <2>3. CASE ~(k < s)
    <3>1. o = s
      BY <1>3, <1>7, <1>9, <2>3 DEF Min2
    <3>2. k \in o..(o + n - 1) <=> k < s + e.len
      BY <1>3, <1>7, <1>11, <2>3, <3>1 DEF Min2
    <3>3. CASE k < s + e.len
      <4>1. PICK a : a = b[k]
        OBVIOUS
      <4>2. a = e.base + (k - e.start)
        BY <1>7, <2>1, <3>1, <3>2, <3>3, <4>1
      <4>3. e.start <= k /\ k < e.start + e.len
        BY <1>7, <2>3, <3>3
      <4>4. IsByte(fe, k, a)
        BY <1>4, <1>5, <4>2, <4>3 DEF IsByte
      <4> QED BY <3>3, <4>1, <4>4
    <3>4. CASE ~(k < s + e.len)
      BY <2>1, <2>3, <3>2, <3>4
    <3> QED BY <3>3, <3>4
  <2> QED BY <2>2, <2>3
<1>18. FileHead(r, b)
  <2>1. r.i \in 1..(Len(fe.extents) + 1) /\ StartOf(r.i) = s + e.len
    BY <1>3, <1>4, <1>7, <1>13
  <2>2. FilledTo(b, r.i)
    BY <1>16, <1>17, <2>1 DEF FilledTo
  <2>3. ~fe.inline /\ Size = fe.total /\ WholeTo(q.i)
    BY <1>3 DEF FileHead
  <2>4. WholeTo(r.i)
    <3>1. e.base + e.len <= imageSize
      BY <1>1, <1>5 DEF ReadFileExtent, Readable
    <3>2. \A j \in 1..(r.i - 1) : j \in 1..(q.i - 1) \/ j = q.i
      BY <1>3, <1>13
    <3> QED BY <1>5, <2>3, <3>1, <3>2 DEF WholeTo
  <2> QED BY <1>2, <1>11, <1>13, <1>16, <2>1, <2>2, <2>3, <2>4 DEF FileHead
<1>19. RfExact(r, b)
  BY <1>13 DEF RfExact
<1> QED BY <1>15, <1>18, <1>19, RfStepKeeps

LEMMA ReturnExact ==
  ASSUME Inv, RfInv, ReadFileFail \/ ReadFileReturn
  PROVE  RfInv'
<1>1. /\ rf \in RfType /\ rf.pc = "loop" /\ FileHead(rf, buf) /\ fe \in FileEntries
      /\ Len(fe.extents) \in Nat
  BY RfFacts DEF ReadFileFail, ReadFileReturn
<1>2. CASE ReadFileFail
  <2>1. PICK r : r = [rf EXCEPT !.pc = "done", !.ret = "io"]
    OBVIOUS
  <2>2. r.pc = "done" /\ r.ret = "io"
    BY <1>1, <2>1 DEF RfType
  <2> QED BY <1>2, <2>1, <2>2, RfStepKeeps DEF ReadFileFail, RfExact
<1>3. CASE ReadFileReturn
  <2>1. PICK r : r = [rf EXCEPT !.pc = "done", !.ret = "nil"]
    OBVIOUS
  <2>2. r.pc = "done" /\ RfStep(r, buf)
    BY <1>1, <1>3, <2>1 DEF RfType, ReadFileReturn
  <2>3. rf.i = Len(fe.extents) + 1
    BY <1>1, <1>3 DEF ReadFileReturn, FileHead
  <2>4. StartOf(rf.i) = Covered(fe.extents)
    BY <1>1, <2>3, StartFacts
  <2>5. BufLen = fe.total
    BY <1>1 DEF FileHead, BufLen
  <2>a. ImageComplete
    <3>1. WholeTo(rf.i) /\ rf.i - 1 = Len(fe.extents)
      BY <1>1, <2>3 DEF FileHead
    <3> QED BY <3>1 DEF WholeTo, ImageComplete
  <2>6. RfExact(r, buf)
    BY <1>1, <2>4, <2>5, <2>a DEF FileHead, FilledTo, RfExact
  <2> QED BY <2>2, <2>6, RfStepKeeps
<1> QED BY <1>2, <1>3

-----------------------------------------------------------------------------
(***************************************************************************)
(* The limit of the stream.                                                *)
(***************************************************************************)
\* Why a stream that answered EOF is over.
Over(s) == s.i > Len(fe.extents) \/ (~fe.inline /\ s.left <= 0)

\* What is left of the limit is what has not been delivered.
Limited(s) ==
  /\ s.left = Size - s.cnt
  /\ fe.inline \/ s.left >= 0 \/ s.cnt = 0
  /\ s.ret = "eof" => Over(s)

LimitInv == Limited(str)

LEMMA StrStepLimited ==
  ASSUME NEW s, NEW b, StrStep(s, b), Limited(s)
  PROVE  LimitInv'
<1>1. fe' = fe /\ str' = s
  BY DEF StrStep, image
<1> QED BY <1>1 DEF LimitInv, Limited, Over, Size

LEMMA LimitFacts ==
  ASSUME Inv, LimitInv
  PROVE  /\ str \in StrType /\ fe \in FileEntries
         /\ fe.total \in Nat /\ Len(fe.extents) \in Nat
         /\ str.i \in Nat /\ str.pos \in Nat /\ str.left \in Int /\ str.cnt \in Nat
         /\ Size \in Int /\ str.left = Size - str.cnt
         /\ fe.inline \/ str.left >= 0 \/ str.cnt = 0
  BY EntryFacts DEF Inv, TypeOK, StrType, LimitInv, Limited

\* A read never asks for more than is left of the limit.
LEMMA AskedIsLeft ==
  ASSUME Inv, InSection
  PROVE  fe.inline \/ Asked <= str.left
<1> SUFFICES ASSUME ~fe.inline PROVE Asked <= str.left
  OBVIOUS
<1>1. PICK s : s = str
  OBVIOUS
<1>2. s \in StrType /\ fe \in FileEntries
  BY <1>1 DEF Inv, TypeOK
<1>3. s.want \in Nat /\ s.pos \in Nat /\ s.left \in Int /\ s.i \in Nat \ {0}
  BY <1>2 DEF StrType
<1>4. s.i \in 1..Len(fe.extents)
  BY <1>1, <1>2, <1>3, EntryFacts DEF InSection
<1>5. PICK room : room = fe.extents[s.i].len - s.pos
  OBVIOUS
<1>6. room \in Int
  BY <1>2, <1>3, <1>4, <1>5, EntryFacts
<1>7. PICK a : a = Min2(s.want, s.left)
  OBVIOUS
<1>8. a \in Int /\ a <= s.left
  <2>1. s.want \in Int /\ s.left \in Int
    BY <1>3
  <2> QED BY <1>7, <2>1, MinFacts
<1>9. Asked = Min2(a, room)
  BY <1>1, <1>5, <1>7 DEF Asked
<1>10. Asked <= a /\ Asked \in Int
  BY <1>6, <1>8, <1>9, MinFacts
<1> QED BY <1>1, <1>3, <1>8, <1>10

LEMMA DeliveredLimited ==
  ASSUME Inv, LimitInv, InSection, NEW m \in Nat, m <= Asked, Asked \in Nat,
         NEW t, t.left = str.left - m, t.cnt = str.cnt + m, t.ret # "eof"
  PROVE  Limited(t)
<1>1. fe.inline \/ str.left - m >= 0
  BY AskedIsLeft, LimitFacts
<1>2. str.left - m = Size - (str.cnt + m)
  BY LimitFacts
<1> QED BY <1>1, <1>2 DEF Limited

LEMMA StreamKeepsLimit ==
  ASSUME Inv, LimitInv, (\E k \in ReadLens : StreamCall(k)) \/ StreamStep
  PROVE  LimitInv'
<1>1. /\ str \in StrType /\ Limited(str)
      /\ str.left \in Int /\ str.cnt \in Nat /\ str.want \in Nat /\ str.i \in Nat
  BY LimitFacts DEF LimitInv, StrType
<1>2. ASSUME NEW k, StreamCall(k) PROVE LimitInv'
  <2>1. PICK s : s = [str EXCEPT !.pc = "reading", !.want = k, !.ret = "none"]
    OBVIOUS
  <2>2. s.left = str.left /\ s.cnt = str.cnt /\ s.ret = "none"
    BY <1>1, <2>1 DEF StrType
  <2>3. Limited(s)
    BY <1>1, <2>2 DEF Limited
  <2> QED BY <1>2, <2>1, <2>3, StrStepLimited DEF StreamCall
<1>3. CASE StreamEnd
  <2>1. PICK s : s = Returned(str, "eof")
    OBVIOUS
  <2>2. s.left = str.left /\ s.cnt = str.cnt /\ s.i = str.i
    BY <1>1, <2>1 DEF Returned, StrType
  <2>3. Over(s)
    BY <1>3, <2>2 DEF StreamEnd, Over
  <2>4. Limited(s)
    BY <1>1, <2>2, <2>3 DEF Limited
  <2> QED BY <1>3, <2>1, <2>4, StrStepLimited DEF StreamEnd
<1>4. CASE StreamNext
  <2>1. PICK s : s = [str EXCEPT !.i = @ + 1, !.pos = 0]
    OBVIOUS
  <2>2. s.left = str.left /\ s.cnt = str.cnt /\ s.ret = str.ret /\ s.i = str.i + 1
    BY <1>1, <2>1 DEF StrType
  <2>3. Over(str) => Over(s)
    BY <1>1, <2>2, LimitFacts DEF Over
  <2>4. Limited(s)
    BY <1>1, <2>2, <2>3 DEF Limited
  <2> QED BY <1>4, <2>1, <2>4, StrStepLimited DEF StreamNext
<1>5. ASSUME InSection, NEW m \in Nat, m <= Asked, NEW ret, ret # "eof",
             StrStep(Returned(Delivered(m), ret), Grown(m))
      PROVE  LimitInv'
  <2>1. PICK t : t = Returned(Delivered(m), ret)
    OBVIOUS
  <2>2. t.left = str.left - m /\ t.cnt = str.cnt + m /\ t.ret = ret
    BY <1>1, <2>1 DEF Returned, Delivered, StrType
  <2>3. Limited(t)
    BY <1>5, <2>2, HeldFacts, DeliveredLimited
  <2> QED BY <1>5, <2>1, <2>3, StrStepLimited
<1>6. CASE StreamCopy
  <2>1. InSection /\ Asked \in Nat
    BY <1>6, HeldFacts DEF StreamCopy
  <2>2. Asked <= Asked
    BY <2>1
  <2> QED BY <1>5, <1>6, <2>1, <2>2 DEF StreamCopy
<1>7. CASE StreamCut
  <2>1. InSection /\ ~fe.inline /\ Held < Asked /\ Asked \in Nat /\ Held \in Nat
    BY <1>7, HeldFacts DEF StreamCut
  <2>2. PICK s : s = [Delivered(Held) EXCEPT !.i = @ + 1, !.pos = 0]
    OBVIOUS
  <2>3. s.left = str.left - Held /\ s.cnt = str.cnt + Held
    BY <1>1, <2>2 DEF Delivered, StrType
  <2>4. s.ret = str.ret /\ s.i = str.i + 1
    BY <1>1, <2>2 DEF Delivered, StrType
  <2>5. s.left = Size - s.cnt /\ s.left >= 0
    <3>1. Held <= str.left
      BY <1>1, <2>1, AskedIsLeft
    <3> QED BY <2>1, <2>3, <3>1, LimitFacts
  <2>6. CASE StrStep(s, got)
    <3>1. Over(str) => Over(s)
      BY <1>1, <2>1, <2>3, <2>4, LimitFacts DEF Over
    <3>2. Limited(s)
      BY <1>1, <2>4, <2>5, <3>1 DEF Limited
    <3> QED BY <2>6, <3>2, StrStepLimited
  <2>7. ASSUME StrStep(Returned(s, IF s.i <= Len(fe.extents) THEN "nil" ELSE "eof"),
                       Grown(Held))
        PROVE  LimitInv'
    <3>1. PICK t : t = Returned(s, IF s.i <= Len(fe.extents) THEN "nil" ELSE "eof")
      OBVIOUS
    <3>2. t.left = s.left /\ t.cnt = s.cnt /\ t.i = s.i
      BY <1>1, <2>2, <3>1 DEF Returned, Delivered, StrType
    <3>3. t.ret = "eof" => s.i > Len(fe.extents)
      BY <1>1, <2>2, <2>4, <3>1, LimitFacts DEF Returned, Delivered, StrType
    <3>4. Limited(t)
      BY <2>5, <3>2, <3>3 DEF Limited, Over
    <3> QED BY <2>7, <3>1, <3>4, StrStepLimited
  <2>8. StrStep(s, got) \/ StrStep(Returned(s, IF s.i <= Len(fe.extents) THEN "nil" ELSE "eof"),
                                   Grown(Held))
    BY <1>7, <2>2 DEF StreamCut
  <2> QED BY <2>6, <2>7, <2>8
<1>8. ASSUME NEW m \in 0..str.want, StreamFail(m) PROVE LimitInv'
  <2>1. InSection /\ m \in Nat /\ StrStep(Returned(Delivered(m), "io"), Grown(m))
    BY <1>1, <1>8 DEF StreamFail
  <2>2. m <= Asked
    BY <1>8, <2>1, HeldFacts DEF StreamFail
  <2> QED BY <1>5, <2>1, <2>2
<1> QED BY <1>2, <1>3, <1>4, <1>6, <1>7, <1>8 DEF StreamStep

-----------------------------------------------------------------------------
(***************************************************************************)
(* A byte of the file is at one place of the image.                        *)
(***************************************************************************)
\* The extents are in order, and so the starts are: by induction over the later
\* extent, as a least counterexample.
LEMMA StartsGrow ==
  ASSUME fe \in FileEntries
  PROVE  \A i, j \in 1..(Len(fe.extents) + 1) : i <= j => StartOf(i) <= StartOf(j)
<1>1. /\ Len(fe.extents) \in Nat
      /\ \A j \in 1..(Len(fe.extents) + 1) : StartOf(j) \in Nat
      /\ \A j \in 1..Len(fe.extents) :
           StartOf(j) + fe.extents[j].len = StartOf(j + 1) /\ fe.extents[j].len \in Nat
  BY EntryFacts, StartFacts
<1> DEFINE I == 1..(Len(fe.extents) + 1)
           T == { j \in I : \E i \in I : i <= j /\ ~(StartOf(i) <= StartOf(j)) }
<1>2. T \subseteq Nat
  BY <1>1
<1>3. T = {}
  <2> SUFFICES ASSUME T # {} PROVE FALSE
    OBVIOUS
  <2>1. PICK j \in T : \A k \in T : j <= k
    BY <1>2, LeastNatural
  <2>2. PICK i \in I : i <= j /\ ~(StartOf(i) <= StartOf(j))
    BY <2>1
  <2>3. i \in Nat /\ j \in Nat /\ i # j
    BY <1>1, <2>1, <2>2
  <2>4. PICK q : q = j - 1
    OBVIOUS
  <2>5. q \in Nat /\ q \in I /\ i <= q /\ q < j /\ q \in 1..Len(fe.extents) /\ q + 1 = j
    BY <1>1, <2>1, <2>2, <2>3, <2>4
  <2>6. q \notin T
    BY <2>1, <2>3, <2>5
  <2>7. StartOf(i) <= StartOf(q)
    BY <2>2, <2>5, <2>6
  <2>8. StartOf(q) + fe.extents[q].len = StartOf(j) /\ fe.extents[q].len \in Nat
    BY <1>1, <2>5
  <2>9. StartOf(i) \in Nat /\ StartOf(j) \in Nat /\ StartOf(q) \in Nat
    BY <1>1, <2>1, <2>2, <2>5
  <2>10. ~(StartOf(i) <= StartOf(j))
    BY <2>2
  <2> HIDE DEF T, I
  <2> QED BY ONLY <2>7, <2>8, <2>9, <2>10
<1> QED BY <1>3

LEMMA OneByte ==
  ASSUME fe \in FileEntries, NEW k \in Nat, NEW a, NEW b, IsByte(fe, k, a), IsByte(fe, k, b)
  PROVE  a = b /\ k < Covered(fe.extents)
<1>1. /\ Len(fe.extents) \in Nat
      /\ \A j \in 1..Len(fe.extents) :
           /\ fe.extents[j].start \in Nat /\ fe.extents[j].len \in Nat
           /\ StartOf(j) = fe.extents[j].start
           /\ StartOf(j + 1) = fe.extents[j].start + fe.extents[j].len
      /\ StartOf(Len(fe.extents) + 1) = Covered(fe.extents)
  BY EntryFacts, StartFacts DEF StartOf
<1>2. PICK i \in 1..Len(fe.extents) :
        /\ fe.extents[i].start <= k /\ k < fe.extents[i].start + fe.extents[i].len
        /\ a = fe.extents[i].base + (k - fe.extents[i].start)
  BY DEF IsByte
<1>3. PICK j \in 1..Len(fe.extents) :
        /\ fe.extents[j].start <= k /\ k < fe.extents[j].start + fe.extents[j].len
        /\ b = fe.extents[j].base + (k - fe.extents[j].start)
  BY DEF IsByte
<1>4. StartOf(i) <= k /\ k < StartOf(i + 1) /\ StartOf(j) <= k /\ k < StartOf(j + 1)
  BY <1>1, <1>2, <1>3
<1>5. /\ i \in 1..(Len(fe.extents) + 1) /\ i + 1 \in 1..(Len(fe.extents) + 1)
      /\ j \in 1..(Len(fe.extents) + 1) /\ j + 1 \in 1..(Len(fe.extents) + 1)
      /\ Len(fe.extents) + 1 \in 1..(Len(fe.extents) + 1) /\ i + 1 <= Len(fe.extents) + 1
  BY <1>1
<1>6. \A x \in 1..(Len(fe.extents) + 1) : StartOf(x) \in Nat
  BY StartFacts
<1>7. ~(i < j)
  <2> SUFFICES ASSUME i < j PROVE FALSE
    OBVIOUS
  <2>1. i + 1 <= j
    BY <1>1
  <2>2. StartOf(i + 1) <= StartOf(j)
    BY <1>5, <2>1, StartsGrow
  <2> QED BY <1>4, <1>5, <1>6, <2>2
<1>8. ~(j < i)
  <2> SUFFICES ASSUME j < i PROVE FALSE
    OBVIOUS
  <2>1. j + 1 <= i
    BY <1>1
  <2>2. StartOf(j + 1) <= StartOf(i)
    BY <1>5, <2>1, StartsGrow
  <2> QED BY <1>4, <1>5, <1>6, <2>2
<1>9. i = j
  BY <1>1, <1>7, <1>8
<1>10. k < Covered(fe.extents)
  <2>1. StartOf(i + 1) <= StartOf(Len(fe.extents) + 1)
    BY <1>5, StartsGrow
  <2>2. k < StartOf(i + 1) /\ StartOf(i + 1) \in Nat /\ StartOf(Len(fe.extents) + 1) \in Nat
    BY <1>4, <1>5, <1>6
  <2>3. k < StartOf(Len(fe.extents) + 1)
    BY <2>1, <2>2
  <2> QED BY <1>1, <2>3
<1> QED BY <1>2, <1>3, <1>9, <1>10

-----------------------------------------------------------------------------
(***************************************************************************)
(* The stream on an image that was cut short: what it has delivered is     *)
(* counted in the bytes the image holds of the extents.                    *)
(***************************************************************************)
HeldOf(j) == OnImage(fe, imageSize, j)

HeldTo(j) == HeldBefore(fe, imageSize)[j]

\* The bytes delivered are the held ones before the place the stream is at.
Standing(s) ==
  /\ s.i \in 1..(Len(fe.extents) + 1)
  /\ s.cnt = HeldTo(s.i - 1) + s.pos
  /\ s.i <= Len(fe.extents) => s.pos <= HeldOf(s.i)
  /\ s.i > Len(fe.extents) => s.pos = 0

HeldBytes(s, b) == \A k \in 0..(s.cnt - 1) : IsHeldByte(k, b[k])

HeldInv == Standing(str) /\ HeldBytes(str, got)

LEMMA HeldOfFacts ==
  ASSUME fe \in FileEntries, imageSize \in Nat, NEW j \in 1..Len(fe.extents)
  PROVE  /\ HeldOf(j) \in Nat /\ HeldOf(j) <= fe.extents[j].len
         /\ fe.inline => HeldOf(j) = fe.extents[j].len
         /\ ~fe.inline /\ fe.extents[j].base >= imageSize => HeldOf(j) = 0
         /\ ~fe.inline /\ fe.extents[j].base < imageSize =>
              HeldOf(j) = Min2(fe.extents[j].len, imageSize - fe.extents[j].base)
<1>1. PICK e : e = fe.extents[j]
  OBVIOUS
<1>2. e.base \in Nat /\ e.len \in Nat /\ fe.inline \in BOOLEAN
  BY <1>1, EntryFacts
<1>3. HeldOf(j) = IF fe.inline THEN e.len
                  ELSE IF e.base >= imageSize THEN 0 ELSE Min2(e.len, imageSize - e.base)
  BY <1>1 DEF HeldOf, OnImage
<1> QED BY <1>1, <1>2, <1>3 DEF Min2

\* HeldBefore, a recursive function, is what its recursion says.
LEMMA HeldToFacts ==
  ASSUME fe \in FileEntries, imageSize \in Nat
  PROVE  /\ HeldTo(0) = 0
         /\ \A j \in 1..Len(fe.extents) : HeldTo(j) = HeldTo(j - 1) + HeldOf(j)
         /\ \A j \in 0..Len(fe.extents) : HeldTo(j) \in Nat
<1> PICK n \in Nat : n = Len(fe.extents)
  BY EntryFacts
<1> DEFINE IsRun(h) == h = [k \in 0..n |-> IF k = 0 THEN 0 ELSE h[k - 1] + HeldOf(k)]
<1>1. \A k \in 1..n : HeldOf(k) \in Nat
  BY HeldOfFacts
<1>2. PICK g : g = [z \in Nat \X (1..n) |-> z[1] + HeldOf(z[2])]
  OBVIOUS
<1>3. g \in [Nat \X (1..n) -> Nat]
  BY <1>1, <1>2
<1>4. \A a \in Nat, k \in 1..n : g[<<a, k>>] = a + HeldOf(k)
  BY <1>2
<1>5. PICK f \in [0..n -> Nat] : Runs(f, n, 0, g)
  BY <1>3, Iterates
<1>6. IsRun(f)
  <2>1. ASSUME NEW k \in 0..n
        PROVE  f[k] = IF k = 0 THEN 0 ELSE f[k - 1] + HeldOf(k)
    <3>1. k # 0 => k - 1 \in 0..n /\ k \in 1..n
      OBVIOUS
    <3> QED BY <1>4, <1>5, <3>1 DEF Runs
  <2> QED BY <2>1
<1>7. PICK h : IsRun(h) /\ \A j : HeldTo(j) = h[j]
  <2>1. PICK h : h = CHOOSE x : IsRun(x)
    OBVIOUS
  <2>2. IsRun(h)
    BY <1>6, <2>1
  <2>3. HeldBefore(fe, imageSize) = h
    BY <2>1 DEF HeldBefore, HeldOf
  <2> QED BY <2>2, <2>3 DEF HeldTo
<1>8. h \in [0..n -> Nat]
  <2>1. h = [k \in 0..n |-> h[k]] /\ h[0] \in Nat
    BY <1>7
  <2>2. ASSUME NEW k \in 1..n, h[k - 1] \in Nat PROVE h[k] \in Nat
    <3>1. h[k] = h[k - 1] + HeldOf(k)
      BY <1>7
    <3> QED BY <1>1, <2>2, <3>1
  <2> QED BY <2>1, <2>2, StaysIn
<1>9. HeldTo(0) = 0
  <2>1. h[0] = 0
    <3>1. 0 \in 0..n
      OBVIOUS
    <3> QED BY <1>7, <3>1
  <2> QED BY <1>7, <2>1
<1>10. ASSUME NEW j \in 1..n PROVE HeldTo(j) = HeldTo(j - 1) + HeldOf(j)
  <2>1. j \in 0..n /\ j # 0
    OBVIOUS
  <2>2. h[j] = h[j - 1] + HeldOf(j)
    BY <1>7, <2>1
  <2> QED BY <1>7, <2>2
<1>11. ASSUME NEW j \in 0..n PROVE HeldTo(j) \in Nat
  BY <1>7, <1>8
<1>12. n = Len(fe.extents)
  OBVIOUS
<1> HIDE DEF IsRun
<1> QED BY <1>9, <1>10, <1>11, <1>12

LEMMA StrStepHeld ==
  ASSUME NEW s, NEW b, StrStep(s, b), Standing(s), HeldBytes(s, b)
  PROVE  HeldInv'
<1>1. fe' = fe /\ imageSize' = imageSize /\ str' = s /\ got' = b
  BY DEF StrStep, image
<1> QED BY <1>1 DEF HeldInv, Standing, HeldBytes, HeldTo, HeldOf, IsHeldByte

\* The section reader in use stops at the end of its extent or of the image.
LEMMA SectionHeld ==
  ASSUME Inv, HeldInv, InSection
  PROVE  /\ str.i \in 1..Len(fe.extents)
         /\ Held \in Nat /\ Asked \in Nat
         /\ str.pos + Held <= HeldOf(str.i)
         /\ Held < Asked => str.pos + Held = HeldOf(str.i)
<1>1. PICK s : s = str
  OBVIOUS
<1>2. s \in StrType /\ fe \in FileEntries /\ imageSize \in Nat
  BY <1>1, FileEntriesAssumption DEF Inv, TypeOK
<1>3. s.want \in Nat /\ s.pos \in Nat /\ s.left \in Int /\ s.i \in Nat \ {0}
  BY <1>2 DEF StrType
<1>4. s.i \in 1..Len(fe.extents) /\ s.i <= Len(fe.extents)
  BY <1>1, <1>2, <1>3, EntryFacts DEF InSection
<1>5. PICK e : e = fe.extents[s.i]
  OBVIOUS
<1>6. e.base \in Nat /\ e.len \in Nat /\ fe.inline \in BOOLEAN
  BY <1>2, <1>4, <1>5, EntryFacts
<1>7. s.pos < e.len
  BY <1>1, <1>5 DEF InSection
<1>8. PICK h : h = HeldOf(s.i)
  OBVIOUS
<1>9. /\ h \in Nat
      /\ fe.inline => h = e.len
      /\ ~fe.inline /\ e.base >= imageSize => h = 0
      /\ ~fe.inline /\ e.base < imageSize => h = Min2(e.len, imageSize - e.base)
      /\ s.pos <= h
  BY <1>1, <1>2, <1>4, <1>5, <1>8, HeldOfFacts DEF HeldInv, Standing
<1>10. PICK asked : asked = Asked
  OBVIOUS
<1>11. PICK held : held = Held
  OBVIOUS
<1>12. asked \in Nat /\ held \in Nat
  BY <1>10, <1>11, HeldFacts
<1>13. asked <= e.len - s.pos
  <2>1. PICK room : room = e.len - s.pos
    OBVIOUS
  <2>2. PICK a : a = IF fe.inline THEN s.want ELSE Min2(s.want, s.left)
    OBVIOUS
  <2>3. room \in Int /\ a \in Int
    BY <1>3, <1>6, <2>1, <2>2 DEF Min2
  <2>4. asked = Min2(a, room)
    BY <1>1, <1>5, <1>10, <2>1, <2>2 DEF Asked
  <2> QED BY <2>1, <2>3, <2>4, MinFacts
<1>14. held = IF fe.inline THEN asked
              ELSE IF e.base + s.pos >= imageSize THEN 0
              ELSE Min2(asked, imageSize - (e.base + s.pos))
  BY <1>1, <1>5, <1>10, <1>11 DEF Held, From
<1>15. PICK pos : pos = s.pos
  OBVIOUS
<1>16. pos + held <= h /\ (held < asked => pos + held = h)
  <2>1. CASE fe.inline
    BY <1>3, <1>6, <1>9, <1>12, <1>13, <1>14, <1>15, <2>1
  <2>2. CASE ~fe.inline /\ e.base + pos >= imageSize
    <3>1. held = 0
      BY <1>14, <1>15, <2>2
    <3>2. h <= pos
      BY <1>2, <1>3, <1>6, <1>9, <1>15, <2>2 DEF Min2
    <3> QED BY <1>3, <1>9, <1>12, <1>15, <3>1, <3>2
  <2>3. CASE ~fe.inline /\ ~(e.base + pos >= imageSize)
    <3>1. held = Min2(asked, imageSize - (e.base + pos))
      BY <1>14, <1>15, <2>3
    <3>2. h = Min2(e.len, imageSize - e.base)
      BY <1>2, <1>3, <1>6, <1>9, <1>15, <2>3
    <3> QED BY <1>2, <1>3, <1>6, <1>9, <1>12, <1>13, <1>15, <2>3, <3>1, <3>2 DEF Min2
  <2> QED BY <1>6, <2>1, <2>2, <2>3
<1> QED BY <1>1, <1>4, <1>8, <1>10, <1>11, <1>12, <1>15, <1>16

\* m more bytes of the section reader in use are the next m the image holds.
LEMMA DeliveredHeld ==
  ASSUME Inv, HeldInv, InSection, NEW m \in Nat, m <= Held
  PROVE  Standing(Delivered(m)) /\ HeldBytes(Delivered(m), Grown(m))
<1>1. PICK s : s = str
  OBVIOUS
<1>2. PICK j : j = s.i
  OBVIOUS
<1>3. PICK e : e = fe.extents[j]
  OBVIOUS
<1>4. PICK h : h = HeldOf(j)
  OBVIOUS
<1>5. PICK before : before = HeldTo(j - 1)
  OBVIOUS
<1>6. /\ s \in StrType /\ got \in [0..(s.cnt - 1) -> Nat]
      /\ fe \in FileEntries /\ imageSize \in Nat
  BY <1>1, FileEntriesAssumption DEF Inv, TypeOK
<1>7. s.pos \in Nat /\ s.cnt \in Nat
  BY <1>6 DEF StrType
<1>8. /\ j \in 1..Len(fe.extents) /\ Len(fe.extents) \in Nat
      /\ Held \in Nat /\ s.pos + Held <= h
  BY <1>1, <1>2, <1>4, <1>6, SectionHeld, EntryFacts
<1>9. /\ e.base \in Nat /\ h \in Nat /\ before \in Nat
  <2>1. e.base \in Nat
    BY <1>3, <1>6, <1>8, EntryFacts
  <2>2. h \in Nat
    BY <1>4, <1>6, <1>8, HeldOfFacts
  <2>3. j - 1 \in 0..Len(fe.extents)
    BY <1>8
  <2>4. before \in Nat
    BY <1>5, <1>6, <2>3, HeldToFacts
  <2> QED BY <2>1, <2>2, <2>4
<1>10. s.cnt = before + s.pos
  BY <1>1, <1>2, <1>5 DEF HeldInv, Standing
<1>11. s.pos + m <= h
  BY <1>7, <1>8, <1>9
<1>12. PICK d : d = Delivered(m)
  OBVIOUS
<1>13. d.i = j /\ d.pos = s.pos + m /\ d.cnt = s.cnt + m
  BY <1>1, <1>2, <1>6, <1>12 DEF Delivered, StrType
<1>14. Standing(d)
  <2>1. d.i \in 1..(Len(fe.extents) + 1) /\ ~(d.i > Len(fe.extents))
    BY <1>8, <1>13
  <2>2. d.cnt = HeldTo(d.i - 1) + d.pos
    BY <1>5, <1>7, <1>9, <1>10, <1>13
  <2> QED BY <1>4, <1>11, <1>13, <2>1, <2>2 DEF Standing
<1>15. PICK n : n = s.cnt
  OBVIOUS
<1>16. PICK from : from = e.base + s.pos
  OBVIOUS
<1>17. PICK b : b = Grown(m)
  OBVIOUS
<1>18. b = Extend(got, n, from, m)
  BY <1>1, <1>2, <1>3, <1>15, <1>16, <1>17 DEF Grown, From
<1>19. n \in Nat /\ from \in Nat /\ got \in [0..(n - 1) -> Nat]
  BY <1>6, <1>7, <1>9, <1>15, <1>16
<1>20. /\ \A k \in 0..(n - 1) : b[k] = got[k]
       /\ \A k \in n..(n + m - 1) : b[k] = from + (k - n)
  <2>1. /\ \A k \in 0..(n - 1) : Extend(got, n, from, m)[k] = got[k]
        /\ \A k \in n..(n + m - 1) : Extend(got, n, from, m)[k] = from + (k - n)
    BY <1>19 DEF Extend
  <2> QED BY <1>18, <2>1
<1>21. HeldBytes(d, b)
  <2> SUFFICES ASSUME NEW k \in 0..(d.cnt - 1) PROVE IsHeldByte(k, b[k])
    BY DEF HeldBytes
  <2>1. k \in Nat /\ k < n + m
    BY <1>13, <1>15, <1>19
  <2>2. CASE k < n
    <3>1. k \in 0..(n - 1)
      BY <1>19, <2>1, <2>2
    <3>2. IsHeldByte(k, got[k])
      BY <1>1, <1>15, <3>1 DEF HeldInv, HeldBytes
    <3> QED BY <1>20, <3>1, <3>2
  <2>3. CASE ~(k < n)
    <3>1. k \in n..(n + m - 1)
      BY <1>19, <2>1, <2>3
    <3>2. PICK a : a = b[k]
      OBVIOUS
    <3>3. a = e.base + (k - before)
      BY <1>7, <1>9, <1>10, <1>15, <1>16, <1>20, <2>1, <3>1, <3>2
    <3>4. before <= k /\ k < before + h
      BY <1>7, <1>9, <1>10, <1>11, <1>15, <2>1, <2>3
    <3>5. IsHeldByte(k, a)
      BY <1>3, <1>4, <1>5, <1>8, <3>3, <3>4 DEF IsHeldByte, HeldTo, HeldOf
    <3> QED BY <3>2, <3>5
  <2> QED BY <2>2, <2>3
<1> QED BY <1>12, <1>14, <1>17, <1>21

LEMMA ReturnedHeld ==
  ASSUME NEW s \in StrType, NEW ret, NEW b, Standing(s), HeldBytes(s, b)
  PROVE  Standing(Returned(s, ret)) /\ HeldBytes(Returned(s, ret), b)
<1>1. PICK t : t = Returned(s, ret)
  OBVIOUS
<1>2. t.i = s.i /\ t.pos = s.pos /\ t.cnt = s.cnt
  BY <1>1 DEF Returned, StrType
<1> QED BY <1>1, <1>2 DEF Standing, HeldBytes

\* The stream is at the end of what the image holds of an extent, and goes on
\* with the next.
LEMMA NextHeld ==
  ASSUME Inv, NEW q \in StrType, NEW s, NEW b, q.i \in 1..Len(fe.extents),
         Standing(q), HeldBytes(q, b), q.pos = HeldOf(q.i),
         s = [q EXCEPT !.i = @ + 1, !.pos = 0]
  PROVE  Standing(s) /\ HeldBytes(s, b)
<1>1. s.i = q.i + 1 /\ s.pos = 0 /\ s.cnt = q.cnt /\ q.cnt \in Nat
  BY DEF StrType
<1>2. fe \in FileEntries /\ imageSize \in Nat
  BY FileEntriesAssumption DEF Inv, TypeOK
<1>3. Len(fe.extents) \in Nat
  BY <1>2, EntryFacts
<1>4. HeldTo(q.i) = HeldTo(q.i - 1) + HeldOf(q.i)
  BY <1>2, HeldToFacts
<1>5. HeldTo(q.i) = q.cnt
  BY <1>4 DEF Standing
<1>6. s.cnt = HeldTo(s.i - 1) + s.pos
  <2>1. s.i - 1 = q.i
    BY <1>1
  <2> QED BY <1>1, <1>5, <2>1
<1>7. s.i \in 1..(Len(fe.extents) + 1)
  BY <1>1, <1>3
<1>8. s.i <= Len(fe.extents) => s.pos <= HeldOf(s.i)
  <2>1. s.i <= Len(fe.extents) => s.i \in 1..Len(fe.extents)
    BY <1>7
  <2>2. s.i <= Len(fe.extents) => HeldOf(s.i) \in Nat
    BY <1>2, <2>1, HeldOfFacts
  <2> QED BY <1>1, <2>2
<1>9. Standing(s)
  BY <1>1, <1>6, <1>7, <1>8 DEF Standing
<1> QED BY <1>1, <1>9 DEF HeldBytes

LEMMA StreamKeepsHeld ==
  ASSUME Inv, HeldInv, (\E k \in ReadLens : StreamCall(k)) \/ StreamStep
  PROVE  HeldInv'
<1>1. /\ str \in StrType /\ fe \in FileEntries /\ imageSize \in Nat
      /\ str.pos \in Nat /\ str.i \in Nat /\ str.cnt \in Nat /\ str.want \in Nat
  BY FileEntriesAssumption DEF Inv, TypeOK, StrType
<1>2. Standing(str) /\ HeldBytes(str, got)
  BY DEF HeldInv
<1>3. ASSUME NEW k, StreamCall(k) PROVE HeldInv'
  <2>1. PICK s : s = [str EXCEPT !.pc = "reading", !.want = k, !.ret = "none"]
    OBVIOUS
  <2>2. s.i = str.i /\ s.pos = str.pos /\ s.cnt = str.cnt
    BY <1>1, <2>1 DEF StrType
  <2>3. Standing(s) /\ HeldBytes(s, got)
    BY <1>2, <2>2 DEF Standing, HeldBytes
  <2> QED BY <1>3, <2>1, <2>3, StrStepHeld DEF StreamCall
<1>4. CASE StreamEnd
  <2>1. Standing(Returned(str, "eof")) /\ HeldBytes(Returned(str, "eof"), got)
    BY <1>1, <1>2, ReturnedHeld
  <2> QED BY <1>4, <2>1, StrStepHeld DEF StreamEnd
<1>5. CASE StreamNext
  <2>1. str.i \in 1..Len(fe.extents) /\ str.pos = fe.extents[str.i].len
    BY <1>1, <1>2, <1>5, EntryFacts DEF StreamNext, Standing
  <2>2. str.pos = HeldOf(str.i)
    <3>1. str.pos <= HeldOf(str.i)
      BY <1>1, <1>2, <2>1, EntryFacts DEF Standing
    <3>2. HeldOf(str.i) \in Nat /\ HeldOf(str.i) <= fe.extents[str.i].len
      BY <1>1, <2>1, HeldOfFacts
    <3> QED BY <1>1, <2>1, <3>1, <3>2
  <2>3. PICK s : s = [str EXCEPT !.i = @ + 1, !.pos = 0]
    OBVIOUS
  <2>4. Standing(s) /\ HeldBytes(s, got)
    BY <1>1, <1>2, <2>1, <2>2, <2>3, NextHeld
  <2> QED BY <1>5, <2>3, <2>4, StrStepHeld DEF StreamNext
<1>6. ASSUME InSection, NEW m \in Nat, m <= Held, NEW ret,
             StrStep(Returned(Delivered(m), ret), Grown(m))
      PROVE  HeldInv'
  <2>1. Delivered(m) \in StrType
    BY <1>6, DeliverFacts
  <2>2. Standing(Delivered(m)) /\ HeldBytes(Delivered(m), Grown(m))
    BY <1>6, DeliveredHeld
  <2>3. /\ Standing(Returned(Delivered(m), ret))
        /\ HeldBytes(Returned(Delivered(m), ret), Grown(m))
    BY <2>1, <2>2, ReturnedHeld
  <2> QED BY <1>6, <2>3, StrStepHeld
<1>7. CASE StreamCopy
  <2>1. InSection /\ Asked \in Nat /\ Held = Asked
    BY <1>7, HeldFacts DEF StreamCopy
  <2>2. Asked <= Held
    BY <2>1
  <2> QED BY <1>6, <1>7, <2>1, <2>2 DEF StreamCopy
<1>8. CASE StreamCut
  <2>1. InSection /\ Held < Asked /\ Held \in Nat
    BY <1>8, HeldFacts DEF StreamCut
  <2>2. PICK m : m = Held
    OBVIOUS
  <2>3. PICK d : d = Delivered(m)
    OBVIOUS
  <2>4. d \in StrType /\ d.i = str.i /\ d.pos = str.pos + m /\ d.cnt = str.cnt + m
    BY <1>1, <2>1, <2>2, <2>3, DeliverFacts DEF Delivered, StrType
  <2>5. Standing(d) /\ HeldBytes(d, Grown(m))
    <3>1. m <= Held /\ m \in Nat
      BY <2>1, <2>2
    <3> QED BY <2>1, <2>3, <3>1, DeliveredHeld
  <2>6. d.i \in 1..Len(fe.extents) /\ d.pos = HeldOf(d.i)
    BY <2>1, <2>2, <2>4, SectionHeld
  <2>7. PICK s : s = [d EXCEPT !.i = @ + 1, !.pos = 0]
    OBVIOUS
  <2>8. Standing(s) /\ HeldBytes(s, Grown(m))
    BY <2>4, <2>5, <2>6, <2>7, NextHeld
  <2>9. s \in StrType
    <3>1. d.i + 1 \in Nat \ {0}
      BY <1>1, <2>4
    <3> QED BY <2>4, <2>7, <3>1 DEF StrType
  <2>10. CASE m = 0 /\ StrStep(s, got)
    <3>1. HeldBytes(s, got)
      <4>1. s.cnt = str.cnt
        BY <1>1, <2>4, <2>7, <2>10 DEF StrType
      <4> QED BY <1>2, <4>1 DEF HeldBytes
    <3> QED BY <2>8, <2>10, <3>1, StrStepHeld
  <2>11. CASE StrStep(Returned(s, IF s.i <= Len(fe.extents) THEN "nil" ELSE "eof"), Grown(m))
    <3>1. PICK ret : ret = IF s.i <= Len(fe.extents) THEN "nil" ELSE "eof"
      OBVIOUS
    <3>2. Standing(Returned(s, ret)) /\ HeldBytes(Returned(s, ret), Grown(m))
      BY <2>8, <2>9, ReturnedHeld
    <3> QED BY <2>11, <3>1, <3>2, StrStepHeld
  <2> QED BY <1>8, <2>2, <2>3, <2>7, <2>10, <2>11 DEF StreamCut
<1>9. ASSUME NEW m \in 0..str.want, StreamFail(m) PROVE HeldInv'
  <2>1. InSection /\ m \in Nat /\ StrStep(Returned(Delivered(m), "io"), Grown(m))
    BY <1>1, <1>9 DEF StreamFail
  <2>2. m <= Held
    BY <1>9, <2>1, HeldFacts DEF StreamFail
  <2> QED BY <1>6, <2>1, <2>2
<1> QED BY <1>3, <1>4, <1>5, <1>7, <1>8, <1>9 DEF StreamStep

LEMMA InitHeld == Init => HeldInv
<1> SUFFICES ASSUME Init PROVE HeldInv
  OBVIOUS
<1>1. /\ fe \in FileEntries /\ imageSize \in Nat
      /\ str.i = 1 /\ str.pos = 0 /\ str.cnt = 0
  BY FileEntriesAssumption DEF Init, StrInit
<1>2. Len(fe.extents) \in Nat /\ HeldTo(0) = 0
  BY <1>1, EntryFacts, HeldToFacts
<1>3. 1 <= Len(fe.extents) => HeldOf(1) \in Nat
  BY <1>1, <1>2, HeldOfFacts
<1>4. str.cnt = HeldTo(str.i - 1) + str.pos
  <2>1. str.i - 1 = 0
    BY <1>1
  <2> QED BY <1>1, <1>2, <2>1
<1> QED BY <1>1, <1>2, <1>3, <1>4 DEF HeldInv, Standing, HeldBytes

-----------------------------------------------------------------------------
(***************************************************************************)
(* The theorems.                                                           *)
(***************************************************************************)
LEMMA InitStream == Init => StreamInv /\ RfInv /\ LimitInv
<1> SUFFICES ASSUME Init PROVE StreamInv /\ RfInv /\ LimitInv
  OBVIOUS
<1>1. fe \in FileEntries /\ Len(fe.extents) \in Nat /\ StartOf(1) = 0
  BY EntryFacts, StartFacts DEF Init
<1>2. /\ str.i = 1 /\ str.pos = 0 /\ str.cnt = 0 /\ rf.pc = "idle"
      /\ str.left = Size /\ str.ret = "none"
  BY DEF Init, StrInit, RfInit
<1>3. 1 <= Len(fe.extents) => 0 <= fe.extents[1].len
  BY <1>1, EntryFacts
<1>4. 1 \in 1..(Len(fe.extents) + 1)
  BY <1>1
<1>5. Placed(str) /\ Prefix(str, got)
  BY <1>1, <1>2, <1>3, <1>4 DEF Placed, Prefix
<1>6. Limited(str)
  <2>1. Size \in Int
    BY <1>1, EntryFacts
  <2> QED BY <1>2, <2>1 DEF Limited
<1> QED BY <1>2, <1>5, <1>6 DEF StreamInv, RfInv, RfExact, LimitInv

\* What a step leaves alone keeps what is said of it.
LEMMA OthersKeepStream ==
  ASSUME StreamInv, LimitInv, HeldInv,
         fe' = fe, imageSize' = imageSize, str' = str, got' = got
  PROVE  StreamInv' /\ LimitInv' /\ HeldInv'
<1>1. StreamInv' /\ LimitInv'
  BY DEF StreamInv, ImageComplete, Placed, Prefix, StartOf, LimitInv, Limited, Over, Size
<1>2. HeldInv'
  BY DEF HeldInv, Standing, HeldBytes, HeldTo, HeldOf, IsHeldByte
<1> QED BY <1>1, <1>2

LEMMA OthersKeepRf ==
  ASSUME RfInv, fe' = fe, imageSize' = imageSize, rf' = rf, buf' = buf
  PROVE  RfInv'
  BY DEF RfInv, FileHead, RfExact, FilledTo, StartOf, BufLen, WholeTo, ImageComplete, Size

LEMMA ReadAtLeavesOthers ==
  ASSUME NEW c, NEW r, NEW b, CallStep(c, r, b)
  PROVE  UNCHANGED <<fe, imageSize, str, got, rf, buf>>
  BY DEF CallStep, image, strvars, rfvars

WaysInv == StreamInv /\ RfInv /\ LimitInv /\ HeldInv

LEMMA NextStream == Inv /\ WaysInv /\ [Next]_vars => WaysInv'
<1> SUFFICES ASSUME Inv, StreamInv, RfInv, LimitInv, HeldInv, [Next]_vars
             PROVE  StreamInv' /\ RfInv' /\ LimitInv' /\ HeldInv'
  BY DEF WaysInv
<1>1. ASSUME NEW c \in Callers, NEW want, NEW off, ReadAtCall(c, want, off)
      PROVE  StreamInv' /\ RfInv' /\ LimitInv' /\ HeldInv'
  <2>1. UNCHANGED <<fe, imageSize, str, got, rf, buf>>
    BY <1>1, ReadAtLeavesOthers DEF ReadAtCall
  <2> QED BY <2>1, OthersKeepStream, OthersKeepRf
<1>2. ASSUME NEW c \in Callers, ReadAtStep(c)
      PROVE  StreamInv' /\ RfInv' /\ LimitInv' /\ HeldInv'
  <2>1. \E r, b : CallStep(c, r, b)
    BY <1>2 DEF ReadAtStep, ReadAtReject, ReadAtInline, ReadAtEnter, ReadAtSkip,
                ReadAtCopy, ReadAtFail, ReadAtReturn, Return
  <2>2. UNCHANGED <<fe, imageSize, str, got, rf, buf>>
    BY <2>1, ReadAtLeavesOthers
  <2> QED BY <2>2, OthersKeepStream, OthersKeepRf
<1>3. CASE (\E k \in ReadLens : StreamCall(k)) \/ StreamStep
  <2>1. \E s, b : StrStep(s, b)
    BY <1>3 DEF StreamCall, StreamStep, StreamEnd, StreamNext, StreamCopy,
                StreamCut, StreamFail
  <2>2. fe' = fe /\ imageSize' = imageSize /\ rf' = rf /\ buf' = buf
    BY <2>1 DEF StrStep, image, rfvars
  <2> QED BY <1>3, <2>2, StreamKeeps, StreamKeepsLimit, StreamKeepsHeld, OthersKeepRf
<1>4. CASE ReadFileCall \/ ReadFileStep
  <2>1. \E r, b : RfStep(r, b)
    BY <1>4 DEF ReadFileCall, ReadFileStep, ReadFileExtent, ReadFileFail, ReadFileReturn
  <2>2. UNCHANGED <<fe, imageSize, str, got>>
    BY <2>1 DEF RfStep, image, strvars
  <2>3. RfInv'
    BY <1>4, CallExact, ExtentExact, ReturnExact DEF ReadFileStep
  <2> QED BY <2>2, <2>3, OthersKeepStream
<1>5. CASE Detach \/ UNCHANGED vars
  <2>1. UNCHANGED <<fe, imageSize, str, got, rf, buf>>
    BY <1>5 DEF Detach, vars, image, strvars, rfvars
  <2> QED BY <2>1, OthersKeepStream, OthersKeepRf
<1> QED BY <1>1, <1>2, <1>3, <1>4, <1>5 DEF Next

LEMMA StreamInvariance == Spec => []WaysInv
<1>1. Init => WaysInv
  BY InitStream, InitHeld DEF WaysInv
<1>2. Inv /\ WaysInv /\ [Next]_vars => WaysInv'
  BY NextStream
<1> QED BY <1>1, <1>2, Invariance, PTL DEF Spec

\* For every file, every image, cut short or not, and every sequence of Read
\* calls, with failures and a Detach between them, what the stream has
\* delivered is the beginning of what the image holds of the file, and of the
\* file itself if the image holds it all (udf/volume.go:232-253).
THEOREM StreamCorrect == Spec => []StreamIsAPrefix
<1>1. WaysInv => StreamIsAPrefix
  BY DEF WaysInv, StreamInv, Prefix, HeldInv, HeldBytes, StreamIsAPrefix
<1> QED BY <1>1, StreamInvariance, PTL

\* For every file, a ReadFile that succeeds returns the file's bytes at their
\* offsets, and zeros where no extent records any (udf/volume.go:208-230).
THEOREM ReadFileCorrect == Spec => []ReadFileIsExact
<1>1. WaysInv => ReadFileIsExact
  BY DEF WaysInv, RfInv, RfExact, ReadFileIsExact
<1> QED BY <1>1, StreamInvariance, PTL

\* For every file and every image, a stream read to its end and a ReadFile that
\* succeeded agree, byte by byte, and beyond the stream's end ReadFile's buffer
\* is the zero fill (udf/volume.go:208-253).
THEOREM WaysAgree == Spec => []StreamAgreesWithReadFile
<1>1. ASSUME Inv, WaysInv, str.ret = "eof", rf.pc = "done", rf.ret = "nil"
      PROVE  /\ ImageComplete
             /\ DOMAIN got \subseteq DOMAIN buf
             /\ \A k \in DOMAIN buf : buf[k] = IF k < str.cnt THEN got[k] ELSE Zero
  <2>1. /\ fe \in FileEntries /\ fe.total \in Nat /\ Len(fe.extents) \in Nat
        /\ str.cnt \in Nat /\ str.pos \in Nat /\ str.left \in Int /\ str.i \in Nat
        /\ Size \in Int /\ str.left = Size - str.cnt
        /\ fe.inline \/ str.left >= 0 \/ str.cnt = 0
        /\ got \in [0..(str.cnt - 1) -> Nat]
    BY <1>1, LimitFacts DEF WaysInv, Inv, TypeOK
  <2>a. ImageComplete /\ (fe.inline \/ Size = fe.total)
    BY <1>1 DEF WaysInv, RfInv, RfExact
  <2>2. Placed(str) /\ Prefix(str, got) /\ Over(str)
    BY <1>1, <2>a DEF WaysInv, StreamInv, LimitInv, Limited
  <2>3. /\ DOMAIN buf = 0..(BufLen - 1)
        /\ \A k \in DOMAIN buf :
             IF k < Covered(fe.extents) THEN IsByte(fe, k, buf[k]) ELSE buf[k] = Zero
    BY <1>1 DEF WaysInv, RfInv, RfExact
  <2>4. str.i > Len(fe.extents) => str.cnt = Covered(fe.extents)
    BY <2>1, <2>2, StartFacts DEF Placed
  <2>5. fe.inline => BufLen = Covered(fe.extents) /\ BufLen \in Nat
    <3> SUFFICES ASSUME fe.inline PROVE BufLen = Covered(fe.extents) /\ BufLen \in Nat
      OBVIOUS
    <3>1. Len(fe.extents) = 1 /\ fe.extents[1].len \in Nat
      BY <2>1, EntryFacts
    <3>2. StartOf(1) = 0 /\ StartOf(2) = StartOf(1) + fe.extents[1].len
          /\ StartOf(2) = Covered(fe.extents)
      BY <2>1, <3>1, StartFacts
    <3> QED BY <3>1, <3>2 DEF BufLen
  <2>6. ~fe.inline => BufLen = fe.total
    BY DEF BufLen
  <2>7. str.cnt <= BufLen /\ BufLen \in Nat
    BY <2>1, <2>2, <2>4, <2>5, <2>6, <2>a DEF Over
  <2>8. DOMAIN got \subseteq DOMAIN buf
    BY <2>1, <2>3, <2>7
  <2>9. ASSUME NEW k \in DOMAIN buf, k < str.cnt PROVE buf[k] = got[k]
    <3>1. k \in Nat /\ IsByte(fe, k, got[k])
      BY <2>1, <2>2, <2>3, <2>9 DEF Prefix
    <3>2. k < Covered(fe.extents)
      BY <2>1, <3>1, OneByte
    <3>3. IsByte(fe, k, buf[k])
      BY <2>3, <2>9, <3>2
    <3> QED BY <2>1, <3>1, <3>3, OneByte
  <2>10. ASSUME NEW k \in DOMAIN buf, ~(k < str.cnt) PROVE buf[k] = Zero
    <3>1. k \in Nat /\ k < BufLen
      BY <2>3, <2>7
    <3>2. str.cnt = Covered(fe.extents)
      BY <2>1, <2>2, <2>4, <2>6, <2>10, <2>a, <3>1 DEF Over
    <3> QED BY <2>3, <2>10, <3>2
  <2> QED BY <2>8, <2>9, <2>10, <2>a
<1>2. Inv /\ WaysInv => StreamAgreesWithReadFile
  BY <1>1 DEF StreamAgreesWithReadFile
<1> QED BY <1>2, Invariance, StreamInvariance, PTL
=============================================================================
