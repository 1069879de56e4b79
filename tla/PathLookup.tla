----------------------------- MODULE PathLookup -----------------------------
(***************************************************************************)
(* The calls a client makes on a mounted volume by path: Stat, Open,       *)
(* ReadFile, ReadDir and Readlink of iso9660/volume.go and udf/volume.go,  *)
(* and ReadDir of an opened file.  Both packages walk the path from the    *)
(* root, reading one directory per element.  They part where the code      *)
(* does: an ISO 9660 record has the child's type and extent in it, a UDF   *)
(* file identifier only says where the child's own entry is, which has to  *)
(* be read too.                                                            *)
(*                                                                         *)
(* A directory is the sequence of its records (IsoDir says how readDir     *)
(* finds them); a node is an extent of the image, or the sector of a UDF   *)
(* file entry.  The information length of a UDF entry is whatever the disc *)
(* says: huge are the nodes, none of them inline, with one that no buffer  *)
(* can have.                                                               *)
(***************************************************************************)
EXTENDS RockRidge

CONSTANTS
  Volumes,   \* the mounted volumes
  Paths,     \* the paths clients pass, as sequences of names
  Counts     \* what clients pass to ReadDir of an open file

VARIABLES
  vol,       \* kind, root and nodes of the volume; never changes
  call,      \* the client's call: its locals and its answer
  handle,    \* the file opened last, with how it was opened, or <<>>
  seen       \* history: the last listing a ReadDir without failed read gave

vars == <<vol, call, handle, seen>>

Volume(v) ==
  /\ v.kind \in {"iso9660", "joliet", "rockridge", "udf"}
  /\ v.root \in DOMAIN v.nodes /\ v.huge \subseteq DOMAIN v.nodes
  /\ \A n \in DOMAIN v.nodes :
       /\ v.nodes[n].type \in {"dir", "file", "bad"}
       /\ v.nodes[n].records \in Seq(Record(DOMAIN v.nodes))

ASSUME VolumesAssumption ==
  /\ \A v \in Volumes : Volume(v)
  /\ Paths \subseteq Seq(Seq(Chars))
  /\ Counts \subseteq Int

IsUdf(v) == v.kind = "udf"

\* ReadFile and readDirEntries make a buffer of the entry's length before they
\* read anything of it, and make panics.
TooLong(v, n) == IsUdf(v) /\ n \in v.huge
Dot == <<".">>
DotDot == <<".", ".">>

\* One more element of a path, after the cleaned path q.
Cleaned(q, name) ==
  CASE name \in {<<>>, Dot} -> q
    [] name = DotDot        -> IF q = <<>> THEN q ELSE Front(q)
    [] OTHER                -> Append(q, name)

\* path.Clean of a rooted path.
Clean(path) ==
  LET at[k \in 0..Len(path)] ==
        IF k = 0 THEN <<>> ELSE Cleaned(at[k - 1], path[k])
  IN  at[Len(path)]

\* The entry lookup makes for the root itself.
RootEntry(v) ==
  LET isDir == IsUdf(v) => v.nodes[v.root].type = "dir"
  IN  [Plain([name |-> <<>>, node |-> v.root, isDir |-> isDir])
       EXCEPT !.mode = IF IsUdf(v) /\ isDir THEN {"dir"} ELSE {}]

\* What a UDF file identifier becomes: the type is the identifier's, the mode
\* that of the entry it points to.
UdfEntry(v, rec) ==
  [Plain(rec) EXCEPT !.mode = IF v.nodes[rec.node].type = "dir" THEN {"dir"} ELSE {}]

\* A UDF child is left out when it has no name, as the parent, or when its
\* entry cannot be read, because it is none or, for the records in lost, by a
\* failing read.
Kept(v, n, lost, k) ==
  LET rec == v.nodes[n].records[k]
  IN  k \notin lost /\ rec.name # <<>> /\ v.nodes[rec.node].type # "bad"

\* The places of the records that readDirEntries keeps, in their order.
KeptPlaces(v, n, lost) ==
  LET at[k \in 0..Len(v.nodes[n].records)] ==
        IF k = 0 THEN <<>>
        ELSE IF Kept(v, n, lost, k) THEN Append(at[k - 1], k) ELSE at[k - 1]
  IN  at[Len(v.nodes[n].records)]

\* The children that readDir or readDirEntries finds in node n.
Children(v, n, lost) ==
  LET records == v.nodes[n].records
      kept    == KeptPlaces(v, n, lost)
  IN  IF IsUdf(v) THEN [j \in DOMAIN kept |-> UdfEntry(v, records[kept[j]])]
      ELSE [k \in DOMAIN records |-> parseRecord(records[k], v.kind)]

\* The reads of children's entries that may fail while node n is read.
Losses(n) == IF IsUdf(vol) THEN SUBSET DOMAIN vol.nodes[n].records ELSE {{}}

\* The places of the children that answer to a name.
SameName(v, children, name) ==
  { j \in DOMAIN children : nameMatch(v.kind, children[j], name) }

\* Mutant of Found: the last child of that name.
FoundLast(children, name) ==
  LET same == SameName(vol, children, name)
  IN  IF same = {} THEN 0 ELSE Max(same)

\* The place of the first child of that name, 0 if there is none.
Found(children, name) ==
  LET same == SameName(vol, children, name)
  IN  IF same = {} THEN 0 ELSE Min(same)

\* Whether lookup goes on below an entry: for UDF it is the type of the file
\* entry that counts here, not the identifier's.
Enterable(v, e) == IF IsUdf(v) THEN v.nodes[e.node].type = "dir" ELSE e.isDir

-----------------------------------------------------------------------------
\* i is the number of names of the path that lookup has passed.
Idle == [op |-> "none", path |-> <<>>, count |-> 0, pc |-> "idle", i |-> 0,
         node |-> 0, failed |-> "none", ret |-> [st |-> "none", val |-> <<>>]]

\* Mutant of Answered: the call goes on after it has its answer.
AnsweredOn(c, st, val) == [c EXCEPT !.ret = [st |-> st, val |-> val]]

Answered(c, st, val) == [c EXCEPT !.pc = "done", !.ret = [st |-> st, val |-> val]]

\* What each method does with the entry that lookup gave it.
Given(c, e) ==
  CASE c.op = "ReadFile" ->
         IF e.isDir THEN Answered(c, "is_dir", <<>>)
         ELSE [c EXCEPT !.pc = "read", !.node = e.node]
    [] c.op = "ReadDir" ->
         IF e.isDir THEN [c EXCEPT !.pc = "list", !.node = e.node]
         ELSE Answered(c, "not_dir", <<>>)
    [] c.op = "Readlink" ->
         IF e.rrIsLink THEN Answered(c, "ok", e.rrTarget)
         ELSE Answered(c, "not_link", <<>>)
    [] OTHER -> Answered(c, "ok", <<e>>)

\* A step of the call that leaves it at c; an Open that succeeds gives a handle.
Step(c) ==
  /\ call' = c
  /\ handle' = IF c.op = "Open" /\ c.ret.st = "ok"
               THEN <<[path |-> c.path, e |-> c.ret.val[1], failed |-> c.failed]>>
               ELSE handle
  /\ UNCHANGED vol

Ready == call.pc \in {"idle", "done"}

\* Readlink is for Rock Ridge alone, and ReadDir of the root looks nothing up.
\* The root's entry is made up on ISO 9660, read on UDF.
Call(op, path) ==
  LET c == [Idle EXCEPT !.op = op, !.path = Clean(path), !.node = vol.root]
  IN  /\ Ready /\ UNCHANGED seen
      /\ Step(IF op = "Readlink" /\ vol.kind # "rockridge"
              THEN Answered(c, "unsupported", <<>>)
              ELSE IF op = "ReadDir" /\ path \in {<<>>, <<Dot>>}
              THEN [c EXCEPT !.pc = "list"]
              ELSE IF c.path = <<>> /\ ~IsUdf(vol) THEN Given(c, RootEntry(vol))
              ELSE [c EXCEPT !.pc = "lookup"])

HandleReadDir(n) ==
  /\ Ready /\ handle # <<>> /\ UNCHANGED seen
  /\ LET c == [Idle EXCEPT !.op = "HandleReadDir", !.path = handle[1].path,
                           !.count = n, !.node = handle[1].e.node,
                           !.failed = handle[1].failed]
     IN  Step(IF handle[1].e.isDir THEN [c EXCEPT !.pc = "list"]
              ELSE Answered(c, "not_dir", <<>>))

\* The call with a note of the reads that failed on the way, those of the Open
\* of a handle included.
Noting(lost) ==
  IF lost = {} THEN call ELSE [call EXCEPT !.failed = "entry"]

\* A UDF file entry is read before anything is done with the node.
Unparsable == IsUdf(vol) /\ vol.nodes[call.node].type = "bad"

LookupInvalid ==
  /\ call.pc \in {"lookup", "list"} /\ Unparsable
  /\ Step(Answered(call, "invalid", <<>>)) /\ UNCHANGED seen

LookupRoot ==
  /\ call.pc = "lookup" /\ ~Unparsable /\ call.i = Len(call.path)
  /\ Step(Given(call, RootEntry(vol))) /\ UNCHANGED seen

\* Only UDF finds out here, when the node's own entry has been read.
LookupNotDir ==
  /\ call.pc = "lookup" /\ IsUdf(vol) /\ vol.nodes[call.node].type = "file"
  /\ call.i < Len(call.path)
  /\ Step(Answered(call, "not_dir", <<>>)) /\ UNCHANGED seen

InDirectory ==
  /\ call.pc = "lookup" /\ call.i < Len(call.path)
  /\ IsUdf(vol) => vol.nodes[call.node].type = "dir"

\* There is a buffer for what the call reads of its node.
Held == ~TooLong(vol, call.node)

\* The name lookup is at.
Part == call.path[call.i + 1]

LookupAbsent(lost) ==
  /\ InDirectory /\ Held /\ Found(Children(vol, call.node, lost), Part) = 0
  /\ Step(Answered(Noting(lost), "not_exist", <<>>)) /\ UNCHANGED seen

LookupNext(lost) ==
  /\ InDirectory /\ Held
  /\ LET children == Children(vol, call.node, lost)
         k        == Found(children, Part)
         c        == Noting(lost)
     IN  /\ k # 0
         /\ Step(IF c.i + 1 = Len(c.path) THEN Given(c, children[k])
                 ELSE IF IsUdf(vol) \/ children[k].isDir
                 THEN [c EXCEPT !.i = @ + 1, !.node = children[k].node]
                 ELSE Answered(c, "not_dir", <<>>))
  /\ UNCHANGED seen

\* What ReadDir of an open file keeps of the entries.
FirstOf(s, n) == IF n > 0 /\ n < Len(s) THEN SubSeq(s, 1, n) ELSE s

\* A listing is the whole directory, or its first entries: an open directory
\* keeps no position.
List(lost) ==
  /\ call.pc = "list" /\ ~Unparsable /\ Held
  /\ LET entries == FirstOf(Children(vol, call.node, lost), call.count)
     IN  /\ Step(Answered(Noting(lost), "ok", entries))
         /\ seen' = IF call.op = "ReadDir" /\ lost = {} /\ call.failed = "none"
                    THEN [path |-> call.path, node |-> call.node, entries |-> entries]
                    ELSE seen

\* The file's content stands for itself as its node (see UdfFile for UDF).
Read ==
  /\ call.pc = "read" /\ Held
  /\ Step(Answered(call, "ok", <<call.node>>)) /\ UNCHANGED seen

MakePanics ==
  /\ InDirectory \/ (call.pc \in {"list", "read"} /\ ~Unparsable)
  /\ ~Held
  /\ Step(Answered([call EXCEPT !.failed = "memory"], "panic", <<>>)) /\ UNCHANGED seen

\* A read of a directory's extent, of a file's, or of a UDF entry on the path.
ReadFails ==
  /\ ~Ready
  /\ Step(Answered([call EXCEPT !.failed = "read"], "io", <<>>)) /\ UNCHANGED seen

Init ==
  /\ vol \in Volumes
  /\ call = Idle /\ handle = <<>>
  /\ seen = [path |-> <<>>, node |-> vol.root, entries |-> <<>>]

Methods == {"Stat", "Open", "ReadFile", "ReadDir", "Readlink"}

Next ==
  \/ \E op \in Methods, path \in Paths : Call(op, path)
  \/ \E n \in Counts : HandleReadDir(n)
  \/ LookupInvalid \/ LookupRoot \/ LookupNotDir
  \/ \E lost \in Losses(call.node) : LookupAbsent(lost) \/ LookupNext(lost) \/ List(lost)
  \/ Read \/ MakePanics \/ ReadFails

Spec == Init /\ [][Next]_vars

-----------------------------------------------------------------------------
\* The call is at a place of its path, a handle and a listing are of nodes of
\* the volume, and an answer is there when the call is over.
TypeOK ==
  /\ vol \in Volumes
  /\ call.op \in Methods \cup {"none", "HandleReadDir"}
  /\ call.path \in Seq(Seq(Chars)) /\ call.i \in 0..Len(call.path)
  /\ call.pc \in {"idle", "lookup", "list", "read", "done"}
  /\ call.pc = "lookup" /\ call.i = Len(call.path) => IsUdf(vol) /\ call.path = <<>>
  /\ call.node \in DOMAIN vol.nodes \cup {0}
  /\ call.failed \in {"none", "entry", "read", "memory"} /\ (call.failed = "entry" => IsUdf(vol))
  /\ (call.pc = "done") = (call.ret.st # "none")
  /\ handle # <<>> => handle[1].e.node \in DOMAIN vol.nodes
  /\ seen.path \in Seq(Seq(Chars)) /\ seen.node \in DOMAIN vol.nodes

\* e can be asked for: it has a name that survives path.Clean, and no other
\* entry of the listing answers to it.
Addressable(entries, k) ==
  /\ effectiveName(entries[k]) \notin {<<>>, Dot, DotDot}
  /\ \A j \in DOMAIN entries \ {k} :
       ~nameMatch(vol.kind, entries[j], effectiveName(entries[k]))

\* Listing and lookup agree: each entry a client sees in a listing, under the
\* name it sees there, is the entry that Stat of directory and name gives it,
\* unless a read fails or make panics.  A UDF directory that only its identifier calls one
\* can be listed and not be entered
\* (iso9660/volume.go:176-240, udf/volume.go:402-528).
ListedIsFound ==
  \A k \in DOMAIN seen.entries :
    /\ call.pc = "done" /\ call.op = "Stat" /\ call.failed = "none"
    /\ call.path = Append(seen.path, effectiveName(seen.entries[k]))
    /\ Addressable(seen.entries, k)
    /\ IsUdf(vol) => vol.nodes[seen.node].type = "dir"
    => call.ret = [st |-> "ok", val |-> <<seen.entries[k]>>]

\* Rock Ridge fields may come in any order: an entry of a listing whose record
\* has a well-formed area is a link, with its target, type and time, exactly
\* as the fields say together (iso9660/rockridge.go:21-129).
FieldsInAnyOrder ==
  vol.kind = "rockridge" =>
    \A k \in DOMAIN seen.entries :
      LET rec == vol.nodes[seen.node].records[k]
      IN  WellFormed(rec) => SaysWhatIsRecorded(rec, seen.entries[k])

(***************************************************************************)
(* The tree of names: the entry at path q is the first child, of the       *)
(* directory at the path before, whose name is the last of q.  Without the *)
(* children that were not read, it may be a later one.                     *)
(***************************************************************************)
Named(v, children, name, first) ==
  LET same == SameName(v, children, name)
  IN  { children[j] : j \in { j \in same : first => \A i \in same : j <= i } }

\* The entries below those of D that go by the name.
Below(v, D, name, first) ==
  UNION { Named(v, Children(v, d.node, {}), name, first) :
            d \in { d \in D : Enterable(v, d) } }

\* The entries at the first names of the path q.
Along(v, q, first) ==
  LET at[k \in 0..Len(q)] ==
        IF k = 0
        THEN IF IsUdf(v) /\ v.nodes[v.root].type = "bad" THEN {} ELSE {RootEntry(v)}
        ELSE Below(v, at[k - 1], q[k], first)
  IN  at

EntryAt(v, q) == Along(v, q, TRUE)[Len(q)]

AnyAt(v, q) == Along(v, q, FALSE)[Len(q)]

EntriesOf(v, e) == Children(v, e.node, {})

\* The names of q may lead along an entry that no buffer can hold.
HugeAlong(v, q) ==
  \E k \in 0..Len(q) : \E d \in Along(v, q, FALSE)[k] : TooLong(v, d.node)

\* What the client sees of its call.
Exchange ==
  [st     |-> CASE call.pc = "idle" -> "quiet"
                [] call.pc = "done" -> "answered"
                [] OTHER            -> "asked",
   op     |-> call.op, path |-> call.path, count |-> call.count,
   failed |-> IF call.pc = "done" THEN call.failed ELSE "none",
   ret    |-> call.ret]

Tree == INSTANCE Namespace WITH
  At <- EntryAt, Entries <- EntriesOf, TooLarge <- HugeAlong, volume <- vol, exchange <- Exchange

\* A volume is a fixed tree of names: whatever the method, the path and the
\* calls before, the answer is the tree's entry at the cleaned path, or an
\* error of a failed read, a panic only where an entry along the path is larger
\* than any buffer, and on UDF an answer may only be without a child whose own
\* entry was not read (iso9660/volume.go:120-240,
\* udf/volume.go:208-528).
ImplementsNamespace == Tree!Spec
=============================================================================
