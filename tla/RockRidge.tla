----------------------------- MODULE RockRidge -----------------------------
(***************************************************************************)
(* Directory records of an ISO 9660 view: parseRecord (iso9660/dirent.go), *)
(* the Rock Ridge fields in a record's System Use Area                     *)
(* (iso9660/rockridge.go), and the name an entry goes by.                  *)
(*                                                                         *)
(* A name is a sequence of characters, already decoded and without its     *)
(* version suffix.  A field is a record with its signature:                *)
(*   NM  text, and whether its flags say "." or ".."                       *)
(*   SL  the components as parts of a path, "" for the root; Cut stands    *)
(*       for a component that claims more bytes than the field has, and    *)
(*       the parts after it are those its own bytes are taken for          *)
(*   PX  the file type, as the set of mode bits it gives                   *)
(*   TF  the flag bits set, and the stamps recorded, in the order of the   *)
(*       bits, each known by the bit it belongs to                         *)
(*   Bad  a length below four or past the end of the area                  *)
(* An SL with no data at all, or a PX with too little, is "short".         *)
(***************************************************************************)
EXTENDS Integers, Sequences, SequencesExt, FiniteSets

CONSTANT Folded    \* the case folding of characters

Chars == DOMAIN Folded

Cut == "cut"

\* Stamps lie in the order of their flag bits, and those missing are the last.
InBitOrder(f) ==
  /\ ToSet(f.stamps) \subseteq f.flags
  /\ \A j, k \in DOMAIN f.stamps : j < k => f.stamps[j] < f.stamps[k]
  /\ \A b \in f.flags, k \in DOMAIN f.stamps : b < f.stamps[k] => b \in ToSet(f.stamps)

FieldType ==
  [sig : {"NM"}, special : BOOLEAN, text : Seq(Chars)]
  \cup [sig : {"SL"}, short : BOOLEAN, components : Seq(STRING)]
  \cup [sig : {"PX"}, short : BOOLEAN, mode : SUBSET {"dir", "symlink"}]
  \cup { f \in [sig : {"TF"}, flags : SUBSET (0..6), stamps : Seq(0..6)] : InBitOrder(f) }
  \cup [sig : {"CE", "Bad", "other"}]

Record(nodes) ==
  [name : Seq(Chars), isDir : BOOLEAN, node : nodes, sua : Seq(FieldType)]

\* A target whose text is empty: no part at all, or the root alone.
EmptyTarget(parts) == parts \in {<<>>, <<"">>}

-----------------------------------------------------------------------------
\* "." and ".." are skipped; the text of several fields is put together.
NM(e, f) == IF f.special THEN e ELSE [e EXCEPT !.rrName = @ \o f.text]

\* A component that is cut adds no part.
Added(parts, part) == IF part = Cut THEN parts ELSE Append(parts, part)

Parts(f) ==
  LET at[k \in 0..Len(f.components)] ==
        IF k = 0 THEN <<>> ELSE Added(at[k - 1], f.components[k])
  IN  at[Len(f.components)]

\* Mutant of SL: a link is one only when PX has said so before.
SLAfterPX(e, f) ==
  IF EmptyTarget(Parts(f)) \/ "symlink" \notin e.mode
  THEN [e EXCEPT !.rrTarget = <<>>]
  ELSE [e EXCEPT !.rrTarget = Parts(f), !.rrIsLink = TRUE]

\* Each field with data replaces the target; one with an empty target leaves
\* what an earlier one said of the type.
SL(e, f) ==
  IF f.short THEN e
  ELSE IF EmptyTarget(Parts(f)) THEN [e EXCEPT !.rrTarget = <<>>]
  ELSE [e EXCEPT !.rrTarget = Parts(f), !.rrIsLink = TRUE,
                 !.mode = @ \cup {"symlink"}]

\* The type bits are replaced, not added to.
PX(e, f) == IF f.short THEN e ELSE [e EXCEPT !.mode = f.mode]

\* The stamps recorded lie one after the other: that of the modification,
\* bit 1, comes after that of the creation, bit 0, if there is one.
TF(e, f) ==
  LET k == Cardinality(f.flags \cap {0, 1})
  IN  IF 1 \in f.flags /\ k <= Len(f.stamps)
      THEN [e EXCEPT !.modTime = f.stamps[k]] ELSE e

\* "CE" and whatever else there is are skipped.
Field(e, f) ==
  CASE f.sig = "NM" -> NM(e, f)
    [] f.sig = "SL" -> SL(e, f)
    [] f.sig = "PX" -> PX(e, f)
    [] f.sig = "TF" -> TF(e, f)
    [] OTHER        -> e

\* The number of fields before the first that is malformed.
Sound(sua) ==
  LET bad == { k \in DOMAIN sua : sua[k].sig = "Bad" }
  IN  IF bad = {} THEN Len(sua) ELSE Min(bad) - 1

parseRockRidge(sua, e) ==
  LET at[k \in 0..Len(sua)] ==
        IF k = 0 THEN e ELSE Field(at[k - 1], sua[k])
  IN  at[Sound(sua)]

\* The record's own fields; modTime is the record's until TF replaces it.
Plain(rec) ==
  [name |-> rec.name, isDir |-> rec.isDir, node |-> rec.node,
   mode |-> IF rec.isDir THEN {"dir"} ELSE {}, modTime |-> -1,
   rrName |-> <<>>, rrTarget |-> <<>>, rrIsLink |-> FALSE]

parseRecord(rec, kind) ==
  IF kind = "rockridge" THEN parseRockRidge(rec.sua, Plain(rec)) ELSE Plain(rec)

effectiveName(e) == IF e.rrName # <<>> THEN e.rrName ELSE e.name

-----------------------------------------------------------------------------
Fold(name) == [k \in DOMAIN name |-> Folded[name[k]]]

\* Mutant of nameMatch: the name Rock Ridge gives is not looked at.
nameMatchPlain(kind, e, target) ==
  IF kind = "iso9660" THEN Fold(e.name) = Fold(target) ELSE e.name = target

nameMatch(kind, e, target) ==
  CASE kind = "iso9660"                        -> Fold(e.name) = Fold(target)
    [] kind = "rockridge" /\ e.rrName # <<>>   -> e.rrName = target
    [] OTHER                                   -> e.name = target

-----------------------------------------------------------------------------
Of(sua, sig) == { f \in ToSet(sua) : f.sig = sig }

\* An area as it should be written, but for the order: no field of a kind
\* twice, save names, and the fields agree with each other and the record.
WellFormed(rec) ==
  /\ Of(rec.sua, "Bad") = {}
  /\ \A j, k \in DOMAIN rec.sua :
       rec.sua[j].sig = rec.sua[k].sig /\ rec.sua[j].sig \in {"SL", "PX", "TF"} => j = k
  /\ \A f \in Of(rec.sua, "SL") :
       ~rec.isDir /\ ~f.short /\ Cut \notin ToSet(f.components) /\ ~EmptyTarget(f.components)
  /\ \A f \in Of(rec.sua, "PX") :
       ~f.short /\ f.mode = IF rec.isDir THEN {"dir"}
                            ELSE IF Of(rec.sua, "SL") # {} THEN {"symlink"} ELSE {}
  /\ \A f \in Of(rec.sua, "TF") : Len(f.stamps) = Cardinality(f.flags)

\* e says what the fields of a well-formed record say, in whatever order: the
\* type, the link and its target, and the modification time.
SaysWhatIsRecorded(rec, e) ==
  /\ e.rrIsLink = (Of(rec.sua, "SL") # {})
  /\ \A f \in Of(rec.sua, "SL") : e.rrTarget = f.components
  /\ e.mode = IF rec.isDir THEN {"dir"}
              ELSE IF e.rrIsLink THEN {"symlink"} ELSE {}
  /\ e.modTime = IF \E f \in Of(rec.sua, "TF") : 1 \in f.flags THEN 1 ELSE -1
=============================================================================
