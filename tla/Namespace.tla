----------------------------- MODULE Namespace -----------------------------
(***************************************************************************)
(* What a mounted volume promises to one client: a fixed tree of names.    *)
(* Every call is answered once, from the tree, by the same entry whatever  *)
(* method asks.  How names are compared and directories are read is not    *)
(* said.  Reads may fail: of what the call was looking at, or of the own   *)
(* entry of some child, which is then missing from the answer; and memory  *)
(* may be too small for an entry the path leads along.                     *)
(***************************************************************************)
EXTENDS Integers, Sequences

CONSTANTS
  At(_, _),      \* At(v, q): the set of the entry at path q of volume v, or {}
  AnyAt(_, _),   \* AnyAt(v, q): the entries q may lead to without some others
  Entries(_, _), \* Entries(v, e): the entries of the directory e of volume v
  TooLarge(_, _) \* TooLarge(v, q): q may lead along an entry larger than memory

VARIABLES
  volume,      \* the volume
  exchange     \* the client's call and, once given, the answer

\* s is r with some elements left out.
Thinned(s, r) ==
  \E kept \in SUBSET DOMAIN r :
    \E at \in [DOMAIN s -> kept] :
      /\ \A i, j \in DOMAIN s : i < j => at[i] < at[j]
      /\ \A i \in DOMAIN s : s[i] = r[at[i]]

First(s, n) == IF 0 < n /\ n < Len(s) THEN SubSeq(s, 1, n) ELSE s

Ok(val) == [st |-> "ok", val |-> val]

Listing(x) == x.op \in {"ReadDir", "HandleReadDir"}

\* A directory may be listed, and the root whatever it is.
MayList(x, e) == e.isDir \/ (x.op = "ReadDir" /\ x.path = <<>>)

\* The answer for the entry e.
Of(x, e) ==
  CASE x.op = "ReadFile" ->
         IF e.isDir THEN x.ret.st = "is_dir" ELSE x.ret = Ok(<<e.node>>)
    [] Listing(x) ->
         \/ MayList(x, e) /\ x.ret = Ok(First(Entries(volume, e), x.count))
         \/ ~e.isDir /\ x.ret.st = "not_dir"
    [] x.op = "Readlink" ->
         IF e.rrIsLink THEN x.ret = Ok(e.rrTarget)
         ELSE x.ret.st \in {"not_link", "unsupported"}
    [] OTHER -> x.ret = Ok(<<e>>)

Absent(x) == x.ret.st \in {"not_exist", "not_dir", "invalid", "unsupported"}

\* The answer is what the tree has at the path.
Right(x) ==
  IF At(volume, x.path) = {} THEN Absent(x)
  ELSE \A e \in At(volume, x.path) : Of(x, e)

\* A listing of e that lacks some of its entries.
Lacks(x, e) ==
  /\ Listing(x) /\ MayList(x, e) /\ x.ret.st = "ok"
  /\ Thinned(x.ret.val, Entries(volume, e))
  /\ x.count > 0 => Len(x.ret.val) <= x.count

\* What an answer may be when some child's entry was not read: that of an
\* entry the path leads to without that child, lacking it in a listing, or that
\* there is none.
Lacking(x) ==
  \/ x.ret.st \in {"not_exist", "not_dir"}
  \/ \E e \in AnyAt(volume, x.path) : Of(x, e) \/ Lacks(x, e)

Justified(x) ==
  CASE x.failed = "none"  -> Right(x)
    [] x.failed = "entry" -> Lacking(x)
    [] x.failed = "read"  -> x.ret.st = "io"
    [] x.failed = "memory" -> x.ret.st = "panic" /\ TooLarge(volume, x.path)

Init == exchange.st = "quiet"

Ask == exchange.st \in {"quiet", "answered"} /\ exchange'.st = "asked"

Answer ==
  /\ exchange'.st = "answered" /\ exchange'.op = exchange.op
  /\ exchange'.path = exchange.path /\ exchange'.count = exchange.count
  /\ Justified(exchange')

\* An answer that needs no read is given in the step of the call.
AskAndAnswer == exchange'.st = "answered" /\ Justified(exchange')

Next ==
  /\ UNCHANGED volume
  /\ Ask \/ (exchange.st = "asked" /\ Answer)
         \/ (exchange.st \in {"quiet", "answered"} /\ AskAndAnswer)

Spec == Init /\ [][Next]_<<volume, exchange>>
=============================================================================
