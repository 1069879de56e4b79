------------------------------ MODULE ReaderAt ------------------------------
(***************************************************************************)
(* What an open UDF file promises to concurrent callers of ReadAt: every   *)
(* call is answered once, with a run of the file's own bytes that begins   *)
(* at the offset asked for, and an answer that stops before both the end   *)
(* of the buffer and the end of the file carries an error.  How the bytes  *)
(* are found is not said.                                                  *)
(***************************************************************************)
EXTENDS Integers

CONSTANTS
  Callers,         \* the goroutines that call ReadAt
  IsByte(_, _, _)  \* IsByte(f, k, a): a is byte k of file f

VARIABLES
  content,         \* the file, a record with its length in field total
  exchange         \* per caller, the request and, once given, the answer

Quiet == [st |-> "quiet", want |-> 0, off |-> 0, n |-> 0, out |-> <<>>,
          err |-> "none"]

\* The bytes of the answer are those at off, off + 1, ... of the file.
Genuine(x) ==
  /\ x.n <= x.want
  /\ x.n > 0 => x.off + x.n <= content.total
  /\ \A k \in 0..(x.n - 1) : IsByte(content, x.off + k, x.out[k])

\* Only an answer with an error may stop before the buffer or the file ends.
Complete(x) == x.err = "nil" => x.n = x.want \/ x.off + x.n = content.total

Init == exchange = [c \in Callers |-> Quiet]

Ask(c) ==
  /\ exchange[c].st \in {"quiet", "answered"}
  /\ exchange'[c].st = "asked"
  /\ exchange'[c].n = 0

Answer(c) ==
  /\ exchange[c].st = "asked"
  /\ exchange'[c].st = "answered"
  /\ exchange'[c].want = exchange[c].want
  /\ exchange'[c].off = exchange[c].off
  /\ Genuine(exchange'[c])
  /\ Complete(exchange'[c])

\* One caller's exchange moves; the others' stay as they are, and so does
\* the file.
Next ==
  /\ content' = content
  /\ \E c \in Callers :
       /\ Ask(c) \/ Answer(c)
       /\ \A d \in Callers \ {c} : exchange'[d] = exchange[d]

Spec == Init /\ [][Next]_<<content, exchange>>
=============================================================================
