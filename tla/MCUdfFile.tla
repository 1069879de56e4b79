----------------------------- MODULE MCUdfFile -----------------------------
(***************************************************************************)
(* UdfFile on small file entries.  An entry is written as its extents      *)
(* <<base, len>>; Start computes the logical offsets.                      *)
(***************************************************************************)
EXTENDS UdfFile, FiniteSetsExt

Start(e, j) == MapThenSumSet(LAMBDA i : e[i][2], 1..(j - 1))

Entry(inline, total, e) ==
  [inline |-> inline, total |-> total,
   extents |-> [j \in 1..Len(e) |->
                  [base |-> e[j][1], len |-> e[j][2], start |-> Start(e, j)]]]

MCFileEntries ==
  { Entry(FALSE, 3, << <<3, 2>>, <<1, 1>> >>),            \* out of disk order
    Entry(FALSE, 3, << <<0, 1>>, <<4, 1>>, <<2, 2>> >>),  \* padded last extent
    Entry(FALSE, 3, << <<2, 2>> >>),                      \* a tail no extent records
    Entry(FALSE, 5, << <<0, 2>> >>),                      \* longer than make can give
    Entry(FALSE, 9, << <<3, 1>>, <<0, 1>> >>),            \* a length that is no int64
    Entry(FALSE, 0, <<>>),                                \* an empty file
    Entry(TRUE,  3, << <<1, 3>> >>),                      \* inline data
    Entry(TRUE,  3, << <<1, 1>> >>),                      \* inline data cut short
    Entry(TRUE,  9, << <<1, 2>> >>) }                     \* and with no int64 length

CONSTANTS c1, c2

\* The second goroutine calls ReadAt only while the handle's other readers are
\* at rest: pairs of ReadAt calls, and ReadAt beside the others, in one run.
Bounded == call[c2] = Idle \/ (str = StrInit /\ rf = RfInit)
=============================================================================
