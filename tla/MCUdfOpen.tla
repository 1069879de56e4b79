----------------------------- MODULE MCUdfOpen -----------------------------
(***************************************************************************)
(* UdfOpen on images of seven sectors of 2048 bytes, the last maybe        *)
(* missing, with numbers below 8192: sectors 0 and 1 are blank, 2 is a     *)
(* file set, 3 the root's entry, and 4 to 6 hold the descriptors.          *)
(***************************************************************************)
EXTENDS UdfOpen

Desc(tag, loc, len) ==
  [tag |-> tag, loc |-> loc, len |-> len, fits |-> FALSE, ext |-> FALSE,
   inline |-> FALSE, maps |-> <<>>]

Blank == Desc(0, 0, 0)

\* File sets in place and, added up, beyond 2^32.
Descriptors ==
  {Desc(5, 1, 4), Desc(5, 2, 1), Desc(6, 1, 0), Desc(6, 2, 0), Desc(6, W - 1, 0),
   Desc(8, 0, 0), Blank}

\* What a third sector may still change.
Last == {Desc(5, 2, 1), Desc(8, 0, 0), Blank}

Entry(loc) == [Desc(261, loc, 0) EXCEPT !.fits = TRUE, !.ext = TRUE]

Entries ==
  {Desc(260, 0, 0), Desc(261, 2, 0), Entry(2), Entry(4), [Entry(4) EXCEPT !.inline = TRUE]}

\* The file set and the root's entry; the last root is beyond the image.
Roots ==
  {<<Desc(256, 2, 0), e>> : e \in Entries}
  \cup {<<Desc(256, 6, 0), Blank>>}

\* The anchor and the end of the image: an anchor that is none, a length that
\* wraps, and a sequence that the image cuts short.
Frames ==
  {<<Desc(2, 4, 3072), 6>>, <<Desc(2, 4, 6144), 6>>, <<Desc(0, 4, 6144), 6>>,
   <<Desc(2, 4, 7168), 6>>, <<Desc(2, 4, 6144), 5>>}

SectorsOf(r, a, b, c, end) ==
  [n \in 0..end |-> CASE n < 2 -> Blank
                      [] n = 2 -> r[1] [] n = 3 -> r[2]
                      [] n = 4 -> a [] n = 5 -> b [] n = 6 -> c]

Of(as, bs) ==
  { [anchored |-> TRUE, anchor |-> f[1], sectors |-> SectorsOf(r, a, b, c, f[2])] :
      f \in Frames, r \in Roots, a \in as, b \in bs, c \in Last }

MCImages ==
  Of(Descriptors, Descriptors)
  \cup { [anchored |-> FALSE, anchor |-> Blank, sectors |-> <<>>] }

Map(type, len) == [type |-> type, len |-> len]

\* Six maps of 255 bytes, one that ends at byte 1970 + len, and a last one.
Table(len, type) == [m \in 1..6 |-> Map(2, 255)] \o <<Map(2, len), Map(type, 6)>>

\* The last map ends with the sector, is cut at either end of what the guard
\* admits, is of the other type, begins too late, or comes after an empty one.
Tables ==
  {Table(72, 1), Table(73, 1), Table(76, 1), Table(76, 2), Table(77, 1),
   <<Map(1, 0)>> \o Table(76, 1)}

MCMapImages ==
  LET sets == { [Desc(6, 1, 0) EXCEPT !.maps = t] : t \in Tables }
  IN  Of(sets, {Desc(5, 1, 4), Desc(8, 0, 0)}) \cup Of({Desc(5, 1, 4)}, sets)

MCAllImages == MCImages \cup MCMapImages
=============================================================================
