------------------------------- MODULE MCDisc -------------------------------
(***************************************************************************)
(* Disc on images with up to two volume descriptors, then a terminator   *)
(* and the UDF recognition sequence.  The roots of the layers are chosen   *)
(* so that every layer may be the first that lists an entry.               *)
(***************************************************************************)
EXTENDS Disc, SequencesExt

S(id, type, joliet, susp, root) ==
  [id |-> id, type |-> type, joliet |-> joliet, susp |-> susp, root |-> root]

Descriptors ==
  { S("CD001", "primary", FALSE, FALSE, "entries"),
    S("CD001", "primary", FALSE, TRUE, "empty"),
    S("CD001", "supp", TRUE, FALSE, "entries"),
    S("CD001", "supp", TRUE, FALSE, "error"),
    S("CD001", "supp", FALSE, FALSE, "entries"),
    S("CD001", "other", FALSE, FALSE, "error") }

Terminator == S("CD001", "terminator", FALSE, FALSE, "error")
Foreign(id, type) == S(id, type, FALSE, FALSE, "error")

\* The last one has no terminator before the UDF sequence, and a byte 0 there
\* that findVD takes for one.
Tails ==
  { <<Terminator, Foreign("BEA01", "other"), Foreign("NSR", "other")>>,
    <<Foreign("BEA01", "other"), Foreign("NSR", "terminator"), Terminator>> }

MCImages ==
  { [sectors |-> s \o t, anchor |-> TRUE, udf |-> u] :
      s \in SeqOf(Descriptors, 2), t \in Tails, u \in Listing \cup {"unopenable"} }
=============================================================================
