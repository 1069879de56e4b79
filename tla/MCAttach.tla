------------------------------ MODULE MCAttach ------------------------------
(***************************************************************************)
(* Attach on every image of up to four sectors taken from a set that holds *)
(* one sector for each path through the two probes.                        *)
(***************************************************************************)
EXTENDS Attach, SequencesExt

S(id, type, joliet, susp, root) ==
  [id |-> id, type |-> type, joliet |-> joliet, susp |-> susp, root |-> root]

Primary == S("CD001", "primary", FALSE, FALSE, "entries")
RockRidgePrimary == S("CD001", "primary", FALSE, TRUE, "entries")
JolietSupp == S("CD001", "supp", TRUE, FALSE, "entries")
PlainSupp == S("CD001", "supp", FALSE, FALSE, "entries")
Boot == S("CD001", "other", FALSE, FALSE, "error")
Terminator == S("CD001", "terminator", FALSE, FALSE, "error")
BEA == S("BEA01", "other", FALSE, FALSE, "error")
NSR == S("NSR", "other", FALSE, FALSE, "error")
TEA == S("TEA01", "other", FALSE, FALSE, "error")
Blank == S("other", "other", FALSE, FALSE, "error")

SectorKinds ==
  {Primary, RockRidgePrimary, JolietSupp, PlainSupp, Boot, Terminator,
   BEA, NSR, TEA, Blank}

MCImages ==
  [sectors : SeqOf(SectorKinds, 4), anchor : BOOLEAN, udf : {"entries"}]
=============================================================================
