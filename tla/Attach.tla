------------------------------- MODULE Attach -------------------------------
(***************************************************************************)
(* Attach (attach.go): the image file is opened and probed for layers,     *)
(* first along the ISO 9660 Volume Descriptor Set (iso9660/detect.go),     *)
(* then along the UDF Volume Recognition Sequence and the anchor           *)
(* (udf/detect.go).  Each read of a sector is a step of its own and may    *)
(* fail; a sector beyond the end of the image cannot be read at all.       *)
(***************************************************************************)
EXTENDS Integers, Sequences

CONSTANTS
  Images,      \* the images that may be attached
  Start,       \* the first sector of both sequences (16 in the code)
  ScanEnd      \* where the scan of the UDF sequence gives up (32 in the code)

VARIABLES
  image,       \* what is on the disc; never changes
  f,           \* the *os.File: "none", "open" or "closed"
  pc,          \* where the call of Attach is
  lba,         \* the sector the probe in progress reads next
  res,         \* the ProbeResult of iso9660.Probe
  foundBEA,    \* udf.Probe has met a BEA01 descriptor
  fses,        \* the layers found, in descending priority
  faults       \* history: the reads that failed, by what they were reading

probing == <<lba, res, foundBEA, faults>>
attachVars == <<image, f, pc, probing, fses>>

(***************************************************************************)
(* Images.  Of a sector the probes see its identifier (bytes 1 to 5), its  *)
(* type (byte 0), the Joliet escape sequence (bytes 88 to 119), and, of    *)
(* the directory the root record at byte 156 points to, whether its "."    *)
(* entry carries SUSP fields; root says what a listing of it yields.       *)
(***************************************************************************)
Listing == {"entries", "empty", "error"}

Sector ==
  [id : {"CD001", "BEA01", "NSR", "TEA01", "other"},
   type : {"primary", "supp", "terminator", "other"},
   joliet : BOOLEAN, susp : BOOLEAN, root : Listing]

\* sectors[k] is sector Start + k - 1, the last being the last of the image.
\* anchor: sector 256 is there and is a valid AVDP.  udf is what becomes of a
\* UDF volume opened on the image: its root listing, or "unopenable".
Image ==
  [sectors : Seq(Sector), anchor : BOOLEAN, udf : Listing \cup {"unopenable"}]

ASSUME ImagesAssumption ==
  /\ Images \subseteq Image
  /\ Start \in Nat
  /\ ScanEnd \in Nat
  /\ Start < ScanEnd

Has(n) == n \in Start..(Start + Len(image.sectors) - 1)

At(n) == image.sectors[n - Start + 1]

NoResult ==
  [HasISO9660 |-> FALSE, HasJoliet |-> FALSE, HasRockRidge |-> FALSE,
   PvdSector |-> 0, SvdSector |-> 0]

(***************************************************************************)
(* iso9660.Probe                                                           *)
(***************************************************************************)
Goto(place, n) ==
  /\ pc' = place /\ lba' = n
  /\ UNCHANGED <<image, f, fses>>

\* Mutant of GiveUp: the early return forgets the file.
GiveUpLeaking ==
  /\ pc' = "failed"
  /\ UNCHANGED <<image, f, lba, res, foundBEA, fses>>

\* A failed Attach closes the file again.
GiveUp ==
  /\ pc' = "failed" /\ f' = "closed"
  /\ UNCHANGED <<image, lba, res, foundBEA, fses>>

Magic == pc = "iso" /\ Has(lba) /\ At(lba).id = "CD001"

IsoPrimary ==
  /\ Magic /\ At(lba).type = "primary"
  /\ res' = [res EXCEPT !.HasISO9660 = TRUE, !.PvdSector = lba]
  /\ IF res.HasRockRidge THEN Goto("iso", lba + 1) ELSE Goto("root", lba)
  /\ UNCHANGED <<foundBEA, faults>>

\* probeRockRidge: the first sector of the root directory of this descriptor.
IsoRoot ==
  /\ pc = "root"
  /\ \/ /\ res' = [res EXCEPT !.HasRockRidge = At(lba).susp]
        /\ UNCHANGED faults
     \/ /\ faults' = faults \cup {"root"}
        /\ UNCHANGED res
  /\ Goto("iso", lba + 1)
  /\ UNCHANGED foundBEA

\* Mutant of IsoSupplementary: the sector of any supplementary descriptor is
\* recorded.
IsoSupplementaryAny ==
  /\ Magic /\ At(lba).type = "supp"
  /\ res' = [res EXCEPT !.HasJoliet = @ \/ At(lba).joliet, !.SvdSector = lba]
  /\ Goto("iso", lba + 1)
  /\ UNCHANGED <<foundBEA, faults>>

IsoSupplementary ==
  /\ Magic /\ At(lba).type = "supp"
  /\ res' = IF At(lba).joliet
            THEN [res EXCEPT !.HasJoliet = TRUE, !.SvdSector = lba] ELSE res
  /\ Goto("iso", lba + 1)
  /\ UNCHANGED <<foundBEA, faults>>

\* Mutant of IsoOther: a descriptor of no interest is read again.
IsoOtherAgain ==
  /\ Magic /\ At(lba).type = "other"
  /\ Goto("iso", lba)
  /\ UNCHANGED <<res, foundBEA, faults>>

IsoOther ==
  /\ Magic /\ At(lba).type = "other"
  /\ Goto("iso", lba + 1)
  /\ UNCHANGED <<res, foundBEA, faults>>

\* The terminator, or a sector that is no ISO 9660 descriptor.
IsoEnd ==
  /\ pc = "iso" /\ Has(lba)
  /\ At(lba).id = "CD001" => At(lba).type = "terminator"
  /\ Goto("udf", Start)
  /\ UNCHANGED <<res, foundBEA, faults>>

(***************************************************************************)
(* udf.Probe                                                               *)
(***************************************************************************)
Scanning == pc = "udf" /\ lba < ScanEnd /\ Has(lba)

UdfBegin ==
  /\ Scanning /\ At(lba).id = "BEA01"
  /\ foundBEA' = TRUE
  /\ Goto("udf", lba + 1)
  /\ UNCHANGED <<res, faults>>

\* Mutant of UdfFound: an NSR descriptor counts without a BEA01 before it.
UdfFoundAnywhere ==
  /\ Scanning /\ At(lba).id = "NSR"
  /\ Goto("anchor", lba)
  /\ UNCHANGED <<res, foundBEA, faults>>

UdfFound ==
  /\ Scanning /\ foundBEA /\ At(lba).id = "NSR"
  /\ Goto("anchor", lba)
  /\ UNCHANGED <<res, foundBEA, faults>>

UdfOther ==
  /\ Scanning
  /\ At(lba).id \in {"CD001", "other"} \/ (At(lba).id = "NSR" /\ ~foundBEA)
  /\ Goto("udf", lba + 1)
  /\ UNCHANGED <<res, foundBEA, faults>>

\* A read error before either probe has come to its answer.
ProbeFails ==
  /\ pc = "iso" \/ (pc = "udf" /\ lba < ScanEnd)
  /\ faults' = IF Has(lba) THEN faults \cup {pc} ELSE faults
  /\ GiveUp

(***************************************************************************)
(* Attach                                                                  *)
(***************************************************************************)
Layers(hasUDF) ==
  (IF hasUDF           THEN <<"UDF">>       ELSE <<>>) \o
  (IF res.HasJoliet    THEN <<"Joliet">>    ELSE <<>>) \o
  (IF res.HasRockRidge THEN <<"RockRidge">> ELSE <<>>) \o
  (IF res.HasISO9660   THEN <<"ISO9660">>   ELSE <<>>)

\* Mutant of Answer: an image without the ISO 9660 layer is rejected.
AnswerIsoOnly(hasUDF) ==
  \/ ~res.HasISO9660 /\ GiveUp
  \/ /\ res.HasISO9660
     /\ fses' = Layers(hasUDF) /\ pc' = "attached"
     /\ UNCHANGED <<image, f, lba, res, foundBEA>>

\* The answer of udf.Probe completes the list; an empty list is an error.
Answer(hasUDF) ==
  \/ Layers(hasUDF) = <<>> /\ GiveUp
  \/ /\ Layers(hasUDF) # <<>>
     /\ fses' = Layers(hasUDF) /\ pc' = "attached"
     /\ UNCHANGED <<image, f, lba, res, foundBEA>>

UdfAbsent ==
  /\ pc = "udf"
  /\ lba = ScanEnd \/ (Has(lba) /\ At(lba).id = "TEA01")
  /\ Answer(FALSE)
  /\ UNCHANGED faults

\* probeAnchor takes a failed read for the absence of an anchor.
UdfAnchor ==
  /\ pc = "anchor"
  /\ \/ Answer(image.anchor) /\ UNCHANGED faults
     \/ Answer(FALSE) /\ faults' = faults \cup {"anchor"}

OpenFile ==
  /\ pc = "called"
  /\ \/ f' = "open" /\ pc' = "iso"
     \/ f' = f /\ pc' = "failed"
  /\ lba' = Start
  /\ UNCHANGED <<image, res, foundBEA, fses, faults>>

AttachInit ==
  /\ image \in Images
  /\ f = "none" /\ pc = "called" /\ lba = Start
  /\ res = NoResult /\ foundBEA = FALSE /\ fses = <<>> /\ faults = {}

AttachNext ==
  \/ OpenFile
  \/ IsoPrimary \/ IsoRoot \/ IsoSupplementary \/ IsoOther \/ IsoEnd
  \/ UdfBegin \/ UdfFound \/ UdfOther \/ UdfAbsent \/ UdfAnchor
  \/ ProbeFails

Spec == AttachInit /\ [][AttachNext]_attachVars

\* Attach goes on, and not only because a read of what is there fails.
FairSpec == Spec /\ WF_attachVars(AttachNext /\ UNCHANGED faults)

-----------------------------------------------------------------------------
(***************************************************************************)
(* What the disc holds, said without the scans.                            *)
(***************************************************************************)
\* Sector n belongs to the descriptor set: no terminator and nothing foreign
\* up to it.
InVDS(n) ==
  /\ Has(n)
  /\ \A k \in Start..n : At(k).id = "CD001" /\ At(k).type # "terminator"

IsPrimary(n) == InVDS(n) /\ At(n).type = "primary"
IsJoliet(n) == InVDS(n) /\ At(n).type = "supp" /\ At(n).joliet

\* The sectors of a result are those of descriptors of their kind in the set.
Met(r) ==
  /\ r.HasISO9660 => IsPrimary(r.PvdSector)
  /\ r.HasJoliet => IsJoliet(r.SvdSector)

TypeOK ==
  /\ image \in Images
  /\ f \in {"none", "open", "closed"}
  /\ pc \in {"called", "iso", "root", "udf", "anchor", "attached", "failed"}
  /\ lba \in Nat
  /\ res \in [HasISO9660 : BOOLEAN, HasJoliet : BOOLEAN, HasRockRidge : BOOLEAN,
              PvdSector : Nat, SvdSector : Nat]
  /\ Met(res)
  /\ foundBEA \in BOOLEAN
  /\ fses \in Seq({"UDF", "Joliet", "RockRidge", "ISO9660"})
  /\ faults \subseteq {"iso", "root", "udf", "anchor"}

Sectors == Start..(Start + Len(image.sectors) - 1)

OnDisc ==
  { l \in {"UDF", "Joliet", "RockRidge", "ISO9660"} :
      CASE l = "ISO9660"   -> \E n \in Sectors : IsPrimary(n)
        [] l = "RockRidge" -> \E n \in Sectors : IsPrimary(n) /\ At(n).susp
        [] l = "Joliet"    -> \E n \in Sectors : IsJoliet(n)
        [] l = "UDF"       ->
             /\ image.anchor
             /\ \E b, n \in Sectors \cap 0..(ScanEnd - 1) :
                  /\ b < n /\ At(b).id = "BEA01" /\ At(n).id = "NSR"
                  /\ \A k \in Start..n : At(k).id # "TEA01" }

Found == { fses[i] : i \in 1..Len(fses) }

\* Attach lists exactly the layers the disc holds; a read that fails while a
\* root directory or the anchor is looked at can only hide Rock Ridge or UDF
\* (iso9660/detect.go:78-84, udf/detect.go:68-72), never invent a layer.
ListsWhatIsThere ==
  pc = "attached" =>
    /\ Found \subseteq OnDisc
    /\ "RockRidge" \in OnDisc \ Found => "root" \in faults
    /\ "UDF" \in OnDisc \ Found => "anchor" \in faults
    /\ OnDisc \ Found \subseteq {"RockRidge", "UDF"}

\* No failed Attach leaves the file open, no successful one has it closed:
\* Detach is the only thing that can release it later (attach.go:22-32).
NoLeakedFile ==
  /\ pc = "failed" => f # "open"
  /\ pc = "attached" => f = "open"

\* Attach rejects an image only because a read failed, because the image ends
\* before a probe has come to an answer, or because there is no layer on it.
RejectionIsJustified ==
  pc = "failed" /\ f = "closed" =>
    \/ faults # {}
    \/ Len(image.sectors) < ScanEnd - Start
    \/ \A n \in Sectors : InVDS(n)
    \/ OnDisc = {}

\* The scan of the descriptor set has no upper bound; it ends all the same.
AttachReturns == <>(pc \in {"attached", "failed"})
=============================================================================
