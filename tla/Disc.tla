-------------------------------- MODULE Disc --------------------------------
(***************************************************************************)
(* The life of a Disc: Attach, then calls of Mount (mount.go), with or     *)
(* without a layer asked for, and of Detach (detach.go), which may fall    *)
(* between two reads of a Mount in another goroutine.  A read fails when   *)
(* the file is closed, and may fail at any other time.                     *)
(***************************************************************************)
EXTENDS Attach

VARIABLES
  handle,      \* the field f of the Disc: "file" or "nil"
  m,           \* the call of Mount: its locals and its result
  detached     \* history: the result of the last Detach, "none" before it

discVars == <<handle, m, detached>>
vars == <<attachVars, discVars>>

AllLayers == {"UDF", "Joliet", "RockRidge", "ISO9660"}

NoVolume == [layer |-> "none", vd |-> 0]

\* late: the call began after a Detach had succeeded.  failed: the layers a
\* read of which failed although the image holds what was read.
Unmounted ==
  [pc |-> "idle", want |-> "auto", i |-> 1, layer |-> "none", vd |-> 0,
   vol |-> NoVolume, late |-> FALSE, failed |-> {}]

MountTo(r) == m' = r /\ UNCHANGED <<attachVars, handle, detached>>

\* The volume readers share the file of the Disc as it was when the layer was
\* opened; once it is closed, or was nil then, no read succeeds.
CanRead == f = "open"

(***************************************************************************)
(* Mount                                                                   *)
(***************************************************************************)
\* openLayer, up to its first read: findVD answers sector 16 for the plain and
\* the Rock Ridge view, and scans for the Joliet one.
Opening(r, layer) ==
  [r EXCEPT !.layer = layer, !.vd = Start,
            !.pc = CASE layer = "UDF"    -> "udf"
                     [] layer = "Joliet" -> "find"
                     [] OTHER            -> "descriptor"]

\* Mutant of Failing: the next turn of the loop takes the same layer.
FailingAgain(r) ==
  IF r.want = "auto" THEN [r EXCEPT !.pc = "next"]
  ELSE [r EXCEPT !.pc = "done"]

\* After an error the automatic choice goes on with the next layer.
Failing(r) ==
  IF r.want = "auto" THEN [r EXCEPT !.pc = "next", !.i = @ + 1]
  ELSE [r EXCEPT !.pc = "done"]

\* Mutant of Opened: a layer that opens is taken without a look at its root.
OpenedUnlisted(r) ==
  [r EXCEPT !.pc = "done", !.vol = [layer |-> r.layer, vd |-> r.vd]]

\* A layer that is open: Mount still lists its root if the choice was its own.
Opened(r) ==
  IF r.want = "auto" THEN [r EXCEPT !.pc = "list"]
  ELSE [r EXCEPT !.pc = "done", !.vol = [layer |-> r.layer, vd |-> r.vd]]

Faulty(r) == Failing([r EXCEPT !.failed = @ \cup {r.layer}])

\* Mutant of MountCall: a layer asked for is opened whether it is listed or not.
MountCallUnlisted(want) ==
  /\ pc = "attached" /\ m.pc \in {"idle", "done"}
  /\ LET r == [Unmounted EXCEPT !.want = want, !.late = (handle = "nil")]
     IN  MountTo(IF want = "auto" THEN [r EXCEPT !.pc = "next"] ELSE Opening(r, want))

MountCall(want) ==
  /\ pc = "attached" /\ m.pc \in {"idle", "done"}
  /\ LET r == [Unmounted EXCEPT !.want = want, !.late = (handle = "nil")]
     IN  CASE want = "auto"  -> MountTo([r EXCEPT !.pc = "next"])
           [] want \in Found -> MountTo(Opening(r, want))
           [] OTHER          -> MountTo([r EXCEPT !.pc = "done"])

MountNext ==
  /\ m.pc = "next" /\ m.i <= Len(fses)
  /\ MountTo(Opening(m, fses[m.i]))

MountNone ==
  /\ m.pc = "next" /\ m.i > Len(fses)
  /\ MountTo([m EXCEPT !.pc = "done"])

\* udf.NewVolume, from the anchor to the root's file entry.
OpenUdf ==
  /\ m.pc = "udf" /\ CanRead
  /\ MountTo(IF image.udf = "unopenable" THEN Failing(m) ELSE Opened(m))

\* Mutant of FindJoliet: any supplementary descriptor is taken.
FindSupplementary ==
  /\ m.pc = "find" /\ CanRead /\ Has(m.vd)
  /\ LET s == At(m.vd)
     IN  MountTo(CASE s.type = "terminator" -> Failing(m)
                   [] s.type = "supp" /\ s.id = "CD001" ->
                        [m EXCEPT !.pc = "descriptor"]
                   [] OTHER -> [m EXCEPT !.vd = @ + 1])

\* Mutant of FindJoliet: the first supplementary descriptor decides.
FindFirstSupplementary ==
  /\ m.pc = "find" /\ CanRead /\ Has(m.vd)
  /\ LET s == At(m.vd)
     IN  MountTo(CASE s.type = "terminator" -> Failing(m)
                   [] s.type = "supp" /\ s.id = "CD001" ->
                        IF s.joliet THEN [m EXCEPT !.pc = "descriptor"] ELSE Failing(m)
                   [] OTHER -> [m EXCEPT !.vd = @ + 1])

\* One turn of the loop of findVD.  Unlike the probe it goes by the type of
\* a sector alone to recognise the terminator.
FindJoliet ==
  /\ m.pc = "find" /\ CanRead /\ Has(m.vd)
  /\ LET s == At(m.vd)
     IN  MountTo(CASE s.type = "terminator" -> Failing(m)
                   [] s.type = "supp" /\ s.id = "CD001" /\ s.joliet ->
                        [m EXCEPT !.pc = "descriptor"]
                   [] OTHER -> [m EXCEPT !.vd = @ + 1])

\* iso9660.NewVolume reads the descriptor; it does not look at its identifier.
ReadDescriptor ==
  /\ m.pc = "descriptor" /\ CanRead /\ Has(m.vd)
  /\ MountTo(Opened(m))

RootOf(r) == IF r.layer = "UDF" THEN image.udf ELSE At(r.vd).root

\* Only a root that lists at least one entry is taken.
ListRoot ==
  /\ m.pc = "list" /\ CanRead
  /\ MountTo(IF RootOf(m) = "entries"
             THEN [m EXCEPT !.pc = "done", !.vol = [layer |-> m.layer, vd |-> m.vd]]
             ELSE Failing(m))

MountFault ==
  /\ m.pc \in {"udf", "find", "descriptor", "list"}
  /\ MountTo(IF m.pc \in {"find", "descriptor"} /\ ~Has(m.vd)
             THEN Failing(m) ELSE Faulty(m))

(***************************************************************************)
(* Detach                                                                  *)
(***************************************************************************)
\* Mutant of Detach: the field is cleared and the file is never closed.
DetachForgets ==
  /\ pc = "attached"
  /\ handle' = "nil" /\ detached' = "nil"
  /\ UNCHANGED <<image, f, pc, probing, fses, m>>

\* Close releases the descriptor even when it reports an error, and a second
\* Close of the same file reports one; only a Close without one clears d.f.
Detach ==
  /\ pc = "attached"
  /\ \/ handle = "nil" /\ detached' = "nil" /\ UNCHANGED <<handle, f>>
     \/ /\ handle = "file" /\ f = "open"
        /\ f' = "closed" /\ handle' = "nil" /\ detached' = "nil"
     \/ /\ handle = "file"
        /\ f' = "closed" /\ handle' = handle /\ detached' = "error"
  /\ UNCHANGED <<image, pc, probing, fses, m>>

Init == AttachInit /\ handle = "file" /\ m = Unmounted /\ detached = "none"

MountStep ==
  \/ MountNext \/ MountNone \/ OpenUdf \/ FindJoliet \/ ReadDescriptor
  \/ ListRoot \/ MountFault

AttachStep == AttachNext /\ UNCHANGED discVars

Next ==
  \/ AttachStep
  \/ \E want \in AllLayers \cup {"auto"} : MountCall(want)
  \/ MountStep
  \/ Detach

DiscSpec == Init /\ [][Next]_vars

\* Both calls go on, and not only because a read that could succeed fails.
Sound == CanRead => m'.failed = m.failed

FairDiscSpec ==
  /\ DiscSpec
  /\ WF_vars(AttachStep /\ UNCHANGED faults)
  /\ WF_vars(MountStep /\ Sound)

-----------------------------------------------------------------------------
DiscTypeOK ==
  /\ handle \in {"file", "nil"}
  /\ detached \in {"none", "nil", "error"}
  /\ m \in [pc : {"idle", "next", "udf", "find", "descriptor", "list", "done"},
            want : AllLayers \cup {"auto"}, i : Nat, layer : AllLayers \cup {"none"},
            vd : Nat, vol : [layer : AllLayers \cup {"none"}, vd : Nat],
            late : BOOLEAN, failed : SUBSET AllLayers]
  /\ m.pc \in {"udf", "find", "descriptor", "list"} => m.layer \in Found

\* The descriptor a view is made from: sector 16, or the first Joliet
\* descriptor of the set.
FirstJoliet(n) == IsJoliet(n) /\ \A k \in Sectors : IsJoliet(k) => n <= k

\* What a listing of the layer's root yields on this image.
Content(layer) ==
  CASE layer = "UDF"    -> image.udf
    [] layer = "Joliet" -> At(CHOOSE n \in Sectors : FirstJoliet(n)).root
    [] OTHER            -> At(Start).root

Automatic == m.pc = "done" /\ m.want = "auto"

\* Mount without an argument gives the best layer that lists an entry: the
\* volume lists one, every layer before it in the list has no entries, or a
\* read of it failed, and an error is returned only if that is so of all of
\* them (mount.go:46-67).
MountPicksBest ==
  Automatic =>
    /\ m.vol # NoVolume => Content(m.vol.layer) = "entries"
    /\ \A i \in 1..Len(fses) :
         (\A j \in 1..i : fses[j] # m.vol.layer) =>
           Content(fses[i]) # "entries" \/ fses[i] \in m.failed

\* Every layer Attach lists can be mounted by name: findVD finds what the
\* probe found, though it scans by other rules, and only a failed read or an
\* unusable UDF structure stands in the way (attach.go:47-59, mount.go:70-83).
ListedLayersOpen ==
  m.pc = "done" /\ m.want \in Found =>
    \/ m.vol.layer = m.want
    \/ m.want \in m.failed
    \/ m.want = "UDF" /\ image.udf = "unopenable"

\* A Joliet volume is a view of the first Joliet descriptor of the set, never
\* of a sector beyond its end (iso9660/volume.go:81-97).
JolietIsItsDescriptor ==
  m.vol.layer = "Joliet" => FirstJoliet(m.vol.vd)

\* A file that Detach has released stays released, and Mount gives no volume
\* to a call that began after it; a Detach that answers nil has released it
\* (detach.go:7-16).
NothingAfterDetach ==
  /\ detached # "none" => f = "closed"
  /\ handle = "nil" => f = "closed"
  /\ m.late => m.vol = NoVolume

\* Mount returns, though findVD has no bound and a layer may keep failing.
MountReturns == m.pc \notin {"idle", "done"} ~> m.pc = "done"
=============================================================================
