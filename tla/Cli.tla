-------------------------------- MODULE Cli --------------------------------
(***************************************************************************)
(* One run of the command-line program (cmd/main.go), from its arguments   *)
(* to its exit status: the options, the choice of a layer, and the         *)
(* commands ls, cat and get.  The disc is seen as modules Attach and Disc  *)
(* leave it: a list of layers, each with what becomes of it when it is     *)
(* mounted and its root is listed, and with the paths it has.  Any call    *)
(* that reads the image may fail.                                          *)
(***************************************************************************)
EXTENDS Integers, Sequences

CONSTANTS
  CommandLines,  \* the arguments after the name of the image
  Discs          \* the discs the image may hold

VARIABLES
  line,        \* the arguments; never change
  disc,        \* what is on the image; never changes
  pc,          \* where the run is
  rest,        \* the arguments not parsed yet, then those of the command
  opt,         \* the options
  li,          \* the layer tried next, an index of fses
  vol,         \* the layer mounted, "none" before that
  faulty,      \* history: a call on the image, or the copying, failed
  opened,      \* history: the source of cat or get was opened
  done,        \* history: what has been printed or copied
  dst,         \* the destination of get: "old" until it is created
  exit         \* the error of run: "none" while it runs

env == <<line, disc>>
cmdvars == <<opened, done, dst>>
vars == <<env, pc, rest, opt, li, vol, faulty, cmdvars, exit>>

Layers == {"UDF", "Joliet", "RockRidge", "ISO9660"}

\* A layer that does not open, or whose root yields an error, no entry, or
\* entries.
Content == {"unopenable", "error", "empty", "entries"}

\* Of each layer, paths are those that can be opened, directories as well as
\* files, and dirs the directories that can be listed, without the root.

ASSUME DiscsAssumption ==
  /\ \A l \in CommandLines : l \in Seq(STRING)
  /\ \A d \in Discs :
       /\ d.fses \in Seq(Layers) /\ d.fses # <<>>
       /\ d.content \in [Layers -> Content]
       /\ d.paths \in [Layers -> SUBSET STRING]
       /\ d.dirs \in [Layers -> SUBSET STRING]

Found == { disc.fses[i] : i \in 1..Len(disc.fses) }

Arguments == { line[i] : i \in 1..Len(line) }

NoOptions == [info |-> FALSE, diagnose |-> FALSE, fs |-> FALSE, layer |-> ""]

\* The run ends with this error, or with "nil"; a deferred Detach runs.
Return(err) == pc' = "exit" /\ exit' = err

Fail == Return("error") /\ UNCHANGED <<rest, opt, li, vol, cmdvars>>

Fault == faulty' = TRUE /\ Fail

(***************************************************************************)
(* The options: flag.FlagSet.Parse stops at the first argument that is no  *)
(* option.                                                                 *)
(***************************************************************************)
IsOption(a) == a \in {"--info", "--diagnose", "--fs", "--layer", "--other"}

AtOption == rest # <<>> /\ IsOption(Head(rest))

Parsing == pc = "parse" /\ AtOption

Set(o, n) ==
  /\ opt' = o /\ rest' = SubSeq(rest, n + 1, Len(rest))
  /\ UNCHANGED <<env, pc, li, vol, faulty, cmdvars, exit>>

ParseSwitch ==
  /\ Parsing
  /\ \/ Head(rest) = "--info"     /\ Set([opt EXCEPT !.info = TRUE], 1)
     \/ Head(rest) = "--diagnose" /\ Set([opt EXCEPT !.diagnose = TRUE], 1)
     \/ Head(rest) = "--fs"       /\ Set([opt EXCEPT !.fs = TRUE], 1)

\* A value is whatever argument follows.
ParseLayerOption ==
  /\ Parsing /\ Head(rest) = "--layer" /\ Len(rest) > 1
  /\ Set([opt EXCEPT !.layer = rest[2]], 2)

ParseError ==
  /\ Parsing
  /\ Head(rest) = "--other" \/ (Head(rest) = "--layer" /\ Len(rest) = 1)
  /\ Fail /\ UNCHANGED <<env, faulty>>

\* What run does: the first of the three that was asked for.
Task ==
  IF opt.info THEN "info"
  ELSE IF opt.diagnose THEN "diagnose"
  ELSE IF opt.fs THEN "fs" ELSE "none"

ParseEnd ==
  /\ pc = "parse" /\ ~AtOption
  /\ IF Task = "none" \/ (Task = "fs" /\ rest = <<>>)
     THEN Fail
     ELSE /\ pc' = Task
          /\ UNCHANGED <<rest, opt, li, vol, cmdvars, exit>>
  /\ UNCHANGED <<env, faulty>>

\* udf.Diagnose, which may panic: module UdfOpen.
Diagnose ==
  /\ pc = "diagnose"
  /\ \E err \in {"nil", "error", "panic"} : Return(err)
  /\ UNCHANGED <<env, rest, opt, li, vol, faulty, cmdvars>>

(***************************************************************************)
(* The layer                                                               *)
(***************************************************************************)
\* The two lists --info prints before it looks for a root change nothing.
AttachDisc ==
  /\ pc \in {"info", "fs"}
  /\ \/ /\ pc' = IF pc = "fs" /\ opt.layer # "" THEN "asked" ELSE "pick"
        /\ UNCHANGED <<rest, opt, li, vol, faulty, cmdvars, exit>>
     \/ Fault
  /\ UNCHANGED env

LayerNames ==
  [UDF |-> {"udf"}, Joliet |-> {"joliet"},
   RockRidge |-> {"rockridge", "rock-ridge"}, ISO9660 |-> {"iso9660", "iso"}]

\* The layer an argument names, if it names one.
Named(a) == { l \in Layers : a \in LayerNames[l] }

Take(layer) ==
  /\ vol' = layer /\ pc' = "run"
  /\ UNCHANGED <<rest, opt, li, faulty, cmdvars, exit>>

\* Mutant of Opens: a layer the disc does not have is mounted.
OpensUnlisted(layer) == disc.content[layer] # "unopenable"

Opens(layer) == layer \in Found /\ disc.content[layer] # "unopenable"

MountAsked ==
  /\ pc = "asked"
  /\ \/ \E l \in Named(opt.layer) : Opens(l) /\ Take(l)
     \/ (~ \E l \in Named(opt.layer) : Opens(l)) /\ Fail /\ UNCHANGED faulty
     \/ (\E l \in Named(opt.layer) : l \in Found) /\ Fault
  /\ UNCHANGED env

Trying == pc = "pick" /\ li <= Len(disc.fses)

\* Mutant of PickLayer: the first layer that lists at all is taken.
PickReadable ==
  /\ Trying /\ disc.content[disc.fses[li]] \in {"entries", "empty"}
  /\ Take(disc.fses[li])
  /\ UNCHANGED env

\* The loops of runInfo and runFS, which both repeat Mount's own: the first
\* layer whose root lists an entry.
PickLayer ==
  /\ Trying /\ disc.content[disc.fses[li]] = "entries"
  /\ Take(disc.fses[li])
  /\ UNCHANGED env

\* Mutant of PassLayer: the same layer is tried again.
PassLayerAgain ==
  /\ Trying
  /\ faulty' = (faulty \/ disc.content[disc.fses[li]] = "entries")
  /\ UNCHANGED <<env, pc, rest, opt, li, vol, cmdvars, exit>>

PassLayer ==
  /\ Trying
  /\ faulty' = (faulty \/ disc.content[disc.fses[li]] = "entries")
  /\ li' = li + 1
  /\ UNCHANGED <<env, pc, rest, opt, vol, cmdvars, exit>>

NoLayer ==
  /\ pc = "pick" /\ li > Len(disc.fses)
  /\ Fail /\ UNCHANGED <<env, faulty>>

(***************************************************************************)
(* The commands                                                            *)
(***************************************************************************)
Running(command, n) ==
  pc = "run" /\ Task = "fs" /\ rest[1] = command /\ Len(rest) >= n

Finish(what) ==
  /\ done' = what /\ Return("nil")
  /\ UNCHANGED <<rest, opt, li, vol, faulty, opened, dst>>

\* The listing of the root was made when the layer was chosen.
PrintInfo == pc = "run" /\ Task = "info" /\ Finish("listed") /\ UNCHANGED env

\* The layer mounted lists its root, when that can be listed at all, and the
\* directories below it.
Lists(path) ==
  IF path = "/" THEN disc.content[vol] # "error" ELSE path \in disc.dirs[vol]

\* cmdLS lists the path given, or the root; more arguments are not looked at.
List ==
  /\ Running("ls", 1)
  /\ LET dir == IF Len(rest) > 1 THEN rest[2] ELSE "/"
     IN  \/ Lists(dir) /\ Finish("listed")
         \/ ~Lists(dir) /\ Fail /\ UNCHANGED faulty
         \/ Fault
  /\ UNCHANGED env

\* An unknown command, or too few arguments.
BadCommand ==
  /\ pc = "run" /\ Task = "fs"
  /\ ~Running("ls", 1) /\ ~Running("cat", 2) /\ ~Running("get", 3)
  /\ Fail /\ UNCHANGED <<env, faulty>>

\* A directory opens as a file does.
OpenSource ==
  /\ Running("cat", 2) \/ Running("get", 3)
  /\ \/ /\ rest[2] \in disc.paths[vol]
        /\ opened' = TRUE
        /\ pc' = IF rest[1] = "cat" THEN "copy" ELSE "create"
        /\ UNCHANGED <<rest, opt, li, vol, faulty, done, dst, exit>>
     \/ rest[2] \notin disc.paths[vol] /\ Fail /\ UNCHANGED faulty
     \/ Fault
  /\ UNCHANGED env

\* os.Create truncates what is there.
CreateDestination ==
  /\ pc = "create"
  /\ \/ /\ dst' = "partial" /\ pc' = "copy"
        /\ UNCHANGED <<rest, opt, li, vol, opened, done, exit>>
     \/ Fail
  /\ UNCHANGED <<env, faulty>>

Whole == IF dst = "partial" THEN "whole" ELSE dst

\* Mutant of Copy: the error of io.Copy is dropped.
CopyUnchecked ==
  /\ pc = "copy"
  /\ dst' \in {dst, Whole} /\ done' = "copied" /\ Return("nil")
  /\ UNCHANGED <<env, rest, opt, li, vol, faulty, opened>>

\* io.Copy; what was copied before an error stays.
Copy ==
  /\ pc = "copy"
  /\ \/ /\ dst' = Whole /\ done' = "copied" /\ Return("nil")
        /\ UNCHANGED <<rest, opt, li, vol, faulty, opened>>
     \/ Fault
  /\ UNCHANGED env

Init ==
  /\ line \in CommandLines /\ disc \in Discs
  /\ pc = "parse" /\ rest = line /\ opt = NoOptions
  /\ li = 1 /\ vol = "none" /\ faulty = FALSE
  /\ opened = FALSE /\ done = "nothing" /\ dst = "old" /\ exit = "none"

Next ==
  \/ ParseSwitch \/ ParseLayerOption \/ ParseError \/ ParseEnd
  \/ Diagnose \/ AttachDisc
  \/ MountAsked \/ PickLayer \/ PassLayer \/ NoLayer
  \/ PrintInfo \/ List \/ BadCommand
  \/ OpenSource \/ CreateDestination \/ Copy

Spec == Init /\ [][Next]_vars

\* The program goes on, and not only because a read fails.
FairSpec == Spec /\ WF_vars(Next /\ UNCHANGED faulty)

-----------------------------------------------------------------------------
TypeOK ==
  /\ pc \in {"parse", "info", "fs", "diagnose", "asked", "pick", "run",
             "create", "copy", "exit"}
  /\ opt \in [info : BOOLEAN, diagnose : BOOLEAN, fs : BOOLEAN,
            layer : Arguments \cup {""}]
  /\ li \in 1..(Len(disc.fses) + 1)
  /\ vol \in Found \cup {"none"}
  /\ exit \in {"none", "nil", "error", "panic"}
  /\ dst \in {"old", "partial", "whole"}

\* Without a layer asked for, the program shows the layer disc.Mount() would
\* pick, in --info as in --fs, though it has loops of its own: the first that
\* lists an entry, unless a read failed (cmd/main.go:95-111, 161-171,
\* mount.go:46-62).
PicksAsMount ==
  vol # "none" /\ ~faulty /\ (Task = "info" \/ opt.layer = "") =>
    \E i \in 1..Len(disc.fses) :
      /\ vol = disc.fses[i] /\ disc.content[vol] = "entries"
      /\ \A j \in 1..(i - 1) : disc.content[disc.fses[j]] # "entries"

\* get touches its destination only once the source is open, and a run that
\* reports success has copied all that the source delivered
\* (cmd/main.go:236-255).
DestinationIsSafe ==
  /\ dst # "old" => opened
  /\ exit = "nil" => dst # "partial"

\* The program ends, on any arguments and any disc.
RunEnds == <>(pc = "exit")

\* The arguments name a layer, at any place.
LayerOption(a) == \E i \in 1..(Len(line) - 1) : line[i] = "--layer" /\ line[i + 1] = a

\* "diskiso <image.iso> --info | --diagnose | --fs <cmd> [args] [--layer <fs>]"
\* (cmd/main.go:27): a command that succeeds has used the layer it was given.
LayerOptionIsHeeded ==
  exit = "nil" /\ Task = "fs" =>
    \A a \in {"udf", "joliet", "rockridge", "iso9660"} :
      LayerOption(a) => vol \in Named(a)
=============================================================================
