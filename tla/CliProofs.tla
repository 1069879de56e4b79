----------------------------- MODULE CliProofs -----------------------------
(***************************************************************************)
(* Proofs about Cli, for every set of command lines and every set of discs. *)
(***************************************************************************)
EXTENDS Cli, SequenceTheorems, TLAPS

Options ==
  [info : BOOLEAN, diagnose : BOOLEAN, fs : BOOLEAN, layer : Arguments \cup {""}]

\* What is left of the command line is arguments, and a run that has ended
\* has its error.
RestOK == rest \in Seq(Arguments) /\ disc \in Discs /\ (exit # "none" <=> pc = "exit")

\* The destination is created between the opening of the source and the
\* copying; only a run that has failed leaves it as it then is.
Destination ==
  /\ dst # "old" => opened
  /\ pc \in {"create", "copy"} => opened
  /\ dst # "old" => pc \in {"copy", "exit"}
  /\ dst = "whole" => pc = "exit"
  /\ exit = "nil" => dst # "partial"

\* The layers passed over list nothing unless a read failed, and a layer that
\* was asked for is not one --info would pick.
Choice ==
  /\ ~faulty => \A j \in 1..(li - 1) : disc.content[disc.fses[j]] # "entries"
  /\ vol # "none" => pc \in {"run", "create", "copy", "exit"}
  /\ pc \in {"fs", "asked"} => ~opt.info
  /\ pc = "asked" => opt.layer # ""

Inv == TypeOK /\ RestOK /\ Destination /\ Choice /\ PicksAsMount

-----------------------------------------------------------------------------
\* What the assumption says of one disc.
LEMMA DiscFacts ==
  ASSUME NEW d \in Discs
  PROVE  /\ d.fses \in Seq(Layers) /\ d.fses # <<>> /\ Len(d.fses) \in Nat
         /\ d.content \in [Layers -> Content]
         /\ \A i \in 1..Len(d.fses) : d.fses[i] \in Layers
<1>1. d.fses \in Seq(Layers) /\ d.fses # <<>> /\ d.content \in [Layers -> Content]
  BY DiscsAssumption
<1> QED
  BY <1>1, LenProperties, ElementOfSeq

\* What is left once n arguments are taken.
LEMMA Shortened ==
  ASSUME NEW A, NEW s \in Seq(A), NEW n \in 1..2, n <= Len(s)
  PROVE  SubSeq(s, n + 1, Len(s)) \in Seq(A)
<1>1. Len(s) \in Nat
  BY LenProperties
<1>2. \A i \in (n + 1)..Len(s) : s[i] \in A
  BY <1>1, ElementOfSeq
<1> QED
  BY <1>1, <1>2, SubSeqProperties

\* The command line and the disc stay.
LEMMA SameEnv == UNCHANGED env => Arguments' = Arguments /\ Found' = Found
  BY DEF env, Arguments, Found

LEMMA Initially == Init => Inv
<1> SUFFICES ASSUME Init PROVE Inv
  OBVIOUS
<1>1. disc \in Discs /\ line \in Seq(STRING) /\ rest = line
  BY DiscsAssumption DEF Init
<1>0. rest \in Seq(Arguments)
  <2>1. Len(line) \in Nat /\ line = [i \in 1..Len(line) |-> line[i]]
    BY <1>1, LenProperties
  <2>2. \A i \in 1..Len(line) : line[i] \in Arguments
    BY DEF Arguments
  <2> QED
    BY <1>1, <2>1, <2>2, SeqDef
<1>2. Len(disc.fses) \in Nat
  BY <1>1, DiscFacts
<1>3. TypeOK
  <2>1. NoOptions \in Options
    BY DEF NoOptions, Options
  <2>2. 1 \in 1..(Len(disc.fses) + 1)
    BY <1>2
  <2> QED
    BY <2>1, <2>2 DEF Init, TypeOK, Options
<1>4. RestOK /\ Destination /\ PicksAsMount
  BY <1>0, <1>1 DEF Init, RestOK, Destination, PicksAsMount
<1>5. Choice
  BY DEF Init, Choice
<1> QED
  BY <1>3, <1>4, <1>5 DEF Inv

\* A run that fails keeps the destination as it is.
LEMMA FailKeeps ==
  ASSUME Inv, Fail, UNCHANGED env, faulty' \in {faulty, TRUE}, pc # "exit"
  PROVE  Inv'
<1>1. TypeOK'
  BY SameEnv DEF Inv, TypeOK, Fail, Return, env, cmdvars
<1>2. RestOK' /\ Destination'
  BY SameEnv DEF Inv, RestOK, Destination, Fail, Return, env, cmdvars
<1>3. Choice' /\ PicksAsMount'
  BY DEF Inv, Choice, PicksAsMount, Task, Fail, Return, env, cmdvars
<1> QED
  BY <1>1, <1>2, <1>3 DEF Inv

\* Parsing touches the options alone.
LEMMA SetKeeps ==
  ASSUME Inv, pc = "parse", NEW n \in 1..2, n <= Len(rest),
         NEW o \in Options,
         Set(o, n)
  PROVE  Inv'
<1>1. rest' \in Seq(Arguments')
  BY Shortened, SameEnv DEF Inv, RestOK, Set, env
<1>2. TypeOK'
  BY SameEnv DEF Inv, TypeOK, Set, env, cmdvars, Options
<1>3. RestOK' /\ Destination'
  BY <1>1, SameEnv DEF Inv, RestOK, Destination, Set, env, cmdvars
<1>4. vol = "none"
  BY DEF Inv, Choice
<1>5. Choice' /\ PicksAsMount'
  BY <1>4 DEF Inv, Choice, PicksAsMount, Set, env, cmdvars
<1> QED
  BY <1>2, <1>3, <1>5 DEF Inv

LEMMA ParseKeeps ==
  ASSUME Inv, ParseSwitch \/ ParseLayerOption \/ ParseError \/ ParseEnd
  PROVE  Inv'
<1> USE DEF Inv
<1>1. rest \in Seq(Arguments) /\ Len(rest) \in Nat
  BY LenProperties DEF RestOK
<1>2. CASE ParseSwitch
  <2>1. pc = "parse" /\ rest # <<>>
    BY <1>2 DEF ParseSwitch, Parsing, AtOption
  <2>2. 1 <= Len(rest)
    BY <1>1, <2>1, EmptySeq
  <2>3. PICK o \in {[opt EXCEPT !.info = TRUE], [opt EXCEPT !.diagnose = TRUE],
                    [opt EXCEPT !.fs = TRUE]} : Set(o, 1)
    BY <1>2 DEF ParseSwitch
  <2>4. o \in Options
    BY <2>3 DEF TypeOK, Options
  <2> QED
    BY <2>1, <2>2, <2>3, <2>4, SetKeeps
<1>3. CASE ParseLayerOption
  <2>1. pc = "parse" /\ 2 <= Len(rest) /\ Set([opt EXCEPT !.layer = rest[2]], 2)
    BY <1>1, <1>3 DEF ParseLayerOption, Parsing
  <2>2. rest[2] \in Arguments
    BY <1>1, <2>1, ElementOfSeq
  <2>3. [opt EXCEPT !.layer = rest[2]]
          \in Options
    BY <2>2 DEF TypeOK, Options
  <2> QED
    BY <2>1, <2>3, SetKeeps
<1>4. CASE ParseError
  BY <1>4, FailKeeps DEF ParseError, Parsing
<1>5. CASE ParseEnd
  <2>1. CASE Fail
    BY <1>5, <2>1, FailKeeps DEF ParseEnd
  <2>2. CASE pc' = Task /\ Task # "none" /\ UNCHANGED <<rest, opt, li, vol, cmdvars, exit>>
    <3>1. pc = "parse" /\ UNCHANGED <<env, faulty>>
      BY <1>5 DEF ParseEnd
    <3>2. /\ pc' \in {"info", "diagnose", "fs"}
          /\ pc' = "fs" => ~opt.info
      BY <2>2 DEF Task, TypeOK
    <3>3. TypeOK' /\ RestOK' /\ Destination'
      BY <2>2, <3>1, <3>2, SameEnv DEF TypeOK, RestOK, Destination, env, cmdvars
    <3>4. Choice' /\ PicksAsMount'
      BY <2>2, <3>1, <3>2 DEF Choice, PicksAsMount, Task, env, cmdvars
    <3> QED
      BY <3>3, <3>4
  <2> QED
    BY <1>5, <2>1, <2>2 DEF ParseEnd
<1> QED
  BY <1>2, <1>3, <1>4, <1>5

\* The layers tried are elements of the list.
LEMMA TryingFacts ==
  ASSUME Inv, Trying
  PROVE  /\ li \in 1..Len(disc.fses) /\ pc = "pick"
         /\ disc.fses[li] \in Found /\ disc.fses[li] # "none"
         /\ Len(disc.fses) \in Nat
<1>1. Len(disc.fses) \in Nat /\ \A i \in 1..Len(disc.fses) : disc.fses[i] \in Layers
  BY DiscFacts DEF Inv, RestOK
<1>0. li \in 1..(Len(disc.fses) + 1)
  BY DEF Inv, TypeOK
<1>2. li \in 1..Len(disc.fses) /\ pc = "pick"
  BY <1>0, <1>1 DEF Trying
<1> QED
  BY <1>1, <1>2 DEF Found, Layers

LEMMA LayerKeeps ==
  ASSUME Inv, AttachDisc \/ MountAsked \/ PickLayer \/ PassLayer \/ NoLayer
  PROVE  Inv'
<1> USE DEF Inv
<1>1. CASE AttachDisc
  <2>1. CASE Fault
    BY <1>1, <2>1, FailKeeps DEF AttachDisc, Fault
  <2>2. CASE ~Fault
    <3>1. /\ pc \in {"info", "fs"} /\ UNCHANGED <<env, rest, opt, li, vol, faulty, cmdvars, exit>>
          /\ pc' = IF pc = "fs" /\ opt.layer # "" THEN "asked" ELSE "pick"
      BY <1>1, <2>2 DEF AttachDisc
    <3>2. TypeOK' /\ RestOK' /\ Destination'
      BY <3>1, SameEnv DEF TypeOK, RestOK, Destination, env, cmdvars
    <3>3. Choice' /\ PicksAsMount'
      BY <3>1 DEF Choice, PicksAsMount, Task, env, cmdvars
    <3> QED
      BY <3>2, <3>3
  <2> QED
    BY <2>1, <2>2
<1>2. CASE MountAsked
  <2>1. CASE Fault \/ (Fail /\ UNCHANGED faulty)
    BY <1>2, <2>1, FailKeeps DEF MountAsked, Fault
  <2>2. CASE \E l \in Named(opt.layer) : Opens(l) /\ Take(l)
    <3>1. PICK l \in Layers : l \in Found /\ Take(l)
      BY <2>2 DEF Named, Opens
    <3>2. pc = "asked" /\ UNCHANGED env
      BY <1>2 DEF MountAsked
    <3>3. TypeOK' /\ RestOK' /\ Destination'
      BY <3>1, <3>2, SameEnv DEF TypeOK, RestOK, Destination, Take, env, cmdvars
    <3>4. ~opt.info /\ opt.layer # ""
      BY <3>2 DEF Choice
    <3>5. Task # "info"
      BY <3>4 DEF Task
    <3>6. Choice' /\ PicksAsMount'
      BY <3>1, <3>2, <3>4, <3>5 DEF Choice, PicksAsMount, Task, Take, env, cmdvars
    <3> QED
      BY <3>3, <3>6
  <2> QED
    BY <1>2, <2>1, <2>2 DEF MountAsked
<1>3. CASE PickLayer
  <2>1. Trying /\ Take(disc.fses[li]) /\ disc.content[disc.fses[li]] = "entries" /\ UNCHANGED env
    BY <1>3 DEF PickLayer
  <2>2. li \in 1..Len(disc.fses) /\ pc = "pick" /\ disc.fses[li] \in Found
    BY <2>1, TryingFacts
  <2>3. TypeOK' /\ RestOK' /\ Destination'
    BY <2>1, <2>2, SameEnv DEF TypeOK, RestOK, Destination, Take, env, cmdvars
  <2>4. Choice'
    BY <2>1, <2>2 DEF Choice, Take, env, cmdvars
  <2>5. ~faulty => \A j \in 1..(li - 1) : disc.content[disc.fses[j]] # "entries"
    BY DEF Choice
  <2>6. PicksAsMount'
    BY <2>1, <2>2, <2>5 DEF PicksAsMount, Take, env, cmdvars
  <2> QED
    BY <2>3, <2>4, <2>6
<1>4. CASE PassLayer
  <2>1. /\ Trying /\ li' = li + 1
        /\ faulty' = (faulty \/ disc.content[disc.fses[li]] = "entries")
        /\ UNCHANGED <<env, pc, rest, opt, vol, cmdvars>> /\ exit' = exit
    BY <1>4 DEF PassLayer
  <2>2. li \in 1..Len(disc.fses) /\ pc = "pick" /\ Len(disc.fses) \in Nat
    BY <2>1, TryingFacts
  <2>3. TypeOK' /\ RestOK' /\ Destination'
    <3>1. li' \in 1..(Len(disc'.fses) + 1)
      BY <2>1, <2>2 DEF env
    <3> QED
      BY <2>1, <3>1, SameEnv DEF TypeOK, RestOK, Destination, env, cmdvars
  <2>4. ~faulty' => ~faulty /\ disc.content[disc.fses[li]] # "entries"
    BY <2>1
  <2>5. \A j \in 1..(li' - 1) : j \in 1..(li - 1) \/ j = li
    BY <2>1, <2>2
  <2>6. ~faulty' => \A j \in 1..(li' - 1) : disc'.content[disc'.fses[j]] # "entries"
    BY <2>1, <2>4, <2>5 DEF Choice, env
  <2>7. vol = "none" /\ pc = "pick"
    BY <2>2 DEF Choice
  <2>8. Choice' /\ PicksAsMount'
    BY <2>1, <2>6, <2>7 DEF Choice, PicksAsMount
  <2> QED
    BY <2>3, <2>8
<1>5. CASE NoLayer
  BY <1>5, FailKeeps DEF NoLayer
<1> QED
  BY <1>1, <1>2, <1>3, <1>4, <1>5

\* A run that ends well, with a destination that is not half written.
LEMMA EndKeeps ==
  ASSUME Inv, pc \in {"diagnose", "run", "copy"},
         UNCHANGED <<env, rest, opt, li, vol, faulty, opened>>,
         NEW err \in {"nil", "error", "panic"}, Return(err),
         dst' \in {"old", "whole"}, dst' # "old" => dst # "old"
  PROVE  Inv'
<1> USE DEF Inv
<1>1. TypeOK' /\ RestOK' /\ Destination'
  BY SameEnv DEF TypeOK, RestOK, Destination, Return, env
<1>2. Choice' /\ PicksAsMount'
  BY DEF Choice, PicksAsMount, Task, Return, env
<1> QED
  BY <1>1, <1>2

LEMMA CommandKeeps ==
  ASSUME Inv,
         Diagnose \/ PrintInfo \/ List \/ BadCommand \/ OpenSource
           \/ CreateDestination \/ Copy
  PROVE  Inv'
<1> USE DEF Inv
<1>1. CASE Diagnose
  <2>1. PICK err \in {"nil", "error", "panic"} : Return(err)
    BY <1>1 DEF Diagnose
  <2>2. pc = "diagnose" /\ UNCHANGED <<env, rest, opt, li, vol, faulty, opened, dst>>
    BY <1>1 DEF Diagnose, cmdvars
  <2>3. dst = "old"
    BY <2>2 DEF Destination
  <2> QED
    BY <2>1, <2>2, <2>3, EndKeeps
<1>2. CASE PrintInfo \/ List
  <2>1. pc = "run" /\ UNCHANGED env /\ dst = "old"
    BY <1>2 DEF PrintInfo, List, Running, Destination
  <2>2. CASE Fault \/ (Fail /\ UNCHANGED faulty)
    BY <2>1, <2>2, FailKeeps DEF Fault
  <2>3. CASE Finish("listed")
    <3>1. Return("nil") /\ UNCHANGED <<env, rest, opt, li, vol, faulty, opened, dst>>
      BY <2>1, <2>3 DEF Finish
    <3> QED
      BY <2>1, <3>1, EndKeeps
  <2> QED
    BY <1>2, <2>2, <2>3 DEF PrintInfo, List
<1>3. CASE BadCommand
  BY <1>3, FailKeeps DEF BadCommand
<1>4. CASE OpenSource
  <2>1. pc = "run" /\ UNCHANGED env
    BY <1>4 DEF OpenSource, Running
  <2>2. CASE Fault \/ (Fail /\ UNCHANGED faulty)
    BY <2>1, <2>2, FailKeeps DEF Fault
  <2>3. CASE ~Fault /\ ~(Fail /\ UNCHANGED faulty)
    <3>1. /\ opened' = TRUE /\ pc' \in {"copy", "create"}
          /\ UNCHANGED <<rest, opt, li, vol, faulty, done, dst, exit>>
      BY <1>4, <2>3 DEF OpenSource
    <3>2. TypeOK' /\ RestOK' /\ Destination'
      BY <2>1, <3>1, SameEnv DEF TypeOK, RestOK, Destination, env
    <3>3. Choice' /\ PicksAsMount'
      BY <2>1, <3>1 DEF Choice, PicksAsMount, Task, env
    <3> QED
      BY <3>2, <3>3
  <2> QED
    BY <2>2, <2>3
<1>5. CASE CreateDestination
  <2>1. pc = "create" /\ UNCHANGED <<env, faulty>>
    BY <1>5 DEF CreateDestination
  <2>2. CASE Fail
    BY <2>1, <2>2, FailKeeps
  <2>3. CASE ~Fail
    <3>1. /\ dst' = "partial" /\ pc' = "copy"
          /\ UNCHANGED <<rest, opt, li, vol, opened, done, exit>>
      BY <1>5, <2>3 DEF CreateDestination
    <3>2. TypeOK' /\ RestOK' /\ Destination'
      BY <2>1, <3>1, SameEnv DEF TypeOK, RestOK, Destination, env
    <3>3. Choice' /\ PicksAsMount'
      BY <2>1, <3>1 DEF Choice, PicksAsMount, Task, env
    <3> QED
      BY <3>2, <3>3
  <2> QED
    BY <2>2, <2>3
<1>6. CASE Copy
  <2>1. pc = "copy" /\ UNCHANGED env
    BY <1>6 DEF Copy
  <2>2. CASE Fault
    BY <2>1, <2>2, FailKeeps DEF Fault
  <2>3. CASE ~Fault
    <3>1. /\ dst' = Whole /\ Return("nil")
          /\ UNCHANGED <<rest, opt, li, vol, faulty, opened>>
      BY <1>6, <2>3 DEF Copy
    <3>2. dst \in {"old", "partial", "whole"}
      BY DEF TypeOK
    <3>3. dst' \in {"old", "whole"} /\ (dst' # "old" => dst # "old")
      BY <3>1, <3>2 DEF Whole
    <3> QED
      BY <2>1, <3>1, <3>3, EndKeeps
  <2> QED
    BY <2>2, <2>3
<1> QED
  BY <1>1, <1>2, <1>3, <1>4, <1>5, <1>6

\* The invariant holds in every state of every run: type correctness, what the
\* destination is at each place of the program, and how the layer was chosen.
THEOREM Invariance == Spec => []Inv
<1>1. Inv /\ [Next]_vars => Inv'
  <2> SUFFICES ASSUME Inv, [Next]_vars PROVE Inv'
    OBVIOUS
  <2>1. CASE ParseSwitch \/ ParseLayerOption \/ ParseError \/ ParseEnd
    BY <2>1, ParseKeeps
  <2>2. CASE AttachDisc \/ MountAsked \/ PickLayer \/ PassLayer \/ NoLayer
    BY <2>2, LayerKeeps
  <2>3. CASE Diagnose \/ PrintInfo \/ List \/ BadCommand \/ OpenSource
              \/ CreateDestination \/ Copy
    BY <2>3, CommandKeeps
  <2>4. CASE UNCHANGED vars
    <3>1. TypeOK' /\ RestOK' /\ Destination'
      BY <2>4, SameEnv DEF Inv, TypeOK, RestOK, Destination, vars, env, cmdvars
    <3>2. Choice' /\ PicksAsMount'
      BY <2>4 DEF Inv, Choice, PicksAsMount, Task, vars, env, cmdvars
    <3> QED
      BY <3>1, <3>2 DEF Inv
  <2> QED
    BY <2>1, <2>2, <2>3, <2>4 DEF Next
<1> QED
  BY Initially, <1>1, PTL DEF Spec

\* Locals of run, runInfo and runFS have their types (cmd/main.go:25-189).
THEOREM TypeCorrect == Spec => []TypeOK
<1>1. Inv => TypeOK
  BY DEF Inv
<1> QED
  BY <1>1, Invariance, PTL

\* On any command line and any disc, get touches its destination only once
\* the source is open, and success means a whole copy (cmd/main.go:236-255).
THEOREM SafeDestination == Spec => []DestinationIsSafe
<1>1. Inv => DestinationIsSafe
  BY DEF Inv, Destination, DestinationIsSafe
<1> QED
  BY <1>1, Invariance, PTL

\* On any disc, without a read that fails, the loops of runInfo and runFS
\* choose the layer Mount chooses (cmd/main.go:95-111, 161-171).
THEOREM SameChoice == Spec => []PicksAsMount
<1>1. Inv => PicksAsMount
  BY DEF Inv
<1> QED
  BY <1>1, Invariance, PTL
=============================================================================
