------------------------------- MODULE MCCli -------------------------------
(***************************************************************************)
(* Cli on command lines of up to two options, a command, and one option    *)
(* after it, and on discs of two layers in every condition.  A layer with  *)
(* entries has the directory a and the file b.                             *)
(***************************************************************************)
EXTENDS Cli, SequencesExt

Options ==
  { <<"--info">>, <<"--diagnose">>, <<"--fs">>, <<"--other">>, <<"--layer">>,
    <<"--layer", "joliet">>, <<"--layer", "iso">>, <<"--layer", "udf">>, <<"--layer", "none">> }

Commands ==
  { <<>>, <<"ls">>, <<"ls", "a">>, <<"cat">>, <<"cat", "a">>, <<"get", "b">>,
    <<"get", "b", "c">>, <<"rm">> }

MCCommandLines ==
  { FlattenSeq(o) \o c \o t :
      o \in BoundedSeq(Options, 2), c \in Commands,
      t \in {<<>>, <<"--layer", "iso9660">>} }

MCContent(j, i) == [l \in Layers |-> IF l = "Joliet" THEN j ELSE i]

InLayers(content, names) ==
  [l \in Layers |-> IF content[l] = "entries" THEN names ELSE {}]

MCDiscs ==
  { [fses |-> <<"Joliet", "ISO9660">>, content |-> MCContent(j, i),
     paths |-> InLayers(MCContent(j, i), {"a", "b"}),
     dirs |-> InLayers(MCContent(j, i), {"a"})] :
      j \in Content, i \in {"empty", "entries"} }
=============================================================================
