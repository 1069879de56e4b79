---------------------------- MODULE MCPathLookup ----------------------------
(***************************************************************************)
(* PathLookup on one small tree in the three ISO 9660 views, on Rock Ridge *)
(* records with fields in every order, and on UDF trees right  *)
(* and wrong.                                                              *)
(***************************************************************************)
EXTENDS PathLookup

a == <<"a">>
A == <<"A">>
b == <<"b">>
ab == <<"a", "b">>

MCFolded == [c \in {"a", "A", "b", "."} |-> IF c = "A" THEN "a" ELSE c]

Rec(name, isDir, node, sua) ==
  [name |-> name, isDir |-> isDir, node |-> node, sua |-> sua]

Dir(records) == [type |-> "dir", records |-> records]
File == [type |-> "file", records |-> <<>>]
Bad == [type |-> "bad", records |-> <<>>]
Vol(kind, nodes) == [kind |-> kind, root |-> 0, nodes |-> nodes, huge |-> {}]

\* Fields.
Name(text) == [sig |-> "NM", special |-> FALSE, text |-> text]
DotName == [sig |-> "NM", special |-> TRUE, text |-> <<>>]
Link(parts) == [sig |-> "SL", short |-> FALSE, components |-> parts]
Mode(bits) == [sig |-> "PX", short |-> FALSE, mode |-> bits]
Times(flags, stamps) == [sig |-> "TF", flags |-> flags, stamps |-> stamps]
Area == [sig |-> "CE"]
Malformed == [sig |-> "Bad"]

Fields ==
  { Name(b), DotName, Link(<<"..", "x">>), Link(<<"">>), Link(<<Cut, "y">>),
    Mode({"symlink"}), [Mode({}) EXCEPT !.short = TRUE],
    Times({0, 1, 2}, <<0, 1, 2>>), Times({0, 1}, <<0>>), Malformed }

Proper == { Name(b), Link(<<"..", "x">>), Mode({"symlink"}), Times({1}, <<1>>) }

\* A record with each area of up to two fields, or with the four proper ones in
\* every order, beside a directory.
RRVolumes ==
  { Vol("rockridge",
      0 :> Dir(<<Rec(A, FALSE, 1, sua), Rec(A, TRUE, 0, <<Area, Mode({"dir"})>>)>>)
      @@ 1 :> File) :
      sua \in SeqOf(Fields, 2) \cup SetToSeqs(Proper) }

\* Two names that differ in case, one without a name, a way back to the root.
IsoTree ==
  0 :> Dir(<<Rec(a, TRUE, 1, <<Name(b)>>), Rec(A, FALSE, 2, <<>>), Rec(b, FALSE, 2, <<Name(a)>>)>>)
  @@ 1 :> Dir(<<Rec(<<>>, FALSE, 2, <<>>), Rec(b, FALSE, 2, <<>>), Rec(ab, TRUE, 0, <<>>)>>)
  @@ 2 :> File

\* The parent, a child whose entry is none, a link to the root.
UdfTree ==
  0 :> Dir(<<Rec(<<>>, TRUE, 0, <<>>), Rec(b, FALSE, 2, <<>>), Rec(a, TRUE, 1, <<>>),
             Rec(ab, FALSE, 3, <<>>)>>)
  @@ 1 :> Dir(<<Rec(<<>>, TRUE, 0, <<>>), Rec(b, FALSE, 2, <<>>), Rec(ab, TRUE, 0, <<>>)>>)
  @@ 2 :> File @@ 3 :> Bad

\* Identifiers that call a file a directory and a directory a file.
UdfMismatch ==
  0 :> Dir(<<Rec(a, TRUE, 2, <<>>), Rec(b, FALSE, 1, <<>>)>>)
  @@ 1 :> Dir(<<Rec(b, FALSE, 2, <<>>)>>) @@ 2 :> File

\* Two children of one name, one of them a directory, in either order.
UdfSameName ==
  { 0 :> Dir(<<Rec(a, i = 1, i, <<>>), Rec(a, i = 2, 3 - i, <<>>)>>)
    @@ 1 :> Dir(<<Rec(b, FALSE, 2, <<>>)>>) @@ 2 :> File : i \in {1, 2} }

\* A root whose own entry is that of a file.
UdfFileRoot ==
  0 :> [File EXCEPT !.records = <<Rec(b, FALSE, 1, <<>>)>>] @@ 1 :> File

\* A directory and a file, or the root itself, longer than any buffer.
UdfHuge == { [Vol("udf", UdfTree) EXCEPT !.huge = h] : h \in {{1, 2}, {0}} }

MCVolumes ==
  { Vol(kind, IsoTree) : kind \in {"iso9660", "joliet", "rockridge"} }
  \cup { Vol("udf", nodes) : nodes \in {UdfTree, UdfMismatch, UdfFileRoot, 0 :> Bad} \cup UdfSameName }
  \cup UdfHuge \cup RRVolumes

MCPaths ==
  { <<>>, <<DotDot>>, <<a>>, <<A>>, <<b>>, <<ab>>,
    <<a, b>>, <<A, ab>>, <<b, b>>, <<a, DotDot, b>>, <<b, ab, a>> }
=============================================================================
