------------------------------ MODULE MCSquash ------------------------------
(***************************************************************************)
(* Two source directories A and B, a file C and an empty directory E, and   *)
(* command lines, for TLC.  Names are numbers; f_1 is 61.                   *)
(***************************************************************************)
EXTENDS Squash

A == <<1000>>
B == <<2000>>
C == <<30>>
E == <<3000>>

At(kind, mode, owner, data) ==
  [kind |-> kind, mode |-> mode, owner |-> owner, xattr |-> {}, data |-> data]
Content(blocks, tail) == [blocks |-> blocks, tail |-> tail]
DirAt(mode, owner) == At("dir", mode, owner, 0)
Src(ino, attr) == [ino |-> ino, attr |-> attr, names |-> <<>>, readable |-> TRUE]
SrcDir(ino, attr, names) == [Src(ino, attr) EXCEPT !.names = names]

F == At("reg", 644, <<0, 0>>, Content(<<1>>, <<7>>))

\* A holds f, b, e, l, s; b holds h, a hard link of f, g, a copy of it, and a device.
\* B holds another f, of the same content, d with a small file, and a directory
\* that cannot be read.
MCFs ==
  (A              :> SrcDir(1, [DirAt(755, <<0, 0>>) EXCEPT !.xattr = {<<1, 5>>, <<2, 5>>, <<3, 1>>}], <<60, 20, 50, 120, 190>>)) @@
  (A \o <<60>>    :> Src(2, F)) @@
  (A \o <<20>>    :> SrcDir(3, DirAt(700, <<5, 0>>), <<80, 70, 30>>)) @@
  (A \o <<20, 80>> :> Src(2, F)) @@
  (A \o <<20, 70>> :> Src(4, [F EXCEPT !.owner = <<5, 6>>])) @@
  (A \o <<20, 30>> :> Src(5, [At("chr", 600, <<0, 6>>, <<1, 259>>) EXCEPT !.xattr = {<<1, 9>>, <<2, 6>>}])) @@
  (A \o <<50>>    :> Src(6, At("reg", 644, <<0, 0>>, Content(<<>>, <<>>)))) @@
  (A \o <<120>>   :> Src(7, At("sym", 777, <<0, 0>>, 42))) @@
  (A \o <<190>>   :> Src(8, At("sock", 666, <<0, 0>>, 0))) @@
  (B              :> SrcDir(9, DirAt(755, <<7, 7>>), <<210, 60, 40>>)) @@
  (B \o <<60>>    :> Src(10, F)) @@
  (B \o <<40>>    :> SrcDir(11, [DirAt(555, <<7, 7>>) EXCEPT !.xattr = {<<2, 5>>, <<4, 9>>}], <<200>>)) @@
  (B \o <<40, 200>> :> Src(12, At("reg", 640, <<7, 5>>, Content(<<>>, <<8>>)))) @@
  (B \o <<210>>   :> [SrcDir(13, DirAt(700, <<0, 0>>), <<60>>) EXCEPT !.readable = FALSE]) @@
  (B \o <<210, 60>> :> Src(14, F)) @@
  (C              :> Src(15, [At("reg", 600, <<0, 0>>, Content(<<2, 3>>, <<9>>)) EXCEPT !.xattr = {<<2, 5>>, <<4, 9>>}])) @@
  (E              :> SrcDir(16, DirAt(755, <<0, 0>>), <<>>))

MCSuffixed ==
  [x \in {20, 30, 40, 50, 60, 120, 190, 1000, 2000} \X (1 .. 2) |-> x[1] + x[2]]

Run(sources) ==
  [sources |-> sources, noappend |-> FALSE, becomes |-> {}, recover |-> TRUE, exportable |-> TRUE,
   keep |-> FALSE, wildcards |-> FALSE, excludes |-> <<>>, pseudo |-> <<>>, sort |-> <<>>,
   root |-> DirAt(777, <<3, 3>>)]
Nothing == Content(<<>>, <<>>)
Def(path, type, mode, owner, dev, output) ==
  [path |-> path, type |-> type, mode |-> mode, owner |-> owner, dev |-> dev, output |-> output]
Rank(path, priority) == [path |-> path, priority |-> priority]

\* Definitions: f and its other name change; a directory, a device and a file that
\* a process writes, which holds what f holds, are made; a device in a directory
\* that is not there is not, nor a file where a directory is.
Defs ==
  <<Def(<<60>>, "m", 400, <<9, 9>>, <<0, 0>>, Nothing),
    Def(<<35>>, "d", 711, <<0, 0>>, <<0, 0>>, Nothing),
    Def(<<35, 45>>, "c", 622, <<0, 0>>, <<300, 70000>>, Nothing),
    Def(<<20, 30>>, "b", 622, <<0, 0>>, <<0, 4>>, Nothing),
    Def(<<35, 55>>, "f", 644, <<0, 0>>, <<0, 0>>, Content(<<1, 7>>, <<>>)),
    Def(<<99, 45>>, "b", 622, <<0, 0>>, <<0, 5>>, Nothing),
    Def(<<35>>, "f", 622, <<0, 0>>, <<0, 0>>, Content(<<>>, <<7>>))>>
BadDef == Def(<<36>>, "c", 622, <<0, 0>>, <<4096, 0>>, Nothing)

Both == [Run(<<A, B>>) EXCEPT !.sort = <<Rank(<<60>>, 5)>>]
MCCommands ==
  <<{[Run(<<A>>) EXCEPT !.pseudo = Defs, !.sort = <<Rank(<<20, 70>>, 9), Rank(<<50>>, -3)>>],
     [Run(<<A, C>>) EXCEPT !.wildcards = TRUE, !.exportable = FALSE,
        !.excludes = <<[path |-> <<{1000}, {20}, {30, 80}>>, sticky |-> FALSE],
                       [path |-> <<{60}>>, sticky |-> TRUE]>>],
     Both},
    {Run(<<B>>),
     [Run(<<B>>) EXCEPT !.becomes = {90}, !.recover = FALSE, !.pseudo = SubSeq(Defs, 2, 3)],
     [Run(<<A>>) EXCEPT !.excludes = <<<<20, 30>>, <<50>>>>],
     [Run(<<E>>) EXCEPT !.noappend = TRUE],
     Both},
    {Run(<<C>>), [Run(<<B>>) EXCEPT !.pseudo = <<BadDef>>], [Run(<<B, C>>) EXCEPT !.becomes = {91}]}>>

\* Extracting everything; a part, as an ordinary user; over files and a directory
\* that are in the way; to a destination that exists already.
MCMe == <<4, 4>>
There_(kind, data) == [kind |-> kind, mode |-> 700, owner |-> MCMe, xattr |-> {}, data |-> data]
InTheWay ==
  [names |-> (<<>> :> -1) @@ (<<60>> :> -2) @@ (<<120>> :> -3) @@ (<<40>> :> -4),
   nodes |-> (-1 :> There_("dir", 0)) @@ (-2 :> There_("reg", Content(<<4>>, <<>>)))
             @@ (-3 :> There_("dir", 0)) @@ (-4 :> There_("reg", Content(<<4>>, <<>>)))]
Extraction ==
  [root |-> TRUE, force |-> FALSE, xattrs |-> TRUE, paths |-> <<>>, found |-> NothingThere]
MCExtractions ==
  {Extraction,
   [Extraction EXCEPT !.root = FALSE,
      !.paths = <<<<{20}, {70, 80}>>, <<{60}>>, <<{60}, {1}>>, <<{20}, {30}>>, <<{40}>>>>],
   [Extraction EXCEPT !.root = FALSE, !.force = TRUE, !.found = InTheWay],
   [Extraction EXCEPT !.xattrs = FALSE, !.found = InTheWay]}
=============================================================================
