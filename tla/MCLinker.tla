------------------------------ MODULE MCLinker ------------------------------
(***************************************************************************)
(* Models of Linker for TLC.                                               *)
(***************************************************************************)
EXTENDS Linker, TLC

CONSTANT MaxFiles   \* length of a command line

O(defs, undefs, sz, al) ==
  [defs |-> defs, undefs |-> undefs,
   sect |-> [s \in Section |-> [size |-> sz[s + 1], align |-> al[s + 1]]]]

ObjectFile(o) == [archive |-> FALSE, members |-> <<o>>, index |-> <<>>]

(* The index of an archive has every name; the first member that defines   *)
(* one wins.                                                               *)
ArchiveFile(ms) ==
  [archive |-> TRUE, members |-> ms,
   index |-> [n \in UNION {DOMAIN ms[k].defs : k \in DOMAIN ms} |->
                MinOf({k \in DOMAIN ms : n \in DOMAIN ms[k].defs})]]

(* The start-up code, a program and a second object of it, with functions  *)
(* and variables of odd sizes, and two libraries that need one another: b  *)
(* and d, defined in both, refer back and forth.                           *)
Crt == ObjectFile(O("start" :> 0, {"main"}, <<5, 0, 0, 0>>, <<4, 1, 1, 1>>))
Prog == ObjectFile(O("main" :> 0 @@ "v" :> 2, {"a", "w"}, <<3, 2, 1, 0>>, <<1, 1, 1, 1>>))
More == ObjectFile(O("a" :> 0 @@ "w" :> 3, {"b", "v"}, <<2, 0, 3, 5>>, <<2, 1, 4, 8>>))
Dup == ObjectFile(O("b" :> 2 @@ "start" :> 0, {}, <<1, 0, 2, 0>>, <<1, 1, 2, 1>>))
LibC ==
  ArchiveFile(<<O("a" :> 0, {"b", "c"}, <<1, 3, 0, 0>>, <<1, 4, 1, 1>>),
                O("c" :> 1 @@ "e" :> 0, {"a", "d"}, <<4, 1, 0, 2>>, <<4, 1, 1, 2>>),
                O("b" :> 0 @@ "w" :> 2, {"e"}, <<7, 0, 1, 0>>, <<1, 1, 8, 1>>)>>)
LibM ==
  ArchiveFile(<<O("d" :> 0, {"b", "f"}, <<2, 0, 0, 1>>, <<2, 1, 1, 1>>),
                O("f" :> 3 @@ "w" :> 2, {}, <<0, 0, 2, 3>>, <<1, 1, 1, 4>>),
                O("start" :> 0 @@ "main" :> 0, {"a"}, <<3, 0, 0, 0>>, <<1, 1, 1, 1>>)>>)

Files == {Crt, Prog, More, Dup, LibC, LibM}

MCCommandLines == UNION {[1 .. n -> Files] : n \in 1 .. MaxFiles}
=============================================================================
