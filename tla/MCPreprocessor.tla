--------------------------- MODULE MCPreprocessor ---------------------------
(***************************************************************************)
(* Models of Preprocessor for TLC.                                         *)
(***************************************************************************)
EXTENDS Preprocessor, TLC

CONSTANTS
  CondLen,     \* lines of a file with conditionals
  IncludeLen   \* lines of a file with #include

D(k) == [k |-> k, n |-> "none", b |-> FALSE]
N(k, n) == [k |-> k, n |-> n, b |-> FALSE]
B(k, b) == [k |-> k, n |-> "none", b |-> b]
Inc(f, sys) == [k |-> "INCLUDE", n |-> f, b |-> sys]

MCMain == <<"dir", "main.c">>
MCSysDirs == <<"inc", "sys">>

Upto(S, n) == UNION {[1 .. m -> S] : m \in 0 .. n}

(* One file, with conditionals in every order, closed or not.              *)
CondLines ==
  {N("IFDEF", "A"), N("IFNDEF", "A"), B("IF", TRUE), B("IF", FALSE), B("ELIF", TRUE),
   B("ELIF", FALSE), D("ELSE"), D("ENDIF"), N("DEFINE", "A"), D("TEXT")}

OneFile == {MCMain :> f : f \in Upto(CondLines, CondLen)}

(* Headers with a guard and with #pragma once, which include one another   *)
(* and themselves; one that changes its name and undefines a macro; one    *)
(* that is not closed; one in a system directory that has the name of      *)
(* another beside the source.                                              *)
Headers ==
  <<"dir", "a.h">> :> <<N("IFNDEF", "A"), N("DEFINE", "A"), Inc("b.h", FALSE), D("TEXT"),
                        Inc("a.h", FALSE), D("TEXT"), D("ENDIF")>>
  @@ <<"dir", "b.h">> :> <<D("ONCE"), D("TEXT"), Inc("a.h", FALSE),
                           Inc("b.h", FALSE), D("TEXT")>>
  @@ <<"inc", "c.h">> :> <<D("TEXT"), N("LINE", "c.y"), D("TEXT"),
                           N("UNDEF", "F"), Inc("d.h", FALSE)>>
  @@ <<"sys", "d.h">> :> <<N("TEXT", "F"), D("TEXT"), D("PRAGMA"), B("IF", FALSE), D("ERROR"), D("ENDIF")>>
  @@ <<"sys", "b.h">> :> <<D("ONCE"), D("TEXT"), B("IF", TRUE)>>

IncludeLines ==
  {Inc("a.h", FALSE), Inc("b.h", FALSE), Inc("b.h", TRUE),
   Inc("c.h", FALSE), Inc("d.h", TRUE), Inc("main.c", FALSE), Inc("no.h", FALSE),
   [k |-> "DEFINE", n |-> "F", b |-> TRUE], N("TEXT", "F"), D("ONCE"), D("UNKNOWN"), D("ELSE")}

Includes == {MCMain :> f @@ Headers : f \in Upto(IncludeLines, IncludeLen)}

MCFileSystems == OneFile \cup Includes

(* A short file for the finding.                                           *)
MCUndef == {MCMain :> <<N("UNDEF", "A"), D("TEXT")>>}
=============================================================================
