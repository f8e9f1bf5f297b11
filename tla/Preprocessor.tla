---------------------------- MODULE Preprocessor ----------------------------
(***************************************************************************)
(* The preprocessor's handling of directives: preprocess() of              *)
(* src/src/cpp/preprocessor.c with handle_include, handle_pragma and the   *)
(* other handlers. preprocess() calls itself for an included file, so its  *)
(* local variables are kept on a stack.                                    *)
(*                                                                         *)
(* A line is [k, n, b], with its continuation lines and its comments: its  *)
(* kind, a name (of a macro, or of a file), and a Boolean (the value of    *)
(* the expression of #if and #elif; whether #include has angle brackets;   *)
(* whether #define defines a function-like macro). The name of a TEXT line *)
(* is the identifier that it ends with.                                    *)
(***************************************************************************)
EXTENDS Integers, Sequences, FiniteSets

CONSTANTS
  FileSystems,  \* what the files contain: functions from paths to lines
  Main,         \* the path of the source file
  SysDirs,      \* sys_inc_paths: the directories to search
  Name,         \* the names of macros
  MaxDepth      \* bound: how deep files include one another

(* A path is <<directory, file name>>; the source is in the directory that *)
(* the preprocessor is started in.                                         *)
CondKind == {"IFDEF", "IFNDEF", "IF"}
Kind == CondKind \cup {"ELSE", "ELIF", "ENDIF", "INCLUDE", "DEFINE", "UNDEF", "ONCE",
                       "PRAGMA", "LINE", "ERROR", "UNKNOWN", "TEXT"}

ASSUME PreprocessorAssumption ==
  /\ MaxDepth \in Nat \ {0}
  /\ SysDirs \in Seq({SysDirs[d] : d \in DOMAIN SysDirs})
  /\ \A f \in FileSystems :
       /\ Main \in DOMAIN f
       /\ \A p \in DOMAIN f :
            /\ Len(f[p]) \in Nat
            /\ DOMAIN f[p] = 1 .. Len(f[p])
            /\ \A a \in DOMAIN f[p] :
                 /\ f[p][a].k \in Kind
                 /\ f[p][a].b \in BOOLEAN
                 /\ f[p][a].k \in {"IFDEF", "IFNDEF", "DEFINE", "UNDEF"} => f[p][a].n \in Name

VARIABLES
  fs,        \* the files
  streams,   \* the activations of preprocess(), the innermost last
  macros,    \* macro_table: whether and how each name is defined
  fileMacro, \* the body of __FILE__
  once,      \* pragma_once_files
  out,       \* what was printed: which lines of which file
  at,        \* where cc1 takes the next line to be from
  marked,    \* where it took each line of out to be from
  status     \* run, done or error

vars == <<fs, streams, macros, fileMacro, once, out, at, marked, status>>

Top == streams[Len(streams)]
Put(s) == [streams EXCEPT ![Len(streams)] = s]

(* The lines of the file, the one at hand, and the state after it is read. *)
Lines == fs[Top.file]
Line == Lines[Top.pos + 1]
HasLine == status = "run" /\ Top.pos < Len(Lines)
Read(n) == [Top EXCEPT !.pos = @ + n, !.lineno = @ + n]

(* Printing newlines moves cc1 on; a line marker sets where it is.         *)
Newlines(n) == [at EXCEPT !.lineno = @ + n]
Marker(filename, lineno) == [filename |-> filename, lineno |-> lineno]

(* A directive prints a newline for itself; process_line, called with what *)
(* is behind it, prints another one if lines are enabled. Behind an        *)
(* expression is nothing, and process_line is not called.                  *)
DirectiveNewlines(s) == Newlines(IF s.enable THEN 2 ELSE 1)

(* preprocess: what it starts with.                                        *)
NewStream(path) ==
  [file |-> path, filename |-> path, pos |-> 0, lineno |-> 0,
   condstack |-> <<>>, enable |-> TRUE, satisfy |-> 0, old_file_macro |-> fileMacro]

(* error() prints a message and exits.                                     *)
Fails ==
  /\ status' = "error"
  /\ UNCHANGED <<fs, streams, macros, fileMacro, once, out, at, marked>>
----------------------------------------------------------------------------
(***************************************************************************)
(* Conditionals.                                                           *)
(***************************************************************************)
Condition(line) ==
  CASE line.k = "IFDEF" -> macros[line.n] # "none"
    [] line.k = "IFNDEF" -> macros[line.n] = "none"
    [] line.k = "IF" -> line.b

(* The condition is evaluated whether lines are enabled or not.            *)
If ==
  /\ HasLine
  /\ Line.k \in CondKind
  /\ LET c == Condition(Line)
         s == [Read(1) EXCEPT
                 !.condstack = Append(@, [enable |-> Top.enable, satisfy |-> Top.satisfy]),
                 !.satisfy = IF c THEN 1 ELSE 0,
                 !.enable = Top.enable /\ c]
     IN  /\ streams' = Put(s)
         /\ at' = IF Line.k = "IF" THEN Newlines(1) ELSE DirectiveNewlines(s)
  /\ UNCHANGED <<fs, macros, fileMacro, once, out, marked, status>>

Saved == Top.condstack[Len(Top.condstack)]

(* Mutant: the group around it is not asked.                               *)
ElseEnableAlone == ~ Top.enable /\ Top.satisfy = 0

ElseEnable == ~ Top.enable /\ Top.satisfy = 0 /\ Saved.enable

Else ==
  /\ HasLine
  /\ Line.k = "ELSE"
  /\ IF Top.condstack = <<>> \/ Top.satisfy = 2 THEN Fails
     ELSE /\ LET s == [Read(1) EXCEPT !.enable = ElseEnable, !.satisfy = 2]
             IN  streams' = Put(s) /\ at' = DirectiveNewlines(s)
          /\ UNCHANGED <<fs, macros, fileMacro, once, out, marked, status>>

(* The condition is evaluated only if none before it was satisfied.        *)
Elif ==
  /\ HasLine
  /\ Line.k = "ELIF"
  /\ IF Top.condstack = <<>> \/ Top.satisfy = 2 THEN Fails
     ELSE /\ LET c == Top.satisfy = 0 /\ Line.b
                 s == [Read(1) EXCEPT !.enable = ~ Top.enable /\ c /\ Saved.enable,
                                      !.satisfy = IF c THEN 1 ELSE @]
             IN  streams' = Put(s) /\ at' = Newlines(1)
          /\ UNCHANGED <<fs, macros, fileMacro, once, out, marked, status>>

Endif ==
  /\ HasLine
  /\ Line.k = "ENDIF"
  /\ IF Top.condstack = <<>> THEN Fails
     ELSE /\ LET s == [Read(1) EXCEPT
                         !.enable = Saved.enable,
                         !.satisfy = Saved.satisfy,
                         !.condstack = SubSeq(@, 1, Len(@) - 1)]
             IN  streams' = Put(s) /\ at' = DirectiveNewlines(s)
          /\ UNCHANGED <<fs, macros, fileMacro, once, out, marked, status>>

----------------------------------------------------------------------------
(***************************************************************************)
(* The other directives, and text.                                         *)
(***************************************************************************)

(* A directive other than the conditionals while lines are disabled.       *)
Disabled ==
  /\ HasLine
  /\ ~ Top.enable
  /\ Line.k \notin CondKind \cup {"ELSE", "ELIF", "ENDIF", "TEXT"}
  /\ streams' = Put(Read(1))
  /\ at' = Newlines(1)
  /\ UNCHANGED <<fs, macros, fileMacro, once, out, marked, status>>

Directive(k) == HasLine /\ Top.enable /\ Line.k = k

(* handle_include: beside the including file, then the system directories. *)
SearchDirs == (IF Line.b THEN <<>> ELSE <<Top.filename[1]>>) \o SysDirs

Candidates ==
  {d \in DOMAIN SearchDirs : LET p == <<SearchDirs[d], Line.n>>
                             IN  p \in once \/ p \in DOMAIN fs}

Found == <<SearchDirs[CHOOSE d \in Candidates : \A e \in Candidates : d <= e], Line.n>>

(* Mutant: what #pragma once has registered is not asked for.              *)
RegisteredNever(p) == FALSE

registered_pragma_once(p) == p \in once

(* The marker behind an #include is printed also when nothing is included. *)
Include ==
  /\ Directive("INCLUDE")
  /\ CASE Candidates = {} -> Fails
       [] Candidates # {} /\ registered_pragma_once(Found) ->
            /\ streams' = Put(Read(1))
            /\ at' = Marker(Top.filename, Top.lineno + 2)
            /\ UNCHANGED <<fs, macros, fileMacro, once, out, marked, status>>
       [] Candidates # {} /\ ~ registered_pragma_once(Found) ->
            /\ Len(streams) < MaxDepth
            /\ streams' = Append(Put(Read(1)), NewStream(Found))
            /\ fileMacro' = Found
            /\ at' = Marker(Found, 1)
            /\ UNCHANGED <<fs, macros, once, out, marked, status>>

(* #define prints one newline, #undef two.                                 *)
Define ==
  /\ Directive("DEFINE")
  /\ macros' = [macros EXCEPT ![Line.n] = IF Line.b THEN "function" ELSE "object"]
  /\ streams' = Put(Read(1))
  /\ at' = Newlines(1)
  /\ UNCHANGED <<fs, fileMacro, once, out, marked, status>>

Undef ==
  /\ Directive("UNDEF")
  /\ macros' = [macros EXCEPT ![Line.n] = "none"]
  /\ streams' = Put(Read(1))
  /\ at' = Newlines(2)
  /\ UNCHANGED <<fs, fileMacro, once, out, marked, status>>

(* handle_pragma: once, or one that it does not know.                      *)
Pragma ==
  /\ Directive("ONCE") \/ Directive("PRAGMA")
  /\ once' = IF Line.k = "ONCE" THEN once \cup {Top.filename} ELSE once
  /\ streams' = Put(Read(1))
  /\ at' = Newlines(IF Line.k = "ONCE" THEN 2 ELSE 1)
  /\ UNCHANGED <<fs, macros, fileMacro, out, marked, status>>

(* #line 1 "name"                                                          *)
LineDirective ==
  /\ Directive("LINE")
  /\ LET filename == <<Main[1], Line.n>>
     IN  /\ streams' = Put([Read(1) EXCEPT !.filename = filename, !.lineno = 0])
         /\ fileMacro' = filename
         /\ at' = Marker(filename, 2)
  /\ UNCHANGED <<fs, macros, once, out, marked, status>>

ErrorDirective == (Directive("ERROR") \/ Directive("UNKNOWN")) /\ Fails

(* process_line. A line that ends with the name of a function-like macro   *)
(* is followed by the next line, whatever that is: match2, looking for the *)
(* parenthesis, reads it from the file.                                    *)
EndsInFunction(k) == Lines[k].k = "TEXT" /\ Lines[k].n \in Name /\ macros[Lines[k].n] = "function"

LastRead(first) ==
  CHOOSE k \in first .. Len(Lines) :
    /\ \A j \in first .. k - 1 : EndsInFunction(j)
    /\ ~ EndsInFunction(k) \/ k = Len(Lines)

(* process_disabled_line prints nothing.                                   *)
Text ==
  /\ HasLine
  /\ Line.k = "TEXT"
  /\ IF Top.enable
     THEN LET first == Top.pos + 1
              last == LastRead(first)
          IN  /\ streams' = Put(Read(last - first + 1))
              /\ out' = Append(out, <<Top.file, first, last>>)
              /\ marked' = Append(marked, [at |-> at, is |-> Marker(Top.filename, Top.lineno + 1)])
              /\ at' = Newlines(IF last = first THEN 1 ELSE 2)
     ELSE streams' = Put(Read(1)) /\ UNCHANGED <<out, marked, at>>
  /\ UNCHANGED <<fs, macros, fileMacro, once, status>>

(* Mutant: __FILE__ stays what it was in the included file.                *)
RestoredNot == fileMacro

(* macro_add(key_file, old_file_macro)                                     *)
Restored == Top.old_file_macro

(* The end of preprocess, and of handle_include in the file around it.     *)
EndOfFile ==
  /\ status = "run"
  /\ Top.pos = Len(Lines)
  /\ IF Top.condstack # <<>> THEN Fails
     ELSE /\ fileMacro' = Restored
          /\ IF Len(streams) = 1
             THEN status' = "done" /\ UNCHANGED <<streams, at>>
             ELSE /\ streams' = SubSeq(streams, 1, Len(streams) - 1)
                  /\ LET s == streams[Len(streams) - 1]
                     IN  at' = Marker(s.filename, s.lineno + 1)
                  /\ UNCHANGED status
          /\ UNCHANGED <<fs, macros, once, out, marked>>
----------------------------------------------------------------------------
NoFile == <<"none", "none">>

PpInit ==
  /\ fs \in FileSystems
  /\ streams = <<[file |-> Main, filename |-> Main, pos |-> 0, lineno |-> 0,
                  condstack |-> <<>>, enable |-> TRUE, satisfy |-> 0,
                  old_file_macro |-> NoFile]>>
  /\ macros = [n \in Name |-> "none"]
  /\ fileMacro = Main
  /\ once = {}
  /\ out = <<>>
  /\ at = Marker(Main, 1)
  /\ marked = <<>>
  /\ status = "run"

PpNext ==
  \/ If \/ Else \/ Elif \/ Endif \/ Disabled \/ Include \/ Define \/ Undef \/ Pragma
  \/ LineDirective \/ ErrorDirective \/ Text \/ EndOfFile

PpSpec == PpInit /\ [][PpNext]_vars
----------------------------------------------------------------------------
(***************************************************************************)
(* Properties.                                                             *)
(***************************************************************************)

(* The levels of a stream: what was saved, and the present state. A level  *)
(* stands for a section, in the light of the level around it.              *)
Levels(s) == Append(s.condstack, [enable |-> s.enable, satisfy |-> s.satisfy])

SectionOf(around, level) ==
  [state |-> IF ~ around.enable THEN "skip"
             ELSE IF level.enable THEN "take"
             ELSE IF level.satisfy = 0 THEN "seek" ELSE "done",
   part |-> IF level.satisfy = 2 THEN "else" ELSE "if"]

SectionsOf(s) ==
  [d \in 1 .. Len(s.condstack) |-> SectionOf(Levels(s)[d], Levels(s)[d + 1])]

OpenSections == [k \in 1 .. Len(streams) |-> SectionsOf(streams[k])]

C == INSTANCE Conditionals WITH sections <- OpenSections, out <- out, status <- status

(* preprocess() keeps one flag, one number and a stack of both, and with   *)
(* them prints the lines that conditional inclusion says are to be         *)
(* printed: of every section the first group whose condition holds, in any *)
(* nesting, in included files and around them (preprocessor.c:562-610).    *)
ImplementsConditionals == C!Spec

(* A file that keeps itself from being read twice, by #pragma once or by   *)
(* an include guard.                                                       *)
Guarded(p) ==
  LET f == fs[p]
      n == Len(f)
  IN  /\ \A q \in DOMAIN fs : \A a \in DOMAIN fs[q] :
           ~ (q = p /\ fs[q][a].k = "LINE")
      /\ \/ n > 0 /\ f[1].k = "ONCE"
         \/ /\ n > 2
            /\ f[1].k = "IFNDEF" /\ f[2].k = "DEFINE" /\ f[2].n = f[1].n /\ f[n].k = "ENDIF"
            /\ \A a \in 3 .. n - 1 : f[a].k \notin CondKind \cup {"ELSE", "ELIF", "ENDIF"}
            /\ \A q \in DOMAIN fs : \A a \in DOMAIN fs[q] :
                 fs[q][a].k = "UNDEF" => fs[q][a].n # f[1].n

(* However files include one another, and themselves, each line of a       *)
(* guarded file is printed once (preprocessor.c:50-63, 154-167, 179-182).  *)
GuardedOnce ==
  \A a, b \in DOMAIN out : a # b /\ out[a][1] \in DOMAIN fs /\ Guarded(out[a][1]) =>
    out[a] # out[b]

(* __FILE__ is the name of the file that is being read, also behind an     *)
(* #include and after #line in the included file (preprocessor.c:527-535,  *)
(* 647).                                                                   *)
FileMacroRight == status = "run" => fileMacro = Top.filename

(* "linemarkers: # linenum filename flags" (lexer.c:336) is how cc1 knows  *)
(* where a line is from, counting on by one for each line from there.      *)
LineMarkersRight == \A a \in DOMAIN marked : marked[a].at = marked[a].is
=============================================================================
