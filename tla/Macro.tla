------------------------------- MODULE Macro -------------------------------
(***************************************************************************)
(* A source text of #define, #undef, #if and lines with macros, as cpp     *)
(* reads it (process_line, handle_define, handle_undef and handle_if of    *)
(* preprocessor.c): what the lines become and which values the #ifs have.  *)
(***************************************************************************)
EXTENDS PpExpr, FiniteSetsExt

CONSTANT Sources   \* the texts: sequences of directives and lines

VARIABLES source,  \* the text
          pc,      \* the number of the line
          phase,   \* next: between lines; line: copying one; expand: in macro_expand()
          w,       \* tokens, hide sets, macros
          i,       \* the position in macro_expand()'s vector
          out,     \* what is printed of this line
          done     \* what the lines before became: tokens, or the value of an #if

vars == <<source, pc, phase, w, i, out, done>>

Define(name, fn, params, va, body) ==
  [op |-> "define", name |-> name, fn |-> fn, params |-> params, va |-> va, toks |-> body]
Undef(name) == [op |-> "undef", name |-> name, toks |-> <<>>]
Line(toks) == [op |-> "line", toks |-> toks]
If(toks) == [op |-> "if", toks |-> toks]

\* parse_macro_body(): spaces become tokens, except around ## and behind #.
MacroBody(toks) ==
  LET add(b, j) ==
        IF toks[j].sp /\ j > 1 /\ toks[j].k # "##" /\ toks[j - 1].k \notin {"##", "#"}
          THEN b \o <<Space, toks[j]>> ELSE Append(b, toks[j])
  IN  FoldLeft(add, <<>>, [j \in 1..Len(toks) |-> j])

Init == /\ source \in Sources
        /\ pc = 1 /\ phase = "next" /\ i = 1 /\ out = <<>> /\ done = <<>>
        /\ w = [vec |-> <<>>, hide |-> <<>>, rest |-> <<>>, lex |-> <<>>, defs |-> <<>>, fail |-> FALSE]

Reading(op) == phase = "next" /\ pc <= Len(source) /\ source[pc].op = op /\ ~w.fail

HandleDefine ==
  /\ Reading("define")
  /\ LET d == source[pc]
         f == FreshAll(w, MacroBody(d.toks))
     IN  w' = [f.w EXCEPT !.defs = (d.name :> [fn |-> d.fn, params |-> d.params, va |-> d.va, body |-> f.toks]) @@ @]
  /\ pc' = pc + 1
  /\ done' = Append(done, <<>>)
  /\ UNCHANGED <<source, phase, i, out>>

HandleUndef ==
  /\ Reading("undef")
  /\ w' = [w EXCEPT !.defs = [n \in DOMAIN @ \ {source[pc].name} |-> @[n]]]
  /\ pc' = pc + 1
  /\ done' = Append(done, <<>>)
  /\ UNCHANGED <<source, phase, i, out>>

HandleIf ==
  /\ Reading("if")
  /\ LET f == FreshAll(w, source[pc].toks)
         r == pp_expr([f.w EXCEPT !.rest = f.toks])
     IN  /\ w' = [r.w EXCEPT !.rest = <<>>, !.lex = <<>>, !.vec = <<>>]
         /\ done' = Append(done, <<Number(r.v)>>)
  /\ pc' = pc + 1
  /\ UNCHANGED <<source, phase, i, out>>

ProcessLine ==
  /\ Reading("line")
  /\ LET f == FreshAll(w, source[pc].toks) IN w' = [f.w EXCEPT !.rest = f.toks]
  /\ phase' = "line" /\ out' = <<>>
  /\ UNCHANGED <<source, pc, i, done>>

\* A token that is no macro is printed as it is.
CopyToken ==
  /\ phase = "line" /\ w.rest # <<>>
  /\ ~(IsIdent(Head(w.rest)) /\ Head(w.rest).s \in DOMAIN w.defs)
  /\ out' = Append(out, Head(w.rest))
  /\ w' = [w EXCEPT !.rest = Tail(@)]
  /\ UNCHANGED <<source, pc, phase, i, done>>

BeginExpand ==
  /\ phase = "line" /\ w.rest # <<>>
  /\ IsIdent(Head(w.rest)) /\ Head(w.rest).s \in DOMAIN w.defs
  /\ w' = [w EXCEPT !.vec = <<Head(w.rest)>>, !.rest = Tail(@)]
  /\ phase' = "expand" /\ i' = 1
  /\ UNCHANGED <<source, pc, out, done>>

\* One turn of macro_expand().
Expand ==
  /\ phase = "expand" /\ i <= Len(w.vec) /\ ~w.fail
  /\ LET x == ExpandAt(w, i) IN w' = x.w /\ i' = x.i
  /\ UNCHANGED <<source, pc, phase, out, done>>

\* All of it has been expanded: print it, go on with the line.
PrintExpanded ==
  /\ phase = "expand" /\ i > Len(w.vec) /\ ~w.fail
  /\ out' = out \o w.vec
  /\ w' = [w EXCEPT !.vec = <<>>]
  /\ phase' = "line"
  /\ UNCHANGED <<source, pc, i, done>>

EndLine ==
  /\ phase = "line" /\ w.rest = <<>>
  /\ phase' = "next" /\ pc' = pc + 1
  /\ done' = Append(done, out)
  /\ UNCHANGED <<source, w, i, out>>

Ended == w.fail \/ (phase = "next" /\ pc > Len(source))
Finished == Ended /\ UNCHANGED vars

Next == HandleDefine \/ HandleUndef \/ HandleIf \/ ProcessLine \/ CopyToken \/ BeginExpand
        \/ Expand \/ PrintExpanded \/ EndLine \/ Finished

Spec == Init /\ [][Next]_vars
----------------------------------------------------------------------------
(* The reference: expansion as the C standard means it, on values.  Every  *)
(* use of a token is a copy with a hide set of its own, an argument is     *)
(* expanded apart from the text around it and stays available as it was.   *)
Plain(toks) ==
  LET ts == SelectSeq(toks, LAMBDA t : t.k # "space")
  IN  AsSeq([j \in 1..Len(ts) |-> [k |-> ts[j].k, s |-> ts[j].s, n |-> ts[j].n, hs |-> {}]])

Joined(l, r) == [k |-> "id", s |-> l.s \o r.s, n |-> 0, hs |-> l.hs \cap r.hs]
Glued(l, r) == IF l = <<>> \/ r = <<>> THEN l \o r
               ELSE Front(l) \o <<Joined(Last(l), Head(r))>> \o Tail(r)
Quoted(ts) == [k |-> "str", s |-> FlattenSeq([j \in 1..Len(ts) |-> ts[j].s]), n |-> 0, hs |-> {}]

\* The arguments behind an opening parenthesis, the last of max takes commas.
RECURSIVE ArgumentsIn(_, _, _, _, _)
ArgumentsIn(ts, args, arg, depth, max) ==
  LET t == Head(ts)
      d == CASE t.k = "(" -> depth + 1 [] t.k = ")" -> depth - 1 [] OTHER -> depth
  IN  CASE t.k = ")" /\ depth = 0 -> [args |-> Append(args, arg), rest |-> Tail(ts), hs |-> t.hs]
        [] t.k = "," /\ depth = 0 /\ Len(args) + 1 < max ->
             ArgumentsIn(Tail(ts), Append(args, arg), <<>>, 0, max)
        [] OTHER -> ArgumentsIn(Tail(ts), args, Append(arg, t), d, max)

RECURSIVE Expansion(_), Substituted(_, _, _, _)

\* The body from its j-th token on with the arguments in place.  os is what
\* ## may still join.
Substituted(body, params, args, os) ==
  LET t    == Head(body)
      more == Tail(body)
      p(b) == IF b = <<>> THEN 0 ELSE ParamIndex(params, Head(b))
      joins == more # <<>> /\ Head(more).k = "##"
  IN  CASE body = <<>> -> os
        [] body # <<>> /\ t.k = "#" /\ p(more) # 0 ->
             Substituted(Tail(more), params, args, Append(os, Quoted(args[p(more)])))
        [] body # <<>> /\ t.k = "##" ->
             Substituted(Tail(more), params, args,
                         Glued(os, IF p(more) = 0 THEN <<Head(more)>> ELSE args[p(more)]))
        [] body # <<>> /\ p(body) # 0 /\ joins ->
             IF args[p(body)] # <<>> THEN Substituted(more, params, args, os \o args[p(body)])
             ELSE os \o Substituted(more, params, args, <<>>)
        [] body # <<>> /\ p(body) # 0 /\ ~joins ->
             Substituted(more, params, args, os \o Expansion(args[p(body)]))
        [] OTHER -> Substituted(more, params, args, Append(os, t))

Hidden(ts, hs) == AsSeq([j \in 1..Len(ts) |-> [ts[j] EXCEPT !.hs = @ \cup hs]])

Expansion(ts) ==
  LET t == Head(ts)
      m == w.defs[t.s]
      a == ArgumentsIn(Tail(Tail(ts)), <<>>, <<>>, 0, IF m.va THEN Len(m.params) ELSE 99)
      args == IF m.va /\ Len(a.args) < Len(m.params) THEN Append(a.args, <<>>) ELSE a.args
      body(as, hs) == Hidden(Substituted(Plain(m.body), m.params, as, <<>>), hs \cup {t.s})
  IN  CASE ts = <<>> -> <<>>
        [] ts # <<>> /\ (t.k # "id" \/ t.s \notin DOMAIN w.defs \/ t.s \in t.hs) ->
             <<t>> \o Expansion(Tail(ts))
        [] ts # <<>> /\ t.k = "id" /\ t.s \in DOMAIN w.defs \ t.hs /\ ~m.fn ->
             Expansion(body(<<>>, t.hs) \o Tail(ts))
        [] OTHER ->
             IF Len(ts) > 1 /\ ts[2].k = "("
               THEN Expansion(body(args, t.hs \cap a.hs) \o a.rest)
               ELSE <<t>> \o Expansion(Tail(ts))

\* The value of an expression, by the operator that binds weakest.
Depth(ts, j) == Cardinality({n \in 1..j - 1 : ts[n].k = "("}) - Cardinality({n \in 1..j : ts[n].k = ")"})
\* Operators between two operands, outside of parentheses.
Outer(ts, ops) == {j \in 2..Len(ts) : ts[j].k \in ops /\ Depth(ts, j) = 0 /\ ts[j - 1].k \in {"num", "id", ")"}}

RECURSIVE ValueOf(_)
ValueOf(ts) ==
  LET part(a, b) == ValueOf(SubSeq(ts, a, b))
      before(o, j) == Cardinality({n \in Outer(ts, {o}) : n < j})
      commas == {j \in Outer(ts, {","}) : before("?", j) = before(":", j)}
      q      == Min(Outer(ts, {"?"}))
      colon  == Min({j \in Outer(ts, {":"}) : before("?", j) = before(":", j) + 1})
      levels == {l \in DOMAIN Levels : Outer(ts, Levels[l]) # {}}
      op     == Max(Outer(ts, Levels[Min(levels)]))
  IN  CASE commas # {} -> part(Max(commas) + 1, Len(ts))
        [] commas = {} /\ Outer(ts, {"?"}) # {} ->
             IF part(1, q - 1) # 0 THEN part(q + 1, colon - 1) ELSE part(colon + 1, Len(ts))
        [] commas = {} /\ Outer(ts, {"?"}) = {} /\ levels # {} ->
             Binary(ts[op].k, part(1, op - 1), part(op + 1, Len(ts)))
        [] OTHER -> CASE Head(ts).k \in UnaryOps -> Unary(Head(ts).k, part(2, Len(ts)))
                      [] Head(ts).k = "(" -> part(2, Len(ts) - 1)
                      [] Head(ts).k = "num" -> Head(ts).n
                      [] OTHER -> 0

\* `defined' is replaced before anything is expanded.
RECURSIVE DefinedReplaced(_)
DefinedReplaced(ts) ==
  LET n == IF ts[2].k = "(" THEN 3 ELSE 2
      v == [k |-> "num", s |-> <<>>, n |-> Truth(ts[n].s \in DOMAIN w.defs), hs |-> {}]
  IN  CASE ts = <<>> -> <<>>
        [] ts # <<>> /\ Head(ts).s = <<"defined">> ->
             <<v>> \o DefinedReplaced(SubSeq(ts, IF n = 3 THEN 5 ELSE 3, Len(ts)))
        [] OTHER -> <<Head(ts)>> \o DefinedReplaced(Tail(ts))

----------------------------------------------------------------------------
(* Properties.                                                             *)
Printed(toks) ==
  LET ts == Plain(toks)
  IN  AsSeq([j \in 1..Len(ts) |-> <<ts[j].k, ts[j].s>>])

JustRead(op) == phase = "next" /\ pc > 1 /\ source[pc - 1].op = op /\ ~w.fail

\* A line becomes what the C standard says of it: nested calls, names that
\* mention themselves and each other, # and ##, arguments that reach behind the
\* end of an expansion (macro_expand, subst, pp_funargs and the hide sets).
ExpandsAsC ==
  JustRead("line") => Printed(Last(done)) = Printed(Expansion(Plain(source[pc - 1].toks)))

\* The value of an #if is the value of its expression with macros replaced, by
\* C's precedences, left to right (pp_expr and the functions below it).
IfValueRight ==
  JustRead("if") => Last(done)[1].n = ValueOf(Expansion(DefinedReplaced(Plain(source[pc - 1].toks))))
=============================================================================
