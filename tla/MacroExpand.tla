---------------------------- MODULE MacroExpand ----------------------------
(***************************************************************************)
(* cpp's macro expansion (macro.c, pp_funargs of pp_parser.c).             *)
(*                                                                         *)
(* A token is a record: its kind k, its text s (a sequence of parts, ##    *)
(* joins them), the value n of a number, sp (is there a space before it)   *)
(* and its identity id, since hide sets belong to tokens, and a macro's    *)
(* body and the vectors that were expanded from it share them.  What the   *)
(* expansion reads and changes is a record w: the vector of tokens vec,    *)
(* the hide sets, the text the lexer has not read yet (rest) with the      *)
(* texts push_lex() put aside (lex), the macros, and fail, set where cpp   *)
(* ends with an error.                                                     *)
(***************************************************************************)
EXTENDS SequencesExt, Integers, Results

AsSeq(s) == s \o <<>>

Tok(k, s) == [k |-> k, s |-> s, n |-> 0, sp |-> FALSE, id |-> 0]
Number(v) == [Tok("num", <<ToString(v)>>) EXCEPT !.n = v]
NoTok == Tok("none", <<>>)
Space == Tok("space", <<>>)
IsIdent(tok) == tok.k = "id"

\* alloc_token(): an identity of its own, no hide set.
Fresh(w, tok) == [w |-> [w EXCEPT !.hide = Append(@, {})],
                  tok |-> [tok EXCEPT !.id = Len(w.hide) + 1]]
FreshAll(w, toks) ==
  [w |-> [w EXCEPT !.hide = @ \o AsSeq([i \in 1..Len(toks) |-> {}])],
   toks |-> AsSeq([i \in 1..Len(toks) |-> [toks[i] EXCEPT !.id = Len(w.hide) + i]])]

get_hideset(w, tok) == IF tok.id = 0 THEN {} ELSE w.hide[tok.id]

\* macro->param_table: the parameters, the variadic one last.
ParamIndex(params, tok) ==
  IF IsIdent(tok) /\ \E j \in DOMAIN params : params[j] = tok.s
    THEN CHOOSE j \in DOMAIN params : params[j] = tok.s ELSE 0

----------------------------------------------------------------------------
(* The lexer: a text pushed for #if goes back to the one before at its end *)
(* (on_process_line_eof), and its macro may be expanded again.             *)
RECURSIVE lex_eof_continue(_)
lex_eof_continue(w) ==
  IF w.rest = <<>> /\ w.lex # <<>>
    THEN lex_eof_continue([w EXCEPT !.rest = Last(w.lex).rest, !.lex = Front(@)])
    ELSE w

\* match(kind), pp_match(): the next token if it is of the kind.
match(w0, kind) ==
  With(lex_eof_continue(w0), LAMBDA w :
    IF w.rest # <<>> /\ (kind = "any" \/ Head(w.rest).k = kind)
      THEN [ok |-> TRUE, tok |-> Head(w.rest), w |-> [w EXCEPT !.rest = Tail(@)]]
      ELSE [ok |-> FALSE, tok |-> NoTok, w |-> w])

\* match3(): from the vector, and behind its end from the text.
match3(w, kind, i) ==
  IF i <= Len(w.vec)
    THEN With(kind = "any" \/ w.vec[i].k = kind, LAMBDA ok :
           [ok |-> ok, tok |-> w.vec[i], w |-> w, i |-> IF ok THEN i + 1 ELSE i])
    ELSE With(match(w, kind), LAMBDA m :
           [ok |-> m.ok, tok |-> m.tok, i |-> IF m.ok THEN i + 1 ELSE i,
            w |-> IF m.ok THEN [m.w EXCEPT !.vec = Append(@, m.tok)] ELSE m.w])

----------------------------------------------------------------------------
(* pp_funargs(): the arguments from position i on; a has them so far, the  *)
(* one that is being read (open unless none was begun) and the depth of    *)
(* parentheses.                                                            *)
RECURSIVE funargs_from(_, _, _, _), skip_spaces(_, _)

skip_spaces(w, i) ==
  With(match3(w, "space", i), LAMBDA m : IF m.ok THEN skip_spaces(m.w, m.i) ELSE m)

funargs_from(w, i, a, vaarg) ==
  With(match3(w, "any", i), LAMBDA m :
  LET fetched == i > Len(w.vec)
      closes  == m.tok.k = ")" /\ a.paren = 0
      paren   == CASE m.tok.k = "(" -> a.paren + 1 [] m.tok.k = ")" -> a.paren - 1 [] OTHER -> a.paren
      spaced  == IF fetched /\ m.tok.sp /\ a.arg # <<>> THEN Append(a.arg, Space) ELSE a.arg
      args    == IF a.open THEN Append(a.args, a.arg) ELSE a.args
  IN  CASE ~m.ok -> [args |-> <<>>, next |-> m.i, w |-> [m.w EXCEPT !.fail = TRUE]]
        [] m.ok /\ closes ->
             [args |-> IF Len(args) = vaarg THEN Append(args, <<>>) ELSE args, next |-> m.i, w |-> m.w]
        [] m.ok /\ m.tok.k = "," /\ paren = 0 /\ Len(a.args) < vaarg ->
             funargs_from(m.w, m.i, [a EXCEPT !.args = Append(@, a.arg), !.arg = <<>>, !.open = TRUE], vaarg)
        [] OTHER ->
             funargs_from(m.w, m.i,
               [a EXCEPT !.paren = paren, !.open = TRUE,
                         !.arg = IF m.tok.k = "space" /\ spaced = <<>> THEN spaced ELSE Append(spaced, m.tok)],
               vaarg))

\* next = 0: there is no list of arguments.
pp_funargs(w, i, vaarg) ==
  With(With(skip_spaces(w, i), LAMBDA s : match3(s.w, "(", s.i)), LAMBDA m :
    IF m.ok THEN funargs_from(m.w, m.i, [args |-> <<>>, arg |-> <<>>, open |-> FALSE, paren |-> 0], vaarg)
            ELSE [args |-> <<>>, next |-> 0, w |-> m.w])

----------------------------------------------------------------------------
(* macro.c.                                                                *)
\* glue1(): the last token of y.os and tok become one identifier.
glue1(y, tok) ==
  IF y.os = <<>> THEN [y EXCEPT !.os = <<tok>>]
  ELSE LET f == Fresh(y.w, Tok("id", Last(y.os).s \o tok.s))
       IN  [y EXCEPT !.w = f.w, !.os = Append(Front(@), f.tok)]
glue(y, toks) == LET g == glue1(y, Head(toks)) IN [g EXCEPT !.os = @ \o Tail(toks)]

stringize(arg) == Tok("str", FlattenSeq([i \in 1..Len(arg) |-> arg[i].s]))

(* Mutant: an argument's closing parenthesis hides nothing. *)
hsadd_idents(w, toks, hs) ==
  LET ids == {toks[i].id : i \in {j \in DOMAIN toks : toks[j].k = "id"}}
  IN  [w EXCEPT !.hide = AsSeq([t \in DOMAIN @ |-> IF t \in ids THEN @[t] \cup hs ELSE @[t]])]

\* hsadd(): the hide sets of the tokens themselves grow.
hsadd(w, toks, hs) ==
  LET ids == {toks[i].id : i \in {j \in DOMAIN toks : toks[j].k \in {"id", ")"}}}
  IN  [w EXCEPT !.hide = AsSeq([t \in DOMAIN @ |-> IF t \in ids THEN @[t] \cup hs ELSE @[t]])]

RECURSIVE macro_expand(_, _), subst_from(_, _, _, _)

\* subst(): y.os is what the body has given up to its token i.  An argument is
\* expanded where it is, once and for all.
subst_from(y, body, params, i) ==
  LET tok  == body[i]
      at(k) == IF k \in DOMAIN body THEN body[k] ELSE NoTok
      j    == ParamIndex(params, tok)
      next == at(i + 1)
      jn   == ParamIndex(params, next)
      jj   == ParamIndex(params, at(i + 2))
      s    == Fresh(y.w, stringize(y.args[jn]))
  IN  CASE i > Len(body) -> y
        [] i <= Len(body) /\ tok.k = "#" /\ jn # 0 ->
             subst_from([y EXCEPT !.w = s.w, !.os = Append(@, s.tok)], body, params, i + 2)
        [] i <= Len(body) /\ tok.k = "##" /\ y.os # <<>> /\ i < Len(body) ->
             subst_from(IF jn = 0 THEN glue1(y, next)
                        ELSE IF y.args[jn] = <<>> THEN y ELSE glue(y, y.args[jn]), body, params, i + 2)
        [] i <= Len(body) /\ j # 0 /\ next.k = "##" ->
             IF y.args[j] = <<>>
               THEN subst_from([y EXCEPT !.os = IF jj = 0 THEN @ ELSE @ \o y.args[jj]], body, params, i + 3)
               ELSE subst_from([y EXCEPT !.os = @ \o y.args[j]], body, params, i + 1)
        [] i <= Len(body) /\ j # 0 /\ next.k # "##" ->
             With(macro_expand([y.w EXCEPT !.vec = y.args[j]], 1), LAMBDA e :
               subst_from([y EXCEPT !.w = e, !.args[j] = e.vec, !.os = @ \o e.vec], body, params, i + 1))
        [] OTHER -> subst_from([y EXCEPT !.os = Append(@, tok)], body, params, i + 1)

subst(w, macro, args, hs) ==
  With(subst_from([w |-> w, args |-> args, os |-> <<>>], macro.body, macro.params, 1),
       LAMBDA y : [w |-> hsadd(y.w, y.os, hs), os |-> y.os])

\* The token at i and what belongs to it, up to next, give way to the body.
Replaced(w, i, next, args, hs) ==
  With(subst(w, w.defs[w.vec[i].s], args, hs), LAMBDA r :
    [r.w EXCEPT !.vec = SubSeq(w.vec, 1, i - 1) \o r.os \o SubSeq(w.vec, next, Len(w.vec))])

CanExpand(w, tok) == IsIdent(tok) /\ tok.s \in DOMAIN w.defs /\ tok.s \notin get_hideset(w, tok)

\* One turn of macro_expand()'s loop at position i; what replaced the token is
\* looked at again.
ExpandAt(w, i) ==
  LET tok   == w.vec[i]
      macro == w.defs[tok.s]
      hs    == get_hideset(w, tok)
  IN  CASE ~CanExpand(w, tok) -> [w |-> w, i |-> i + 1]
        [] CanExpand(w, tok) /\ ~macro.fn ->
             [w |-> Replaced(w, i, i + 1, <<>>, hs \cup {tok.s}), i |-> i]
        [] OTHER ->
             With(pp_funargs(w, i + 1, IF macro.va THEN Len(macro.params) - 1 ELSE 99), LAMBDA a :
               IF a.next = 0 THEN [w |-> a.w, i |-> i + 1]
               ELSE IF a.w.fail \/ Len(a.args) # Len(macro.params)
                 THEN [w |-> [a.w EXCEPT !.fail = TRUE], i |-> Len(a.w.vec) + 1]
                 ELSE [w |-> Replaced(a.w, i, a.next, a.args,
                               (hs \cap get_hideset(a.w, a.w.vec[a.next - 1])) \cup {tok.s}), i |-> i])

macro_expand(w, i) ==
  IF w.fail \/ i > Len(w.vec) THEN w
  ELSE With(ExpandAt(w, i), LAMBDA x : macro_expand(x.w, x.i))
=============================================================================
