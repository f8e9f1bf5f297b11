------------------------------- MODULE PpExpr -------------------------------
(***************************************************************************)
(* The expression of an #if (pp_parser.c): evaluated while it is read, by  *)
(* one function for each precedence.  A result is the value v and w.       *)
(***************************************************************************)
EXTENDS MacroExpand

\* From the weakest operators to the strongest: pp_logior() to pp_mul().
Levels == <<{"||"}, {"&&"}, {"|"}, {"^"}, {"&"}, {"==", "!="}, {"<", ">", "<=", ">="},
            {"<<", ">>"}, {"+", "-"}, {"*", "/", "%"}>>

Truth(p) == IF p THEN 1 ELSE 0
TruncDiv(a, b) ==
  LET q == (IF a < 0 THEN -a ELSE a) \div (IF b < 0 THEN -b ELSE b)
  IN  IF (a < 0) = (b < 0) THEN q ELSE -q
\* The bits of two numbers in two's complement, the sign included.
RECURSIVE Bitwise(_, _, _, _)
Bitwise(op, a, b, n) ==
  LET p == a % 2
      q == b % 2
      c == CASE op = "|" -> p + q - p * q [] op = "^" -> (p + q) % 2 [] op = "&" -> p * q
  IN  IF n = 0 THEN -c ELSE c + 2 * Bitwise(op, a \div 2, b \div 2, n - 1)
Width == 5

Binary(op, a, b) ==
  CASE op = "||" -> Truth(a # 0 \/ b # 0)
    [] op = "&&" -> Truth(a # 0 /\ b # 0)
    [] op \in {"|", "^", "&"} -> Bitwise(op, a, b, Width)
    [] op = "==" -> Truth(a = b)
    [] op = "!=" -> Truth(a # b)
    [] op = "<"  -> Truth(a < b)
    [] op = ">"  -> Truth(a > b)
    [] op = "<=" -> Truth(a <= b)
    [] op = ">=" -> Truth(a >= b)
    [] op = "<<" -> a * 2^b
    [] op = ">>" -> a \div 2^b
    [] op = "+"  -> a + b
    [] op = "-"  -> a - b
    [] op = "*"  -> a * b
    [] op = "/"  -> TruncDiv(a, b)
    [] op = "%"  -> a - b * TruncDiv(a, b)

Unary(op, a) ==
  CASE op = "+" -> a [] op = "-" -> -a [] op = "!" -> Truth(a = 0) [] op = "~" -> -a - 1

UnaryOps == {"+", "-", "!", "~"}

----------------------------------------------------------------------------
Value(w, v) == [w |-> w, v |-> v]
Failed(w) == Value([w EXCEPT !.fail = TRUE], 0)

\* pp_consume() after a value.
Consumed(r, kind) == With(match(r.w, kind), LAMBDA m : IF m.ok THEN Value(m.w, r.v) ELSE Failed(m.w))

\* The names push_lex() has hidden (macro_hideset).
Pushed(w) == {w.lex[i].ident : i \in DOMAIN w.lex}

\* parse_defined().
parse_defined(w) ==
  LET p    == match(w, "(")
      name == match(p.w, "id")
      r    == Value(name.w, Truth(name.tok.s \in DOMAIN w.defs))
  IN  IF ~name.ok THEN Failed(name.w) ELSE IF p.ok THEN Consumed(r, ")") ELSE r

RECURSIVE pp_expr(_), pp_comma(_), pp_conditional(_), pp_binary(_, _), pp_operands(_, _), pp_unary(_), pp_prim(_)

\* expand_ident(): the expansion is read as a new text in front of the rest,
\* and what it begins with is evaluated as an expression of its own.
expand_ident(w, tok) ==
  IF tok.s \in Pushed(w) \/ tok.s \notin DOMAIN w.defs THEN Value(w, 0)
  ELSE With(macro_expand([w EXCEPT !.vec = <<tok>>], 1), LAMBDA e :
         IF e.fail THEN Failed(e)
         ELSE With(FreshAll(e, SelectSeq(e.vec, LAMBDA t : t.k # "space")), LAMBDA f :
                pp_expr([f.w EXCEPT !.lex = Append(@, [rest |-> e.rest, ident |-> tok.s]), !.rest = f.toks])))

pp_prim(w) ==
  LET p  == match(w, "(")
      n  == match(w, "num")
      id == match(w, "id")
  IN  CASE p.ok -> With(pp_expr(p.w), LAMBDA r : Consumed(r, ")"))
        [] ~p.ok /\ n.ok -> Value(n.w, n.tok.n)
        [] ~p.ok /\ ~n.ok /\ id.ok ->
             IF id.tok.s = <<"defined">> THEN parse_defined(id.w) ELSE expand_ident(id.w, id.tok)
        [] OTHER -> Failed(id.w)

pp_unary(w) ==
  With(match(w, "any"), LAMBDA m :
    IF m.ok /\ m.tok.k \in UnaryOps
      THEN With(pp_unary(m.w), LAMBDA r : Value(r.w, Unary(m.tok.k, r.v)))
      ELSE pp_prim(w))

\* Division by zero ends cpp with an error.
Applied(l, op, r) ==
  IF r.w.fail \/ (op \in {"/", "%"} /\ r.v = 0) THEN Failed(r.w) ELSE Value(r.w, Binary(op, l.v, r.v))

(* Mutant: -, / and % take what is on their right first. *)
pp_operands_right(r, l) ==
  With(match(r.w, "any"), LAMBDA m :
    IF r.w.fail \/ ~m.ok \/ m.tok.k \notin Levels[l] THEN r
    ELSE pp_operands(Applied(r, m.tok.k, pp_binary(m.w, l)), l))

\* The loop of pp_logior() .. pp_mul() behind its first operand; pp_logand()
\* calls itself for the second one.
pp_operands(r, l) ==
  With(match(r.w, "any"), LAMBDA m :
    IF r.w.fail \/ ~m.ok \/ m.tok.k \notin Levels[l] THEN r
    ELSE pp_operands(Applied(r, m.tok.k, pp_binary(m.w, IF Levels[l] = {"&&"} THEN l ELSE l + 1)), l))

pp_binary(w, l) ==
  IF l > Len(Levels) THEN pp_unary(w) ELSE With(pp_binary(w, l + 1), LAMBDA r : pp_operands(r, l))

pp_conditional(w) ==
  With(pp_binary(w, 1), LAMBDA c :
  With(match(c.w, "?"), LAMBDA m :
    IF ~m.ok THEN c
    ELSE With(Consumed(pp_expr(m.w), ":"), LAMBDA t :
         With(pp_conditional(t.w), LAMBDA f : Value(f.w, IF c.v # 0 THEN t.v ELSE f.v)))))

pp_comma(r) == With(match(r.w, ","), LAMBDA m : IF m.ok THEN pp_comma(pp_conditional(m.w)) ELSE r)
pp_expr(w) == With(pp_conditional(w), pp_comma)
=============================================================================
