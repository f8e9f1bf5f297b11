------------------------------ MODULE Programs ------------------------------
(* Functions to compile: loops and jumps, switches, expressions.           *)
EXTENDS Source

x == Local(1, "i")
y == Local(2, "i")
w == Local(3, "u")
g == Global(1, "i")
c == Global(2, "c")
mem0 == Member(Global(3, "p"), 0, "i")
mem1 == Member(Global(3, "p"), 1, "i")
n(v) == Num(v, "i")
f == Call("f", "i", <<>>)
h(e) == Do(Call("h", "i", <<e>>))
Set(l, e) == Do(Bin("assign", l.t, l, e))
op(k, l, r) == Bin(k, "i", l, r)
Cast(t, e) == Un("cast", t, e)

\* Every local variable has a value from the start.
Shell(st) == Block(<<Set(y, n(1)), Set(w, Num(6, "u")), Set(x, f), st, h(op("add", x, y)),
                     Label("L", Set(g, y)), Return(x)>>)
\* wcc knows no labels.
Plain(st) == Block(<<Set(y, n(1)), Set(w, Num(6, "u")), Set(x, f), st, h(op("add", x, y)), Set(g, y), Return(x)>>)

\* Loops: what leaves them where, under which condition.
Conds == {op("lt", n(0), f),
          op("logand", op("ne", f, n(0)), op("ge", f, x)),
          op("logior", op("logand", op("gt", f, n(1)), op("ne", x, n(2))), op("eq", f, n(0)))}
Leaves == {h(x), Break, Continue, If(n(0), Break, None)}
Bodies(ls) == {Block(<<a, b>>) : a \in {If(d, l, e) : d \in Conds, l \in ls, e \in {None, Return(y)}}, b \in ls}
Loops(d, b) == {While(d, b), DoWhile(b, d), For(op("assign", y, n(2)), d, Un("postinc", "i", y), b),
                For(None, None, None, Block(<<b, If(d, None, Break)>>))}
Control(ls) == UNION {Loops(op("ne", f, n(0)), b) : b \in Bodies(ls)}

\* Backward jumps, and jumps into a loop from before it and from behind it.
Jumps == {Shell(Block(<<If(op("ne", f, n(0)), Goto("M"), None),
                        While(op("ne", f, n(0)), Block(<<h(x), Label("M", l), h(y)>>)),
                        If(op("eq", f, n(2)), Goto("M"), None)>>)) : l \in Leaves \cup {Goto("L")}}

\* Switches: the cases' values, and where default stands among them.
Ids == <<"c1", "c2", "c3", "c4", "c5">>
CaseLists ==
  {[i \in DOMAIN vs |-> CaseOf(Ids[i], vs[i])] :
     vs \in {<<>>, <<1>>, <<2, 0>>, <<0, 1, 2, 3>>, <<3, 1, 2>>, <<-4, -1, 0, 3>>, <<1, -4, 3, -2, 0>>}}
  \cup {<<Default("d")>>, <<CaseOf("c1", 2), Default("d"), CaseOf("c2", 0)>>,
        <<Default("d"), CaseOf("c1", 3), CaseOf("c2", 0), CaseOf("c3", 2), CaseOf("c4", 1)>>}
SwitchBody(cs, out) ==
  Block(AsSeq([i \in 1..(2 * Len(cs)) |->
    LET id == cs[(i + 1) \div 2].id
    IN  IF i % 2 = 1 THEN Case(id) ELSE Block(<<h(n((i \div 2) - 3)), If(op("ne", f, n(0)), out, None)>>)]))
Switches(outs) ==
  UNION {{Switch(e, cs, SwitchBody(cs, out)) : e \in {x, Bin("comma", "i", Set(y, x).e, n(2))}, out \in outs} : cs \in CaseLists}
  \cup {While(op("ne", f, n(0)), Block(<<Set(x, f), Switch(x, cs, SwitchBody(cs, Continue)), h(y)>>)) : cs \in CaseLists}
  \cup {Switch(w, cs, SwitchBody(cs, Break)) :
          cs \in {[i \in DOMAIN vs |-> CaseOf(Ids[i], vs[i])] : vs \in {<<7, 6, 0>>, <<5, 6, 7, 4>>}}}

\* Expressions: every operator, on values of every type, in every place; each
\* value with the objects it touches, as C says nothing of `x < x++'.
Values == {<<x, {"x"}>>, <<f, {}>>, <<n(3), {}>>, <<Cast("i", c), {"c"}>>, <<mem1, {"m1"}>>,
           <<Un("deref", "i", Un("ref", "p", mem0)), {"m0"}>>, <<op("assign", y, f), {"y"}>>,
           <<Un("postinc", "i", x), {"x"}>>, <<Un("predec", "i", mem0), {"m0"}>>,
           <<Cast("i", Un("postdec", "c", c)), {"c"}>>, <<Cast("i", Cast("c", x)), {"x"}>>,
           <<Cast("i", Cast("u", x)), {"x"}>>, <<Un("neg", "i", x), {"x"}>>, <<Un("bitnot", "i", f), {}>>,
           <<op("logand", op("ne", x, n(0)), op("gt", f, n(0))), {"x"}>>, <<op("lt", n(1), x), {"x"}>>,
           <<Ternary(op("eq", x, n(1)), f, y), {"x", "y"}>>,
           <<Call("k", "i", <<op("add", x, n(1)), Call("f", "i", <<y>>)>>), {"x", "y"}>>,
           <<Bin("comma", "i", Un("preinc", "i", g), g), {"g"}>>}
Pairs == {p \in Values \X Values : p[1][2] \cap p[2][2] = {}}
Exprs == {op("sub", p[1][1], p[2][1]) : p \in Pairs}
         \cup {op("lt", x, p[1]) : p \in {v \in Values : "x" \notin v[2]}}
         \cup {op(k, a, n(v)) : k \in ArithOps \ {"shl", "shr"}, a \in {x, f}, v \in {1, 2, 3}}
         \cup {op(k, n(v), a) : k \in ArithOps \ {"shl", "shr", "div", "mod", "sub"}, a \in {x, f}, v \in {0, 1, 2}}
         \cup {op(k, a, n(0)) : k \in {"add", "sub", "mul", "or", "xor", "and"}, a \in {x, f}}
         \cup {Cast("i", Bin(k, "u", w, Num(v, "u"))) : k \in {"shl", "shr", "div", "mod"}, v \in {1, 2}}
         \cup {op(k, a, op("and", f, n(1))) : k \in {"shl", "shr"}, a \in {n(1), x}}
         \cup {Cast("i", Bin(k, "u", w, Cast("u", op("and", f, n(1))))) : k \in {"shl", "shr"}}
         \cup {op("gt", n(1), Bin("lt", "i", w, Cast("u", x)))}
Uses(e) == {Block(<<h(e), Return(x)>>), If(op("ne", e, n(0)), h(y), Set(g, e))}
ExprStmts == UNION {Uses(e) : e \in Exprs}
=============================================================================
