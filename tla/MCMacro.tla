------------------------------ MODULE MCMacro ------------------------------
(***************************************************************************)
(* Models of Macro for TLC.                                                *)
(***************************************************************************)
EXTENDS Macro

Name(x) == <<x>>
I(x) == Tok("id", Name(x))
N(v) == Number(v)
K(k) == Tok(k, <<k>>)
Sp(t) == [t EXCEPT !.sp = TRUE]

Call(f, args) == <<I(f), K("(")>> \o args \o <<K(")")>>

(* Macros that name each other and themselves.                             *)
BodiesA == {<<>>, <<I("B")>>, <<N(1)>>, <<I("f")>>, Call("f", <<I("B")>>), <<I("A"), Sp(N(1))>>,
            <<I("f"), Sp(K("(")), I("A")>>}
BodiesB == {<<I("A")>>, <<N(2)>>, <<I("B"), I("A")>>}
BodiesF == {<<I("x")>>, <<I("x"), Sp(I("x"))>>, <<K("#"), I("x"), I("x")>>, <<I("x"), Sp(K("##")), Sp(N(2))>>,
            Call("g", <<I("x"), K(","), I("A")>>), <<I("f"), I("x")>>, <<I("A"), I("x")>>}
BodiesG == {<<I("x"), K("##"), I("y")>>, <<I("y"), I("x")>>, Call("f", <<I("y")>>) \o <<I("x")>>,
            <<K("#"), I("y"), I("x")>>}
Texts == {<<I("A")>>, <<I("B"), N(3)>>, Call("f", <<I("A")>>), Call("f", <<N(4)>>) \o <<K("("), N(1), K(")")>>,
          Call("g", <<I("A"), K(","), Sp(I("B"))>>), Call("g", Call("f", <<N(1)>>) \o <<K(",")>>),
          <<I("A"), K("("), I("B"), K(")")>>, Call("f", Call("g", <<I("A"), K(","), I("B")>>)),
          Call("v", <<N(1), K(","), I("A"), K(","), I("B")>>), Call("v", <<I("A")>>)}

Defs(a, b, f, g) ==
  <<Define(Name("A"), FALSE, <<>>, FALSE, a), Define(Name("B"), FALSE, <<>>, FALSE, b),
    Define(Name("f"), TRUE, <<Name("x")>>, FALSE, f), Define(Name("g"), TRUE, <<Name("x"), Name("y")>>, FALSE, g),
    Define(Name("v"), TRUE, <<Name("x"), Name("r")>>, TRUE, <<I("r"), K(","), I("x")>>)>>

\* No two macros name each other in a circle; each may name itself.
Mentions(d) == {d.toks[j].s : j \in {n \in DOMAIN d.toks : d.toks[n].k = "id"}} \ {d.name}
RECURSIVE Reach(_, _)
Reach(defs, S) ==
  LET T == S \cup UNION {Mentions(defs[j]) : j \in {n \in DOMAIN defs : defs[n].name \in S}}
  IN  IF T = S THEN S ELSE Reach(defs, T)
Circular(defs) == \E j \in DOMAIN defs : defs[j].name \in Reach(defs, Mentions(defs[j]))

Macros(circular) ==
  {d \in {Defs(a, b, f, g) : a \in BodiesA, b \in BodiesB, f \in BodiesF, g \in BodiesG} :
     Circular(d) => circular}
Lines(n, circular) == {d \o [j \in 1..n |-> Line(t)] : d \in Macros(circular), t \in Texts}

(* Expressions: two operators in every order, with and without parentheses *)
(* and signs; conditions; macros.                                          *)
Ops == UNION {Levels[l] : l \in DOMAIN Levels}
SafeOps == Ops \ {"/", "%", "<<", ">>"}
Pairs == {<<3, 2, 1>>, <<1, 3, 2>>}
Exprs ==
  {<<N(v[1]), K(p), N(v[2]), K(q), N(v[3])>> : v \in Pairs, p \in Ops, q \in Ops}
  \cup {<<N(v[1]), K(p), K("("), N(v[2]), K(q), N(v[3]), K(")")>> : v \in Pairs, p \in SafeOps, q \in Ops}
  \cup {<<K(u), N(v[1]), K(p), N(v[2]), K(q), N(v[3])>> :
           u \in UnaryOps, v \in Pairs, p \in Ops, q \in {"+", "*", "==", "&&", "||"}}
  \cup {<<N(a), K("?"), N(1), K(o), N(b), K("?"), N(2), K(":"), N(3), K(":"), N(0), K("?"), N(4), K(":"), N(5)>> :
           a \in {0, 1}, b \in {0, 1}, o \in {",", "-"}}
  \cup {<<I("defined"), K("("), I(nm), K(")"), K(p), K("!"), I("defined"), I("X"), K(q), N(1)>> :
           nm \in {"X", "U"}, p \in SafeOps, q \in Ops}
  \cup {e \o <<K(p), N(2), K(q), N(1)>> : p \in Ops, q \in Ops,
           e \in {<<I("X")>>, <<I("E"), N(3)>>, Call("F", <<I("X")>>), <<I("U")>>, <<I("S")>>}}
Ifs == <<Define(Name("X"), FALSE, <<>>, FALSE, <<K("-"), N(2), K("+"), N(2)>>),
         Define(Name("E"), FALSE, <<>>, FALSE, <<>>), Define(Name("S"), FALSE, <<>>, FALSE, <<I("S")>>),
         Define(Name("U"), FALSE, <<>>, FALSE, <<N(1)>>), Undef(Name("U")),
         Define(Name("F"), TRUE, <<Name("x")>>, FALSE, <<I("x"), K("*"), N(2)>>)>>

MCSources == Lines(1, FALSE) \cup {Append(Ifs, If(e)) : e \in Exprs}

=============================================================================
