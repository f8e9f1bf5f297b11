----------------------------- MODULE MCFrontEnd -----------------------------
(* Expressions of every kind over a few objects, and structures with bit-  *)
(* fields of every small shape.                                             *)
EXTENDS FrontEnd

tyUInt  == get_fixnum_type(FX_INT, TRUE)
tyUChar == get_fixnum_type(FX_CHAR, TRUE)
tyShort == get_fixnum_type(FX_SHORT, FALSE)
tyLong  == tySSize
Plain(n, t) == MemberDecl(n, t, 0)

Inner == structof("inner", create_struct_info(<<Plain("y", tyInt), Plain("z", tyChar)>>, FALSE))
S == structof("S", create_struct_info(
       <<Plain("c", tyChar), Plain("x", tyInt), MemberDecl("f", tyInt, 3), MemberDecl("g", tyInt, 4),
         MemberDecl("h", tyUInt, 2), MemberDecl("k", tyChar, 1), Plain("", Inner)>>, FALSE))
Either == structof("U", create_struct_info(<<Plain("x", tyInt), Plain("y", tyChar), Plain("", Inner)>>, TRUE))
Fn == funcof(tyInt, <<tyInt, tyChar>>)

\* Structures of one to three members, the first bit-fields.
FieldTypes == <<<<tyInt, 3>>, <<tyInt, 6>>, <<tyChar, 1>>, <<tyUInt, 5>>, <<tyShort, 3>>, <<tyLong, 9>>, <<tyChar, 0>>, <<tyShort, 5>>>>
FieldName == <<"f1", "f2", "f3">>
MembersOf(q) == [j \in DOMAIN q |-> MemberDecl(FieldName[j], FieldTypes[q[j]][1], FieldTypes[q[j]][2])] \o <<>>
Shapes == LET N == DOMAIN FieldTypes
          IN  {q \in {<<x>> : x \in N} \cup {<<x, y>> : x, y \in N} \cup {<<x, y, z>> : x, y, z \in N} :
                 parse_struct_ok(MembersOf(q)) /\ \E j \in DOMAIN q : FieldTypes[q[j]][2] > 0}
BitStruct(q) == structof("T", create_struct_info(MembersOf(q), FALSE))

Obj(t, a) == [type |-> t, addr |-> a]
Scope ==
  "i" :> Obj(tyInt, 1) @@ "u" :> Obj(tyUInt, 5) @@ "c" :> Obj(tyChar, 9) @@ "b" :> Obj(tyUChar, 10)
  @@ "p" :> Obj(ptrof(tyInt), 11) @@ "l" :> Obj(tyLong, 19) @@ "a" :> Obj(arrayof(tyInt, 2), 27)
  @@ "s" :> Obj(S, 35) @@ "q" :> Obj(ptrof(S), 59) @@ "v" :> Obj(ptrof(tyVoid), 67)
  @@ "ci" :> Obj(constof(tyInt), 1) @@ "f" :> Obj(Fn, 200) @@ "fp" :> Obj(ptrof(Fn), 75)
  @@ "e" :> Obj(Either, 83)

Bytes(v, n) == [j \in 1..n |-> (v \div Byte^(j - 1)) % Byte] \o <<>>
Mem(i, u, c, b, l) ==
  Bytes(i, 4) \o Bytes(u, 4) \o Bytes(c, 1) \o Bytes(b, 1) \o Bytes(27, 8) \o Bytes(l, 8)
  \o Bytes(9, 4) \o Bytes(77, 4) \o Bytes(21 + 256 * 97, 8) \o Bytes(27342, 8) \o Bytes(11111, 8)
  \o Bytes(35, 8) \o Bytes(31, 8) \o Bytes(200, 8) \o Bytes(1234, 8)
  \o [j \in 1..24 |-> 3]
MCMemories == {Mem(1, 200, 1, 3, 300), Mem(251, 3, 2, 1, 65531)}
MCAnswers == <<5>>
MCMinRegSizes == {1, 4}

Ids(X) == {Id(x) : x \in X}
Operands == Ids({"i", "u", "c", "b", "l", "p", "a"}) \cup {I(5)}
Binary == {"+", "-", "*", "/", "%", "&", "|", "^", "<<", ">>", "<", "<=", ">", ">=", "==", "!=", "&&", "||", ","}
Lvals == Ids({"i", "u", "c", "l", "p", "ci", "s", "a"}) \cup {U("*", Id("p")), Idx(Id("a"), I(1)), Fld(Id("s"), "x"),
          Arw(Id("q"), "x"), Fld(Id("s"), "f"), Fld(Id("s"), "h"), Arw(Id("q"), "g"), Arw(Id("q"), "k"), I(3),
          Fld(Id("e"), "x"), Fld(Id("e"), "y"),
          Fld(Id("s"), "z")}
Sets == {"=", "+=", "-=", "*=", "/=", "%=", "&=", "|=", "^=", "<<=", ">>="}
Incs == {"++x", "--x", "x++", "x--"}
Unary == {"+", "-", "!", "~", "*", "&"}
Conds == {B("<", Id("i"), I(3)), Id("p"), I(1), I(0), Id("c"), Id("s"), B("&&", Id("i"), Id("p")), Seq2(Id("i"), Id("c"))}

Two    == {B(op, x, y) : op \in Binary, x, y \in Operands}
Three  == {B(o, B(n, Id("i"), Id("c")), I(2)) : o, n \in Binary} \cup {B(o, Id("i"), B(n, Id("c"), I(2))) : o, n \in Binary}
Ones   == {U(o, x) : o \in Unary, x \in Operands \cup Lvals \cup {Id("q")}}
          \cup {U("*", Id("f")), U("&", Id("f"))}
          \cup {U(o, U(n, x)) : o, n \in Unary, x \in Ids({"i", "c", "p"})}
          \cup {SizeOf(x) : x \in Operands \cup Lvals}
          \cup {Cast(t, x) : t \in {tyChar, tyInt, tyLong, tyUInt, ptrof(tyInt), tyVoid}, x \in Operands \cup {I(-3)}}
          \cup {Cast(tyChar, B("+", Id("i"), Id("c"))), B("+", Cast(tyChar, Id("i")), Id("c"))}
Nots   == {U("!", B(o, x, y)) : o \in Binary, x, y \in {Id("i"), Id("p"), I(2)}}
          \cup {U("!", U("!", B(o, Id("i"), B(n, Id("c"), I(1))))) : o, n \in {"&&", "||", "<", "=="}}
Stores == {Set(o, x, y) : o \in Sets, x \in Lvals, y \in {Id("c"), Id("u"), Id("l"), I(3)}}
          \cup {Set("=", Id("s"), U("*", Id("q"))), Set("=", Id("p"), I(0)), Set("=", Id("p"), Id("a")),
                Set("=", Id("i"), Set("+=", Id("c"), I(1))), Set("=", Id("s"), Id("i")), Set("=", Id("v"), Id("p"))}
Steps  == {Inc(o, x) : o \in Incs, x \in Lvals \ Ids({"s", "a"})}
          \cup {U("*", Inc("x++", Id("p"))), Inc("++x", U("*", Id("p"))), Set("+=", U("*", Inc("x++", Id("p"))), I(2)),
                Set("=", Idx(Id("a"), Inc("x--", Id("i"))), I(4)), U("-", Inc("--x", Id("c"))),
                U("!", Inc("x++", Arw(Id("q"), "f")))}
Picks  == {Cond(c, x, y) : c \in Conds, x, y \in Ids({"i", "c", "l", "p", "v", "a"}) \cup {I(0), I(3)}}
          \cup {Cond(Id("i"), Cond(Id("c"), I(1), I(2)), I(3)), Cond(Id("i"), I(1), Cond(Id("c"), I(2), I(3))),
                Cond(Cond(Id("i"), Id("c"), I(1)), I(2), I(3)), Set("=", Id("i"), Cond(Id("c"), Set("=", Id("u"), I(2)), I(7)))}
Places == {Idx(Id("a"), Id("i")), Idx(Id("i"), Id("a")), U("*", B("+", Id("a"), I(1))), B("-", U("&", Idx(Id("a"), I(1))), Id("a")),
           B("==", Id("p"), I(0)), B("!=", I(0), Id("p")), B("==", Id("v"), Id("p")), B("<", Id("p"), Id("q")),
           U("&", U("*", Id("p"))), U("*", U("&", Id("i"))), U("&", Fld(Id("s"), "f")), U("&", Arw(Id("q"), "x")),
           Cast(tyLong, U("&", Arw(Cast(ptrof(S), I(0)), "x"))), Fld(Id("s"), "y"), Arw(Id("q"), "z"),
           Fld(Id("s"), "nosuch"), Fld(Id("q"), "x"), Arw(Id("s"), "x"), Arw(Id("i"), "x"), Id("nosuch"),
           U("&", Arw(Id("q"), "z")), Idx(Id("p"), Id("p")), B("==", Id("f"), Id("fp"))}
Calls  == {App(Id("f"), <<Id("i"), Id("l")>>), App(Id("fp"), <<Id("l"), Id("i")>>), App(U("*", Id("fp")), <<I(3), Id("c")>>),
           App(Id("f"), <<Id("i")>>), App(Id("i"), <<>>), App(Id("f"), <<Inc("x++", Id("i")), Id("u")>>),
           B("&&", Id("c"), App(Id("f"), <<Id("i"), I(1)>>)), B("||", Id("i"), App(Id("f"), <<Id("i"), I(1)>>)),
           Set("+=", Id("i"), App(Id("f"), <<I(1), I(2)>>)), Set("+=", Idx(Id("a"), B("-", App(Id("f"), <<I(1), I(2)>>), I(4))), I(2)),
           Set("=", Fld(Id("s"), "f"), App(Id("f"), <<I(300), I(2)>>)), App(Id("f"), <<Id("s"), I(1)>>)}
Commas == {Seq2(x, Seq2(y, z)) : x, y, z \in {I(1), Id("c"), Set("=", Id("i"), I(2))}}
          \cup {Seq2(Seq2(x, y), z) : x, y, z \in {I(1), Id("c"), Set("=", Id("i"), I(2))}}
FieldUses(t, f) == LET x == Fld(Id(t), f)
                   IN  {x, Set("=", x, Id("i")), Set("+=", x, Id("i")), Set("-=", x, I(1)), Inc("++x", x), Inc("x--", x), U("!", x)}

(* Objects of many types, and what may be written as their initializer.     *)
Pair  == structof("P", create_struct_info(<<Plain("c", tyChar), Plain("x", tyInt)>>, FALSE))
Nest  == structof("N", create_struct_info(<<Plain("a", tyShort), Plain("p", Pair), Plain("z", tyChar)>>, FALSE))
Rows  == structof("R", create_struct_info(<<Plain("v", arrayof(tyShort, 2)), Plain("t", tyChar)>>, FALSE))
Anon  == structof("A", create_struct_info(<<Plain("a", tyChar), Plain("", Inner), Plain("w", tyChar)>>, FALSE))
Wrap  == structof("W", create_struct_info(<<Plain("a", tyChar), Plain("u", Either)>>, FALSE))
Bits  == structof("B", create_struct_info(<<MemberDecl("f", tyInt, 3), MemberDecl("g", tyInt, 4), Plain("z", tyChar)>>, FALSE))
Place0 == 91
InitTypes == {tyInt, tyChar, ptrof(tyInt), arrayof(tyShort, 3), arrayof(arrayof(tyShort, 2), 2), arrayof(tyChar, 3),
              arrayof(tyInt, Unsized), arrayof(tyChar, Unsized), arrayof(Pair, 2), Pair, Nest, Rows, Anon, Either, Wrap, Bits}
n1 == Ex(I(1))
n3 == Ex(I(3))
Words == {n1, Ex(I(-2)), Ex(Id("c")), Ex(Text(<<1, 2, 0>>)), Ex(Text(<<1, 2, 3, 0>>)), Ex(Text(<<1, 2, 3, 1, 0>>)), Ex(Id("s")),
          Ex(Id("pair")), Ex(U("&", Id("i"))), Ex(B("+", Id("a"), I(1))), Ex(U("&", Fld(Id("s"), "x"))), Ex(Id("p")), Lst(<<>>)}
Misfits == {At_("nosuch", n1), At_("y", n1), Nth(1, n1), Nth(7, n1), Ex(Id("s"))}
Plainly == {n1, Lst(<<n3>>), Lst(<<n3, Ex(I(2))>>)}
Picked(t) == IF t.k = "array" THEN {Nth(1, n1), Nth(0, n3), Nth(1, Lst(<<n1>>)), Ex(Text(<<1, 2, 0>>)), Ex(Id("pair"))}
             ELSE IF t.k = "struct" THEN {At_(f, v) : f \in {"x", "z", "p", "y", "w", "t"}, v \in {n1, Lst(<<n1>>)}} \cup {Ex(Id("pair"))}
             ELSE {}
Inits(t) ==
  LET known == {x \in Picked(t) : x.k # "field" \/ search_from_anonymous(t.info, x.f) # <<>>}
      items == Plainly \cup known
  IN  Words \cup {Lst(<<x>>) : x \in Words \cup Misfits \cup items} \cup {Lst(<<x, y>>) : x \in items, y \in items \cup Misfits}
      \cup {Lst(<<x, y, z>>) : x, y, z \in items}
      \cup {Lst(<<n1, x, y, n3>>) : x, y \in known \cup {n1}}

MCPrograms ==
  {[scope |-> Scope, decls |-> {}, exprs |-> Two \cup Three \cup Ones \cup Nots \cup Stores \cup Steps \cup Picks \cup Places \cup Calls \cup Commas]}
  \cup {[scope |-> ("t" :> Obj(BitStruct(q), 35)) @@ ("i" :> Obj(tyInt, 1)),
         decls |-> {}, exprs |-> UNION {FieldUses("t", FieldName[j]) : j \in DOMAIN q}] : q \in Shapes}
  \cup {[scope |-> ("x" :> Obj(t, Place0)) @@ ("pair" :> Obj(Pair, 46)) @@ Scope, decls |-> Inits(t), exprs |-> {}] : t \in InitTypes}
=============================================================================
