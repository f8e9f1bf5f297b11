------------------------------ MODULE CMeaning ------------------------------
(***************************************************************************)
(* What C says of an expression: the reference the expression parser is    *)
(* compared with.  An expression is what a programmer writes, without      *)
(* types; it is given its type by the rules of C (C11 6.3, 6.5), its value *)
(* and its effects on memory, bit-fields bit by bit.                       *)
(*                                                                         *)
(* An evaluation the standard leaves undefined (overflow, a shift by too   *)
(* much, division by zero, an access outside any object) ends with o =     *)
(* "ub"; nothing is then expected of the compiler.                         *)
(***************************************************************************)
EXTENDS Trees

Lit(v, t)      == [k |-> "lit", n |-> v, t |-> t]
I(v)           == Lit(v, tyInt)
Text(chars)    == [k |-> "str", chars |-> chars]                   \* with its final NUL
Id(x)          == [k |-> "id", x |-> x]
B(op, l, r)    == [k |-> "bin", op |-> op, l |-> l, r |-> r]
U(op, s)       == [k |-> "un", op |-> op, s |-> s]
Cast(t, s)     == [k |-> "cast", t |-> t, s |-> s]
Cond(c, l, r)  == [k |-> "cond", c |-> c, l |-> l, r |-> r]
Set(op, l, r)  == [k |-> "set", op |-> op, l |-> l, r |-> r]       \* op: "=", "+=", ...
Inc(op, s)     == [k |-> "inc", op |-> op, s |-> s]                \* "++x", "x++", "--x", "x--"
Idx(l, r)      == [k |-> "idx", l |-> l, r |-> r]
Fld(s, f)      == [k |-> "fld", s |-> s, f |-> f, arrow |-> FALSE]
Arw(s, f)      == [k |-> "fld", s |-> s, f |-> f, arrow |-> TRUE]
App(f, args)   == [k |-> "app", f |-> f, args |-> args]
SizeOf(s)      == [k |-> "sizeof", s |-> s]
Seq2(l, r)     == [k |-> "bin", op |-> ",", l |-> l, r |-> r]

----------------------------------------------------------------------------
(* Types.  What an expression is: its type, whether it denotes an object,   *)
(* and the bit-field it denotes, if any.                                    *)
NoField   == [name |-> "", width |-> 0]
Is(t)     == [t |-> t, lv |-> FALSE, bf |-> NoField]
IsObj(t)  == [t |-> t, lv |-> TRUE, bf |-> NoField]
Wrong     == Is([k |-> "wrong", const |-> FALSE])
Bad(c)    == c.t.k = "wrong"

\* The type of the value: arrays and functions decay, qualifiers go.
ValueType(c) == CASE c.t.k = "array" -> ptrof(c.t.of)
                  [] c.t.k = "func"  -> ptrof(c.t)
                  [] OTHER -> [c.t EXCEPT !.const = FALSE]

Promote(c) ==
  LET t == ValueType(c)
  IN  Where(c.bf.width > 0 /\ c.bf.width < BitsOf(tyInt), LAMBDA fits :
    IF t.kind < FX_INT \/ (t.kind = FX_INT /\ fits) THEN tyInt ELSE t)

\* The usual arithmetic conversions; of a signed and an unsigned type.
MixedSigns(s, u) ==
  IF u.kind >= s.kind THEN u ELSE IF BitsOf(s) > BitsOf(u) THEN s ELSE get_fixnum_type(s.kind, TRUE)
Usual(c, d) ==
  Where(Promote(c), LAMBDA a :
  Where(Promote(d), LAMBDA b :
    IF a.uns = b.uns THEN IF a.kind >= b.kind THEN a ELSE b
    ELSE IF a.uns THEN MixedSigns(b, a) ELSE MixedSigns(a, b)))

IsNull(e) == e.k = "lit" /\ e.n = 0

FieldOf(c, f) ==
  LET RECURSIVE find(_)
      find(info) ==
        LET ms   == info.members
            here == {[m |-> ms[i], ofs |-> 0] : i \in {j \in DOMAIN ms : ms[j].name = f}}
            deep == UNION {{[m |-> d.m, ofs |-> d.ofs + ms[i].offset] : d \in find(ms[i].type.info)}
                             : i \in {j \in DOMAIN ms : ms[j].name = "" /\ ms[j].type.k = "struct"}}
        IN  here \cup deep
  IN  find(c.info)

ArithNames == "+" :> "add" @@ "-" :> "sub" @@ "*" :> "mul" @@ "/" :> "div" @@ "%" :> "mod" @@
              "&" :> "and" @@ "|" :> "or" @@ "^" :> "xor" @@ "<<" :> "shl" @@ ">>" :> "shr"
CompareNames == "==" :> "eq" @@ "!=" :> "ne" @@ "<" :> "lt" @@ "<=" :> "le" @@ ">" :> "gt" @@ ">=" :> "ge"
SetNames == "+=" :> "+" @@ "-=" :> "-" @@ "*=" :> "*" @@ "/=" :> "/" @@ "%=" :> "%" @@
            "&=" :> "&" @@ "|=" :> "|" @@ "^=" :> "^" @@ "<<=" :> "<<" @@ ">>=" :> ">>"

\* The type of l op r, for operands of which C says c and d.
BinType(op, c, d, nulls) ==
  LET a == ValueType(c)
      b == ValueType(d)
      same == a.k = "ptr" /\ b.k = "ptr" /\ same_type_without_qualifier(a, b)
  IN  IF a.k = "fix" /\ b.k = "fix"
      THEN IF op \in DOMAIN CompareNames THEN tyInt ELSE IF op \in {"<<", ">>"} THEN Promote(c) ELSE Usual(c, d)
      ELSE CASE op \in {"+", "-"} /\ a.k = "ptr" /\ b.k = "fix" -> a
             [] op = "+" /\ a.k = "fix" /\ b.k = "ptr" -> b
             [] op = "-" /\ same -> tySSize
             [] op \in DOMAIN CompareNames ->
                  IF \/ same \/ (scalar(a) /\ scalar(b) /\ nulls)
                     \/ a.k = "ptr" /\ b.k = "ptr" /\ (is_void_ptr(a) \/ is_void_ptr(b))
                  THEN tyInt ELSE Wrong.t
             [] OTHER -> Wrong.t

RECURSIVE CType(_)
CType(e) ==
  Where(CType(e.l), LAMBDA c :
  Where(CType(e.r), LAMBDA d :
  Where(CType(e.s), LAMBDA s :
  LET sv == ValueType(s)
  IN  CASE e.k = "lit" -> Is(e.t)
        [] e.k = "str" -> IsObj(arrayof(tyChar, Len(e.chars)))
        [] e.k = "id"  -> IF e.x \in DOMAIN scope THEN IsObj(scope[e.x].type) ELSE Wrong
        [] e.k = "bin" /\ e.op \in {"&&", "||"} ->
             IF scalar(ValueType(c)) /\ scalar(ValueType(d)) THEN Is(tyInt) ELSE Wrong
        [] e.k = "bin" /\ e.op = "," -> IF Bad(c) \/ Bad(d) THEN Wrong ELSE Is(ValueType(d))
        [] e.k = "bin" /\ e.op \notin {"&&", "||", ","} ->
             IF Bad(c) \/ Bad(d) THEN Wrong ELSE Is(BinType(e.op, c, d, IsNull(e.l) \/ IsNull(e.r)))
        [] e.k = "un" /\ e.op \in {"-", "+", "~"} -> IF sv.k = "fix" THEN Is(Promote(s)) ELSE Wrong
        [] e.k = "un" /\ e.op = "!" -> IF scalar(sv) THEN Is(tyInt) ELSE Wrong
        [] e.k = "un" /\ e.op = "*" -> IF sv.k = "ptr" THEN IsObj(sv.to) ELSE Wrong
        [] e.k = "un" /\ e.op = "&" -> IF s.lv /\ s.bf.width = 0 THEN Is(ptrof(s.t)) ELSE Wrong
        [] e.k = "cast" -> IF Bad(s) THEN Wrong
                           ELSE IF e.t.k = "void" \/ (scalar(e.t) /\ scalar(sv)) THEN Is(e.t) ELSE Wrong
        [] e.k = "cond" ->
             Where(CType(e.c), LAMBDA p :
             LET a == ValueType(c)
                 b == ValueType(d)
             IN  IF Bad(c) \/ Bad(d) \/ ~scalar(ValueType(p)) THEN Wrong
                 ELSE IF a.k = "fix" /\ b.k = "fix" THEN Is(Usual(c, d))
                 ELSE IF a.k = "ptr" /\ b.k = "ptr" /\ is_void_ptr(a) THEN Is(a)
                 ELSE IF a.k = "ptr" /\ b.k = "ptr" /\ is_void_ptr(b) THEN Is(b)
                 ELSE IF same_type_without_qualifier(a, b) THEN Is(a)
                 ELSE IF a.k = "ptr" /\ IsNull(e.r) THEN Is(a)
                 ELSE IF b.k = "ptr" /\ IsNull(e.l) THEN Is(b) ELSE Wrong)
        [] e.k = "set" ->
             LET v == ValueType(d)
             IN  Where(IF e.op = "=" THEN v ELSE BinType(SetNames[e.op], c, d, FALSE), LAMBDA w :
               IF Bad(c) \/ Bad(d) \/ ~c.lv \/ c.t.const \/ c.t.k \in {"array", "func"} THEN Wrong
               ELSE IF (scalar(c.t) /\ scalar(w))
                       \/ (e.op = "=" /\ c.t.k = "struct" /\ same_type_without_qualifier(c.t, v))
               THEN Is([c.t EXCEPT !.const = FALSE]) ELSE Wrong)
        [] e.k = "inc" -> IF s.lv /\ scalar(s.t) /\ ~s.t.const THEN Is(s.t) ELSE Wrong
        [] e.k = "idx" ->
             Where(IF Bad(c) \/ Bad(d) THEN Wrong.t ELSE BinType("+", c, d, FALSE), LAMBDA t :
               IF t.k = "ptr" THEN IsObj(t.to) ELSE Wrong)
        [] e.k = "fld" ->
             LET t == IF ~e.arrow THEN s.t ELSE IF sv.k = "ptr" THEN sv.to ELSE Wrong.t
                 m == FieldOf(t, e.f)
             IN  IF t.k # "struct" THEN Wrong
                 ELSE IF m = {} THEN Wrong
                 ELSE LET f == (CHOOSE x \in m : TRUE).m
                      IN  [t |-> qualified_type(f.type, t.const), lv |-> s.lv \/ e.arrow,
                           bf |-> IF f.width > 0 THEN f ELSE NoField]
        [] e.k = "app" ->
             Where(CType(e.f), LAMBDA f :
             Where(IF ValueType(f).k = "ptr" THEN ValueType(f).to ELSE Wrong.t, LAMBDA ft :
               IF ft.k # "func" THEN Wrong
               ELSE IF Len(ft.params) # Len(e.args) THEN Wrong
               ELSE IF \E i \in DOMAIN e.args : ~scalar(ValueType(CType(e.args[i]))) THEN Wrong
               ELSE Is(ft.ret)))
        [] e.k = "sizeof" -> IF Bad(s) \/ s.bf.width > 0 THEN Wrong ELSE Is(tySize))))

----------------------------------------------------------------------------
(* Values and effects.                                                      *)
UB(s) == [s EXCEPT !.o = "ub"]

\* v as a value of arithmetic type t: what does not fit a signed type is
\* undefined when an operator computed it.
Fits(v, t) == t.k # "fix" \/ t.uns \/ v \in -(2^(BitsOf(t) - 1))..(2^(BitsOf(t) - 1) - 1)

\* a op b before it is fitted into t; a product as a number, when it may be
\* told to fit.
Unbounded(op, a, b, t) ==
  IF op = "mul" /\ Abs(a) < 1024 /\ Abs(b) < 1024 THEN a * b
  ELSE IF op \in {"and", "or", "xor"} \/ (op = "mul" /\ t.uns) THEN Number(Calc(op, a, b), t)
  ELSE IF op = "mul" THEN 2^20 ELSE Calc(op, a, b)

\* a op b, computed in type t.
Computed(s, op, a, b, t) ==
  IF \/ op \in {"div", "mod"} /\ b = 0
     \/ op \in {"shl", "shr"} /\ b \notin 0..(BitsOf(t) - 1)
     \/ op = "shl" /\ ~t.uns /\ a < 0
     \/ op = "mod" /\ ~Fits(Calc("div", a, b), t)
  THEN UB(s)
  ELSE Where(Unbounded(op, a, b, t), LAMBDA x : IF Fits(x, t) THEN [s EXCEPT !.v = Number(x, t)] ELSE UB(s))

ReadObj(s, c) ==
  Where(type_size(c.t), LAMBDA n :
    IF s.o # "run" \/ ByAddress(c.t) THEN s
    ELSE IF c.bf.width > 0
    THEN IF ~InMemory(s.mem, s.v, (c.bf.position + c.bf.width + TARGET_CHAR_BIT - 1) \div TARGET_CHAR_BIT)
         THEN UB(s)
         ELSE Where(LoadBits(s.mem, s.v, c.bf.position, c.bf.width), LAMBDA b :
                [s EXCEPT !.v = IF c.t.uns THEN b ELSE Signed(b, c.bf.width)])
    ELSE IF InMemory(s.mem, s.v, n) THEN [s EXCEPT !.v = Load(s.mem, s.v, c.t)] ELSE UB(s))

\* Stores v, converted, at address a; the value is what is then stored.
WriteObj(s, c, a, v) ==
  Where(type_size(c.t), LAMBDA n :
  Where(InMemory(s.mem, a, IF c.bf.width > 0
                          THEN (c.bf.position + c.bf.width + TARGET_CHAR_BIT - 1) \div TARGET_CHAR_BIT ELSE n), LAMBDA fits :
    IF s.o # "run" THEN s
    ELSE IF ~fits THEN UB(s)
    ELSE IF c.t.k = "struct"
    THEN IF InMemory(s.mem, v, n) THEN [s EXCEPT !.mem = CopyBytes(@, a, v, n), !.v = a] ELSE UB(s)
    ELSE Where(IF c.bf.width > 0
              THEN StoreBits(s.mem, a, c.bf.position, c.bf.width, Pattern(v, c.bf.width))
              ELSE Store(s.mem, a, c.t, v), LAMBDA m :
           ReadObj([s EXCEPT !.mem = m, !.v = a], c))))

RECURSIVE CEval(_, _), CPlace(_, _), CArgs(_, _, _)

\* The value of e as a value of type t.
CAs(e, t, s) == Where(CEval(e, s), LAMBDA a : IF a.o # "run" THEN a ELSE [a EXCEPT !.v = Number(@, t)])

\* The value of l op r where a holds l's value already.
CBin(op, l, r, a) ==
  Where(CType(l), LAMBDA c :
  Where(CType(r), LAMBDA d :
  LET lt == ValueType(c)
      rt == ValueType(d)
  IN  Where(CEval(r, a), LAMBDA b :
  Where(BinType(op, c, d, FALSE), LAMBDA t :
  Where(IF op \in DOMAIN CompareNames THEN Usual(c, d) ELSE t, LAMBDA u :
  LET shift == op \in {"<<", ">>"}
      by(ptr) == type_size(ptr.to)
  IN  CASE b.o # "run" -> b
        [] b.o = "run" /\ lt.k = "fix" /\ rt.k = "fix" ->
             Where(Number(a.v, u), LAMBDA x :
             Where(IF shift THEN b.v ELSE Number(b.v, u), LAMBDA y :
               IF op \in DOMAIN CompareNames THEN [b EXCEPT !.v = Bool(Judge(CompareNames[op], x, y))]
               ELSE Computed(b, ArithNames[op], x, y, u)))
        [] b.o = "run" /\ ~(lt.k = "fix" /\ rt.k = "fix") ->
             CASE op \in DOMAIN CompareNames ->
                    [b EXCEPT !.v = Bool(Judge(CompareNames[op], Pattern(a.v, 16), Pattern(@, 16)))]
               [] op = "-" /\ rt.k = "ptr" ->
                    IF (a.v - b.v) % by(lt) # 0 THEN UB(b) ELSE [b EXCEPT !.v = TruncDiv(a.v - @, by(lt))]
               [] op \in {"+", "-"} /\ lt.k = "ptr" /\ rt.k = "fix" ->
                    IF Abs(b.v) > 100 THEN UB(b)
                    ELSE [b EXCEPT !.v = a.v + (IF op = "+" THEN @ ELSE -@) * by(lt)]
               [] op = "+" /\ rt.k = "ptr" ->
                    IF Abs(a.v) > 100 THEN UB(b) ELSE [b EXCEPT !.v = @ + a.v * by(rt)])))))

CPlace(e, s) ==
  CASE e.k = "id"  -> [s EXCEPT !.v = scope[e.x].addr]
    [] e.k = "un"  -> CEval(e.s, s)
    [] e.k = "idx" -> CBin("+", e.l, e.r, CEval(e.l, s))
    [] e.k = "fld" ->
         Where(CType(e.s), LAMBDA c :
         LET t == IF e.arrow THEN ValueType(c).to ELSE c.t
             f == CHOOSE x \in FieldOf(t, e.f) : TRUE
         IN  Where(IF e.arrow \/ ~c.lv THEN CEval(e.s, s) ELSE CPlace(e.s, s), LAMBDA a :
           [a EXCEPT !.v = @ + f.ofs + f.m.offset]))

CArgs(es, ps, s) ==
  IF es = <<>> THEN [s EXCEPT !.v = <<>>]
  ELSE LET n == Len(es)
       IN  Where(CAs(es[n], ps[n], s), LAMBDA a :
       Where(CArgs(SubSeq(es, 1, n - 1), ps, a), LAMBDA b :
         [b EXCEPT !.v = Append(@, a.v)]))

CEval(e, s) ==
  Where(CType(e), LAMBDA c :
    CASE s.o # "run" -> s
      [] s.o = "run" /\ e.k = "lit" -> [s EXCEPT !.v = Number(e.n, e.t)]
      [] s.o = "run" /\ (e.k \in {"id", "idx", "fld"} \/ (e.k = "un" /\ e.op = "*")) -> ReadObj(CPlace(e, s), c)
      [] s.o = "run" /\ e.k = "bin" /\ e.op \in {"&&", "||"} ->
           Where(CEval(e.l, s), LAMBDA a :
           Where(CEval(e.r, a), LAMBDA b :
             IF a.o # "run" \/ (a.v # 0) = (e.op = "||") THEN [a EXCEPT !.v = Bool(@ # 0)]
                                                        ELSE [b EXCEPT !.v = Bool(@ # 0)]))
      [] s.o = "run" /\ e.k = "bin" /\ e.op = "," -> CEval(e.r, CEval(e.l, s))
      [] s.o = "run" /\ e.k = "bin" /\ e.op \notin {"&&", "||", ","} -> CBin(e.op, e.l, e.r, CEval(e.l, s))
      [] s.o = "run" /\ e.k = "un" /\ e.op = "&" -> CPlace(e.s, s)
      [] s.o = "run" /\ e.k = "un" /\ e.op = "+" -> CAs(e.s, c.t, s)
      [] s.o = "run" /\ e.k = "un" /\ e.op = "-" ->
           Where(CAs(e.s, c.t, s), LAMBDA a : IF a.o = "run" THEN Computed(a, "sub", 0, a.v, c.t) ELSE a)
      [] s.o = "run" /\ e.k = "un" /\ e.op = "~" ->
           Where(CAs(e.s, c.t, s), LAMBDA a : IF a.o = "run" THEN [a EXCEPT !.v = Number(-@ - 1, c.t)] ELSE a)
      [] s.o = "run" /\ e.k = "un" /\ e.op = "!" ->
           Where(CEval(e.s, s), LAMBDA a : IF a.o = "run" THEN [a EXCEPT !.v = Bool(@ = 0)] ELSE a)
      [] s.o = "run" /\ e.k = "cast" -> IF e.t.k = "void" THEN CEval(e.s, s) ELSE CAs(e.s, e.t, s)
      [] s.o = "run" /\ e.k = "cond" ->
           Where(CEval(e.c, s), LAMBDA p :
           LET branch == IF p.v # 0 THEN e.l ELSE e.r
           IN  IF p.o # "run" THEN p
               ELSE IF scalar(c.t) THEN CAs(branch, c.t, p) ELSE CEval(branch, p))
      [] s.o = "run" /\ e.k = "set" ->
           Where(CType(e.l), LAMBDA l :
           Where(CEval(e.r, s), LAMBDA r :
           Where(CPlace(e.l, r), LAMBDA p :
           LET at == p.v
           IN  Where(CPlace(e.l, s), LAMBDA q :
           Where(CBin(SetNames[e.op], e.l, e.r, ReadObj(q, l)), LAMBDA w :
             IF e.op = "=" THEN WriteObj(p, l, at, r.v) ELSE WriteObj(w, l, q.v, w.v))))))
      [] s.o = "run" /\ e.k = "inc" ->
           Where(CType(e.s), LAMBDA l :
           Where(CPlace(e.s, s), LAMBDA p :
           Where(ReadObj(p, l), LAMBDA old :
           LET up  == e.op \in {"++x", "x++"}
           IN  Where(IF l.t.k = "ptr"
                    THEN [old EXCEPT !.v = @ + (IF up THEN 1 ELSE -1) * type_size(l.t.to)]
                    ELSE Computed(old, IF up THEN "add" ELSE "sub", old.v, 1, Usual(l, Is(tyInt))), LAMBDA new :
           Where(WriteObj(new, l, p.v, new.v), LAMBDA put :
             IF old.o # "run" THEN old
             ELSE IF put.o # "run" \/ e.op \in {"++x", "--x"} THEN put ELSE [put EXCEPT !.v = old.v])))))
      [] s.o = "run" /\ e.k = "app" ->
           Where(CEval(e.f, s), LAMBDA f :
           Where(ValueType(CType(e.f)).to, LAMBDA ft :
           Where(CArgs(e.args, ft.params, f), LAMBDA a :
             IF a.o # "run" THEN a
             ELSE IF a.inp = <<>> THEN [a EXCEPT !.o = "starved"]
             ELSE [a EXCEPT !.trace = Append(@, <<f.v, a.v>>),
                            !.v = Number(Head(a.inp), ft.ret), !.inp = Tail(@)])))
      [] s.o = "run" /\ e.k = "sizeof" -> [s EXCEPT !.v = type_size(CType(e.s).t)])

----------------------------------------------------------------------------
(* How an expression is written: its tokens, with the parentheses it needs. *)
Level(e) ==
  CASE e.k \in {"lit", "id", "str"} -> 17
    [] e.k \in {"idx", "fld", "app"} \/ (e.k = "inc" /\ e.op \in {"x++", "x--"}) -> 16
    [] e.k \in {"un", "sizeof"} \/ (e.k = "inc" /\ e.op \in {"++x", "--x"}) -> 15
    [] e.k = "cast" -> 14
    [] e.k = "cond" -> 3
    [] e.k = "set"  -> 2
    [] e.k = "bin"  ->
         CASE e.op \in {"*", "/", "%"} -> 13 [] e.op \in {"+", "-"} -> 12
           [] e.op \in {"<<", ">>"} -> 11    [] e.op \in {"<", "<=", ">", ">="} -> 10
           [] e.op \in {"==", "!="} -> 9     [] e.op = "&" -> 8
           [] e.op = "^" -> 7                [] e.op = "|" -> 6
           [] e.op = "&&" -> 5               [] e.op = "||" -> 4
           [] e.op = "," -> 1

Punct(s) == <<[k |-> "op", s |-> s]>>
TypeName(t) == <<[k |-> "type", type |-> t]>>

RECURSIVE Written(_, _), WrittenArgs(_)
WrittenArgs(es) == IF es = <<>> THEN <<>>
                   ELSE IF Len(es) = 1 THEN Written(es[1], 2)
                   ELSE Written(Head(es), 2) \o Punct(",") \o WrittenArgs(Tail(es))
\* e where an operand of at least that level is wanted.
Written(e, level) ==
  Where(Level(e), LAMBDA n :
  Where(CASE e.k = "lit" -> <<[k |-> "num", n |-> e.n, t |-> e.t]>>
         [] e.k = "str" -> <<[k |-> "str", chars |-> e.chars]>>
         [] e.k = "id"  -> <<[k |-> "id", s |-> e.x]>>
         [] e.k = "bin" -> Written(e.l, n) \o Punct(e.op) \o Written(e.r, n + 1)
         [] e.k = "set" -> Written(e.l, 15) \o Punct(e.op) \o Written(e.r, 2)
         [] e.k = "cond" -> Written(e.c, 4) \o Punct("?") \o Written(e.l, 1) \o Punct(":") \o Written(e.r, 3)
         [] e.k = "un"  -> Punct(e.op) \o Written(e.s, 14)
         [] e.k = "cast" -> Punct("(") \o TypeName(e.t) \o Punct(")") \o Written(e.s, 14)
         [] e.k = "sizeof" -> Punct("sizeof") \o Written(e.s, 15)
         [] e.k = "inc" /\ e.op \in {"++x", "--x"} -> Punct(IF e.op = "++x" THEN "++" ELSE "--") \o Written(e.s, 15)
         [] e.k = "inc" /\ e.op \in {"x++", "x--"} -> Written(e.s, 16) \o Punct(IF e.op = "x++" THEN "++" ELSE "--")
         [] e.k = "idx" -> Written(e.l, 16) \o Punct("[") \o Written(e.r, 1) \o Punct("]")
         [] e.k = "fld" -> Written(e.s, 16) \o Punct(IF e.arrow THEN "->" ELSE ".") \o <<[k |-> "id", s |-> e.f]>>
         [] e.k = "app" -> Written(e.f, 16) \o Punct("(") \o WrittenArgs(e.args) \o Punct(")"), LAMBDA text :
    IF n < level THEN Punct("(") \o text \o Punct(")") ELSE text))
=============================================================================
