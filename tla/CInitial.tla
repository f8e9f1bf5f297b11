------------------------------ MODULE CInitial ------------------------------
(***************************************************************************)
(* What C says of an initializer (C11 6.7.9): which member or element each *)
(* item is for, and what the object holds afterwards; everything that is   *)
(* not mentioned is zero.  An item too many is ignored, as the compilers   *)
(* in use do with a warning; so is it with an empty list of items.         *)
(***************************************************************************)
EXTENDS CMeaning

Ex(e)    == [k |-> "expr", e |-> e]
Lst(l)   == [k |-> "list", l |-> l]
At_(f, v) == [k |-> "field", f |-> f, v |-> v]     \* .f = v
Nth(i, v) == [k |-> "elem", i |-> i, v |-> v]      \* [i] = v
Designated(x) == x.k \in {"field", "elem"}
ValueOf(x)    == IF Designated(x) THEN x.v ELSE x

----------------------------------------------------------------------------
Object(t, a) == [t |-> t, a |-> a, bf |-> NoField]
Child(c, i) ==
  IF c.t.k = "array" THEN Object(c.t.of, c.a + (i - 1) * type_size(c.t.of))
  ELSE LET m == c.t.info.members[i]
       IN  [t |-> m.type, a |-> c.a + m.offset, bf |-> IF m.width > 0 THEN m ELSE NoField]
RECURSIVE SubAt(_, _)
SubAt(c, path) == IF path = <<>> THEN c ELSE SubAt(Child(c, Head(path)), Tail(path))

Children(c) == IF c.t.k = "array" THEN IF c.t.length < 0 THEN 9 ELSE c.t.length
               ELSE IF c.t.info.is_union THEN 1 ELSE Len(c.t.info.members)

\* The place after p; <<>> when there is none.
RECURSIVE Advance(_, _)
Advance(c, p) ==
  IF p = <<>> THEN <<>>
  ELSE Where(SubSeq(p, 1, Len(p) - 1), LAMBDA up :
       LET i  == p[Len(p)]
       IN  IF i < Children(SubAt(c, up)) THEN Append(up, i + 1) ELSE Advance(c, up))

\* Whether e initializes the whole of an object of type t.
Takes(t, e) == \/ scalar(t)
               \/ t.k = "struct" /\ same_type_without_qualifier(t, ValueType(CType(e)))
               \/ t.k = "array" /\ is_char_type(t.of) /\ e.k = "str"
RECURSIVE Descend(_, _, _)
Descend(c, p, e) == IF Takes(SubAt(c, p).t, e) THEN p ELSE Descend(c, Append(p, 1), e)

RECURSIVE FieldPath(_, _)
FieldPath(info, f) ==
  LET hit(i) == IF info.members[i].name = f THEN {<<i>>}
                ELSE IF info.members[i].name = "" /\ info.members[i].type.k = "struct"
                THEN {<<i>> \o q : q \in FieldPath(info.members[i].type.info, f)} ELSE {}
  IN  UNION {hit(i) : i \in DOMAIN info.members}

\* Where item x goes that is next at path: a set of at most one place.
Destinations(c, x, path) ==
  Where(CASE x.k = "field" -> IF c.t.k = "struct" THEN FieldPath(c.t.info, x.f) ELSE {}
         [] x.k = "elem"  -> IF c.t.k = "array" /\ x.i < Children(c) THEN {<<x.i + 1>>} ELSE {}
         [] ~Designated(x) -> {path}, LAMBDA from :
  LET v == ValueOf(x)
  IN  {IF v.k = "list" \/ p = <<>> THEN p ELSE Descend(c, p, v.e) : p \in from})

----------------------------------------------------------------------------
Wrongly(s) == [s EXCEPT !.o = "bad"]
Cleared(s, c) == [s EXCEPT !.mem = [i \in DOMAIN @ |-> IF i \in c.a..(c.a + type_size(c.t) - 1) THEN 0 ELSE @[i]] \o <<>>]

RECURSIVE CInit(_, _, _), CItems(_, _, _, _)
\* Object c is initialized with x.
CInit(c, x, s) ==
  Where(CType(x.e), LAMBDA d :
  LET n == Len(x.e.chars)
  IN  Where(CEval(x.e, s), LAMBDA v :
  Where(type_size(c.t), LAMBDA size :
    CASE s.o # "run" -> s
      [] s.o = "run" /\ x.k = "list" ->
           IF scalar(c.t) \/ (Len(x.l) = 1 /\ x.l[1].k = "expr" /\ x.l[1].e.k = "str" /\ Takes(c.t, x.l[1].e))
           THEN IF Len(x.l) = 1 /\ x.l[1].k = "expr" THEN CInit(c, x.l[1], s) ELSE Wrongly(s)
           ELSE CItems(c, x.l, <<1>>, Cleared(s, c))
      [] s.o = "run" /\ x.k = "expr" /\ x.e.k = "str" ->
           IF scalar(c.t) \/ ~Takes(c.t, x.e) \/ n - 1 > c.t.length THEN Wrongly(s)
           ELSE [s EXCEPT !.mem = [i \in DOMAIN @ |-> IF i \in c.a..(c.a + size - 1)
                                                       THEN IF i - c.a < n THEN x.e.chars[i - c.a + 1] ELSE 0
                                                       ELSE @[i]] \o <<>>]
      [] s.o = "run" /\ x.k = "expr" /\ x.e.k # "str" ->
           IF Bad(d) \/ ~Takes(c.t, x.e) \/ (scalar(c.t) /\ ~scalar(ValueType(d))) THEN Wrongly(s)
           ELSE WriteObj(v, c, c.a, v.v))))

\* The items l for the parts of c, the next of which is at path.
CItems(c, l, path, s) ==
  LET x  == Head(l)
  IN  Where(Destinations(c, x, path), LAMBDA ps :
  LET p  == CHOOSE q \in ps : TRUE
  IN  IF l = <<>> \/ s.o # "run" THEN s
      ELSE IF ps = {} THEN Wrongly(s)
      ELSE IF p = <<>> THEN CItems(c, Tail(l), <<>>, s)
      ELSE CItems(c, Tail(l), Advance(c, p), CInit(SubAt(c, p), ValueOf(x), s)))

\* The places of the items l, <<>> for one too many; it stops at an item
\* that has none.
RECURSIVE ItemPlaces(_, _, _)
ItemPlaces(c, l, path) ==
  Where(Destinations(c, Head(l), path), LAMBDA ps :
  LET p  == CHOOSE q \in ps : TRUE
  IN  IF l = <<>> \/ ps = {} THEN <<>>
      ELSE <<p>> \o ItemPlaces(c, Tail(l), IF p = <<>> THEN <<>> ELSE Advance(c, p)))

\* How many elements the items make of an array without a length.
RECURSIVE CExtent(_, _, _, _)
CExtent(c, l, path, n) ==
  Where(Destinations(c, Head(l), path), LAMBDA ps :
  LET p  == CHOOSE q \in ps : TRUE
  IN  IF l = <<>> \/ ps = {} THEN n
      ELSE CExtent(c, Tail(l), Advance(c, p), MaxOf(n, Head(p))))
CComplete(t, x) ==
  CASE t.k # "array" -> t
    [] t.k = "array" /\ t.length >= 0 -> t
    [] t.k = "array" /\ t.length < 0 ->
         [t EXCEPT !.length = IF x.k = "list"
                              THEN IF Len(x.l) = 1 /\ x.l[1].k = "expr" /\ x.l[1].e.k = "str" /\ is_char_type(t.of)
                                   THEN Len(x.l[1].e.chars) ELSE CExtent(Object(t, 1), x.l, <<1>>, 0)
                              ELSE IF x.e.k = "str" THEN Len(x.e.chars) ELSE 0]

----------------------------------------------------------------------------
(* What a static object may be initialized with.                            *)
RECURSIVE Arithmetic(_), AddressConst(_), Constant(_)
Arithmetic(e) == CASE e.k = "lit" -> TRUE
                   [] e.k = "bin" -> e.op # "," /\ Arithmetic(e.l) /\ Arithmetic(e.r)
                   [] e.k \in {"un", "cast"} -> (e.k = "cast" \/ e.op \in {"+", "-", "~", "!"}) /\ Arithmetic(e.s)
                   [] e.k = "sizeof" -> TRUE
                   [] OTHER -> FALSE
\* e denotes an object whose place is known.
PlaceKnown(e) == \/ e.k = "id"
                 \/ e.k = "fld" /\ ~e.arrow /\ e.s.k = "id"
                 \/ e.k = "idx" /\ AddressConst(e.l) /\ Arithmetic(e.r)
                 \/ e.k = "un" /\ e.op = "*" /\ AddressConst(e.s)
AddressConst(e) ==
  \/ e.k = "un" /\ e.op = "&" /\ PlaceKnown(e.s)
  \/ PlaceKnown(e) /\ CType(e).t.k \in {"array", "func"}
  \/ e.k = "bin" /\ e.op \in {"+", "-"} /\ AddressConst(e.l) /\ Arithmetic(e.r)
  \/ e.k = "bin" /\ e.op = "+" /\ Arithmetic(e.l) /\ AddressConst(e.r)
  \/ e.k = "cast" /\ e.t.k = "ptr" /\ AddressConst(e.s)
Constant(x) == CASE x.k = "list" -> \A i \in DOMAIN x.l : Constant(ValueOf(x.l[i]))
                 [] x.k = "expr" -> x.e.k = "str" \/ Arithmetic(x.e) \/ AddressConst(x.e)

----------------------------------------------------------------------------
RECURSIVE WrittenInit(_), WrittenItems(_)
WrittenItems(l) ==
  LET x == Head(l)
  IN  Where(CASE x.k = "field" -> Punct(".") \o <<[k |-> "id", s |-> x.f]>> \o Punct("=") \o WrittenInit(x.v)
             [] x.k = "elem"  -> Punct("[") \o <<[k |-> "num", n |-> x.i, t |-> tyInt]>> \o Punct("]") \o Punct("=") \o WrittenInit(x.v)
             [] ~Designated(x) -> WrittenInit(x), LAMBDA text :
    IF l = <<>> THEN <<>> ELSE text \o (IF Len(l) = 1 THEN <<>> ELSE Punct(",")) \o WrittenItems(Tail(l)))
WrittenInit(x) == IF x.k = "expr" THEN Written(x.e, 2) ELSE Punct("{") \o WrittenItems(x.l) \o Punct("}")
=============================================================================
