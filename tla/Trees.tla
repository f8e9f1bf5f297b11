-------------------------------- MODULE Trees --------------------------------
(***************************************************************************)
(* Typed expression trees, as the parsers leave them and both code         *)
(* generators take them (ast.c), and what they do when they are executed:  *)
(* memory is bytes, a temporary variable of the compiler a cell of its     *)
(* own, arrays, structures and functions are handled as their address.     *)
(***************************************************************************)
EXTENDS Types

VARIABLES scope,      \* the declared variables and functions: [type, addr]
          minregsize  \* MINREGSIZE: the narrowest register a signed value is
                      \* shifted in, 1 where registers have sub-registers (x64),
                      \* 4 for aarch64 and WebAssembly

\* Err: an error has been reported where this node should be.
Err               == [k |-> "error", t |-> tyInt]
IsErr(e)          == e.k = "error"
Num(v, t)         == [k |-> "num", t |-> t, n |-> v]
\* A string, its final NUL included.
Str(chars)        == [k |-> "str", t |-> arrayof(tyChar, Len(chars)), chars |-> chars]
Var(x)            == [k |-> "var", t |-> scope[x].type, x |-> x]
Tmp(n, t)         == [k |-> "tmp", t |-> t, x |-> n]
Bin(op, t, l, r)  == IF IsErr(l) \/ IsErr(r) THEN Err ELSE [k |-> op, t |-> t, l |-> l, r |-> r]
Un(op, t, s)      == IF IsErr(s) THEN Err ELSE [k |-> op, t |-> t, s |-> s]
Comma(l, r)       == Bin("comma", r.t, l, r)
Member(e, i, arrow, t) == IF IsErr(e) THEN Err
                          ELSE [k |-> "member", t |-> t, s |-> e, index |-> i, arrow |-> arrow]
Ternary(c, l, r, t) == IF IsErr(c) \/ IsErr(l) \/ IsErr(r) THEN Err
                       ELSE [k |-> "ternary", t |-> t, c |-> c, l |-> l, r |-> r]
Call(f, t, args)  == IF IsErr(f) \/ \E i \in DOMAIN args : IsErr(args[i]) THEN Err
                     ELSE [k |-> "call", t |-> t, f |-> f, args |-> args]

is_const(e) == e.k = "num"
is_zero(e)  == e.k = "num" /\ e.n = 0
member_info(e) == (IF ptr_or_array(e.s.t) THEN PointedTo(e.s.t) ELSE e.s.t).info.members[e.index]
IsBitField(e) == e.k = "member" /\ member_info(e).width > 0

CompareOps == {"eq", "ne", "lt", "le", "ge", "gt"}
IncDecOps  == {"preinc", "predec", "postinc", "postdec"}
ArithOps   == {"add", "sub", "mul", "div", "mod", "and", "or", "xor", "shl", "shr"}

----------------------------------------------------------------------------
(* Arithmetic.  Products stay within what TLC computes with.                *)
Abs(n) == IF n < 0 THEN -n ELSE n
TruncDiv(a, b) == (IF (a < 0) = (b < 0) THEN 1 ELSE -1) * (Abs(a) \div Abs(b))
TruncMod(a, b) == a - b * TruncDiv(a, b)
MulPattern(a, b) ==
  LET x == Pattern(a, 16)
      y == Pattern(b, 16)
  IN  Pattern(Pattern(x * (y \div 256), 16) * 256 + x * (y % 256), 16)

\* The number a op b, before it is made to fit the type of the result.
Calc(op, a, b) ==
  CASE op = "add" -> a + b
    [] op = "sub" -> a - b
    [] op = "mul" -> MulPattern(a, b)
    [] op = "div" -> IF b = 0 THEN 0 ELSE TruncDiv(a, b)
    [] op = "mod" -> IF b = 0 THEN 0 ELSE TruncMod(a, b)
    [] op = "and" -> Pattern(a, 16) & Pattern(b, 16)
    [] op = "or"  -> Pattern(a, 16) | Pattern(b, 16)
    [] op = "xor" -> Pattern(a, 16) ^^ Pattern(b, 16)
    [] op = "shl" -> IF b \in 0..15 THEN Pattern(a, 16) * 2^b ELSE 0
    [] op = "shr" -> IF b \in 0..15 THEN a \div 2^b ELSE 0

Judge(op, a, b) == CASE op = "eq" -> a = b [] op = "ne" -> a # b
                     [] op = "lt" -> a < b [] op = "le" -> a <= b
                     [] op = "ge" -> a >= b [] op = "gt" -> a > b
Bool(b) == IF b THEN 1 ELSE 0

----------------------------------------------------------------------------
(* Memory: a sequence of bytes, the first at address 1, little endian.      *)
Byte == 2^TARGET_CHAR_BIT
InMemory(mem, a, size) == a >= 1 /\ a + size - 1 <= Len(mem)
RECURSIVE LoadBytes(_, _, _), StoreBytes(_, _, _, _)
LoadBytes(mem, a, n) == IF n = 0 THEN 0 ELSE mem[a] + Byte * LoadBytes(mem, a + 1, n - 1)
StoreBytes(mem, a, n, b) ==
  IF n = 0 THEN mem ELSE StoreBytes([mem EXCEPT ![a] = b % Byte], a + 1, n - 1, b \div Byte)
Load(mem, a, t)     == Number(LoadBytes(mem, a, type_size(t)), t)
Store(mem, a, t, v) == StoreBytes(mem, a, type_size(t), Pattern(v, BitsOf(t)))
CopyBytes(mem, to, from, n) ==
  [a \in DOMAIN mem |-> IF a \in to..(to + n - 1) THEN mem[from + a - to] ELSE mem[a]] \o <<>>

\* The bits of a field, position bits from the low end of the byte at a.
BitAt(mem, a, p) == (mem[a + p \div TARGET_CHAR_BIT] \div 2^(p % TARGET_CHAR_BIT)) % 2
RECURSIVE LoadBits(_, _, _, _)
LoadBits(mem, a, p, w) == IF w = 0 THEN 0 ELSE BitAt(mem, a, p) + 2 * LoadBits(mem, a, p + 1, w - 1)
RECURSIVE StoreBits(_, _, _, _, _)
StoreBits(mem, a, p, w, b) ==
  IF w = 0 THEN mem
  ELSE LET at == a + p \div TARGET_CHAR_BIT
       IN  StoreBits([mem EXCEPT ![at] = @ + ((b % 2) - BitAt(mem, a, p)) * 2^(p % TARGET_CHAR_BIT)],
                     a, p + 1, w - 1, b \div 2)

----------------------------------------------------------------------------
(* Bit-fields are read and written through the unit they are stored in.     *)
extract_bitfield_value(src, m) ==
  LET t    == src.t
  IN  Where(MaxOf(type_size(t), minregsize) * TARGET_CHAR_BIT, LAMBDA w :
  LET l    == w - (m.position + m.width)
      lit(n) == Num(n, t)
  IN  Where(IF m.position > 0 THEN Bin("shr", t, src, lit(m.position)) ELSE src, LAMBDA low :
  Where(IF l > 0 THEN Bin("shl", t, src, lit(l)) ELSE src, LAMBDA high :
  Where(CASE t.uns -> Bin("and", t, low, lit(2^m.width - 1))
         [] ~t.uns /\ m.width < w  -> Bin("shr", t, high, lit(w - m.width))
         [] ~t.uns /\ m.width >= w -> high, LAMBDA val :
    IF same_type(m.type, t) THEN val ELSE Un("cast", m.type, val)))))

----------------------------------------------------------------------------
(* Executing a tree.  s.v is the value of what was evaluated last; s.o      *)
(* tells that execution goes on ("run"), met an access outside memory       *)
(* ("fault") or a call whose answer is not given ("starved").               *)
Start(mem, tmps, inputs) ==
  [mem |-> mem, tmp |-> [i \in DOMAIN tmps |-> 0] \o <<>>, trace |-> <<>>, inp |-> inputs, v |-> 0, o |-> "run"]

ByAddress(t) == t.k \in {"array", "struct", "func"}

\* Registers narrower than this are not computed in: a char shifted left
\* keeps the bits above it until it is stored or cast.
RegisterBits(t) == MaxOf(type_size(t), minregsize) * TARGET_CHAR_BIT
InRegister(v, t) ==
  Where(Pattern(v, RegisterBits(t)), LAMBDA b :
    IF t.k # "fix" \/ t.uns THEN b ELSE Signed(b, RegisterBits(t)))

RECURSIVE Eval(_, _), Address(_, _), EvalArgs(_, _, _)

EvalArgs(es, i, s) ==
  IF i = 0 THEN [s EXCEPT !.v = <<>>]
  ELSE With(Eval(es[i], s), LAMBDA a :
       With(EvalArgs(es, i - 1, a), LAMBDA b :
         [b EXCEPT !.v = Append(@, a.v)]))

Address(e, s) ==
  CASE e.k = "var"    -> [s EXCEPT !.v = scope[e.x].addr]
    [] e.k = "deref"  -> Eval(e.s, s)
    [] e.k = "member" -> With(Eval(e.s, s), LAMBDA a : [a EXCEPT !.v = @ + member_info(e).offset])

Fetch(p, t) == IF ByAddress(t) THEN p
               ELSE IF ~InMemory(p.mem, p.v, type_size(t)) THEN [p EXCEPT !.o = "fault"]
               ELSE [p EXCEPT !.v = Load(p.mem, p.v, t)]

\* Stores v at the address of p, or in the temporary l.
Put(l, p, v) ==
  CASE l.k = "tmp"       -> [p EXCEPT !.tmp[l.x] = Number(v, l.t), !.v = v]
    [] l.k # "tmp" /\ ~InMemory(p.mem, p.v, type_size(l.t)) -> [p EXCEPT !.o = "fault"]
    [] l.k # "tmp" /\ InMemory(p.mem, p.v, type_size(l.t)) ->
         IF l.t.k = "struct"
         THEN [p EXCEPT !.mem = IF InMemory(p.mem, v, type_size(l.t))
                                THEN CopyBytes(@, p.v, v, type_size(l.t)) ELSE @]
         ELSE [p EXCEPT !.mem = Store(@, p.v, l.t, v), !.v = v]

Eval(e, s) ==
  IF s.o # "run" THEN s
  ELSE CASE e.k = "num" -> [s EXCEPT !.v = InRegister(e.n, e.t)]
         [] e.k = "tmp" -> [s EXCEPT !.v = s.tmp[e.x]]
         \* EX_MEMBER of a bit-field: gen_expr() makes and evaluates this tree.
         [] IsBitField(e) ->
              LET m == member_info(e)
              IN  Eval(extract_bitfield_value(Un("deref", m.type, Un("ref", ptrof(m.type), e)), m), s)
         [] e.k \in {"var", "deref", "member"} /\ ~IsBitField(e) -> 
              With(Address(e, s), LAMBDA p : IF p.o = "run" THEN Fetch(p, e.t) ELSE p)
         [] e.k = "ref" -> Address(e.s, s)
         [] e.k \in ArithOps \cup CompareOps ->
              With(Eval(e.l, s), LAMBDA a :
              With(Eval(e.r, a), LAMBDA b :
                IF b.o # "run" THEN b
                ELSE [b EXCEPT !.v = IF e.k \in ArithOps THEN InRegister(Calc(e.k, a.v, b.v), e.t)
                                                         ELSE Bool(Judge(e.k, a.v, b.v))]))
         [] e.k \in {"logand", "logior"} ->
              With(Eval(e.l, s), LAMBDA a :
                IF a.o # "run" \/ (a.v # 0) = (e.k = "logior") THEN [a EXCEPT !.v = Bool(@ # 0)]
                ELSE With(Eval(e.r, a), LAMBDA b : [b EXCEPT !.v = Bool(@ # 0)]))
         [] e.k = "pos"    -> Eval(e.s, s)
         [] e.k = "neg"    -> With(Eval(e.s, s), LAMBDA a : [a EXCEPT !.v = Number(-@, e.t)])
         [] e.k = "bitnot" -> With(Eval(e.s, s), LAMBDA a : [a EXCEPT !.v = Number(-@ - 1, e.t)])
         [] e.k = "cast"   -> With(Eval(e.s, s), LAMBDA a :
                                IF ByAddress(e.t) \/ e.t.k = "void" THEN a ELSE [a EXCEPT !.v = Number(@, e.t)])
         [] e.k = "comma"  -> Eval(e.r, Eval(e.l, s))
         [] e.k = "ternary" -> With(Eval(e.c, s), LAMBDA c : Eval(IF c.v # 0 THEN e.l ELSE e.r, c))
         [] e.k = "assign" ->
              With(Eval(e.r, s), LAMBDA r :
              Where(IF e.l.k = "tmp" THEN r ELSE Address(e.l, r), LAMBDA p :
                IF p.o # "run" THEN p ELSE Put(e.l, p, r.v)))
         [] e.k \in IncDecOps ->
              Where(IF e.s.k = "tmp" THEN s ELSE Address(e.s, s), LAMBDA p :
              With(Eval(e.s, s), LAMBDA old :
              Where(IF e.t.k = "ptr" THEN type_size(e.t.to) ELSE 1, LAMBDA by :
              Where(Number(old.v + (IF e.k \in {"preinc", "postinc"} THEN by ELSE -by), e.t), LAMBDA new :
              Where(Put(e.s, p, new), LAMBDA q :
                IF old.o # "run" THEN old
                ELSE [q EXCEPT !.v = IF e.k \in {"postinc", "postdec"} THEN old.v ELSE new])))))
         [] e.k = "call" ->
              With(EvalArgs(e.args, Len(e.args), s), LAMBDA a :
              With(Eval(e.f, a), LAMBDA f :
                IF f.o # "run" THEN f
                ELSE IF f.inp = <<>> THEN [f EXCEPT !.o = "starved"]
                ELSE [f EXCEPT !.trace = Append(@, <<f.v, a.v>>),
                               !.v = Number(Head(f.inp), e.t), !.inp = Tail(@)]))

\* What can be seen of an execution.
Observed(s) == [mem |-> s.mem, trace |-> s.trace, o |-> s.o]
=============================================================================
