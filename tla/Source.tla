------------------------------- MODULE Source -------------------------------
(***************************************************************************)
(* What a C function means: the reference against which both code          *)
(* generators of the repository (cc1's, for x64 and aarch64, and wcc's,    *)
(* for WebAssembly) are checked.                                           *)
(*                                                                         *)
(* Expressions and statements are the trees of ast.h as the parser leaves  *)
(* them: operands converted to one type, conditions reduced by make_cond.  *)
(* A function is observed through the calls it makes (function and         *)
(* arguments, in order), the value it returns and the memory it leaves.    *)
(* What a called function answers is an input; a function that needs more  *)
(* answers than it is given is "starved" there.                            *)
(*                                                                         *)
(* Integers have few bits: signed and unsigned char ("c", "b") 2, int and  *)
(* unsigned ("i", "u") 3, pointers and size_t ("p") 4.  The ratios matter, *)
(* the widths do not.                                                      *)
(***************************************************************************)
EXTENDS Integers, Sequences, SequencesExt, Results

Bits(t) == CASE t \in {"c", "b"} -> 2 [] t \in {"i", "u"} -> 3 [] t = "p" -> 4

IsUnsigned(t) == t \in {"b", "u", "p"}

\* Bit patterns and the numbers they stand for.
Pattern(v, t) == v % 2^Bits(t)
Number(b, t) == IF IsUnsigned(t) \/ b < 2^(Bits(t) - 1) THEN b ELSE b - 2^Bits(t)

\* wrap_value() of util.c: the value of type t that has v's low bits.
wrap_value(v, t) == Number(Pattern(v, t), t)

Abs(n) == IF n < 0 THEN -n ELSE n
\* C's division truncates towards zero.
TruncDiv(a, b) == (IF (a < 0) = (b < 0) THEN 1 ELSE -1) * (Abs(a) \div Abs(b))
TruncMod(a, b) == a - b * TruncDiv(a, b)

\* Bitwise operations on patterns of 4 bits, the widest type.
Bit(b, i) == (b \div 2^i) % 2
BitwiseOf(f(_, _), a, b) ==
  LET d(i) == f(Bit(a, i), Bit(b, i)) IN d(0) + 2 * d(1) + 4 * d(2) + 8 * d(3)

\* The value of an arithmetic operator on two values of type t.
Arith(op, t, a, b) ==
  LET and2(x, y) == x * y
      or2(x, y)  == x + y - x * y
      xor2(x, y) == (x + y) % 2
      bits(f(_, _)) == BitwiseOf(f, Pattern(a, "p"), Pattern(b, "p"))
  IN  wrap_value(CASE op = "add" -> a + b
                   [] op = "sub" -> a - b
                   [] op = "mul" -> a * b
                   [] op = "div" -> TruncDiv(a, b)
                   [] op = "mod" -> TruncMod(a, b)
                   [] op = "and" -> bits(and2)
                   [] op = "or"  -> bits(or2)
                   [] op = "xor" -> bits(xor2)
                   [] op = "shl" -> a * 2^b
                   [] op = "shr" -> a \div 2^b, t)

Compare(op, a, b) == CASE op = "eq" -> a = b [] op = "ne" -> a # b
                       [] op = "lt" -> a < b [] op = "le" -> a <= b
                       [] op = "ge" -> a >= b [] op = "gt" -> a > b

ArithOps == {"add", "sub", "mul", "div", "mod", "and", "or", "xor", "shl", "shr"}
CompareOps == {"eq", "ne", "lt", "le", "ge", "gt"}
IncDecOps == {"preinc", "predec", "postinc", "postdec"}

\* A function on 1..n as the sequence it is.
AsSeq(q) == q \o <<>>

Bool(b) == IF b THEN 1 ELSE 0

----------------------------------------------------------------------------
(* Trees.  e.k is the kind, e.t the type; a variable that is a global has   *)
(* an address, and the members of a global structure follow it.             *)
Num(v, t)        == [k |-> "num", t |-> t, n |-> v]
Local(x, t)      == [k |-> "local", t |-> t, x |-> x]
Global(a, t)     == [k |-> "global", t |-> t, addr |-> a]
Member(e, o, t)  == [k |-> "member", t |-> t, s |-> e, ofs |-> o]
Bin(op, t, l, r) == [k |-> op, t |-> t, l |-> l, r |-> r]
Un(op, t, s)     == [k |-> op, t |-> t, s |-> s]
Ternary(c, l, r) == [k |-> "ternary", t |-> l.t, c |-> c, l |-> l, r |-> r]
Call(f, t, args) == [k |-> "call", t |-> t, f |-> f, args |-> args]

None            == [k |-> "none"]
Do(e)           == [k |-> "expr", e |-> e]
Block(ss)       == [k |-> "block", ss |-> ss]
If(c, a, b)     == [k |-> "if", c |-> c, a |-> a, b |-> b]
While(c, b)     == [k |-> "while", c |-> c, b |-> b]
DoWhile(b, c)   == [k |-> "dowhile", c |-> c, b |-> b]
For(p, c, q, b) == [k |-> "for", pre |-> p, c |-> c, post |-> q, b |-> b]
Switch(e, cs, b)== [k |-> "switch", e |-> e, cases |-> cs, b |-> b]
Case(id)        == [k |-> "case", id |-> id]
Break           == [k |-> "break"]
Continue        == [k |-> "continue"]
Return(e)       == [k |-> "return", e |-> e]
Goto(l)         == [k |-> "goto", lbl |-> l]
Label(l, s)     == [k |-> "label", lbl |-> l, s |-> s]

\* A case of a switch: the id of its Case statement and its value.
CaseOf(id, v)   == [id |-> id, n |-> v, dflt |-> FALSE]
Default(id)     == [id |-> id, n |-> 0, dflt |-> TRUE]

----------------------------------------------------------------------------
(* States.  o says how control leaves a statement: "run" (to the next one), *)
(* "break", "continue", "return", "starved", or on its way to a label or a  *)
(* case, whose name is in `to'.                                             *)
Start(mem, inputs) ==
  [vars |-> <<0, 0, 0>>, mem |-> mem, trace |-> <<>>, inp |-> inputs,
   o |-> "run", to |-> "", v |-> 0]

RECURSIVE Eval(_, _), Args(_, _, _), Address(_, _)

\* The arguments are evaluated from the last to the first; C leaves it open.
Args(es, i, s) ==
  IF i = 0 THEN [s EXCEPT !.v = <<>>]
  ELSE With(Eval(es[i], s), LAMBDA a :
       With(Args(es, i - 1, a), LAMBDA b :
         [b EXCEPT !.v = Append(@, a.v)]))

\* The address of an object in memory, in v.
Address(e, s) ==
  CASE e.k = "global" -> [s EXCEPT !.v = e.addr]
    [] e.k = "deref"  -> Eval(e.s, s)
    [] e.k = "member" -> With(Address(e.s, s), LAMBDA a : [a EXCEPT !.v = @ + e.ofs])

\* The value of expression e, in v, and what evaluating it changes.
Eval(e, s) ==
  LET store(l, a, v) ==       \* give l, whose address is a.v, the value v
        IF l.k = "local" THEN [a EXCEPT !.vars[l.x] = v]
                         ELSE [a EXCEPT !.mem[a.v] = v]
      place(l, a) == IF l.k = "local" THEN a ELSE Address(l, a)
      fetch(l, a) == IF l.k = "local" THEN a.vars[l.x] ELSE a.mem[a.v]
  IN
  IF s.o # "run" THEN [s EXCEPT !.v = 0]
  ELSE CASE e.k = "num"   -> [s EXCEPT !.v = e.n]
         [] e.k \in {"local", "global", "deref", "member"} ->
              With(place(e, s), LAMBDA p : IF p.o = "run" THEN [p EXCEPT !.v = fetch(e, p)] ELSE p)
         [] e.k = "ref"   -> Address(e.s, s)
         [] e.k \in ArithOps \cup CompareOps ->
              With(Eval(e.l, s), LAMBDA a :
              With(Eval(e.r, a), LAMBDA b :
                IF b.o # "run" THEN b
                ELSE [b EXCEPT !.v = IF e.k \in ArithOps THEN Arith(e.k, e.t, a.v, b.v)
                                                         ELSE Bool(Compare(e.k, a.v, b.v))]))
         [] e.k \in {"logand", "logior"} ->
              With(Eval(e.l, s), LAMBDA a :
              With(Eval(e.r, a), LAMBDA b :
                IF a.o # "run" \/ (a.v # 0) = (e.k = "logior") THEN [a EXCEPT !.v = Bool(@ # 0)]
                                                               ELSE [b EXCEPT !.v = Bool(@ # 0)]))
         [] e.k = "neg"    -> With(Eval(e.s, s), LAMBDA a : [a EXCEPT !.v = wrap_value(-@, e.t)])
         [] e.k = "bitnot" -> With(Eval(e.s, s), LAMBDA a : [a EXCEPT !.v = wrap_value(-@ - 1, e.t)])
         [] e.k = "cast"   -> With(Eval(e.s, s), LAMBDA a : [a EXCEPT !.v = wrap_value(@, e.t)])
         [] e.k = "comma"  -> Eval(e.r, Eval(e.l, s))
         [] e.k = "ternary" ->
              With(Eval(e.c, s), LAMBDA c : Eval(IF c.v # 0 THEN e.l ELSE e.r, c))
         [] e.k = "assign" ->
              With(Eval(e.r, s), LAMBDA r :
              With(place(e.l, r), LAMBDA p :
                IF p.o # "run" THEN p ELSE [store(e.l, p, r.v) EXCEPT !.v = r.v]))
         [] e.k \in IncDecOps ->
              With(place(e.s, s), LAMBDA p :
              LET old == fetch(e.s, p)
              IN  With(Arith(IF e.k \in {"preinc", "postinc"} THEN "add" ELSE "sub", e.t, old, 1), LAMBDA new :
                IF p.o # "run" THEN p
                ELSE [store(e.s, p, new) EXCEPT
                        !.v = IF e.k \in {"postinc", "postdec"} THEN old ELSE new]))
         [] e.k = "call" ->
              With(Args(e.args, Len(e.args), s), LAMBDA a :
                IF a.o # "run" \/ a.inp = <<>> THEN [a EXCEPT !.o = "starved", !.v = 0]
                ELSE [a EXCEPT !.trace = Append(@, <<e.f, a.v>>),
                               !.v = wrap_value(Head(a.inp), e.t), !.inp = Tail(@)])

----------------------------------------------------------------------------
Seeking(s) == s.o \in {"goto", "case"}
Found(s) == [s EXCEPT !.o = "run", !.to = ""]

\* The labels and cases inside a statement; a switch keeps its cases to itself.
RECURSIVE Places(_)
Places(st) ==
  CASE st.k = "label" -> {st.lbl} \cup Places(st.s)
    [] st.k = "case"  -> {st.id}
    [] st.k = "block" -> UNION {Places(st.ss[i]) : i \in DOMAIN st.ss}
    [] st.k = "if"    -> Places(st.a) \cup Places(st.b)
    [] st.k \in {"while", "dowhile", "for", "switch"} -> Places(st.b)
    [] OTHER -> {}

\* A loop swallows break and continue.
AfterBody(s) == IF s.o = "continue" THEN Found(s) ELSE s
AfterLoop(s) == IF s.o = "break" THEN Found(s) ELSE s

RECURSIVE Exec(_, _), Loop(_, _, _)

\* One round of a loop: body (when inBody), then post, then the condition.
Loop(st, s, inBody) ==
  With(IF inBody THEN AfterBody(Exec(st.b, s)) ELSE s, LAMBDA b :
  With(IF inBody /\ st.k = "for" /\ st.post.k # "none" THEN Eval(st.post, b) ELSE b, LAMBDA p :
  With(IF st.c.k = "none" THEN [p EXCEPT !.v = 1] ELSE Eval(st.c, p), LAMBDA c :
    IF b.o # "run" THEN AfterLoop(b)
    ELSE IF c.o = "run" /\ c.v # 0 THEN Loop(st, c, TRUE) ELSE c)))

\* Executing statement st from state s.
Exec(st, s) ==
  IF s.o \notin {"run", "goto", "case"} \/ (Seeking(s) /\ s.to \notin Places(st)) THEN s
  ELSE CASE st.k = "none"  -> s
         [] st.k = "expr"  -> Eval(st.e, s)
         [] st.k = "block" -> FoldLeft(LAMBDA x, y : Exec(y, x), s, st.ss)
         [] st.k = "if"    ->
              IF Seeking(s) THEN Exec(IF s.to \in Places(st.a) THEN st.a ELSE st.b, s)
              ELSE With(Eval(st.c, s), LAMBDA c : Exec(IF c.v # 0 THEN st.a ELSE st.b, c))
         [] st.k = "while" -> Loop(st, s, Seeking(s))
         [] st.k = "dowhile" -> Loop(st, s, TRUE)
         [] st.k = "for"   ->
              With(IF Seeking(s) \/ st.pre.k = "none" THEN s ELSE Eval(st.pre, s), LAMBDA p :
                Loop(st, p, Seeking(s)))
         [] st.k = "switch" ->
              With(Eval(st.e, s), LAMBDA c :
              LET is == {i \in DOMAIN st.cases : ~st.cases[i].dflt /\ st.cases[i].n = c.v}
                  ds == {i \in DOMAIN st.cases : st.cases[i].dflt}
                  go == IF is # {} THEN is ELSE ds
              IN  With(IF go = {} THEN c
                       ELSE Exec(st.b, [c EXCEPT !.o = "case",
                                                 !.to = st.cases[CHOOSE i \in go : TRUE].id]), LAMBDA b :
                IF Seeking(s) THEN AfterLoop(Exec(st.b, s))
                ELSE IF c.o # "run" THEN c ELSE AfterLoop(b)))
         [] st.k = "case"  -> Found(s)
         [] st.k = "label" -> Exec(st.s, IF Seeking(s) /\ s.to = st.lbl THEN Found(s) ELSE s)
         [] st.k \in {"break", "continue"} -> [s EXCEPT !.o = st.k]
         [] st.k = "goto"  -> [s EXCEPT !.o = "goto", !.to = st.lbl]
         [] st.k = "return" ->
              With(IF st.e.k = "none" THEN [s EXCEPT !.v = 0] ELSE Eval(st.e, s), LAMBDA r :
                IF r.o = "run" THEN [r EXCEPT !.o = "return"] ELSE r)

\* A goto that finds its label nowhere ahead starts over from the top.
RECURSIVE ExecFunction(_, _)
ExecFunction(body, s) ==
  With(Exec(body, s), LAMBDA r : IF Seeking(r) THEN ExecFunction(body, r) ELSE r)

\* What a caller sees of a finished execution.
Observed(s) == [trace |-> s.trace, mem |-> s.mem, starved |-> s.o = "starved",
                result |-> IF s.o = "return" THEN s.v ELSE 0]
=============================================================================
