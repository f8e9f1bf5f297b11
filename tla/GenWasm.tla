------------------------------ MODULE GenWasm ------------------------------
(***************************************************************************)
(* wcc's code generator (traverse.c, gen_wasm.c): the tree is rewritten to *)
(* what a stack machine can do, then becomes WebAssembly, whose control    *)
(* flow is nested blocks that branches leave by depth.  The code is        *)
(* executed and compared with the source.                                  *)
(*                                                                         *)
(* i32 has the 3 bits of int here, i64 the 4 bits of "p".  Every value     *)
(* takes one cell of memory; the stack grows down from StackTop.           *)
(***************************************************************************)
EXTENDS Source, FiniteSetsExt

CONSTANTS Functions,   \* the bodies to compile
          Inputs,      \* what the called functions answer, as sequences
          Memory,      \* the global variables, a sequence of values
          Variadic     \* the names of the functions with one parameter and `...'

VARIABLES phase,   \* source, traversed, generated, rejected, running
          body,    \* the tree of the function
          framed,  \* does the function keep a variable in memory (finfo->bpname)
          tree,    \* the tree after traverse_stmt()
          locals,  \* the number of its local variables, temporaries included
          code,    \* the instructions (extra->code)
          inputs,  \* the answers chosen for this execution
          m        \* the machine

vars == <<phase, body, framed, tree, locals, code, inputs, m>>

StackTop == 15
FrameSize == 2
ALIGN(n) == 2 * ((n + 1) \div 2)

----------------------------------------------------------------------------
(* traverse.c.  A result is the tree e and the number n of locals so far.  *)
Rewritten(e, n) == [e |-> e, n |-> n]
IsNum(e) == e.k = "num"
\* EX_VAR: a local variable, or a global one, which is in memory here
\* (VS_REF_TAKEN).
IsVar(e) == e.k \in {"local", "global"}
Assign(l, r) == Bin("assign", "v", l, r)
Comma(t, l, r) == Bin("comma", t, l, r)

RECURSIVE traverse_expr(_, _, _), traverse_args(_, _, _)

\* EX_ASSIGN: the assignment becomes void; where its value is needed, a comma
\* gives what was stored.
traverse_assign(e, l, r, n, needval) ==
  LET a   == Assign(l, r)
      tmp == Local(n + 1, l.t)
  IN  CASE ~needval -> Rewritten(a, n)
        [] needval /\ (IsNum(r) \/ IsVar(r)) -> Rewritten(Comma(r.t, a, r), n)
        [] needval /\ ~(IsNum(r) \/ IsVar(r)) /\ IsVar(l) -> Rewritten(Comma(l.t, a, l), n)
        [] OTHER -> Rewritten(Comma(l.t, Comma(l.t, Assign(tmp, r), Assign(l, tmp)), tmp), n + 1)

\* EX_CAST: unsigned to signed of one narrow size takes the sign bit twice.
traverse_cast(e, s, n) ==
  LET tmp == Local(n + 1, s.t)
      src == IF IsVar(s) THEN s ELSE tmp
      msb == Bin("and", s.t, src, Num(2^(Bits(s.t) - 1), s.t))
      rep == Bin("or", e.t, src, Un("neg", s.t, msb))
  IN  CASE ~(IsUnsigned(s.t) /\ ~IsUnsigned(e.t) /\ Bits(s.t) = Bits(e.t) /\ Bits(e.t) < Bits("i")) ->
             Rewritten([e EXCEPT !.s = s], n)
        [] IsVar(s) -> Rewritten(rep, n)
        [] OTHER -> Rewritten(Comma(e.t, Assign(tmp, s), rep), n + 1)

\* ++ and -- of what is in memory go through a pointer.
traverse_incdec(e, s, n) ==
  LET p     == Local(n + 1, "p")
      tmp   == Local(n + 2, e.t)
      deref == Un("deref", e.t, p)
      post  == e.k \in {"postinc", "postdec"}
      step(x) == Bin(IF e.k \in {"preinc", "postinc"} THEN "add" ELSE "sub", e.t, x, Num(1, e.t))
  IN  IF s.k = "local" THEN Rewritten([e EXCEPT !.s = s], n)
      ELSE Rewritten(Comma(e.t, Assign(p, Un("ref", "p", s)),
                  Comma(e.t, Assign(tmp, IF post THEN deref ELSE step(deref)),
                    Comma(e.t, Assign(deref, IF post THEN step(tmp) ELSE tmp), tmp))), n + 2)

traverse_args(es, n, i) ==
  IF i > Len(es) THEN Rewritten(es, n)
  ELSE With(traverse_expr(es[i], n, TRUE), LAMBDA a : traverse_args([es EXCEPT ![i] = a.e], a.n, i + 1))

traverse_expr(e, n, needval) ==
  CASE e.k \in {"num", "local", "global"} -> Rewritten(e, n)
    [] e.k \in ArithOps \cup CompareOps \cup {"logand", "logior", "comma", "assign"} ->
         LET r0 == IF e.k \in {"shl", "shr"} /\ e.r.t # e.l.t THEN Un("cast", e.l.t, e.r) ELSE e.r
         IN  With(traverse_expr(e.l, n, needval /\ e.k \notin {"comma", "assign"}), LAMBDA l :
         With(traverse_expr(r0, l.n, needval \/ e.k = "assign"), LAMBDA r :
           IF e.k = "assign" THEN traverse_assign(e, l.e, r.e, r.n, needval)
                             ELSE Rewritten([e EXCEPT !.l = l.e, !.r = r.e], r.n)))
    [] e.k \in {"neg", "bitnot", "ref", "deref", "member", "cast"} \cup IncDecOps ->
         With(traverse_expr(e.s, n, needval), LAMBDA s :
           CASE e.k = "cast" -> traverse_cast(e, s.e, s.n)
             [] e.k \in IncDecOps -> traverse_incdec(e, s.e, s.n)
             [] OTHER -> Rewritten([e EXCEPT !.s = s.e], s.n))
    [] e.k = "ternary" ->
         With(traverse_expr(e.c, n, TRUE), LAMBDA c :
         With(traverse_expr(e.l, c.n, needval), LAMBDA l :
         With(traverse_expr(e.r, l.n, needval), LAMBDA r :
           Rewritten([e EXCEPT !.c = c.e, !.l = l.e, !.r = r.e], r.n))))
    [] e.k = "call" -> With(traverse_args(e.args, n, 1), LAMBDA a : Rewritten([e EXCEPT !.args = a.e], a.n))

\* Optional expressions of a statement.
traverse_opt(e, n, needval) == IF e.k = "none" THEN Rewritten(e, n) ELSE traverse_expr(e, n, needval)

RECURSIVE traverse_stmt(_, _), traverse_stmts(_, _, _)
traverse_stmts(ss, n, i) ==
  IF i > Len(ss) THEN Rewritten(ss, n)
  ELSE With(traverse_stmt(ss[i], n), LAMBDA a : traverse_stmts([ss EXCEPT ![i] = a.e], a.n, i + 1))

traverse_stmt(st, n) ==
  CASE st.k = "expr"   -> With(traverse_expr(st.e, n, FALSE), LAMBDA a : Rewritten(Do(a.e), a.n))
    [] st.k = "return" -> With(traverse_opt(st.e, n, TRUE), LAMBDA a : Rewritten(Return(a.e), a.n))
    [] st.k = "block"  -> With(traverse_stmts(st.ss, n, 1), LAMBDA a : Rewritten(Block(a.e), a.n))
    [] st.k = "if" ->
         With(traverse_expr(st.c, n, TRUE), LAMBDA c :
         With(traverse_stmt(st.a, c.n), LAMBDA a :
         With(traverse_stmt(st.b, a.n), LAMBDA b :
           Rewritten(If(c.e, a.e, b.e), b.n))))
    [] st.k \in {"while", "dowhile"} ->
         With(traverse_expr(st.c, n, TRUE), LAMBDA c :
         With(traverse_stmt(st.b, c.n), LAMBDA b :
           Rewritten([st EXCEPT !.c = c.e, !.b = b.e], b.n)))
    [] st.k = "for" ->
         With(traverse_opt(st.pre, n, FALSE), LAMBDA p :
         With(traverse_opt(st.c, p.n, TRUE), LAMBDA c :
         With(traverse_opt(st.post, c.n, FALSE), LAMBDA q :
         With(traverse_stmt(st.b, q.n), LAMBDA b :
           Rewritten(For(p.e, c.e, q.e, b.e), b.n)))))
    [] st.k = "switch" ->
         With(traverse_expr(st.e, n, TRUE), LAMBDA v :
         With(traverse_stmt(st.b, v.n), LAMBDA b :
         LET tmp == Local(b.n + 1, v.e.t)
         IN  IF IsNum(v.e) \/ IsVar(v.e) THEN Rewritten(Switch(v.e, st.cases, b.e), b.n)
             ELSE Rewritten(Switch(Comma(tmp.t, Assign(tmp, v.e), tmp), st.cases, b.e), b.n + 1)))
    [] OTHER -> Rewritten(st, n)

\* What ends wcc with an error: goto, and a case whose nearest branching
\* statement (branching_stmt) is not its switch.
RECURSIVE Unsupported(_, _)
Unsupported(st, branching) ==
  CASE st.k = "goto"  -> TRUE
    [] st.k = "case"  -> branching # "switch"
    [] st.k = "label" -> Unsupported(st.s, branching)
    [] st.k = "block" -> \E i \in DOMAIN st.ss : Unsupported(st.ss[i], branching)
    [] st.k = "if"    -> Unsupported(st.a, "if") \/ Unsupported(st.b, "if")
    [] st.k \in {"while", "dowhile", "for", "switch"} -> Unsupported(st.b, st.k)
    [] OTHER -> FALSE

----------------------------------------------------------------------------
(* gen_wasm.c.  s.code is what is generated so far, s.depth is cur_depth.  *)
Ins(op, n, t) == [op |-> op, n |-> n, t |-> t, tab |-> <<>>]
Add(s, op, n, t) == [s EXCEPT !.code = Append(@, Ins(op, n, t))]
Const(s, v, t) == Add(s, "const", v, t)
\* OP_BLOCK, OP_LOOP, OP_IF: n is the number of results.
Open(s, op, n) == [Add(s, op, n, "") EXCEPT !.depth = @ + 1]
End(s) == [Add(s, "end", 0, "") EXCEPT !.depth = @ - 1]

WordOf(t) == IF t = "p" THEN "i64" ELSE "i32"
WordBits(w) == IF w = "i64" THEN 4 ELSE 3

gen_cast(s, d, t) ==
  With(CASE WordOf(d) = "i32" /\ WordOf(t) = "i64" -> Add(s, "wrap", 0, "")
         [] WordOf(d) = "i64" /\ WordOf(t) = "i32" -> Add(s, IF IsUnsigned(t) THEN "extend_u" ELSE "extend_s", 0, "")
         [] OTHER -> s, LAMBDA wrap :
  With(Add(Const(wrap, 2^Bits(d) - 1, "i32"), "and", 0, "i"), LAMBDA mask :
  LET sh   == Bits("i") - Bits(d)
  IN  With(Add(Const(Add(Const(wrap, sh, "i32"), "shl", 0, "i"), sh, "i32"), "shr", 0, "i"), LAMBDA sext :
    CASE Bits(d) < Bits(t) /\ Bits(d) < Bits("i") -> IF IsUnsigned(d) THEN mask ELSE sext
      [] Bits(d) >= Bits(t) /\ IsUnsigned(d) /\ ~IsUnsigned(t) /\ Bits(d) < Bits("i") -> mask
      [] OTHER -> wrap)))

Inverted(k) == CASE k = "eq" -> "ne" [] k = "ne" -> "eq" [] k = "lt" -> "ge"
                 [] k = "ge" -> "lt" [] k = "le" -> "gt" [] k = "gt" -> "le"

RECURSIVE gen_expr(_, _, _), gen_cond(_, _, _, _), gen_lval(_, _), gen_args(_, _, _, _)

gen_compare_expr(s, k, l, r, needval) ==
  With(gen_expr(s, l, needval), LAMBDA a :
  With(gen_expr(a, r, needval), LAMBDA b :
    CASE needval /\ IsNum(r) /\ r.n = 0 /\ k = "eq" -> Add(a, "eqz", 0, "")
      [] needval /\ ~(IsNum(r) /\ r.n = 0 /\ k = "eq") -> Add(b, k, 0, l.t)
      [] OTHER -> b))

\* The value (cond = tf), or only its side effects.
gen_cond(s, e, tf, needval) ==
  CASE e.k = "num" -> gen_compare_expr(s, IF tf THEN "ne" ELSE "eq", e, Num(0, "i"), needval)
    [] e.k \in CompareOps -> gen_compare_expr(s, IF tf THEN e.k ELSE Inverted(e.k), e.l, e.r, needval)
    [] e.k \in {"logand", "logior"} ->
         LET and == e.k = "logand"
         IN  With(Open(gen_cond(s, e.l, and, TRUE), "if", Bool(needval)), LAMBDA i :
         With(gen_cond(i, e.r, tf, needval), LAMBDA r :
         With(Const(Add(r, "else", 0, ""), Bool(tf # and), "i32"), LAMBDA o :
           End(IF needval THEN o ELSE r))))
    [] e.k = "comma" -> gen_cond(gen_expr(s, e.l, FALSE), e.r, tf, needval)

gen_ternary(s, e, needval) ==
  With(Open(gen_cond(s, e.c, TRUE, TRUE), "if", Bool(needval)), LAMBDA i :
  With(Add(gen_expr(i, e.l, needval), "else", 0, ""), LAMBDA t :
    End(gen_expr(t, e.r, needval))))

\* gen_funcall(): the arguments behind the parameter of a variadic function
\* go to memory below the stack pointer, whose value is passed.
gen_sp(s, op, n) == Add(Add(Const(Add(s, "global.get", 0, ""), n, "i64"), op, 0, "p"), "global.set", 0, "")
gen_args(s, va, args, i) ==
  IF i > Len(args) THEN s
  ELSE With(gen_expr(s, args[i], TRUE), LAMBDA a :
       With(Add(Const(Add(s, "global.get", 0, ""), i - 2, "i64"), "add", 0, "p"), LAMBDA p :
       With(Add(gen_expr(p, args[i], TRUE), "store", 0, args[i].t), LAMBDA b :
         gen_args(IF va /\ i > 1 THEN b ELSE a, va, args, i + 1))))
gen_funcall(s, e) ==
  LET va   == e.f \in Variadic
      size == ALIGN(Len(e.args) - 1)
  IN  With(gen_args(IF va /\ size > 0 THEN gen_sp(s, "sub", size) ELSE s, va, e.args, 1), LAMBDA a :
  With(IF ~va THEN a ELSE IF size > 0 THEN Add(a, "global.get", 0, "") ELSE Const(a, 0, "i64"), LAMBDA b :
  With([b EXCEPT !.code = Append(@, [Ins("call", Len(e.args), e.t) EXCEPT !.tab = <<e.f, [i \in 1..Len(e.args) |-> e.args[i].t]>>])], LAMBDA c :
    IF va /\ size > 0 THEN gen_sp(c, "add", size) ELSE c)))

gen_lval(s, e) ==
  CASE e.k = "global" -> Const(s, e.addr, "i64")
    [] e.k = "deref"  -> gen_expr(s, e.s, TRUE)
    [] e.k = "member" ->
         With(gen_lval(s, e.s), LAMBDA a :
           IF e.ofs = 0 THEN a ELSE Add(Const(a, e.ofs, "i64"), "add", 0, "p"))

\* ++ and -- of a local variable.
gen_incdec(s, e, needval) ==
  LET post == e.k \in {"postinc", "postdec"}
  IN  With(Add(s, "local.get", e.s.x, ""), LAMBDA a :
  With(IF post /\ needval THEN Add(a, "local.get", e.s.x, "") ELSE a, LAMBDA b :
  With(Add(Const(b, 1, WordOf(e.t)), IF e.k \in {"preinc", "postinc"} THEN "add" ELSE "sub",
           0, IF WordOf(e.t) = "i32" THEN "i" ELSE "p"), LAMBDA c :
    Add(c, IF needval /\ ~post THEN "local.tee" ELSE "local.set", e.s.x, ""))))

gen_assign(s, e) ==
  IF e.l.k = "local" THEN Add(gen_expr(s, e.r, TRUE), "local.set", e.l.x, "")
  ELSE Add(gen_expr(gen_lval(s, e.l), e.r, TRUE), "store", 0, e.l.t)

\* An object in memory as a value.
gen_object(s, e, needval) ==
  CASE needval -> Add(gen_lval(s, e), "load", 0, e.t)
    [] ~needval /\ e.k = "global" -> s
    [] OTHER -> gen_expr(s, e.s, FALSE)

gen_expr(s, e, needval) ==
  CASE e.k = "num" -> IF needval THEN Const(s, e.n, WordOf(e.t)) ELSE s
    [] e.k = "local" -> IF needval THEN Add(s, "local.get", e.x, "") ELSE s
    [] e.k \in ArithOps ->
         With(gen_expr(gen_expr(s, e.l, needval), e.r, needval), LAMBDA b :
           IF needval THEN Add(b, e.k, 0, e.t) ELSE b)
    [] e.k \in CompareOps \cup {"logand", "logior"} -> gen_cond(s, e, TRUE, needval)
    [] e.k = "neg" ->
         IF needval THEN Add(gen_expr(Const(s, 0, WordOf(e.t)), e.s, TRUE), "sub", 0, e.t)
                    ELSE gen_expr(s, e.s, FALSE)
    [] e.k = "bitnot" ->
         With(gen_expr(s, e.s, needval), LAMBDA a :
           IF needval THEN Add(Const(a, -1, WordOf(e.t)), "xor", 0, e.t) ELSE a)
    [] e.k \in IncDecOps -> gen_incdec(s, e, needval)
    [] e.k = "assign" -> gen_assign(s, e)
    [] e.k = "comma" -> gen_expr(gen_expr(s, e.l, FALSE), e.r, needval)
    [] e.k = "cast" ->
         With(gen_expr(s, e.s, needval), LAMBDA a : IF needval THEN gen_cast(a, e.t, e.s.t) ELSE a)
    [] e.k = "ref" -> IF needval THEN gen_lval(s, e.s) ELSE gen_expr(s, e.s, FALSE)
    [] e.k \in {"global", "deref", "member"} -> gen_object(s, e, needval)
    [] e.k = "ternary" -> gen_ternary(s, e, needval)
    [] e.k = "call" -> IF needval THEN gen_funcall(s, e) ELSE Add(gen_funcall(s, e), "drop", 0, "")

----------------------------------------------------------------------------
gen_cond_jmp(s, e, tf, depth) == Add(gen_cond(s, e, tf, TRUE), "br_if", depth, "")

\* Which of the blocks around the cases a value leaves; none: the default one
\* or, without default, the outermost.
DefaultIndex(sw) ==
  IF \E i \in DOMAIN sw.cases : sw.cases[i].dflt
    THEN (CHOOSE i \in DOMAIN sw.cases : sw.cases[i].dflt) - 1
    ELSE Len(sw.cases)

gen_switch_table_jump(s, sw, value, min, max) ==
  LET at(v)  == {i \in DOMAIN sw.cases : ~sw.cases[i].dflt /\ sw.cases[i].n = v}
  IN  With(AsSeq([i \in 1..(max - min + 1) |->
             IF at(min + i - 1) = {} THEN DefaultIndex(sw) ELSE (CHOOSE j \in at(min + i - 1) : TRUE) - 1]), LAMBDA table :
  With(gen_expr(s, value, TRUE), LAMBDA v0 :
  With(IF min = 0 THEN v0
       ELSE Add(Const(v0, min, WordOf(value.t)), "sub", 0, IF WordOf(value.t) = "i64" THEN "p" ELSE "i"), LAMBDA v1 :
  With(IF WordOf(value.t) = "i64" THEN Add(v1, "wrap", 0, "") ELSE v1, LAMBDA v2 :
    [v2 EXCEPT !.code = Append(@, [Ins("br_table", DefaultIndex(sw), "") EXCEPT !.tab = table])]))))

RECURSIVE gen_stmt(_, _), gen_stmts(_, _, _), gen_compare_cases(_, _, _, _), OpenBlocks(_, _)

OpenBlocks(s, n) == IF n = 0 THEN s ELSE OpenBlocks(Open(s, "block", 0), n - 1)

\* Without a table: the cases one after the other, then the default.
gen_compare_cases(s, sw, value, i) ==
  IF i > Len(sw.cases) THEN Add(s, "br", DefaultIndex(sw), "")
  ELSE With(Const(gen_expr(s, value, TRUE), sw.cases[i].n, WordOf(value.t)), LAMBDA a :
       With(Add(Add(a, "eq", 0, value.t), "br_if", i - 1, ""), LAMBDA b :
         gen_compare_cases(IF sw.cases[i].dflt THEN s ELSE b, sw, value, i + 1)))

\* One block per case inside the block `break' leaves; each case ends one.
gen_switch(s, sw) ==
  With(OpenBlocks([s EXCEPT !.brk = s.depth], Len(sw.cases) + 1), LAMBDA s0 :
  LET comma == sw.e.k = "comma"
  IN  With(IF comma THEN gen_expr(s0, sw.e, FALSE) ELSE s0, LAMBDA s1 :
  LET value == IF comma THEN sw.e.r ELSE sw.e
      ns    == {sw.cases[i].n : i \in {j \in DOMAIN sw.cases : ~sw.cases[j].dflt}}
  IN  With(IF Len(sw.cases) >= 4 /\ ns # {} /\ TruncDiv(Max(ns) - Min(ns), 2) <= Len(sw.cases)
             THEN gen_switch_table_jump(s1, sw, value, Min(ns), Max(ns))
             ELSE gen_compare_cases(s1, sw, value, 1), LAMBDA s2 :
    [End(gen_stmt(s2, sw.b)) EXCEPT !.brk = s.brk])))

IsFalse(c) == c.k = "num" /\ c.n = 0
IsTrue(c) == c.k = "none" \/ (c.k = "num" /\ c.n # 0)
InLoop(s, brk, cont) == [s EXCEPT !.brk = brk, !.cont = cont]

gen_while(s, st) ==
  With(Open(Open(InLoop(s, s.depth, s.depth + 1), "block", 0), "loop", 0), LAMBDA s0 :
  With(IF IsTrue(st.c) THEN s0 ELSE gen_cond_jmp(s0, st.c, FALSE, 1), LAMBDA s1 :
  With(Add(gen_stmt(s1, st.b), "br", 0, ""), LAMBDA s2 :
    IF IsFalse(st.c) THEN s ELSE InLoop(End(End(s2)), s.brk, s.cont))))

(* Mutant: continue starts the body over without the condition. *)
gen_do_while_over(s, st) ==
  With(OpenBlocks(Open(Open(InLoop(s, s.depth, s.depth + 1), "block", 0), "loop", 0), 1), LAMBDA s0 :
  With(End(gen_stmt(s0, st.b)), LAMBDA s1 :
    InLoop(End(End(gen_cond_jmp(s1, st.c, TRUE, 0))), s.brk, s.cont)))

gen_do_while(s, st) ==
  With(OpenBlocks(Open(Open(InLoop(s, s.depth, s.depth + 2), "block", 0), "loop", 0), 1), LAMBDA s0 :
  With(End(gen_stmt(s0, st.b)), LAMBDA s1 :
  With(CASE IsFalse(st.c) -> Add(s1, "br", 1, "")
         [] IsTrue(st.c)  -> Add(s1, "br", 0, "")
         [] OTHER         -> gen_cond_jmp(s1, st.c, TRUE, 0), LAMBDA s2 :
    InLoop(End(End(s2)), s.brk, s.cont))))

gen_for(s, st) ==
  With(IF st.pre.k = "none" THEN s ELSE gen_expr(s, st.pre, FALSE), LAMBDA p :
  With(OpenBlocks(Open(Open(InLoop(p, s.depth, s.depth + 2), "block", 0), "loop", 0), 1), LAMBDA s0 :
  With(IF IsTrue(st.c) THEN s0 ELSE gen_cond_jmp(s0, st.c, FALSE, 2), LAMBDA s1 :
  With(End(gen_stmt(s1, st.b)), LAMBDA s2 :
  With(IF st.post.k = "none" THEN s2 ELSE gen_expr(s2, st.post, FALSE), LAMBDA s3 :
    IF IsFalse(st.c) THEN p ELSE InLoop(End(End(Add(s3, "br", 0, ""))), s.brk, s.cont))))))

(* Mutant: every return leaves at once. *)
gen_return_at_once(s, st, last) ==
  With(IF st.e.k = "none" THEN s ELSE gen_expr(s, st.e, TRUE), LAMBDA v :
    IF last THEN v ELSE Add(v, "return", 0, ""))

\* return: a function with a frame leaves through its epilogue; nothing is
\* needed where the function ends anyway (last).
gen_return(s, st, last) ==
  With(IF st.e.k = "none" THEN s ELSE gen_expr(s, st.e, TRUE), LAMBDA v :
    IF last THEN v ELSE IF framed THEN Add(v, "br", s.depth - 1, "") ELSE Add(v, "return", 0, ""))

gen_if(s, st) ==
  With(Open(gen_cond(s, st.c, TRUE, TRUE), "if", 0), LAMBDA i :
  With(gen_stmt(i, st.a), LAMBDA t :
  With(IF st.b.k = "none" THEN t ELSE gen_stmt(Add(t, "else", 0, ""), st.b), LAMBDA f :
    IF IsNum(st.c) THEN gen_stmt(s, IF st.c.n # 0 THEN st.a ELSE st.b) ELSE End(f))))

gen_stmts(s, ss, i) == IF s.depth < 0 \/ i > Len(ss) THEN s ELSE gen_stmts(gen_stmt(s, ss[i]), ss, i + 1)

gen_stmt(s, st) ==
  CASE st.k = "none"     -> s
    [] st.k = "expr"     -> gen_expr(s, st.e, FALSE)
    [] st.k = "return"   -> gen_return(s, st, FALSE)
    [] st.k = "block"    -> gen_stmts(s, st.ss, 1)
    [] st.k = "if"       -> gen_if(s, st)
    [] st.k = "switch"   -> gen_switch(s, st)
    [] st.k = "case"     -> End(s)
    [] st.k = "while"    -> gen_while(s, st)
    [] st.k = "dowhile"  -> gen_do_while(s, st)
    [] st.k = "for"      -> gen_for(s, st)
    [] st.k = "break"    -> Add(s, "br", s.depth - s.brk - 1, "")
    [] st.k = "continue" -> Add(s, "br", s.depth - s.cont - 1, "")

\* gen_defun(): the frame is set up in front of the body and given back behind
\* it; the last return of the function (func_end) falls into the epilogue.
\* bp is the local variable behind the others.
gen_defun(st, bp) ==
  LET s0  == [code |-> <<>>, depth |-> 0, brk |-> 0, cont |-> 0]
  IN  With(Open(gen_sp(Add(Add(s0, "global.get", 0, ""), "local.set", bp, ""), "sub", FrameSize), "block", 1), LAMBDA pro :
  With(gen_stmts(IF framed THEN pro ELSE s0, Front(st.ss), 1), LAMBDA s1 :
  With(IF Last(st.ss).k = "return" THEN gen_return(s1, Last(st.ss), TRUE)
       ELSE Add(gen_stmt(s1, Last(st.ss)), "unreachable", 0, ""), LAMBDA s2 :
  With(Add(Add(End(s2), "local.get", bp, ""), "global.set", 0, ""), LAMBDA epi :
    IF framed THEN epi ELSE s2))))

----------------------------------------------------------------------------
(* The WebAssembly machine (external): a value stack of bit patterns, the  *)
(* labels of the blocks control is in, local variables, the global __sp.   *)
Boot(n, inp) ==
  [pc |-> 1, stk |-> <<>>, lab |-> <<>>, loc |-> AsSeq([i \in 1..n |-> 0]), sp |-> StackTop,
   mem |-> Memory \o AsSeq([i \in 1..(StackTop - Len(Memory)) |-> 0]),
   trace |-> <<>>, inp |-> inp, o |-> "run"]

\* The instruction that ends the block (or the arm of an if) opened before i;
\* an else counts when d = 0.
RECURSIVE Closing(_, _, _)
Closing(i, d, else) ==
  CASE code[i].op \in {"block", "loop", "if"} -> Closing(i + 1, d + 1, else)
    [] code[i].op = "end" -> IF d = 0 THEN i ELSE Closing(i + 1, d - 1, else)
    [] code[i].op = "else" /\ d = 0 /\ else -> i
    [] OTHER -> Closing(i + 1, d, else)

Peek(x, k) == x.stk[Len(x.stk) - k]
Drop(x, k) == [x EXCEPT !.stk = SubSeq(@, 1, Len(@) - k)]
Push(x, v, w) == [x EXCEPT !.stk = Append(@, v % 2^WordBits(w))]
Trap(x) == [x EXCEPT !.o = "trap"]

\* The function ends with its result on top of the stack.
Leave(x) == IF x.stk = <<>> THEN Trap(x) ELSE [x EXCEPT !.o = "return", !.stk = <<Last(@)>>]

\* br n: to the start of a loop or behind the end of a block; the block's
\* results stay on the stack.
Branch(x, n) ==
  LET l  == x.lab[Len(x.lab) - n]
  IN  With(SubSeq(x.lab, 1, Len(x.lab) - n - 1), LAMBDA up :
  With(SubSeq(x.stk, Len(x.stk) - l.n + 1, Len(x.stk)), LAMBDA rs :
    CASE n = Len(x.lab) -> Leave(x)
      [] n > Len(x.lab) \/ l.h + l.n > Len(x.stk) -> Trap(x)
      [] l.op = "loop" -> [x EXCEPT !.pc = l.at + 1, !.lab = Append(up, l), !.stk = SubSeq(@, 1, l.h)]
      [] OTHER -> [x EXCEPT !.pc = Closing(l.at + 1, 0, FALSE) + 1, !.lab = up,
                            !.stk = SubSeq(@, 1, l.h) \o rs]))

\* The values a call is given: those behind `...' are read from memory.
CallArgs(x, ins) ==
  LET va == ins.tab[1] \in Variadic
      ps == IF va THEN 1 ELSE ins.n
      val(i) == IF i <= ps THEN Number(Pattern(Peek(x, (IF va THEN 1 ELSE 0) + ps - i), ins.tab[2][i]), ins.tab[2][i])
                ELSE x.mem[Last(x.stk) + i - 2]
  IN  AsSeq([i \in 1..ins.n |-> val(i)])

NumberOf(v, t) == IF IsUnsigned(t) THEN v ELSE IF v < 2^(WordBits(WordOf(t)) - 1) THEN v ELSE v - 2^WordBits(WordOf(t))

Execute(x, ins) ==
  LET top  == Last(x.stk)
      y    == [x EXCEPT !.pc = @ + 1]
      w    == WordOf(ins.t)
      word(op) == IF w = "i64" THEN "p" ELSE IF IsUnsigned(ins.t) THEN "u" ELSE "i"
      label == [op |-> ins.op, at |-> x.pc, n |-> ins.n]
      need == CASE ins.op \in ArithOps \cup CompareOps \cup {"store"} -> 2
                [] ins.op \in {"eqz", "br_if", "br_table", "if", "drop", "local.set", "local.tee", "global.set", "load", "wrap",
                               "extend_u", "extend_s"} -> 1
                [] ins.op = "call" -> IF ins.tab[1] \in Variadic THEN 2 ELSE ins.n
                [] OTHER -> 0
      argc == IF ins.tab[1] \in Variadic THEN 2 ELSE ins.n
  IN
  CASE Len(x.stk) < need + (IF x.lab = <<>> THEN 0 ELSE Last(x.lab).h) -> Trap(x)
    [] OTHER ->
  CASE ins.op = "const" -> Push(y, ins.n, ins.t)
    [] ins.op \in ArithOps ->
         Push(Drop(y, 2), Arith(ins.op, word(ins.op), NumberOf(Peek(x, 1), ins.t), NumberOf(top, ins.t)), w)
    [] ins.op \in CompareOps -> Push(Drop(y, 2), Bool(Compare(ins.op, NumberOf(Peek(x, 1), ins.t), NumberOf(top, ins.t))), "i32")
    [] ins.op = "eqz" -> Push(Drop(y, 1), Bool(top = 0), "i32")
    [] ins.op = "wrap" -> Push(Drop(y, 1), top, "i32")
    [] ins.op = "extend_u" -> Push(Drop(y, 1), top, "i64")
    [] ins.op = "extend_s" -> Push(Drop(y, 1), NumberOf(top, "i"), "i64")
    [] ins.op = "local.get" -> Push(y, x.loc[ins.n], "i64")
    [] ins.op = "local.set" -> [Drop(y, 1) EXCEPT !.loc[ins.n] = top]
    [] ins.op = "local.tee" -> [y EXCEPT !.loc[ins.n] = top]
    [] ins.op = "global.get" -> Push(y, x.sp, "i64")
    [] ins.op = "global.set" -> [Drop(y, 1) EXCEPT !.sp = top]
    [] ins.op = "load" -> IF top \in DOMAIN x.mem THEN Push(Drop(y, 1), x.mem[top], w) ELSE Trap(x)
    [] ins.op = "store" ->
         IF Peek(x, 1) \in DOMAIN x.mem THEN [Drop(y, 2) EXCEPT !.mem[Peek(x, 1)] = wrap_value(top, ins.t)]
                                        ELSE Trap(x)
    [] ins.op = "drop" -> Drop(y, 1)
    [] ins.op = "call" ->
         IF x.inp = <<>> THEN [x EXCEPT !.o = "starved"]
         ELSE [Push(Drop(y, argc), wrap_value(Head(x.inp), ins.t), w) EXCEPT
                 !.inp = Tail(@), !.trace = Append(@, <<ins.tab[1], CallArgs(x, ins)>>)]
    [] ins.op \in {"block", "loop"} -> [y EXCEPT !.lab = Append(@, label @@ [h |-> Len(x.stk)])]
    [] ins.op = "if" ->
         LET l == label @@ [h |-> Len(x.stk) - 1]
         IN  With(Closing(x.pc + 1, 0, TRUE), LAMBDA c :
           IF top # 0 THEN [Drop(y, 1) EXCEPT !.lab = Append(@, l)]
           ELSE IF code[c].op = "else" THEN [Drop(y, 1) EXCEPT !.lab = Append(@, l), !.pc = c + 1]
           ELSE [Drop(y, 1) EXCEPT !.pc = c + 1])
    [] ins.op = "else" -> [y EXCEPT !.pc = Closing(x.pc + 1, 0, FALSE)]
    [] ins.op = "end" ->
         IF Len(x.stk) = Last(x.lab).h + Last(x.lab).n THEN [y EXCEPT !.lab = Front(@)] ELSE Trap(x)
    [] ins.op = "br" -> Branch(x, ins.n)
    [] ins.op = "br_if" -> IF top # 0 THEN Branch(Drop(x, 1), ins.n) ELSE Drop(y, 1)
    [] ins.op = "br_table" -> Branch(Drop(x, 1), IF top < Len(ins.tab) THEN ins.tab[top + 1] ELSE ins.n)
    [] ins.op = "return" -> Leave(x)
    [] ins.op = "unreachable" -> Trap(x)

\* Instructions up to the next turn of a loop, call or end.
RECURSIVE Run(_)
Run(x) ==
  CASE x.o # "run" -> x
    [] x.pc > Len(code) -> IF Len(x.stk) = 1 THEN Leave(x) ELSE Trap(x)
    [] OTHER -> With(Execute(x, code[x.pc]), LAMBDA y :
                  IF code[x.pc].op \in {"call", "br"} THEN y ELSE Run(y))

----------------------------------------------------------------------------
Init == /\ phase = "source"
        /\ body \in Functions
        /\ framed \in BOOLEAN
        /\ tree = None /\ locals = 3 /\ code = <<>> /\ inputs = <<>>
        /\ m = Boot(0, <<>>)

\* traverse_defun().
TraverseDefun ==
  /\ phase = "source"
  /\ With(traverse_stmt(body, 3), LAMBDA r :
       IF Unsupported(body, "none")
       THEN phase' = "rejected" /\ UNCHANGED <<tree, locals>>
       ELSE phase' = "traversed" /\ tree' = r.e /\ locals' = r.n)
  /\ UNCHANGED <<body, framed, code, inputs, m>>

GenDefun ==
  /\ phase = "traversed"
  /\ phase' = "generated"
  /\ code' = gen_defun(tree, locals + 1).code
  /\ UNCHANGED <<body, framed, tree, locals, inputs, m>>

\* The generated function is called.
Begin ==
  /\ phase = "generated"
  /\ phase' = "running"
  /\ \E inp \in Inputs : inputs' = inp /\ m' = Boot(locals + 1, inp)
  /\ UNCHANGED <<body, framed, tree, locals, code>>

RunWasm ==
  /\ phase = "running" /\ m.o = "run"
  /\ m' = Run(m)
  /\ UNCHANGED <<phase, body, framed, tree, locals, code, inputs>>

Finished == /\ phase = "rejected" \/ m.o # "run"
            /\ UNCHANGED vars

Next == TraverseDefun \/ GenDefun \/ Begin \/ RunWasm \/ Finished

Spec == Init /\ [][Next]_vars
----------------------------------------------------------------------------
(* Properties.                                                             *)

\* The WebAssembly of a function makes the source's calls with the same
\* arguments in the same order, leaves the same memory and returns the same
\* value, and never finds its stack too short, a block with values left over or
\* a branch to a depth that is not there (gen_expr's needval, cur_depth,
\* break_depth and continue_depth of gen_wasm.c, the trees traverse.c rewrote).
WasmMeaningKept ==
  phase = "running" /\ m.o # "run" =>
    /\ m.o # "trap"
    /\ [trace |-> m.trace, mem |-> SubSeq(m.mem, 1, Len(Memory)), starved |-> m.o = "starved",
        result |-> IF m.o = "return" THEN NumberOf(Last(m.stk), "i") ELSE 0]
       = Observed(ExecFunction(body, Start(Memory, inputs)))

\* However a function is left, through the end, a return inside nested loops
\* and switches, or behind a variadic call, the stack pointer is what it was
\* (prologue and epilogue of gen_defun, gen_return, gen_funcall).
StackPointerRestored == phase = "running" /\ m.o = "return" => m.sp = StackTop
=============================================================================
