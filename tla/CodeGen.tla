------------------------------ MODULE CodeGen ------------------------------
(***************************************************************************)
(* cc1's code generator (codegen.c, codegen_expr.c): a function's tree     *)
(* becomes basic blocks, unnecessary blocks are removed, the back end      *)
(* (X64) makes the instructions its own, the flow of registers between     *)
(* blocks is analysed, registers are allocated and the assembler code is   *)
(* emitted.  The blocks as generated and the emitted code are executed and *)
(* compared with the source.                                               *)
(***************************************************************************)
EXTENDS X64

CONSTANTS Functions,   \* the bodies to compile
          Inputs,      \* what the called functions answer, as sequences
          Memory,      \* the initial memory, a sequence of values
          Machines     \* pairs: PHYSICAL_REG_MAX, the local variables whose address is taken

VARIABLES phase,   \* source, generated, sweeping, cleaned, tweaked, analyzed, emitted, running, executing
          body,    \* the tree of the function (func->body_block)
          code,    \* the function's blocks (fnbe->bbcon)
          flow,    \* in_regs, out_regs, assigned_regs of the blocks
          asm,     \* the instructions, and stackpos behind them
          inputs,  \* the answers chosen for this execution
          m,       \* the machine that executes the blocks
          cpu      \* the processor

vars == <<phase, body, code, flow, asm, inputs, m, cpu>>

----------------------------------------------------------------------------
swap_cond(c) == CASE c = "lt" -> "gt" [] c = "gt" -> "lt" [] c = "le" -> "ge" [] c = "ge" -> "le"
                  [] OTHER -> c

RECURSIVE gen_expr(_, _), gen_lval(_, _), gen_cond_jmp(_, _, _, _), gen_funcall(_, _), gen_args(_, _, _)

\* Compares and leaves the condition to test in v.
gen_compare_expr(s, k, lhs, rhs) ==
  LET swap == lhs.k = "num"
      l    == IF swap THEN rhs ELSE lhs
      r    == IF swap THEN lhs ELSE rhs
      c    == IF swap THEN swap_cond(k) ELSE k
  IN  With(gen_expr(s, l), LAMBDA a :
  With(gen_expr(a, r), LAMBDA b :
  LET n(x) == IF IsUnsigned(l.t) THEN Pattern(x.n, "p") ELSE x.n
  IN  IF IsConst(a.v) /\ IsConst(b.v)
        THEN Returning(b, IF Compare(c, n(a.v), n(b.v)) THEN Always ELSE Never)
        ELSE Returning(new_ir_cmp(b, a.v, b.v), [cond |-> c, uns |-> IsUnsigned(l.t)])))

\* A jump to bb when the condition e is tf.
gen_cond_jmp(s, e, tf, bb) ==
  CASE e.k = "num" -> IF (e.n # 0) = tf THEN new_ir_jmp(s, Always, bb) ELSE s
    [] e.k \in CompareOps ->
         With(gen_compare_expr(s, IF tf THEN e.k ELSE invert_cond(e.k), e.l, e.r), LAMBDA c :
           new_ir_jmp(c, c.v, bb))
    [] e.k \in {"logand", "logior"} ->
         With(new_bbs(s, 2), LAMBDA s0 :
         LET bb1 == Len(s.irs) + 1
             bb2 == bb1 + 1
             and == (e.k = "logand") = tf
         IN  With(IF and THEN gen_cond_jmp(s0, e.l, ~tf, bb2) ELSE gen_cond_jmp(s0, e.l, tf, bb), LAMBDA l :
         With(gen_cond_jmp(set_curbb(l, bb1), e.r, tf, bb), LAMBDA r :
           set_curbb(r, bb2))))
    [] e.k = "comma" -> gen_cond_jmp(gen_expr(s, e.l), e.r, tf, bb)

gen_cast(s, r, t) ==
  CASE IsConst(r) -> Returning(s, ConstReg(IF Bits(t) < Bits(r.t) THEN wrap_value(r.n, t) ELSE r.n, t))
    [] ~IsConst(r) /\ Bits(t) = Bits(r.t) /\ IsUnsigned(t) = IsUnsigned(r.t) -> Returning(s, r)
    [] OTHER -> new_ir_cast(s, r, t)

\* The address of an object that is not in a register.
gen_lval(s, e) ==
  CASE e.k = "global" -> new_ir_iofs(s, e.addr)
    [] e.k = "deref"  -> gen_expr(s, e.s)
    [] e.k = "member" ->
         With(gen_lval(s, e.s), LAMBDA a :
           IF e.ofs = 0 THEN a ELSE new_ir_bop(a, "add", a.v, ConstReg(e.ofs, "p"), "p"))

gen_ternary(s, e) ==
  LET tbb == Len(s.irs) + 1
  IN  With(spawn(new_bbs(s, 3), e.t), LAMBDA d :
  With(gen_cond_jmp(d, e.c, FALSE, tbb + 1), LAMBDA c :
  With(gen_expr(set_curbb(c, tbb), e.l), LAMBDA t :
  With(new_ir_jmp(new_ir_mov(t, d.v, t.v), Always, tbb + 2), LAMBDA t1 :
  With(gen_expr(set_curbb(t1, tbb + 1), e.r), LAMBDA f :
    Returning(set_curbb(new_ir_mov(f, d.v, f.v), tbb + 2), d.v))))))

\* The arguments of a call from the last to the first: pushed if they go to a
\* register, else stored in the room made for them; as those are
\* the last, nothing has been pushed below them yet.
gen_args(s, args, i) ==
  IF i = 0 THEN s
  ELSE With(gen_expr(s, args[i]), LAMBDA a :
       With(new_ir_sofs(a, WORD_SIZE * (i - 1 - MAX_REG_ARGS)), LAMBDA p :
         gen_args(IF i <= MAX_REG_ARGS THEN new_ir_pusharg(a, a.v) ELSE new_ir_store(p, p.v, a.v),
                  args, i - 1)))

\* Integer arguments only: the first six are in registers.
gen_funcall(s, e) ==
  LET count == Len(e.args)
  IN  With(IF count <= MAX_REG_ARGS THEN 0 ELSE ALIGN(WORD_SIZE * (count - MAX_REG_ARGS), 16), LAMBDA size :
  With(new_ir_precall(s, size), LAMBDA pre :
  With(IF size > 0 THEN new_ir_subsp(pre, size) ELSE pre, LAMBDA sub :
    new_ir_call(gen_args(sub, e.args, count), e.f, AsSeq([i \in 1..count |-> e.args[i].t]), pre.ncall, size, e.t))))

\* ++ and --: a local variable is changed in its register, another object
\* through its address.
gen_inc_dec(s, e) ==
  LET post  == e.k \in {"postinc", "postdec"}
      op    == IF e.k \in {"preinc", "postinc"} THEN "add" ELSE "sub"
      local == e.s.k = "local"
      var   == VReg(e.s.x, e.s.t)
  IN  With(IF local THEN s ELSE gen_lval(s, e.s), LAMBDA lval :
  With(IF local THEN s ELSE new_ir_unary(lval, "load", lval.v, e.t), LAMBDA load :
  LET copy  == spawn(s, e.s.t)
  IN  With(IF ~local THEN load
           ELSE IF post THEN new_ir_mov(copy, copy.v, var) ELSE s, LAMBDA s1 :
  LET val   == IF local THEN var ELSE load.v
  IN  With(new_ir_bop(s1, op, val, ConstReg(1, e.t), e.t), LAMBDA after :
  With(IF local THEN new_ir_mov(after, var, after.v)
                ELSE new_ir_store(after, lval.v, after.v), LAMBDA s2 :
    Returning(s2, IF ~post THEN after.v ELSE IF local THEN copy.v ELSE load.v))))))

gen_assign(s, e) ==
  With(gen_expr(s, e.r), LAMBDA r :
  IF e.l.k = "local"
  THEN Returning(new_ir_mov(r, VReg(e.l.x, e.l.t), r.v), r.v)
  ELSE With(gen_lval(r, e.l), LAMBDA p : Returning(new_ir_store(p, p.v, r.v), r.v)))

\* A comparison, && or || as a value.
gen_truth(s, e) ==
  IF e.k \in CompareOps
    THEN With(gen_compare_expr(s, e.k, e.l, e.r), LAMBDA c :
           IF c.v \in {Always, Never} THEN Returning(c, ConstReg(Bool(c.v = Always), "i"))
                                      ELSE new_ir_cond(c, c.v))
    ELSE LET false_bb == Len(s.irs) + 1
         IN  With(spawn(gen_cond_jmp(new_bbs(s, 2), e, FALSE, false_bb), "i"), LAMBDA c :
         With(new_ir_jmp(new_ir_mov(c, c.v, ConstReg(1, "i")), Always, false_bb + 1), LAMBDA t :
         With(new_ir_mov(set_curbb(t, false_bb), c.v, ConstReg(0, "i")), LAMBDA f :
           Returning(set_curbb(f, false_bb + 1), c.v))))

\* The code of expression e; its value is in the register v.
gen_expr(s, e) ==
  CASE e.k = "num" ->
         IF is_im32(e.n) THEN Returning(s, ConstReg(e.n, e.t))
         ELSE LET d == spawn(s, e.t) IN new_ir_mov(d, d.v, ConstReg(e.n, e.t))
    [] e.k = "local" -> Returning(s, VReg(e.x, e.t))
    [] e.k \in {"global", "deref", "member"} ->
         With(gen_lval(s, e), LAMBDA a : new_ir_unary(a, "load", a.v, e.t))
    [] e.k = "ref"   -> gen_lval(s, e.s)
    [] e.k = "comma" -> gen_expr(gen_expr(s, e.l), e.r)
    [] e.k = "ternary" -> gen_ternary(s, e)
    [] e.k = "cast"  -> With(gen_expr(s, e.s), LAMBDA a : gen_cast(a, a.v, e.t))
    [] e.k = "assign" -> gen_assign(s, e)
    [] e.k \in IncDecOps -> gen_inc_dec(s, e)
    [] e.k = "call"  -> gen_funcall(s, e)
    [] e.k \in {"neg", "bitnot"} ->
         With(gen_expr(s, e.s), LAMBDA a : new_ir_unary(a, e.k, a.v, e.t))
    [] e.k \in CompareOps \cup {"logand", "logior"} -> gen_truth(s, e)
    [] e.k \in ArithOps ->
         With(gen_expr(s, e.l), LAMBDA a :
         With(gen_expr(a, e.r), LAMBDA b :
           new_ir_bop(b, e.k, a.v, b.v, e.t)))

----------------------------------------------------------------------------
RECURSIVE gen_stmt(_, _), gen_stmts(_, _, _), gen_switch_cond_recur(_, _, _, _)

(* Mutant: the default case is forgotten. *)
SkipBbForgetsDefault(s, sw) == s.brk

\* Where a switch goes when no case matches.
SkipBb(s, sw) ==
  IF \E i \in DOMAIN sw.cases : sw.cases[i].dflt
    THEN s.at[sw.cases[CHOOSE i \in DOMAIN sw.cases : sw.cases[i].dflt].id]
    ELSE s.brk

gen_switch_cond_table_jump(s, sw, reg, cases) ==
  LET min   == Head(cases).n
      range == Last(cases).n - min + 1
  IN  With(AsSeq([i \in 1..range |->
              IF \E j \in DOMAIN cases : cases[j].n - min + 1 = i
                THEN s.at[cases[CHOOSE j \in DOMAIN cases : cases[j].n - min + 1 = i].id]
                ELSE SkipBb(s, sw)]), LAMBDA table :
  LET next  == Len(s.irs) + 1
  IN  With(new_bbs(s, 1), LAMBDA s1 :
  With(IF min = 0 THEN Returning(s1, reg) ELSE new_ir_bop(s1, "sub", reg, ConstReg(min, reg.t), reg.t), LAMBDA val :
  With(new_ir_cmp(val, val.v, ConstReg(range - 1, val.v.t)), LAMBDA s2 :
  With(new_ir_jmp(s2, [cond |-> "gt", uns |-> TRUE], SkipBb(s, sw)), LAMBDA s3 :
    new_ir_tjmp(set_curbb(s3, next), val.v, table))))))

\* Sorted cases: one after the other, through a table, or by halves.
gen_switch_cond_recur(s, sw, reg, cases) ==
  LET uns    == IsUnsigned(reg.t)
      range  == Last(cases).n - Head(cases).n + 1
      mid    == (Len(cases) \div 2) + 1
      one(x, c) ==
        LET next == Len(x.irs) + 1
        IN  With(new_ir_cmp(new_bbs(x, 1), reg, ConstReg(c.n, reg.t)), LAMBDA x1 :
          set_curbb(new_ir_jmp(x1, [cond |-> "eq", uns |-> uns], x.at[c.id]), next))
  IN  CASE Len(cases) <= 2 -> new_ir_jmp(FoldLeft(one, s, cases), Always, SkipBb(s, sw))
        [] Len(cases) > 2 /\ range >= 4 /\ Len(cases) > range \div 2 ->
             gen_switch_cond_table_jump(s, sw, reg, cases)
        [] OTHER ->
             With(one(s, cases[mid]), LAMBDA s1 :
             LET lt == Len(s1.irs) + 1
             IN  With(new_ir_jmp(new_bbs(s1, 2), [cond |-> "gt", uns |-> uns], lt + 1), LAMBDA s2 :
             With(gen_switch_cond_recur(set_curbb(s2, lt), sw, reg, SubSeq(cases, 1, mid - 1)), LAMBDA s3 :
               gen_switch_cond_recur(set_curbb(s3, lt + 1), sw, reg, SubSeq(cases, mid + 1, Len(cases))))))

gen_switch_cond(s, sw) ==
  With(gen_expr(s, sw.e), LAMBDA r :
  LET hit    == {i \in DOMAIN sw.cases : ~sw.cases[i].dflt /\ sw.cases[i].n = r.v.n}
      target == IF hit = {} THEN SkipBb(s, sw) ELSE s.at[sw.cases[CHOOSE i \in hit : TRUE].id]
      next   == Len(r.irs) + 1
      sorted == SortSeq(SelectSeq(sw.cases, LAMBDA c : ~c.dflt), LAMBDA c, d : c.n < d.n)
  IN  With(IF sw.cases = <<>> THEN new_ir_jmp(r, Always, s.brk)
                              ELSE gen_switch_cond_recur(r, sw, r.v, sorted), LAMBDA jumps :
  With(IF IsConst(r.v) THEN set_curbb(new_ir_jmp(new_bbs(r, 1), Always, target), next)
                       ELSE jumps, LAMBDA done :
    set_curbb(new_bbs(done, 1), Len(done.irs) + 1))))

gen_switch(s, sw) ==
  LET brk == Len(s.irs) + 1
  IN  With([new_bbs(s, 1 + Len(sw.cases)) EXCEPT !.brk = brk,
              !.at = FoldLeft(LAMBDA f, i : (sw.cases[i].id :> brk + i) @@ f, @,
                              [i \in 1..Len(sw.cases) |-> i])], LAMBDA s1 :
  With(gen_stmt(gen_switch_cond(s1, sw), sw.b), LAMBDA s2 :
    [set_curbb(s2, brk) EXCEPT !.brk = s.brk]))

\* A jump out of the current block; what follows starts a block of its own.
Leave(s, bb) == set_curbb(new_ir_jmp(new_bbs(s, 1), Always, bb), Len(s.irs) + 1)

gen_return(s, st) ==
  LET bb == Len(s.irs) + 1
  IN  With(new_bbs(s, 1), LAMBDA s1 :
  With(IF st.e.k = "none" THEN s1
       ELSE With(gen_expr(s1, st.e), LAMBDA r : new_ir_result(r, r.v)), LAMBDA s2 :
    set_curbb(new_ir_jmp(s2, Always, s.ret), bb)))

gen_if(s, st) ==
  LET tbb == Len(s.irs) + 1
  IN  With(gen_cond_jmp(new_bbs(s, 2), st.c, FALSE, tbb + 1), LAMBDA c :
  With(gen_stmt(set_curbb(c, tbb), st.a), LAMBDA t :
  LET nbb == Len(t.irs) + 1
  IN  With(gen_stmt(set_curbb(new_ir_jmp(new_bbs(t, 1), Always, nbb), tbb + 1), st.b), LAMBDA f :
    IF st.b.k = "none" THEN set_curbb(t, tbb + 1) ELSE set_curbb(f, nbb))))

\* while, do-while and for: the body first in the text, the condition below it.
gen_loop(s, st) ==
  LET loop == Len(s.irs) + 1
      cont == loop + 1
      cond == IF st.k = "for" THEN loop + 2 ELSE cont
      brk  == cond + 1
  IN  With([new_bbs(s, brk - loop + 1) EXCEPT !.cont = cont, !.brk = brk], LAMBDA s0 :
  With(IF st.k = "for" /\ st.pre.k # "none" THEN gen_expr(s0, st.pre) ELSE s0, LAMBDA s1 :
  With(IF st.k = "dowhile" THEN s1 ELSE new_ir_jmp(s1, Always, cond), LAMBDA s2 :
  With(set_curbb(gen_stmt(set_curbb(s2, loop), st.b), cont), LAMBDA s3 :
  With(IF st.k # "for" THEN s3
       ELSE set_curbb(IF st.post.k = "none" THEN s3 ELSE gen_expr(s3, st.post), cond), LAMBDA s4 :
  With(IF st.c.k = "none" THEN new_ir_jmp(s4, Always, loop)
                          ELSE gen_cond_jmp(s4, st.c, TRUE, loop), LAMBDA s5 :
    [set_curbb(s5, brk) EXCEPT !.cont = s.cont, !.brk = s.brk]))))))

\* The statements of a block from the i-th on; there is a current block.
gen_stmts(s, ss, i) == IF s.cur = 0 \/ i > Len(ss) THEN s ELSE gen_stmts(gen_stmt(s, ss[i]), ss, i + 1)

gen_stmt(s, st) ==
  CASE st.k = "none"   -> s
    [] st.k = "expr"   -> gen_expr(s, st.e)
    [] st.k = "block"  -> gen_stmts(s, st.ss, 1)
    [] st.k = "if"     -> gen_if(s, st)
    [] st.k \in {"while", "dowhile", "for"} -> gen_loop(s, st)
    [] st.k = "switch" -> gen_switch(s, st)
    [] st.k = "case"   -> set_curbb(s, s.at[st.id])
    [] st.k = "break"  -> Leave(s, s.brk)
    [] st.k = "continue" -> Leave(s, s.cont)
    [] st.k = "goto"   -> Leave(s, s.at[st.lbl])
    [] st.k = "label"  -> gen_stmt(set_curbb(s, s.at[st.lbl]), st.s)
    [] st.k = "return" -> gen_return(s, st)

----------------------------------------------------------------------------
RECURSIVE LabelsIn(_)
LabelsIn(st) ==
  CASE st.k = "label" -> {st.lbl} \cup LabelsIn(st.s)
    [] st.k = "block" -> UNION {LabelsIn(st.ss[i]) : i \in DOMAIN st.ss}
    [] st.k = "if"    -> LabelsIn(st.a) \cup LabelsIn(st.b)
    [] st.k \in {"while", "dowhile", "for", "switch"} -> LabelsIn(st.b)
    [] OTHER -> {}

\* gen_defun() up to the clean-up: the first block, the blocks of the labels,
\* the registers of the three local variables, the block of the epilogue, the
\* body.
gen_defun(st) ==
  With(SetToSeq(LabelsIn(st)), LAMBDA labels :
  With(set_curbb(new_bbs(EmptyFunction, 1), 1), LAMBDA s0 :
  With([new_bbs(s0, Len(labels) + 1) EXCEPT
          !.at = FoldLeft(LAMBDA f, i : (labels[i] :> i + 1) @@ f, <<>>, [i \in 1..Len(labels) |-> i]),
          !.ret = Len(labels) + 2, !.nreg = 3], LAMBDA s1 :
    set_curbb(gen_stmt(s1, st), s1.ret))))

----------------------------------------------------------------------------
NoFlow == [in |-> <<>>, out |-> <<>>, asg |-> <<>>]
NoCode == [out |-> <<>>, stackpos |-> 0]
Idle == Boot(EmptyFunction, Memory, <<>>)
Off == Reset(Memory, <<>>)

Init == /\ phase = "source"
        /\ body \in Functions
        /\ code = EmptyFunction
        /\ flow = NoFlow
        /\ asm = NoCode
        /\ inputs = <<>>
        /\ m = Idle
        /\ cpu = Off

GenDefun ==
  /\ phase = "source"
  /\ phase' = "generated"
  /\ code' = gen_defun(body)
  /\ UNCHANGED <<body, flow, asm, inputs, m, cpu>>

\* One turn of remove_unnecessary_bb(); the last one removes nothing.
RemoveUnnecessaryBb ==
  /\ phase \in {"generated", "sweeping"}
  /\ With(Sweep(code), LAMBDA s :
       IF Len(s.bbs) < Len(code.bbs)
       THEN phase' = "sweeping" /\ code' = s
       ELSE phase' = "cleaned" /\ code' = DropJmpToNext(s))
  /\ UNCHANGED <<body, flow, asm, inputs, m, cpu>>

TweakIrs ==
  /\ phase = "cleaned"
  /\ phase' = "tweaked"
  /\ code' = tweak_irs(code)
  /\ UNCHANGED <<body, flow, asm, inputs, m, cpu>>

AnalyzeRegFlow ==
  /\ phase = "tweaked"
  /\ phase' = "analyzed"
  /\ flow' = analyze_reg_flow(code)
  /\ UNCHANGED <<body, code, asm, inputs, m, cpu>>

\* Allocation of the registers and the frame, and emit_defun(); variables
\* whose address is taken are spilled (prepare_register_allocation()).
EmitDefun ==
  /\ phase = "analyzed"
  /\ phase' = "emitted"
  /\ \E mc \in Machines :
       With(emit_defun(Backend(code, flow, mc[1], mc[2])), LAMBDA e :
         asm' = [out |-> e.out, stackpos |-> e.stackpos])
  /\ code' = EmptyFunction
  /\ flow' = NoFlow
  /\ UNCHANGED <<body, inputs, m, cpu>>

\* The function is called: the blocks as they were generated, or the emitted
\* code.
Begin ==
  /\ phase = "generated"
  /\ phase' = "running"
  /\ \E inp \in Inputs : inputs' = inp /\ m' = Boot(code, Memory, inp)
  /\ UNCHANGED <<body, code, flow, asm, cpu>>

RunBlock ==
  /\ phase = "running" /\ m.o = "run"
  /\ m' = ExecuteBlock(code, m)
  /\ UNCHANGED <<phase, body, code, flow, asm, inputs, cpu>>

CallCode ==
  /\ phase = "emitted"
  /\ phase' = "executing"
  /\ \E inp \in Inputs : inputs' = inp /\ cpu' = Reset(Memory, inp)
  /\ UNCHANGED <<body, code, flow, asm, m>>

\* Up to the next label.
RunCode ==
  /\ phase = "executing" /\ cpu.o = "run"
  /\ cpu' = StepOn(asm.out, cpu)
  /\ UNCHANGED <<phase, body, code, flow, asm, inputs, m>>

Finished ==
  /\ \/ phase = "running" /\ m.o # "run"
     \/ phase = "executing" /\ cpu.o # "run"
  /\ UNCHANGED vars

Next == \/ GenDefun \/ RemoveUnnecessaryBb \/ TweakIrs \/ AnalyzeRegFlow \/ EmitDefun
        \/ Begin \/ RunBlock \/ CallCode \/ RunCode \/ Finished

Spec == Init /\ [][Next]_vars
----------------------------------------------------------------------------
(* Properties.                                                             *)

\* The compiled function makes the calls the source makes, with the same
\* arguments in the same order, leaves the same memory and returns the same
\* value (gen_stmt, gen_expr, gen_cond_jmp).
SourceMeaningKept ==
  phase = "running" /\ m.o # "run" =>
    Observable(m) = Observed(ExecFunction(body, Start(Memory, inputs)))

\* So does the code that is emitted for it, after the clean-up of the blocks,
\* with the registers it was given: no value is lost in a register that is used
\* for two things, in a register the callee may change, in a part of a register
\* or in the frame, and callees find their arguments, those on the stack too.
MachineMeaningKept ==
  phase = "executing" /\ cpu.o \in {"return", "starved"} =>
    Outcome(cpu, Bits("i")) = Observed(ExecFunction(body, Start(Memory, inputs)))

\* Calls are made with the stack aligned to 16, the function returns with the
\* stack pointer and the registers its caller relies on, no condition is read
\* from flags that an instruction in between has changed, and the assertion of
\* emit_defun() holds: stackpos is what it was.
CallsKeepAbi ==
  /\ phase \in {"emitted", "executing"} => asm.stackpos = 8
  /\ cpu.o \in {"run", "return", "starved"}

\* After the clean-up bb->next, which the analysis follows, is the block that
\* is emitted next, and every jump goes to a block that is still there.
BlocksLinked ==
  phase \in {"cleaned", "tweaked", "analyzed"} =>
    /\ \A i \in 1..Len(code.bbs) - 1 : code.next[code.bbs[i]] = code.bbs[i + 1]
    /\ \A b \in ToSet(code.bbs) :
         /\ LastIsJmp(code, b) => LastJmp(code, b).bb \in ToSet(code.bbs)
         /\ LastIs(code, b, "tjmp") => ToSet(Last(code.irs[b]).tab) \subseteq ToSet(code.bbs)

\* The blocks control can go to from the block at position i.
Successors(i) ==
  LET irs == code.irs[code.bbs[i]]
      ir  == IF irs = <<>> THEN Ir("none") ELSE Last(irs)
      at(b) == CHOOSE j \in DOMAIN code.bbs : code.bbs[j] = b
  IN  (IF ir.op = "jmp" THEN {at(ir.bb)} ELSE {})
      \cup (IF ir.op = "tjmp" THEN {at(ir.tab[j]) : j \in DOMAIN ir.tab} ELSE {})
      \cup (IF (ir.op = "jmp" /\ ir.cond = "any") \/ ir.op = "tjmp" \/ i = Len(code.bbs) THEN {} ELSE {i + 1})

\* "Propagate in_regs to out_regs to from_bbs recursively." (ir.c:551): what a
\* block needs on entry is an output of every block that control comes from.
PropagatedToPredecessors ==
  phase = "analyzed" =>
    \A i \in DOMAIN code.bbs : \A j \in Successors(i) :
      flow.in[code.bbs[j]] \subseteq flow.out[code.bbs[i]]

LiveBefore(irs, live) == Stepwise(LAMBDA l, ir : (l \ Defined(ir)) \cup Operands(ir), live, Reverse(irs))

\* The registers live at the start of each block: the least solution of the
\* data-flow equations.
RECURSIVE LiveIn(_)
LiveIn(in) ==
  With(AsSeq([i \in DOMAIN in |-> LiveBefore(code.irs[code.bbs[i]], UNION {in[j] : j \in Successors(i)})]), LAMBDA new :
    IF new = in THEN in ELSE LiveIn(new))

\* Two registers that hold values needed later at one point of the program have
\* intervals that overlap, so the linear scan will not give them one physical
\* register: what analyze_reg_flow() finds covers every path, loops included.
LiveTogetherOverlap ==
  phase = "analyzed" =>
    With(LiveIn([i \in DOMAIN code.bbs |-> {}]), LAMBDA in :
    LET after(i, j) == LiveBefore(SubSeq(code.irs[code.bbs[i]], j + 1, Len(code.irs[code.bbs[i]])),
                                  UNION {in[k] : k \in Successors(i)})
    IN  With(UNION {{in[i]} \cup {after(i, j) \cup Defined(code.irs[code.bbs[i]][j])
                                   : j \in DOMAIN code.irs[code.bbs[i]]}
                    : i \in DOMAIN code.bbs}, LAMBDA points :
    With([r \in UNION points |-> LiveInterval(code, flow, r)], LAMBDA ivs :
      \A p \in points : \A r, q \in p :
        r # q => ivs[r].end > ivs[q].start /\ ivs[q].end > ivs[r].start)))
=============================================================================
