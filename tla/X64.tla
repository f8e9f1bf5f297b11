-------------------------------- MODULE X64 --------------------------------
(***************************************************************************)
(* cc1's back end for x64: ir_x64.c, the frame and the prologue of         *)
(* emit_code.c and the part of codegen.c between them.  The intermediate   *)
(* code is made two-operand, virtual registers get physical ones, those    *)
(* that do not fit a place in the frame, and every instruction becomes the *)
(* processor's (Cpu).                                                      *)
(*                                                                         *)
(* Integers and pointers; floating point numbers, structures by value,     *)
(* variadic functions and alloca() are not modelled.                       *)
(***************************************************************************)
EXTENDS Ir, Cpu

\* kRegSizeTable; physical register i is PhysRegs[i + 1] in the code.
PhysRegs == <<"rbx", "r10", "r11", "r12", "r13", "r14", "r15">>
kCalleeSaveRegs == <<1, 4, 5, 6, 7>>
kCallerSaveRegs == <<2, 3>>
ArgRegs == <<"rdi", "rsi", "rdx", "rcx", "r8", "r9">>
MAX_REG_ARGS == Len(ArgRegs)
WORD_SIZE == 8

\* Constants that fit an immediate operand.
is_im32(n) == n \in -4..3

ALIGN(n, a) == ((n + a - 1) \div a) * a
Size(t) == Bytes(Bits(t))

----------------------------------------------------------------------------
(* tweak_irs().                                                            *)
ThreeToTwo == ArithOps \cup {"neg", "bitnot"}

\* `A = B op C' becomes `A = B; A = A op C'.
convert_3to2(ir) ==
  IF ir.op \in ThreeToTwo THEN <<[Ir("mov") EXCEPT !.dst = ir.dst, !.a = ir.a], [ir EXCEPT !.a = ir.dst]>>
                          ELSE <<ir>>

\* mul and div know no immediate operand.
insert_const_mov(x, ir) ==
  IF ir.op \in {"mul", "div", "mod"} /\ IsConst(ir.b)
    THEN LET tmp == VReg(x.nreg + 1, ir.b.t)
         IN  [nreg |-> x.nreg + 1,
              irs |-> x.irs \o <<[Ir("mov") EXCEPT !.dst = tmp, !.a = ir.b], [ir EXCEPT !.b = tmp]>>]
    ELSE [x EXCEPT !.irs = Append(@, ir)]

\* Every block in use; the others are not looked at any more.
EachBlock(s, f(_, _)) ==
  Stepwise(LAMBDA x, b : LET r == Stepwise(f, [nreg |-> x.nreg, irs |-> <<>>], x.irs[b])
                         IN  [x EXCEPT !.nreg = r.nreg, !.irs[b] = r.irs], s, s.bbs)

tweak_irs(s) ==
  With(EachBlock(s, LAMBDA x, ir : [x EXCEPT !.irs = @ \o convert_3to2(ir)]), LAMBDA two :
    EachBlock(two, insert_const_mov))

----------------------------------------------------------------------------
(* alloc_physical_registers().  The modules LinearScan and RegAlloc follow *)
(* it step by step; here it is a function from the code to its result.     *)

\* check_live_interval(): instruction numbers of the first and last use.
StartOf(s, i) == FoldLeft(LAMBDA n, j : n + Len(s.irs[s.bbs[j]]), 0, [j \in 1..i - 1 |-> j])
UsesIn(s, r, b) == {j \in DOMAIN s.irs[b] : r \in Operands(s.irs[b][j]) \cup Defined(s.irs[b][j])}
LiveInterval(s, flow, r) ==
  With(UNION {{StartOf(s, i) + j - 1 : j \in UsesIn(s, r, s.bbs[i])}
              \cup (IF r \in flow.in[s.bbs[i]] THEN {StartOf(s, i)} ELSE {})
              \cup (IF r \in flow.out[s.bbs[i]] THEN {StartOf(s, i + 1)} ELSE {})
              : i \in DOMAIN s.bbs}, LAMBDA seen :
    IF seen = {} THEN [virt |-> r, start |-> -1, end |-> -1]
                 ELSE [virt |-> r, start |-> Min(seen), end |-> Max(seen)])

SortedIntervals(s, flow) ==
  SortSeq(AsSeq([r \in 1..s.nreg |-> LiveInterval(s, flow, r)]),
          LAMBDA p, q : \/ p.start < q.start
                        \/ p.start = q.start /\ (p.end > q.end \/ (p.end = q.end /\ p.virt < q.virt)))

\* linear_scan_register_allocation() over the intervals that are not spilled.
ScanOne(lis, max, x, k) ==
  LET li     == lis[k]
      live   == {j \in x.active : lis[j].end > li.start}
      free   == {p \in 1..max : \A j \in live : x.phys[lis[j].virt] # p}
      last   == CHOOSE j \in live : \A i \in live : lis[i].end < lis[j].end \/ (lis[i].end = lis[j].end /\ i <= j)
      give(p, rest) == [x EXCEPT !.active = rest \cup {k}, !.phys = (li.virt :> p) @@ @, !.used = @ \cup {p}]
  IN  CASE li.virt \in x.spilled -> x
        [] li.virt \notin x.spilled /\ free # {} -> give(Min(free), live)
        [] li.virt \notin x.spilled /\ free = {} /\ lis[last].end > li.end ->
             [give(x.phys[lis[last].virt], live \ {last}) EXCEPT !.spilled = @ \cup {lis[last].virt}]
        [] OTHER -> [x EXCEPT !.active = live, !.spilled = @ \cup {li.virt}]
Scan(lis, max, spilled) ==
  Stepwise(LAMBDA x, k : ScanOne(lis, max, x, k),
           [active |-> {}, phys |-> <<>>, used |-> {}, spilled |-> spilled], [k \in 1..Len(lis) |-> k])

\* insert_tmp_reg() for the spilled registers of one instruction: a new
\* register each, loaded before and stored behind.
InsertTmpRegs(spilled, x, ir) ==
  LET olds   == SelectSeq(<<ir.a, ir.b, ir.dst>>, LAMBDA r : IsReg(r) /\ r.id \in spilled)
      ids    == SetToSeq({r.id : r \in ToSet(olds)})
      tmp(r) == IF IsReg(r) /\ r.id \in spilled
                  THEN VReg(x.nreg + CHOOSE i \in DOMAIN ids : ids[i] = r.id, r.t) ELSE r
  IN  With(SelectSeq(IF ir.b = ir.a THEN <<ir.a>> ELSE <<ir.a, ir.b>>, LAMBDA r : tmp(r) # r), LAMBDA loads :
  LET load(r) == [Ir("load_spilled") EXCEPT !.dst = tmp(r), !.a = r]
  IN  With(IF tmp(ir.dst) = ir.dst THEN <<>>
           ELSE <<[Ir("store_spilled") EXCEPT !.a = tmp(ir.dst), !.b = ir.dst]>>, LAMBDA store :
    IF ir.op \in {"load_spilled", "store_spilled"} THEN [x EXCEPT !.irs = Append(@, ir)]
    ELSE [nreg |-> x.nreg + Len(ids),
          irs |-> x.irs \o AsSeq([i \in DOMAIN loads |-> load(loads[i])])
                        \o <<[ir EXCEPT !.a = tmp(@), !.b = tmp(@), !.dst = tmp(@)]>> \o store]))

\* Rounds, until there is nothing to insert.
RECURSIVE alloc_physical_registers(_, _, _, _)
alloc_physical_registers(s, flow, max, spilled) ==
  With(SortedIntervals(s, flow), LAMBDA lis :
  With(Scan(lis, max, spilled), LAMBDA scan :
  With(EachBlock(s, LAMBDA x, ir : InsertTmpRegs(scan.spilled, x, ir)), LAMBDA with :
    IF with.nreg = s.nreg THEN [code |-> s, lis |-> lis, phys |-> scan.phys, used |-> scan.used,
                                spilled |-> scan.spilled]
    ELSE alloc_physical_registers(with, flow, max, scan.spilled))))

(* Mutant: registers that die at the call are the ones that count. *)
LivingAtDying(al, n, p) ==
  \E k \in DOMAIN al.lis : al.lis[k].virt \notin al.spilled /\ al.phys[al.lis[k].virt] = p /\ al.lis[k].end = n

\* detect_living_registers(): physical register p at instruction n.  An
\* interval of one instruction is not taken off the list before the next one
\* that has its register.
LivingAt(al, n, p) ==
  LET on == {k \in DOMAIN al.lis : /\ al.lis[k].virt \notin al.spilled
                                   /\ al.phys[al.lis[k].virt] = p
                                   /\ al.lis[k].start \in 0..n - 1}
  IN  on # {} /\ LET li == al.lis[Max(on)] IN li.end > n \/ li.end = li.start

\* The living registers of every call, by its number.
detect_living_registers(al) ==
  LET s == al.code
      calls(i) == {j \in DOMAIN s.irs[s.bbs[i]] : s.irs[s.bbs[i]][j].op = "call"}
  IN  With(UNION {{<<s.irs[s.bbs[i]][j].bb, StartOf(s, i) + j - 1>> : j \in calls(i)} : i \in DOMAIN s.bbs}, LAMBDA at :
    [id \in {c[1] : c \in at} |->
       LET n == (CHOOSE c \in at : c[1] = id)[2] IN {p \in DOMAIN PhysRegs : LivingAt(al, n, p)}])

\* alloc_spilled_vregs_onto_stack_frame(): offsets from rbp, by register.
TypeOf(s, r) ==
  LET mentions == UNION {UNION {{x \in {ir.dst, ir.a, ir.b} : IsReg(x) /\ x.id = r} : ir \in ToSet(s.irs[b])}
                         : b \in ToSet(s.bbs)}
  IN  IF mentions = {} THEN "i" ELSE (CHOOSE x \in mentions : TRUE).t
PlaceInFrame(al, f, li) ==
  LET size == Size(TypeOf(al.code, li.virt))
      frame == ALIGN(f.frame + size, size)
  IN  [frame |-> frame, offset |-> (li.virt :> -frame) @@ f.offset]
alloc_spilled_vregs(al) ==
  FoldLeft(LAMBDA f, li : PlaceInFrame(al, f, li), [frame |-> 0, offset |-> <<>>],
           SelectSeq(al.lis, LAMBDA li : li.virt \in al.spilled))

\* map_virtual_to_physical_registers() and the rest: what ir_out() needs.
Backend(s, flow, max, refs) ==
  With(alloc_physical_registers(s, flow, max, refs), LAMBDA al :
  With(alloc_spilled_vregs(al), LAMBDA fr :
    [code |-> al.code, phys |-> al.phys, used |-> al.used, living |-> detect_living_registers(al),
     frame |-> fr.frame, offset |-> fr.offset]))

----------------------------------------------------------------------------
(* ir_out() and what it calls.  be is the result of the phases above; the  *)
(* state of the emission has the instructions out so far and stackpos, the *)
(* distance of rsp from the caller's, and aligned, the padding by call.    *)
Phys(be, r) == R(PhysRegs[be.phys[r.id]])
Operand(be, r) == IF IsConst(r) THEN Im(r.n) ELSE Phys(be, r)
AReg == R("rax")
DReg == R("rdx")
Spill(be, r) == M("rbp", be.offset[r.id])

OutAddress(be, ir) ==
  IF ir.op = "iofs" THEN <<Ins("mov", 4, Im(ir.b.n), Phys(be, ir.dst))>>
                    ELSE <<Ins("lea", 4, M("rsp", ir.a.n), Phys(be, ir.dst))>>

Indirect(be, r) == M(Phys(be, r).r, 0)
OutMemory(be, ir) ==
  IF ir.op = "load" THEN <<Ins("mov", Bits(ir.dst.t), Indirect(be, ir.a), Phys(be, ir.dst))>>
                    ELSE <<Ins("mov", Bits(ir.a.t), Operand(be, ir.a), Indirect(be, ir.b))>>

\* add and sub: by one with inc and dec.
OutAddSub(be, ir) ==
  LET one == IF ir.op = "add" THEN 1 ELSE -1
      w   == Bits(ir.dst.t)
      d   == Phys(be, ir.dst)
  IN  CASE IsConst(ir.b) /\ ir.b.n = 0    -> <<>>
        [] IsConst(ir.b) /\ ir.b.n = one  -> <<Ins("inc", w, Nothing, d)>>
        [] IsConst(ir.b) /\ ir.b.n = -one -> <<Ins("dec", w, Nothing, d)>>
        [] OTHER -> <<Ins(ir.op, w, Operand(be, ir.b), d)>>

OutMul(be, ir) ==
  LET w == Bits(ir.dst.t)
  IN  <<Ins("mov", w, Phys(be, ir.a), AReg), Ins("mul", w, Phys(be, ir.b), Nothing),
        Ins("mov", w, AReg, Phys(be, ir.dst))>>

\* Of 4 and 8 bytes: the operands of smaller types are converted before.
OutDivMod(be, ir) ==
  LET w   == Bits(ir.dst.t)
      uns == IsUnsigned(ir.dst.t)
  IN  <<Ins("mov", w, Phys(be, ir.a), AReg),
        IF uns THEN Ins("xor", 3, DReg, DReg) ELSE Ins("sext", w, Nothing, Nothing),
        Ins(IF uns THEN "div" ELSE "idiv", w, Phys(be, ir.b), Nothing),
        Ins("mov", w, IF ir.op = "div" THEN AReg ELSE DReg, Phys(be, ir.dst))>>

OutBits(be, ir) == <<Ins(ir.op, Bits(ir.dst.t), Operand(be, ir.b), Phys(be, ir.dst))>>

\* Shifts by a register go through cl.
OutShift(be, ir) ==
  LET w  == Bits(ir.dst.t)
      op == IF ir.op = "shl" THEN "shl" ELSE IF IsUnsigned(ir.a.t) THEN "shr" ELSE "sar"
  IN  IF IsConst(ir.b) THEN <<Ins(op, w, Im(ir.b.n), Phys(be, ir.dst))>>
      ELSE <<Ins("mov", 2, Phys(be, ir.b), R("rcx")), Ins(op, w, R("rcx"), Phys(be, ir.dst))>>

OutCmp(be, ir) ==
  LET w == Bits(ir.a.t)
      a == Phys(be, ir.a)
  IN  IF IsConst(ir.b) /\ ir.b.n = 0 THEN <<Ins("test", w, a, a)>> ELSE <<Ins("cmp", w, Operand(be, ir.b), a)>>

OutUnary(be, ir) == <<Ins(IF ir.op = "neg" THEN "neg" ELSE "not", Bits(ir.dst.t), Nothing, Phys(be, ir.dst))>>

OutCond(be, ir) ==
  LET d == Phys(be, ir.dst)
  IN  <<[Ins("set", 2, Nothing, d) EXCEPT !.cond = ir.cond, !.uns = ir.uns],
        [Ins("movsx", 2, d, d) EXCEPT !.to = <<3>>]>>

OutJmp(ir) == <<[Ins("jmp", 3, Nothing, Nothing) EXCEPT !.cond = ir.cond, !.uns = ir.uns, !.to = <<ir.bb>>]>>

\* The index is extended to 8 bytes: of 4 bytes, by a move to itself.
OutTjmp(be, ir) ==
  LET r == Phys(be, ir.a)
      w == Bits(ir.a.t)
  IN  (CASE w = 4 -> <<>>
         [] w = 3 -> <<Ins("mov", 3, r, r)>>
         [] w = 2 -> <<[Ins("movzx", 2, r, r) EXCEPT !.to = <<4>>]>>)
      \o <<[Ins("tjmp", 4, r, Nothing) EXCEPT !.to = ir.tab]>>

\* A narrowing cast is a move, or nothing if the register stays.
OutCast(be, ir) ==
  LET ws == Bits(ir.a.t)
      wd == Bits(ir.dst.t)
      s  == Phys(be, ir.a)
      d  == Phys(be, ir.dst)
  IN  CASE wd <= ws /\ s = d -> <<>>
        [] wd <= ws /\ s # d -> <<Ins("mov", wd, s, d)>>
        [] wd > ws /\ IsUnsigned(ir.a.t) /\ ws = 3 /\ wd = 4 -> <<Ins("mov", 3, s, d)>>
        [] OTHER -> <<[Ins(IF IsUnsigned(ir.a.t) THEN "movzx" ELSE "movsx", ws, s, d) EXCEPT !.to = <<wd>>]>>

OutMov(be, ir) ==
  IF IsReg(ir.a) /\ Phys(be, ir.a) = Phys(be, ir.dst) THEN <<>>
  ELSE <<Ins("mov", Bits(ir.dst.t), Operand(be, ir.a), Phys(be, ir.dst))>>

OutResult(be, ir) == <<Ins("mov", Bits(ir.a.t), Operand(be, ir.a), AReg)>>

OutSpilled(be, ir) ==
  IF ir.op = "load_spilled" THEN <<Ins("mov", Bits(ir.dst.t), Spill(be, ir.a), Phys(be, ir.dst))>>
                            ELSE <<Ins("mov", Bits(ir.a.t), Phys(be, ir.a), Spill(be, ir.b))>>

----------------------------------------------------------------------------
(* Calls.                                                                  *)
AddSp(n) == IF n = 0 THEN <<>> ELSE <<Ins("addsp", 4, Im(n), Nothing)>>
CallerSaved(be, ir) == SelectSeq(kCallerSaveRegs, LAMBDA p : p \in be.living[ir.bb])
RegArgs(ir) == IF Len(ir.tab) < MAX_REG_ARGS THEN Len(ir.tab) ELSE MAX_REG_ARGS

(* Mutant: the room for the saved registers is not counted. *)
OutPrecallUncounted(be, e, ir) ==
  LET room  == WORD_SIZE * Len(CallerSaved(be, ir))
      align == (16 - (e.stackpos + ir.b.n)) % 16
  IN  [out |-> e.out \o AddSp(-(room + align)), stackpos |-> e.stackpos + room + align,
       aligned |-> (ir.bb :> align) @@ e.aligned]

\* Room for the caller-save registers, and the stack aligned for the call.
OutPrecall(be, e, ir) ==
  LET room  == WORD_SIZE * Len(CallerSaved(be, ir))
      align == (16 - (e.stackpos + room + ir.b.n)) % 16
  IN  [out |-> e.out \o AddSp(-(room + align)), stackpos |-> e.stackpos + room + align,
       aligned |-> (ir.bb :> align) @@ e.aligned]

OutPusharg(be, e, ir) ==
  [e EXCEPT !.out = @ \o (IF IsConst(ir.a) /\ ~is_im32(ir.a.n)
                            THEN <<Ins("mov", 4, Im(ir.a.n), AReg), Ins("push", 4, AReg, Nothing)>>
                            ELSE <<Ins("push", 4, Operand(be, ir.a), Nothing)>>),
            !.stackpos = @ + WORD_SIZE]

\* push_caller_save_regs() and pop_caller_save_regs(): the last one lowest.
SaveRegs(be, ir, base) ==
  With(Reverse(CallerSaved(be, ir)), LAMBDA regs :
    AsSeq([i \in DOMAIN regs |-> Ins("mov", 4, R(PhysRegs[regs[i]]), M("rsp", base + (i - 1) * WORD_SIZE))]))
RestoreRegs(be, ir) ==
  With(Reverse(CallerSaved(be, ir)), LAMBDA regs :
    AsSeq([i \in DOMAIN regs |-> Ins("pop", 4, Nothing, R(PhysRegs[regs[i]]))]))

\* The places where a function finds its parameters: prepare_register_
\* allocation() gives those behind the sixth an offset from rbp, and
\* put_args_to_stack() stores the first six by their size.
ParamPlaces(types) ==
  AsSeq([i \in DOMAIN types |->
    [w |-> Bits(types[i]),
     x |-> IF i <= MAX_REG_ARGS THEN R(ArgRegs[i])
           ELSE M("rbp", 2 * WORD_SIZE + (i - 1 - MAX_REG_ARGS) * WORD_SIZE)]])

\* The arguments in registers are popped, the callee is called, what the call
\* needed of the stack is given back.
OutCall(be, e, ir) ==
  LET stack  == ir.b.n
  IN  With(RegArgs(ir), LAMBDA args :
  LET base   == args * WORD_SIZE + stack + e.aligned[ir.bb]
      w      == Bits(ir.dst.t)
  IN  With(AsSeq([i \in 1..args |-> Ins("pop", 4, Nothing, R(ArgRegs[i]))]), LAMBDA pops :
  LET saved  == Len(CallerSaved(be, ir))
  IN  [e EXCEPT
         !.out = @ \o SaveRegs(be, ir, base) \o pops
                   \o <<[Ins("call", w, Nothing, Nothing) EXCEPT !.name = ir.name, !.at = ParamPlaces(ir.tab)]>>
                   \o AddSp(e.aligned[ir.bb] + stack) \o RestoreRegs(be, ir)
                   \o <<Ins("mov", w, AReg, Phys(be, ir.dst))>>,
         !.stackpos = @ - args * WORD_SIZE - e.aligned[ir.bb] - saved * WORD_SIZE]))

----------------------------------------------------------------------------
Simple(be, ir) ==
  CASE ir.op \in {"iofs", "sofs"} -> OutAddress(be, ir)
    [] ir.op \in {"load", "store"} -> OutMemory(be, ir)
    [] ir.op \in {"add", "sub"} -> OutAddSub(be, ir)
    [] ir.op = "mul" -> OutMul(be, ir)
    [] ir.op \in {"div", "mod"} -> OutDivMod(be, ir)
    [] ir.op \in {"and", "or", "xor"} -> OutBits(be, ir)
    [] ir.op \in {"shl", "shr"} -> OutShift(be, ir)
    [] ir.op = "cmp" -> OutCmp(be, ir)
    [] ir.op \in {"neg", "bitnot"} -> OutUnary(be, ir)
    [] ir.op = "cond" -> OutCond(be, ir)
    [] ir.op = "jmp" -> OutJmp(ir)
    [] ir.op = "tjmp" -> OutTjmp(be, ir)
    [] ir.op = "result" -> OutResult(be, ir)
    [] ir.op = "subsp" -> AddSp(-ir.a.n)
    [] ir.op = "cast" -> OutCast(be, ir)
    [] ir.op = "mov" -> OutMov(be, ir)
    [] ir.op \in {"load_spilled", "store_spilled"} -> OutSpilled(be, ir)

ir_out(be, e, ir) ==
  CASE ir.op = "precall" -> OutPrecall(be, e, ir)
    [] ir.op = "pusharg" -> OutPusharg(be, e, ir)
    [] ir.op = "call"    -> OutCall(be, e, ir)
    [] OTHER -> [e EXCEPT !.out = @ \o Simple(be, ir)]

emit_bb_irs(be, e) ==
  Stepwise(LAMBDA x, b : Stepwise(LAMBDA y, ir : ir_out(be, y, ir),
                                  [x EXCEPT !.out = Append(@, [Ins("label", 4, Nothing, Nothing) EXCEPT !.to = <<b>>])],
                                  be.code.irs[b]),
           e, be.code.bbs)

CalleeSaves(be) == SelectSeq(kCalleeSaveRegs, LAMBDA p : p \in be.used)
push_callee_save_regs(be) ==
  AsSeq([i \in DOMAIN CalleeSaves(be) |-> Ins("push", 4, R(PhysRegs[CalleeSaves(be)[i]]), Nothing)])
pop_callee_save_regs(be) ==
  With(Reverse(CalleeSaves(be)), LAMBDA regs : AsSeq([i \in DOMAIN regs |-> Ins("pop", 4, Nothing, R(PhysRegs[regs[i]]))]))

\* emit_defun(): prologue, code, epilogue.
emit_defun(be) ==
  With([out |-> <<Ins("push", 4, R("rbp"), Nothing), Ins("mov", 4, R("rsp"), R("rbp"))>>
                \o AddSp(-be.frame) \o push_callee_save_regs(be),
        stackpos |-> 8 + WORD_SIZE + be.frame + WORD_SIZE * Len(CalleeSaves(be)), aligned |-> <<>>], LAMBDA start :
  With(emit_bb_irs(be, start), LAMBDA body :
    [body EXCEPT !.out = @ \o pop_callee_save_regs(be)
                           \o <<Ins("mov", 4, R("rbp"), R("rsp")), Ins("pop", 4, Nothing, R("rbp")),
                                Ins("ret", 4, Nothing, Nothing)>>,
                 !.stackpos = @ - WORD_SIZE * Len(CalleeSaves(be)) - be.frame - WORD_SIZE]))
=============================================================================
