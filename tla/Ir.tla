--------------------------------- MODULE Ir ---------------------------------
(***************************************************************************)
(* cc1's intermediate representation (ir.c): instructions on virtual       *)
(* registers in basic blocks, the folding the constructors do, the removal *)
(* of unnecessary blocks and the analysis of the registers that are live   *)
(* between blocks; and a machine that executes the representation.         *)
(*                                                                         *)
(* A function under construction is a record: irs[b] and next[b] of block  *)
(* b, the blocks in the order they are emitted (bbs), the current block,   *)
(* the number of virtual registers, and v, the register the last           *)
(* constructor returned.                                                   *)
(***************************************************************************)
EXTENDS Source

NoReg == [kind |-> "no", id |-> 0, n |-> 0, t |-> "i"]
VReg(id, t) == [kind |-> "reg", id |-> id, n |-> 0, t |-> t]
ConstReg(v, t) == [kind |-> "const", id |-> 0, n |-> v, t |-> t]
IsConst(r) == r.kind = "const"
IsReg(r) == r.kind = "reg"

Ir(op) == [op |-> op, dst |-> NoReg, a |-> NoReg, b |-> NoReg, cond |-> "none",
           uns |-> FALSE, bb |-> 0, tab |-> <<>>, name |-> ""]

EmptyFunction == [irs |-> <<>>, next |-> <<>>, bbs |-> <<>>, cur |-> 0, nreg |-> 0,
                  v |-> NoReg, brk |-> 0, cont |-> 0, ret |-> 0, at |-> <<>>, ncall |-> 0]

\* new_ir(): into the current block.
new_ir(s, ir) == [s EXCEPT !.irs[s.cur] = Append(@, ir)]
\* reg_alloc_spawn(): a register of type t, in v.
spawn(s, t) == [s EXCEPT !.nreg = @ + 1, !.v = VReg(s.nreg + 1, t)]
Returning(s, r) == [s EXCEPT !.v = r]

\* new_bb(), n times: the new blocks are Len(s.irs) + 1 and up.
new_bbs(s, n) == [s EXCEPT !.irs = @ \o [i \in 1..n |-> <<>>], !.next = @ \o [i \in 1..n |-> 0]]

set_curbb(s, b) == [s EXCEPT !.next = IF s.cur = 0 THEN @ ELSE [@ EXCEPT ![s.cur] = b],
                             !.cur = b, !.bbs = Append(@, b)]

\* An instruction with a result.
WithResult(s, ir, t) == LET d == spawn(s, t) IN new_ir(d, [ir EXCEPT !.dst = d.v])

----------------------------------------------------------------------------
\* The value new_ir_bop() computes for two constants, which are int64_t there:
\* the remainder is a quotient, of the uint64_t when it is signed and of the
\* int64_t when it is unsigned.  No function here divides by a constant 0
\* (error() ends cc1).
FoldBop(op, t, a, b) ==
  LET uint64(v) == Pattern(v, "p")
      int64(v)  == uint64(v) - (IF Bit(v, Bits("p") - 1) = 1 THEN 2^Bits("p") ELSE 0)
  IN  wrap_value(CASE op = "mod" /\ IsUnsigned(t)  -> TruncDiv(int64(a), int64(b))
                   [] op = "mod" /\ ~IsUnsigned(t) -> uint64(a) \div uint64(b)
                   [] OTHER -> Arith(op, "p", a, b), t)

\* new_ir_bop(): constants are folded, neutral operands leave no instruction.
new_ir_bop(s, op, a, b, t) ==
  LET neutralL == CASE op \in {"add", "sub", "or", "xor"} -> a.n = 0   \* returns opr2
                    [] op = "mul" -> a.n = 1
                    [] OTHER -> FALSE
      zeroL    == op \in {"div", "mod", "and", "shl", "shr"} /\ a.n = 0
      neutralR == CASE op \in {"add", "sub", "or", "xor", "shl", "shr"} -> b.n = 0
                    [] op \in {"mul", "div"} -> b.n = 1
                    [] OTHER -> FALSE
      zeroR    == op = "and" /\ b.n = 0
  IN  CASE IsConst(a) /\ IsConst(b) -> Returning(s, ConstReg(FoldBop(op, t, a.n, b.n), t))
        [] IsConst(a) /\ ~IsConst(b) /\ neutralL -> Returning(s, b)
        [] IsConst(a) /\ ~IsConst(b) /\ zeroL    -> Returning(s, a)
        [] ~IsConst(a) /\ IsConst(b) /\ neutralR -> Returning(s, a)
        [] ~IsConst(a) /\ IsConst(b) /\ zeroR    -> Returning(s, b)
        [] OTHER -> WithResult(s, [Ir(op) EXCEPT !.a = a, !.b = b], t)

new_ir_unary(s, op, a, t) ==
  IF IsConst(a) /\ op # "load"
    THEN Returning(s, ConstReg(wrap_value(IF op = "neg" THEN -a.n ELSE -a.n - 1, t), t))
    ELSE WithResult(s, [Ir(op) EXCEPT !.a = a], t)

new_ir_mov(s, dst, src) == new_ir(s, [Ir("mov") EXCEPT !.dst = dst, !.a = src])
new_ir_store(s, dst, src) == new_ir(s, [Ir("store") EXCEPT !.a = src, !.b = dst])
new_ir_cmp(s, a, b) == new_ir(s, [Ir("cmp") EXCEPT !.a = a, !.b = b])
new_ir_cond(s, c) == WithResult(s, [Ir("cond") EXCEPT !.cond = c.cond, !.uns = c.uns], "i")
new_ir_jmp(s, c, bb) ==
  IF c.cond = "none" THEN s
  ELSE new_ir(s, [Ir("jmp") EXCEPT !.cond = c.cond, !.uns = c.uns, !.bb = bb])
new_ir_tjmp(s, a, tab) == new_ir(s, [Ir("tjmp") EXCEPT !.a = a, !.tab = tab])
new_ir_iofs(s, addr) == WithResult(s, [Ir("iofs") EXCEPT !.b = ConstReg(addr, "p")], "p")
new_ir_cast(s, a, t) == WithResult(s, [Ir("cast") EXCEPT !.a = a], t)
new_ir_pusharg(s, a) == new_ir(s, [Ir("pusharg") EXCEPT !.a = a])
\* A precall and its call share a number and the size of the stack arguments.
new_ir_precall(s, size) ==
  [new_ir(s, [Ir("precall") EXCEPT !.bb = s.ncall + 1, !.b = ConstReg(size, "p")]) EXCEPT !.ncall = @ + 1]
new_ir_subsp(s, size) == new_ir(s, [Ir("subsp") EXCEPT !.a = ConstReg(size, "p")])
new_ir_sofs(s, ofs) == WithResult(s, [Ir("sofs") EXCEPT !.a = ConstReg(ofs, "p")], "p")
new_ir_call(s, f, types, id, size, t) ==
  WithResult(s, [Ir("call") EXCEPT !.name = f, !.tab = types, !.bb = id, !.b = ConstReg(size, "p")], t)
new_ir_result(s, a) == new_ir(s, [Ir("result") EXCEPT !.a = a])

Always == [cond |-> "any", uns |-> FALSE]
Never == [cond |-> "none", uns |-> FALSE]

----------------------------------------------------------------------------
(* remove_unnecessary_bb().                                                *)
invert_cond(c) == CASE c = "eq" -> "ne" [] c = "ne" -> "eq" [] c = "lt" -> "ge"
                    [] c = "ge" -> "lt" [] c = "le" -> "gt" [] c = "gt" -> "le"

LastIs(s, b, op) == s.irs[b] # <<>> /\ Last(s.irs[b]).op = op
LastJmp(s, b) == Last(s.irs[b])
LastIsJmp(s, b) == LastIs(s, b, "jmp")
LastIsAnyJmp(s, b) == LastIsJmp(s, b) /\ LastJmp(s, b).cond = "any"

\* Every jump to src, src's own excepted, goes to dst.
replace_jmp_destination(s, src, dst) ==
  LET to(b) == IF b = src THEN dst ELSE b
      redirect(b) == IF b = src \/ ~(LastIsJmp(s, b) \/ LastIs(s, b, "tjmp")) THEN s.irs[b]
                     ELSE [s.irs[b] EXCEPT ![Len(s.irs[b])] =
                             [@ EXCEPT !.bb = to(@), !.tab = AsSeq([i \in DOMAIN @ |-> to(@[i])])]]
  IN  [s EXCEPT !.irs = AsSeq([b \in DOMAIN s.irs |-> IF b \in ToSet(s.bbs) THEN redirect(b) ELSE s.irs[b]])]

\* One turn of the first loop, at position i; keep is the set of blocks that
\* are referred to so far.
SweepBlock(x, i) ==
  LET s     == x.s
      b     == s.bbs[i]
      empty == s.irs[b] = <<>>
  IN  With(Len(s.irs[b]) = 1 /\ LastIsAnyJmp(s, b) /\ LastJmp(s, b).bb # b, LAMBDA only :
  LET dest  == LastJmp(s, b).bb
      p     == s.bbs[i - 1]
  IN  With(IF empty THEN replace_jmp_destination(s, b, s.next[b])
           ELSE IF only THEN replace_jmp_destination(s, b, dest) ELSE s, LAMBDA s1 :
  With(/\ only /\ i > 1
       /\ LastIsJmp(s1, p) /\ LastJmp(s1, p).cond # "any"
       /\ LastJmp(s1, p).bb = s.next[b], LAMBDA skips :
  With(IF ~skips THEN s1
       ELSE [s1 EXCEPT !.irs[p][Len(s1.irs[p])] =
               [@ EXCEPT !.cond = invert_cond(@), !.bb = dest]], LAMBDA s2 :
  With((IF LastIsJmp(s, b) THEN {LastJmp(s2, b).bb} ELSE {})
       \cup (IF ~LastIsAnyJmp(s, b) THEN {s.next[b]} ELSE {})
       \cup (IF LastIs(s, b, "tjmp") THEN ToSet(Last(s2.irs[b]).tab) ELSE {}), LAMBDA refs :
    [s |-> s2, keep |-> (x.keep \cup refs) \ (IF empty \/ skips THEN {b} ELSE {})])))))

\* One turn of the endless loop: look at all blocks but the last, then take out
\* the blocks nothing refers to.
RECURSIVE SweepFrom(_, _)
SweepFrom(x, i) == IF i >= Len(x.s.bbs) THEN x ELSE SweepFrom(SweepBlock(x, i), i + 1)
SweepKeep(s) == SweepFrom([s |-> s, keep |-> {s.bbs[1]}], 1)
(* Mutant: the block before is not linked past the removed one. *)
TakeOutUnlinked(s, keep) == [s EXCEPT !.bbs = SelectSeq(@, LAMBDA b : b \in keep)]

TakeOut(s, keep) ==
  LET out(x, b) == IF b \in keep THEN [x EXCEPT !.bbs = Append(@, b)]
                   ELSE IF x.bbs = <<>> THEN x
                   ELSE [x EXCEPT !.next[Last(x.bbs)] = x.next[b]]
  IN  FoldLeft(out, [s EXCEPT !.bbs = <<>>], s.bbs)
Sweep(s) == With(SweepKeep(s), LAMBDA k : TakeOut(k.s, k.keep))

\* The last loop: a jump to the block that follows is dropped.
DropJmpToNext(s) ==
  LET drop(x, i) == LET b == x.bbs[i]
                    IN  IF LastIsAnyJmp(x, b) /\ LastJmp(x, b).bb = x.next[b]
                        THEN [x EXCEPT !.irs[b] = Front(@)] ELSE x
  IN  FoldLeft(drop, s, [i \in 1..Len(s.bbs) - 1 |-> i])

----------------------------------------------------------------------------
(* detect_from_bbs() and analyze_reg_flow().                               *)
FromBbs(s, b) ==
  SelectSeq(s.bbs, LAMBDA f :
    /\ s.irs[f] # <<>>
    /\ LET ir == Last(s.irs[f])
       IN  \/ ir.op = "jmp" /\ ir.bb = b
           \/ ir.op = "tjmp" /\ b \in ToSet(ir.tab)
           \/ s.next[f] = b /\ ~(ir.op = "jmp" /\ ir.cond = "any") /\ ir.op # "tjmp")

\* Registers an instruction reads; constants do not count.
Operands(ir) == {r.id : r \in {x \in {ir.a, ir.b} : IsReg(x)}}
Defined(ir) == IF IsReg(ir.dst) THEN {ir.dst.id} ELSE {}

\* The registers a block reads before it assigns them, and those it assigns.
LocalFlow(irs) ==
  Stepwise(LAMBDA x, ir : [in |-> x.in \cup (Operands(ir) \ x.asg), asg |-> x.asg \cup Defined(ir)],
           [in |-> {}, asg |-> {}], irs)

(* Mutant: the blocks before the blocks before are left out. *)
PropagateOnce(s, flow, r, froms) ==
  [flow EXCEPT !.out = AsSeq([b \in DOMAIN @ |-> IF b \in ToSet(froms) THEN @[b] \cup {r} ELSE @[b]])]

\* propagate_out_regs(): register r is an output of the blocks of the worklist,
\* and an input of those that do not assign it, and so on backwards.
RECURSIVE Propagate(_, _, _, _)
Propagate(s, flow, r, froms) ==
  IF froms = <<>> THEN flow
  ELSE LET b    == Last(froms)
           more == r \notin flow.in[b] /\ r \notin flow.asg[b]
           f1   == [flow EXCEPT !.out[b] = @ \cup {r}, !.in[b] = IF more THEN @ \cup {r} ELSE @]
       IN  Propagate(s, f1, r, Front(froms) \o (IF more THEN FromBbs(s, b) ELSE <<>>))

\* Blocks from the last to the first; in_regs of a block may grow meanwhile,
\* and the registers added to a block that is still being looked at are
\* propagated as well.
RECURSIVE PropagateIns(_, _, _, _)
PropagateIns(s, flow, b, done) ==
  IF flow.in[b] \subseteq done THEN flow
  ELSE LET r == CHOOSE x \in flow.in[b] \ done : TRUE
       IN  PropagateIns(s, Propagate(s, flow, r, FromBbs(s, b)), b, done \cup {r})

analyze_reg_flow(s) ==
  With(AsSeq([b \in DOMAIN s.irs |-> LocalFlow(s.irs[b])]), LAMBDA local :
  With([in |-> AsSeq([b \in DOMAIN s.irs |-> local[b].in]),
        out |-> AsSeq([b \in DOMAIN s.irs |-> {}]),
        asg |-> AsSeq([b \in DOMAIN s.irs |-> local[b].asg])], LAMBDA start :
    FoldRight(LAMBDA b, flow : PropagateIns(s, flow, b, {}), s.bbs, start)))

----------------------------------------------------------------------------
(* The machine: what the instructions mean.  Registers hold bit patterns.  *)
Boot(s, mem, inputs) ==
  [i |-> 1, regs |-> AsSeq([r \in 1..s.nreg |-> 0]), mem |-> mem, fa |-> NoReg, fb |-> NoReg,
   args |-> <<>>, trace |-> <<>>, inp |-> inputs, o |-> "run", jump |-> 0, ret |-> ConstReg(0, "i")]

\* The number an operand stands for, read as a value of type t.
Fetch(m, r, t) == wrap_value(IF IsConst(r) THEN r.n ELSE Number(m.regs[r.id], r.t), t)

\* The words of the stack arguments are known by their distance from the
\* bottom of m.args; the addresses of sofs are above those of the memory.
Outgoing == 100
WORD == 8

\* A condition on the operands of the last cmp, as signed or unsigned numbers.
Holds(m, c, uns) ==
  \/ c = "any"
  \/ /\ c # "any"
     /\ LET num(r) == IF uns THEN Pattern(r.n, r.t)
                             ELSE LET b == Pattern(r.n, r.t) IN IF b < 2^(Bits(r.t) - 1) THEN b ELSE b - 2^Bits(r.t)
        IN  Compare(c, num(m.fa), num(m.fb))

Execute(m, ir) ==
  LET set(v) == [m EXCEPT !.regs[ir.dst.id] = Pattern(v, ir.dst.t)]
      t == ir.dst.t
  IN  IF m.o # "run" \/ m.jump # 0 THEN m
      ELSE CASE ir.op \in {"shl", "shr"} -> set(Arith(ir.op, t, Fetch(m, ir.a, t), Fetch(m, ir.b, ir.b.t)))
             [] ir.op \in ArithOps \ {"shl", "shr"} -> set(Arith(ir.op, t, Fetch(m, ir.a, t), Fetch(m, ir.b, t)))
             [] ir.op = "neg" -> set(-Fetch(m, ir.a, t))
             [] ir.op = "bitnot" -> set(-Fetch(m, ir.a, t) - 1)
             [] ir.op \in {"mov", "cast"} -> set(Fetch(m, ir.a, ir.a.t))
             [] ir.op = "iofs" -> set(ir.b.n)
             [] ir.op = "load" -> set(m.mem[Fetch(m, ir.a, "p")])
             [] ir.op = "precall" -> m
             [] ir.op = "subsp" -> [m EXCEPT !.args = AsSeq([j \in 1..ir.a.n \div WORD |-> 0]) \o @]
             [] ir.op = "sofs" -> [m EXCEPT !.regs[ir.dst.id] = Outgoing + Len(m.args) - ir.a.n \div WORD]
             [] ir.op = "store" /\ IsReg(ir.b) /\ m.regs[ir.b.id] > Outgoing ->
                  [m EXCEPT !.args[Len(m.args) + 1 - (m.regs[ir.b.id] - Outgoing)] = Fetch(m, ir.a, ir.a.t)]
             [] ir.op = "store" /\ ~(IsReg(ir.b) /\ m.regs[ir.b.id] > Outgoing) -> [m EXCEPT !.mem[Fetch(m, ir.b, "p")] = Fetch(m, ir.a, ir.a.t)]
             [] ir.op = "cmp" -> [m EXCEPT !.fa = ConstReg(Fetch(m, ir.a, ir.a.t), ir.a.t),
                                           !.fb = ConstReg(Fetch(m, ir.b, ir.a.t), ir.a.t)]
             [] ir.op = "cond" -> set(Bool(Holds(m, ir.cond, ir.uns)))
             [] ir.op = "jmp" -> IF Holds(m, ir.cond, ir.uns) THEN [m EXCEPT !.jump = ir.bb] ELSE m
             [] ir.op = "tjmp" -> [m EXCEPT !.jump = ir.tab[Pattern(Fetch(m, ir.a, ir.a.t), ir.a.t) + 1]]
             [] ir.op = "pusharg" -> [m EXCEPT !.args = <<Fetch(m, ir.a, ir.a.t)>> \o @]
             [] ir.op = "call" ->
                  LET pushed == IF Len(ir.tab) < 6 THEN Len(ir.tab) ELSE 6
                  IN  IF m.inp = <<>> THEN [m EXCEPT !.o = "starved"]
                      ELSE [set(Head(m.inp)) EXCEPT
                              !.inp = Tail(@), !.args = SubSeq(@, pushed + ir.b.n \div WORD + 1, Len(@)),
                              !.trace = Append(@, <<ir.name, SubSeq(m.args, 1, Len(ir.tab))>>)]
             [] ir.op = "result" -> [m EXCEPT !.ret = ConstReg(Fetch(m, ir.a, ir.a.t), ir.a.t)]

\* The block at position m.i is executed; without a jump control falls into the
\* block that is emitted next.
ExecuteBlock(s, m) ==
  With(Stepwise(Execute, m, s.irs[s.bbs[m.i]]), LAMBDA x :
    CASE x.o # "run" -> x
      [] x.o = "run" /\ x.jump # 0 ->
           IF x.jump \in ToSet(s.bbs)
             THEN [x EXCEPT !.jump = 0, !.i = CHOOSE j \in DOMAIN s.bbs : s.bbs[j] = x.jump]
             ELSE [x EXCEPT !.o = "lost"]
      [] OTHER -> IF m.i = Len(s.bbs) THEN [x EXCEPT !.o = "return"] ELSE [x EXCEPT !.i = @ + 1])

\* What a caller sees of a finished execution.
Observable(m) == [trace |-> m.trace, mem |-> m.mem, starved |-> m.o = "starved",
                  result |-> IF m.o = "return" THEN m.ret.n ELSE 0]
=============================================================================
