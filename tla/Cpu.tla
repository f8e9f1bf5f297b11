-------------------------------- MODULE Cpu --------------------------------
(***************************************************************************)
(* The x86-64 processor as far as cc1's output uses it, and a caller and   *)
(* callees that keep to the calling convention: what the code generated    *)
(* for a function is executed on.                                          *)
(*                                                                         *)
(* A register holds 4 bits (Source: 8 bytes), of which an instruction      *)
(* names 4, 3 (4 bytes) or 2 (1 byte).  Addresses from StackLow on are     *)
(* those of the stack, which is kept by the byte; they are outside the     *)
(* range of the numbers and only moved, stored and displaced.              *)
(***************************************************************************)
EXTENDS Source

Registers == {"rax", "rbx", "rcx", "rdx", "rsi", "rdi", "rsp", "rbp",
              "r8", "r9", "r10", "r11", "r12", "r13", "r14", "r15"}
CalleeSaved == {"rbx", "rbp", "r12", "r13", "r14", "r15"}

\* Operands: register, immediate, memory; and an instruction, source first.
R(r) == [k |-> "r", r |-> r, n |-> 0]
Im(n) == [k |-> "im", r |-> "", n |-> n]
M(base, n) == [k |-> "m", r |-> base, n |-> n]
Nothing == Im(0)
Ins(op, w, s, d) == [op |-> op, w |-> w, s |-> s, d |-> d, cond |-> "none", uns |-> FALSE,
                     to |-> <<>>, name |-> "", at |-> <<>>]

Bytes(w) == CASE w = 2 -> 1 [] w = 3 -> 4 [] w = 4 -> 8
Signed(b, w) == IF b < 2^(w - 1) THEN b ELSE b - 2^w

StackLow == 100
Entry == 1000                     \* rsp on entry: 8 above a multiple of 16
Garbage(r) == IF r = "rsp" THEN Entry ELSE IF r = "rbp" THEN Entry + 40
              ELSE IF r \in {"rbx", "r13", "rcx", "r9"} THEN 13 ELSE 10

\* The function is about to be entered.
Reset(mem, inputs) ==
  [pc |-> 1, r |-> [q \in Registers |-> Garbage(q)], stk |-> <<>>, mem |-> mem, inp |-> inputs,
   trace |-> <<>>, fl |-> [a |-> 0, b |-> 0, w |-> 0], o |-> "run"]

----------------------------------------------------------------------------
\* What was written at an address, as w bits; elsewhere, and above what was
\* written, there are ones.
Peek(m, a, w) ==
  IF a < StackLow THEN m.mem[a] % 2^w
  ELSE IF a \in DOMAIN m.stk /\ m.stk[a].w >= w THEN (IF w = 4 THEN m.stk[a].v ELSE m.stk[a].v % 2^w)
  ELSE 2^w - 1
Poke(m, a, w, v) ==
  IF a < StackLow THEN [m EXCEPT !.mem[a] = Signed(v, w)]
  ELSE LET kept == {b \in DOMAIN m.stk : b + Bytes(m.stk[b].w) <= a \/ a + Bytes(w) <= b}
       IN  [m EXCEPT !.stk = [b \in kept |-> m.stk[b]] @@ (a :> [w |-> w, v |-> v])]

Read(m, x, w) ==
  CASE x.k = "im" -> x.n % 2^w
    [] x.k = "r"  -> IF w = 4 THEN m.r[x.r] ELSE m.r[x.r] % 2^w
    [] x.k = "m"  -> Peek(m, m.r[x.r] + x.n, w)

\* A byte leaves the rest of a register as it is, 4 bytes clear it.
Write(m, x, w, v) ==
  IF x.k = "m" THEN Poke(m, m.r[x.r] + x.n, w, v)
  ELSE [m EXCEPT !.r[x.r] = IF w = 2 THEN 4 * (@ \div 4) + v ELSE v]

NoFlags(m) == [m EXCEPT !.fl = [a |-> 0, b |-> 0, w |-> 0]]
Moved(m, n) == [m EXCEPT !.r["rsp"] = @ + n]

Push(m, v) == LET p == Moved(m, -8) IN Poke(p, p.r["rsp"], 4, v)

\* Two operands; the result goes to the second.
Alu(op, w, b, a) ==
  LET arith(k) == Arith(k, "p", a, b)
  IN  (CASE op \in {"add", "sub", "and", "or", "xor", "shl"} -> arith(op)
         [] op = "shr" -> a \div 2^b
         [] op = "sar" -> Signed(a, w) \div 2^b) % 2^w
AluOps == {"add", "sub", "and", "or", "xor", "shl", "shr", "sar"}

\* rdx:rax divided by the operand, the quotient to rax and the remainder to rdx.
Divide(m, x) ==
  With(Read(m, R("rdx"), x.w) * 2^x.w + Read(m, R("rax"), x.w), LAMBDA wide :
  LET a    == IF x.op = "idiv" THEN Signed(wide, 2 * x.w) ELSE wide
  IN  With(IF x.op = "idiv" THEN Signed(Read(m, x.s, x.w), x.w) ELSE Read(m, x.s, x.w), LAMBDA b :
  With(TruncDiv(a, b), LAMBDA q :
  With(IF x.op = "idiv" THEN Signed(q % 2^x.w, x.w) = q ELSE q \in 0..2^x.w - 1, LAMBDA fits :
    IF b = 0 \/ ~fits THEN [m EXCEPT !.o = "trap"]
    ELSE Write(Write(m, R("rax"), x.w, q % 2^x.w), R("rdx"), x.w, TruncMod(a, b) % 2^x.w)))))

CondHolds(m, x) ==
  \/ x.cond = "any"
  \/ /\ x.cond # "any"
     /\ LET num(v) == IF x.uns THEN v ELSE Signed(v, m.fl.w)
        IN  Compare(x.cond, num(m.fl.a), num(m.fl.b))

\* A callee looks for its arguments where its own prologue would leave them
\* (x.at), answers in rax, of which only the low bits count, and changes every
\* register it need not save, the flags and what is below the stack pointer.
Callee(m, x) ==
  LET inside == [m EXCEPT !.r["rbp"] = m.r["rsp"] - 16]
  IN  With(AsSeq([i \in DOMAIN x.at |-> Signed(Read(inside, x.at[i].x, x.at[i].w), x.at[i].w)]), LAMBDA args :
  LET answer == Head(m.inp) % 2^x.w
      ones   == IF x.w = 4 THEN 0 ELSE 16 - 2^x.w
      saved  == CalleeSaved \cup {"rsp"}
  IN  CASE m.r["rsp"] % 16 # 0 -> [m EXCEPT !.o = "misaligned"]
        [] m.inp = <<>> -> [m EXCEPT !.o = "starved"]
        [] OTHER -> [NoFlags(m) EXCEPT
             !.inp = Tail(@), !.trace = Append(@, <<x.name, args>>),
             !.stk = [a \in {b \in DOMAIN @ : b >= m.r["rsp"]} |-> @[a]],
             !.r = [q \in Registers |-> IF q \in saved THEN @[q]
                                        ELSE IF q = "rax" THEN answer + ones ELSE 15 - Garbage(q)]])

\* Back at the caller with the registers it relies on.
ReturnFrom(m) ==
  [m EXCEPT !.o = IF m.r["rsp"] = Entry /\ \A q \in CalleeSaved : m.r[q] = Garbage(q)
                  THEN "return" ELSE "broken"]

TwoOperands(m, x) ==
  With(Read(m, x.s, x.w), LAMBDA v :
  With(Read(m, x.d, x.w), LAMBDA d :
    CASE x.op = "mov" -> Write(m, x.d, x.w, v)
      [] x.op \in AluOps -> NoFlags(Write(m, x.d, x.w, Alu(x.op, x.w, v, d)))
      [] x.op = "cmp" -> [m EXCEPT !.fl = [a |-> d, b |-> v, w |-> x.w]]
      [] x.op = "test" -> [m EXCEPT !.fl = [a |-> d, b |-> 0, w |-> x.w]]
      [] x.op = "lea" -> Write(m, x.d, 4, m.r[x.s.r] + x.s.n)))

OneOperand(m, x) ==
  With(Read(m, x.d, x.w), LAMBDA d :
  With(Read(m, R("rax"), x.w), LAMBDA a :
    CASE x.op = "inc" -> NoFlags(Write(m, x.d, x.w, (d + 1) % 2^x.w))
      [] x.op = "dec" -> NoFlags(Write(m, x.d, x.w, (d - 1) % 2^x.w))
      [] x.op = "neg" -> NoFlags(Write(m, x.d, x.w, (-d) % 2^x.w))
      [] x.op = "not" -> Write(m, x.d, x.w, (-d - 1) % 2^x.w)
      [] x.op = "mul" ->
           With(a * Read(m, x.s, x.w), LAMBDA p :
             NoFlags(Write(Write(m, R("rax"), x.w, p % 2^x.w), R("rdx"), x.w, (p \div 2^x.w) % 2^x.w)))
      [] x.op \in {"div", "idiv"} -> NoFlags(Divide(m, x))
      [] x.op = "sext" -> Write(m, R("rdx"), x.w, IF Signed(a, x.w) < 0 THEN 2^x.w - 1 ELSE 0)
      [] x.op = "set" -> Write(m, x.d, 2, Bool(CondHolds(m, x)))
      [] x.op = "push" -> Push(m, Read(m, x.s, 4))
      [] x.op = "pop" -> Moved(Write(m, x.d, 4, Peek(m, m.r["rsp"], 4)), 8)
      [] x.op = "addsp" -> NoFlags(Moved(m, x.s.n))))

\* movsx, movzx: from x.w to x.to[1] bits.
Extend(m, x) ==
  With(Read(m, x.s, x.w), LAMBDA v :
    Write(m, x.d, x.to[1], (IF x.op = "movsx" THEN Signed(v, x.w) ELSE v) % 2^x.to[1]))

\* The instruction at pc; labels are looked up in code.
Step(code, m) ==
  LET x     == code[m.pc]
      n     == [m EXCEPT !.pc = @ + 1]
      at(b) == CHOOSE i \in DOMAIN code : code[i].op = "label" /\ code[i].to[1] = b
  IN  IF (x.cond \notin {"none", "any"}) /\ m.fl.w = 0 THEN [m EXCEPT !.o = "flags"]
      ELSE CASE x.op \in AluOps \cup {"mov", "cmp", "test", "lea"} -> TwoOperands(n, x)
             [] x.op \in {"movsx", "movzx"} -> Extend(n, x)
             [] x.op = "label" -> n
             [] x.op = "jmp" -> IF CondHolds(m, x) THEN [m EXCEPT !.pc = at(x.to[1])] ELSE n
             [] x.op = "tjmp" ->
                  With(Read(m, x.s, 4) + 1, LAMBDA i :
                    IF i \in DOMAIN x.to THEN [m EXCEPT !.pc = at(x.to[i])] ELSE [m EXCEPT !.o = "wild"])
             [] x.op = "call" -> Callee(n, x)
             [] x.op = "ret" -> ReturnFrom(n)
             [] OTHER -> OneOperand(n, x)

\* Up to the next label or jump, or the end.
RECURSIVE StepOn(_, _)
StepOn(code, m) ==
  With(Step(code, m), LAMBDA n :
    IF n.o # "run" \/ code[m.pc].op \in {"jmp", "tjmp"} \/ code[n.pc].op = "label" THEN n
    ELSE StepOn(code, n))

\* What the caller sees; the value is w bits of rax.
Outcome(m, w) == [trace |-> m.trace, mem |-> m.mem, starved |-> m.o = "starved",
                  result |-> IF m.o = "return" THEN Signed(m.r["rax"] % 2^w, w) ELSE 0]
=============================================================================
