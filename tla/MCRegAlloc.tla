----------------------------- MODULE MCRegAlloc -----------------------------
(***************************************************************************)
(* Models of RegAlloc for TLC: two registers of each class.                *)
(***************************************************************************)
EXTENDS RegAlloc

MCPhysMax == [c \in Class |-> 2]

(* What LiveInterval can produce: the scan's parameter.                    *)
MCIntervals ==
  [virt : 1 .. 50, cls : Class, start : -1 .. 60, end : -1 .. 60,
   state : LiveIntervalState]

Op(d, x, y) == [kind |-> "OP", dst |-> d, opr1 |-> x, opr2 |-> y]
Ofs(d, x) == [kind |-> "OFS", dst |-> d, opr1 |-> x, opr2 |-> 0]
Var(c, f, p) == [cls |-> c, flag |-> f, param |-> p]
Block(irs, ins, outs) == [irs |-> irs, in_regs |-> ins, out_regs |-> outs]

(***************************************************************************)
(* Straight-line code: three variables are set, two arbitrary instructions *)
(* follow, and all three are read: one more live value than registers, in  *)
(* many combinations of source and destination operands.                   *)
(***************************************************************************)
Middle == [kind : {"OP"}, dst : {0, 1, 3}, opr1 : {1, 3}, opr2 : {0, 2, 3}]

StraightLine ==
  {[vregs |-> [v \in 1 .. 3 |-> Var("ireg", {}, FALSE)],
    bbs |-> <<Block(<<Op(1, 0, 0), Op(2, 0, 0), Op(3, 0, 0), m1, m2, Op(0, 1, 2), Op(0, 3, 0)>>,
                    {}, {})>>,
    path |-> <<1>>] : m1 \in Middle, m2 \in Middle}

(***************************************************************************)
(* A loop with a parameter (1), two loop variables (2, 3), a variable      *)
(* whose address is taken (4, spilled from the start), its address (5), a  *)
(* constant (6), floating-point values (7, 8, 9), of which 8 is read only  *)
(* by the next turn of the loop, a result that nobody reads (10) and a     *)
(* register that occurs nowhere (11).                                      *)
(***************************************************************************)
Loop(m) ==
  [vregs |-> <<Var("ireg", {}, TRUE), Var("ireg", {}, FALSE), Var("ireg", {}, FALSE),
               Var("ireg", {"VRF_SPILLED"}, FALSE), Var("ireg", {}, FALSE),
               Var("ireg", {"VRF_CONST"}, FALSE), Var("freg", {}, FALSE),
               Var("freg", {}, FALSE), Var("freg", {}, FALSE),
               Var("ireg", {}, FALSE), Var("ireg", {}, FALSE)>>,
   bbs |-> <<Block(<<Op(2, 1, 6), Op(3, 6, 0), Op(4, 1, 0), Op(7, 0, 0), Op(8, 0, 0)>>,
                   {1}, {1, 2, 3, 4, 7, 8}),
             Block(<<Ofs(5, 4), Op(9, 7, 8), m, Op(10, 5, 2), Op(2, 2, 3), Op(7, 9, 7),
                     Op(0, 2, 1)>>,
                   {1, 2, 3, 4, 7, 8}, {1, 2, 3, 4, 7, 8}),
             Block(<<Op(0, 2, 3), Op(0, 7, 0), Op(0, 4, 1)>>, {1, 2, 3, 4, 7}, {})>>,
   path |-> <<1, 2, 2, 3>>]

Loops == {Loop(m) : m \in [kind : {"OP"}, dst : {0, 2, 4}, opr1 : {2, 4}, opr2 : {0, 3}]}

MCPrograms == StraightLine \cup Loops

(***************************************************************************)
(* A program that the allocator breaks (LateEntry):                        *)
(*   d = n + 1; use(d); while ((v = g()) != 0) { d = 0; use(v); }          *)
(* The loop's condition, which assigns v (2), is the third block, behind   *)
(* the body; d (1) and v get one register, and the body's first            *)
(* instruction writes 0 over v. RegAllocLate.cfg shows it.                 *)
(***************************************************************************)
LateLoop ==
  [vregs |-> <<Var("ireg", {}, FALSE), Var("ireg", {}, FALSE)>>,
   bbs |-> <<Block(<<Op(1, 0, 0), Op(0, 1, 0)>>, {}, {}),
             Block(<<Op(1, 0, 0), Op(0, 2, 0)>>, {2}, {}),
             Block(<<Op(2, 0, 0), Op(0, 2, 0)>>, {}, {2}),
             Block(<<Op(0, 0, 0)>>, {}, {})>>,
   path |-> <<1, 3, 2, 3, 2, 3, 4>>]

LatePrograms == {LateLoop}
============================================================================
