----------------------------- MODULE MCCodeGen -----------------------------
(* Every kind of function of Programs through cc1's code generator.        *)
EXTENDS CodeGen, Programs

\* More arguments than registers for them, calls among the arguments; cc1
\* evaluates them from the last to the first, as Source does, and wcc does not.
Eight(a, b) == <<x, n(-3), a, y, n(2), g, n(3), b>>
Calls == {Call("k", "i", SubSeq(Eight(a, b), 1, l)) :
            a \in {f, Call("k", "i", Eight(x, f))}, b \in {Cast("i", c), Call("k", "i", SubSeq(Eight(f, y), 1, 7))}, l \in 6..8}

MCFunctions == {Shell(s) : s \in Control(Leaves \cup {Goto("L")}) \cup Switches({Break, Goto("L")}) \cup ExprStmts
                                 \cup UNION {Uses(e) : e \in Calls}} \cup Jumps
\* A block with nothing but a jump to the next one, entered from above: the end
\* of the inner loop.
MCEmptied ==
  {Block(<<Set(y, n(1)), Set(x, f),
           While(op("eq", f, n(0)),
             Block(<<For(None, None, None, Block(<<While(op("ne", f, n(0)), h(n(1))), Break>>)),
                     h(y), Set(y, f), h(op("add", x, n(1)))>>)),
           Return(x)>>)}
MCEmptiedInputs == {<<3, 0, 0, 0, 2, 0, 0, 0, 0, 0>>}
MCOneMachine == {<<7, {}>>}

MCInputs == {<<1, 0, 2, 3>>, <<0, 1>>, <<2, -4, 0, 1, 1>>, <<3, 1, 1, 1, 0, 2, -1>>}
MCMachines == {<<7, {}>>, <<7, {1, 2, 3}>>, <<3, {}>>}
MCMemory == <<0, 1, 2, 3>>
=============================================================================
