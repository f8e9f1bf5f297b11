----------------------------- MODULE MCGenWasm -----------------------------
(* The functions of Programs through wcc, and what only wcc rewrites.      *)
EXTENDS GenWasm, Programs

\* Casts between narrow types, values of assignments, variadic calls; a return
\* from inside a switch inside loops; what is rejected.
b0 == Un("cast", "b", x)
wb(e) == Un("cast", "i", e)
WasmExprs ==
  {wb(Un("cast", "c", b0)), wb(Un("cast", "c", Un("cast", "b", f))), wb(Un("cast", "b", Un("cast", "c", x))),
   op("assign", mem0, op("add", x, n(1))), op("assign", mem0, x), op("assign", x, op("assign", mem1, f)),
   wb(Bin("assign", "c", c, Un("cast", "c", f))), Un("cast", "i", Un("cast", "p", x)),
   Bin("lt", "i", Un("cast", "p", x), Num(9, "p")), Un("cast", "i", Un("cast", "p", w)),
   wb(Un("postinc", "c", c)), Un("preinc", "i", mem1), Un("postdec", "i", g), Un("predec", "i", x),
   Call("v", "i", <<x>>), Call("v", "i", <<x, y>>), Call("v", "i", <<n(1), Call("v", "i", <<x, f, y>>), n(2)>>)}
Deep == For(None, None, None, While(op("ne", f, n(0)),
          Switch(f, <<CaseOf("c1", 1), Default("d"), CaseOf("c2", 2)>>,
            Block(<<Case("c1"), If(op("gt", f, n(0)), Return(y), Continue), Case("d"), DoWhile(Block(<<If(op("eq", f, n(1)), Return(x), Break)>>), op("ne", f, n(0))),
                    Case("c2"), h(x)>>))))
Bad == {Goto("L"), Switch(x, <<CaseOf("c1", 1)>>, While(op("ne", f, n(0)), Case("c1")))}

MCFunctions == {Plain(s) : s \in Control(Leaves) \cup Switches({Break, Return(y)}) \cup ExprStmts \cup {Deep} \cup Bad
                                 \cup UNION {Uses(e) \cup {Do(e)} : e \in WasmExprs}}
MCInputs == {<<1, 0, 2, 3>>, <<0, 1, 1>>, <<2, -4, 0, 1, 1>>, <<3, 1, 1, 1, 0>>}
MCMemory == <<0, 1, 2, 3>>
=============================================================================
