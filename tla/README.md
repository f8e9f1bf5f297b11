# xcc in TLA+

xcc is a C compiler tool chain for x86-64 Linux: a driver (`xcc`), a preprocessor
(`cpp`), the compiler proper (`cc1`), an assembler (`as`), a linker (`ld`), a C library,
and a second compiler that emits WebAssembly (`wcc`). This directory models the parts of it
that keep state over many steps or transform one representation of a program into another,
checks them with TLC and proves the central results about six of them (driver, preprocessor,
register allocator, assembler, linker, hash table) with TLAPS.
`PROJECT.json` maps every definition to the lines that it models.

## Inventory

| component | state it keeps | operations | what makes it correct |
|---|---|---|---|
| driver `src/src/xcc/main.c` | pids, pipe descriptors, result so far, the linker's command line | `compile_csource`, `compile_asm`, `compile`, the loop and the link step of `main` | success is reported only for complete outputs; no truncated object; nothing left over between sources; everything ends |
| preprocessor `src/src/cpp` | macro table, stack of conditionals, hide sets, `#pragma once` table | `preprocess`, `handle_include`, `macro_expand`, `pp_expr` | a line is kept exactly if its conditionals hold; it becomes what C says; an `#if` has the value C gives it |
| cc1 front end `src/src/cc/{lexer,parser,parser_expr,type,ast,var}.c` | scopes, types, trees | parsing of declarations, statements, expressions, initializers | a tree means what C says of the expression; members do not overlap; an object has its initial value |
| cc1 code generator `codegen.c`, `codegen_expr.c` | the current block, break and continue targets | `gen_stmt`, `gen_expr`, `gen_cond_jmp`, `gen_switch`, `gen_funcall` | the blocks do what the tree says |
| cc1 IR `src/src/cc/ir.c` | basic blocks, instructions, virtual registers | `new_ir_*`, `remove_unnecessary_bb`, `analyze_reg_flow` | folding and removal of blocks keep the meaning; liveness covers every path |
| cc1 register allocator `src/src/cc/regalloc.c` | live intervals, active lists, register sets, spill flags | `linear_scan_register_allocation`, `insert_load_store_spilled_irs`, `alloc_physical_registers` | no two live values in one register; the code computes the same; the rounds end |
| cc1 back ends `src/src/cc/arch` | the frame, saved registers, `stackpos` | `tweak_irs`, `ir_out`, `emit_defun` | the instructions do what the blocks say; calls and returns keep to the calling convention |
| assembler `src/src/as` | section buffers, label table, long jumps, unresolved references | `parse_file`, `calc_label_address`, `resolve_relative_address`, `emit_irs`, `output_obj` | every jump lands; the object file describes the bytes it has |
| linker `src/src/ld` | unresolved names, loaded members, section offsets | `link_elfobj`, `link_archive`, `link_files`, `resolve_rela_elfobj` | each reference has its definition; the bytes are at the addresses that references were given |
| hash table `src/src/util/table.c` | entries, tombstones, counts | `table_put`, `table_get`, `table_delete`, `table_iterate` | it is a map, for any hashes |
| other utilities `src/src/util` | vectors, buffers | `ALIGN`, `is_im8`, `wrap_value`, paths, options | |
| C library `src/libsrc` | the heap's free list, stdio buffers | `malloc`, `free`, `fread`, `fflush` | blocks do not overlap; no byte is lost |
| wcc `src/src/wcc` | the rewritten trees, depth of enclosing blocks, indices | `traverse_ast`, `gen` | the WebAssembly does what the tree says and is valid |

The driver runs cpp, cc1 and as as processes connected by two pipes, then ld over the
objects. These four are the only things in the repository that run concurrently; each of
them is a sequential program of several passes over a data structure that one pass leaves
for the next. What is hard to test is of three kinds: the order in which processes leave, fail
and close descriptors in the driver; passes that must agree with one another (two
layouts of one image, three computations of one address, rounds of spilling) at boundaries
that only particular inputs reach; and translations that must keep a meaning through rewrites
whose special cases meet only in unusual programs. `PROJECT.json` lists these as hazards, each
at its line.

## Modules

| module | models | state and actions |
|---|---|---|
| `Driver` | `main.c`, its children and the kernel's pipes | one action per step that another process can notice. `fds` are the open pipe ends of each process, inherited by fork as in the code. |
| `Preprocessor`, `Conditionals` | the directives of `preprocessor.c`, and conditional inclusion as C defines it | `streams` are the activations of the recursive `preprocess()` with their local variables; one action per directive, per line of text and for the end of a file. `at` is where cc1 takes the next line to be from, `marked` what it took each printed line for. |
| `MacroExpand`, `PpExpr`, `Macro` | `macro.c`, the expressions of `pp_parser.c`, and the lines that use them | a record `w` carries the vector `macro_expand()` works in, the hide set of every token and the macro table through the functions; `Macro` has an action per `#define`, `#undef`, `#if` and per step of a line. The reference in it is the expansion C prescribes, and C's precedences. |
| `Types`, `Trees`, `ParseExpr` | `type.c`, the trees of `ast.c`, `parser_expr.c` | constant-level: layout of structures, tokens to trees |
| `Initializers` | `parser.c:106-900`, `construct_initial_value` of cc1 and wcc | flattening, the assignments of a local, the directives or the segment of a static |
| `CMeaning`, `CInitial` | what C says of an expression and of an initializer: the reference | |
| `FrontEnd` | composes them | written expression or definition, parsed, executed on a memory of bytes of 4 values |
| `Source` | functions as trees and what executing one means: the reference for both compilers | |
| `Ir` | `ir.c`: instructions, folding, blocks, clean-up, the flow of registers, and a machine that executes blocks | constant-level |
| `CodeGen` | `codegen.c`, `codegen_expr.c`, and the way of a function through cc1 | `GenDefun`, `RemoveUnnecessaryBb` (one step per turn of the clean-up), `TweakIrs`, `AnalyzeRegFlow`, `EmitDefun`; then the blocks or the instructions are executed one by one |
| `X64`, `Cpu` | `ir_x64.c` and `emit_code.c`; the processor, the caller and the callees (external) | constant-level, used by `CodeGen`. Calls are observed with their arguments; callees overwrite what the calling convention lets them, and what is below the stack pointer |
| `Results` | nothing of the code | `With(v, F)` and `Where(v, F)` bind a result that is used more than once, `Stepwise` folds an operation over a sequence. The modules that model functions with several results use them in place of nested `LET`s, which TLC evaluates too deeply. |
| `LinearScan` | the scan of `regalloc.c:37-208` | `active`, `count`, `using`, `used` are the fields of the two `Info` structures. `Skip`, `Assign`, `Split` are the three ways through the loop body. |
| `RegAlloc` | the rounds of `alloc_physical_registers` around it, `insert_load_store_spilled_irs`, `detect_living_registers` | extends `LinearScan`; `phase` is the place in the round, `cur` the two loop indices of the insertion. |
| `GenWasm` | `traverse.c`, `gen_wasm.c`, and a WebAssembly machine | the tree is rewritten, becomes code, and is executed one instruction at a time |
| `Assembler` | `as.c`, `ir_asm.c`, the directives of `parse_asm.c` | `ParseLine` takes one line; each of the passes is an action. |
| `Linker` | `link_files` of `ld.c` and what it calls | one action per object linked, per archive member loaded, and per later pass. |
| `Table`, `Map` | `table.c`, and the map it implements | one action per call of the interface; `it` is the iterator of a walk. `Map` is the abstract specification. |
| `DriverProofs`, `PreprocessorProofs`, `LinearScanProofs`, `RegAllocProofs`, `AssemblerProofs`, `LinkerProofs`, `TableProofs` | | the theorems about the module that each extends |
| `NatLemmas` | nothing of the code | facts about division, multiples and least elements that several proofs cite |
| `Programs` | the functions both compilers are run on | |
| `MC...` | the instances for TLC | |

What is abstracted: in `RegAlloc` an instruction of the IR is its kind and its three registers,
the kinds told apart only by whether they take an operand in a register (`OP`) or its
address (`OFS`), and liveness is given; `Ir` and `CodeGen` have all kinds and compute it. Numbers
are narrow (`int` has 3 bits and a pointer 4 in `CodeGen`, a byte has 2 bits in `FrontEnd`) with
the same wrapping and comparisons; `X64` keeps the sizes of stack slots and frames in real bytes.
Text that flows through a pipe is counted in units; an item of the assembler is its kind, size
and label; a symbol of the linker is its name and section; a line of the preprocessor is its
kind, a name and a Boolean, and in `Macro` a sequence of tokens.
`using_bits` and `used_bits` are sets. Definitions whose comment starts with "Mutant" are
deliberately wrong variants of the definition that follows them; no specification uses them,
and they serve to show that each property notices a mistake in the code.

### Composition and refinement

`CodeGen` composes the passes of cc1 behind the parser: the same function goes through code
generation, clean-up, analysis, allocation and emission, and is executed as blocks
(`SourceMeaningKept`) and as instructions (`MachineMeaningKept`), each compared with `Source`.
`FrontEnd` does so for the parser, compared with `CMeaning` and `CInitial`; `GenWasm` for wcc.
These comparisons are refinements in the small: the observable behaviour of a function is the
sequence of its calls with their arguments, the memory it leaves and its result.

`Table!ImplementsMap` states that every behaviour of `Table` is one of `Map` with `Contents`
for the map, and the names not yet met for the set of names that a walk still owes. `Map`
says what each call returns, and that a walk returns each name once, names deleted during it
excepted.

`Preprocessor!ImplementsConditionals` states that `preprocess()` implements `Conditionals`.
There, an `#if` section is skipped, seeking a group, taking one or done; the code has one
flag `enable`, one number `satisfy` and a stack of both. `SectionsOf` reads the states of all
open sections off the stack: each level is judged in the light of the one around it.

## Runs

| run | question | bounds |
|---|---|---|
| `driver` | what does an exit status of 0 promise, and does everybody come to an end? | one or two sources of each kind, every output type, every fault at every moment, a pipe of 1 unit and texts of 2, so that writers block |
| `preprocessor` | are the printed lines the ones that conditional inclusion names, are guarded headers read once, is `__FILE__` restored? | every file of up to 5 lines out of 10 kinds of conditional, definition and text, closed or not (a section nested in a skipped group of another takes 5); every file of up to 3 lines over five headers that include one another and themselves, 6 deep |
| `preprocessor_line_markers` | does cc1 know where a line is from? (finding) | two lines |
| `macros` | does a line become what C says, has an `#if` its value? | five macros with 7, 3, 7 and 4 bodies that call, paste, stringize and name one another, one of them variadic, with 10 texts; every pair of operators, parenthesized and not, with signs, conditions and macros |
| `front_end` | do trees mean what C says, do members keep apart, are objects initialized? | expressions of one and two operators over variables of every integer type, pointers, arrays, structures, unions, bit-fields and functions; structures of up to three bit-fields of 8 kinds; initializers with and without braces and designators of arrays, structures, unions and nestings of them, local, static and for wcc; two memories |
| `codegen` | do the blocks and the instructions do what the source says, is liveness right, is the calling convention kept? | loops of every kind over bodies that leave in every way, switches of up to 5 cases through every shape of comparison tree and jump table, jumps into and out of loops, every operator on values of every place, calls with up to 8 arguments nested in one another; 4 series of answers from called functions; 7 registers or 3, variables in registers or in the frame |
| `codegen_emptied_block` | is liveness right across a block that lost its only jump? (finding) | one function |
| `regalloc` | does the allocated code compute the same, do the assertions hold, and do the rounds end? | functions with a loop over 11 virtual registers of every kind (parameter, address taken, constant, floating-point, unread, unused), two physical ones of each class, one instruction varied, in masks of 4 bits, as many as there are registers (`UintBits`); and 324 functions without a jump, combinations of operands of two instructions with one live value too many. No function of the run enters a register late (see below) |
| `wasm` | does the WebAssembly do what the source says, and is it valid? | the functions of `codegen` without gotos and with at most one call among the arguments of another (C leaves the order open, and the two compilers differ), and those that only wcc rewrites: casts, values of assignments, variadic calls |
| `assembler` | do the passes settle, does every jump land, does the object describe the code? | every order of two jumps, two labels, an alignment and a stretch of code of a size around the limit of a short jump; every kind of reference to every kind of label around them |
| `linker` | which names are resolved, which members linked, and is the image what was laid out? | every command line of up to 5 out of 4 objects and 2 archives that need each other |
| `table` | is it a map? | 5 names with 3 in one chain that wraps around, capacities 3, 5, 9 (a smaller `MIN_CAPACITY` gives the same code path with fewer entries) |

Deadlock checking is off where a terminated process is the normal end.

### Fairness

`LinkEnds`, `AssemblyEnds` and `AllocationEnds` assume weak fairness of the next-state
relation: each program is one sequential process that goes on as long as it can. The driver's
`EveryoneLeaves` assumes weak fairness of the ordinary steps of each process, since the
operating system runs what can run, and none of the faults: nothing makes a process that waits
fail. It allows one exception, in which the tool chain does hang: when the assembler is gone
before its input ends (its binary is missing, or it is killed), the driver and cc1 itself still
hold the read end of the pipe, so that cc1 gets no SIGPIPE and blocks when the pipe is full.
The property says that this is the only one.

### Findings

Shown by a run:

* `ir.c:489`: after the clean-up a block that only jumped to the next one is empty, and
  `detect_from_bbs()` passes over empty blocks, so that liveness does not flow across it when
  control falls into it. `while (f() == 0) { for (;;) { while (f()) h(1); break; } h(y); y = f();
  h(x + 1); }` loses `y` in the loop: the compiled code calls `h` with `x + 1` in the second
  turn. The functions of `codegen` have such blocks only where a variable is live behind the
  loop as well, which hides the effect.
* `preprocessor.c:640`: a directive prints a newline for itself and, when lines are enabled,
  another one for what is behind it on the line; a skipped line prints none. The line numbers
  of cc1 drift until the next line marker.

Met while modelling; the instances leave the inputs out on which they show:

* `ir_asm.c:320`: the relocation of a conditional jump to an undefined label is recorded one
  byte too early (`+ 1` also for the long form with two opcode bytes). cc1 does not emit
  such jumps; hand-written assembly can.
* `main.c:101`: the comment says that the wait of `compile` returns "cpp or cc1", and it can
  return the assembler, which was forked before. `SuccessSound` shows that no failure is
  lost through this.
* `ir_asm.c:421`: `emit_irs` appends the code of every section to `.text`, while addresses and
  labels count it where it stands. A line of code in `.data` or `.rodata` goes behind what
  `.text` has, and is missing in its own section: jumps around it miss. cc1 writes code into
  `.text` only. The model has it so, the `assembler` run has one such source, and `JumpsLand` and
  `ObjectDescribesCode` are for sources without (`CodeInText`).
* `codegen.c:587`: a register that is no longer needed is taken out of `living_pregs`, 64 bits, by
  `~(1U << phys)`, 32 bits, which takes out every register from number 32 on. On x64 (7 + 8) there
  are none. On aarch64 (17 + 24) the floating-point registers from the sixteenth on are not
  saved around a call once any register was taken out behind their start. With `UintBits = 3` in
  `RegAlloc.cfg` TLC shows this for the four registers of the run: `LivingCoversCalls` is violated.
* `regalloc.c:92`: a register can be handed over one instruction too early: see "A register
  entered late" below.
* `ir.c:66-105`: folding turns `0 - x` into `x`, and `%` of two constants into their quotient,
  with the signedness turned around: an unsigned `%` divides the `int64_t` values, a signed one
  `(uint64_t)a` by `b`. `FoldBop` has it so; no function of the run brings two constants to a
  `%` in a block (the parser folds its own before), nor a constant divisor 0 (`error`).
* `codegen_expr.c`, `codegen.c`: a structure passed by value moves the next stack argument by
  its size rounded up to 8 in the caller and by its bare size in the callee. `if (a < b)` with a
  NaN takes the branch.
* `ir_asm.c:273`: whether a reference is to be resolved by the assembler is asked by
  `label_info == NULL`. A `.globl` enters a name that the file does not define, and a call to it is
  resolved to address 0 without a relocation. cc1 declares only what it defines.
* `macro.c:176`: hide sets grow in the tokens of the macro bodies themselves. Macros that name
  each other in a circle expand differently the second time.
* `pp_parser.c:148-168`: in an `#if` a macro that is not the first operand takes the operators
  behind it for itself, since its expansion is read by a nested `pp_expr()`. `#if 0 && 1/0`
  divides; `-1 > 0u` is signed; `F()` of a macro with one parameter is refused; `S(x) x #x`
  stringizes the expanded argument; an empty argument before `##` drops a token.
* `pp_parser.c:455`: the search for the `(` behind the name of a function-like macro reads on
  into the next line. If that line is a directive, it is printed as text.
* `parser_expr.c`: `unsigned char`, `unsigned short` and unsigned bit-fields are promoted to
  `unsigned int`; two narrow operands of a comparison are not promoted; constants of unlike
  signedness are folded in one of their types; the value of an assignment to a bit-field is not
  truncated. `FrontEnd!AsCIs` lists these, and `FrontEnd!InitAsCIs` those of initializers:
  repeated designators, designators behind omitted braces, strings without room for their zero
  in a local array, static bit-fields. A string that initializes a character pointer is left out
  because its hidden array has no place in the model's memory.
* `wcc`: `++` and `--` on a local `char` do not wrap; a `switch` over 64 bits compares 32;
  `setjmp` runs its branch again; a call through a function pointer that is not a variable does
  not register the type.

## Proofs

All proofs hold for every value of the constants that satisfies the named assumptions, which
TLC evaluates for the instances in the runs. For each theorem the inductive invariant is named,
and what it adds to the property.

* `DriverProofs` (`DriverAssumption`): `DriverSuccessSound`, `DriverLinkInputsComplete`,
  `DriverNoTruncatedOutput`, `DriverCleanBetweenSources`, for any list of sources, any length of
  text, any capacity of the pipe and any faults, from the one invariant `DInv`. It has a conjunct
  for each place of the driver, because the driver itself keeps no record of who is alive but
  only is at a place: `AtWait` says which children may be in which state while the driver waits,
  who holds which end of which pipe, and that what a child wrote is what the next one has
  read and what is left in the pipe. The crucial part is `AsHeldBack`: as cannot see
  the end of its input, and so cannot complete an object, while the driver holds the write end,
  and it closes that only after the children in front of as were seen to leave well.
* `PreprocessorProofs` (`PreprocessorAssumption`): `ImplementsTheorem`, `FileMacroTheorem` and
  `GuardedOnceTheorem`, for any files and any depth of inclusion. For the first two the
  invariant says of every activation that its levels are nested: a level is enabled only if the one around it is and a condition of its section held. Without the second
  half, a taken group would be mistaken by `#elif` for one that was never reached. For
  `__FILE__` it says that every activation has saved the name of the one around it. One lemma
  for each shape of step (push, next group, pop) says what it does to the sections.
  `GuardedOnce` is about text that was printed long ago by activations that are gone. `GInv` says that
  at most one stream of a guarded file is behind the line that registers it (the `#pragma once`
  or the `#define` of its guard), that no line of the file was printed before it was registered or
  beyond the position of that stream, and that every activation but the innermost is behind an
  `#include`.
* `LinearScanProofs` (`PhysMaxAssumption`, `IntervalsAssumption`, `MaxLenAssumption`):
  `TypeCorrect`, `NoClashTheorem`, `UsedTheorem`, `RegisterFreeTheorem` from `IInv`. `NoClash`
  speaks of intervals that were handled and is not inductive: the invariant says that `active`
  lists, without repetition, exactly the intervals in registers that may still overlap
  with one to come, that `using` is exactly the set of their registers, that the registers
  are pairwise different, and that an interval no longer active ended before the start of
  the next. That a register is free where `Assign` takes one (`RegisterFree`) then is counting: `using` has as many members as there are active
  intervals. `SpillNecessaryTheorem` needs `SInv`, which adds that `active` is ordered by end:
  then the loop of `expire_old_intervals`, which stops at the first interval that has not ended,
  leaves only intervals that are alive, so a full array is a full set of live intervals,
  and the one that is spilled is among them. The proofs need of the intervals only
  `IsInterval`, not where they come from: so they hold again in every round of `RegAlloc`.
* `RegAllocProofs` (`ProgramsAssumption`, `PhysMaxAssumption`, `UintBitsAssumption`). First `RoundsNoClash`,
  `RoundsSpillNecessary`, `RoundsRegisterFree`, `RoundsOperands` and `RoundsLivingCovers`, for any
  functions and any number of registers, from `RaInv`; the last one under `BitsInMask`, that there
  are no more registers than bits in an unsigned int. It carries `SInv` through the rounds: `CheckIntervals` starts a new
  scan on intervals that are sorted, because the rank of an interval in a strict total
  order is a bijection to the positions. `Fits` says that each virtual register has one
  interval, of its class, as long as the round has not made new ones. `BehindSettled`
  says that a round of insertion that has inserted nothing has left no spilled operand behind its
  cursor; at the end of such a round, which is the last, this is all the code, hence
  `OperandsInRegisters`. `LivingCoversCalls` is an induction over the numbers of instructions:
  `livings` has one slot for each physical register, and by `NoClash` nothing that is alive is
  overwritten in its slot. What is in `livings` has its bit in `living_pregs`,
  because two registers have two bits and, by `BitsInMask`, a departure clears no other.

  `RoundsAssertions` and `RoundsCodePreserved` are about what the code does, and are proved from
  `RunInv` (`RoundsRunInv`), under `EnoughRegisters`: more than three registers of each class.
  `Homes` gives every register a place of its own in the frame. `SameRun` says that the code of
  each round, run with `Homes`, does what the function did before the first round: a temporary of
  `insert_tmp_reg` is written right before it is read, and nothing else mentions it
  (`StepRunsAlike`, then `SameAlong` along the path). `TmpsLocal` says that a temporary occurs
  only around its instruction, with nothing but temporaries and operands in the frame between, so
  what is alive where its interval ends are operands of one instruction. There are at most three,
  fewer than registers, and therefore the scan never spills a temporary (`SplitSpares`): that is
  `assert(!(vreg->flag & VRF_NO_SPILL))` of `ir.c:30`. When the rounds have ended, `Covers` says
  that the intervals cover the code, and the code is run twice, from the frame and from the
  registers. The two runs agree on the frame and on each register that is live (`LiveAt`). The
  step is that an instruction which assigns a register overwrites no other that is live behind
  it: both intervals reach across, unless one starts where the other ends. That exception is
  `LateEntry`, and `RoundsCodePreserved` is for functions without it. On x64 there are 7 and 8
  registers and on aarch64 17 and 24 (`config.h:25-33`). With one or two, an assignment of two operands
  in the frame to a register that nobody reads would spill a temporary, so the
  assumption is needed; the `regalloc` run, which has two, has no such instruction.
* `AssemblerProofs` (`AssemblerAssumption`, `SourcesAssumption`). `SettledTheorem`: the invariant
  carries `address`, `starts` and the labels as those of the last `calc_label_address`, with the
  `aligns` of that moment if `settle1` holds. `JumpsLandTheorem` and `ObjectTheorem` compare the
  layout of the first two passes, which round addresses up, with that of the third, which
  rounds offsets within a section up. They agree item by item (`AllLanded`) because the start of
  a section is a multiple of every alignment in it once the alignments are settled
  (`LInv`). `PInv` follows the source through parsing: each label has one place, and a jump
  that the assembler resolves has its label in its own section. Both theorems are, as the
  properties are, for sources with their code in `.text` (`CodeInText`).
* `LinkerProofs` (`FilesAssumption`, `AlignmentsAssumption`, `SectionsAssumption`).
  `LinkCompleteTheorem` and `UnresolvedTheorem` from `LInv`, which relates `unresolved` to what
  is linked and loaded for each name, and says which files were passed. `LinkedOnceTheorem` from
  `OInv`: every linked object is loaded, and a name in `unresolved` is wanted by one of them.
  `ImageTheorem` from `AInv`: `Layout` gives offsets in the order in which objects were linked,
  `Gather` writes them in the order of the files and of `contents`. `InOrder` says that the two
  orders are the same for each prefix of the command line, and `RefsRight` that a relocation was
  given the address of its section in the layout.
* `TableProofs` (`TableAssumption`): `TableProbeEnds`, `TableFoundWhereStored` and the refinement
  `TableImplementsMap`, from `TInv`, for any hash function and any growth. Its core is the
  invariant of linear probing (`Reachable`): between the home of a name and its entry none is
  empty. A deletion keeps it as it leaves a tombstone, and growth as `MoveOneKeeps` enters one
  entry after the other into a table that satisfies it. The probe ends because `used`, which
  counts tombstones too, stays below the capacity. For the refinement, the names that a walk
  still owes are those behind the iterator.

Induction over data is done by a least counterexample: `LeastNat` gives the smallest
argument at which a claim about a recursive function fails, and the step from its predecessor
refutes it (`UpTo`). That a recursive function satisfies its equation is shown from its
definition as a `CHOOSE` with an explicit solution, or with `RecursionExists`. This is why the
modules with theorems define recursive functions on numbers.

Only model-checked:

* liveness (`EveryoneLeaves`, `LinkEnds`, `AssemblyEnds`, `AllocationEnds`): the provers have
  no `ENABLED`.
* `Macro`, `FrontEnd`, `CodeGen` and `GenWasm`: they are built from `RECURSIVE` operators over
  trees and code, which the provers cannot reason about.

## A register entered late

The attempt to prove `CodePreserved` without a condition failed at one case, and the case is real.
`while` and `for` lay their condition out behind the body (`codegen.c:318-335`, `354-380`). A
variable that the condition assigns is first seen, in code order, where the body starts
and receives it. If the body's first instruction assigns another variable that is not used
any further, `expire_old_intervals` (`regalloc.c:92`) takes that one's interval for over there,
since it ends where the new one starts, and gives both one register: for two operands of one
instruction that is right, but what a block receives is in its register before. In

    int d = n + 1; int v; use(d); while ((v = g()) != 0) { d = 0; use(v); }

with a `g` that returns 3, 2, 1, 0, the compiled program calls `use(0)` three times instead of
`use(3)`, `use(2)`, `use(1)`. `LateEntry` states the case on the result of the allocation.
`tlc -config RegAllocLate.cfg MCRegAlloc` allocates registers for this function and shows that
`CodePreserved` is violated. The configuration is not one of the runs above: no text in the
repository says anything that it would contradict. The functions of `regalloc` avoid the case, and
the theorem excludes it and nothing else.

## Assumptions on inputs

* The allocator sees what cc1 hands over (`ProgramsAssumption`): instructions of its own without
  loads and stores, `in_regs` and `out_regs` as `analyze_reg_flow` computes them, and a path that
  follows them. A block that lost its only jump breaks this: see `codegen_emptied_block`. What the
  first block reads before it is assigned is a parameter or in the frame: a function that reads an
  uninitialized variable has no meaning to preserve.

* The assembler sees what cc1 writes (`AssemblerAssumption`, `SourcesAssumption`): alignments are
  powers of two, `.comm` names a variable that is not defined elsewhere, `.globl` something that
  the file defines; a jump or call whose label is in the file goes to its own section, and
  conditional jumps stay in the file. Code stands in `.text` (`CodeInText`, in the properties).
* The linker sees objects made by this assembler (symbols of type `STT_NOTYPE`, the only
  ones that `elfobj.c:94` enters) and archives with a truthful index; alignments are powers of
  two, none exceeds `DATA_ALIGN`, and the start address is a multiple of those of code.
* A line that the preprocessor sees ends where its directive ends, and comments do not span
  lines; `#line` has a number and a name. Macros do not name one another in a circle, though
  each may name itself.
* A walk over a table is not continued after a put, as in every caller.
* A program given to the compilers has no undefined behaviour and does not depend on the order
  in which C evaluates operands.

## Not modelled, and the plan

Not modelled at all: the lexer and the grammar of declarations and statements, the printing of
instructions, the bytes of ELF headers and of encodings, option parsing, wrappers of system
calls, mathematical functions, the playground of wcc, the dumpers in `_debug`. Of the code
generators: floating-point numbers, structures by value, variadic functions, `alloca`, inline
assembly; the aarch64 back end.

Planned, in this order:

1. Theorems: lemmas about the operators of `Ir` that do not recurse over trees.
2. `Malloc`: the free list of the C library; the buffers of stdio.
3. Structures by value and variadic functions in `CodeGen` and `X64`; the aarch64 back end as
   another machine.
4. Scopes and declarations of the front end; wcc's indices and the bytes of the module.
