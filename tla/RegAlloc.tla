------------------------------ MODULE RegAlloc ------------------------------
(***************************************************************************)
(* The register allocator around the linear scan:                          *)
(* alloc_physical_registers() of src/src/cc/regalloc.c and what codegen.c  *)
(* does with its result (detect_living_registers).                         *)
(*                                                                         *)
(* A round computes the live intervals, runs the scan (LinearScan), marks  *)
(* the virtual registers of the spilled intervals, and inserts loads and   *)
(* stores around the instructions that use them, through new virtual       *)
(* registers that must not be spilled. The rounds end when nothing was     *)
(* inserted.                                                               *)
(***************************************************************************)
EXTENDS LinearScan, SequencesExt

CONSTANTS
  Programs,  \* the functions to allocate registers for
  UintBits   \* the bits of an unsigned int: 32 wherever the code is built

(***************************************************************************)
(* A program is [vregs, bbs, path]: its virtual registers, its basic       *)
(* blocks in code order, and one path of execution through the blocks      *)
(* (which the allocator does not see; the correctness property runs it).   *)
(* An instruction has the virtual registers dst, opr1, opr2 (0 for none).  *)
(* OP stands for every kind whose operands are registers, OFS for the      *)
(* kinds that take the address of opr1 (IR_BOFS, IR_IOFS, IR_SOFS).        *)
(***************************************************************************)
VRegs ==
  [cls : Class, flag : SUBSET {"VRF_CONST", "VRF_SPILLED", "VRF_NO_SPILL"}, param : BOOLEAN]

(* Of functions with n virtual registers.                                  *)
Instructions(n) ==
  [kind : {"OP", "OFS", "LOAD_SPILLED", "STORE_SPILLED"},
   dst : 0 .. n, opr1 : 0 .. n, opr2 : 0 .. n]

Blocks(n) ==
  [irs : Seq(Instructions(n)), in_regs : SUBSET (1 .. n), out_regs : SUBSET (1 .. n)]

(* analyze_reg_flow (ir.c): in_regs has what a block reads before it       *)
(* assigns it, and what it passes on to out_regs without assigning it.     *)
Reads(ir, v) == v \in {ir.opr1, ir.opr2}

ReadsFirst(irs, v) ==
  \E j \in DOMAIN irs : Reads(irs[j], v) /\ \A k \in 1 .. j - 1 : irs[k].dst # v

PassesOn(bb, v) == v \in bb.out_regs /\ \A k \in DOMAIN bb.irs : bb.irs[k].dst # v

FlowKnown(bb, v) == ReadsFirst(bb.irs, v) \/ PassesOn(bb, v) => v \in bb.in_regs

(* The path follows the flow that was found (propagate_out_regs). What the *)
(* first block reads of before is a parameter, or in the frame.            *)
IsPath(path, bs, vs) ==
  /\ path \in Seq(DOMAIN bs)
  /\ \A k \in 1 .. Len(path) - 1 : bs[path[k + 1]].in_regs \subseteq bs[path[k]].out_regs
  /\ path # <<>> =>
       \A v \in bs[path[1]].in_regs :
         vs[v].param \/ vs[v].flag \cap {"VRF_SPILLED", "VRF_CONST"} # {}

(* What cc1 hands over: instructions of its own, no loads and stores yet,  *)
(* and the result of analyze_reg_flow.                                     *)
IsProgram(p) ==
  /\ p.vregs \in Seq(VRegs)
  /\ p.bbs \in Seq(Blocks(Len(p.vregs)))
  /\ \A v \in DOMAIN p.vregs : "VRF_NO_SPILL" \notin p.vregs[v].flag
  /\ \A b \in DOMAIN p.bbs :
       /\ \A j \in DOMAIN p.bbs[b].irs : p.bbs[b].irs[j].kind \in {"OP", "OFS"}
       /\ \A v \in DOMAIN p.vregs :
            "VRF_CONST" \notin p.vregs[v].flag => FlowKnown(p.bbs[b], v)
  /\ IsPath(p.path, p.bbs, p.vregs)

ASSUME ProgramsAssumption == \A p \in Programs : IsProgram(p)

ASSUME UintBitsAssumption == UintBits \in Nat \ {0}

VARIABLES
  prog,     \* the program as it was handed over
  vregs,    \* ra->vregs: class, flags and whether it is a parameter
  bbs,      \* the blocks, rewritten in place
  phase,    \* check, scan, spill, insert, done
  cur       \* insert_load_store_spilled_irs: i, j and inserted > 0

raVars == <<prog, vregs, bbs, phase, cur>>
vars == <<scanVars, raVars>>

CursorStart == [b |-> 1, j |-> 1, inserted |-> FALSE]

Spilled(v) == "VRF_SPILLED" \in vregs[v].flag

----------------------------------------------------------------------------
(* check_live_interval: the instruction number where each block starts.    *)
CodeBefore[b \in 0 .. Len(bbs)] ==
  IF b = 0 THEN 0 ELSE CodeBefore[b - 1] + Len(bbs[b].irs)

BlockStart(b) == CodeBefore[b - 1]

Mentions(ir, v) == v \in {ir.dst, ir.opr1, ir.opr2}

(* Mutant: what lives on into the next blocks is not looked at.            *)
OccurrencesNoOut(v) ==
  UNION {{BlockStart(b) + j - 1 : j \in {k \in DOMAIN bbs[b].irs : Mentions(bbs[b].irs[k], v)}}
         \cup (IF v \in bbs[b].in_regs THEN {BlockStart(b)} ELSE {})
         : b \in DOMAIN bbs}

(* The instruction numbers at which check_live_interval and                *)
(* set_inout_interval see register v.                                      *)
Occurrences(v) ==
  UNION {{BlockStart(b) + j - 1 : j \in {k \in DOMAIN bbs[b].irs : Mentions(bbs[b].irs[k], v)}}
         \cup (IF v \in bbs[b].in_regs THEN {BlockStart(b)} ELSE {})
         \cup (IF v \in bbs[b].out_regs THEN {BlockStart(b + 1)} ELSE {})
         : b \in DOMAIN bbs}

(* check_live_interval and the flag loop of alloc_physical_registers: a    *)
(* parameter is spilled by force, from the first instruction on.           *)
LiveInterval(v) ==
  LET occ == Occurrences(v)
  IN  [virt |-> v,
       cls |-> vregs[v].cls,
       start |-> IF vregs[v].param THEN 0 ELSE IF occ = {} THEN -1 ELSE Min(occ),
       end |-> IF occ = {} THEN -1 ELSE Max(occ),
       state |-> CASE "VRF_CONST" \in vregs[v].flag -> "LI_CONST"
                   [] "VRF_CONST" \notin vregs[v].flag /\ (vregs[v].param \/ Spilled(v)) ->
                        "LI_SPILL"
                   [] OTHER -> "LI_NORMAL"]

(* qsort with sort_live_interval leaves the order of equal intervals open: *)
(* by ascending or by descending register number.                          *)
Precedes(x, y, ascending) ==
  \/ x.start < y.start
  \/ x.start = y.start /\ x.end > y.end
  \/ /\ x.start = y.start /\ x.end = y.end
     /\ IF ascending THEN x.virt < y.virt ELSE x.virt > y.virt

Rank(lis, v, ascending) ==
  1 + Cardinality({w \in DOMAIN lis : Precedes(lis[w], lis[v], ascending)})

SortIntervals(lis, ascending) ==
  [k \in DOMAIN lis |-> lis[CHOOSE v \in DOMAIN lis : Rank(lis, v, ascending) = k]]

(* The first half of a round.                                              *)
CheckIntervals ==
  /\ phase = "check"
  /\ \E lis \in {[v \in DOMAIN vregs |-> LiveInterval(v)]}, ascending \in BOOLEAN :
       \E sorted \in {SortIntervals(lis, ascending)} :
         /\ iv' = sorted
         /\ state' = [a \in DOMAIN sorted |-> sorted[a].state]
         /\ phys' = [a \in DOMAIN sorted |-> -1]
  /\ vregs' = [v \in DOMAIN vregs |->
                 IF vregs[v].param
                 THEN [vregs[v] EXCEPT !.flag = @ \cup {"VRF_SPILLED"}]
                 ELSE vregs[v]]
  /\ i' = 1
  /\ active' = [c \in Class |-> [k \in Regs(c) |-> 0]]
  /\ count' = [c \in Class |-> 0]
  /\ using' = [c \in Class |-> {}]
  /\ used' = [c \in Class |-> {}]
  /\ phase' = "scan"
  /\ UNCHANGED <<prog, bbs, cur>>

(* linear_scan_register_allocation.                                        *)
Scan == phase = "scan" /\ ScanNext /\ UNCHANGED raVars

ScanEnd ==
  /\ phase = "scan"
  /\ i > N
  /\ phase' = "spill"
  /\ UNCHANGED <<scanVars, prog, vregs, bbs, cur>>

(* spill_vreg for the intervals that the scan spilled.                     *)
SpillVregs ==
  /\ phase = "spill"
  /\ vregs' = [v \in DOMAIN vregs |->
                 IF \E a \in 1 .. N : iv[a].virt = v /\ state[a] = "LI_SPILL"
                 THEN [vregs[v] EXCEPT !.flag = @ \cup {"VRF_SPILLED"}]
                 ELSE vregs[v]]
  /\ phase' = "insert"
  /\ UNCHANGED <<scanVars, prog, bbs, cur>>

----------------------------------------------------------------------------
(* reg_alloc_spawn for the register in place of a spilled one.             *)
SpawnTmp(vs, spilled) ==
  Append(vs, [cls |-> vs[spilled].cls, flag |-> {"VRF_NO_SPILL"}, param |-> FALSE])

(***************************************************************************)
(* insert_load_store_spilled_irs and insert_tmp_reg. The work on one       *)
(* instruction is a record: the instruction, the loads before and the      *)
(* stores after it, the virtual registers so far, and whether the index j  *)
(* has moved on to a store, in which case a further call of insert_tmp_reg *)
(* looks at that store, finds nothing, and leaves the operand to the next  *)
(* round.                                                                  *)
(***************************************************************************)
InsertTmp(w, spilled) ==
  LET tmp == Len(w.vregs) + 1
      grown == SpawnTmp(w.vregs, spilled)
      reads == spilled \in {w.ir.opr1, w.ir.opr2}
      writes == w.ir.dst = spilled
      sub(v) == IF v = spilled THEN tmp ELSE v
  IN  IF w.moved
      THEN [w EXCEPT !.vregs = grown, !.inserted = TRUE]
      ELSE [ir |-> [w.ir EXCEPT !.dst = sub(@), !.opr1 = sub(@), !.opr2 = sub(@)],
            before |-> IF reads
                       THEN Append(w.before, [kind |-> "LOAD_SPILLED", dst |-> tmp,
                                              opr1 |-> spilled, opr2 |-> 0])
                       ELSE w.before,
            after |-> IF writes
                      THEN Append(w.after, [kind |-> "STORE_SPILLED", dst |-> 0,
                                            opr1 |-> tmp, opr2 |-> spilled])
                      ELSE w.after,
            vregs |-> grown,
            moved |-> writes,
            inserted |-> TRUE]

(* Whether the kind of the instruction takes this operand in a register.   *)
TakesRegister(ir, field) ==
  CASE ir.kind = "OP" -> TRUE
    [] ir.kind = "OFS" -> field = "dst"
    [] OTHER -> FALSE

NeedsTmp(w, field) ==
  /\ TakesRegister(w.ir, field)
  /\ w.ir[field] # 0
  /\ "VRF_CONST" \notin w.vregs[w.ir[field]].flag
  /\ "VRF_SPILLED" \in w.vregs[w.ir[field]].flag

InsertFor(w, field) == IF NeedsTmp(w, field) THEN InsertTmp(w, w.ir[field]) ELSE w

Untouched(ir, vs) ==
  [ir |-> ir, before |-> <<>>, after |-> <<>>, vregs |-> vs, moved |-> FALSE, inserted |-> FALSE]

(* Mutant: the second operand is forgotten.                                *)
InsertAroundNoOpr2(ir, vs) ==
  InsertFor(InsertFor(Untouched(ir, vs), "opr1"), "dst")

(* One instruction: the operands in the order opr1, opr2, dst.             *)
InsertAround(ir, vs) ==
  InsertFor(InsertFor(InsertFor(Untouched(ir, vs), "opr1"), "opr2"), "dst")

(* The loops over the blocks and their instructions; j steps over what was *)
(* inserted.                                                               *)
InsertStep ==
  /\ phase = "insert"
  /\ cur.b <= Len(bbs)
  /\ cur.j <= Len(bbs[cur.b].irs)
  /\ LET irs == bbs[cur.b].irs
         w == InsertAround(irs[cur.j], vregs)
         new == w.before \o <<w.ir>> \o w.after
     IN  /\ bbs' = [bbs EXCEPT ![cur.b].irs = SubSeq(irs, 1, cur.j - 1) \o new
                                            \o SubSeq(irs, cur.j + 1, Len(irs))]
         /\ vregs' = w.vregs
         /\ cur' = [cur EXCEPT !.j = @ + Len(new), !.inserted = @ \/ w.inserted]
  /\ UNCHANGED <<scanVars, prog, phase>>

InsertNextBlock ==
  /\ phase = "insert"
  /\ cur.b <= Len(bbs)
  /\ cur.j > Len(bbs[cur.b].irs)
  /\ cur' = [cur EXCEPT !.b = @ + 1, !.j = 1]
  /\ UNCHANGED <<scanVars, prog, vregs, bbs, phase>>

(* Mutant: the rounds go on although nothing was inserted.                 *)
InsertEndNever ==
  /\ phase = "insert"
  /\ cur.b > Len(bbs)
  /\ phase' = "check"
  /\ cur' = CursorStart
  /\ UNCHANGED <<scanVars, prog, vregs, bbs>>

(* if (insert_load_store_spilled_irs(ra, bbcon) <= 0) break;               *)
InsertEnd ==
  /\ phase = "insert"
  /\ cur.b > Len(bbs)
  /\ phase' = IF cur.inserted THEN "check" ELSE "done"
  /\ cur' = CursorStart
  /\ UNCHANGED <<scanVars, prog, vregs, bbs>>

----------------------------------------------------------------------------
RaInit ==
  /\ prog \in Programs
  /\ vregs = prog.vregs
  /\ bbs = prog.bbs
  /\ phase = "check"
  /\ cur = CursorStart
  /\ iv = <<>>
  /\ ScanStart(iv)

RaNext == CheckIntervals \/ Scan \/ ScanEnd \/ SpillVregs
          \/ InsertStep \/ InsertNextBlock \/ InsertEnd

RaSpec == RaInit /\ [][RaNext]_vars /\ WF_vars(RaNext)
----------------------------------------------------------------------------
(***************************************************************************)
(* detect_living_registers (codegen.c), after the allocation: for every    *)
(* instruction the registers that a call there has to save.                *)
(***************************************************************************)
IntervalOf(v) == CHOOSE a \in 1 .. N : iv[a].virt = v

RegisterOf(a) == <<iv[a].cls, phys[a]>>

CodeLength == BlockStart(Len(bbs) + 1)

(* livings, as the set of the intervals in it (at most one per register).  *)
(* Mutant: an interval leaves one instruction before its end.              *)
LeavingEarly(livings, nip) == {a \in livings : iv[a].end = nip + 1}

(* An interval leaves when its end is reached ...                          *)
Leaving(livings, nip) == {a \in livings : iv[a].end = nip}

LeaveAt(livings, nip) == livings \ Leaving(livings, nip)

(* ... and enters when its start is reached, over the one before it.       *)
Entering(nip) == {a \in 1 .. N : state[a] = "LI_NORMAL" /\ iv[a].start = nip}

EnterAt(livings, nip) ==
  {a \in Entering(nip) : \A b \in Entering(nip) : b > a => RegisterOf(b) # RegisterOf(a)}
  \cup {a \in livings : \A b \in Entering(nip) : RegisterOf(b) # RegisterOf(a)}

(* What is in livings before the instruction with number nip.              *)
Livings[nip \in 0 .. CodeLength] ==
  IF nip = 0 THEN {} ELSE EnterAt(LeaveAt(Livings[nip - 1], nip - 1), nip - 1)

(* living_pregs, a word of 64 bits, as the set of the bits in it: the      *)
(* floating-point registers lie above the others.                          *)
BitOf(a) == (IF iv[a].cls = "freg" THEN PhysMax["ireg"] ELSE 0) + phys[a]

(* living_pregs &= ~(1U << phys): the mask is an unsigned int, zero above, *)
(* so that it clears its bit and all bits from UintBits up. (A shift by    *)
(* more, undefined in C, is by the remainder on the hosts of cc1.)         *)
Cleared(pregs, leaving) ==
  {b \in pregs : leaving # {} => b < UintBits /\ \A a \in leaving : b # BitOf(a) % UintBits}

ClearedAt(pregs, nip) == Cleared(pregs, Leaving(Livings[nip], nip))

(* living_pregs |= 1UL << phys: before the instruction with number nip.    *)
LivingPregs[nip \in 0 .. CodeLength] ==
  IF nip = 0 THEN {}
  ELSE ClearedAt(LivingPregs[nip - 1], nip - 1) \cup {BitOf(a) : a \in Entering(nip - 1)}

(* What IR_CALL at instruction nip would get, collected between the two.   *)
detect_living_registers ==
  [nip \in 0 .. CodeLength - 1 |-> ClearedAt(LivingPregs[nip], nip)]

----------------------------------------------------------------------------
(***************************************************************************)
(* Reference semantics: running a path through the blocks and noting which *)
(* values each instruction reads. The k-th proper instruction produces the *)
(* value k, and a load or a store passes on the value that it finds. A     *)
(* memory is what was written to places so far.                            *)
(***************************************************************************)
IsConst(v) == "VRF_CONST" \in vregs[v].flag

Slot(v) == <<"slot", v>>
Junk == 0 - 1000

(* A slot holds -v at first, a constant has its value always.              *)
ValueAt(mem, p) ==
  IF p[1] = "none" THEN 0
  ELSE IF p[1] = "const" THEN -p[2]
  ELSE IF p \in DOMAIN mem THEN mem[p]
  ELSE IF p[1] = "slot" THEN -p[2] ELSE Junk

Stored(mem, p, x) == [q \in DOMAIN mem \cup {p} |-> IF q = p THEN x ELSE mem[q]]

(* One instruction, with register v in the place loc[v].                   *)
Execute(s, ir, loc) ==
  CASE ir.kind = "OP" ->
         [mem |-> Stored(s.mem, loc[ir.dst], Len(s.log) + 1),
          log |-> Append(s.log, <<ValueAt(s.mem, loc[ir.opr1]), ValueAt(s.mem, loc[ir.opr2])>>)]
    [] ir.kind = "OFS" ->
         [mem |-> Stored(s.mem, loc[ir.dst], Len(s.log) + 1), log |-> Append(s.log, <<>>)]
    [] ir.kind = "LOAD_SPILLED" ->
         [mem |-> Stored(s.mem, loc[ir.dst], ValueAt(s.mem, Slot(ir.opr1))), log |-> s.log]
    [] ir.kind = "STORE_SPILLED" ->
         [mem |-> Stored(s.mem, Slot(ir.opr2), ValueAt(s.mem, loc[ir.opr1])), log |-> s.log]

(* The states between the instructions of a block ...                      *)
Within(irs, s, loc) ==
  LET at[j \in 0 .. Len(irs)] == IF j = 0 THEN s ELSE Execute(at[j - 1], irs[j], loc)
  IN  at

RunBlock(irs, s, loc) == Within(irs, s, loc)[Len(irs)]

(* ... and between the blocks of the path.                                 *)
Along(path, blocks, loc) ==
  LET at[k \in 0 .. Len(path)] ==
        IF k = 0 THEN [mem |-> <<>>, log |-> <<>>]
        ELSE RunBlock(blocks[path[k]].irs, at[k - 1], loc)
  IN  at

Run(path, blocks, loc) == Along(path, blocks, loc)[Len(path)].log

(* The program as it was given: every virtual register is a place.         *)
Home(vs, v) ==
  IF v = 0 THEN <<"none", 0>>
  ELSE IF "VRF_CONST" \in vs[v].flag THEN <<"const", v>> ELSE Slot(v)

Homes(vs) == [v \in 0 .. Len(vs) |-> Home(vs, v)]

RunOriginal == Run(prog.path, prog.bbs, Homes(prog.vregs))

(* The result: in physical registers.                                      *)
Registers ==
  [v \in 0 .. Len(vregs) |->
     IF v = 0 \/ IsConst(v) THEN Home(vregs, v) ELSE RegisterOf(IntervalOf(v))]

RunAllocated == Run(prog.path, bbs, Registers)

----------------------------------------------------------------------------
(* When the rounds end every operand that has to be in a register is in    *)
(* one, although a round may leave an operand behind (regalloc.c:285-301   *)
(* calls insert_tmp_reg with the index of the store it inserted before).   *)
OperandsInRegisters ==
  phase = "done" =>
    \A b \in DOMAIN bbs : \A k \in DOMAIN bbs[b].irs :
      LET ir == bbs[b].irs[k]
      IN  \A field \in {"dst", "opr1", "opr2"} :
            TakesRegister(ir, field) /\ ir[field] # 0 /\ ~ IsConst(ir[field]) =>
              /\ ~ Spilled(ir[field])
              /\ phys[IntervalOf(ir[field])] \in Regs(vregs[ir[field]].cls)

(* The assertions of regalloc.c and spill_vreg hold: a register is free    *)
(* where the scan takes one (regalloc.c:195), and no register that was     *)
(* made for a load or a store is spilled itself (ir.c:30).                 *)
NoSpillKept ==
  \A v \in DOMAIN vregs :
    "VRF_NO_SPILL" \in vregs[v].flag => "VRF_SPILLED" \notin vregs[v].flag

AssertionsHold == RegisterFree /\ NoSpillKept

(* A register that a block receives is first seen in code order at the     *)
(* start of that block, and what the first instruction there assigns was   *)
(* last seen there as well: expire_old_intervals (regalloc.c:92, li->end   *)
(* > start) takes the one for over where the other one begins, so that     *)
(* both may get one register. A loop lays its condition out behind its     *)
(* body, and the body starts so when the condition assigns the register.   *)
LateEntry ==
  \E b \in DOMAIN bbs : \E a, d \in 1 .. N :
    /\ a # d /\ RegisterOf(a) = RegisterOf(d)
    /\ iv[a].virt \in bbs[b].in_regs /\ iv[a].start = BlockStart(b)
    /\ bbs[b].irs # <<>>
    /\ iv[d].virt = bbs[b].irs[1].dst /\ iv[d].end = BlockStart(b)

(* The allocated code computes what the program did: along the path, every *)
(* instruction reads the same values from the physical registers as it did *)
(* from the virtual ones, over all rounds of spilling (regalloc.c:307-368) *)
CodePreserved ==
  phase = "done" /\ OperandsInRegisters => RunAllocated = RunOriginal

(* The set of registers that detect_living_registers stores into a call    *)
(* (codegen.c:563-613) has every register whose value is needed after it.  *)
LivingCoversCalls ==
  phase = "done" =>
    \A nip \in 0 .. CodeLength - 1 :
      LET living == detect_living_registers[nip]
      IN  \A a \in 1 .. N :
            state[a] = "LI_NORMAL" /\ iv[a].start < nip /\ nip < iv[a].end =>
              BitOf(a) \in living

(* The rounds of alloc_physical_registers come to an end                   *)
(* (regalloc.c:316-364).                                                   *)
AllocationEnds == <>(phase = "done")
============================================================================
