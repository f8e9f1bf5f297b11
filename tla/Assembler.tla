----------------------------- MODULE Assembler -----------------------------
(***************************************************************************)
(* The assembler from its parsed lines to the object file: parse_file,     *)
(* main and output_obj of src/src/as/as.c, handle_directive of             *)
(* parse_asm.c, ir_asm.c and gen_section.c.                                *)
(*                                                                         *)
(* Jumps start out in their short form. Two passes, one that assigns       *)
(* addresses and one that computes the displacements, alternate until no   *)
(* jump had to become long and no section's alignment changed; then the    *)
(* sections are written out by a third pass with its own idea of where     *)
(* everything is.                                                          *)
(***************************************************************************)
EXTENDS Integers, Sequences, FiniteSets

CONSTANTS
  Sources,        \* the inputs: sequences of lines
  Labels,         \* the names in them
  Alignments,     \* the alignments in them, and 1
  START_ADDRESS   \* the address the first section is laid out at

(* A line is [k, n, l]: its kind, a number (the size of code or data, an   *)
(* alignment, the offset from the label), and a label; COMM has its        *)
(* alignment as a fourth field a. JMP stands for the unconditional jump,   *)
(* JCC for the conditional ones, CODE for an instruction without an        *)
(* address, QUAD for the address of a label as data.                       *)
Section == 0 .. 3
SEC_CODE == 0
SEC_RODATA == 1
SEC_DATA == 2
SEC_BSS == 3

LineKind == {"TEXT", "RODATA", "DATA", "LABEL", "GLOBL", "COMM", "ALIGN",
             "CODE", "BYTES", "JMP", "JCC", "CALL", "LEA", "QUAD"}

NoLabel == "none"

MaxOf(S) == CHOOSE x \in S : \A y \in S : y <= x

(* ALIGN of util.h: "align must be 2^n". Of two powers of two the smaller  *)
(* divides the larger.                                                     *)
ASSUME AssemblerAssumption ==
  /\ START_ADDRESS \in Nat
  /\ Alignments \subseteq Nat \ {0}
  /\ 1 \in Alignments
  /\ \A a, b \in Alignments : a <= b => b % a = 0

Line ==
  [k : LineKind \ {"COMM", "ALIGN"}, n : Nat, l : Labels \cup {NoLabel}]
  \cup [k : {"ALIGN"}, n : Alignments, l : {NoLabel}]
  \cup [k : {"COMM"}, n : Nat, l : Labels, a : Alignments]

Defines(line, l) == line.k \in {"LABEL", "COMM"} /\ line.l = l

(* The section that a directive opens.                                     *)
Opens == [TEXT |-> SEC_CODE, RODATA |-> SEC_RODATA, DATA |-> SEC_DATA]

(* The section of line i of s, if s is read when sec is the current one.   *)
SectionOf(sec, s, i) ==
  LET opened == {j \in 1 .. i : s[j].k \in DOMAIN Opens}
  IN  CASE s[i].k = "COMM" -> SEC_BSS
        [] s[i].k # "COMM" /\ opened = {} -> sec
        [] s[i].k # "COMM" /\ opened # {} -> Opens[s[MaxOf(opened)].k]

(* What cc1 writes, and as does not check: .comm names a variable that is  *)
(* not defined elsewhere, .globl something that is defined in the file;    *)
(* jumps and calls do not go to other sections of the file, and            *)
(* conditional jumps not to other files.                                   *)
ASSUME SourcesAssumption ==
  /\ Sources \subseteq Seq(Line)
  /\ \A s \in Sources : \A i \in DOMAIN s :
       LET definitions == {j \in DOMAIN s : Defines(s[j], s[i].l)}
       IN  /\ s[i].k = "COMM" => definitions = {i}
           /\ s[i].k \in {"GLOBL", "JCC"} => definitions # {}
           /\ s[i].k \in {"JMP", "JCC", "CALL"} =>
                \A j \in definitions : SectionOf(SEC_CODE, s, j) = SectionOf(SEC_CODE, s, i)

VARIABLES
  src,       \* the lines that are still to be parsed
  cur_sec,   \* current_section
  irs,       \* section_irs
  labels,    \* label_table: section, address and flags of each label
  err,       \* a label was defined twice
  phase,     \* parse, calc, resolve, emit, done or failed
  address,   \* ir->address of each item
  aligns,    \* section_aligns
  starts,    \* section_start_addresses
  settle1,   \* what calc_label_address returned
  long,      \* the jumps with INST_LONG_OFFSET
  disp,      \* the displacements that were put into the code
  unresolved,
  emitted,   \* where emit_irs put each item in its section
  sizes,     \* the sizes of the sections written
  obj        \* symbols and relocations of the object file

vars == <<src, cur_sec, irs, labels, err, phase, address, aligns, starts, settle1,
          long, disp, unresolved, emitted, sizes, obj>>

parseVars == <<src, cur_sec, irs, labels, err>>

ALIGN(x, a) == ((x + a - 1) \div a) * a

ItemsOf(ir) == UNION {{s} \X DOMAIN ir[s] : s \in Section}
Items == ItemsOf(irs)
Item(p) == irs[p[1]][p[2]]

IsJump(p) == Item(p).k \in {"JMP", "JCC"}
----------------------------------------------------------------------------
(***************************************************************************)
(* parse_file, one line at a time.                                         *)
(***************************************************************************)
NewLabel(sec) == [section |-> sec, address |-> 0, defined |-> FALSE, global |-> FALSE]

(* add_label_table, when it succeeds.                                      *)
add_label_table(l, sec, define, global) ==
  LET old == IF l \in DOMAIN labels THEN labels[l] ELSE NewLabel(sec)
      new == [old EXCEPT
                !.section = IF define THEN sec ELSE @,
                !.address = IF define /\ l \in DOMAIN labels THEN 1 ELSE @,
                !.defined = @ \/ define,
                !.global = @ \/ global]
  IN  [x \in DOMAIN labels \cup {l} |-> IF x = l THEN new ELSE labels[x]]

AlreadyDefined(l) == l \in DOMAIN labels /\ labels[l].defined

Push(sec, items) == [irs EXCEPT ![sec] = @ \o items]

LabelSection(line) == IF line.k = "COMM" THEN SEC_BSS ELSE cur_sec

ParseLine ==
  /\ phase = "parse"
  /\ src # <<>>
  /\ LET line == Head(src)
     IN  /\ cur_sec' = IF line.k \in DOMAIN Opens THEN Opens[line.k] ELSE cur_sec
         /\ irs' = CASE line.k \in DOMAIN Opens \cup {"GLOBL"} -> irs
                     [] line.k = "COMM" ->
                          Push(SEC_BSS, (IF line.a > 1
                                         THEN <<[k |-> "ALIGN", n |-> line.a, l |-> NoLabel]>>
                                         ELSE <<>>)
                                        \o <<[k |-> "LABEL", n |-> 0, l |-> line.l],
                                          [k |-> "BSS", n |-> line.n, l |-> NoLabel]>>)
                     [] OTHER -> Push(cur_sec, <<line>>)
         /\ LET defines == line.k \in {"LABEL", "COMM"}
                twice == defines /\ AlreadyDefined(line.l)
            IN  /\ labels' = IF twice \/ ~ (defines \/ line.k = "GLOBL") THEN labels
                             ELSE add_label_table(line.l, LabelSection(line), defines,
                                                  line.k = "GLOBL")
                /\ err' = (err \/ (twice /\ line.k = "LABEL"))
  /\ src' = Tail(src)
  /\ UNCHANGED <<phase, address, aligns, starts, settle1, long, disp, unresolved,
                 emitted, sizes, obj>>

(* main: if (err) return 1; The displacements that assemble_inst put into  *)
(* the code are -1.                                                        *)
ParseEnd ==
  /\ phase = "parse"
  /\ src = <<>>
  /\ phase' = IF err THEN "failed" ELSE "calc"
  /\ disp' = [p \in Items |-> -1]
  /\ UNCHANGED <<parseVars, address, aligns, starts, settle1, long, unresolved,
                 emitted, sizes, obj>>

----------------------------------------------------------------------------
(***************************************************************************)
(* calc_label_address.                                                     *)
(***************************************************************************)

(* ir->code.len, ir->data.len, ir->bss and the sizes of IR_EXPR_xxx.       *)
SizeOf(ir, p, lg) ==
  LET item == ir[p[1]][p[2]]
  IN  CASE item.k \in {"CODE", "BYTES", "BSS"} -> item.n
        [] item.k = "JMP" -> IF p \in lg THEN 5 ELSE 2
        [] item.k = "JCC" -> IF p \in lg THEN 6 ELSE 2
        [] item.k = "CALL" -> 5
        [] item.k = "LEA" -> 7
        [] item.k = "QUAD" -> 8
        [] item.k \in {"LABEL", "ALIGN"} -> 0

(* The running address behind the n-th item of a section.                  *)
Behind(ir, sec, start, lg) ==
  LET pos[n \in 0 .. Len(ir[sec])] ==
        IF n = 0 THEN start
        ELSE IF ir[sec][n].k = "ALIGN" THEN ALIGN(pos[n - 1], ir[sec][n].n)
        ELSE pos[n - 1] + SizeOf(ir, <<sec, n>>, lg)
  IN  pos

(* ir->address in a section; that of an alignment is behind its padding.   *)
AddressIn(ir, p, start, lg) ==
  Behind(ir, p[1], start, lg)[IF ir[p[1]][p[2]].k = "ALIGN" THEN p[2] ELSE p[2] - 1]

(* section_start_addresses, with align_next_section.                       *)
SectionStarts(ir, lg, al) ==
  LET start[s \in Section] ==
        ALIGN(IF s = 0 THEN START_ADDRESS
              ELSE Behind(ir, s - 1, start[s - 1], lg)[Len(ir[s - 1])],
              al[s])
  IN  start

Addresses(ir, lg, al) ==
  LET start == SectionStarts(ir, lg, al)
  IN  [p \in ItemsOf(ir) |-> AddressIn(ir, p, start[p[1]], lg)]

AlignsIn(sec) == {irs[sec][n].n : n \in {m \in DOMAIN irs[sec] : irs[sec][m].k = "ALIGN"}}

(* The alignments, once every IR_ALIGN was seen.                           *)
Widened(al) == [s \in Section |-> MaxOf({al[s]} \cup AlignsIn(s))]

(* info->address = address, for each label at its (last) place.            *)
LabelAddress(ir, l, addr) ==
  LET places == {p \in ItemsOf(ir) : ir[p[1]][p[2]].k = "LABEL" /\ ir[p[1]][p[2]].l = l}
  IN  addr[CHOOSE p \in places : \A q \in places :
              q[1] < p[1] \/ (q[1] = p[1] /\ q[2] <= p[2])]

PlacedLabels(addr) ==
  [l \in DOMAIN labels |->
     IF labels[l].defined THEN [labels[l] EXCEPT !.address = LabelAddress(irs, l, addr)]
     ELSE labels[l]]

calc_label_address ==
  /\ phase = "calc"
  /\ address' = Addresses(irs, long, aligns)
  /\ starts' = SectionStarts(irs, long, aligns)
  /\ labels' = PlacedLabels(address')
  /\ aligns' = Widened(aligns)
  /\ settle1' = (aligns' = aligns)
  /\ phase' = "resolve"
  /\ UNCHANGED <<src, cur_sec, irs, err, long, disp, unresolved, emitted, sizes, obj>>
----------------------------------------------------------------------------
(***************************************************************************)
(* resolve_relative_address.                                               *)
(***************************************************************************)
is_im8(x) == -128 <= x /\ x <= 127

HasLabel(p) == Item(p).k \in {"JMP", "JCC", "CALL", "LEA", "QUAD"}

(* label_info == NULL *)
External(p) == Item(p).l \notin DOMAIN labels

(* Only LEA asks for the section of the label.                             *)
OtherSection(p) ==
  /\ Item(p).k = "LEA"
  /\ ~ External(p)
  /\ labels[Item(p).l].section # p[1]

(* The displacement from behind the instruction.                           *)
Offset(p) == labels[Item(p).l].address + Item(p).n - (address[p] + SizeOf(irs, p, long))

(* make_jmp_long is called on these and reports them.                      *)
MadeLong ==
  {p \in Items : /\ IsJump(p)
                 /\ p \notin long
                 /\ External(p) \/ ~ is_im8(Offset(p))}

(* put_value for the items whose displacement is known in this pass. What  *)
(* make_jmp_long writes into the new form of a jump is -1.                 *)
Patched(p) ==
  /\ Item(p).k \in {"JMP", "JCC", "CALL", "LEA"}
  /\ ~ External(p)
  /\ ~ OtherSection(p)
  /\ p \notin MadeLong

(* irs->data[0]->address, or 0. *)
FirstAddress(sec) == IF irs[sec] = <<>> THEN 0 ELSE address[<<sec, 1>>]

(* An UnresolvedInfo. Where the field is: CALL and the jumps have one byte *)
(* before it, LEA three, QUAD none.                                        *)
Unresolved(p) ==
  LET it == Item(p)
      field == CASE it.k = "LEA" -> 3 [] it.k = "QUAD" -> 0 [] OTHER -> 1
  IN  [kind |-> CASE it.k = "QUAD" -> "UNRES_ABS64"
                  [] OtherSection(p) -> "UNRES_OTHER_SECTION"
                  [] it.k = "LEA" /\ External(p) -> "UNRES_EXTERN_PC32"
                  [] OTHER -> "UNRES_EXTERN",
       label |-> it.l,
       src_section |-> p[1],
       offset |-> address[p] + field - FirstAddress(p[1]),
       add |-> CASE it.k = "QUAD" -> it.n
                 [] OtherSection(p) ->
                      labels[it.l].address + it.n - FirstAddress(labels[it.l].section) - 4
                 [] OTHER -> it.n - 4]

(* Mutant: the vector is not cleared between the passes.                   *)
AllUnresolvedKept ==
  unresolved \cup
  {Unresolved(p) : p \in {q \in Items : \/ Item(q).k = "QUAD"
                                        \/ HasLabel(q) /\ (External(q) \/ OtherSection(q))}}

(* The vector is cleared first.                                            *)
AllUnresolved ==
  {Unresolved(p) : p \in {q \in Items : \/ Item(q).k = "QUAD"
                                        \/ HasLabel(q) /\ (External(q) \/ OtherSection(q))}}

(* Mutants: the loop looks at the alignments only, or also asks whether a  *)
(* jump to an external label, long or not, was met.                        *)
SettledAligns == settle1
SettledNever == settle1 /\ {p \in Items : IsJump(p) /\ External(p)} \cup MadeLong = {}

(* while (!(settle1 && settle2)) *)
Settled == settle1 /\ MadeLong = {}

resolve_relative_address ==
  /\ phase = "resolve"
  /\ unresolved' = AllUnresolved
  /\ disp' = [p \in Items |-> IF p \in MadeLong THEN -1
                              ELSE IF Patched(p) THEN Offset(p)
                              ELSE disp[p]]
  /\ long' = long \cup MadeLong
  /\ phase' = IF Settled THEN "emit" ELSE "calc"
  /\ UNCHANGED <<parseVars, address, aligns, starts, settle1, emitted, sizes, obj>>

----------------------------------------------------------------------------
(***************************************************************************)
(* emit_irs and output_obj.                                                *)
(***************************************************************************)

(* What assemble_inst made (IR_CODE).                                      *)
IsCode(p) == Item(p).k \in {"CODE", "JMP", "JCC", "CALL", "LEA"}

(* add_code appends to SEC_CODE whichever section the line stands in: code *)
(* of the other sections comes behind that of .text, in the order of the   *)
(* walk, and leaves no gap where it stood.                                 *)
Strays == {p \in Items : IsCode(p) /\ p[1] # SEC_CODE}

Without(gone) ==
  [s \in Section |-> [n \in DOMAIN irs[s] |->
     IF <<s, n>> \in gone THEN [irs[s][n] EXCEPT !.k = "BYTES", !.n = 0] ELSE irs[s][n]]]

(* The end of the code after the walk over section s.                      *)
CodeEnd[s \in Section] ==
  IF s = SEC_CODE THEN Behind(irs, s, 0, long)[Len(irs[s])]
  ELSE Behind(Without(Items \ Strays), s, CodeEnd[s - 1], long)[Len(irs[s])]

(* The buffers of the sections grow from 0; buf_align and bss_size.        *)
emit_irs ==
  /\ phase = "emit"
  /\ emitted' = [p \in Items |->
                   IF p \in Strays
                   THEN AddressIn(Without(Items \ Strays), p, CodeEnd[p[1] - 1], long)
                   ELSE AddressIn(Without(Strays), p, 0, long)]
  /\ sizes' = [s \in Section |->
                 IF s = SEC_CODE THEN CodeEnd[SEC_BSS]
                 ELSE Behind(Without(Strays), s, 0, long)[Len(irs[s])]]
  /\ phase' = "output"
  /\ UNCHANGED <<parseVars, address, aligns, starts, settle1, long, disp, unresolved, obj>>

(* st_value of the symbols that are global and defined.                    *)
SymbolValue(l) == labels[l].address - starts[labels[l].section]

Symbols ==
  {[name |-> l, shndx |-> labels[l].section, value |-> SymbolValue(l)] :
     l \in {m \in DOMAIN labels : labels[m].global /\ labels[m].defined}}

(* A relocation refers to a symbol by its name, or to a section.           *)
Rela(u) ==
  LET local == u.kind = "UNRES_OTHER_SECTION"
               \/ (u.kind = "UNRES_ABS64"
                   /\ u.label \in DOMAIN labels /\ ~ labels[u.label].global)
  IN  [section |-> u.src_section,
       r_offset |-> u.offset,
       type |-> CASE u.kind = "UNRES_EXTERN" -> "R_X86_64_PLT32"
                  [] u.kind = "UNRES_ABS64" -> "R_X86_64_64"
                  [] OTHER -> "R_X86_64_PC32",
       sym |-> IF local THEN <<"section", labels[u.label].section>> ELSE <<"name", u.label>>,
       r_addend |-> IF local /\ u.kind = "UNRES_ABS64" THEN u.add + SymbolValue(u.label)
                    ELSE u.add]

output_obj ==
  /\ phase = "output"
  /\ obj' = [symbols |-> Symbols, relas |-> {Rela(u) : u \in unresolved}]
  /\ phase' = "done"
  /\ UNCHANGED <<parseVars, address, aligns, starts, settle1, long, disp, unresolved,
                 emitted, sizes>>

----------------------------------------------------------------------------
AsmInit ==
  /\ src \in Sources
  /\ cur_sec = SEC_CODE
  /\ irs = [s \in Section |-> <<>>]
  /\ labels = <<>>
  /\ err = FALSE
  /\ phase = "parse"
  /\ address = <<>>
  /\ aligns = [s \in Section |-> 1]
  /\ starts = [s \in Section |-> 0]
  /\ settle1 = FALSE
  /\ long = {}
  /\ disp = <<>>
  /\ unresolved = {}
  /\ emitted = <<>>
  /\ sizes = [s \in Section |-> 0]
  /\ obj = [symbols |-> {}, relas |-> {}]

AsmNext == ParseLine \/ ParseEnd \/ calc_label_address \/ resolve_relative_address
           \/ emit_irs \/ output_obj

AsmSpec == AsmInit /\ [][AsmNext]_vars

(* One sequential process that runs until it exits.                        *)
AsmFairSpec == AsmSpec /\ WF_vars(AsmNext)

----------------------------------------------------------------------------
(***************************************************************************)
(* Properties.                                                             *)
(***************************************************************************)
(* When the loop of main (as.c:481-486) ends, addresses, section starts,   *)
(* label addresses and displacements all belong to the same layout: the    *)
(* one with the final jump lengths and the final alignments. A short jump  *)
(* reaches its label with eight bits.                                      *)
SettledConsistent ==
  phase \in {"emit", "output", "done"} =>
    /\ address = Addresses(irs, long, aligns)
    /\ starts = SectionStarts(irs, long, aligns)
    /\ \A l \in DOMAIN labels :
         labels[l].defined => labels[l].address = LabelAddress(irs, l, address)
    /\ \A p \in Items :
         Item(p).k \in {"JMP", "JCC", "CALL", "LEA"} /\ ~ External(p) /\ ~ OtherSection(p) =>
           /\ disp[p] = Offset(p)
           /\ IsJump(p) /\ p \notin long => is_im8(disp[p])

(* The place of a label in the bytes that were written.                    *)
LabelPlace(l) == CHOOSE p \in Items : Item(p).k = "LABEL" /\ Item(p).l = l

(* As cc1 writes it; as does not check it.                                 *)
CodeInText == Strays = {}

(* Every relative jump, call and lea in the written code ends up at its    *)
(* label, if the code stands in .text (ir_asm.c:421).                      *)
JumpsLand ==
  phase = "done" /\ CodeInText =>
    \A p \in Items :
      /\ Item(p).k \in {"JMP", "JCC", "CALL", "LEA"}
      /\ ~ External(p)
      /\ ~ OtherSection(p)
      => emitted[p] + SizeOf(irs, p, long) + disp[p] = emitted[LabelPlace(Item(p).l)] + Item(p).n

(* Where a relocation has to lead, as an offset from its symbol: what the  *)
(* linker computes (ld.c:136-152) is the address that the line means, for  *)
(* wherever the sections and the symbols end up.                           *)
Leads(r, p) ==
  LET it == Item(p)
      target == it.n + (IF r.sym[1] = "section" THEN emitted[LabelPlace(it.l)] ELSE 0)
      field == SizeOf(irs, p, long) - (IF it.k = "QUAD" THEN 8 ELSE 4)
  IN  /\ r.section = p[1]
      /\ r.r_offset = emitted[p] + field
      /\ r.sym \in {<<"name", it.l>>}
                   \cup {<<"section", labels[l].section>> : l \in {it.l} \cap DOMAIN labels}
      /\ IF r.type = "R_X86_64_64" THEN r.r_addend = target
         ELSE r.r_addend - r.r_offset = target - (emitted[p] + SizeOf(irs, p, long))

(* The object file describes the code that was written: every line whose   *)
(* address is left to the linker has its relocation, at its field and with *)
(* the right addend, there is no other one, and each symbol is where its   *)
(* label is (as.c:104-244), if the code stands in .text (ir_asm.c:421).    *)
ObjectDescribesCode ==
  phase = "done" /\ CodeInText =>
    /\ \A p \in Items :
         HasLabel(p) /\ (Item(p).k = "QUAD" \/ External(p) \/ OtherSection(p)) =>
           \E r \in obj.relas : Leads(r, p)
    /\ \A r \in obj.relas : \E p \in Items : HasLabel(p) /\ Leads(r, p)
    /\ \A s \in obj.symbols : s.value = emitted[LabelPlace(s.name)]

(* The loop of main comes to an end: jumps only grow and alignments only   *)
(* widen.                                                                  *)
AssemblyEnds == <>(phase \in {"done", "failed"})
=============================================================================
