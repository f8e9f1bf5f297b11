---------------------------- MODULE MCAssembler ----------------------------
(***************************************************************************)
(* Models of Assembler for TLC.                                            *)
(***************************************************************************)
EXTENDS Assembler, TLC

CONSTANT Pads   \* sizes of the long stretch of code between the jumps

L(k, n, l) == [k |-> k, n |-> n, l |-> l]

(* The lines that are put in every order: two jumps over and into a long   *)
(* stretch of code, so that one becoming long may push the other one out   *)
(* of reach, an alignment that may swallow the growth, and their labels.   *)
Shuffled(pad) ==
  <<L("JMP", 0, "L1"), L("JCC", 0, "L2"), L("LABEL", 0, "L1"), L("LABEL", 0, "L2"),
    L("CODE", pad, "none"), L("ALIGN", 4, "none")>>

(* The rest: calls and jumps out of the file, the address of a label in    *)
(* another section, data with addresses of labels, and a section that      *)
(* starts with an alignment behind one of odd size. No conditional jump    *)
(* leaves the file: cc1 makes none, and its relocation would be one byte   *)
(* before its field (ir_asm.c:320).                                        *)
Before == <<L("TEXT", 0, "none"), L("GLOBL", 0, "main"), L("LABEL", 0, "main"),
            L("CALL", 0, "ext")>>

After ==
  <<L("LEA", 4, "D"), L("JMP", 0, "ext"), L("LEA", 0, "ext2"), L("CALL", 0, "main"),
    L("RODATA", 0, "none"), L("BYTES", 3, "none"),
    L("DATA", 0, "none"), L("ALIGN", 8, "none"), L("GLOBL", 0, "D"), L("BYTES", 2, "none"),
    L("LABEL", 0, "D"), L("QUAD", 1, "L1"), L("QUAD", 0, "D"), L("QUAD", 0, "ext"),
    [k |-> "COMM", n |-> 5, l |-> "B", a |-> 16], [k |-> "COMM", n |-> 1, l |-> "C", a |-> 1],
    L("TEXT", 0, "none"), L("LEA", 0, "C")>>

(* Code in other sections, which ends up behind the rest of .text.         *)
Stray ==
  <<L("CODE", 3, "none"), L("DATA", 0, "none"), L("BYTES", 1, "none"), L("LABEL", 0, "L1"),
    L("JMP", 0, "L1"), L("BYTES", 2, "none"), L("RODATA", 0, "none"), L("CALL", 0, "ext"),
    L("LABEL", 0, "L2"), L("TEXT", 0, "none"), L("CODE", 2, "none")>>

MCSources ==
  {Before \o [k \in 1 .. 6 |-> Shuffled(pad)[f[k]]] \o After :
     pad \in Pads, f \in Permutations(1 .. 6)}
  \cup {<<L("LABEL", 0, "L1"), L("CODE", 1, "none"), L("LABEL", 0, "L1")>>, Stray}

=============================================================================
