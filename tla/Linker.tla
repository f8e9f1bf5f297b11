------------------------------- MODULE Linker -------------------------------
(***************************************************************************)
(* The linker: link_files of src/src/ld/ld.c with archive.c, elfobj.c and  *)
(* the section sizes of as/gen_section.c.                                  *)
(*                                                                         *)
(* The files of the command line are linked from left to right. An object  *)
(* is linked when it is reached; of an archive the members that define an  *)
(* unresolved name are loaded and linked, over and over, until none is     *)
(* left. Then the sections get their addresses, relocations are resolved,  *)
(* and the contents are gathered in a pass of its own.                     *)
(***************************************************************************)
EXTENDS Integers, Sequences, FiniteSets

CONSTANTS
  CommandLines,   \* sequences of files
  Entry,          \* the entry name, unresolved from the start
  START_ADDRESS,  \* LOAD_ADDRESS
  Alignments,     \* of sections: powers of two, up to a page
  DATA_ALIGN      \* the least alignment of the data section

Section == 0 .. 3    \* SEC_CODE, SEC_RODATA, SEC_DATA, SEC_BSS
SEC_CODE == 0
SEC_DATA == 2

(***************************************************************************)
(* What the files of a command line are: an object file is one object, the *)
(* index of an archive gives for each of its names a member that defines   *)
(* it, a symbol is in a section that is not empty, and no alignment        *)
(* exceeds that of the data section, which is a page. An alignment is a    *)
(* power of two, as ALIGN needs it: one divides every larger one. The      *)
(* start address is past the headers, so it is a multiple of the           *)
(* alignments of code, but not of a page.                                  *)
(***************************************************************************)
ASSUME FilesAssumption ==
  \A fs \in CommandLines :
    /\ Len(fs) \in Nat
    /\ DOMAIN fs = 1 .. Len(fs)
    /\ \A f \in DOMAIN fs :
         /\ fs[f].archive \in BOOLEAN
         /\ DOMAIN fs[f].members \subseteq Nat
         /\ ~ fs[f].archive => DOMAIN fs[f].members = {1}
         /\ \A n \in DOMAIN fs[f].index :
              /\ fs[f].index[n] \in DOMAIN fs[f].members
              /\ n \in DOMAIN fs[f].members[fs[f].index[n]].defs

ASSUME AlignmentsAssumption ==
  /\ Alignments \subseteq Nat \ {0}
  /\ {1, DATA_ALIGN} \subseteq Alignments
  /\ \A a, b \in Alignments : a <= b => b % a = 0

ASSUME SectionsAssumption ==
  /\ START_ADDRESS \in Nat
  /\ \A fs \in CommandLines : \A f \in DOMAIN fs : \A m \in DOMAIN fs[f].members :
       LET o == fs[f].members[m]
       IN  /\ \A s \in Section :
                /\ o.sect[s].size \in Nat
                /\ o.sect[s].align \in Alignments /\ o.sect[s].align <= DATA_ALIGN
           /\ START_ADDRESS % o.sect[SEC_CODE].align = 0
           /\ \A n \in DOMAIN o.defs : o.sect[o.defs[n]].size > 0

(* An object is [defs, undefs, sect]: the section of each symbol that it   *)
(* defines, the symbols it refers to, and size and alignment of its        *)
(* sections. load_symtab sees the symbols of type STT_NOTYPE only, which   *)
(* are all that xcc's assembler makes. An object file is a file with one   *)
(* member, which is in it from the start; the members of an archive are    *)
(* loaded by need. The index of an archive is its symbol table.            *)
VARIABLES
  files,       \* the command line
  i,           \* the file that is being linked
  phase,       \* link, layout, relocate, gather, done or failed
  unresolved,  \* the table of unresolved names
  contents,    \* for each file the members that are loaded, in order
  linked,      \* the objects that went through link_elfobj, in order
  offsets,     \* offsets: the end of each section so far
  aligns,      \* section_aligns
  addr,        \* progbits.address of each linked section
  refs,        \* what resolve_relas stored for each reference
  pos,         \* where add_elfobj_sections put each section's contents
  size         \* the size of each output section

vars == <<files, i, phase, unresolved, contents, linked, offsets, aligns, addr, refs,
          pos, size>>

(* An object is named by its file and its number in the file.              *)
Obj(o) == files[o[1]].members[o[2]]

(* align must be 2^n, which makes it what the macro computes.              *)
ALIGN(x, a) == ((x + a - 1) \div a) * a

MaxOf(S) == CHOOSE x \in S : \A y \in S : y <= x
MinOf(S) == CHOOSE x \in S : \A y \in S : x <= y

Members(f) == {<<f, contents[f][k]>> : k \in DOMAIN contents[f]}

(* find_symbol_from_all: the objects of the command line, linked or not,   *)
(* and the loaded members of the archives.                                 *)
Definers(name, cont) ==
  {p \in UNION {{f} \X DOMAIN cont[f] : f \in DOMAIN files} :
     name \in DOMAIN files[p[1]].members[cont[p[1]][p[2]]].defs}

Found(name, cont) == Definers(name, cont) # {}

(* The first one in the order of the files, and of the loading.            *)
find_symbol_from_all(name) ==
  LET p == CHOOSE p \in Definers(name, contents) :
             \A q \in Definers(name, contents) :
               p[1] < q[1] \/ (p[1] = q[1] /\ p[2] <= q[2])
  IN  <<p[1], contents[p[1]][p[2]]>>

----------------------------------------------------------------------------
(***************************************************************************)
(* link_elfobj(o), with `unres' the unresolved names and `cont' the loaded *)
(* members when it is called.                                              *)
(***************************************************************************)
Sized(o) == {s \in Section : Obj(o).sect[s].size > 0}

(* Mutant: the references of an object are not entered.                    *)
UnresolvedForgets(o, unres, cont) == unres \ DOMAIN Obj(o).defs

(* Mutant: find_symbol_from_all is not asked.                              *)
UnresolvedUnasked(o, unres, cont) ==
  (unres \ DOMAIN Obj(o).defs) \cup Obj(o).undefs

(* The names: one that is defined here is no longer unresolved, one that   *)
(* nobody defines so far becomes unresolved.                               *)
Unresolved(o, unres, cont) ==
  (unres \ DOMAIN Obj(o).defs) \cup {n \in Obj(o).undefs : ~ Found(n, cont)}

link_elfobj(o, unres, cont) ==
  /\ unresolved' = Unresolved(o, unres, cont)
  /\ aligns' = [s \in Section |->
                  IF s \in Sized(o) THEN MaxOf({aligns[s], Obj(o).sect[s].align})
                  ELSE aligns[s]]
  /\ LET start == [s \in Section |-> ALIGN(offsets[s], Obj(o).sect[s].align)]
     IN  /\ addr' = [x \in DOMAIN addr \cup ({o} \X Sized(o)) |->
                       IF x[1] = o THEN start[x[2]] ELSE addr[x]]
         /\ offsets' = [s \in Section |->
                          IF s \in Sized(o) THEN start[s] + Obj(o).sect[s].size
                          ELSE offsets[s]]
  /\ linked' = Append(linked, o)

LinkObject ==
  /\ phase = "link"
  /\ i <= Len(files)
  /\ ~ files[i].archive
  /\ link_elfobj(<<i, 1>>, unresolved, contents)
  /\ i' = i + 1
  /\ UNCHANGED <<files, phase, contents, refs, pos, size>>

(* load_archive_elfobj searches the contents for the member's offset.      *)
AlreadyLoaded(m) == <<i, m>> \in Members(i)

(* Mutant: retry is not reset between the rounds.                          *)
PassedNotReset == Members(i) = {} /\ unresolved \cap DOMAIN files[i].index = {}

(* Mutant: the first round over the table is the last.                     *)
PassedAfterOne == Members(i) # {} \/ unresolved \cap DOMAIN files[i].index = {}

(* No name of the archive is left: retry stays false.                      *)
Passed == unresolved \cap DOMAIN files[i].index = {}

(* load_archive_elfobj pushes the member onto the contents.                *)
Loaded(m) == [contents EXCEPT ![i] = Append(@, m)]

(* table_delete, before the member is loaded                               *)
Taken(name) == unresolved \ {name}

(* link_archive: a name that the archive defines. The walk over the table  *)
(* meets them in the order of their hashes, that is in any order.          *)
LinkMember(name) ==
  /\ phase = "link"
  /\ i <= Len(files)
  /\ files[i].archive
  /\ name \in unresolved \cap DOMAIN files[i].index
  /\ LET m == files[i].index[name]
     IN  IF AlreadyLoaded(m)
         THEN \* load_archive_elfobj: already loaded
              /\ unresolved' = Taken(name)
              /\ UNCHANGED <<contents, linked, offsets, aligns, addr>>
         ELSE /\ contents' = Loaded(m)
              /\ link_elfobj(<<i, m>>, Taken(name), Loaded(m))
  /\ UNCHANGED <<files, i, phase, refs, pos, size>>

LinkArchiveEnd ==
  /\ phase = "link"
  /\ i <= Len(files)
  /\ files[i].archive
  /\ Passed
  /\ i' = i + 1
  /\ UNCHANGED <<files, phase, unresolved, contents, linked, offsets, aligns, addr, refs,
                 pos, size>>

(* if (unresolved.count > 0) ... return false;                             *)
LinkEnd ==
  /\ phase = "link"
  /\ i > Len(files)
  /\ phase' = IF unresolved = {} THEN "layout" ELSE "failed"
  /\ UNCHANGED <<files, i, unresolved, contents, linked, offsets, aligns, addr, refs, pos,
                 size>>

----------------------------------------------------------------------------
(***************************************************************************)
(* link_files: addresses. A section follows the last one of the section    *)
(* before; offsets has the end of each.                                    *)
(***************************************************************************)
SectionBase ==
  LET base[s \in Section] ==
        ALIGN(IF s = 0 THEN START_ADDRESS ELSE base[s - 1] + offsets[s - 1], aligns[s])
  IN  base

Layout ==
  /\ phase = "layout"
  /\ addr' = [x \in DOMAIN addr |-> addr[x] + SectionBase[x[2]]]
  /\ phase' = "relocate"
  /\ UNCHANGED <<files, i, unresolved, contents, linked, offsets, aligns, refs, pos, size>>

(* resolve_relas: a reference by name gets the address of the section in   *)
(* which the first definition is.                                          *)
resolve_relas ==
  /\ phase = "relocate"
  /\ refs' = [r \in UNION {{linked[k]} \X Obj(linked[k]).undefs : k \in DOMAIN linked} |->
                LET d == find_symbol_from_all(r[2])
                IN  addr[<<d, Obj(d).defs[r[2]]>>]]
  /\ phase' = "gather"
  /\ UNCHANGED <<files, i, unresolved, contents, linked, offsets, aligns, addr, pos, size>>

(* Mutant: the contents of archives come last.                             *)
GatherOrderArchivesLast ==
  LET ofKind(kind) ==
        LET upTo[f \in 0 .. Len(files)] ==
              IF f = 0 THEN <<>>
              ELSE IF files[f].archive # kind THEN upTo[f - 1]
              ELSE upTo[f - 1] \o [k \in DOMAIN contents[f] |-> <<f, contents[f][k]>>]
        IN  upTo[Len(files)]
  IN  ofKind(FALSE) \o ofKind(TRUE)

(* add_elfobj_sections, over the files and the loaded members: the order   *)
(* in which the contents are gathered.                                     *)
GatherOrder ==
  LET upTo[f \in 0 .. Len(files)] ==
        IF f = 0 THEN <<>>
        ELSE upTo[f - 1] \o [k \in DOMAIN contents[f] |-> <<f, contents[f][k]>>]
  IN  upTo[Len(files)]

(* The end of section s when the first n objects are in its buffer. The    *)
(* BSS section has no buffer; link_elfobj counted its size the same way.   *)
Gathered(s, order) ==
  LET end[n \in 0 .. Len(order)] ==
        IF n = 0 THEN 0
        ELSE IF s \notin Sized(order[n]) THEN end[n - 1]
        ELSE ALIGN(end[n - 1], Obj(order[n]).sect[s].align) + Obj(order[n]).sect[s].size
  IN  end

(* fix_section_size and get_section_size: where each section is loaded.    *)
fix_section_size(sz) ==
  LET rodata == ALIGN(START_ADDRESS + sz[0], aligns[1])
      data == ALIGN(rodata + sz[1], aligns[2])
      bss == data + ALIGN(sz[2], aligns[3])
  IN  [s \in Section |-> CASE s = 0 -> START_ADDRESS [] s = 1 -> rodata
                           [] s = 2 -> data [] s = 3 -> bss]

Gather ==
  /\ phase = "gather"
  /\ LET order == GatherOrder
         sz == [s \in Section |-> Gathered(s, order)[Len(order)]]
         load == fix_section_size(sz)
     IN  /\ size' = sz
         /\ pos' = [x \in DOMAIN addr |->
                      LET n == CHOOSE k \in DOMAIN order : order[k] = x[1]
                      IN  load[x[2]] + Gathered(x[2], order)[n] - Obj(x[1]).sect[x[2]].size]
  /\ phase' = "done"
  /\ UNCHANGED <<files, i, unresolved, contents, linked, offsets, aligns, addr, refs>>

----------------------------------------------------------------------------
LdInit ==
  /\ files \in CommandLines
  /\ i = 1
  /\ phase = "link"
  /\ unresolved = {Entry}
  /\ contents = [f \in DOMAIN files |-> IF files[f].archive THEN <<>> ELSE <<1>>]
  /\ linked = <<>>
  /\ offsets = [s \in Section |-> 0]
  /\ aligns = [s \in Section |-> IF s = SEC_DATA THEN DATA_ALIGN ELSE 1]
  /\ addr = <<>>
  /\ refs = <<>>
  /\ pos = <<>>
  /\ size = [s \in Section |-> 0]

LdNext ==
  \/ LinkObject
  \/ \E name \in unresolved : LinkMember(name)
  \/ LinkArchiveEnd \/ LinkEnd \/ Layout \/ resolve_relas \/ Gather

LdSpec == LdInit /\ [][LdNext]_vars

(* One sequential process that runs until it exits.                        *)
LdFairSpec == LdSpec /\ WF_vars(LdNext)

----------------------------------------------------------------------------
(***************************************************************************)
(* Properties.                                                             *)
(***************************************************************************)
Linked == {linked[k] : k \in DOMAIN linked}

(* The assert of resolve_rela_elfobj (tsym != NULL) can rely on link_files *)
(* having counted right: when relocations are resolved, each name that a   *)
(* linked object refers to, and the entry, is defined by an object that is *)
(* linked too. Until then a name that is missing is in the table.          *)
LinkComplete ==
  /\ \A o \in Linked : \A n \in Obj(o).undefs :
       Found(n, contents) \/ n \in unresolved
  /\ Found(Entry, contents) \/ Entry \in unresolved
  /\ phase \in {"layout", "relocate", "gather", "done"} =>
       /\ unresolved = {}
       /\ \A f \in DOMAIN files : Members(f) \subseteq Linked

(* link_archive does not stop early, and a failure is not its fault: a     *)
(* name that is unresolved is defined by nothing that is loaded (the entry *)
(* may be in an object still to come), and an archive that was passed and  *)
(* has the name was passed before any reference to it.                     *)
UnresolvedIsMissing ==
  \A n \in unresolved :
    /\ n # Entry \/ i > Len(files) => ~ Found(n, contents)
    /\ \A f \in 1 .. i - 1 : files[f].archive /\ n \in DOMAIN files[f].index =>
         n # Entry /\ \A o \in Linked : n \in Obj(o).undefs => o[1] > f

(* load_archive_elfobj and link_elfobj: no object is linked twice, and an  *)
(* archive's member only if it defines the entry, or a name that an object *)
(* linked before it refers to and none linked before it defines.           *)
LinkedOnceByNeed ==
  \A k \in DOMAIN linked :
    /\ \A j \in 1 .. k - 1 : linked[j] # linked[k]
    /\ files[linked[k][1]].archive =>
         \E n \in DOMAIN Obj(linked[k]).defs :
           \/ n = Entry
           \/ /\ \E j \in 1 .. k - 1 : n \in Obj(linked[j]).undefs
              /\ \A j \in 1 .. k - 1 : n \notin DOMAIN Obj(linked[j]).defs

(* The two passes agree: add_elfobj_sections puts every section's contents *)
(* where link_elfobj and link_files promised, after fix_section_size gave  *)
(* the sections their addresses a second time; the sections do not         *)
(* overlap, are aligned, and what is stored for a reference is where an    *)
(* object that defines the name came to be.                                *)
ImageAsLaidOut ==
  phase = "done" =>
    /\ pos = addr
    /\ \A x, y \in DOMAIN pos : x # y =>
         \/ pos[x] + Obj(x[1]).sect[x[2]].size <= pos[y]
         \/ pos[y] + Obj(y[1]).sect[y[2]].size <= pos[x]
    /\ \A x \in DOMAIN pos : pos[x] % Obj(x[1]).sect[x[2]].align = 0
    /\ \A r \in DOMAIN refs : \E d \in Linked :
         /\ r[2] \in DOMAIN Obj(d).defs
         /\ refs[r] = pos[<<d, Obj(d).defs[r[2]]>>]

(* link_archive's loops end, whatever the archives refer to, and so does   *)
(* the linker.                                                             *)
LinkEnds == <>(phase \in {"done", "failed"})
=============================================================================
