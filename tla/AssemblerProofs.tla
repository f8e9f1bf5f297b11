-------------------------- MODULE AssemblerProofs --------------------------
(***************************************************************************)
(* Proofs about the assembler, for every source and every start address.   *)
(*                                                                         *)
(* That its loop ends on a consistent layout (SettledTheorem): the layout  *)
(* is a function of the items, the set of long jumps and the alignments    *)
(* (Addresses, SectionStarts, LabelAddress); this proof never looks into   *)
(* these functions. It only needs that in the last round none of their     *)
(* arguments changed after calc_label_address used them.                   *)
(*                                                                         *)
(* That jumps land and the object describes the code (JumpsLandTheorem,    *)
(* ObjectTheorem): PInv says what parsing leaves, and AllLanded that the   *)
(* third pass, which counts from 0 in every section, comes to the places   *)
(* that the first two gave out, item by item.                              *)
(***************************************************************************)
EXTENDS Assembler, NatLemmas, SequenceTheorems, TLAPS

(* A label's record has its fields.                                        *)
LabelsOK ==
  \A l \in DOMAIN labels :
    DOMAIN labels[l] = {"section", "address", "defined", "global"}

(* What calc_label_address leaves behind, for resolve_relative_address.    *)
LabelsPlaced ==
  \A l \in DOMAIN labels :
    labels[l].defined => labels[l].address = LabelAddress(irs, l, address)

Calculated ==
  phase = "resolve" =>
    /\ LabelsPlaced
    /\ settle1 => /\ address = Addresses(irs, long, aligns)
                  /\ starts = SectionStarts(irs, long, aligns)

IInv ==
  /\ LabelsOK
  /\ Calculated
  /\ SettledConsistent

(* The first state has no label and no address yet.                        *)
LEMMA AsmInitIInv == AsmInit => IInv
  BY DEF AsmInit, IInv, LabelsOK, Calculated, SettledConsistent

(* add_label_table keeps the fields of a label's record.                   *)
LEMMA LabelRecords ==
  ASSUME LabelsOK, NEW l, NEW sec, NEW define, NEW global
  PROVE  LET new == add_label_table(l, sec, define, global)
         IN  \A x \in DOMAIN new : DOMAIN new[x] = {"section", "address", "defined", "global"}
  BY DEF LabelsOK, add_label_table, NewLabel

(* Parsing only adds labels.                                               *)
LEMMA ParseIInv == IInv /\ (ParseLine \/ ParseEnd) => IInv'
<1> SUFFICES ASSUME IInv, ParseLine \/ ParseEnd
             PROVE  IInv'
  OBVIOUS
<1>1. phase = "parse" /\ phase' \in {"parse", "calc", "failed"}
  BY DEF ParseLine, ParseEnd
<1>2. Calculated' /\ SettledConsistent'
  BY <1>1 DEF Calculated, SettledConsistent
<1>3. LabelsOK'
  <2>1. CASE ParseEnd
    BY <2>1 DEF ParseEnd, IInv, LabelsOK, parseVars
  <2>2. CASE ParseLine
    <3>1. \/ labels' = labels
          \/ \E l, sec, define, global : labels' = add_label_table(l, sec, define, global)
      BY <2>2 DEF ParseLine
    <3>2. CASE labels' = labels
      BY <3>2 DEF IInv, LabelsOK
    <3>3. CASE \E l, sec, define, global : labels' = add_label_table(l, sec, define, global)
      BY <3>3, LabelRecords DEF IInv, LabelsOK
    <3>. QED  BY <3>1, <3>2, <3>3
  <2>. QED  BY <2>1, <2>2
<1>. QED  BY <1>2, <1>3 DEF IInv

(* After calc_label_address the labels are where their items are, and if   *)
(* it settled the layout is that of the lengths and alignments it leaves.  *)
LEMMA CalcIInv == IInv /\ calc_label_address => IInv'
<1> SUFFICES ASSUME IInv, calc_label_address
             PROVE  IInv'
  OBVIOUS
<1>1. /\ phase' = "resolve" /\ irs' = irs /\ long' = long
      /\ address' = Addresses(irs, long, aligns)
      /\ starts' = SectionStarts(irs, long, aligns)
      /\ labels' = PlacedLabels(address')
      /\ settle1' = (aligns' = aligns)
  BY DEF calc_label_address
<1>2. \A l \in DOMAIN labels :
        labels'[l] = IF labels[l].defined
                     THEN [labels[l] EXCEPT !.address = LabelAddress(irs, l, address')]
                     ELSE labels[l]
  BY <1>1 DEF PlacedLabels
<1>3. DOMAIN labels' = DOMAIN labels
  BY <1>1 DEF PlacedLabels
<1>4. LabelsOK'
  BY <1>2, <1>3 DEF IInv, LabelsOK
<1>5. LabelsPlaced'
  <2> SUFFICES ASSUME NEW l \in DOMAIN labels, labels'[l].defined
               PROVE  labels'[l].address = LabelAddress(irs, l, address')
    BY <1>1, <1>3 DEF LabelsPlaced
  <2>1. DOMAIN labels[l] = {"section", "address", "defined", "global"}
    BY DEF IInv, LabelsOK
  <2>2. labels[l].defined
    BY <1>2, <2>1
  <2>. QED  BY <1>2, <2>1, <2>2
<1>6. Calculated'
  <2>1. settle1' => aligns' = aligns
    BY <1>1
  <2>2. settle1' => /\ address' = Addresses(irs', long', aligns')
                    /\ starts' = SectionStarts(irs', long', aligns')
    BY <1>1, <2>1
  <2>. QED  BY <1>5, <2>2 DEF Calculated
<1>7. SettledConsistent'
  BY <1>1 DEF SettledConsistent
<1>. QED  BY <1>4, <1>6, <1>7 DEF IInv

(* The loop is left only when no jump became long: the displacements were  *)
(* computed from the layout that calc_label_address left.                  *)
LEMMA ResolveIInv == IInv /\ resolve_relative_address => IInv'
<1> SUFFICES ASSUME IInv, resolve_relative_address
             PROVE  IInv'
  OBVIOUS
<1>1. /\ phase = "resolve"
      /\ irs' = irs /\ labels' = labels /\ address' = address /\ aligns' = aligns
      /\ starts' = starts /\ settle1' = settle1
      /\ long' = long \cup MadeLong
      /\ phase' = IF Settled THEN "emit" ELSE "calc"
  BY DEF resolve_relative_address, parseVars
<1>2. LabelsOK'
  BY <1>1 DEF IInv, LabelsOK
<1>3. Calculated'
  BY <1>1 DEF Calculated
<1>4. SettledConsistent'
  <2>1. CASE ~ Settled
    BY <1>1, <2>1 DEF SettledConsistent
  <2>2. CASE Settled
    <3>1. MadeLong = {} /\ settle1 /\ long' = long
      BY <1>1, <2>2 DEF Settled
    <3>2. /\ address' = Addresses(irs, long, aligns)'
          /\ starts' = SectionStarts(irs, long, aligns)'
      BY <1>1, <3>1 DEF IInv, Calculated
    <3>3. \A l \in DOMAIN labels' :
            labels'[l].defined => labels'[l].address = LabelAddress(irs, l, address)'
      BY <1>1 DEF IInv, Calculated, LabelsPlaced
    <3>4. ASSUME NEW p \in Items,
                 Item(p).k \in {"JMP", "JCC", "CALL", "LEA"},
                 ~ External(p), ~ OtherSection(p)
          PROVE  /\ disp'[p] = Offset(p)
                 /\ IsJump(p) /\ p \notin long => is_im8(disp'[p])
      <4>1. Patched(p)
        BY <3>1, <3>4 DEF Patched
      <4>2. disp'[p] = Offset(p)
        BY <3>1, <4>1 DEF resolve_relative_address
      <4>3. IsJump(p) /\ p \notin long => is_im8(Offset(p))
        BY <3>1, <3>4 DEF MadeLong
      <4>. QED  BY <4>2, <4>3
    <3>5. Items' = Items
      BY <1>1 DEF Items
    <3>6. ASSUME NEW p \in Items
          PROVE  /\ Item(p)' = Item(p)
                 /\ External(p)' = External(p)
                 /\ OtherSection(p)' = OtherSection(p)
                 /\ IsJump(p)' = IsJump(p)
                 /\ Offset(p)' = Offset(p)
      BY <1>1, <3>1 DEF Item, External, OtherSection, IsJump, Offset
    <3>. QED  BY <3>1, <3>2, <3>3, <3>4, <3>5, <3>6 DEF SettledConsistent
  <2>. QED  BY <2>1, <2>2
<1>. QED  BY <1>2, <1>3, <1>4 DEF IInv

(* Writing the object file changes nothing of the layout.                  *)
LEMMA OutputIInv == IInv /\ (emit_irs \/ output_obj) => IInv'
<1> SUFFICES ASSUME IInv, emit_irs \/ output_obj
             PROVE  IInv'
  OBVIOUS
<1>1. /\ phase \in {"emit", "output"} /\ phase' \in {"output", "done"}
      /\ irs' = irs /\ labels' = labels /\ address' = address /\ aligns' = aligns
      /\ starts' = starts /\ settle1' = settle1 /\ long' = long /\ disp' = disp
  BY DEF emit_irs, output_obj, parseVars
<1>. QED
  BY <1>1 DEF IInv, LabelsOK, Calculated, SettledConsistent, Items, Item, External,
              OtherSection, IsJump, Offset

(* A step of something else changes nothing that the invariant looks at.   *)
LEMMA StutterIInv == IInv /\ UNCHANGED vars => IInv'
  BY DEF IInv, LabelsOK, Calculated, LabelsPlaced, SettledConsistent, Items, Item, External,
         OtherSection, IsJump, Offset, vars

(* The loop of the assembler's main (as.c:481-486) ends only on a layout   *)
(* in which addresses, labels and displacements agree with the final jump  *)
(* lengths and alignments, and every short jump is short enough: for every *)
(* source and start address.                                               *)
THEOREM SettledTheorem == AsmSpec => []SettledConsistent
<1>1. AsmInit => IInv
  BY AsmInitIInv
<1>2. IInv /\ [AsmNext]_vars => IInv'
  BY ParseIInv, CalcIInv, ResolveIInv, OutputIInv, StutterIInv DEF AsmNext
<1>3. IInv => SettledConsistent
  BY DEF IInv
<1>. QED  BY <1>1, <1>2, <1>3, PTL DEF AsmSpec

----------------------------------------------------------------------------
(***************************************************************************)
(* What parsing leaves: the items, and for each label one place.           *)
(***************************************************************************)

(* The items that lines become.                                            *)
ItemKind == {"LABEL", "ALIGN", "CODE", "BYTES", "BSS", "JMP", "JCC", "CALL", "LEA", "QUAD"}

ItemRecord ==
  [k : ItemKind \ {"ALIGN"}, n : Nat, l : Labels \cup {NoLabel}]
  \cup [k : {"ALIGN"}, n : Alignments, l : {NoLabel}]

Parsing ==
  /\ src \in Seq(Line)
  /\ cur_sec \in Section
  /\ irs \in [Section -> Seq(ItemRecord)]
  /\ err \in BOOLEAN
  /\ phase \notin {"parse", "failed"} => src = <<>> /\ ~ err

(* Lines still to come that define l.                                      *)
Known(l) == AlreadyDefined(l) \/ \E j \in DOMAIN src : Defines(src[j], l)

(* l is, or will be, in section sec.                                       *)
TargetIn(l, sec) ==
  /\ AlreadyDefined(l) => labels[l].section = sec
  /\ \A j \in DOMAIN src : Defines(src[j], l) => SectionOf(cur_sec, src, j) = sec

(* SourcesAssumption, for what is left of the source and what was made of  *)
(* the rest.                                                               *)
CommonFresh ==
  \A j \in DOMAIN src : src[j].k = "COMM" =>
    /\ ~ AlreadyDefined(src[j].l)
    /\ \A m \in DOMAIN src : Defines(src[m], src[j].l) => m = j

AllKnown ==
  /\ \A l \in DOMAIN labels : Known(l)
  /\ \A j \in DOMAIN src : src[j].k \in {"GLOBL", "JCC"} => Known(src[j].l)
  /\ \A p \in Items : Item(p).k = "JCC" => Known(Item(p).l)

LocalJumps ==
  /\ \A j \in DOMAIN src : src[j].k \in {"JMP", "JCC", "CALL"} =>
       TargetIn(src[j].l, SectionOf(cur_sec, src, j))
  /\ \A p \in Items : Item(p).k \in {"JMP", "JCC", "CALL"} => TargetIn(Item(p).l, p[1])

IsPlace(p, l) == Item(p).k = "LABEL" /\ Item(p).l = l

(* A defined label has its item in its section, and no other one.          *)
OnePlace ==
  /\ \A l : AlreadyDefined(l) => \E p \in Items : IsPlace(p, l) /\ p[1] = labels[l].section
  /\ \A l : \A p \in Items : IsPlace(p, l) => AlreadyDefined(l)
  /\ \A l : \A p, q \in Items : IsPlace(p, l) /\ IsPlace(q, l) => p = q

PInv ==
  /\ Parsing
  /\ LabelsOK
  /\ CommonFresh
  /\ AllKnown
  /\ LocalJumps
  /\ ~ err => OnePlace

(* The largest of the numbers up to n with a property.                     *)
LEMMA MaxOfIs ==
  ASSUME NEW n \in Nat, NEW S \in SUBSET (1 .. n), S # {}
  PROVE  MaxOf(S) \in S /\ \A y \in S : y <= MaxOf(S)
<1> DEFINE T == {n - y : y \in S}
<1>1. T \in SUBSET Nat /\ T # {}
  <2>1. \A y \in S : n - y \in Nat
    OBVIOUS
  <2> QED
    BY <2>1
<1>2. PICK m \in T : \A y \in T : m <= y
  BY <1>1, LeastNat
<1>3. PICK x \in S : m = n - x
  OBVIOUS
<1>4. \A y \in S : y <= x
  <2> SUFFICES ASSUME NEW y \in S PROVE y <= x
    OBVIOUS
  <2>1. n - y \in T
    OBVIOUS
  <2>2. n - x <= n - y
    BY <1>2, <1>3, <2>1
  <2> QED
    BY <2>2
<1> QED
  BY <1>4 DEF MaxOf

(* MaxOf is that number.                                                   *)
LEMMA MaxOfUnique ==
  ASSUME NEW n \in Nat, NEW S \in SUBSET (1 .. n), NEW x \in S, \A y \in S : y <= x
  PROVE  MaxOf(S) = x
<1>1. S # {}
  OBVIOUS
<1>2. MaxOf(S) \in S /\ \A y \in S : y <= MaxOf(S)
  BY <1>1, MaxOfIs
<1>3. x <= MaxOf(S) /\ MaxOf(S) <= x
  BY <1>2
<1>4. x \in 1 .. n /\ MaxOf(S) \in 1 .. n
  BY <1>2
<1> QED
  BY <1>3, <1>4

(* The current section goes on from line to line: what is left of a source *)
(* has its sections from where the first line leaves off.                  *)
LEMMA SectionOfTail ==
  ASSUME NEW s \in Seq(Line), s # <<>>, NEW sec, NEW j \in 1 .. Len(Tail(s))
  PROVE  SectionOf(IF Head(s).k \in DOMAIN Opens THEN Opens[Head(s).k] ELSE sec, Tail(s), j)
           = SectionOf(sec, s, j + 1)
<1> DEFINE t == Tail(s)
           op == {m \in 1 .. j : t[m].k \in DOMAIN Opens}
           os == {m \in 1 .. j + 1 : s[m].k \in DOMAIN Opens}
           first == IF Head(s).k \in DOMAIN Opens THEN Opens[Head(s).k] ELSE sec
<1>1. /\ Len(s) \in Nat \ {0} /\ Len(t) = Len(s) - 1 /\ Head(s) = s[1]
      /\ \A m \in 1 .. Len(t) : t[m] = s[m + 1]
  OBVIOUS
<1>2. \A m \in 1 .. j : m \in op <=> m + 1 \in os
  BY <1>1
<1>3. 1 \in os <=> Head(s).k \in DOMAIN Opens
  BY <1>1
<1>4. t[j] = s[j + 1] /\ op \in SUBSET (1 .. j) /\ os \in SUBSET (1 .. j + 1) /\ j \in Nat
  BY <1>1
<1> HIDE DEF op, os
<1>5. \A m \in op : t[m] = s[m + 1]
  <2> SUFFICES ASSUME NEW m \in op PROVE t[m] = s[m + 1]
    OBVIOUS
  <2>1. m \in 1 .. j /\ j \in 1 .. Len(t) /\ Len(t) \in Nat
    BY <1>1, <1>4
  <2>2. m \in 1 .. Len(t)
    BY <2>1
  <2> QED
    BY <1>1, <2>2
<1> USE DEF op, os
<1>8. CASE op = {} /\ os = {}
  BY <1>3, <1>4, <1>8 DEF SectionOf
<1>6. CASE op = {} /\ os # {}
  <2>1. os = {1}
    <3> SUFFICES ASSUME NEW m \in os, m # 1 PROVE FALSE
      BY <1>6
    <3>1. m - 1 \in 1 .. j /\ (m - 1) + 1 = m
      BY <1>4
    <3> QED
      BY <1>2, <1>6, <3>1
  <2>2. MaxOf(os) = 1 /\ 1 \in os
    <3>1. j + 1 \in Nat /\ 1 \in os /\ \A y \in os : y <= 1
      BY <1>4, <2>1
    <3> HIDE DEF os
    <3> QED
      BY <1>4, <3>1, MaxOfUnique
  <2>3. first = Opens[s[MaxOf(os)].k]
    BY <1>1, <1>3, <2>2
  <2> HIDE DEF op, os, first
  <2>4. SectionOf(first, t, j) = IF t[j].k = "COMM" THEN SEC_BSS ELSE first
    BY <1>6 DEF SectionOf, op
  <2>5. SectionOf(sec, s, j + 1) = IF s[j + 1].k = "COMM" THEN SEC_BSS
                                   ELSE Opens[s[MaxOf(os)].k]
    BY <1>6 DEF SectionOf, os
  <2> QED
    BY <1>4, <2>3, <2>4, <2>5 DEF first
<1>7. CASE op # {}
  <2>1. PICK m : m = MaxOf(op) /\ m \in op /\ \A y \in op : y <= m
    BY <1>4, <1>7, MaxOfIs
  <2>2. m + 1 \in os /\ \A y \in os : y <= m + 1
    <3> HIDE DEF op, os
    <3>1. m \in 1 .. j /\ m + 1 \in os
      BY <1>2, <1>4, <2>1
    <3>2. ASSUME NEW y \in os, m + 1 < y PROVE FALSE
      <4>1. y \in 1 .. j + 1
        BY <1>4
      <4>2. y - 1 \in 1 .. j /\ (y - 1) + 1 = y /\ m < y - 1
        BY <1>4, <3>1, <3>2, <4>1
      <4>3. y - 1 \in op
        BY <1>2, <4>2
      <4>4. y - 1 <= m
        BY <2>1, <4>3
      <4> QED
        BY <3>1, <4>2, <4>4
    <3>3. \A y \in os : y \in Nat /\ m + 1 \in Nat
      BY <1>4, <3>1
    <3> QED
      BY <3>1, <3>2, <3>3
  <2>3. MaxOf(os) = m + 1
    <3>1. j + 1 \in Nat
      BY <1>4
    <3> HIDE DEF op, os
    <3> QED
      BY <1>4, <2>2, <3>1, MaxOfUnique
  <2>4. t[m] = s[m + 1]
    BY <1>5, <2>1
  <2>5. os # {}
    BY <2>2
  <2> HIDE DEF op, os
  <2>6. SectionOf(first, t, j) = IF t[j].k = "COMM" THEN SEC_BSS ELSE Opens[t[m].k]
    BY <1>7, <2>1 DEF SectionOf, op
  <2>7. SectionOf(sec, s, j + 1) = IF s[j + 1].k = "COMM" THEN SEC_BSS ELSE Opens[s[m + 1].k]
    BY <2>3, <2>5 DEF SectionOf, os
  <2> QED
    BY <1>4, <2>4, <2>6, <2>7 DEF first
<1> QED
  BY <1>6, <1>7, <1>8

(* What a line does to the label table.                                    *)
LEMMA LabelStep ==
  ASSUME PInv, ParseLine, NEW line, line = Head(src)
  PROVE  /\ \A l : AlreadyDefined(l)' <=> AlreadyDefined(l) \/ Defines(line, l)
         /\ \A l : AlreadyDefined(l) => labels'[l].section = labels[l].section
         /\ \A l : Defines(line, l) /\ ~ AlreadyDefined(l) =>
              labels'[l].section = LabelSection(line)
         /\ \A l \in DOMAIN labels' :
              l \in DOMAIN labels \/ Defines(line, l) \/ (line.k = "GLOBL" /\ line.l = l)
         /\ err' = (err \/ (line.k = "LABEL" /\ AlreadyDefined(line.l)))
         /\ LabelsOK'
<1> DEFINE defines == line.k \in {"LABEL", "COMM"}
           twice == defines /\ AlreadyDefined(line.l)
           new == add_label_table(line.l, LabelSection(line), defines, line.k = "GLOBL")
<1>1. /\ labels' = IF twice \/ ~ (defines \/ line.k = "GLOBL") THEN labels ELSE new
      /\ err' = (err \/ (twice /\ line.k = "LABEL"))
  BY DEF ParseLine
<1>2. \A l : Defines(line, l) <=> defines /\ l = line.l
  BY DEF Defines
<1>3. LabelsOK
  BY DEF PInv
<1>4. LabelsOK'
  BY <1>1, <1>3, LabelRecords DEF LabelsOK
<1>5. err' = (err \/ (line.k = "LABEL" /\ AlreadyDefined(line.l)))
  BY <1>1
<1>6. CASE labels' = labels /\ (twice \/ ~ defines)
  BY <1>2, <1>4, <1>5, <1>6 DEF AlreadyDefined
<1>7. CASE labels' = new /\ ~ twice /\ (defines \/ line.k = "GLOBL")
  <2>1. DOMAIN new = DOMAIN labels \cup {line.l}
    BY DEF add_label_table
  <2>2. \A l \in DOMAIN labels : l # line.l => new[l] = labels[l]
    BY DEF add_label_table
  <2>3. line.l \in DOMAIN labels =>
          /\ new[line.l].section = IF defines THEN LabelSection(line) ELSE labels[line.l].section
          /\ new[line.l].defined <=> labels[line.l].defined \/ defines
    BY <1>3 DEF add_label_table, LabelsOK
  <2>4. line.l \notin DOMAIN labels =>
          /\ new[line.l].section = LabelSection(line)
          /\ new[line.l].defined <=> defines
    BY DEF add_label_table, NewLabel
  <2> HIDE DEF new
  <2>5. \A l : AlreadyDefined(l)' <=> l \in DOMAIN new /\ new[l].defined
    BY <1>7 DEF AlreadyDefined
  <2>6. \A l : l = line.l => (AlreadyDefined(l)' <=> AlreadyDefined(l) \/ defines)
    BY <2>1, <2>3, <2>4, <2>5 DEF AlreadyDefined
  <2>7. \A l : l # line.l => (AlreadyDefined(l)' <=> AlreadyDefined(l))
    BY <2>1, <2>2, <2>5 DEF AlreadyDefined
  <2>8. \A l : AlreadyDefined(l) => labels'[l].section = labels[l].section
    BY <1>7, <2>2, <2>3 DEF AlreadyDefined
  <2>9. defines => labels'[line.l].section = LabelSection(line)
    BY <1>7, <2>3, <2>4
  <2>10. \A l \in DOMAIN labels' : l \in DOMAIN labels \/ l = line.l
    BY <1>7, <2>1
  <2> HIDE DEF defines, twice
  <2> QED
    BY <1>2, <1>4, <1>5, <1>7, <2>6, <2>7, <2>8, <2>9, <2>10 DEF defines
<1> QED
  BY <1>1, <1>6, <1>7

(* Items are put behind those of their section.                            *)
Pushed(ir, sec, new) ==
  /\ ir \in [Section -> Seq(ItemRecord)]
  /\ \A p \in Items : p \in ItemsOf(ir) /\ ir[p[1]][p[2]] = Item(p)
  /\ \A m \in DOMAIN new :
       /\ <<sec, Len(irs[sec]) + m>> \in ItemsOf(ir) \ Items
       /\ ir[sec][Len(irs[sec]) + m] = new[m]
  /\ \A p \in ItemsOf(ir) \ Items : \E m \in DOMAIN new : p = <<sec, Len(irs[sec]) + m>>

(* Push does that.                                                         *)
LEMMA PushIs ==
  ASSUME irs \in [Section -> Seq(ItemRecord)], NEW sec \in Section,
         NEW new \in Seq(ItemRecord), NEW ir, ir = Push(sec, new)
  PROVE  Pushed(ir, sec, new)
<1> DEFINE n == Len(irs[sec])
<1>1. /\ ir[sec] = irs[sec] \o new /\ \A s \in Section \ {sec} : ir[s] = irs[s]
      /\ DOMAIN ir = Section /\ irs[sec] \in Seq(ItemRecord)
  BY DEF Push
<1>2. ir[sec] \in Seq(ItemRecord)
  BY <1>1, ConcatProperties
<1>3. ir \in [Section -> Seq(ItemRecord)]
  <2>1. ir = [s \in Section |-> ir[s]]
    BY DEF Push
  <2>2. \A s \in Section : ir[s] \in Seq(ItemRecord)
    BY <1>1, <1>2
  <2> QED
    BY <2>1, <2>2
<1>4. /\ n \in Nat /\ Len(new) \in Nat /\ Len(ir[sec]) = n + Len(new)
      /\ \A k \in 1 .. n : ir[sec][k] = irs[sec][k]
      /\ \A m \in 1 .. Len(new) : ir[sec][n + m] = new[m]
  BY <1>1, ConcatProperties
<1>5. /\ DOMAIN ir[sec] = 1 .. Len(ir[sec]) /\ DOMAIN irs[sec] = 1 .. n
      /\ DOMAIN new = 1 .. Len(new)
  BY <1>1, <1>2
<1>6. \A p : p \in Items <=> \E s \in Section : \E k \in DOMAIN irs[s] : p = <<s, k>>
  BY DEF Items, ItemsOf
<1>7. \A p : p \in ItemsOf(ir) <=> \E s \in Section : \E k \in DOMAIN ir[s] : p = <<s, k>>
  BY DEF ItemsOf
<1>8. ASSUME NEW p \in Items
      PROVE  p \in ItemsOf(ir) /\ ir[p[1]][p[2]] = Item(p)
  <2>1. PICK s \in Section : \E k \in DOMAIN irs[s] : p = <<s, k>>
    BY <1>6
  <2>2. CASE s = sec
    BY <1>4, <1>5, <1>7, <2>1, <2>2 DEF Item
  <2>3. CASE s # sec
    BY <1>1, <1>7, <2>1, <2>3 DEF Item
  <2> QED
    BY <2>2, <2>3
<1>9. ASSUME NEW m \in DOMAIN new
      PROVE  <<sec, n + m>> \in ItemsOf(ir) \ Items
  <2>1. n + m \in DOMAIN ir[sec] /\ n + m \notin DOMAIN irs[sec]
    BY <1>4, <1>5
  <2> QED
    BY <1>6, <1>7, <2>1
<1>10. ASSUME NEW p \in ItemsOf(ir), p \notin Items
       PROVE  \E m \in DOMAIN new : p = <<sec, n + m>>
  <2>1. PICK s \in Section : \E k \in DOMAIN ir[s] : p = <<s, k>>
    BY <1>7
  <2>2. PICK k \in DOMAIN ir[s] : p = <<s, k>>
    BY <2>1
  <2>3. s = sec
    BY <1>1, <1>6, <1>10, <2>2
  <2>4. k \notin DOMAIN irs[sec]
    BY <1>6, <1>10, <2>2, <2>3
  <2>5. k - n \in DOMAIN new /\ k = n + (k - n)
    BY <1>4, <1>5, <2>2, <2>3, <2>4
  <2> QED
    BY <2>2, <2>3, <2>5
<1> QED
  BY <1>3, <1>4, <1>5, <1>8, <1>9, <1>10 DEF Pushed

(* What a line does to the items.                                          *)
IsNew(p) == p \in Items' /\ p \notin Items

ItemsAfter(line) ==
  /\ irs' \in [Section -> Seq(ItemRecord)]
  /\ \A p \in Items : p \in Items' /\ Item(p)' = Item(p)
  /\ \A p : IsNew(p) =>
       \/ /\ Item(p)' = line /\ p[1] = cur_sec
          /\ line.k \notin {"COMM", "GLOBL"} \cup DOMAIN Opens
       \/ /\ line.k = "COMM" /\ p[1] = SEC_BSS
          /\ Item(p)'.k \in {"ALIGN", "LABEL", "BSS"}
          /\ Item(p)'.k = "LABEL" => Item(p)'.l = line.l
  /\ line.k \in {"LABEL", "COMM"} =>
       \E p : /\ IsNew(p) /\ p[1] = LabelSection(line)
              /\ Item(p)'.k = "LABEL" /\ Item(p)'.l = line.l
  /\ \A p, q : IsNew(p) /\ IsNew(q) /\ Item(p)'.k = "LABEL" /\ Item(q)'.k = "LABEL" => p = q

(* It adds its own, if it has one.                                         *)
LEMMA ItemStep ==
  ASSUME PInv, ParseLine, NEW line, line = Head(src)
  PROVE  ItemsAfter(line)
<1>1. /\ irs \in [Section -> Seq(ItemRecord)] /\ src \in Seq(Line) /\ src # <<>>
      /\ cur_sec \in Section
  BY DEF PInv, Parsing, ParseLine
<1>2. line \in Line
  BY <1>1
<1>3. /\ line.k \in LineKind /\ line.n \in Nat
      /\ line.k = "COMM" => line.a \in Alignments /\ line.l \in Labels
      /\ line.k = "ALIGN" => line.n \in Alignments
      /\ line.k # "COMM" => line \in [k : LineKind \ {"COMM", "ALIGN"}, n : Nat, l : Labels \cup {NoLabel}]
                                       \cup [k : {"ALIGN"}, n : Alignments, l : {NoLabel}]
  BY <1>2, AssemblerAssumption DEF Line, LineKind
<1>4. DOMAIN Opens = {"TEXT", "RODATA", "DATA"}
  BY DEF Opens
<1>5. SEC_BSS \in Section
  BY DEF SEC_BSS, Section
<1>6. Items' = ItemsOf(irs')
  BY DEF Items
<1>7. \A p : Item(p)' = irs'[p[1]][p[2]]
  BY DEF Item
<1>8. CASE line.k \in DOMAIN Opens \cup {"GLOBL"}
  <2>1. irs' = irs
    <3>1. line.k \in {"TEXT", "RODATA", "DATA", "GLOBL"}
      BY <1>4, <1>8
    <3> QED
      BY <1>4, <3>1 DEF ParseLine
  <2>2. Items' = Items /\ line.k \notin {"LABEL", "COMM"}
    BY <1>4, <1>6, <1>8, <2>1 DEF Items
  <2> QED
    BY <1>1, <1>7, <2>1, <2>2 DEF IsNew, Item, ItemsAfter
<1>9. CASE line.k = "COMM"
  <2> DEFINE al == [k |-> "ALIGN", n |-> line.a, l |-> NoLabel]
             lb == [k |-> "LABEL", n |-> 0, l |-> line.l]
             bs == [k |-> "BSS", n |-> line.n, l |-> NoLabel]
             pad == IF line.a > 1 THEN <<al>> ELSE <<>>
             new == pad \o <<lb, bs>>
             place == Len(pad) + 1
  <2>1. irs' = Push(SEC_BSS, new)
    BY <1>4, <1>9 DEF ParseLine
  <2>2. al \in ItemRecord /\ lb \in ItemRecord /\ bs \in ItemRecord
    BY <1>3, <1>9 DEF ItemRecord, ItemKind
  <2>3. al.k = "ALIGN" /\ lb.k = "LABEL" /\ lb.l = line.l /\ bs.k = "BSS"
    OBVIOUS
  <2> HIDE DEF al, lb, bs
  <2>4. /\ new \in Seq(ItemRecord) /\ place \in DOMAIN new /\ new[place] = lb
        /\ \A m \in DOMAIN new : m = place \/ new[m] = al \/ new[m] = bs
    <3>1. /\ pad \in Seq(ItemRecord) /\ Len(pad) \in Nat
          /\ \A m \in 1 .. Len(pad) : pad[m] = al
      BY <2>2
    <3> DEFINE two == <<lb, bs>>
    <3>2. two \in Seq(ItemRecord) /\ Len(two) = 2 /\ two[1] = lb /\ two[2] = bs
      BY <2>2
    <3> HIDE DEF pad, two
    <3>3. /\ new \in Seq(ItemRecord) /\ Len(new) = Len(pad) + 2
          /\ \A m \in 1 .. Len(pad) : new[m] = pad[m]
          /\ \A m \in 1 .. Len(two) : new[Len(pad) + m] = two[m]
      BY <3>1, <3>2, ConcatProperties DEF two
    <3>4. DOMAIN new = 1 .. Len(pad) + 2
      BY <3>1, <3>3
    <3>5. new[Len(pad) + 1] = lb /\ new[Len(pad) + 2] = bs
      BY <3>2, <3>3
    <3> HIDE DEF new
    <3>6. \A m \in DOMAIN new :
            m \in 1 .. Len(pad) \/ m = Len(pad) + 1 \/ m = Len(pad) + 2
      BY <3>1, <3>4
    <3>7. place \in DOMAIN new
      BY <3>1, <3>4
    <3> QED
      BY <3>1, <3>3, <3>5, <3>6, <3>7
  <2> HIDE DEF new, place
  <2> DEFINE n == Len(irs[SEC_BSS])
  <2>5. /\ irs' \in [Section -> Seq(ItemRecord)]
        /\ \A p \in Items : p \in ItemsOf(irs') /\ irs'[p[1]][p[2]] = Item(p)
        /\ \A m \in DOMAIN new :
              /\ <<SEC_BSS, n + m>> \in ItemsOf(irs') \ Items
              /\ irs'[SEC_BSS][n + m] = new[m]
        /\ \A p \in ItemsOf(irs') \ Items : \E m \in DOMAIN new : p = <<SEC_BSS, n + m>>
    <3>1. Pushed(irs', SEC_BSS, new)
      BY <1>1, <1>5, <2>1, <2>4, PushIs
    <3> QED
      BY <3>1 DEF Pushed
  <2> HIDE DEF n
  <2> DEFINE here == <<SEC_BSS, n + place>>
  <2>14. here[1] = SEC_BSS /\ here[2] = n + place
    OBVIOUS
  <2> HIDE DEF here
  <2>6. ASSUME NEW p, IsNew(p)
        PROVE  /\ p[1] = SEC_BSS
               /\ \/ p = here /\ Item(p)' = lb
                  \/ Item(p)' = al
                  \/ Item(p)' = bs
    <3>1. PICK m \in DOMAIN new : p = <<SEC_BSS, n + m>>
      BY <1>6, <2>5, <2>6 DEF IsNew
    <3>2. Item(p)' = new[m] /\ p[1] = SEC_BSS
      BY <1>7, <2>5, <3>1
    <3> QED
      BY <2>4, <3>1, <3>2 DEF here
  <2>7. IsNew(here) /\ irs'[here[1]][here[2]] = lb
    <3>1. here \in ItemsOf(irs') \ Items
      BY <2>4, <2>5 DEF here
    <3>2. irs'[here[1]][here[2]] = lb
      BY <2>4, <2>5, <2>14
    <3> QED
      BY <1>6, <3>1, <3>2 DEF IsNew
  <2>8. LabelSection(line) = SEC_BSS
    BY <1>9 DEF LabelSection
  <2>9. \A p \in Items : p \in Items' /\ Item(p)' = Item(p)
    BY <1>6, <1>7, <2>5
  <2>10. irs'[here[1]][here[2]].k = "LABEL" /\ irs'[here[1]][here[2]].l = line.l
    BY <2>3, <2>7
  <2>11. ASSUME NEW p, IsNew(p)
         PROVE  /\ Item(p)'.k \in {"ALIGN", "LABEL", "BSS"}
                /\ Item(p)'.k = "LABEL" => Item(p)'.l = line.l /\ p = here
    BY <2>3, <2>6, <2>11
  <2>12. \A p : IsNew(p) => line.k = "COMM" /\ p[1] = SEC_BSS
    BY <1>9, <2>6
  <2>13. \E p : /\ IsNew(p) /\ p[1] = LabelSection(line)
                /\ Item(p)'.k = "LABEL" /\ Item(p)'.l = line.l
    BY <1>7, <2>7, <2>8, <2>10, <2>14
  <2> QED
    BY <2>5, <2>9, <2>11, <2>12, <2>13 DEF ItemsAfter
<1>10. CASE line.k \notin DOMAIN Opens \cup {"GLOBL", "COMM"}
  <2>1. irs' = Push(cur_sec, <<line>>)
    BY <1>10 DEF ParseLine
  <2>2. line \in ItemRecord
    BY <1>3, <1>4, <1>10 DEF ItemRecord, ItemKind, LineKind
  <2>3. <<line>> \in Seq(ItemRecord) /\ DOMAIN <<line>> = {1} /\ <<line>>[1] = line
    BY <2>2
  <2> DEFINE n == Len(irs[cur_sec])
  <2>4. /\ irs' \in [Section -> Seq(ItemRecord)]
        /\ \A p \in Items : p \in ItemsOf(irs') /\ irs'[p[1]][p[2]] = Item(p)
        /\ \A m \in DOMAIN <<line>> :
              /\ <<cur_sec, n + m>> \in ItemsOf(irs') \ Items
              /\ irs'[cur_sec][n + m] = <<line>>[m]
        /\ \A p \in ItemsOf(irs') \ Items : \E m \in DOMAIN <<line>> : p = <<cur_sec, n + m>>
    <3>1. Pushed(irs', cur_sec, <<line>>)
      BY <1>1, <2>1, <2>3, PushIs
    <3> QED
      BY <3>1 DEF Pushed
  <2> HIDE DEF n
  <2> DEFINE here == <<cur_sec, n + 1>>
  <2>5. here[1] = cur_sec /\ here[2] = n + 1
    OBVIOUS
  <2> HIDE DEF here
  <2>6. here \in ItemsOf(irs') \ Items /\ irs'[here[1]][here[2]] = line
    <3>1. here \in ItemsOf(irs') \ Items
      BY <2>3, <2>4 DEF here
    <3>2. irs'[here[1]][here[2]] = line
      BY <2>3, <2>4, <2>5
    <3> QED
      BY <3>1, <3>2
  <2>7. \A p : IsNew(p) => p = here
    BY <1>6, <2>3, <2>4 DEF IsNew, here
  <2>8. \A p \in Items : p \in Items' /\ Item(p)' = Item(p)
    BY <1>6, <1>7, <2>4
  <2>9. IsNew(here)
    BY <1>6, <1>7, <2>6 DEF IsNew
  <2>10. line.k = "LABEL" =>
           \E p : /\ IsNew(p) /\ p[1] = LabelSection(line)
                  /\ Item(p)'.k = "LABEL" /\ Item(p)'.l = line.l
    <3>1. line.k = "LABEL" => LabelSection(line) = cur_sec
      BY DEF LabelSection
    <3> QED
      BY <1>7, <2>5, <2>6, <2>9, <3>1
  <2>11. \A p : IsNew(p) => Item(p)' = line /\ p[1] = cur_sec
    BY <1>7, <2>5, <2>6, <2>7
  <2>12. \A p, q : IsNew(p) /\ IsNew(q) => p = q
    BY <2>7
  <2> QED
    BY <1>10, <2>4, <2>8, <2>10, <2>11, <2>12 DEF ItemsAfter
<1> QED
  BY <1>8, <1>9, <1>10

(* Reading a line keeps all that: what was to come is there.               *)
LEMMA ParseLinePInv == PInv /\ ParseLine => PInv'
<1> SUFFICES ASSUME PInv, ParseLine
             PROVE  PInv'
  OBVIOUS
<1> PICK line : line = Head(src)
  OBVIOUS
<1>1. /\ src \in Seq(Line) /\ src # <<>> /\ src' = Tail(src) /\ phase = "parse" /\ phase' = phase
      /\ cur_sec' = IF line.k \in DOMAIN Opens THEN Opens[line.k] ELSE cur_sec
      /\ cur_sec \in Section /\ irs \in [Section -> Seq(ItemRecord)] /\ err \in BOOLEAN
  BY DEF ParseLine, PInv, Parsing
<1>2. /\ src' \in Seq(Line) /\ Len(src) \in Nat \ {0} /\ Len(src') = Len(src) - 1
      /\ DOMAIN src = 1 .. Len(src) /\ DOMAIN src' = 1 .. Len(src')
      /\ line = src[1] /\ \A j \in 1 .. Len(src') : src'[j] = src[j + 1]
  BY <1>1
<1>3. /\ \A j \in DOMAIN src' : j + 1 \in DOMAIN src /\ src'[j] = src[j + 1]
      /\ \A j \in DOMAIN src : j = 1 \/ (j - 1 \in DOMAIN src' /\ src'[j - 1] = src[j])
      /\ 1 \in DOMAIN src
  BY <1>2
<1>4. \A j \in DOMAIN src' : SectionOf(cur_sec', src', j) = SectionOf(cur_sec, src, j + 1)
  BY <1>1, <1>2, SectionOfTail
<1>5. /\ \A l : AlreadyDefined(l)' <=> AlreadyDefined(l) \/ Defines(line, l)
      /\ \A l : AlreadyDefined(l) => labels'[l].section = labels[l].section
      /\ \A l : Defines(line, l) /\ ~ AlreadyDefined(l) =>
           labels'[l].section = LabelSection(line)
      /\ \A l \in DOMAIN labels' :
           l \in DOMAIN labels \/ Defines(line, l) \/ (line.k = "GLOBL" /\ line.l = l)
      /\ err' = (err \/ (line.k = "LABEL" /\ AlreadyDefined(line.l)))
      /\ LabelsOK'
  BY LabelStep
<1>6. /\ irs' \in [Section -> Seq(ItemRecord)]
      /\ \A p \in Items : p \in Items' /\ Item(p)' = Item(p)
      /\ \A p : IsNew(p) =>
           \/ /\ Item(p)' = line /\ p[1] = cur_sec
              /\ line.k \notin {"COMM", "GLOBL"} \cup DOMAIN Opens
           \/ /\ line.k = "COMM" /\ p[1] = SEC_BSS
              /\ Item(p)'.k \in {"ALIGN", "LABEL", "BSS"}
              /\ Item(p)'.k = "LABEL" => Item(p)'.l = line.l
      /\ line.k \in {"LABEL", "COMM"} =>
           \E p : /\ IsNew(p) /\ p[1] = LabelSection(line)
                  /\ Item(p)'.k = "LABEL" /\ Item(p)'.l = line.l
      /\ \A p, q : IsNew(p) /\ IsNew(q) /\ Item(p)'.k = "LABEL" /\ Item(q)'.k = "LABEL"
           => p = q
  <2>1. ItemsAfter(line)
    BY ItemStep
  <2> QED
    BY <2>1 DEF ItemsAfter
<1>7. \A p \in Items' : p \in Items \/ IsNew(p)
  BY DEF IsNew
<1>8. \A l : Defines(line, l) <=> line.k \in {"LABEL", "COMM"} /\ line.l = l
  BY DEF Defines
<1>9. DOMAIN Opens = {"TEXT", "RODATA", "DATA"} /\ \A k \in DOMAIN Opens : Opens[k] \in Section
  BY DEF Opens, Section, SEC_CODE, SEC_RODATA, SEC_DATA
<1>10. Parsing'
  BY <1>1, <1>2, <1>5, <1>6, <1>9 DEF Parsing
<1>11. \A l : Known(l)' <=> Known(l)
  <2> SUFFICES ASSUME NEW l
               PROVE  Known(l)' <=> Known(l)
    OBVIOUS
  <2>1. (\E j \in DOMAIN src : Defines(src[j], l))
          <=> Defines(line, l) \/ \E j \in DOMAIN src' : Defines(src'[j], l)
    BY <1>2, <1>3
  <2>2. AlreadyDefined(l)' <=> AlreadyDefined(l) \/ Defines(line, l)
    BY <1>5
  <2> QED
    BY <2>1, <2>2 DEF Known
<1>12. \A j \in DOMAIN src : Defines(src[j], src[j].l) <=> src[j].k \in {"LABEL", "COMM"}
  BY DEF Defines
<1>13. /\ line.k = "COMM" => LabelSection(line) = SEC_BSS
       /\ line.k # "COMM" => LabelSection(line) = cur_sec
  BY DEF LabelSection
<1>14. /\ line.k = "COMM" => SectionOf(cur_sec, src, 1) = SEC_BSS
       /\ line.k \notin {"COMM"} \cup DOMAIN Opens => SectionOf(cur_sec, src, 1) = cur_sec
  <2>1. \A j \in 1 .. 1 : src[j] = line
    BY <1>2
  <2> QED
    BY <2>1 DEF SectionOf
<1>15. ASSUME NEW l, NEW sec, TargetIn(l, sec)
       PROVE  TargetIn(l, sec)'
  <2>1. \A j \in DOMAIN src' : Defines(src'[j], l) => SectionOf(cur_sec', src', j) = sec
    BY <1>3, <1>4, <1>15 DEF TargetIn
  <2>2. ASSUME AlreadyDefined(l)' PROVE labels'[l].section = sec
    <3>1. CASE AlreadyDefined(l)
      BY <1>5, <1>15, <3>1 DEF TargetIn
    <3>2. CASE ~ AlreadyDefined(l)
      <4>1. Defines(line, l)
        BY <1>5, <2>2, <3>2
      <4>2. SectionOf(cur_sec, src, 1) = sec
        BY <1>2, <1>3, <1>15, <4>1 DEF TargetIn
      <4>3. labels'[l].section = LabelSection(line) /\ line.k \in {"LABEL", "COMM"}
        BY <1>5, <1>8, <3>2, <4>1
      <4> QED
        BY <1>9, <1>13, <1>14, <4>2, <4>3
    <3> QED
      BY <3>1, <3>2
  <2> QED
    BY <2>1, <2>2 DEF TargetIn
<1>16. CommonFresh'
  <2> SUFFICES ASSUME NEW j \in DOMAIN src', src'[j].k = "COMM"
               PROVE  /\ ~ AlreadyDefined(src[j].l)'
                      /\ \A m \in DOMAIN src' : Defines(src'[m], src'[j].l) => m = j
    BY DEF CommonFresh
  <2>1. j + 1 \in DOMAIN src /\ src[j + 1].k = "COMM" /\ src'[j] = src[j + 1] /\ j \in Nat \ {0}
    BY <1>2, <1>3
  <2>2. /\ ~ AlreadyDefined(src[j + 1].l)
        /\ \A m \in DOMAIN src : Defines(src[m], src[j + 1].l) => m = j + 1
    BY <2>1 DEF PInv, CommonFresh
  <2>3. ~ Defines(line, src[j + 1].l)
    <3>1. j + 1 # 1
      BY <2>1
    <3> QED
      BY <1>2, <1>3, <2>2, <3>1
  <2>4. ~ AlreadyDefined(src[j].l)'
    BY <1>5, <2>1, <2>2, <2>3
  <2>5. ASSUME NEW m \in DOMAIN src', Defines(src'[m], src'[j].l) PROVE m = j
    <3>1. m + 1 \in DOMAIN src /\ src'[m] = src[m + 1] /\ m \in Nat
      BY <1>2, <1>3
    <3>2. m + 1 = j + 1
      BY <2>1, <2>2, <2>5, <3>1
    <3> QED
      BY <2>1, <3>1, <3>2
  <2> QED
    BY <2>4, <2>5
<1>17. AllKnown'
  <2>1. ASSUME NEW l \in DOMAIN labels' PROVE Known(l)'
    <3>1. CASE l \in DOMAIN labels
      BY <1>11, <3>1 DEF PInv, AllKnown
    <3>2. CASE Defines(line, l)
      BY <1>5, <3>2 DEF Known
    <3>3. CASE line.k = "GLOBL" /\ line.l = l
      <4>1. Known(l)
        BY <1>2, <1>3, <3>3 DEF PInv, AllKnown
      <4> QED
        BY <1>11, <4>1
    <3> QED
      BY <1>5, <3>1, <3>2, <3>3
  <2>2. ASSUME NEW j \in DOMAIN src', src'[j].k \in {"GLOBL", "JCC"} PROVE Known(src[j].l)'
    <3>1. Known(src'[j].l)
      BY <1>3, <2>2 DEF PInv, AllKnown
    <3>2. PICK l : l = src'[j].l
      OBVIOUS
    <3>3. Known(l)'
      BY <1>11, <3>1, <3>2
    <3> QED
      BY <3>2, <3>3
  <2>3. ASSUME NEW p \in Items', Item(p)'.k = "JCC" PROVE Known(Item(p).l)'
    <3>1. CASE p \in Items
      <4>1. Known(Item(p)'.l)
        BY <1>6, <2>3, <3>1 DEF PInv, AllKnown
      <4>2. PICK l : l = Item(p)'.l
        OBVIOUS
      <4>3. Known(l)'
        BY <1>11, <4>1, <4>2
      <4> QED
        BY <4>2, <4>3
    <3>2. CASE IsNew(p)
      <4>1. Item(p)' = line
        BY <1>6, <2>3, <3>2
      <4>2. Known(line.l)
        BY <1>2, <1>3, <2>3, <4>1 DEF PInv, AllKnown
      <4>3. PICK l : l = line.l
        OBVIOUS
      <4>4. Known(l)' /\ Item(p)'.l = l
        BY <1>11, <4>1, <4>2, <4>3
      <4> QED
        BY <4>4
    <3> QED
      BY <1>7, <3>1, <3>2
  <2> QED
    BY <2>1, <2>2, <2>3 DEF AllKnown
<1>18. LocalJumps'
  <2>1. ASSUME NEW j \in DOMAIN src', src'[j].k \in {"JMP", "JCC", "CALL"}
        PROVE  TargetIn(src[j].l, SectionOf(cur_sec, src, j))'
    <3>1. TargetIn(src'[j].l, SectionOf(cur_sec', src', j))
      BY <1>3, <1>4, <2>1 DEF PInv, LocalJumps
    <3>2. PICK l, sec : l = src'[j].l /\ sec = SectionOf(cur_sec', src', j)
      OBVIOUS
    <3>3. TargetIn(l, sec)'
      BY <1>15, <3>1, <3>2
    <3> QED
      BY <3>2, <3>3
  <2>2. ASSUME NEW p \in Items', Item(p)'.k \in {"JMP", "JCC", "CALL"}
        PROVE  TargetIn(Item(p).l, p[1])'
    <3>1. TargetIn(Item(p)'.l, p[1])
      <4>1. CASE p \in Items
        BY <1>6, <2>2, <4>1 DEF PInv, LocalJumps
      <4>2. CASE IsNew(p)
        <5>1. Item(p)' = line /\ p[1] = cur_sec /\ line.k \notin {"COMM"} \cup DOMAIN Opens
          BY <1>6, <2>2, <4>2
        <5>2. TargetIn(line.l, SectionOf(cur_sec, src, 1))
          BY <1>2, <1>3, <2>2, <5>1 DEF PInv, LocalJumps
        <5> QED
          BY <1>14, <5>1, <5>2
      <4> QED
        BY <1>7, <4>1, <4>2
    <3>2. PICK l : l = Item(p)'.l
      OBVIOUS
    <3>3. TargetIn(l, p[1])'
      BY <1>15, <3>1, <3>2
    <3> QED
      BY <3>2, <3>3
  <2> QED
    BY <2>1, <2>2 DEF LocalJumps
<1>19. ASSUME ~ err' PROVE OnePlace'
  <2>1. OnePlace /\ ~ (line.k = "LABEL" /\ AlreadyDefined(line.l))
    BY <1>5, <1>19 DEF PInv
  <2>2. line.k = "COMM" => ~ AlreadyDefined(line.l)
    BY <1>2, <1>3 DEF PInv, CommonFresh
  <2>3. \A l : Defines(line, l) => ~ AlreadyDefined(l)
    BY <1>8, <2>1, <2>2
  <2>4. \A l : \A p \in Items : IsPlace(p, l)' <=> IsPlace(p, l)
    BY <1>6 DEF IsPlace
  <2>5. \A l : \A p : IsNew(p) /\ IsPlace(p, l)' => Defines(line, l)
    BY <1>6, <1>8 DEF IsPlace
  <2>6. ASSUME NEW l, AlreadyDefined(l)'
        PROVE  \E p \in Items' : IsPlace(p, l)' /\ p[1] = labels'[l].section
    <3>1. CASE AlreadyDefined(l)
      <4>1. PICK p \in Items : IsPlace(p, l) /\ p[1] = labels[l].section
        BY <2>1, <3>1 DEF OnePlace
      <4> QED
        BY <1>5, <1>6, <2>4, <3>1, <4>1
    <3>2. CASE Defines(line, l) /\ ~ AlreadyDefined(l)
      <4>1. PICK p : /\ IsNew(p) /\ p[1] = LabelSection(line)
                     /\ Item(p)'.k = "LABEL" /\ Item(p)'.l = line.l
        BY <1>6, <1>8, <3>2
      <4>2. labels'[l].section = LabelSection(line) /\ l = line.l
        BY <1>5, <1>8, <3>2
      <4> QED
        BY <4>1, <4>2 DEF IsNew, IsPlace
    <3> QED
      BY <1>5, <2>6, <3>1, <3>2
  <2>7. ASSUME NEW l, NEW p \in Items', IsPlace(p, l)'
        PROVE  AlreadyDefined(l)'
    <3>1. CASE p \in Items
      BY <1>5, <2>1, <2>4, <2>7, <3>1 DEF OnePlace
    <3>2. CASE IsNew(p)
      BY <1>5, <2>5, <2>7, <3>2
    <3> QED
      BY <1>7, <3>1, <3>2
  <2>8. ASSUME NEW l, NEW p \in Items', NEW q \in Items', IsPlace(p, l)', IsPlace(q, l)'
        PROVE  p = q
    <3>1. CASE p \in Items /\ q \in Items
      BY <2>1, <2>4, <2>8, <3>1 DEF OnePlace
    <3>2. CASE IsNew(p) /\ IsNew(q)
      BY <1>6, <2>8, <3>2 DEF IsPlace
    <3>3. CASE (p \in Items /\ IsNew(q)) \/ (q \in Items /\ IsNew(p))
      <4>1. AlreadyDefined(l) /\ Defines(line, l)
        BY <2>1, <2>4, <2>5, <2>8, <3>3 DEF OnePlace
      <4> QED
        BY <2>3, <4>1
    <3> QED
      BY <1>7, <3>1, <3>2, <3>3
  <2> QED
    BY <2>6, <2>7, <2>8 DEF OnePlace
<1> QED
  BY <1>5, <1>10, <1>16, <1>17, <1>18, <1>19 DEF PInv

(* The whole source is to come.                                            *)
LEMMA AsmInitPInv == AsmInit => PInv
<1> SUFFICES ASSUME AsmInit PROVE PInv
  OBVIOUS
<1>1. /\ src \in Sources /\ cur_sec = SEC_CODE /\ irs = [s \in Section |-> <<>>]
      /\ labels = <<>> /\ err = FALSE /\ phase = "parse"
  BY DEF AsmInit
<1>2. src \in Seq(Line) /\ DOMAIN src = 1 .. Len(src)
  BY <1>1, SourcesAssumption
<1>3. DOMAIN labels = {} /\ \A l : ~ AlreadyDefined(l)
  BY <1>1 DEF AlreadyDefined
<1>4. Items = {}
  <2>1. \A s \in Section : DOMAIN irs[s] = {}
    BY <1>1
  <2> QED
    BY <2>1 DEF Items, ItemsOf
<1>5. \A j \in DOMAIN src :
        /\ src[j].k = "COMM" => \A m \in DOMAIN src : Defines(src[m], src[j].l) => m = j
        /\ src[j].k \in {"GLOBL", "JCC"} => \E m \in DOMAIN src : Defines(src[m], src[j].l)
        /\ src[j].k \in {"JMP", "JCC", "CALL"} =>
             \A m \in DOMAIN src : Defines(src[m], src[j].l) =>
               SectionOf(SEC_CODE, src, m) = SectionOf(SEC_CODE, src, j)
  <2> SUFFICES ASSUME NEW j \in DOMAIN src
               PROVE  /\ src[j].k = "COMM" =>
                           \A m \in DOMAIN src : Defines(src[m], src[j].l) => m = j
                      /\ src[j].k \in {"GLOBL", "JCC"} =>
                           \E m \in DOMAIN src : Defines(src[m], src[j].l)
                      /\ src[j].k \in {"JMP", "JCC", "CALL"} =>
                           \A m \in DOMAIN src : Defines(src[m], src[j].l) =>
                             SectionOf(SEC_CODE, src, m) = SectionOf(SEC_CODE, src, j)
    OBVIOUS
  <2> DEFINE definitions == {m \in DOMAIN src : Defines(src[m], src[j].l)}
  <2>1. /\ src[j].k = "COMM" => definitions = {j}
        /\ src[j].k \in {"GLOBL", "JCC"} => definitions # {}
        /\ src[j].k \in {"JMP", "JCC", "CALL"} =>
             \A m \in definitions : SectionOf(SEC_CODE, src, m) = SectionOf(SEC_CODE, src, j)
    BY <1>1, SourcesAssumption
  <2>2. \A m \in DOMAIN src : Defines(src[m], src[j].l) <=> m \in definitions
    OBVIOUS
  <2> HIDE DEF definitions
  <2>3. definitions \subseteq DOMAIN src
    BY DEF definitions
  <2> QED
    BY <2>1, <2>2, <2>3
<1>6. Parsing
  <2>1. irs \in [Section -> Seq(ItemRecord)]
    BY <1>1
  <2>2. SEC_CODE \in Section
    BY DEF Section, SEC_CODE
  <2>3. phase \in {"parse", "failed"}
    BY <1>1
  <2> QED
    BY <1>1, <1>2, <2>1, <2>2, <2>3 DEF Parsing
<1>7. LabelsOK
  BY <1>3 DEF LabelsOK
<1>8. CommonFresh
  BY <1>3, <1>5 DEF CommonFresh
<1>9. AllKnown
  BY <1>3, <1>4, <1>5 DEF AllKnown, Known
<1>10. LocalJumps
  BY <1>1, <1>3, <1>4, <1>5 DEF LocalJumps, TargetIn
<1>11. OnePlace
  BY <1>3, <1>4 DEF OnePlace
<1> QED
  BY <1>6, <1>7, <1>8, <1>9, <1>10, <1>11 DEF PInv

(* The passes change only the addresses of the labels.                     *)
SameTables ==
  /\ UNCHANGED <<src, cur_sec, irs, err>>
  /\ DOMAIN labels' = DOMAIN labels
  /\ \A l \in DOMAIN labels :
       /\ labels'[l].section = labels[l].section
       /\ labels'[l].defined <=> labels[l].defined
       /\ labels'[l].global = labels[l].global
       /\ DOMAIN labels'[l] = DOMAIN labels[l]

(* The passes keep what parsing established.                               *)
LEMMA PassPInv ==
  ASSUME PInv, SameTables,
         phase' \in {"parse", "failed"} \/ phase \notin {"parse", "failed"}
           \/ (src = <<>> /\ ~ err)
  PROVE  PInv'
<1>1. /\ src' = src /\ cur_sec' = cur_sec /\ irs' = irs /\ err' = err
  BY DEF SameTables
<1>2. \A l : AlreadyDefined(l)' <=> AlreadyDefined(l)
  BY DEF SameTables, AlreadyDefined
<1>3. \A l : AlreadyDefined(l) => labels'[l].section = labels[l].section
  BY DEF SameTables, AlreadyDefined
<1>4. Parsing'
  BY <1>1 DEF PInv, Parsing
<1>5. LabelsOK'
  BY DEF PInv, LabelsOK, SameTables
<1>6. \A l : Known(l)' <=> Known(l)
  BY <1>1, <1>2 DEF Known
<1>7. \A l, sec : TargetIn(l, sec)' <=> TargetIn(l, sec)
  BY <1>1, <1>2, <1>3 DEF TargetIn
<1>8. Items' = Items /\ \A p : Item(p)' = Item(p) /\ \A l : IsPlace(p, l)' <=> IsPlace(p, l)
  BY <1>1 DEF Items, Item, IsPlace
<1>9. CommonFresh'
  BY <1>1, <1>2 DEF PInv, CommonFresh
<1>10. AllKnown'
  BY <1>1, <1>6, <1>8 DEF PInv, AllKnown, SameTables
<1>11. LocalJumps'
  BY <1>1, <1>7, <1>8 DEF PInv, LocalJumps
<1>12. OnePlace => OnePlace'
  <2>1. \A l, sec : \A p : (p[1] = labels'[l].section /\ AlreadyDefined(l)) <=> (p[1] = labels[l].section /\ AlreadyDefined(l))
    BY <1>3
  <2> QED
    BY <1>2, <1>3, <1>8 DEF OnePlace
<1> QED
  BY <1>1, <1>4, <1>5, <1>9, <1>10, <1>11, <1>12 DEF PInv

(* Every step of the assembler.                                            *)
LEMMA NextPInv == PInv /\ [AsmNext]_vars => PInv'
<1> SUFFICES ASSUME PInv, [AsmNext]_vars
             PROVE  PInv'
  OBVIOUS
<1>1. CASE ParseLine
  BY <1>1, ParseLinePInv
<1>2. CASE ParseEnd
  <2>1. SameTables /\ src = <<>> /\ (phase' = "failed" \/ ~ err)
    BY <1>2 DEF ParseEnd, parseVars, SameTables
  <2> QED
    BY <2>1, PassPInv
<1>3. CASE calc_label_address
  <2>1. /\ UNCHANGED <<src, cur_sec, irs, err>> /\ labels' = PlacedLabels(address')
        /\ phase = "calc"
    BY <1>3 DEF calc_label_address
  <2>2. /\ DOMAIN labels' = DOMAIN labels
        /\ \A l \in DOMAIN labels :
             labels'[l] = IF labels[l].defined
                          THEN [labels[l] EXCEPT !.address = LabelAddress(irs, l, address')]
                          ELSE labels[l]
    BY <2>1 DEF PlacedLabels
  <2>3. \A l \in DOMAIN labels : DOMAIN labels[l] = {"section", "address", "defined", "global"}
    BY DEF PInv, LabelsOK
  <2>4. SameTables
    BY <2>1, <2>2, <2>3 DEF SameTables
  <2> QED
    BY <2>1, <2>4, PassPInv
<1>4. CASE resolve_relative_address \/ emit_irs \/ output_obj
  <2>1. SameTables /\ phase \in {"resolve", "emit", "output"}
    BY <1>4 DEF resolve_relative_address, emit_irs, output_obj, parseVars, SameTables
  <2> QED
    BY <2>1, PassPInv
<1>5. CASE UNCHANGED vars
  <2>1. SameTables /\ phase' = phase
    BY <1>5 DEF vars, SameTables
  <2>2. phase' \in {"parse", "failed"} \/ phase \notin {"parse", "failed"}
    BY <2>1
  <2> QED
    BY <2>1, <2>2, PassPInv
<1> QED
  BY <1>1, <1>2, <1>3, <1>4, <1>5 DEF AsmNext

----------------------------------------------------------------------------
(***************************************************************************)
(* The layout: an address is its section's start and the place in it.      *)
(***************************************************************************)

(* ALIGN counts from any multiple.                                         *)
LEMMA AlignIs ==
  ASSUME NEW x \in Nat, NEW a \in Nat \ {0}
  PROVE  /\ ALIGN(x, a) \in Nat /\ ALIGN(x, a) % a = 0
         /\ \A b \in Nat : b % a = 0 => ALIGN(b + x, a) = b + ALIGN(x, a)
         /\ x % a = 0 => ALIGN(x, a) = x
  BY NextMultipleIs, NextMultipleFrom, NextOfMultiple DEF ALIGN, NextMultiple

(* A section that is widened takes all its alignments.                     *)
LEMMA WidenedIs ==
  ASSUME irs \in [Section -> Seq(ItemRecord)], NEW al \in [Section -> Alignments]
  PROVE  /\ Widened(al) \in [Section -> Alignments]
         /\ \A s \in Section : \A m \in DOMAIN irs[s] :
              irs[s][m].k = "ALIGN" => irs[s][m].n <= Widened(al)[s]
<1> SUFFICES ASSUME NEW s \in Section
             PROVE  /\ Widened(al)[s] \in Alignments
                    /\ \A m \in DOMAIN irs[s] :
                         irs[s][m].k = "ALIGN" => irs[s][m].n <= Widened(al)[s]
  BY DEF Widened
<1> DEFINE its == irs[s]
           n == Len(its)
           S == {al[s]} \cup AlignsIn(s)
<1>1. its \in Seq(ItemRecord) /\ n \in Nat /\ DOMAIN its = 1 .. n
  OBVIOUS
<1>2. \A m \in DOMAIN its :
        /\ its[m] \in ItemRecord /\ its[m].n \in Nat
        /\ its[m].k = "ALIGN" => its[m].n \in Alignments
  <2>1. \A m \in DOMAIN its : its[m] \in ItemRecord
    BY <1>1
  <2> QED
    BY <2>1, AssemblerAssumption DEF ItemRecord, ItemKind
<1>3. al[s] \in Alignments /\ al[s] \in Nat \ {0}
  BY AssemblerAssumption
<1>4. \A y : y \in AlignsIn(s) <=> \E m \in DOMAIN its : its[m].k = "ALIGN" /\ y = its[m].n
  BY DEF AlignsIn
<1>5. Widened(al)[s] = MaxOf(S)
  BY DEF Widened
<1> HIDE DEF its, n
<1> DEFINE T == {k \in 0 .. n : \E b \in Nat : \A m \in 1 .. k : its[m].n <= b}
<1>6. 0 \in T
  <2>1. \A m \in 1 .. 0 : its[m].n <= 0
    OBVIOUS
  <2> QED
    BY <1>1, <2>1
<1>7. ASSUME NEW k \in 1 .. n, k - 1 \in T PROVE k \in T
  <2>1. PICK b \in Nat : \A m \in 1 .. k - 1 : its[m].n <= b
    BY <1>7
  <2>2. its[k].n \in Nat
    BY <1>1, <1>2
  <2>3. b + its[k].n \in Nat
    BY <2>2
  <2>4. ASSUME NEW m \in 1 .. k PROVE its[m].n <= b + its[k].n
    <3>1. CASE m = k
      BY <2>2, <3>1
    <3>2. CASE m # k
      <4>1. m \in 1 .. k - 1 /\ m \in 1 .. n
        BY <1>1, <3>2
      <4>2. its[m].n <= b /\ its[m].n \in Nat
        BY <1>1, <1>2, <2>1, <4>1
      <4> QED
        BY <2>2, <4>2
    <3> QED
      BY <3>1, <3>2
  <2>5. \E c \in Nat : \A m \in 1 .. k : its[m].n <= c
    BY <2>3, <2>4
  <2>6. k \in 0 .. n
    BY <1>1
  <2> QED
    BY <2>5, <2>6
<1>8. PICK b \in Nat : \A m \in 1 .. n : its[m].n <= b
  <2> HIDE DEF T
  <2>1. \A k \in 1 .. n : k - 1 \in T => k \in T
    BY <1>7
  <2>2. 0 .. n \subseteq T
    BY <1>1, <1>6, <2>1, UpTo
  <2>3. n \in T
    BY <1>1, <2>2
  <2> QED
    BY <2>3 DEF T
<1>9. S \in SUBSET (1 .. b + al[s]) /\ S # {} /\ b + al[s] \in Nat /\ S \subseteq Alignments
  <2>1. ASSUME NEW y \in S PROVE y \in 1 .. b + al[s] /\ y \in Alignments
    <3>1. CASE y = al[s]
      BY <1>3, <3>1
    <3>2. CASE y \in AlignsIn(s)
      <4>1. PICK m \in DOMAIN its : its[m].k = "ALIGN" /\ y = its[m].n
        BY <1>4, <3>2
      <4>2. y \in Alignments /\ y \in Nat \ {0} /\ y <= b
        BY <1>1, <1>2, <1>8, <4>1, AssemblerAssumption
      <4> QED
        BY <1>3, <4>2
    <3> QED
      BY <3>1, <3>2
  <2> QED
    BY <1>3, <2>1
<1>10. MaxOf(S) \in S /\ \A y \in S : y <= MaxOf(S)
  BY <1>9, MaxOfIs
<1> QED
  BY <1>4, <1>5, <1>9, <1>10 DEF its

(* The recursion of Behind has its solution.                               *)
LEMMA BehindIs ==
  ASSUME NEW ir \in [Section -> Seq(ItemRecord)], NEW sec \in Section,
         NEW start \in Nat, NEW lg
  PROVE  LET pos == Behind(ir, sec, start, lg) IN
         /\ pos \in [0 .. Len(ir[sec]) -> Nat]
         /\ pos[0] = start
         /\ \A k \in 1 .. Len(ir[sec]) :
              pos[k] = IF ir[sec][k].k = "ALIGN" THEN ALIGN(pos[k - 1], ir[sec][k].n)
                       ELSE pos[k - 1] + SizeOf(ir, <<sec, k>>, lg)
<1> DEFINE n == Len(ir[sec])
           step(k, x) == IF ir[sec][k].k = "ALIGN" THEN ALIGN(x, ir[sec][k].n)
                         ELSE x + SizeOf(ir, <<sec, k>>, lg)
           IsPos(f) == f = [m \in 0 .. n |-> IF m = 0 THEN start ELSE step(m, f[m - 1])]
           g == [kx \in (1 .. n) \X Nat |-> step(kx[1], kx[2])]
<1>1. n \in Nat /\ DOMAIN ir[sec] = 1 .. n
  OBVIOUS
<1>2. ASSUME NEW k \in 1 .. n, NEW x \in Nat PROVE step(k, x) \in Nat
  <2>1. ir[sec][k] \in ItemRecord
    BY <1>1
  <2>2. CASE ir[sec][k].k = "ALIGN"
    <3>1. ir[sec][k].n \in Nat \ {0}
      BY <2>1, <2>2, AssemblerAssumption DEF ItemRecord
    <3> QED
      BY <2>2, <3>1, AlignIs
  <2>3. CASE ir[sec][k].k # "ALIGN"
    <3>1. ir[sec][k].k \in ItemKind \ {"ALIGN"} /\ ir[sec][k].n \in Nat
      BY <2>1, <2>3 DEF ItemRecord
    <3>2. <<sec, k>>[1] = sec /\ <<sec, k>>[2] = k
      OBVIOUS
    <3>3. SizeOf(ir, <<sec, k>>, lg) \in Nat
      BY <3>1, <3>2 DEF SizeOf, ItemKind
    <3> QED
      BY <2>3, <3>3
  <2> QED
    BY <2>2, <2>3
<1>3. Behind(ir, sec, start, lg) = CHOOSE f : IsPos(f)
  BY DEF Behind
<1> HIDE DEF n, step
<1>4. g \in [(1 .. n) \X Nat -> Nat]
  <2>1. \A kx \in (1 .. n) \X Nat : kx[1] \in 1 .. n /\ kx[2] \in Nat
    OBVIOUS
  <2>2. \A kx \in (1 .. n) \X Nat : step(kx[1], kx[2]) \in Nat
    BY <1>2, <2>1
  <2> QED
    BY <2>2
<1>5. \A k \in 1 .. n, x \in Nat : g[<<k, x>>] = step(k, x)
  OBVIOUS
<1> HIDE DEF g
<1>6. PICK f \in [0 .. n -> Nat] : f[0] = start /\ \A k \in 1 .. n : f[k] = g[<<k, f[k - 1]>>]
  <2>1. \E f \in [0 .. n -> Nat] : Steps(f, n, start, g)
    BY <1>1, <1>4, RecursionExists
  <2> QED
    BY <2>1 DEF Steps
<1>7. \A k \in 1 .. n : f[k] = step(k, f[k - 1])
  <2> SUFFICES ASSUME NEW k \in 1 .. n PROVE f[k] = step(k, f[k - 1])
    OBVIOUS
  <2>1. k - 1 \in 0 .. n /\ f[k - 1] \in Nat
    BY <1>1
  <2> QED
    BY <1>5, <1>6, <2>1
<1>8. IsPos(f)
  <2>1. \A m \in 0 .. n : f[m] = IF m = 0 THEN start ELSE step(m, f[m - 1])
    BY <1>1, <1>6, <1>7
  <2> QED
    BY <1>6, <2>1
<1> DEFINE pos == Behind(ir, sec, start, lg)
<1>9. IsPos(pos)
  BY <1>3, <1>8
<1> HIDE DEF pos
<1>10. DOMAIN pos = 0 .. n /\ pos[0] = start /\ \A m \in 1 .. n : pos[m] = step(m, pos[m - 1])
  <2>1. \A m \in 0 .. n : pos[m] = IF m = 0 THEN start ELSE step(m, pos[m - 1])
    BY <1>9
  <2> QED
    BY <1>1, <1>9, <2>1
<1>11. \A m \in 0 .. n : pos[m] \in Nat
  <2> DEFINE T == {m \in 0 .. n : pos[m] \in Nat}
  <2>1. 0 \in T
    BY <1>1, <1>10
  <2>2. ASSUME NEW m \in 1 .. n, m - 1 \in T PROVE m \in T
    BY <1>1, <1>2, <1>10, <2>2
  <2> HIDE DEF T
  <2>3. 0 .. n \subseteq T
    BY <1>1, <2>1, <2>2, UpTo
  <2> QED
    BY <2>3 DEF T
<1>12. pos \in [0 .. n -> Nat]
  <2>1. pos = [m \in 0 .. n |-> pos[m]]
    BY <1>9
  <2> QED
    BY <1>11, <2>1
<1> QED
  BY <1>10, <1>12 DEF pos, n, step

(* Where the alignments of a section divide its start, its layout does not *)
(* depend on it: calc_label_address and emit_irs agree.                    *)
LEMMA BehindFrom ==
  ASSUME NEW ir \in [Section -> Seq(ItemRecord)], NEW sec \in Section,
         NEW start \in Nat, NEW lg,
         \A m \in DOMAIN ir[sec] : ir[sec][m].k = "ALIGN" => start % ir[sec][m].n = 0
  PROVE  \A k \in 0 .. Len(ir[sec]) :
           Behind(ir, sec, start, lg)[k] = start + Behind(ir, sec, 0, lg)[k]
<1> DEFINE n == Len(ir[sec])
           b == Behind(ir, sec, start, lg)
           e == Behind(ir, sec, 0, lg)
           size(k) == SizeOf(ir, <<sec, k>>, lg)
<1>1. n \in Nat /\ DOMAIN ir[sec] = 1 .. n
  OBVIOUS
<1>2. /\ b \in [0 .. n -> Nat] /\ b[0] = start
      /\ \A k \in 1 .. n : b[k] = IF ir[sec][k].k = "ALIGN" THEN ALIGN(b[k - 1], ir[sec][k].n)
                                  ELSE b[k - 1] + size(k)
  BY BehindIs
<1>3. /\ e \in [0 .. n -> Nat] /\ e[0] = 0
      /\ \A k \in 1 .. n : e[k] = IF ir[sec][k].k = "ALIGN" THEN ALIGN(e[k - 1], ir[sec][k].n)
                                  ELSE e[k - 1] + size(k)
  <2>1. 0 \in Nat
    OBVIOUS
  <2> QED
    BY <2>1, BehindIs
<1> DEFINE T == {k \in 0 .. n : b[k] = start + e[k]}
<1> HIDE DEF n, b, e, size
<1>4. 0 \in T
  BY <1>1, <1>2, <1>3
<1>5. ASSUME NEW k \in 1 .. n, k - 1 \in T PROVE k \in T
  <2>1. /\ b[k - 1] = start + e[k - 1] /\ k \in 0 .. n /\ k - 1 \in 0 .. n
        /\ e[k - 1] \in Nat /\ b[k] \in Nat /\ e[k] \in Nat
    BY <1>1, <1>2, <1>3, <1>5
  <2>2. CASE ir[sec][k].k = "ALIGN"
    <3>1. ir[sec][k] \in ItemRecord
      BY <1>1
    <3>2. ir[sec][k].n \in Nat \ {0}
      BY <2>2, <3>1, AssemblerAssumption DEF ItemRecord
    <3>3. start % ir[sec][k].n = 0
      BY <1>1, <2>2
    <3>4. ALIGN(start + e[k - 1], ir[sec][k].n) = start + ALIGN(e[k - 1], ir[sec][k].n)
      <4>1. PICK x \in Nat, a \in Nat \ {0} : x = e[k - 1] /\ a = ir[sec][k].n
        BY <2>1, <3>2
      <4>2. start % a = 0
        BY <3>3, <4>1
      <4>3. ALIGN(start + x, a) = start + ALIGN(x, a)
        BY <4>2, AlignIs, Zenon
      <4> QED
        BY <4>1, <4>3
    <3>5. b[k] = ALIGN(b[k - 1], ir[sec][k].n) /\ e[k] = ALIGN(e[k - 1], ir[sec][k].n)
      BY <1>2, <1>3, <2>2
    <3> QED
      BY <2>1, <3>4, <3>5
  <2>3. CASE ir[sec][k].k # "ALIGN"
    <3>1. b[k] = b[k - 1] + size(k) /\ e[k] = e[k - 1] + size(k)
      BY <1>2, <1>3, <2>3
    <3>2. size(k) \in Int
      <4>1. ir[sec][k] \in ItemRecord
        BY <1>1
      <4>2. ir[sec][k].k \in ItemKind \ {"ALIGN"} /\ ir[sec][k].n \in Nat
        BY <2>3, <4>1 DEF ItemRecord
      <4>3. <<sec, k>>[1] = sec /\ <<sec, k>>[2] = k
        OBVIOUS
      <4> QED
        BY <4>2, <4>3 DEF size, SizeOf, ItemKind
    <3> QED
      BY <2>1, <3>1, <3>2
  <2> QED
    BY <2>2, <2>3
<1>6. 0 .. n \subseteq T
  <2> HIDE DEF T
  <2>1. \A k \in 1 .. n : k - 1 \in T => k \in T
    BY <1>5
  <2> QED
    BY <1>1, <1>4, <2>1, UpTo
<1> QED
  BY <1>6 DEF n, b, e

(* align_next_section: a section starts at a multiple of its alignment.    *)
LEMMA StartsAligned ==
  ASSUME NEW ir \in [Section -> Seq(ItemRecord)], NEW lg, NEW al \in [Section -> Alignments]
  PROVE  \A s \in Section : /\ SectionStarts(ir, lg, al)[s] \in Nat
                            /\ SectionStarts(ir, lg, al)[s] % al[s] = 0
<1> DEFINE end(s, x) == Behind(ir, s, x, lg)[Len(ir[s])]
           IsStart(f) ==
             f = [s \in Section |->
                    ALIGN(IF s = 0 THEN START_ADDRESS ELSE end(s - 1, f[s - 1]), al[s])]
           s0 == ALIGN(START_ADDRESS, al[0])
           s1 == ALIGN(end(0, s0), al[1])
           s2 == ALIGN(end(1, s1), al[2])
           s3 == ALIGN(end(2, s2), al[3])
           w == [s \in Section |-> IF s = 0 THEN s0 ELSE IF s = 1 THEN s1 ELSE IF s = 2 THEN s2 ELSE s3]
<1>1. SectionStarts(ir, lg, al) = CHOOSE f : IsStart(f)
  BY DEF SectionStarts
<1>2. \A s \in Section : al[s] \in Nat \ {0}
  BY AssemblerAssumption
<1>3. ASSUME NEW s \in Section, NEW x \in Nat PROVE end(s, x) \in Nat
  <2>1. Behind(ir, s, x, lg) \in [0 .. Len(ir[s]) -> Nat]
    BY BehindIs
  <2>2. Len(ir[s]) \in 0 .. Len(ir[s])
    OBVIOUS
  <2> QED
    BY <2>1, <2>2
<1> HIDE DEF end
<1>4. Section = {0, 1, 2, 3}
  BY DEF Section
<1>5. w[0] = s0 /\ w[1] = s1 /\ w[2] = s2 /\ w[3] = s3
  BY <1>4
<1>6. IsStart(w)
  <2> HIDE DEF s0, s1, s2, s3
  <2> DEFINE v(s) == ALIGN(IF s = 0 THEN START_ADDRESS ELSE end(s - 1, w[s - 1]), al[s])
  <2> HIDE DEF w
  <2>1. v(0) = s0 /\ v(1) = s1 /\ v(2) = s2 /\ v(3) = s3
    BY <1>5 DEF s0, s1, s2, s3
  <2> HIDE DEF v
  <2>2. \A s \in Section : w[s] = v(s)
    BY <1>4, <1>5, <2>1
  <2>3. w = [s \in Section |-> w[s]]
    BY DEF w
  <2>4. w = [s \in Section |-> v(s)]
    BY <2>2, <2>3
  <2> QED
    BY <2>4 DEF v
<1> DEFINE st == SectionStarts(ir, lg, al)
<1>7. IsStart(st)
  BY <1>1, <1>6
<1> HIDE DEF st
<1>8. \A s \in Section :
        st[s] = ALIGN(IF s = 0 THEN START_ADDRESS ELSE end(s - 1, st[s - 1]), al[s])
  BY <1>7
<1>9. ASSUME NEW x \in Nat, NEW s \in Section
       PROVE  ALIGN(x, al[s]) \in Nat /\ ALIGN(x, al[s]) % al[s] = 0
  BY <1>2, AlignIs
<1>10. \A s \in Section : s # 0 => st[s] = ALIGN(end(s - 1, st[s - 1]), al[s])
  BY <1>8
<1>11. 0 \in Section /\ 1 \in Section /\ 2 \in Section /\ 3 \in Section
  BY <1>4
<1>12. st[0] \in Nat
  BY <1>2, <1>4, <1>8, AlignIs, AssemblerAssumption
<1>13. st[1] \in Nat
  <2>1. st[1] = ALIGN(end(0, st[0]), al[1])
    <3>1. PICK s \in Section : s = 1
      BY <1>11
    <3>2. st[s] = ALIGN(end(s - 1, st[s - 1]), al[s])
      BY <1>10, <3>1
    <3>3. s - 1 = 0
      BY <3>1
    <3> QED
      BY <3>1, <3>2, <3>3
  <2>2. end(0, st[0]) \in Nat
    BY <1>3, <1>12, <1>11
  <2> QED
    BY <1>9, <1>11, <2>1, <2>2
<1>14. st[2] \in Nat
  <2>1. st[2] = ALIGN(end(1, st[1]), al[2])
    BY <1>10, <1>11, SMTT(40)
  <2>2. end(1, st[1]) \in Nat
    BY <1>3, <1>13, <1>11
  <2> QED
    BY <1>9, <1>11, <2>1, <2>2
<1>15. ASSUME NEW s \in Section PROVE st[s] \in Nat /\ st[s] % al[s] = 0
  <2>1. CASE s = 0
    <3>1. st[s] = ALIGN(START_ADDRESS, al[s]) /\ START_ADDRESS \in Nat
      BY <1>8, <2>1, AssemblerAssumption
    <3> QED
      BY <1>9, <3>1
  <2>2. CASE s # 0
    <3>1. s - 1 \in Section /\ st[s - 1] \in Nat
      BY <1>4, <1>12, <1>13, <1>14, <2>2
    <3>2. end(s - 1, st[s - 1]) \in Nat
      BY <1>3, <3>1
    <3>3. st[s] = ALIGN(end(s - 1, st[s - 1]), al[s])
      BY <1>8, <2>2
    <3> QED
      BY <1>9, <3>2, <3>3
  <2> QED
    BY <2>1, <2>2
<1> QED
  BY <1>15 DEF st

(* What the last round leaves, and the rest writes out.                    *)
LInv ==
  /\ aligns \in [Section -> Alignments]
  /\ phase = "resolve" => (settle1 => aligns = Widened(aligns))
  /\ phase \in {"emit", "output", "done"} =>
       /\ aligns = Widened(aligns)
       /\ unresolved = AllUnresolved
       /\ \A p \in Items : IsJump(p) /\ External(p) => p \in long
  /\ phase \in {"output", "done"} /\ CodeInText =>
       emitted = [p \in Items |-> AddressIn(irs, p, 0, long)]
  /\ phase = "done" => obj = [symbols |-> Symbols, relas |-> {Rela(u) : u \in unresolved}]

(* Nothing is written yet.                                                 *)
LEMMA AsmInitLInv == AsmInit => LInv
  BY AssemblerAssumption DEF AsmInit, LInv

(* What LInv says of the items and labels depends only on these.           *)
LEMMA SameLayout ==
  ASSUME UNCHANGED <<irs, labels, address, aligns, starts, long>>
  PROVE  /\ Items' = Items /\ AllUnresolved' = AllUnresolved
         /\ Widened(aligns)' = Widened(aligns) /\ Symbols' = Symbols
         /\ (CodeInText' <=> CodeInText)
         /\ \A p : (IsJump(p) /\ External(p))' <=> IsJump(p) /\ External(p)
         /\ [p \in Items |-> AddressIn(irs, p, 0, long)]'
              = [p \in Items |-> AddressIn(irs, p, 0, long)]
<1>1. /\ irs' = irs /\ labels' = labels /\ address' = address /\ aligns' = aligns
      /\ starts' = starts /\ long' = long
  OBVIOUS
<1>2. Items' = Items /\ \A p : Item(p)' = Item(p)
  BY <1>1 DEF Items, Item
<1>3. \A p : (IsJump(p) /\ External(p))' <=> IsJump(p) /\ External(p)
  BY <1>1, <1>2 DEF IsJump, External
<1>4. AllUnresolved' = AllUnresolved
  BY <1>1 DEF AllUnresolved, Unresolved, Items, Item, HasLabel, External, OtherSection, FirstAddress
<1>5. Widened(aligns)' = Widened(aligns)
  BY <1>1 DEF Widened, AlignsIn
<1>6. Symbols' = Symbols
  BY <1>1 DEF Symbols, SymbolValue
<1>7. [p \in Items |-> AddressIn(irs, p, 0, long)]' = [p \in Items |-> AddressIn(irs, p, 0, long)]
  BY <1>1, <1>2
<1>8. (CodeInText' <=> CodeInText)
  BY <1>2 DEF CodeInText, Strays, IsCode
<1> QED
  BY <1>2, <1>3, <1>4, <1>5, <1>6, <1>7, <1>8

(* With the code in .text no item leaves its section.                      *)
LEMMA NothingGone ==
  ASSUME irs \in [Section -> Seq(ItemRecord)]
  PROVE  Without({}) = irs
<1>1. ASSUME NEW s \in Section
      PROVE  [n \in DOMAIN irs[s] |->
                IF <<s, n>> \in {} THEN [irs[s][n] EXCEPT !.k = "BYTES", !.n = 0] ELSE irs[s][n]]
               = irs[s]
  <2>1. irs[s] \in Seq(ItemRecord)
    OBVIOUS
  <2> QED
    BY <2>1
<1> QED
  BY <1>1 DEF Without

(* Every step of the assembler.                                            *)
LEMMA NextLInv == PInv /\ LInv /\ [AsmNext]_vars => LInv'
<1> SUFFICES ASSUME PInv, LInv, [AsmNext]_vars
             PROVE  LInv'
  OBVIOUS
<1>1. aligns \in [Section -> Alignments] /\ irs \in [Section -> Seq(ItemRecord)]
  BY DEF LInv, PInv, Parsing
<1>2. CASE ParseLine \/ ParseEnd
  <2>1. aligns' = aligns /\ phase' \in {"parse", "failed", "calc"}
    BY <1>2 DEF ParseLine, ParseEnd
  <2> QED
    BY <1>1, <2>1 DEF LInv
<1>3. CASE calc_label_address
  <2>1. /\ irs' = irs /\ aligns' = Widened(aligns) /\ phase' = "resolve"
        /\ settle1' = (aligns' = aligns)
    BY <1>3 DEF calc_label_address
  <2>2. Widened(aligns) \in [Section -> Alignments]
    BY <1>1, WidenedIs
  <2>3. aligns' = aligns => Widened(aligns)' = Widened(aligns)
    BY <2>1 DEF Widened, AlignsIn
  <2>4. settle1' => aligns' = Widened(aligns)'
    BY <2>1, <2>3
  <2>5. /\ aligns' \in [Section -> Alignments]
        /\ phase' = "resolve"
    BY <2>1, <2>2
  <2> QED
    BY <2>4, <2>5 DEF LInv
<1>4. CASE resolve_relative_address
  <2>1. /\ phase = "resolve" /\ irs' = irs /\ labels' = labels /\ address' = address
        /\ aligns' = aligns /\ starts' = starts /\ settle1' = settle1
        /\ unresolved' = AllUnresolved /\ long' = long \cup MadeLong
        /\ phase' = IF Settled THEN "emit" ELSE "calc"
    BY <1>4 DEF resolve_relative_address, parseVars
  <2>2. CASE ~ Settled
    BY <1>1, <2>1, <2>2 DEF LInv
  <2>3. CASE Settled
    <3>1. settle1 /\ MadeLong = {} /\ long' = long /\ phase' = "emit"
      BY <2>1, <2>3 DEF Settled
    <3>2. \A p \in Items : IsJump(p) /\ External(p) => p \in long
      BY <3>1 DEF MadeLong
    <3>3. /\ Items' = Items /\ AllUnresolved' = AllUnresolved
          /\ Widened(aligns)' = Widened(aligns)
          /\ \A p : (IsJump(p) /\ External(p))' <=> IsJump(p) /\ External(p)
      BY <2>1, <3>1, SameLayout
    <3>4. aligns = Widened(aligns)
      BY <2>1, <3>1 DEF LInv
    <3>5. aligns' = Widened(aligns)' /\ unresolved' = AllUnresolved'
      BY <2>1, <3>3, <3>4
    <3>6. \A p \in Items' : (IsJump(p) /\ External(p))' => p \in long'
      BY <3>1, <3>2, <3>3
    <3>7. aligns' \in [Section -> Alignments]
      BY <1>1, <2>1
    <3> QED
      BY <3>1, <3>5, <3>6, <3>7 DEF LInv
  <2> QED
    BY <2>2, <2>3
<1>5. CASE emit_irs
  <2>1. /\ phase = "emit" /\ phase' = "output" /\ unresolved' = unresolved
        /\ UNCHANGED <<irs, labels, address, aligns, starts, long>>
        /\ emitted' = [p \in Items |->
                         IF p \in Strays
                         THEN AddressIn(Without(Items \ Strays), p, CodeEnd[p[1] - 1], long)
                         ELSE AddressIn(Without(Strays), p, 0, long)]
    BY <1>5 DEF emit_irs, parseVars
  <2>2. ASSUME CodeInText PROVE emitted' = [p \in Items |-> AddressIn(irs, p, 0, long)]
    <3>1. Strays = {} /\ Without(Strays) = irs
      BY <1>1, <2>2, NothingGone DEF CodeInText
    <3> QED
      BY <2>1, <3>1
  <2>3. CodeInText' => emitted' = [p \in Items |-> AddressIn(irs, p, 0, long)]'
    BY <2>1, <2>2, SameLayout
  <2>4. /\ unresolved' = AllUnresolved' /\ aligns' = Widened(aligns)'
        /\ aligns' \in [Section -> Alignments]
        /\ \A p \in Items' : (IsJump(p) /\ External(p))' => p \in long'
    BY <1>1, <2>1, SameLayout DEF LInv
  <2> QED
    BY <2>1, <2>3, <2>4 DEF LInv
<1>6. CASE output_obj
  <2>1. /\ phase = "output" /\ phase' = "done" /\ unresolved' = unresolved
        /\ UNCHANGED <<irs, labels, address, aligns, starts, long>> /\ emitted' = emitted
        /\ obj' = [symbols |-> Symbols, relas |-> {Rela(u) : u \in unresolved}]
    BY <1>6 DEF output_obj, parseVars
  <2>2. \A u : Rela(u)' = Rela(u)
    BY <2>1 DEF Rela, SymbolValue
  <2>3. {Rela(u) : u \in unresolved}' = {Rela(u) : u \in unresolved}
    BY <2>1, <2>2
  <2>4. obj' = [symbols |-> Symbols', relas |-> {Rela(u) : u \in unresolved}']
    BY <2>1, <2>3, SameLayout
  <2> QED
    BY <1>1, <2>1, <2>4, SameLayout DEF LInv
<1>7. CASE UNCHANGED vars
  <2>1. /\ phase' = phase /\ unresolved' = unresolved /\ settle1' = settle1
        /\ UNCHANGED <<irs, labels, address, aligns, starts, long>>
        /\ emitted' = emitted /\ obj' = obj
    BY <1>7 DEF vars
  <2>2. \A u : Rela(u)' = Rela(u)
    BY <2>1 DEF Rela, SymbolValue
  <2>3. {Rela(u) : u \in unresolved}' = {Rela(u) : u \in unresolved}
    BY <2>1, <2>2
  <2> QED
    BY <1>1, <2>1, <2>3, SameLayout DEF LInv
<1> QED
  BY <1>2, <1>3, <1>4, <1>5, <1>6, <1>7 DEF AsmNext

(* An item is one of its section's.                                        *)
LEMMA ItemIs ==
  ASSUME irs \in [Section -> Seq(ItemRecord)], NEW p \in Items
  PROVE  /\ p[1] \in Section /\ p[2] \in DOMAIN irs[p[1]] /\ p = <<p[1], p[2]>>
         /\ Item(p) \in ItemRecord /\ Item(p).n \in Nat /\ Item(p).k \in ItemKind
         /\ Item(p).k = "ALIGN" => Item(p).n \in Alignments /\ Item(p).n \in Nat \ {0}
<1>1. \E s \in Section : \E k \in DOMAIN irs[s] : p = <<s, k>>
  BY DEF Items, ItemsOf
<1>2. PICK s \in Section : \E k \in DOMAIN irs[s] : p = <<s, k>>
  BY <1>1
<1>3. PICK k \in DOMAIN irs[s] : p = <<s, k>>
  BY <1>2
<1>4. p[1] = s /\ p[2] = k
  BY <1>3
<1>5. irs[s] \in Seq(ItemRecord)
  OBVIOUS
<1>6. irs[s][k] \in ItemRecord
  BY <1>5
<1>7. Item(p) = irs[s][k]
  BY <1>4 DEF Item
<1> QED
  BY <1>3, <1>4, <1>6, <1>7, AssemblerAssumption DEF ItemRecord, ItemKind

(* Where every item is, when the sections are written.                     *)
Landed ==
  /\ \A p \in Items : /\ emitted[p] \in Nat /\ starts[p[1]] \in Nat
                      /\ address[p] = starts[p[1]] + emitted[p]
  /\ \A s \in Section : irs[s] # <<>> => FirstAddress(s) = starts[s]
  /\ \A l \in DOMAIN labels :
       /\ LabelPlace(l) \in Items /\ LabelPlace(l)[1] = labels[l].section
       /\ labels[l].address = address[LabelPlace(l)]

(* The third pass puts every item where the first two had it.              *)
LEMMA AllLanded ==
  ASSUME IInv, PInv, LInv, phase = "done", CodeInText
  PROVE  Landed
<1>1. /\ irs \in [Section -> Seq(ItemRecord)] /\ src = <<>> /\ ~ err
      /\ aligns \in [Section -> Alignments] /\ aligns = Widened(aligns)
      /\ starts = SectionStarts(irs, long, aligns)
      /\ address = Addresses(irs, long, aligns)
      /\ emitted = [p \in Items |-> AddressIn(irs, p, 0, long)]
  BY DEF IInv, SettledConsistent, PInv, Parsing, LInv
<1>2. \A s \in Section : starts[s] \in Nat /\ starts[s] % aligns[s] = 0
  BY <1>1, StartsAligned
<1>3. \A s \in Section : \A m \in DOMAIN irs[s] :
        irs[s][m].k = "ALIGN" => /\ irs[s][m].n \in Nat \ {0}
                                 /\ starts[s] % irs[s][m].n = 0
  <2> SUFFICES ASSUME NEW s \in Section, NEW m \in DOMAIN irs[s], irs[s][m].k = "ALIGN"
               PROVE  irs[s][m].n \in Nat \ {0} /\ starts[s] % irs[s][m].n = 0
    OBVIOUS
  <2>1. irs[s][m] \in ItemRecord
    BY <1>1
  <2>2. irs[s][m].n \in Alignments
    BY <2>1 DEF ItemRecord
  <2>3. irs[s][m].n <= aligns[s]
    BY <1>1, WidenedIs
  <2>4. aligns[s] \in Alignments
    BY <1>1
  <2>5. aligns[s] % irs[s][m].n = 0 /\ aligns[s] \in Nat \ {0} /\ irs[s][m].n \in Nat \ {0}
    BY <2>2, <2>3, <2>4, AssemblerAssumption
  <2>6. starts[s] \in Nat /\ starts[s] % aligns[s] = 0
    BY <1>2
  <2> QED
    BY <2>5, <2>6, MultipleOfMultiple
<1>4. \A s \in Section : \A k \in 0 .. Len(irs[s]) :
        /\ Behind(irs, s, starts[s], long)[k] = starts[s] + Behind(irs, s, 0, long)[k]
        /\ Behind(irs, s, 0, long)[k] \in Nat
  <2> SUFFICES ASSUME NEW s \in Section
               PROVE  \A k \in 0 .. Len(irs[s]) :
                        /\ Behind(irs, s, starts[s], long)[k]
                             = starts[s] + Behind(irs, s, 0, long)[k]
                        /\ Behind(irs, s, 0, long)[k] \in Nat
    OBVIOUS
  <2>1. \A k \in 0 .. Len(irs[s]) :
          Behind(irs, s, starts[s], long)[k] = starts[s] + Behind(irs, s, 0, long)[k]
    <3>1. starts[s] \in Nat
      BY <1>2
    <3>2. \A m \in DOMAIN irs[s] : irs[s][m].k = "ALIGN" => starts[s] % irs[s][m].n = 0
      BY <1>3
    <3>3. PICK start \in Nat : start = starts[s]
      BY <3>1
    <3>4. /\ irs \in [Section -> Seq(ItemRecord)]
          /\ \A m \in DOMAIN irs[s] : irs[s][m].k = "ALIGN" => start % irs[s][m].n = 0
      BY <1>1, <3>2, <3>3
    <3>5. \A k \in 0 .. Len(irs[s]) :
            Behind(irs, s, start, long)[k] = start + Behind(irs, s, 0, long)[k]
      BY <3>4, BehindFrom, ZenonT(60)
    <3> QED
      BY <3>3, <3>5
  <2>2. 0 \in Nat
    OBVIOUS
  <2>3. Behind(irs, s, 0, long) \in [0 .. Len(irs[s]) -> Nat]
    BY <1>1, <2>2, BehindIs
  <2> QED
    BY <2>1, <2>3
<1>5. ASSUME NEW p \in Items
      PROVE  /\ emitted[p] \in Nat /\ starts[p[1]] \in Nat
             /\ address[p] = starts[p[1]] + emitted[p]
  <2>1. p[1] \in Section /\ p[2] \in DOMAIN irs[p[1]] /\ irs[p[1]] \in Seq(ItemRecord)
    BY <1>1, ItemIs
  <2> DEFINE k == IF irs[p[1]][p[2]].k = "ALIGN" THEN p[2] ELSE p[2] - 1
  <2>2. k \in 0 .. Len(irs[p[1]])
    BY <2>1
  <2>3. emitted[p] = Behind(irs, p[1], 0, long)[k]
    BY <1>1 DEF AddressIn
  <2>4. address[p] = Behind(irs, p[1], starts[p[1]], long)[k]
    BY <1>1 DEF Addresses, Items, AddressIn
  <2> HIDE DEF k
  <2> QED
    BY <1>2, <1>4, <2>1, <2>2, <2>3, <2>4
<1>6. ASSUME NEW s \in Section, irs[s] # <<>> PROVE FirstAddress(s) = starts[s]
  <2> DEFINE p == <<s, 1>>
             e == Behind(irs, s, 0, long)
  <2>1. irs[s] \in Seq(ItemRecord) /\ 1 \in 1 .. Len(irs[s]) /\ DOMAIN irs[s] = 1 .. Len(irs[s])
    BY <1>1, <1>6
  <2>2. p \in Items /\ p[1] = s /\ p[2] = 1
    BY <2>1 DEF Items, ItemsOf
  <2>3. FirstAddress(s) = address[p]
    BY <1>6 DEF FirstAddress
  <2> HIDE DEF p
  <2>4. address[p] = starts[s] + emitted[p]
    BY <1>5, <2>2
  <2>5. emitted[p] = e[IF irs[s][1].k = "ALIGN" THEN 1 ELSE 0]
    BY <1>1, <2>2 DEF AddressIn
  <2>6. e[0] = 0 /\ (irs[s][1].k = "ALIGN" => e[1] = ALIGN(0, irs[s][1].n))
    <3>1. irs \in [Section -> Seq(ItemRecord)] /\ s \in Section /\ 0 \in Nat
      BY <1>1
    <3>2. /\ e[0] = 0
          /\ \A k \in 1 .. Len(irs[s]) :
               e[k] = IF irs[s][k].k = "ALIGN" THEN ALIGN(e[k - 1], irs[s][k].n)
                      ELSE e[k - 1] + SizeOf(irs, <<s, k>>, long)
      BY ONLY <3>1, BehindIs
    <3> HIDE DEF e
    <3>3. PICK k \in 1 .. Len(irs[s]) : k = 1
      BY <2>1
    <3>4. k - 1 = 0
      BY <3>3
    <3> QED
      BY <3>2, <3>3, <3>4
  <2>7. ASSUME irs[s][1].k = "ALIGN" PROVE ALIGN(0, irs[s][1].n) = 0
    <3>1. irs[s][1].n \in Nat \ {0}
      BY <1>3, <2>1, <2>7
    <3>2. 0 % irs[s][1].n = 0 /\ 0 \in Nat
      BY <3>1
    <3> QED
      BY <3>1, <3>2, AlignIs
  <2>8. emitted[p] = 0
    BY <2>5, <2>6, <2>7
  <2> QED
    BY <1>2, <2>3, <2>4, <2>8
<1>7. ASSUME NEW l \in DOMAIN labels
      PROVE  /\ LabelPlace(l) \in Items /\ LabelPlace(l)[1] = labels[l].section
             /\ labels[l].address = address[LabelPlace(l)]
  <2>1. AlreadyDefined(l) /\ OnePlace
    <3>1. Known(l) /\ OnePlace
      BY <1>1 DEF PInv, AllKnown
    <3>2. DOMAIN src = {}
      BY <1>1
    <3> QED
      BY <3>1, <3>2 DEF Known
  <2>2. PICK p \in Items : IsPlace(p, l) /\ p[1] = labels[l].section
    BY <2>1 DEF OnePlace
  <2>3. \A q \in Items : IsPlace(q, l) => q = p
    BY <2>1, <2>2 DEF OnePlace
  <2>4. LabelPlace(l) = p
    BY <2>2, <2>3 DEF LabelPlace, IsPlace
  <2>5. LabelAddress(irs, l, address) = address[p]
    <3> DEFINE places == {q \in ItemsOf(irs) : irs[q[1]][q[2]].k = "LABEL" /\ irs[q[1]][q[2]].l = l}
    <3>1. places = {p}
      BY <2>2, <2>3 DEF Items, IsPlace, Item
    <3>2. p[1] \in Section /\ p[2] \in Nat
      BY <1>1, ItemIs
    <3> DEFINE last(q) == \A r \in places : r[1] < q[1] \/ (r[1] = q[1] /\ r[2] <= q[2])
    <3>3. LabelAddress(irs, l, address) = address[CHOOSE q \in places : last(q)]
      BY DEF LabelAddress
    <3> HIDE DEF places
    <3>4. last(p)
      BY <3>1, <3>2
    <3> HIDE DEF last
    <3>5. (CHOOSE q \in places : last(q)) = p
      BY <3>1, <3>4
    <3> QED
      BY <3>3, <3>5
  <2>6. labels[l].address = LabelAddress(irs, l, address)
    BY <2>1 DEF IInv, SettledConsistent, AlreadyDefined
  <2> QED
    BY <2>2, <2>4, <2>5, <2>6
<1> QED
  BY <1>5, <1>6, <1>7 DEF Landed

(* In what was written, every jump, call and lea within a section ends up  *)
(* at its label.                                                           *)
LEMMA LandedJumps ==
  ASSUME IInv, PInv, LInv
  PROVE  JumpsLand
<1> SUFFICES ASSUME phase = "done", CodeInText, NEW p \in Items,
                    Item(p).k \in {"JMP", "JCC", "CALL", "LEA"}, ~ External(p), ~ OtherSection(p)
             PROVE  emitted[p] + SizeOf(irs, p, long) + disp[p]
                      = emitted[LabelPlace(Item(p).l)] + Item(p).n
  BY DEF JumpsLand
<1> DEFINE l == Item(p).l
           q == LabelPlace(l)
           size == SizeOf(irs, p, long)
<1>1. Landed
  BY AllLanded
<1>2. irs \in [Section -> Seq(ItemRecord)] /\ src = <<>> /\ ~ err
  BY DEF PInv, Parsing
<1>3. l \in DOMAIN labels
  BY DEF External
<1>4. labels[l].section = p[1]
  <2>1. CASE Item(p).k = "LEA"
    BY <2>1 DEF OtherSection
  <2>2. CASE Item(p).k \in {"JMP", "JCC", "CALL"}
    <3>1. TargetIn(l, p[1]) /\ Known(l)
      BY <1>3, <2>2 DEF PInv, LocalJumps, AllKnown
    <3>2. DOMAIN src = {}
      BY <1>2
    <3> QED
      BY <3>1, <3>2 DEF Known, TargetIn
  <2> QED
    BY <2>1, <2>2
<1>5. disp[p] = labels[l].address + Item(p).n - (address[p] + size)
  BY DEF IInv, SettledConsistent, Offset
<1>6. Item(p).n \in Nat /\ size \in Nat
  <2>1. Item(p).n \in Nat
    BY <1>2, ItemIs
  <2> QED
    BY <2>1 DEF SizeOf, Item
<1>7. /\ q \in Items /\ q[1] = p[1] /\ labels[l].address = address[q]
      /\ address[q] = starts[p[1]] + emitted[q] /\ address[p] = starts[p[1]] + emitted[p]
      /\ emitted[p] \in Nat /\ emitted[q] \in Nat /\ starts[p[1]] \in Nat
  BY <1>1, <1>3, <1>4 DEF Landed
<1> HIDE DEF l, q, size
<1>8. emitted[p] + size + disp[p] = emitted[q] + Item(p).n
  BY <1>5, <1>6, <1>7
<1> QED
  BY <1>8 DEF l, q, size

(* The three invariants hold in every state, for any sources that keep to  *)
(* SourcesAssumption.                                                      *)
LEMMA AssemblerInv == AsmSpec => [](IInv /\ PInv /\ LInv)
<1>1. AsmInit => IInv /\ PInv /\ LInv
  BY AsmInitIInv, AsmInitPInv, AsmInitLInv
<1>2. IInv /\ [AsmNext]_vars => IInv'
  BY ParseIInv, CalcIInv, ResolveIInv, OutputIInv, StutterIInv DEF AsmNext
<1>3. (IInv /\ PInv /\ LInv) /\ [AsmNext]_vars => (IInv /\ PInv /\ LInv)'
  BY <1>2, NextPInv, NextLInv
<1>. QED  BY <1>1, <1>3, PTL DEF AsmSpec

(* JumpsLand: calc_label_address lays the sections out one behind the      *)
(* other, emit_irs each one from 0, with jumps of two lengths and          *)
(* alignments in between; what a jump skips is the same in both.           *)
THEOREM JumpsLandTheorem == AsmSpec => []JumpsLand
<1>1. IInv /\ PInv /\ LInv => JumpsLand
  BY LandedJumps
<1>. QED  BY <1>1, AssemblerInv, PTL

(* An item that is left to the linker: its place, and its label's.         *)
LEMMA Placed ==
  ASSUME PInv, Landed, NEW p \in Items
  PROVE  /\ FirstAddress(p[1]) = starts[p[1]]
         /\ address[p] - FirstAddress(p[1]) = emitted[p] /\ emitted[p] \in Nat
         /\ Item(p).n \in Nat
         /\ \A l \in DOMAIN labels :
              /\ labels[l].address - FirstAddress(labels[l].section) = emitted[LabelPlace(l)]
              /\ SymbolValue(l) = emitted[LabelPlace(l)]
              /\ emitted[LabelPlace(l)] \in Nat /\ labels[l].address \in Nat
              /\ FirstAddress(labels[l].section) \in Nat
<1>1. irs \in [Section -> Seq(ItemRecord)]
  BY DEF PInv, Parsing
<1>2. ASSUME NEW q \in Items
      PROVE  /\ FirstAddress(q[1]) = starts[q[1]] /\ FirstAddress(q[1]) \in Nat
             /\ emitted[q] \in Nat /\ address[q] = FirstAddress(q[1]) + emitted[q]
  <2>1. q[1] \in Section /\ q[2] \in DOMAIN irs[q[1]]
    BY <1>1, ItemIs
  <2>2. irs[q[1]] # <<>>
    BY <2>1
  <2> QED
    BY <2>1, <2>2 DEF Landed
<1>3. Item(p).n \in Nat
  BY <1>1, ItemIs
<1>4. ASSUME NEW l \in DOMAIN labels
      PROVE  /\ labels[l].address - FirstAddress(labels[l].section) = emitted[LabelPlace(l)]
             /\ SymbolValue(l) = emitted[LabelPlace(l)]
             /\ emitted[LabelPlace(l)] \in Nat /\ labels[l].address \in Nat
             /\ FirstAddress(labels[l].section) \in Nat
  <2>1. PICK q \in Items : /\ q = LabelPlace(l) /\ q[1] = labels[l].section
                           /\ labels[l].address = address[q]
    BY DEF Landed
  <2>2. SymbolValue(l) = labels[l].address - starts[labels[l].section]
    BY DEF SymbolValue
  <2> QED
    BY <1>2, <2>1, <2>2
<1>5. address[p] - FirstAddress(p[1]) = emitted[p]
  BY <1>2
<1> QED
  BY <1>2, <1>3, <1>4, <1>5

(* Its relocation leads where the line means, in each of the four ways in  *)
(* which output_obj writes one.                                            *)
LEMMA RelaLeads ==
  ASSUME IInv, PInv, LInv, phase = "done", CodeInText, NEW p \in Items, HasLabel(p),
         Item(p).k = "QUAD" \/ External(p) \/ OtherSection(p)
  PROVE  Leads(Rela(Unresolved(p)), p)
<1> DEFINE it == Item(p)
           l == it.l
           size == SizeOf(irs, p, long)
<1> SUFFICES ASSUME NEW u, u = Unresolved(p), NEW r, r = Rela(u)
             PROVE  Leads(r, p)
  OBVIOUS
<1>1. Landed
  BY AllLanded
<1>2. /\ address[p] - FirstAddress(p[1]) = emitted[p] /\ emitted[p] \in Nat /\ it.n \in Nat
      /\ address[p] \in Nat /\ FirstAddress(p[1]) \in Nat
      /\ \A m \in DOMAIN labels :
           /\ labels[m].address - FirstAddress(labels[m].section) = emitted[LabelPlace(m)]
           /\ SymbolValue(m) = emitted[LabelPlace(m)]
           /\ emitted[LabelPlace(m)] \in Nat /\ labels[m].address \in Nat
           /\ FirstAddress(labels[m].section) \in Nat
  BY <1>1, Placed DEF Landed
<1>3. u.label = l /\ u.src_section = p[1]
  BY DEF Unresolved
<1>4. r.section = p[1] /\ r.r_offset = u.offset
  BY <1>3 DEF Rela
<1>5. size = CASE it.k = "JMP" -> (IF p \in long THEN 5 ELSE 2)
               [] it.k = "JCC" -> (IF p \in long THEN 6 ELSE 2)
               [] it.k = "CALL" -> 5 [] it.k = "LEA" -> 7 [] it.k = "QUAD" -> 8
  BY DEF HasLabel, SizeOf, Item
<1>6. it.k = "JCC" => ~ External(p)
  <2>1. it.k = "JCC" => Known(l)
    BY DEF PInv, AllKnown
  <2>2. src = <<>>
    BY DEF PInv, Parsing
  <2>3. DOMAIN src = {}
    BY <2>2
  <2> QED
    BY <2>1, <2>3 DEF Known, AlreadyDefined, External
<1>7. it.k = "JMP" /\ External(p) => p \in long
  BY DEF LInv, IsJump
<1>8. CASE it.k = "QUAD"
  <2>1. u.kind = "UNRES_ABS64" /\ u.add = it.n /\ u.offset = address[p] + 0 - FirstAddress(p[1])
    <3>1. u.kind = "UNRES_ABS64" /\ u.add = it.n
      BY <1>8 DEF Unresolved, OtherSection
    <3>2. u.offset = address[p] + 0 - FirstAddress(p[1])
      BY <1>8 DEF Unresolved
    <3> QED
      BY <3>1, <3>2
  <2>2. size = 8
    BY <1>5, <1>8
  <2>3. u.offset = emitted[p]
    BY <1>2, <2>1
  <2>4. r.type = "R_X86_64_64"
    BY <2>1 DEF Rela
  <2>5. CASE l \in DOMAIN labels /\ ~ labels[l].global
    <3>1. r.sym = <<"section", labels[l].section>> /\ r.r_addend = it.n + SymbolValue(l)
      BY <1>3, <2>1, <2>5 DEF Rela
    <3>2. r.sym[1] = "section"
      BY <3>1
    <3>3. r.r_addend = it.n + emitted[LabelPlace(l)]
      BY <1>2, <2>5, <3>1
    <3> QED
      BY <1>2, <1>4, <1>8, <2>2, <2>3, <2>4, <2>5, <3>1, <3>2, <3>3 DEF Leads
  <2>6. CASE ~ (l \in DOMAIN labels /\ ~ labels[l].global)
    <3>1. r.sym = <<"name", l>> /\ r.r_addend = it.n
      BY <1>3, <2>1, <2>6 DEF Rela
    <3>2. r.sym[1] # "section"
      BY <3>1
    <3> QED
      BY <1>2, <1>4, <1>8, <2>2, <2>3, <2>4, <3>1, <3>2 DEF Leads
  <2> QED
    BY <2>5, <2>6
<1>9. CASE OtherSection(p)
  <2>1. it.k = "LEA" /\ l \in DOMAIN labels
    BY <1>9 DEF OtherSection, External
  <2>2. /\ u.kind = "UNRES_OTHER_SECTION" /\ u.offset = address[p] + 3 - FirstAddress(p[1])
        /\ u.add = labels[l].address + it.n - FirstAddress(labels[l].section) - 4
    <3>1. u.kind = "UNRES_OTHER_SECTION"
      BY <1>9, <2>1 DEF Unresolved, OtherSection
    <3>2. u.offset = address[p] + 3 - FirstAddress(p[1])
      BY <2>1 DEF Unresolved
    <3>3. u.add = labels[l].address + it.n - FirstAddress(labels[l].section) - 4
      BY <1>9, <2>1 DEF Unresolved
    <3> QED
      BY <3>1, <3>2, <3>3
  <2>3. size = 7
    BY <1>5, <2>1
  <2>4. u.offset = emitted[p] + 3
    BY <1>2, <2>2
  <2>5. u.add = emitted[LabelPlace(l)] + it.n - 4
    BY <1>2, <2>1, <2>2
  <2>6. r.type = "R_X86_64_PC32" /\ r.sym = <<"section", labels[l].section>> /\ r.r_addend = u.add
    BY <1>3, <2>2 DEF Rela
  <2>7. r.sym[1] = "section"
    BY <2>6
  <2>8. emitted[LabelPlace(l)] \in Nat
    BY <1>2, <2>1
  <2> QED
    BY <1>2, <1>4, <2>1, <2>3, <2>4, <2>5, <2>6, <2>7, <2>8 DEF Leads
<1>10. CASE it.k # "QUAD" /\ External(p) /\ ~ OtherSection(p)
  <2> DEFINE field == IF it.k = "LEA" THEN 3 ELSE 1
  <2>1. /\ u.kind \in {"UNRES_EXTERN", "UNRES_EXTERN_PC32"}
        /\ u.offset = address[p] + field - FirstAddress(p[1]) /\ u.add = it.n - 4
    BY <1>10 DEF Unresolved
  <2>2. size = field + 4
    BY <1>5, <1>6, <1>7, <1>10 DEF HasLabel
  <2>3. u.offset = emitted[p] + field
    BY <1>2, <2>1
  <2>4. r.type # "R_X86_64_64" /\ r.sym = <<"name", l>> /\ r.r_addend = u.add
    BY <1>3, <2>1 DEF Rela
  <2>5. r.sym[1] # "section"
    BY <2>4
  <2>6. field \in Nat
    OBVIOUS
  <2> HIDE DEF field
  <2> QED
    BY <1>2, <1>4, <1>10, <2>1, <2>2, <2>3, <2>4, <2>5, <2>6 DEF Leads
<1> QED
  BY <1>8, <1>9, <1>10

(* ObjectDescribesCode: relocations and symbols are taken from the layout  *)
(* of the passes, and say what is true of the sections that emit_irs wrote *)
(* by itself.                                                              *)
THEOREM ObjectTheorem == AsmSpec => []ObjectDescribesCode
<1>1. ASSUME IInv, PInv, LInv PROVE ObjectDescribesCode
  <2> SUFFICES ASSUME phase = "done", CodeInText
               PROVE  /\ \A p \in Items :
                           HasLabel(p) /\ (Item(p).k = "QUAD" \/ External(p) \/ OtherSection(p))
                             => \E r \in obj.relas : Leads(r, p)
                      /\ \A r \in obj.relas : \E p \in Items : HasLabel(p) /\ Leads(r, p)
                      /\ \A s \in obj.symbols : s.value = emitted[LabelPlace(s.name)]
    BY DEF ObjectDescribesCode
  <2> DEFINE left(p) == HasLabel(p) /\ (Item(p).k = "QUAD" \/ External(p) \/ OtherSection(p))
  <2>1. \A p : left(p) <=> (Item(p).k = "QUAD" \/ (HasLabel(p) /\ (External(p) \/ OtherSection(p))))
    BY DEF HasLabel
  <2>2. /\ obj.symbols = Symbols
        /\ obj.relas = {Rela(u) : u \in unresolved}
        /\ unresolved = AllUnresolved
    BY <1>1 DEF LInv
  <2>3. \A u : u \in unresolved <=> \E p \in Items : left(p) /\ u = Unresolved(p)
    BY <2>1, <2>2 DEF AllUnresolved
  <2>4. \A r : r \in obj.relas <=> \E p \in Items : left(p) /\ r = Rela(Unresolved(p))
    BY <2>2, <2>3
  <2>5. \A p \in Items : left(p) => HasLabel(p) /\ Leads(Rela(Unresolved(p)), p)
    BY <1>1, RelaLeads
  <2> HIDE DEF left
  <2>6. \A p \in Items : left(p) => \E r \in obj.relas : Leads(r, p)
    BY <2>4, <2>5
  <2>7. \A r \in obj.relas : \E p \in Items : HasLabel(p) /\ Leads(r, p)
    BY <2>4, <2>5
  <2>8. \A s \in obj.symbols : s.value = emitted[LabelPlace(s.name)]
    <3> SUFFICES ASSUME NEW s \in Symbols PROVE s.value = emitted[LabelPlace(s.name)]
      BY <2>2
    <3>1. PICK l \in DOMAIN labels : s.name = l /\ s.value = SymbolValue(l)
      BY DEF Symbols
    <3>2. Landed /\ LabelPlace(l) \in Items
      BY <1>1, AllLanded DEF Landed
    <3>3. SymbolValue(l) = emitted[LabelPlace(l)]
      BY <1>1, <3>2, Placed
    <3> QED
      BY <3>1, <3>3
  <2> QED
    BY <2>6, <2>7, <2>8 DEF left
<1>. QED  BY <1>1, AssemblerInv, PTL
=============================================================================
