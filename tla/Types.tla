-------------------------------- MODULE Types --------------------------------
(***************************************************************************)
(* C types as cc1 and wcc share them (type.c): sizes, alignments, which    *)
(* types are the same, which convert, and where the members of a structure *)
(* lie, bit-fields included.                                               *)
(*                                                                         *)
(* A byte has 2 bits (TARGET_CHAR_BIT), so that a char has 2, a short 4,   *)
(* an int 8, a long, a long long and a pointer 16.  A structure type holds *)
(* its layout, as type->struct_.info does; two structures are the same     *)
(* when their tags are.                                                    *)
(***************************************************************************)
EXTENDS Integers, Sequences, SequencesExt, Bitwise, Results

TARGET_CHAR_BIT == 2

FX_CHAR  == 0
FX_SHORT == 1
FX_INT   == 2
FX_LONG  == 3
FX_LLONG == 4
FX_ENUM  == 5      \* also what is left of a kind counted past FX_LLONG

fixnum_size(kind) == <<1, 2, 4, 8, 8, 4>>[kind + 1]

get_fixnum_type(kind, uns) == [k |-> "fix", kind |-> kind, uns |-> uns, const |-> FALSE]
ptrof(t)        == [k |-> "ptr", to |-> t, const |-> FALSE]
arrayof(t, n)   == [k |-> "array", of |-> t, length |-> n, const |-> FALSE]
structof(n, i)  == [k |-> "struct", tag |-> n, info |-> i, const |-> FALSE]
funcof(r, ps)   == [k |-> "func", ret |-> r, params |-> ps, const |-> FALSE]
constof(t)      == [t EXCEPT !.const = TRUE]

tyChar  == get_fixnum_type(FX_CHAR, FALSE)
tyInt   == get_fixnum_type(FX_INT, FALSE)
tyBool  == tyInt
tySize  == get_fixnum_type(FX_LONG, TRUE)
tySSize == get_fixnum_type(FX_LONG, FALSE)
tyVoid  == [k |-> "void", const |-> FALSE]

is_number(t)    == t.k = "fix"
is_char_type(t) == t.k = "fix" /\ t.kind = FX_CHAR
ptr_or_array(t) == t.k \in {"ptr", "array"}
scalar(t)       == t.k \in {"fix", "ptr"}
PointedTo(t)    == IF t.k = "ptr" THEN t.to ELSE t.of
array_to_ptr(t) == IF t.k = "array" THEN ptrof(t.of) ELSE t
is_void_ptr(t)  == t.k = "ptr" /\ t.to.k = "void"
qualified_type(t, const) == [t EXCEPT !.const = @ \/ const]

RECURSIVE type_size(_), align_size(_), Unqualified(_)
type_size(t) == CASE t.k = "fix"    -> fixnum_size(t.kind)
                  [] t.k = "ptr"    -> fixnum_size(FX_LONG)
                  [] t.k = "array"  -> type_size(t.of) * t.length
                  [] t.k = "struct" -> t.info.size
                  [] t.k \in {"void", "func"} -> 1
align_size(t) == CASE t.k = "fix"    -> fixnum_size(t.kind)
                   [] t.k = "ptr"    -> fixnum_size(FX_LONG)
                   [] t.k = "array"  -> align_size(t.of)
                   [] t.k = "struct" -> t.info.align
                   [] t.k \in {"void", "func"} -> 1
BitsOf(t) == type_size(t) * TARGET_CHAR_BIT

\* The type without its qualifiers and those of what it points to.
Unqualified(t) ==
  LET u == [t EXCEPT !.const = FALSE]
  IN  CASE t.k = "ptr"   -> [u EXCEPT !.to = Unqualified(@)]
        [] t.k = "array" -> [u EXCEPT !.of = Unqualified(@)]
        [] OTHER -> u

same_type(t1, t2) == t1 = t2
same_type_without_qualifier(t1, t2) == Unqualified(t1) = Unqualified(t2)

\* Whether src converts to dst; zero: the expression is the constant 0.
can_cast(dst, src, zero, explicit) ==
  \/ same_type(dst, src)
  \/ dst.k = "struct" /\ same_type_without_qualifier(dst, src)
  \/ dst.k = "void" /\ explicit
  \/ dst.k = "fix" /\ src.k = "fix"
  \/ dst.k = "fix" /\ src.k \in {"ptr", "array", "func"} /\ explicit
  \/ dst.k = "ptr" /\ src.k = "fix" /\ (zero \/ explicit)
  \/ /\ dst.k = "ptr" /\ ptr_or_array(src)
     /\ LET d == dst.to
            s == PointedTo(src)
        IN  \/ explicit
            \/ s.const /\ ~d.const /\ is_char_type(s) /\ (is_char_type(d) \/ d.k = "void")
            \/ (~s.const \/ d.const) /\ (d.k = "void" \/ s.k = "void")
            \/ (~s.const \/ d.const) /\ same_type_without_qualifier(d, s)
  \/ dst.k = "ptr" /\ src.k = "func" /\ (explicit \/ dst.to.k = "void" \/ same_type(dst.to, src))
  \/ dst.k = "array" /\ ptr_or_array(src) /\ explicit

----------------------------------------------------------------------------
(* Numbers and bit patterns.                                                *)
Pattern(v, bits) == v % 2^bits
Signed(b, bits)  == IF b < 2^(bits - 1) THEN b ELSE b - 2^bits
\* wrap_value() of util.c leaves a value of the widest size as it is: it has
\* the bits of a Fixnum.
wrap_value(v, size, uns) ==
  LET bits == size * TARGET_CHAR_BIT
      b    == Pattern(v, bits)
  IN  IF uns /\ size < fixnum_size(FX_LLONG) THEN b ELSE Signed(b, bits)

\* What an object of type t holds when its bits are those of v.
Number(v, t) == Where(Pattern(v, BitsOf(t)), LAMBDA b :
                  IF t.k # "fix" \/ t.uns THEN b ELSE Signed(b, BitsOf(t)))

ALIGN(x, a) == ((x + a - 1) \div a) * a
MinOf(S) == CHOOSE x \in S : \A y \in S : x <= y

----------------------------------------------------------------------------
(* Layout of a structure.  A member is declared with a type and, when it is *)
(* a bit-field, a width (0 otherwise); it is given an offset and a bit-     *)
(* field a position in the unit of kind base_kind it is stored in.          *)
MemberDecl(name, type, width) ==
  [name |-> name, type |-> type, width |-> width, offset |-> 0, position |-> 0, base_kind |-> FX_CHAR]

\* The kind a group of bit-fields starts with: the first member's if the
\* place is aligned for it, else the widest that is aligned there.
FirstKind(member, size) ==
  Where(size % align_size(member.type), LAMBDA rem :
  LET lsb  == MinOf({s \in {1, 2, 4, 8} : (rem \div s) % 2 = 1})
      down == {k \in {FX_SHORT, FX_INT} : lsb >= fixnum_size(k)}
  IN  CASE rem = 0 -> member.type.kind
        [] rem # 0 /\ lsb < fixnum_size(FX_INT) ->
             IF down = {} THEN FX_CHAR ELSE CHOOSE k \in down : \A j \in down : j <= k
        [] rem # 0 /\ lsb >= fixnum_size(FX_INT) ->
             MinOf({k \in FX_INT..FX_LLONG : lsb <= fixnum_size(k)}))

\* Puts the bit-fields from member i into one unit at offset `size', which
\* grows as far as there are kinds.  next: the member that did not fit.
RECURSIVE PackUnit(_, _, _, _, _)
PackUnit(ms, i, kind, size, pos) ==
  LET bits(k) == fixnum_size(k) * TARGET_CHAR_BIT
      need    == pos + ms[i].width
      wider   == {k \in (kind + 1)..FX_LLONG : need <= bits(k)}
      k2      == IF need <= bits(kind) THEN kind ELSE MinOf(wider)
  IN  CASE i > Len(ms)                -> [ms |-> ms, next |-> i, unit |-> kind, base |-> kind]
        [] i <= Len(ms) /\ (pos = bits(kind) \/ ms[i].width = 0)
                                      -> [ms |-> ms, next |-> i, unit |-> kind, base |-> kind]
        [] i <= Len(ms) /\ pos # bits(kind) /\ ms[i].width # 0 ->
             IF need > bits(kind) /\ wider = {}
             THEN [ms |-> ms, next |-> i, unit |-> kind, base |-> FX_ENUM]
             ELSE PackUnit([ms EXCEPT ![i].offset = size, ![i].position = pos], i + 1, k2, size, need)

(* Mutant: the group is taken to be of the kind it starts with. *)
calc_bitfield_sizeFirst(ms, i, size) ==
  Where(PackUnit(ms, i, FirstKind(ms[i], size), size, 0), LAMBDA p :
  Where(fixnum_size(FirstKind(ms[i], size)), LAMBDA a :
    [ms |-> p.ms, next |-> p.next, size |-> ALIGN(size + a, a), align |-> a]))

\* One group of bit-fields, from member i.
calc_bitfield_size(ms, i, size) ==
  Where(PackUnit(ms, i, FirstKind(ms[i], size), size, 0), LAMBDA p :
  LET a == fixnum_size(p.unit)
  IN  [ms    |-> [j \in DOMAIN ms |-> IF j \in i..(p.next - 1)
                                      THEN [p.ms[j] EXCEPT !.base_kind = p.base] ELSE p.ms[j]] \o <<>>,
       next  |-> p.next,
       size  |-> ALIGN(size + a, a),
       align |-> a])

MaxOf(a, b) == IF a > b THEN a ELSE b

RECURSIVE PlaceMembers(_, _, _, _, _)
PlaceMembers(ms, i, is_union, size, max_align) ==
  IF i > Len(ms)
  THEN [members |-> ms, is_union |-> is_union, size |-> ALIGN(size, max_align), align |-> max_align]
  ELSE LET t  == ms[i].type
           at == ALIGN(size, align_size(t))
       IN  CASE is_union -> PlaceMembers([ms EXCEPT ![i].offset = 0], i + 1, is_union,
                                         MaxOf(size, type_size(t)), MaxOf(max_align, align_size(t)))
             [] ~is_union /\ ms[i].width > 0 ->
                  Where(calc_bitfield_size(ms, i, size), LAMBDA g :
                    PlaceMembers(g.ms, g.next, is_union, g.size, MaxOf(max_align, g.align)))
             [] ~is_union /\ ms[i].width = 0 ->
                  PlaceMembers([ms EXCEPT ![i].offset = at], i + 1, is_union,
                               at + type_size(t), MaxOf(max_align, align_size(t)))

\* calc_struct_size(): what a structure's info says when it is complete.
create_struct_info(ms, is_union) == PlaceMembers(ms, 1, is_union, 0, 1)

\* parse_struct(): a definition is refused for two members of one name or a
\* width its type does not have.
parse_struct_ok(ms) ==
  /\ \A i, j \in DOMAIN ms : i # j /\ ms[i].name # "" => ms[i].name # ms[j].name
  /\ \A i \in DOMAIN ms : ms[i].width \in 0..BitsOf(ms[i].type)
=============================================================================
