------------------------------ MODULE FrontEnd ------------------------------
(***************************************************************************)
(* An expression statement through the front end: written as tokens,       *)
(* parsed to a tree (parser_expr.c), and the tree executed on some memory. *)
(* The definition of an object x: its initializer parsed, flattened and    *)
(* executed, or written out when the object is static.                     *)
(***************************************************************************)
EXTENDS Initializers, CInitial

CONSTANTS Programs,      \* declared objects, and expressions and initializers written with them
          Memories,      \* the memory before, a sequence of bytes each
          Answers,       \* what the called functions answer
          MinRegSizes    \* the targets

VARIABLES phase,   \* source, parsed, executed; declared, initialized
          source,  \* the expression or initializer as written
          parser,  \* the parser after it, or what a declaration gave
          ran      \* <<before, after>>: the execution

(* Where cc1 is known not to follow C, so that programs are left out: an   *)
(* unsigned char, short or bit-field is promoted to unsigned int, two      *)
(* narrow operands of a comparison are not promoted, constants of unlike   *)
(* signedness are folded in the type of one of them, ?: takes the type of  *)
(* its last operand when both have one rank, a bit-field keeps its own     *)
(* type where it is stored in a wider unit, and the value of a plain       *)
(* assignment to one is that of the right operand.                         *)
Narrow(c) == c.t.k = "fix" /\ (c.t.kind < FX_INT \/ c.bf.width > 0)
UnsignedNarrow(c) == Narrow(c) /\ c.t.uns
RECURSIVE ConstOnly(_)
ConstOnly(e) == e.k = "lit" \/ (e.k = "bin" /\ e.op # "," /\ ConstOnly(e.l) /\ ConstOnly(e.r))
                \/ (e.k \in {"un", "cast"} /\ ConstOnly(e.s)) \/ e.k = "sizeof"
RECURSIVE AsCIs(_)
\* The operands of a binary operator, or of a compound assignment.
PairAsC(e, c, d) ==
  \/ c.t.k # "fix" \/ d.t.k # "fix"
  \/ /\ ~(UnsignedNarrow(c) /\ (Narrow(d) \/ c.bf.width > 0))
     /\ ~(UnsignedNarrow(d) /\ (Narrow(c) \/ d.bf.width > 0))
     /\ ConstOnly(e.l) /\ ConstOnly(e.r) => c.t = d.t /\ ~c.t.uns
FieldAsC(c) == c.bf.width > 0 => c.bf.base_kind # FX_ENUM /\ c.bf.position + c.bf.width <= BitsOf(c.t)
StoresField(e) == e.k = "set" /\ e.op = "=" /\ CType(e.l).bf.width > 0
AsCIs(e) ==
  Where(CType(e.l), LAMBDA c :
  Where(CType(e.r), LAMBDA d :
  Where(CType(e.s), LAMBDA s :
    CASE e.k \in {"lit", "id"} -> TRUE
      [] e.k = "bin" -> AsCIs(e.l) /\ AsCIs(e.r) /\ (e.op \in {"&&", "||", ","} \/ PairAsC(e, c, d))
      [] e.k = "set" -> AsCIs(e.l) /\ AsCIs(e.r) /\ (e.op = "=" \/ PairAsC(e, c, d))
                        /\ ~StoresField(e.r)
      [] e.k = "un"  -> AsCIs(e.s) /\ ~(e.op \in {"-", "~", "+"} /\ (UnsignedNarrow(s) \/ (ConstOnly(e.s) /\ s.t.uns)))
      [] e.k = "cond" -> /\ AsCIs(e.c) /\ AsCIs(e.l) /\ AsCIs(e.r)
                         /\ c.t.k = "fix" /\ d.t.k = "fix" /\ c.t.kind = d.t.kind => c.t.uns = d.t.uns
      [] e.k = "idx" -> AsCIs(e.l) /\ AsCIs(e.r)
      [] e.k = "fld" -> AsCIs(e.s) /\ FieldAsC(CType(e))
      [] e.k = "app" -> \A i \in DOMAIN e.args : AsCIs(e.args[i])
      [] e.k \in {"cast", "inc", "sizeof"} -> AsCIs(e.s))))

(* Initializers where cc1 is known to differ and that are left out: items  *)
(* too many, a second initializer for the same place or for a union, a     *)
(* designator whose value leaves out the braces of an aggregate, one that  *)
(* follows items that left out braces, one for a member of an anonymous    *)
(* structure beside others, {} for an array of characters, a string in     *)
(* braces with more items, a structure in braces, a string without room    *)
(* for its last zero in a local array, and a bit-field in a static object  *)
(* or that is given anything but a constant.                               *)
Prefix(p, q) == Len(p) <= Len(q) /\ SubSeq(q, 1, Len(p)) = p
HasFields(t) == t.k = "struct" /\ \E i \in DOMAIN t.info.members : t.info.members[i].width > 0
SameStruct(t, x) == t.k = "struct" /\ x.k = "expr" /\ x.e.k = "id" /\ CType(x.e).t = t
RECURSIVE InitAsCIs(_, _, _)
InitAsCIs(c, x, static) ==
  Where(ItemPlaces(c, x.l, <<1>>), LAMBDA all :
  LET l    == x.l
      v(i) == ValueOf(l[i])
      flat(i) == IF c.t.k = "array" THEN \A j \in 1..i : Len(all[j]) = 1
                 ELSE Len(all[i]) > 1 => Advance(SubAt(c, <<all[i][1]>>), Tail(all[i])) = <<>>
  IN  IF x.k = "expr" THEN x.e.k = "str" /\ c.t.k = "array" /\ ~static => Len(x.e.chars) <= type_size(c.t)
      ELSE IF HasFields(c.t) /\ static THEN FALSE
      ELSE IF scalar(c.t) \/ l = <<>> THEN ~(c.t.k = "array" /\ is_char_type(c.t.of))
      ELSE IF l[1].k = "expr" /\ l[1].e.k = "str" THEN Len(l) = 1 /\ InitAsCIs(c, l[1], static)
      ELSE /\ Len(all) + 1 >= Len(l)
           \* the last item has no place: it is to be refused
           /\ Len(all) < Len(l) => /\ c.t.k = "struct" => ~c.t.info.is_union
                                   /\ \A i \in DOMAIN all : Len(all[i]) = 1
           /\ HasFields(c.t) => \A i \in DOMAIN l : v(i).k = "expr" /\ ConstOnly(v(i).e)
           /\ ~SameStruct(c.t, l[1])
           /\ \A i \in DOMAIN all :
                /\ all[i] # <<>>
                /\ Designated(l[i]) => Len(all[i]) = 1 \/ (l[i].k = "field" /\ Len(l) = 1 /\ all[i] \in FieldPath(c.t.info, l[i].f))
                /\ i > 1 /\ Designated(l[i]) => flat(i - 1) /\ ~(c.t.k = "struct" /\ c.t.info.is_union)
                /\ \A j \in DOMAIN all : i # j => ~Prefix(all[i], all[j])
                /\ InitAsCIs(SubAt(c, all[i]), v(i), static))

vars == <<scope, minregsize, phase, source, parser, ran>>

\* "static": as cc1 for x64 writes it, "wasm": as wcc does.
Storages == IF minregsize = 1 THEN {"local", "static"} ELSE {"wasm"}
Init == /\ phase = "source"
        /\ minregsize \in MinRegSizes
        /\ \E p \in Programs :
             /\ scope = p.scope
             /\ \/ source \in p.exprs /\ AsCIs(source)
                \/ \E x \in p.decls, st \in Storages : source = [k |-> "decl", storage |-> st, init |-> x]
        /\ parser = ParserStart(<<>>)
        /\ ran = <<>>

Parse == /\ phase = "source" /\ source.k # "decl"
         /\ phase' = "parsed"
         /\ parser' = Parsed(Written(source, 1))
         /\ UNCHANGED <<scope, minregsize, source, ran>>

Execute == /\ phase = "parsed"
           /\ ~parser.err
           /\ phase' = "executed"
           /\ \E mem \in Memories :
                Where(Start(mem, parser.tmps, Answers), LAMBDA s : ran' = <<s, Eval(parser.e, s)>>)
           /\ UNCHANGED <<scope, minregsize, source, parser>>

Declare == /\ phase = "source" /\ source.k = "decl"
           /\ phase' = "declared"
           /\ Where(consume(parse_initializer(ParserStart(WrittenInit(source.init))), "eof"), LAMBDA w :
                parser' = Declared(scope["x"].type, source.storage, w))
           /\ UNCHANGED <<scope, minregsize, source, ran>>

\* The variable is defined, or the program loaded.
Initialize ==
  /\ phase = "declared" /\ parser.ok
  /\ phase' = "initialized"
  /\ \E mem \in Memories :
       LET x == scope["x"].addr
           local  == source.storage = "local"
       IN  Where(Start(mem, IF local THEN parser.tmps ELSE <<>>, Answers), LAMBDA before :
       Where(IF source.storage = "wasm" THEN DataSegment(parser.type, parser.init)
           ELSE DataDirectives(parser.type, parser.init), LAMBDA bytes :
         ran' = <<before, IF local THEN RunStmts(parser.stmts, gen_clear_local_var(parser.type, x, before))
                          ELSE [before EXCEPT !.mem = Overwrite(@, x, bytes)]>>))
  /\ UNCHANGED <<scope, minregsize, source, parser>>

Next == Parse \/ Execute \/ Declare \/ Initialize
Spec == Init /\ [][Next]_vars

----------------------------------------------------------------------------
(* An expression is refused exactly when it violates a constraint of C:    *)
(* parse_error() in parser_expr.c.  Conversions between a pointer and a    *)
(* number or another pointer are allowed, cc1 warns of them.               *)
ConstraintsDiagnosed == phase = "parsed" => parser.err = Bad(CType(source))

(* The memory after an expression, the calls it makes with their arguments *)
(* in order, and its value are those C gives it, wherever C gives any:     *)
(* parse_expr (parser_expr.c:2165) with all that converts, folds, negates  *)
(* and rewrites on the way.                                                *)
ExpressionMeansAsC ==
  phase = "executed" =>
    Where(CEval(source, ran[1]), LAMBDA c :
    LET r == ran[2]
    IN  Where(CType(source).t, LAMBDA t :
      c.o # "ub" => /\ r.o = c.o /\ r.mem = c.mem /\ r.trace = c.trace
                    /\ c.o = "run" /\ scalar(t) /\ ~StoresField(source) => Number(r.v, t) = c.v))

(* A definition is accepted when C accepts it, and the object then holds   *)
(* what C says, the rest of it zero, and nothing around it has changed.    *)
Initialized(mem) ==
  Where(CComplete(scope["x"].type, source.init), LAMBDA t :
    CInit(Object(t, scope["x"].addr), source.init, Start(mem, <<>>, Answers)))
Storable == source.storage = "local" \/ Constant(source.init)
Comparable == Where(CComplete(scope["x"].type, source.init), LAMBDA t :
                InitAsCIs(Object(t, 1), source.init, source.storage # "local"))
InitializedAsC ==
  phase \in {"declared", "initialized"} /\ Comparable =>
    \A mem \in IF phase = "declared" THEN Memories ELSE {ran[1].mem} :
      Where(Initialized(mem), LAMBDA c :
        /\ phase = "declared" /\ c.o # "ub" => parser.ok = (c.o = "run" /\ Storable)
        /\ phase = "initialized" /\ c.o = "run" => ran[2].o = "run" /\ ran[2].mem = c.mem)

\* The bits a member takes, from the start of the structure.
BitsTaken(m) == LET at == m.offset * TARGET_CHAR_BIT + m.position
                IN  at..(at + (IF m.width > 0 THEN m.width ELSE BitsOf(m.type)) - 1)
(* Members of a structure share no bit and lie inside it, what is not a    *)
(* bit-field aligned for its type, and an array of such structures keeps   *)
(* them aligned: create_struct_info, calc_bitfield_size (type.c:59-163).   *)
FieldsApart ==
  \A x \in DOMAIN scope : scope[x].type.k = "struct" /\ ~scope[x].type.info.is_union =>
    LET s  == scope[x].type
        ms == s.info.members
    IN  /\ s.info.size % s.info.align = 0
        /\ \A i \in DOMAIN ms : BitsTaken(ms[i]) \subseteq 0..(BitsOf(s) - 1)
        /\ \A i, j \in DOMAIN ms : i # j => BitsTaken(ms[i]) \cap BitsTaken(ms[j]) = {}
        /\ \A i \in DOMAIN ms : ms[i].width = 0 => ms[i].offset % align_size(ms[i].type) = 0
                                             /\ s.info.align % align_size(ms[i].type) = 0
=============================================================================
