------------------------------ MODULE ParseExpr ------------------------------
(***************************************************************************)
(* The expression parser cc1 and wcc share (parser_expr.c): from tokens to *)
(* typed trees.  Operands are converted, constants are folded, conditions  *)
(* are reduced to comparisons, and an assignment to a bit-field or a       *)
(* compound assignment becomes plain assignments through temporaries.      *)
(*                                                                         *)
(* A token is an operator, a constant, a string, an identifier, or the     *)
(* name of a type as a whole.  Strings only occur in initializers;         *)
(* floating point, compound literals, statement expressions and the        *)
(* builtins are left out.                                                  *)
(***************************************************************************)
EXTENDS Trees

----------------------------------------------------------------------------
(* Conversions.                                                             *)

\* Between scalars a conversion that is not one is only warned about.
check_cast(dst, src, zero, explicit) ==
  dst.k # "array" /\ (can_cast(dst, src, zero, explicit) \/ (scalar(dst) /\ scalar(src)))

make_cast(type, e, explicit) ==
  IF ~check_cast(type, e.t, is_zero(e), explicit) \/ IsErr(e) THEN Err
  ELSE IF same_type(type, e.t) THEN e
  ELSE IF is_const(e) THEN Num(wrap_value(e.n, type_size(type), type.k # "fix" \/ type.uns), type)
  ELSE Un("cast", type, e)

promote_to_int(e) ==
  IF e.t.kind >= FX_INT THEN e ELSE make_cast(get_fixnum_type(FX_INT, e.t.uns), e, FALSE)

\* Both operands made one type.  A comparison leaves two narrow ones narrow.
cast_numbers(lhs, rhs, make_int) ==
  LET rank(t) == 2 * t.kind + Bool(t.uns)
      l == rank(lhs.t)
      r == rank(rhs.t)
  IN  CASE ~is_number(lhs.t) \/ ~is_number(rhs.t) -> <<Err, Err>>
        [] is_number(lhs.t) /\ is_number(rhs.t) ->
             IF make_int /\ lhs.t.kind < FX_INT /\ rhs.t.kind < FX_INT
             THEN <<promote_to_int(lhs), promote_to_int(rhs)>>
             ELSE <<IF l < r THEN make_cast(rhs.t, lhs, FALSE) ELSE lhs,
                    IF l > r THEN make_cast(lhs.t, rhs, FALSE) ELSE rhs>>

----------------------------------------------------------------------------
(* Operators.                                                               *)
UFixnum(v) == Pattern(v, 16)
Fixnum(v)  == Signed(Pattern(v, 16), 16)

\* A folded constant has the type of the operand of the larger kind.
Folded(v, lhs, rhs) ==
  LET wide == IF lhs.t.kind >= rhs.t.kind THEN lhs.t ELSE rhs.t
      t    == IF wide.kind < FX_INT THEN tyInt ELSE wide
  IN  Num(wrap_value(v, type_size(t), t.uns), t)

new_expr_num_bop(op, lhs, rhs) ==
  Where(cast_numbers(lhs, rhs, TRUE), LAMBDA c :
  LET n(e) == IF lhs.t.uns THEN UFixnum(e.n) ELSE e.n
  IN  IF is_const(lhs) /\ is_number(lhs.t) /\ is_const(rhs) /\ is_number(rhs.t)
      THEN IF op \in {"div", "mod"} /\ rhs.n = 0 THEN Err ELSE Folded(Calc(op, n(lhs), n(rhs)), lhs, rhs)
      ELSE Bin(op, c[1].t, c[1], c[2]))

new_expr_int_bop(op, lhs, rhs) ==
  IF is_number(lhs.t) /\ is_number(rhs.t) THEN new_expr_num_bop(op, lhs, rhs) ELSE Err

\* index * sizeof(element), as a size_t.
Scaled(index, ptr) ==
  new_expr_num_bop("mul", make_cast(tySize, index, FALSE), Num(type_size(ptr.to), tySize))

new_expr_addsub(op, lhs, rhs) ==
  LET lt == array_to_ptr(lhs.t)
      rt == array_to_ptr(rhs.t)
  IN  Where(cast_numbers(lhs, rhs, TRUE), LAMBDA c :
    CASE is_number(lt) /\ is_number(rt) ->
           IF is_const(lhs) /\ is_const(rhs) THEN Folded(Calc(op, lhs.n, rhs.n), lhs, rhs)
                                             ELSE Bin(op, c[1].t, c[1], c[2])
      [] lt.k = "ptr" /\ is_number(rt) -> Bin(op, lt, lhs, Scaled(rhs, lt))
      [] lt.k = "ptr" /\ rt.k = "ptr" /\ op = "sub" ->
           IF ~same_type_without_qualifier(lt, rt) THEN Err
           ELSE Bin("div", tySSize, Bin("sub", tySSize, lhs, rhs), Num(type_size(lt.to), tySSize))
      [] is_number(lt) /\ rt.k = "ptr" /\ op = "add" -> Bin(op, rt, Scaled(lhs, rt), rhs)
      [] OTHER -> Err)

swap_cmp(op) == CASE op = "lt" -> "gt" [] op = "le" -> "ge" [] op = "ge" -> "le" [] op = "gt" -> "lt"
                  [] op \in {"eq", "ne"} -> op

\* A function compared stands for its address.
Decay(e) == IF e.t.k = "func" THEN Un("ref", ptrof(e.t), e) ELSE e

\* Pointers, or a pointer and the constant 0; the pointer comes first.
ComparePointers(op0, lhs0, rhs0) ==
  Where(IF lhs0.t.k = "array" THEN make_cast(array_to_ptr(lhs0.t), lhs0, FALSE) ELSE lhs0, LAMBDA l0 :
  Where(IF rhs0.t.k = "array" THEN make_cast(array_to_ptr(rhs0.t), rhs0, FALSE) ELSE rhs0, LAMBDA r0 :
  LET swap == l0.t.k # "ptr"
      l    == IF swap THEN r0 ELSE l0
      r    == IF swap THEN l0 ELSE r0
  IN  <<IF swap THEN swap_cmp(op0) ELSE op0, l,
        CASE ~(same_type_without_qualifier(l.t, r.t) \/ is_void_ptr(l.t) \/ is_void_ptr(r.t) \/ is_zero(r)) -> Err
          [] OTHER -> IF r.t.k # "ptr" THEN make_cast(l.t, r, FALSE) ELSE r>>))

\* Of an operator and operands that have been made one type.
Compared(c) ==
  LET n(e) == IF c[2].t.k # "fix" \/ c[2].t.uns THEN UFixnum(e.n) ELSE e.n
  IN  IF is_const(c[2]) /\ is_const(c[3]) THEN Num(Bool(Judge(c[1], n(c[2]), n(c[3]))), tyBool)
                                          ELSE Bin(c[1], tyBool, c[2], c[3])

new_expr_cmp(op, lhs0, rhs0) ==
  Where(Decay(lhs0), LAMBDA lhs :
  Where(Decay(rhs0), LAMBDA rhs :
    Compared(IF ptr_or_array(lhs.t) \/ ptr_or_array(rhs.t) THEN ComparePointers(op, lhs, rhs)
                                                          ELSE <<op>> \o cast_numbers(lhs, rhs, FALSE))))

\* A condition: 0, 1, a comparison, && or ||.
RECURSIVE make_cond(_), make_not_expr(_)
make_cond(e) ==
  CASE e.k = "num" -> Num(Bool(e.n # 0), tyBool)
    [] e.k \in CompareOps \cup {"logand", "logior", "error"} -> e
    [] e.k = "comma" -> Where(make_cond(e.r), LAMBDA c : IF IsErr(c) THEN Err ELSE [e EXCEPT !.r = c])
    [] OTHER -> IF e.t.k \in {"array", "func"} THEN Num(1, tyBool)
                ELSE new_expr_cmp("ne", e, make_cast(e.t, Num(0, tyInt), FALSE))

Negation(op) == CASE op = "eq" -> "ne" [] op = "ne" -> "eq" [] op = "lt" -> "ge" [] op = "ge" -> "lt"
                  [] op = "le" -> "gt" [] op = "gt" -> "le" [] op = "logand" -> "logior" [] op = "logior" -> "logand"

make_not_expr(e) ==
  Where(make_cond(e), LAMBDA c :
    CASE c.k = "error" -> c
      [] c.k = "num"   -> Num(1 - c.n, tyBool)
      [] c.k \in CompareOps -> [c EXCEPT !.k = Negation(@)]
      [] c.k \in {"logand", "logior"} ->
           Bin(Negation(c.k), tyBool, make_not_expr(c.l), make_not_expr(c.r))
      [] c.k = "comma" -> Where(make_not_expr(c.r), LAMBDA n : IF IsErr(n) THEN Err ELSE [c EXCEPT !.r = n]))

\* parse_logand(), parse_logior(): a constant on the left decides at once.
new_expr_logical(op, lhs, rhs) ==
  Where(make_cond(lhs), LAMBDA l :
  Where(make_cond(rhs), LAMBDA r :
    CASE l.k = "num" -> IF (l.n = 0) = (op = "logand") THEN l ELSE r
      [] l.k # "num" -> Bin(op, tyBool, l, r)))

\* parse_shift().
new_expr_shift(op, lhs, rhs) ==
  CASE ~is_number(lhs.t) \/ ~is_number(rhs.t) -> Err
    [] is_number(lhs.t) /\ is_number(rhs.t) /\ is_const(lhs) /\ is_const(rhs) ->
         LET t    == IF lhs.t.kind < FX_INT THEN get_fixnum_type(FX_INT, lhs.t.uns) ELSE lhs.t
             n(e) == IF t.uns THEN UFixnum(e.n) ELSE e.n
         IN  Num(Fixnum(Calc(op, n(lhs), n(rhs))), t)
    [] is_number(lhs.t) /\ is_number(rhs.t) /\ ~(is_const(lhs) /\ is_const(rhs)) ->
         Where(promote_to_int(lhs), LAMBDA l : Bin(op, l.t, l, rhs))

----------------------------------------------------------------------------
(* Variables and what has an address.                                       *)
IsLval(e) == e.k \in {"var", "deref", "member"}

(* Mutant: the address of a bit-field can be taken. *)
make_referField(e) ==
  CASE ~IsLval(e) -> Err
    [] e.k = "deref" -> e.s
    [] IsLval(e) /\ e.k # "deref" -> Un("ref", ptrof(e.t), e)

make_refer(e) ==
  CASE ~IsLval(e) \/ IsBitField(e) -> Err
    [] e.k = "member" /\ ~IsBitField(e) /\ is_const(e.s) /\ e.arrow ->
         Num(Fixnum(e.s.n + member_info(e).offset), ptrof(member_info(e).type))
    [] e.k = "deref" -> e.s
    [] e.k = "var" \/ (e.k = "member" /\ ~IsBitField(e) /\ ~(is_const(e.s) /\ e.arrow)) ->
         Un("ref", ptrof(e.t), e)

new_expr_deref(e) == IF IsErr(e) \/ ~ptr_or_array(e.t) THEN Err ELSE Un("deref", PointedTo(e.t), e)

\* parse_array_index(): either operand may be the pointer.
ArrayIndex(e, index) ==
  CASE ptr_or_array(e.t) /\ is_number(index.t)  -> new_expr_deref(new_expr_addsub("add", e, index))
    [] is_number(e.t) /\ ptr_or_array(index.t)  -> new_expr_deref(new_expr_addsub("add", index, e))
    [] OTHER -> Err

\* The path to a member, through the anonymous structures that hold it; <<>>
\* when there is none.
RECURSIVE search_from_anonymous(_, _)
search_from_anonymous(info, name) ==
  LET ms     == info.members
      named  == {i \in DOMAIN ms : ms[i].name = name}
  IN  Where({i \in DOMAIN ms : ms[i].name = "" /\ ms[i].type.k = "struct"
                              /\ search_from_anonymous(ms[i].type.info, name) # <<>>}, LAMBDA inside :
  LET hits   == named \cup inside
  IN  IF hits = {} THEN <<>>
      ELSE LET i == MinOf(hits)
           IN  IF i \in named THEN <<i>> ELSE <<i>> \o search_from_anonymous(ms[i].type.info, name))

RECURSIVE FollowPath(_, _, _, _)
FollowPath(e, type, arrow, path) ==
  IF path = <<>> THEN e
  ELSE LET m == type.info.members[Head(path)]
           t == qualified_type(m.type, type.const)
       IN  FollowPath(Member(e, Head(path), arrow, t), t, arrow, Tail(path))

\* parse_member_access().
MemberAccess(e, arrow, name) ==
  LET type   == IF arrow /\ ptr_or_array(e.t) THEN PointedTo(e.t) ELSE e.t
  IN  Where(search_from_anonymous(type.info, name), LAMBDA path :
  LET direct == {i \in DOMAIN type.info.members : type.info.members[i].name = name}
      i      == MinOf(direct)
      mtype  == type.info.members[i].type
  IN  IF IsErr(e) \/ type.k # "struct" \/ arrow # ptr_or_array(e.t) THEN Err
      ELSE IF direct # {} THEN Member(e, i, arrow, IF arrow THEN mtype ELSE qualified_type(mtype, e.t.const))
      ELSE IF path = <<>> THEN Err ELSE FollowPath(e, type, arrow, path))

get_callee_type(t) == IF t.k = "ptr" THEN t.to ELSE t

\* check_funcall_args() and the call.
FunCall(f, args) ==
  LET ft == get_callee_type(f.t)
      arg(i) == Where(IF args[i].t.k = "array" THEN make_cast(array_to_ptr(args[i].t), args[i], FALSE)
                                              ELSE args[i], LAMBDA a :
                  make_cast(ft.params[i], a, FALSE))
  IN  IF IsErr(f) \/ ft.k # "func" THEN Err
      ELSE IF Len(args) # Len(ft.params) THEN Err
      ELSE Call(f, ft.ret, [i \in DOMAIN args |-> arg(i)] \o <<>>)

----------------------------------------------------------------------------
(* Assignments.  The parser's state w: the tokens and the place in them,    *)
(* the types of the temporaries allocated so far, the tree of what was      *)
(* parsed last, and whether an error has been reported.                     *)
Node(w, e)          == [w EXCEPT !.e = e, !.err = @ \/ IsErr(e)]
alloc_tmp_var(w, t) == [w EXCEPT !.tmps = Append(@, t), !.e = Tmp(Len(w.tmps) + 1, t)]

(* Mutant: the bits that are kept are those of a field at position 0. *)
assign_bitfield_memberLow(dst, src, val, m) ==
  LET t     == dst.t
  IN  Where(make_cast(t, Bin("and", val.t, val, Num(2^m.width - 1, val.t)), FALSE), LAMBDA low :
  LET shift == Bin("shl", t, low, Num(m.position, val.t))
  IN  Bin("assign", t, dst, Bin("or", t, shift, Bin("and", t, src, Num(-(2^m.width), t)))))

\* dst, whose unit holds src, takes the low bits of val.
assign_bitfield_member(dst, src, val, m) ==
  LET t     == dst.t
      vt    == val.t
  IN  Where(make_cast(t, Bin("and", vt, val, Num(2^m.width - 1, vt)), FALSE), LAMBDA low :
  Where(IF m.position > 0 THEN Bin("shl", t, low, Num(m.position, vt)) ELSE low, LAMBDA shift :
  Where(Bin("and", t, src, Num(Fixnum(-1 - (2^m.width - 1) * 2^m.position), t)), LAMBDA keep :
    Bin("assign", t, dst, Bin("or", t, make_cast(t, shift, FALSE), keep)))))

BaseType(m, lhs) == get_fixnum_type(m.base_kind, lhs.t.uns)

assign_to_bitfield(w, lhs, rhs, m) ==
  LET pt  == ptrof(BaseType(m, lhs))
  IN  Where(alloc_tmp_var(w, pt), LAMBDA wp :
  Where(alloc_tmp_var(wp, rhs.t), LAMBDA wv :
  LET dst == Un("deref", lhs.t, wp.e)
  IN  Node(wv, Bin("comma", rhs.t, Bin("assign", pt, wp.e, Un("ref", pt, lhs)),
                 Bin("comma", rhs.t, Bin("assign", rhs.t, wv.e, rhs),
                   Bin("comma", rhs.t, assign_bitfield_member(dst, dst, wv.e, m), wv.e))))))

transform_incdec_of_bitfield(w, kind, target, m) ==
  LET t    == target.t
      pt   == ptrof(t)
  IN  Where(alloc_tmp_var(w, pt), LAMBDA wp :
  Where(alloc_tmp_var(wp, t), LAMBDA ws :
  Where(alloc_tmp_var(ws, m.type), LAMBDA wv :
  LET dst  == Un("deref", t, wp.e)
      op   == IF kind \in {"preinc", "postinc"} THEN "add" ELSE "sub"
      post == kind \in {"postinc", "postdec"}
  IN  Where(extract_bitfield_value(ws.e, m), LAMBDA was :
  Where(extract_bitfield_value(Bin(op, t, ws.e, Num(2^m.position, t)), m), LAMBDA is :
  LET val  == Bin("assign", t, wv.e, IF post THEN was ELSE is)
      new  == IF post THEN Bin(op, t, was, Num(1, t)) ELSE wv.e
  IN  Where(assign_bitfield_member(dst, ws.e, new, m), LAMBDA put :
  LET then(l, r) == Bin("comma", m.type, l, r)
  IN  Node(wv, then(then(Bin("assign", pt, wp.e, Un("ref", pt, target)),
                         then(Bin("assign", t, ws.e, dst), then(val, put))), wv.e))))))))

incdec_of(w, kind, target) ==
  CASE ~IsLval(target) \/ target.t.const -> Node(w, Err)
    [] IsLval(target) /\ ~target.t.const ->
         IF IsBitField(target) THEN transform_incdec_of_bitfield(w, kind, target, member_info(target))
                               ELSE Node(w, Un(kind, target.t, target))

\* The operator of `lhs op= rhs'.
calc_assign_with(op, lhs, rhs) ==
  CASE op \in {"add", "sub"} -> new_expr_addsub(op, lhs, rhs)
    [] op \in {"mul", "div"} -> new_expr_num_bop(op, lhs, rhs)
    [] op \in {"mod", "and", "or", "xor"} -> new_expr_int_bop(op, lhs, rhs)
    [] op \in {"shl", "shr"} -> IF is_number(lhs.t) /\ is_number(rhs.t) THEN Bin(op, lhs.t, lhs, rhs) ELSE Err

transform_assign_with_bitfield(w, op, lhs, rhs, m) ==
  LET t   == BaseType(m, lhs)
  IN  Where(alloc_tmp_var(w, ptrof(t)), LAMBDA wp :
  Where(alloc_tmp_var(wp, t), LAMBDA ws :
  LET dst == Un("deref", t, wp.e)
      then(l, r) == Bin("comma", rhs.t, l, r)
  IN  Where(calc_assign_with(op, extract_bitfield_value(ws.e, m), rhs), LAMBDA new :
  Where(assign_bitfield_member(dst, ws.e, new, m), LAMBDA put :
    Node(ws, IF IsErr(new) THEN Err
             ELSE then(then(Bin("assign", ptrof(t), wp.e, Un("ref", ptrof(t), lhs)),
                            then(Bin("assign", t, ws.e, dst), put)),
                       extract_bitfield_value(dst, m)))))))

\* lhs op= rhs: the address of what is not a variable is taken once.
transform_assign_with(w, op, lhs, rhs) ==
  LET pt    == ptrof(lhs.t)
      wp == alloc_tmp_var(w, pt)
      l  == IF lhs.k = "var" THEN lhs ELSE Un("deref", lhs.t, wp.e)
  IN  IF IsBitField(lhs) THEN transform_assign_with_bitfield(w, op, lhs, rhs, member_info(lhs))
      ELSE Where(Bin("assign", l.t, l, make_cast(l.t, calc_assign_with(op, l, rhs), FALSE)), LAMBDA set :
             IF lhs.k = "var" THEN Node(w, set)
                              ELSE Node(wp, Comma(Bin("assign", pt, wp.e, Un("ref", pt, lhs)), set)))

\* What parse_assign() makes of `lhs op rhs'; op is "assign" or that of op=.
Assignment(w, op, lhs, rhs) ==
  Where(IF lhs.t.k = "struct"
       THEN IF same_type_without_qualifier(lhs.t, rhs.t) THEN rhs ELSE Err
       ELSE make_cast(lhs.t, rhs, FALSE), LAMBDA val :
    CASE ~IsLval(lhs) \/ lhs.t.const \/ lhs.t.k \in {"array", "func"} \/ IsErr(rhs) -> Node(w, Err)
      [] IsLval(lhs) /\ ~lhs.t.const /\ lhs.t.k \notin {"array", "func"} /\ ~IsErr(rhs) ->
           CASE op # "assign" -> transform_assign_with(w, op, lhs, rhs)
             [] op = "assign" /\ IsErr(val) -> Node(w, Err)
             [] op = "assign" /\ ~IsErr(val) ->
                  IF IsBitField(lhs) THEN assign_to_bitfield(w, lhs, val, member_info(lhs))
                                     ELSE Node(w, Bin("assign", lhs.t, lhs, val)))

----------------------------------------------------------------------------
(* c ? t : f                                                                *)
to_ptr_type(t) == IF t.k = "func" THEN ptrof(t) ELSE array_to_ptr(t)

NoType == [k |-> "none"]
RECURSIVE choose_type(_, _)
choose_type(tval, fval) ==
  LET t == to_ptr_type(tval.t)
      f == to_ptr_type(fval.t)
  IN  Where(is_void_ptr(f) \/ same_type_without_qualifier(t, f), LAMBDA agree :
    CASE same_type(t, f) -> t
      [] ~same_type(t, f) /\ t.k = "ptr" /\ f.k = "ptr" ->
           IF is_void_ptr(t) THEN f ELSE IF agree THEN t ELSE NoType
      [] t.k = "ptr" /\ f.k # "ptr" -> IF can_cast(t, f, is_zero(fval), FALSE) THEN t ELSE NoType
      [] t.k # "ptr" /\ f.k = "ptr" -> choose_type(fval, tval)
      [] ~same_type(t, f) /\ is_number(t) /\ is_number(f) -> IF t.kind > f.kind THEN t ELSE f
      [] OTHER -> NoType)

Conditional(cond, tval, fval) ==
  Where(make_cond(cond), LAMBDA c :
  LET void == tval.t.k = "void" \/ fval.t.k = "void"
  IN  Where(choose_type(tval, fval), LAMBDA both :
  LET type == IF void THEN tyVoid ELSE IF is_number(both) /\ both.kind < FX_INT THEN tyInt ELSE both
  IN  Where(IF void THEN tval ELSE make_cast(type, tval, FALSE), LAMBDA t :
  Where(IF void THEN fval ELSE make_cast(type, fval, FALSE), LAMBDA f :
    IF IsErr(c) \/ IsErr(tval) \/ IsErr(fval) THEN Err
    ELSE IF ~void /\ both.k = "none" THEN Err
    ELSE IF c.k = "num" THEN IF c.n # 0 THEN t ELSE f
    ELSE Ternary(c, t, f, type)))))

----------------------------------------------------------------------------
(* Tokens.                                                                  *)
Op(s)    == [k |-> "op", s |-> s]
EOF      == Op("eof")
Peek(w)  == w.toks[w.i]
At(w, s) == Peek(w).k = "op" /\ Peek(w).s = s
AtOp(w, ops) == Peek(w).k = "op" /\ Peek(w).s \in ops
AtType(w, i) == w.toks[w.i + i].k = "type"
Adv(w)   == [w EXCEPT !.i = @ + 1]
consume(w, s) == IF At(w, s) THEN Adv(w) ELSE [w EXCEPT !.err = TRUE]
ParserStart(toks) == [toks |-> Append(toks, EOF), i |-> 1, tmps |-> <<>>, e |-> Err, err |-> FALSE]

\* The binary operators, from the weakest to the strongest: parse_or(),
\* parse_xor(), parse_and(), parse_eq(), parse_cmp(), parse_shift(),
\* parse_add(), parse_mul().
BinaryOps == <<"|" :> "or", "^" :> "xor", "&" :> "and", "==" :> "eq" @@ "!=" :> "ne",
               "<" :> "lt" @@ ">" :> "gt" @@ "<=" :> "le" @@ ">=" :> "ge",
               "<<" :> "shl" @@ ">>" :> "shr", "+" :> "add" @@ "-" :> "sub",
               "*" :> "mul" @@ "/" :> "div" @@ "%" :> "mod">>

Combine(op, lhs, rhs) ==
  CASE IsErr(lhs) \/ IsErr(rhs) -> Err
    [] op \in CompareOps -> new_expr_cmp(op, lhs, rhs)
    [] op \in {"shl", "shr"} -> new_expr_shift(op, lhs, rhs)
    [] op \in {"add", "sub"} -> new_expr_addsub(op, lhs, rhs)
    [] op \in {"mul", "div"} -> new_expr_num_bop(op, lhs, rhs)
    [] op \in {"mod", "and", "or", "xor"} -> new_expr_int_bop(op, lhs, rhs)

AssignOps == "=" :> "assign" @@ "+=" :> "add" @@ "-=" :> "sub" @@ "*=" :> "mul" @@ "/=" :> "div" @@
             "%=" :> "mod" @@ "&=" :> "and" @@ "|=" :> "or" @@ "^=" :> "xor" @@ "<<=" :> "shl" @@ ">>=" :> "shr"

RECURSIVE parse_expr(_), CommaTail(_, _), parse_assign(_), parse_conditional(_), CondTail(_),
          parse_logior(_), LogTail(_, _), parse_logand(_), parse_binary(_, _), BinaryTail(_, _),
          parse_cast_expr(_), parse_unary(_), parse_postfix(_), PostfixTail(_), parse_args(_, _)

\* A constant in the middle of a comma expression is dropped.
CommaTail(w, last) ==
  IF At(w, ",")
  THEN With(parse_assign(Adv(w)), LAMBDA n :
         CASE is_const(w.e) -> CommaTail(n, n.e)
           [] ~is_const(w.e) /\ is_const(n.e)  -> CommaTail([n EXCEPT !.e = w.e], n.e)
           [] ~is_const(w.e) /\ ~is_const(n.e) ->
                LET c == Comma(w.e, n.e) IN CommaTail(Node(n, c), c))
  ELSE Node(w, IF w.e # last THEN Comma(w.e, last) ELSE w.e)
parse_expr(w) == With(parse_assign(w), LAMBDA a : CommaTail(a, a.e))

parse_assign(w) ==
  With(parse_conditional(w), LAMBDA l :
    IF ~AtOp(l, DOMAIN AssignOps) THEN l
    ELSE With(parse_assign(Adv(l)), LAMBDA r : Assignment(r, AssignOps[Peek(l).s], l.e, r.e)))

CondTail(w) ==
  IF ~At(w, "?") THEN w
  ELSE With(parse_expr(Adv(w)), LAMBDA t :
       With(parse_conditional(consume(t, ":")), LAMBDA f :
         CondTail(Node(f, Conditional(w.e, t.e, f.e)))))
parse_conditional(w) == With(parse_logior(w), CondTail)

LogTail(w, s) ==
  IF ~At(w, s) THEN w
  ELSE With(IF s = "&&" THEN parse_binary(Adv(w), 1) ELSE parse_logand(Adv(w)), LAMBDA r :
         LogTail(Node(r, new_expr_logical(IF s = "&&" THEN "logand" ELSE "logior", w.e, r.e)), s))
parse_logand(w) == With(parse_binary(w, 1), LAMBDA l : LogTail(l, "&&"))
parse_logior(w) == With(parse_logand(w), LAMBDA l : LogTail(l, "||"))

BinaryTail(w, level) ==
  IF ~AtOp(w, DOMAIN BinaryOps[level]) THEN w
  ELSE With(parse_binary(Adv(w), level + 1), LAMBDA r :
         BinaryTail(Node(r, Combine(BinaryOps[level][Peek(w).s], w.e, r.e)), level))
parse_binary(w, level) ==
  IF level > Len(BinaryOps) THEN parse_cast_expr(w) ELSE With(parse_binary(w, level + 1), LAMBDA l : BinaryTail(l, level))

parse_cast_expr(w) ==
  IF ~(At(w, "(") /\ AtType(w, 1)) THEN parse_unary(w)
  ELSE LET t == w.toks[w.i + 1].type
       IN  With(parse_cast_expr(consume(Adv(Adv(w)), ")")), LAMBDA s :
         Node(s, CASE ~check_cast(t, s.e.t, is_zero(s.e), TRUE) -> Err
                   [] OTHER -> IF is_const(s.e) /\ t.k # "void" THEN make_cast(t, s.e, TRUE)
                               ELSE IF s.e.t.k # "void" THEN Un("cast", t, s.e) ELSE s.e))

\* parse_sizeof(): what follows a parenthesis is the operand up to its end.
parse_sizeof(w) ==
  LET paren == At(w, "(")
      typed == paren /\ AtType(w, 1)
  IN  Where(IF typed THEN [Adv(Adv(w)) EXCEPT !.e = Num(0, tyInt)]
           ELSE IF paren THEN parse_expr(Adv(w)) ELSE parse_unary(w), LAMBDA r :
  LET t     == IF typed THEN w.toks[w.i + 1].type ELSE r.e.t
  IN  Node(IF paren THEN consume(r, ")") ELSE r,
           IF IsErr(r.e) THEN Err ELSE IF IsBitField(r.e) THEN Err ELSE Num(type_size(t), tySize)))

parse_unary(w) ==
  Where(IF AtOp(w, {"++", "--"}) THEN parse_unary(Adv(w)) ELSE parse_cast_expr(Adv(w)), LAMBDA s :
  LET e   == s.e
  IN  Where(promote_to_int(e), LAMBDA p :
    IF AtOp(w, {"+", "-", "!", "~", "&", "*", "++", "--"}) /\ IsErr(s.e) THEN s
    ELSE CASE At(w, "+") -> Node(s, IF ~is_number(e.t) THEN Err
                                    ELSE IF is_const(p) THEN p ELSE Un("pos", p.t, p))
           [] At(w, "-") -> Node(s, IF ~is_number(e.t) THEN Err
                                    ELSE IF is_const(p) THEN Num(wrap_value(-p.n, type_size(p.t), FALSE), p.t)
                                    ELSE Un("neg", p.t, p))
           [] At(w, "!") -> Node(s, IF is_number(e.t) \/ ptr_or_array(e.t) THEN make_not_expr(e) ELSE Err)
           [] At(w, "~") -> Node(s, IF ~is_number(e.t) THEN Err
                                    ELSE IF is_const(p) THEN Num(-p.n - 1, p.t) ELSE Un("bitnot", p.t, p))
           [] At(w, "&") -> Node(s, make_refer(e))
           [] At(w, "*") -> Node(s, IF e.t.k = "func" THEN Un("deref", e.t, e) ELSE new_expr_deref(e))
           [] At(w, "++") -> incdec_of(s, "preinc", e)
           [] At(w, "--") -> incdec_of(s, "predec", e)
           [] At(w, "sizeof") -> parse_sizeof(Adv(w))
           [] OTHER -> parse_postfix(w)))

parse_prim(w) ==
  LET tok == Peek(w)
  IN  CASE At(w, "(")    -> With(parse_expr(Adv(w)), LAMBDA a : consume(a, ")"))
        [] tok.k = "num" -> Node(Adv(w), Num(tok.n, tok.t))
        [] tok.k = "str" -> Node(Adv(w), Str(tok.chars))
        [] tok.k = "id"  -> Node(Adv(w), IF tok.s \in DOMAIN scope THEN Var(tok.s) ELSE Err)
        [] OTHER         -> Node(w, Err)

\* The arguments up to the closing parenthesis, added to those in w.e.
parse_args(w, args) ==
  With(parse_assign(w), LAMBDA a :
  Where(Append(args, a.e), LAMBDA more :
    CASE At(w, ")") /\ args = <<>> -> [Adv(w) EXCEPT !.e = args]
      [] ~(At(w, ")") /\ args = <<>>) ->
           IF At(a, ",") THEN parse_args(Adv(a), more) ELSE [consume(a, ")") EXCEPT !.e = more]))

PostfixTail(w) ==
  CASE At(w, "(") -> With(parse_args(Adv(w), <<>>), LAMBDA a : PostfixTail(Node(a, FunCall(w.e, a.e))))
    [] At(w, "[") -> With(parse_expr(Adv(w)), LAMBDA a :
                       PostfixTail(consume(Node(a, ArrayIndex(w.e, a.e)), "]")))
    [] AtOp(w, {".", "->"}) ->
         LET a == Adv(w) IN PostfixTail(Node(Adv(a), MemberAccess(w.e, At(w, "->"), Peek(a).s)))
    [] At(w, "++") -> PostfixTail(incdec_of(Adv(w), "postinc", w.e))
    [] At(w, "--") -> PostfixTail(incdec_of(Adv(w), "postdec", w.e))
    [] OTHER -> w
parse_postfix(w) == With(parse_prim(w), PostfixTail)

\* An expression with nothing after it.
Parsed(toks) == consume(parse_expr(ParserStart(toks)), "eof")
=============================================================================
