---------------------------- MODULE Initializers ----------------------------
(***************************************************************************)
(* Initializers in the front end (parser.c): parsed, flattened to the      *)
(* members and elements they are for, and made into assignments for a      *)
(* local variable, or checked to be constant and written out for a static  *)
(* one, as directives for the assembler (emit_code.c) or as bytes (wcc.c). *)
(* Compound literals and floating point are left out, and so is the hidden *)
(* array of a string that a character pointer is initialized with.         *)
(***************************************************************************)
EXTENDS ParseExpr

None       == [k |-> "none"]                       \* NULL
Refused    == [k |-> "refused"]                    \* an error has been reported
Single(e)  == IF IsErr(e) THEN Refused ELSE [k |-> "single", e |-> e]
Dot(n, v)  == IF v.k = "refused" THEN Refused ELSE [k |-> "dot", name |-> n, value |-> v]
Arr(i, v)  == IF v.k = "refused" THEN Refused ELSE [k |-> "arr", index |-> i, value |-> v]
Multi(l)   == IF \E i \in DOMAIN l : l[i].k = "refused" THEN Refused ELSE [k |-> "multi", list |-> l]

IsStr(init)          == init.k = "single" /\ init.e.k = "str"
is_multi_type(t)     == t.k \in {"struct", "array"}
IsCharArray(t)       == t.k = "array" /\ is_char_type(t.of)
Unsized              == -1

----------------------------------------------------------------------------
(* Parsing.  The initializer is left in the parser's e.                     *)
Yield(w, init) == [w EXCEPT !.e = init, !.err = @ \/ init.k = "refused"]

RECURSIVE parse_initializer(_), InitializerList(_, _)
\* What stands between { and }, after the items that have been read.
InitializerList(w, items) ==
  LET a  == Adv(w)
  IN  Where(CASE At(w, ".") -> parse_initializer(consume(Adv(a), "="))
             [] At(w, "[") -> LET b == consume(Adv(a), "]")
                              IN  parse_initializer(IF At(b, "=") THEN Adv(b) ELSE b)
             [] OTHER -> parse_initializer(w), LAMBDA v :
  Where(CASE At(w, ".") -> Dot(Peek(a).s, v.e)
         [] At(w, "[") -> Arr(Peek(a).n, v.e)
         [] OTHER -> v.e, LAMBDA it :
  Where(Append(items, it), LAMBDA l :
    IF At(v, ",") /\ ~At(Adv(v), "}") THEN InitializerList(Adv(v), l)
    ELSE Where(consume(IF At(v, ",") THEN Adv(v) ELSE v, "}"), LAMBDA end : Yield(end, Multi(l))))))

parse_initializer(w) ==
  IF ~At(w, "{") THEN Where(parse_assign(w), LAMBDA a : Yield(a, Single(a.e)))
  ELSE IF At(Adv(w), "}") THEN Yield(Adv(Adv(w)), Multi(<<>>)) ELSE InitializerList(Adv(w), <<>>)

----------------------------------------------------------------------------
(* Flattening.                                                              *)

\* Runs of elements, each from a designator on, in the order of where they
\* start; refused when two overlap.
flatten_array_initializer(init) ==
  LET l      == init.list
      heads  == {i \in DOMAIN l : l[i].k = "arr"}
  IN  Where(SetToSortSeq(heads \cup {1}, LAMBDA i, j : i < j), LAMBDA starts :
  LET run(j) == LET i == starts[j]
                IN  [at    |-> IF l[i].k = "arr" THEN l[i].index ELSE 0,
                     items |-> SubSeq(l, i, IF j = Len(starts) THEN Len(l) ELSE starts[j + 1] - 1)]
  IN  Where(SortSeq([j \in DOMAIN starts |-> run(j)] \o <<>>, LAMBDA x, y : x.at < y.at), LAMBDA runs :
    CASE \E i \in DOMAIN l : l[i].k = "dot" -> Refused
      [] heads = {} -> init
      [] OTHER -> IF \E j \in 2..Len(runs) : runs[j].at < runs[j - 1].at + Len(runs[j - 1].items) THEN Refused
                  ELSE Multi(FlattenSeq([j \in DOMAIN runs |-> runs[j].items]))))

RECURSIVE flatten_initializer(_, _), flatten_initializer_multi(_, _, _), flatten_initializer_multi0(_, _),
          FlattenStruct(_, _, _, _, _), FlattenArray(_, _, _, _, _)

flatten_initializer(type, init) ==
  CASE init.k \in {"none", "refused"} -> init
    [] init.k = "multi" /\ is_multi_type(type) -> flatten_initializer_multi0(type, init)
    [] init.k # "multi" /\ type.k = "struct" ->
         IF init.k = "single" /\ ~same_type_without_qualifier(type, init.e.t) THEN Refused ELSE init
    [] init.k = "multi" /\ ~is_multi_type(type) ->
         IF Len(init.list) = 1 /\ init.list[1].k = "single" THEN init.list[1] ELSE Refused
    [] init.k \in {"dot", "arr"} /\ ~is_multi_type(type) -> Refused
    [] OTHER -> init

\* An initializer for one object of that type from the items of l, item i
\* being next; 0: the object has these braces for itself.
flatten_initializer_multi(type, l, i) ==
  LET j == MaxOf(i, 1)
      took(init) == [init |-> init, i |-> j + 1]
      whole == j <= Len(l) /\ l[j].k = "single" /\ same_type_without_qualifier(type, l[j].e.t)
  IN  CASE i # 0 /\ i <= Len(l) /\ l[i].k = "multi" /\ is_multi_type(type) -> took(flatten_initializer_multi0(type, l[i]))
        [] ~is_multi_type(type) -> took(flatten_initializer(type, l[j]))
        [] type.k = "struct" -> IF whole THEN took(l[j])
                                ELSE FlattenStruct(type, l, j, 1, [x \in DOMAIN type.info.members |-> None] \o <<>>)
        \* an empty list is read past its end
        [] IsCharArray(type) /\ l = <<>> -> took(Refused)
        [] IsCharArray(type) /\ l # <<>> /\ IsStr(l[j]) -> took(l[j])
        [] OTHER -> FlattenArray(type, l, j, 0, <<>>)

FlattenStruct(type, l, i, midx, values) ==
  LET ms     == type.info.members
      v      == l[i]
      direct == {x \in DOMAIN ms : ms[x].name = v.name}
      path   == search_from_anonymous(type.info, v.name)
      dest   == IF v.k # "dot" THEN midx ELSE Head(path)
      \* a member of an anonymous structure: the designator goes on inside
      inner  == IF direct # {} THEN v.value ELSE Multi(<<v>>)
      r      == IF v.k = "dot" THEN [init |-> flatten_initializer(ms[dest].type, inner), i |-> i + 1]
                               ELSE flatten_initializer_multi(ms[dest].type, l, i)
      filled == [values EXCEPT ![dest] = r.init]
      end(vs, n) == [init |-> Multi(vs), i |-> n]
  IN  IF i > Len(l) THEN end(values, i)
      ELSE IF v.k = "arr" \/ (v.k = "dot" /\ path = <<>>) THEN [init |-> Refused, i |-> i + 1]
      ELSE IF dest > Len(ms) THEN end(values, i)
      ELSE IF type.info.is_union THEN end(filled, r.i)
      ELSE FlattenStruct(type, l, r.i, dest + 1, filled)

FlattenArray(type, l, i, eidx, elems) ==
  LET v == l[i]
  IN  Where(flatten_initializer_multi(type.of, l, i), LAMBDA r :
    CASE i > Len(l) -> [init |-> Multi(elems), i |-> i]
      [] i <= Len(l) /\ v.k = "arr" ->
           IF type.length # Unsized /\ v.index >= type.length THEN [init |-> Refused, i |-> i + 1]
           ELSE FlattenArray(type, l, i + 1, v.index + 1,
                             Append(elems, Arr(v.index, flatten_initializer(type.of, v.value))))
      [] i <= Len(l) /\ v.k # "arr" ->
           IF type.length # Unsized /\ eidx >= type.length THEN [init |-> Multi(elems), i |-> i]
           ELSE FlattenArray(type, l, r.i, eidx + 1, Append(elems, r.init)))

\* Items that are left over are warned about.
flatten_initializer_multi0(type, init) ==
  Where(IF type.k = "array" /\ init.list # <<>> THEN flatten_array_initializer(init) ELSE init, LAMBDA flat :
    IF flat.k = "refused" THEN Refused ELSE flatten_initializer_multi(type, flat.list, 0).init)

\* How far each item of an array's initializer reaches.
Reach(l) == LET end[i \in 0..Len(l)] == CASE i = 0 -> 0
                                          [] i > 0 /\ l[i].k = "arr" -> l[i].index + 1
                                          [] i > 0 /\ l[i].k # "arr" -> end[i - 1] + 1
            IN  {end[i] : i \in 0..Len(l)}

\* The type with its length, [k |-> "none"] when the initializer is too long.
fix_array_size(type, init) ==
  LET str == IsStr(init) /\ IsCharArray(type)
      n   == IF str THEN Len(init.e.chars) ELSE Len(init.list)
  IN  CASE ~str /\ init.k # "multi" -> type
        [] (str \/ init.k = "multi") /\ type.length = Unsized ->
             [type EXCEPT !.length = IF str THEN n ELSE CHOOSE x \in Reach(init.list) : \A y \in Reach(init.list) : x >= y]
        [] (str \/ init.k = "multi") /\ type.length # Unsized ->
             IF n > type.length /\ (~str \/ n - 1 > type.length) THEN NoType ELSE type

----------------------------------------------------------------------------
(* A local variable: assignments.  a holds the parser, which allocates the  *)
(* temporaries, and the statements so far.                                  *)
Emit(a, stmt) == [a EXCEPT !.stmts = Append(@, stmt)]
Refuse(a)     == [a EXCEPT !.w.err = TRUE]

\* build_memcpy(): size bytes, one after the other.
build_memcpy(dst, chars, size) == [k |-> "copy", dst |-> dst, chars |-> chars, size |-> size]

\* The array the string is copied from is as long as the destination.
init_char_array_by_string(dst, str) ==
  build_memcpy(dst, [i \in 1..dst.t.length |-> IF i <= Len(str.chars) THEN str.chars[i] ELSE 0] \o <<>>, Len(str.chars))

RECURSIVE assign_initial_value(_, _, _), AssignElements(_, _, _, _, _, _), AssignMembers(_, _, _, _)

AssignElements(a, ptr, l, i, index, prev) ==
  LET at   == IF l[i].k = "arr" THEN l[i].index ELSE index
      init == IF l[i].k = "arr" THEN l[i].value ELSE l[i]
  IN  Where(Bin("assign", ptr.t, ptr,
               Bin("add", ptr.t, ptr, Num((at - prev) * type_size(ptr.t.to), tySize))), LAMBDA step :
  Where(IF at # prev THEN Emit(a, step) ELSE a, LAMBDA b :
    IF i > Len(l) THEN a
    ELSE AssignElements(assign_initial_value(b, new_expr_deref(ptr), init), ptr, l, i + 1, at + 1, at)))

\* In a union a bit-field is given its value like any other member.
AssignMembers(a, expr, l, i) ==
  LET m  == expr.t.info.members[i]
      e  == Member(expr, i, FALSE, m.type)
      bits == m.width > 0 /\ ~expr.t.info.is_union
  IN  Where(assign_to_bitfield(a.w, e, l[i].e, m), LAMBDA st :
    CASE i > Len(l) -> a
      [] i <= Len(l) /\ l[i].k = "none" -> AssignMembers(a, expr, l, i + 1)
      [] i <= Len(l) /\ l[i].k # "none" /\ ~bits -> AssignMembers(assign_initial_value(a, e, l[i]), expr, l, i + 1)
      [] i <= Len(l) /\ l[i].k # "none" /\ bits ->
           IF l[i].k # "single" THEN Refuse(a)
           ELSE IF ~is_const(l[i].e) THEN Refuse(a)
           ELSE AssignMembers(Emit([a EXCEPT !.w = st], st.e), expr, l, i + 1))

assign_initial_value(a, expr, init) ==
  LET t     == expr.t
  IN  Where(alloc_tmp_var(a.w, array_to_ptr(t)), LAMBDA w :
  LET start == Bin("assign", array_to_ptr(t), w.e, expr)
      given == {i \in DOMAIN init.list : init.list[i].k # "none"}
  IN  Where(make_cast(t, init.e, FALSE), LAMBDA val :
    CASE init.k = "none" -> a
      [] init.k = "multi" /\ t.k = "array" ->
           IF t.length > 0 /\ Len(init.list) > t.length THEN Refuse(a)
           ELSE AssignElements(Emit([a EXCEPT !.w = w], start), w.e, init.list, 1, 0, 0)
      [] init.k = "multi" /\ t.k = "struct" ->
           IF t.info.is_union /\ \E i, j \in given : i # j THEN Refuse(a) ELSE AssignMembers(a, expr, init.list, 1)
      [] init.k = "single" /\ t.k = "array" ->
           IF IsStr(init) /\ IsCharArray(t)
           THEN IF t.length < Len(init.e.chars) - 1 THEN Refuse(a) ELSE Emit(a, init_char_array_by_string(expr, init.e))
           ELSE Refuse(a)
      [] init.k = "single" /\ t.k = "struct" ->
           IF same_type_without_qualifier(t, init.e.t) THEN Emit(a, Bin("assign", t, expr, init.e)) ELSE Refuse(a)
      [] init.k = "single" /\ scalar(t) -> IF IsErr(val) THEN Refuse(a) ELSE Emit(a, Bin("assign", t, expr, val))
      [] init.k \in {"dot", "arr", "refused"} \/ (init.k = "multi" /\ scalar(t)) -> Refuse(a)))

----------------------------------------------------------------------------
(* A static variable: only what is known at compile time.                   *)
RECURSIVE OnlyGlobals(_), KnownAddress(_), check_global_initializer(_, _)
\* What it goes into on its way must be found without reading memory ("Allowed
\* global reference only"); the variables of scope are global ones.
OnlyGlobals(e) ==
  CASE e.k \in {"add", "sub"} -> OnlyGlobals(e.l) /\ OnlyGlobals(e.r)
    [] e.k \in {"ref", "deref", "cast"} -> OnlyGlobals(e.s)
    [] e.k = "member" -> ~e.arrow /\ OnlyGlobals(e.s)
    [] OTHER -> TRUE

\* isconst; a string is known by the array it is put into.
KnownAddress(e) ==
  CASE e.k \in {"num", "str", "ref"} -> TRUE
    [] e.k = "var" -> e.t.k \in {"array", "func"} \/ (e.t.k = "ptr" /\ e.t.to.k = "func")
    [] e.k \in {"add", "sub"} -> KnownAddress(e.l) /\ KnownAddress(e.r)
    [] e.k \in {"deref", "cast"} -> KnownAddress(e.s)
    [] e.k = "member" -> e.t.k = "array"
    [] OTHER -> FALSE

check_global_initializer_fixnum(e) == OnlyGlobals(e) /\ KnownAddress(e)

check_global_initializer(type, init) ==
  CASE init.k \in {"none", "refused"} -> init
    [] init.k = "single" /\ scalar(type) ->
         IF check_global_initializer_fixnum(init.e) THEN Single(make_cast(type, init.e, FALSE)) ELSE Refused
    [] init.k = "multi" /\ type.k = "array" ->
         Multi([i \in DOMAIN init.list |->
                  LET x == init.list[i]
                  IN  IF x.k = "arr" THEN Arr(x.index, check_global_initializer(type.of, x.value))
                                     ELSE check_global_initializer(type.of, x)] \o <<>>)
    [] init.k = "single" /\ type.k = "array" ->
         IF IsStr(init) /\ IsCharArray(type) /\ Len(init.e.chars) - 1 <= type.length THEN init ELSE Refused
    [] init.k = "multi" /\ type.k = "struct" ->
         IF \E i \in DOMAIN type.info.members : type.info.members[i].width > 0 THEN Refused
         ELSE Multi([i \in DOMAIN init.list |-> check_global_initializer(type.info.members[i].type, init.list[i])] \o <<>>)
    [] OTHER -> Refused

\* The number an initializer stands for; a variable counts as its address.
RECURSIVE eval_initial_value(_)
eval_initial_value(e) ==
  CASE e.k = "num" -> e.n
    [] e.k = "var" -> scope[e.x].addr
    [] e.k = "add" -> eval_initial_value(e.l) + eval_initial_value(e.r)
    [] e.k = "sub" -> eval_initial_value(e.l) - eval_initial_value(e.r)
    [] e.k \in {"ref", "deref", "cast"} -> eval_initial_value(e.s)
    [] e.k = "member" -> eval_initial_value(e.s) + member_info(e).offset

BytesOf(v, n) == [j \in 1..n |-> (v \div Byte^(j - 1)) % Byte] \o <<>>
Zeros(n)      == [j \in 1..n |-> 0] \o <<>>
ScalarBytes(type, init) ==
  BytesOf(Pattern(IF init.k = "none" THEN 0 ELSE eval_initial_value(init.e), 16), type_size(type))

(* emit_code.c: out is what the assembler has been given for the variable,  *)
(* which starts at a place aligned for it.  The same function in wcc.c      *)
(* appends bytes and aligns by its own count.                               *)
Padding(out, offset, align, wasm) ==
  IF offset % align = 0 THEN out
  ELSE LET n == IF wasm THEN offset ELSE Len(out) IN out \o Zeros(ALIGN(n, align) - n)

RECURSIVE construct_initial_value(_, _, _, _), EmitElements(_, _, _, _, _, _), EmitMembers(_, _, _, _, _, _)
EmitElements(out, type, l, i, index, wasm) ==
  LET at   == IF l[i].k = "arr" THEN l[i].index ELSE index
      init == IF l[i].k = "arr" THEN l[i].value ELSE l[i]
  IN  Where(EmitElements(construct_initial_value(out, type.of, None, wasm), type, l, i, index + 1, wasm), LAMBDA none :
    CASE i > Len(l) -> IF index < type.length THEN none ELSE out
      [] i <= Len(l) -> IF index < at THEN none
                        ELSE EmitElements(construct_initial_value(out, type.of, init, wasm), type, l, i + 1, at + 1, wasm))

\* offset: where the members so far end, as this function counts.
EmitMembers(out, type, l, i, offset, wasm) ==
  LET m     == type.info.members[i]
  IN  Where(align_size(m.type), LAMBDA align :
  Where(type_size(type) - offset, LAMBDA rest :
    CASE i > Len(l) -> IF rest > 0 THEN out \o Zeros(rest) ELSE out
      [] i <= Len(l) /\ type.info.is_union /\ l[i].k = "none" -> EmitMembers(out, type, l, i + 1, offset, wasm)
      [] i <= Len(l) /\ ~(type.info.is_union /\ l[i].k = "none") ->
           EmitMembers(construct_initial_value(Padding(out, offset, align, wasm), m.type, l[i], wasm), type, l, i + 1,
                       ALIGN(offset, align) + type_size(m.type), wasm)))

construct_initial_value(out, type, init, wasm) ==
  LET given == IF init.k = "multi" THEN init.list ELSE <<>>
      all   == IF init.k = "multi" THEN init.list ELSE [i \in DOMAIN type.info.members |-> None] \o <<>>
      \* a union that is given nothing has its first member cleared
      first == type.info.members[1].type
      n     == type_size(type)
  IN  CASE scalar(type) -> out \o ScalarBytes(type, init)
        [] type.k = "array" /\ init.k # "single" -> EmitElements(out, type, given, 1, 0, wasm)
        [] type.k = "array" /\ init.k = "single" ->
             Where(SubSeq(init.e.chars, 1, MinOf({n, Len(init.e.chars)})), LAMBDA src : out \o src \o Zeros(n - Len(src)))
        [] type.k = "struct" ->
             IF type.info.is_union /\ \A i \in DOMAIN all : all[i].k = "none"
             THEN construct_initial_value(out, first, None, wasm) \o Zeros(n - type_size(first))
             ELSE EmitMembers(out, type, all, 1, 0, wasm)

\* The bytes wcc writes for a variable, and cc1's directives stand for.
DataSegment(type, init)     == construct_initial_value(<<>>, type, init, TRUE)
DataDirectives(type, init)  == construct_initial_value(<<>>, type, init, FALSE)

----------------------------------------------------------------------------
(* check_vardecl() and what becomes of the initializer: the type with its   *)
(* length, the statements, or the initializer that is written out.          *)
Declared(type, storage, w) ==
  Where(flatten_initializer(type, w.e), LAMBDA flat :
  Where(IF type.k = "array" /\ flat.k # "refused" THEN fix_array_size(type, flat) ELSE type, LAMBDA fixed :
  LET ok    == ~w.err /\ flat.k # "refused" /\ fixed.k # "none"
  IN  Where(check_global_initializer(fixed, flat), LAMBDA glob :
  Where(assign_initial_value([w |-> w, stmts |-> <<>>], [k |-> "var", t |-> fixed, x |-> "x"], flat), LAMBDA a :
    CASE ~ok -> [ok |-> FALSE]
      [] ok /\ storage = "local" -> [ok |-> ~a.w.err, type |-> fixed, tmps |-> a.w.tmps, stmts |-> a.stmts]
      [] ok /\ storage # "local" -> [ok |-> glob.k # "refused", type |-> fixed, init |-> glob]))))

\* gen_clear_local_var(), then the statements.
RECURSIVE RunStmts(_, _)
RunStmts(stmts, s) ==
  LET st == Head(stmts)
  IN  Where(Eval(st.dst, s), LAMBDA d :
  LET to == d.v
  IN  Where(IF st.k # "copy" THEN Eval(st, s)
           ELSE [d EXCEPT !.mem = [i \in DOMAIN @ |-> IF i \in to..(to + st.size - 1)
                                                      THEN IF i - to < Len(st.chars) THEN st.chars[i - to + 1] ELSE 0
                                                      ELSE @[i]] \o <<>>], LAMBDA next :
    IF stmts = <<>> \/ s.o # "run" THEN s ELSE RunStmts(Tail(stmts), next)))

Overwrite(mem, a, bytes) ==
  [i \in DOMAIN mem |-> IF i \in a..(a + Len(bytes) - 1) THEN bytes[i - a + 1] ELSE mem[i]] \o <<>>
(* Mutant: only what is initialized is written. *)
gen_clear_local_varNever(type, a, s) == s
gen_clear_local_var(type, a, s) == IF scalar(type) THEN s ELSE [s EXCEPT !.mem = Overwrite(@, a, Zeros(type_size(type)))]
=============================================================================
