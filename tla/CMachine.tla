------------------------------- MODULE CMachine -----------------------------
(***************************************************************************)
(* What a C compiler makes of the text of CWriter: whether it is a         *)
(* program, and what the program does.  C lays its structs out by rules of *)
(* its own, finds objects by the innermost declaration of their name,      *)
(* passes arguments by value, and computes in the common type of the       *)
(* operands.                                                               *)
(***************************************************************************)
EXTENDS CWriter

CFuel == 80   (* bound: statements executed in a run                         *)

RECURSIVE CAlign(_), CSize(_), LeafOffsets(_, _)
CAlign(type) ==
  IF type.kind # "Aggregate" THEN type.size ELSE Max({1} \cup {CAlign(type.elems[i].type) : i \in DOMAIN type.elems})
CPlaces(type) ==
  FoldLeft(LAMBDA ends, elem : LET start == RoundUp(Last(ends)[2], CAlign(elem.type))
                               IN Append(ends, <<start, start + elem.count * CSize(elem.type)>>),
           <<<<0, 0>>>>, type.elems)
CSize(type) == IF type.kind # "Aggregate" THEN type.size ELSE RoundUp(Last(CPlaces(type))[2], CAlign(type))
LeafOffsets(type, offset) ==
  IF type.kind # "Aggregate" THEN <<offset>>
  ELSE LET places == Tail(CPlaces(type))
       IN FlattenSeq([e \in DOMAIN type.elems |->
            FlattenSeq([c \in 1..type.elems[e].count |->
              LeafOffsets(type.elems[e].type, offset + places[e][1] + (c - 1) * CSize(type.elems[e].type))])])
RECURSIVE LeafTypes(_)
LeafTypes(type) ==
  IF type.kind # "Aggregate" THEN <<type>>
  ELSE FlattenSeq([e \in DOMAIN type.elems |-> FlattenSeq([c \in 1..type.elems[e].count |-> LeafTypes(type.elems[e].type)])])

-----------------------------------------------------------------------------
(* What makes the text a program.  Types are declared in order, objects and  *)
(* procedures before the procedures that use them.                           *)
Statements(f) == FlattenSeq([b \in DOMAIN f.blocks |-> f.blocks[b].stmts])
ExprsOf(stmt) == stmt.dst \o stmt.srcs \o stmt.args
Exprs(f) == FlattenSeq([s \in DOMAIN Statements(f) |-> ExprsOf(Statements(f)[s])])
TypesOf(f) ==
  {f.ret} \cup {f.params[i].type : i \in DOMAIN f.params} \cup {f.locals[i].type : i \in DOMAIN f.locals}
  \cup {e.type : e \in {x \in Range(Exprs(f)) : x.kind = "access"}}
TypesDeclared(c) ==
  LET Known(type, upto) == ~IsComplex(type) \/ type.size = 0 \/ \E k \in 1..upto : c.types[k] = type
  IN /\ \A k \in DOMAIN c.types : \A part \in Range(PartsOf(c.types[k])) : Known(part, k - 1)
     /\ \A d \in Range(c.forward) : Known(d.type, Len(c.types)) \/ d.kind # "data"
     /\ \A f \in Range(c.main) : \A type \in TypesOf(f) : Known(type, Len(c.types))
NamesIn(f) == [i \in DOMAIN f.params |-> f.params[i].name] \o [i \in DOMAIN f.locals |-> f.locals[i].name]
Declares(c, upto) == {c.forward[k].name : k \in 1..upto}
BasesDeclared(bases, names) ==
  \A b \in bases : /\ b.kind \in {"name", "address"}
                   /\ b.kind = "name" => b.name \in names
                   /\ b.kind = "address" => b.of[1].kind = "name" /\ b.of[1].name \in names
NamesDeclared(c) ==
  /\ \A k, l \in DOMAIN c.forward : c.forward[k].name = c.forward[l].name => k = l
  /\ \A k \in DOMAIN c.forward : BasesDeclared({b \in Range(c.forward[k].leaves) : b.kind # "literal"}, Declares(c, k - 1))
  /\ \A f \in Range(c.main) :
       /\ IsInjective(NamesIn(f))
       /\ LET names == Range(NamesIn(f)) \cup Declares(c, Len(c.forward))
              exprs == Range(Exprs(f))
          IN /\ BasesDeclared({e.base : e \in {x \in exprs : x.base.kind # "literal"}}, names)
             /\ \A e \in exprs : e.kind = "access" /\ e.indir = 0 => e.base.kind = "name"
LabelsDeclared(c) ==
  \A f \in Range(c.main) :
    LET labels == [b \in DOMAIN f.blocks |-> f.blocks[b].label]
    IN IsInjective(labels) /\ \A s \in Range(Statements(f)) : s.label # "" => s.label \in Range(labels)
CallsWhole(c) == \A f \in Range(c.main) : \A s \in Range(Statements(f)) : ~s.missing
IsProgram(c) == ~c.unknownTarget /\ TypesDeclared(c) /\ NamesDeclared(c) /\ LabelsDeclared(c) /\ CallsWhole(c)

-----------------------------------------------------------------------------
(* An object of the running procedure, or one that all of them see.          *)
LocalObject(depth, i) == <<"local", depth, i>>
ParamObject(depth, i) == <<"param", depth, i>>
Entity(kind, obj, type) == [kind |-> kind, obj |-> obj, type |-> type]
Look(m, c, name) ==
  LET f == c.main[m.reg.func]
      local == SelectInSeq(f.locals, LAMBDA v : v.name = name)
      param == SelectInSeq(f.params, LAMBDA v : v.name = name)
      global == SelectInSeq(c.forward, LAMBDA d : d.name = name)
  IN CASE local # 0 -> Entity("object", LocalObject(m.reg.depth, local), f.locals[local].type)
       [] param # 0 -> Entity("object", ParamObject(m.reg.depth, param), f.params[param].type)
       [] c.forward[global].kind = "data" -> Entity("object", <<"global", global, 0>>, c.forward[global].type)
       [] OTHER -> Entity("proc", <<c.forward[global].kind, global, 0>>, c.forward[global].type)

(* The value of an expression: its type and bytes.                           *)
Typed(type, bytes) == [type |-> type, bytes |-> bytes, addr |-> Junk]
NumberIn(rv) == IF IsNumeric(rv.type) THEN AsNumber(rv.type.num, FromBytes(rv.bytes)) ELSE FromBytes(rv.bytes)
OfNumber(num, v) == Typed(NumericType(num), Bytes(v, WidthOf[num]))
GlobalAddress(c, base) ==
  Address(<<"global", SelectInSeq(c.forward, LAMBDA d : d.name = base.of[1].name), 0>>, 0)
BaseValue(m, c, base) ==
  CASE base.kind = "literal" -> OfNumber(base.num, base.v)
    [] base.kind = "address" -> Typed(PointerType, Bytes(GlobalAddress(c, base), 8))
    [] OTHER -> Given(Look(m, c, base.name), LAMBDA e :
         IF e.kind = "object" THEN [type |-> e.type, bytes |-> Fetch(m, Address(e.obj, 0), CSize(e.type)), addr |-> Address(e.obj, 0)]
         ELSE Typed(e.type, Bytes(Code(e.obj[1], e.obj[2]), 8)))
Followed(m, expr, base) ==
  FoldLeft(LAMBDA a, i : Load(m, a, 8), Plus(IF expr.indir = 0 THEN base.addr ELSE FromBytes(base.bytes), expr.offset + expr.post),
           [i \in 1..expr.indir - 1 |-> i])
Lvalue(m, type, a) == [type |-> type, bytes |-> Fetch(m, a, CSize(type)), addr |-> a]
Evaluate(m, c, expr) ==
  Given(BaseValue(m, c, expr.base), LAMBDA base :
    IF expr.kind = "plain" THEN base ELSE Lvalue(m, expr.type, Followed(m, expr, base)))
Values(m, c, exprs) == [i \in DOMAIN exprs |-> Evaluate(m, c, exprs[i])]
Converted(type, rv) ==
  IF IsNumeric(type) THEN Bytes(Convert(type.num, NumberIn(rv)), WidthOf[type.num])
  ELSE IF Len(rv.bytes) = CSize(type) THEN rv.bytes ELSE Bytes(Junk, CSize(type))
Stored(m, dst, rv) == Place(m, dst.addr, Converted(dst.type, rv))
AssignTo(m, c, exprs, rv) ==
  IF exprs = <<>> THEN m ELSE IF rv = <<>> THEN Faulty(m) ELSE Stored(m, Evaluate(m, c, exprs[1]), rv[1])

-----------------------------------------------------------------------------
(* A call: the objects of the procedure are made, its parameters filled.     *)
NewObjects(m, objs, bytes) == FoldLeft(LAMBDA n, i : IF n.fault THEN n ELSE New(n, objs[i], bytes[i]), m, [i \in DOMAIN objs |-> i])
Enter(m, func, f, values, dst) ==
  LET depth == Len(m.ctrl) + 1
      objs == [i \in DOMAIN f.locals |-> LocalObject(depth, i)] \o [i \in DOMAIN f.params |-> ParamObject(depth, i)]
      bytes == [i \in DOMAIN f.locals |-> Zeros(CSize(f.locals[i].type))]
                 \o [i \in DOMAIN f.params |-> Converted(f.params[i].type, values[i])]
  IN IF Len(values) # Len(f.params) THEN Faulty(m)
     ELSE [NewObjects(m, objs, bytes) EXCEPT !.ctrl = Append(@, m.reg),
                                             !.reg = [func |-> func, block |-> 1, pos |-> 1, depth |-> depth, dst |-> dst]]
LibraryAnswer(ret) ==
  IF IsNumeric(ret) THEN OfNumber(ret.num, NumberOf(ret.num, IF IsWhole(ret.num) THEN 1 ELSE 4)) ELSE Typed(ret, Zeros(CSize(ret)))
Cast(casts, i, rv) == IF i \in DOMAIN casts THEN Typed(casts[i], Converted(casts[i], rv)) ELSE rv
CallExtern(m, c, decl, values, dst) ==
  LET own == Info(decl.type).args
      seen == [i \in DOMAIN values |-> Given(Cast(own, i, values[i]), LAMBDA rv : Seen(m, rv.type, rv.bytes))]
  IN AssignTo(Observe(m, decl.name[1], seen), c, dst, <<LibraryAnswer(Info(decl.type).ret)>>)
CallC(m, c, stmt, callee, args) ==
  LET values == [i \in DOMAIN args |-> IF i \in DOMAIN stmt.casts /\ IsCast(stmt.casts[i]) THEN Cast(stmt.casts, i, args[i]) ELSE args[i]]
      func == SelectInSeq(c.main, LAMBDA f : f.name = c.forward[callee.n].name)
  IN CASE callee.kind = "externProc" -> CallExtern(m, c, c.forward[callee.n], values, stmt.dst)
       [] callee.kind = "proc" -> Enter(m, func, c.main[func], values, stmt.dst)
       [] OTHER -> Faulty(m)
ReturnC(m, c, srcs) ==
  LET ret == c.main[m.reg.func].ret
      gone == {obj \in DOMAIN m.mem : obj[1] \in {"local", "param"} /\ obj[2] = m.reg.depth}
  IN Given([i \in DOMAIN srcs |-> Typed(ret, Converted(ret, srcs[i]))], LAMBDA value :
       AssignTo([Freed(m, gone) EXCEPT !.reg = Last(m.ctrl), !.ctrl = Front(m.ctrl), !.code = value], c, m.reg.dst, value))

JumpC(m, c, label) ==
  [m EXCEPT !.reg.block = SelectInSeq(c.main[m.reg.func].blocks, LAMBDA b : b.label = label), !.reg.pos = 1]
GotoIf(m, c, stmt, v) ==
  IF v.kind = "junk" THEN Faulty(m)
  ELSE IF (v.kind \in Numbers /\ v.n = 0) = (stmt.code = "jmpz") THEN JumpC(m, c, stmt.label) ELSE m
OperationC(code, xnum, x, ynum, y) == OfNumber(ResultType(code, xnum, ynum), Result(code, xnum, x, ynum, y))
CValue(stmt, srcs) ==
  CASE stmt.code = "lea" -> Typed(PointerType, Bytes(srcs[1].addr, 8))
    [] stmt.code = "ext" -> Cast(stmt.casts, 1, srcs[1])
    [] stmt.code \in {"mov", "trunc", "fp2i", "i2fp"} -> srcs[1]
    [] \A i \in DOMAIN srcs : IsNumeric(srcs[i].type) ->
         Given([i \in DOMAIN srcs |-> NumberIn(srcs[i])], LAMBDA ns :
           OperationC(stmt.code, srcs[1].type.num, ns[1], srcs[2].type.num, ns[2]))
    [] OTHER -> OfNumber("i32", Junk)
SystemCallC(m, values) == Observe(m, "syscall", [i \in DOMAIN values |-> SeenNumber(NumberIn(values[i]))])
PerformC(m, c, stmt, srcs, args) ==
  CASE stmt.code = "ret" -> ReturnC(m, c, srcs)
    [] stmt.code = "jmp" -> JumpC(m, c, stmt.label)
    [] stmt.code \in {"jmpz", "jmpnz"} -> GotoIf(m, c, stmt, NumberIn(srcs[1]))
    [] stmt.code = "call" -> CallC(m, c, stmt, FromBytes(srcs[1].bytes), args)
    [] stmt.code = "syscall" -> AssignTo(SystemCallC(m, srcs \o args), c, stmt.dst, <<OfNumber("i32", Whole(1))>>)
    [] OTHER -> AssignTo(m, c, stmt.dst, <<CValue(stmt, srcs)>>)
ExecuteC(m, c, stmt) ==
  Given(Values(m, c, stmt.srcs \o stmt.args), LAMBDA all :
    PerformC(m, c, stmt, SubSeq(all, 1, Len(stmt.srcs)), SubSeq(all, Len(stmt.srcs) + 1, Len(all))))

StepC(m, c) ==
  IF m.fuel = 0 \/ m.reg.block \notin DOMAIN c.main[m.reg.func].blocks THEN Faulty(m)
  ELSE LET stmts == c.main[m.reg.func].blocks[m.reg.block].stmts
       IN IF m.reg.pos > Len(stmts) THEN [m EXCEPT !.reg.block = @ + 1, !.reg.pos = 1, !.fuel = @ - 1]
          ELSE ExecuteC([m EXCEPT !.reg.pos = @ + 1, !.fuel = @ - 1], c, stmts[m.reg.pos])
(* Up to so many steps.                                                      *)
RECURSIVE RunC(_, _, _)
RunC(m, c, steps) ==
  IF m.fault \/ m.ctrl = <<>> THEN m ELSE IF steps = 1 THEN StepC(m, c)
  ELSE Given(RunC(m, c, steps \div 2), LAMBDA half : RunC(half, c, steps - steps \div 2))

(* A run of the program: its data, then main, which calls the entry point.   *)
Initialised(c, m, k) ==
  LET d == c.forward[k]
      blank == New(m, <<"global", k, 0>>, Zeros(CSize(d.type)))
  IN IF d.kind # "data" THEN m
     ELSE Given(<<LeafOffsets(d.type, 0), LeafTypes(d.type)>>, LAMBDA at :
            FoldLeft(LAMBDA n, i : IF n.fault THEN n ELSE Place(n, Address(<<"global", k, 0>>, at[1][i]), Converted(at[2][i], BaseValue(m, c, d.leaves[i]))),
                     blank, [i \in DOMAIN d.leaves |-> i]))
MainArgs(params) ==
  IF Len(params) = 2 THEN <<OfNumber("i32", Whole(1)), Typed(PointerType, Bytes(Address(<<"argv", 0, 0>>, 0), 8))>> ELSE <<>>
RunsInC(c) ==
  LET func == SelectInSeq(c.main, LAMBDA f : f.name = <<"__nkl_main", 0>>)
      idle == [func |-> 0, block |-> 0, pos |-> 0, depth |-> 0, dst |-> <<>>]
      ready == NewMachine @@ [reg |-> idle, ctrl |-> <<>>, fuel |-> CFuel, code |-> <<>>]
      loaded == FoldLeft(LAMBDA m, k : IF m.fault THEN m ELSE Initialised(c, m, k), New(ready, <<"argv", 0, 0>>, Zeros(8)), [k \in DOMAIN c.forward |-> k])
  IN Given(RunC(Enter(loaded, func, c.main[func], MainArgs(c.main[func].params), <<>>), c, CFuel + 1), LAMBDA done :
       Observe(done, "exit", IF done.code = <<>> THEN <<<<"junk">>>>
                             ELSE <<Seen(done, NumericType("i32"), Converted(NumericType("i32"), done.code[1]))>>))
=============================================================================
