---------------------------- MODULE LLVMEmitter ----------------------------
(***************************************************************************)
(* The emitter of LLVM IR (nkb2/src/llvm_emitter.c): what it prints of a   *)
(* procedure, as a sequence of LLVM instructions, and of a datum, as a     *)
(* typed constant.  c is the context of a procedure; c.failed is a failed  *)
(* assertion of the emitter.                                               *)
(***************************************************************************)
EXTENDS IRText

LLVMNames == [i8 |-> "i8", i32 |-> "i32", i64 |-> "i64", u64 |-> "i64", f64 |-> "double"]
IsFloat(type) == type.num = "f64"
IsInt(type) == IsNum(type) /\ ~IsFloat(type)
IsSigned(type) == type.num \in {"i8", "i32", "i64"}
IsAggr(type) == ~IsNum(type)

PTR == Toks(<<"ptr">>)
ArrayType(count, of) == <<Tok("["), Val("x", count)>> \o of \o <<Tok("]")>>
RelocsAt(relocs, offset) == SelectSeq(relocs, LAMBDA r : r.offset = offset)

(* emitTypeEx: a number with a relocation is a pointer; only the first item  *)
(* of an array is looked at.                                                 *)
RECURSIVE TypeEx(_, _, _)
TypeEx(type, base, relocs) ==
  LET part(e) ==
        LET of == IF IsNum(e.type) /\ RelocsAt(relocs, base + e.offset) # <<>> THEN PTR
                  ELSE TypeEx(e.type, base + e.offset, relocs)
        IN IF e.count > 1 THEN ArrayType(e.count, of) ELSE of
  IN IF IsNum(type) THEN <<Tok(LLVMNames[type.num])>>
     ELSE IF type.size = 0 THEN <<Tok("void")>>
     ELSE <<Tok("{")>> \o Commas([i \in DOMAIN type.elems |-> part(type.elems[i])]) \o <<Tok("}")>>
LType(type) == TypeEx(type, 0, <<>>)

V(k, v) == [k |-> k, v |-> v]
RefVal(ref) ==
  CASE ref.kind \in {"Local", "Param"} -> V("local", ref.v)
    [] ref.kind = "Global" -> V("global", PrintName(ref.v))
    [] ref.kind = "Imm" -> V("imm", ref.v)
    [] OTHER -> V("none", <<>>)
RefType(ref) ==
  CASE ref.kind = "None" -> <<>>
    [] ref.kind = "Global" -> PTR
    [] ref.kind = "Variadic" -> <<Tok("...")>>
    [] OTHER -> LType(ref.type)
Typed(type, v) == [type |-> type, v |-> v]
RefOperand(ref) == Typed(RefType(ref), RefVal(ref))

-----------------------------------------------------------------------------
(* An instruction: its name in parts, what it defines, of which type, from   *)
(* what, and where it may go.                                                *)
Line(op, dst, type, args, to) == [op |-> op, dst |-> dst, type |-> type, args |-> args, to |-> to]
Nothing == V("none", <<>>)
Out(c, line) == [c EXCEPT !.code = Append(@, line)]
Require(c, holds) == IF holds THEN c ELSE [c EXCEPT !.failed = TRUE]
Temp(n) == V("temp", n)
After(c, Next(_)) == Next(c)

ParamIsPtr(proc, name) ==
  \/ \E i \in DOMAIN proc.params : proc.params[i].name = name /\ IsAggr(proc.params[i].type)
  \/ proc.ret.name = name
RefIsPtr(proc, ref) == ref.kind = "Global" \/ (ref.kind = "Param" /\ ParamIsPtr(proc, ref.v))

(* intToPtr and ptrToInt: the operand is left in c.val.                      *)
IntToPtr(c, ref, type) ==
  IF RefIsPtr(c.proc, ref) THEN [c EXCEPT !.val = RefVal(ref)]
  ELSE [Out(c, Line(<<"inttoptr">>, Temp(c.nextLocal), PTR, <<Typed(LType(type), RefVal(ref))>>, <<>>))
          EXCEPT !.val = Temp(c.nextLocal), !.nextLocal = @ + 1]
PtrToIntUnchecked(c, ref) == [c EXCEPT !.val = RefVal(ref)]
PtrToInt(c, ref) ==
  IF ~RefIsPtr(c.proc, ref) THEN [c EXCEPT !.val = RefVal(ref)]
  ELSE [Out(c, Line(<<"ptrtoint">>, Temp(c.nextLocal), LType(ref.type), <<Typed(PTR, RefVal(ref))>>, <<>>))
          EXCEPT !.val = Temp(c.nextLocal), !.nextLocal = @ + 1]

(* emitLabel.                                                                *)
LabelAt(labels, k) == IF k = 0 THEN V("none", <<>>) ELSE V("label", LabelText(labels, k))
LabelName(c, idx, arg) == LabelAt(c.labels, LabelOfArg(c.proc.instrs[idx], idx, c.labels, arg))

-----------------------------------------------------------------------------
Ref0(c, i) == c.proc.instrs[i].arg[1].v
Ref1(c, i) == c.proc.instrs[i].arg[2].v
Ref2(c, i) == c.proc.instrs[i].arg[3].v

Logic == {"and", "rsh"}
(* emitBinop, emitLogic.                                                     *)
BinaryPrefix(type, code) ==
  CASE code = "rsh" -> IF IsSigned(type) THEN "a" ELSE "l"
    [] code = "and" -> ""
    [] code \notin Logic /\ IsFloat(type) -> "f"
    [] code = "div" /\ ~IsFloat(type) -> IF IsSigned(type) THEN "s" ELSE "u"
    [] code \in {"add", "sub"} /\ ~IsFloat(type) -> ""
BinaryLine(code, dst, type, prefix, lhs, rhs) == Line(<<prefix, code>>, dst, type, <<Typed(type, lhs), Typed(type, rhs)>>, <<>>)
EmitBinary(c, i, code, type) ==
  After(PtrToInt(c, Ref1(c, i)), LAMBDA lhs :
    After(PtrToInt(lhs, Ref2(c, i)), LAMBDA rhs :
      Out(Require(rhs, IsNum(type) /\ (code \in Logic => IsInt(type))),
          BinaryLine(code, RefVal(Ref0(c, i)), LType(type), BinaryPrefix(type, code), lhs.val, rhs.val))))

CmpOp(type, code) ==
  IF IsFloat(type) THEN <<"fcmp", "o", code>>
  ELSE <<"icmp", IF code = "eq" THEN "" ELSE IF IsSigned(type) THEN "s" ELSE "u", code>>

(* emitCondJmp: a compare with zero, a branch, and the block after it.       *)
I1 == Toks(<<"i1">>)
CompareLine(c, type, code, lhs, rhs) == Line(CmpOp(type, code), Temp(c.nextLocal), I1, <<lhs, Typed(lhs.type, rhs)>>, <<>>)
EmitBranch(c, target, next) ==
  [Out(Out(c, Line(<<"br">>, Nothing, <<>>, <<Typed(I1, Temp(c.nextLocal))>>, <<target, next>>)),
       Line(<<"label">>, next, <<>>, <<>>, <<>>)) EXCEPT !.nextLocal = @ + 1, !.nextLabel = @ + 1]
EmitCondJmp(c, i, ref, target) ==
  EmitBranch(Out(Require(c, IsNum(ref.type) /\ target.k # "none"),
                 CompareLine(c, ref.type, "eq", RefOperand(ref), V("imm", 0))),
             target, V("next", c.nextLabel))

(* emitCond.                                                                 *)
EmitCond(c, i, code, type, dst) ==
  [Out(Out(Require(c, IsNum(type) /\ IsInt(dst.type)),
           CompareLine(c, type, code, RefOperand(Ref1(c, i)), RefVal(Ref2(c, i)))),
       Line(<<IF IsSigned(dst.type) THEN "sext" ELSE "zext">>, RefVal(dst), RefType(dst),
            <<Typed(I1, Temp(c.nextLocal))>>, <<>>)) EXCEPT !.nextLocal = @ + 1]

(* emitMov, emitCast.                                                        *)
CastOp(src, dst) ==
  LET sign(type) == IF IsFloat(type) THEN "fp" ELSE IF IsSigned(type) THEN "si" ELSE "ui"
  IN IF IsInt(src) # IsInt(dst) THEN IF IsInt(src) THEN <<sign(src), "to", "fp">> ELSE <<"fp", "to", sign(dst)>>
     ELSE IF src.size = dst.size THEN <<"bitcast">>
     ELSE IF src.size > dst.size THEN <<IF IsInt(src) THEN "trunc" ELSE "fptrunc">>
     ELSE <<IF IsFloat(src) THEN "fpext" ELSE IF IsSigned(src) THEN "sext" ELSE "zext">>

EmitCast(c, i, op) ==
  After(PtrToInt(c, Ref0(c, i)), LAMBDA lhs :
    After(PtrToInt(lhs, Ref1(c, i)), LAMBDA rhs :
      Out(rhs, Line(op, lhs.val, RefType(Ref0(c, i)), <<Typed(LType(Ref1(c, i).type), rhs.val)>>, <<>>))))

EmitAlloc(c, i) ==
  LET alloca == Line(<<"alloca">>, Temp(c.nextLocal), PTR, <<Typed(LType(Ref1(c, i)), Nothing)>>, <<>>)
      toInt == Line(<<"ptrtoint">>, RefVal(Ref0(c, i)), RefType(Ref0(c, i)), <<Typed(PTR, Temp(c.nextLocal))>>, <<>>)
  IN [Out(Out(c, alloca), toInt) EXCEPT !.nextLocal = @ + 1]

EmitLoad(c, i) ==
  After(IntToPtr(c, Ref1(c, i), Ref1(c, i).type), LAMBDA ptr :
    Out(ptr, Line(<<"load">>, RefVal(Ref0(c, i)), RefType(Ref0(c, i)), <<Typed(PTR, ptr.val)>>, <<>>)))

EmitStore(c, i) ==
  After(IntToPtr(c, Ref0(c, i), Ref0(c, i).type), LAMBDA ptr :
    Out(ptr, Line(<<"store">>, Nothing, <<>>, <<RefOperand(Ref1(c, i)), Typed(PTR, ptr.val)>>, <<>>)))

(* A result that is an aggregate is written through the pointer in ref0.     *)
ReturnedInMemory(type) == IsAggr(type) /\ type.size > 0
CallLine(proc, into, args, dst, sret) ==
  Line(<<"call">>, IF sret \/ dst.kind = "Null" THEN Nothing ELSE RefVal(dst), IF sret THEN Toks(<<"void">>) ELSE LType(dst.type),
       <<Typed(PTR, proc)>> \o (IF sret THEN <<Typed(PTR, into)>> ELSE <<>>) \o [a \in DOMAIN args |-> RefOperand(args[a])], <<>>)
EmitCall(c, i, dst, sret) ==
  After(IntToPtr(c, Ref1(c, i), Ref1(c, i).type), LAMBDA proc :
    After(IF sret THEN IntToPtr(proc, dst, Ref1(c, i).type) ELSE proc, LAMBDA into :
      Out(into, CallLine(proc.val, into.val, SelectSeq(Ref2(c, i), LAMBDA r : r.kind # "Variadic"), dst, sret))))

EmitRet(c, ref) == Out(c, Line(<<"ret">>, Nothing, <<>>, IF ref.kind = "None" THEN <<>> ELSE <<RefOperand(ref)>>, <<>>))
EmitJmp(c, target) == Out(Require(c, target.k # "none"), Line(<<"br">>, Nothing, <<>>, <<>>, <<target>>))

(* emitInstr; a cast comes to emitMov with the operation it needs.           *)
CastOrMov(c, i, code) ==
  IF code = "mov" THEN <<"bitcast">> ELSE CastOp(Ref1(c, i).type, Ref0(c, i).type)
EmitInstr(c, i) ==
  LET code == c.proc.instrs[i].code
      target(n) == LabelName(c, i, c.proc.instrs[i].arg[n])
  IN CASE code \in {"nop", "comment"} -> c
       [] code \in {"mov", "cast"} ->
            EmitCast(Require(c, code = "cast" => IsNum(Ref1(c, i).type) /\ IsNum(Ref0(c, i).type)), i, CastOrMov(c, i, code))
       [] code = "alloc" -> EmitAlloc(c, i)
       [] code = "load" -> EmitLoad(c, i)
       [] code = "store" -> EmitStore(c, i)
       [] code = "jmp" -> EmitJmp(c, target(2))
       [] code \in {"jmpz", "jmpnz"} -> EmitCondJmp(c, i, Ref1(c, i), target(3))
       [] code \in Comparisons -> EmitCond(c, i, code, Ref1(c, i).type, Ref0(c, i))
       [] code = "label" -> Out(c, Line(<<"label">>, target(2), <<>>, <<>>, <<>>))
       [] code \in {"add", "sub", "div"} \cup Logic -> EmitBinary(c, i, code, Ref1(c, i).type)
       [] code = "call" -> EmitCall(c, i, Ref0(c, i), Ref0(c, i).kind # "Null" /\ ReturnedInMemory(Ref0(c, i).type))
       [] code = "ret" -> EmitRet(c, Ref1(c, i))

(* emitSymbol: the parameters, with the place of the result in front, and    *)
(* the type of the result.                                                   *)
Param(name, type) ==
  IF IsAggr(type) THEN [name |-> name, type |-> PTR, attr |-> <<Tok("byval")>> \o LType(type)]
  ELSE [name |-> name, type |-> LType(type), attr |-> <<>>]
ResultParam(name, type) == [name |-> name, type |-> PTR, attr |-> <<Tok("sret")>> \o LType(type)]
EmitBody(sym) ==
  FoldLeft(EmitInstr,
           [proc |-> sym, labels |-> Labels(sym.instrs), code |-> <<>>, nextLocal |-> 0, nextLabel |-> 0,
            val |-> Nothing, failed |-> FALSE],
           [i \in DOMAIN sym.instrs |-> i])
Params(sret, name, types, names, result) ==
  (IF sret THEN <<ResultParam(name, result)>> ELSE <<>>) \o [i \in DOMAIN types |-> Param(names[i], types[i])]
Result(sret, type) == IF sret THEN Toks(<<"void">>) ELSE LType(type)
FunctionOf(c, sym, sret) ==
  [failed |-> c.failed, code |-> c.code, ret |-> Result(sret, sym.ret.type),
   params |-> Params(sret, sym.ret.name, [i \in DOMAIN sym.params |-> sym.params[i].type],
                     [i \in DOMAIN sym.params |-> sym.params[i].name], sym.ret.type)]
EmitProc(sym) == FunctionOf(EmitBody(sym), sym, sym.ret.name # <<>>)

(* symToExtern (ir.c): a symbol that is loaded already is declared instead.  *)
SymToExtern(sym) ==
  IF sym.kind = "Proc"
  THEN [kind |-> "Extern", name |-> sym.name, vis |-> sym.vis, lib |-> <<>>, isProc |-> TRUE, variadic |-> FALSE,
        params |-> [i \in DOMAIN sym.params |-> sym.params[i].type], type |-> sym.ret.type]
  ELSE IF sym.kind = "Data"
  THEN [kind |-> "Extern", name |-> sym.name, vis |-> sym.vis, lib |-> <<>>, isProc |-> FALSE, variadic |-> FALSE,
        params |-> <<>>, type |-> sym.type]
  ELSE sym

EmitExtern(sym) ==
  [type |-> Result(sym.isProc /\ ReturnedInMemory(sym.type), sym.type),
   params |-> Params(sym.isProc /\ ReturnedInMemory(sym.type), <<>>, sym.params, [i \in DOMAIN sym.params |-> <<>>], sym.type)]

-----------------------------------------------------------------------------
(* emitVal.  A byte array is as long as the first element of the aggregate,  *)
(* and nks_sanitize writes a quote and a backslash as they are.              *)
Const(type, k, v) == [type |-> type, k |-> k, v |-> v]
BytesLength(type, elem) == type.elems[1].count

RECURSIVE EmitVal(_, _, _, _)
EmitVal(mem, base, relocs, type) ==
  LET item(e, i) ==
        LET offset == base + e.offset + (i - 1) * e.type.size
            to == RelocsAt(relocs, offset)
        IN IF IsNum(e.type) /\ to # <<>> THEN Const(PTR, "global", to[1].sym)
           ELSE EmitVal(mem, offset, relocs, e.type)
      array(e) == ArrayType(e.count, TypeEx(e.type, base + e.offset, relocs))
      part(e) ==
        IF IsBytes(e)
        THEN Const(IF e.count > 1 THEN array(e) ELSE <<>>, "bytes",
                   [n \in 1..BytesLength(type, e) |-> mem[base + e.offset + n - 1]])
        ELSE IF e.count > 1 THEN Const(array(e), "array", [i \in 1..e.count |-> item(e, i)])
        ELSE item(e, 1)
  IN IF IsNum(type) THEN Const(LType(type), "num", <<mem[base]>>)
     ELSE Const(TypeEx(type, base, relocs), "struct", [i \in DOMAIN type.elems |-> part(type.elems[i])])

(* emitData.                                                                 *)
EmitData(sym) ==
  IF sym.mem # <<>> THEN EmitVal(sym.mem, 0, sym.relocs, sym.type)
  ELSE IF IsNum(sym.type) THEN Const(LType(sym.type), "num", <<0>>)
  ELSE Const(LType(sym.type), "zero", <<>>)
=============================================================================
