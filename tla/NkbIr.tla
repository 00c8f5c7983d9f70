------------------------------- MODULE NkbIr --------------------------------
(***************************************************************************)
(* The programs of nkb (nkb/src/ir.cpp): procedures, their blocks, local   *)
(* variables and data with relocations, as its clients build them.  A      *)
(* label is the index of its block; indices start at 1 here.               *)
(***************************************************************************)
EXTENDS Integers, Sequences, SequencesExt, FiniteSetsExt, Bitwise

(* The numeric types, in the order of NKIR_NUMERIC_TYPE_INDEX.               *)
Numerics == <<"i8", "u8", "i16", "u16", "i32", "u32", "i64", "u64", "f32", "f64">>
WidthOf == [i8 |-> 1, u8 |-> 1, i16 |-> 2, u16 |-> 2, i32 |-> 4, u32 |-> 4, i64 |-> 8, u64 |-> 8, f32 |-> 4, f64 |-> 8]
IndexOf(num) == CHOOSE i \in DOMAIN Numerics : Numerics[i] = num
IsWhole(num) == IndexOf(num) <= 8
IsSigned(num) == IndexOf(num) % 2 = 1

(* Types are interned by all of their parts (nkirc/src/types.cpp), so equal  *)
(* records are one type and a record stands for its id.                      *)
Type(kind, num, elems, proc, size, align) ==
  [kind |-> kind, num |-> num, elems |-> elems, proc |-> proc, size |-> size, align |-> align]
NumericType(num) == Type("Numeric", num, <<>>, <<>>, WidthOf[num], WidthOf[num])
PointerType == Type("Pointer", "", <<>>, <<>>, 8, 8)
ProcedureType(args, ret, cdecl, variadic) ==
  Type("Procedure", "", <<>>, <<[args |-> args, ret |-> ret, cdecl |-> cdecl, variadic |-> variadic]>>, 8, 8)
VoidType == Type("Aggregate", "", <<>>, <<>>, 0, 1)
IsNumeric(type) == type.kind = "Numeric"
Info(type) == type.proc[1]

RoundUp(n, align) == ((n + align - 1) \div align) * align
(* nkir_makeAggregateType lays the elements out in their order; the type of  *)
(* an array is that of its single element.                                   *)
AddElem(type, elem, count) ==
  LET offset == RoundUp(type.size, elem.align)
  IN [type EXCEPT !.elems = Append(@, [type |-> elem, count |-> count, offset |-> offset]),
                  !.size = offset + elem.size * count, !.align = Max({@, elem.align})]
AggregateType(types, counts) ==
  LET open == FoldLeft(LAMBDA type, i : AddElem(type, types[i], counts[i]), VoidType, [i \in DOMAIN types |-> i])
  IN [open EXCEPT !.size = RoundUp(@, open.align)]
ArrayType(elem, count) == AggregateType(<<elem>>, <<count>>)

-----------------------------------------------------------------------------
Ref(kind, index, type) == [kind |-> kind, index |-> index, type |-> type, offset |-> 0, post |-> 0, indir |-> 0]
NoRef == Ref("None", 0, VoidType)
VariadicMarker == Ref("VariadicMarker", 0, VoidType)

(* An instruction: where its result goes, what it reads, the arguments of a  *)
(* call and the label of a jump.                                             *)
Instr(code, dst, srcs, refs, label) == [code |-> code, dst |-> dst, srcs |-> srcs, refs |-> refs, label |-> label]

NewProgram ==
  [procs |-> <<>>, blocks |-> <<>>, data |-> <<>>, externs |-> <<>>, exportedProcs |-> <<>>, exportedData |-> <<>>,
   curProc |-> 0, assertion |-> ""]
Asserted(prog, holds, text) == IF holds \/ prog.assertion # "" THEN prog ELSE [prog EXCEPT !.assertion = text]

(* nkir_createProc: the current block is the first one of the program.       *)
CreateProc(prog) ==
  [prog EXCEPT !.procs = Append(@, [name |-> "", type |-> VoidType, argNames |-> <<>>, vis |-> "Default", blocks |-> <<>>,
                                    locals |-> <<>>, curBlock |-> 1, frameSize |-> 0, frameAlign |-> 1])]
StartProc(prog, proc, name, type, argNames, vis) ==
  [prog EXCEPT !.procs[proc] = [@ EXCEPT !.name = name, !.type = type, !.argNames = argNames, !.vis = vis],
               !.curProc = proc]
FinishProc(prog, proc) == [prog EXCEPT !.procs[proc].frameSize = RoundUp(@, prog.procs[proc].frameAlign)]
ExportProc(prog, proc) ==
  [Asserted(prog, prog.procs[proc].vis # "Local", "exported local proc") EXCEPT !.exportedProcs = Append(@, proc)]
ExportData(prog, data) ==
  [Asserted(prog, prog.data[data].vis # "Local", "exported local data") EXCEPT !.exportedData = Append(@, data)]

CreateLabel(prog, name) == [prog EXCEPT !.blocks = Append(@, [name |-> name, instrs |-> <<>>])]

MakeLocalVar(prog, name, type) ==
  LET proc == prog.procs[prog.curProc]
      offset == RoundUp(proc.frameSize, type.align)
  IN [prog EXCEPT !.procs[prog.curProc] =
       [@ EXCEPT !.locals = Append(@, [name |-> name, type |-> type, offset |-> offset]),
                 !.frameSize = offset + type.size, !.frameAlign = Max({@, type.align})]]

(* nkir_makeData, nkir_makeRodata: the memory comes with the first value.    *)
MakeData(prog, name, type, vis, readOnly) ==
  [prog EXCEPT !.data = Append(@, [name |-> name, type |-> type, vis |-> vis, readOnly |-> readOnly,
                                   values |-> <<>>, relocs |-> <<>>])]
SetData(prog, data, offset, type, value) ==
  [prog EXCEPT !.data[data].values = Append(@, [offset |-> offset, type |-> type, v |-> value])]
AddDataReloc(prog, ref, target) ==
  [Asserted(prog, ref.type.kind = "Pointer", "reloc is not a pointer") EXCEPT
     !.data[ref.index].relocs = <<[offset |-> ref.post, target |-> target]>> \o @]
MakeExtern(prog, isProc, name, type) ==
  [prog EXCEPT !.externs = Append(@, [name |-> name, type |-> type, isProc |-> isProc])]

FrameRef(prog, i) == Ref("Frame", i, prog.procs[prog.curProc].locals[i].type)
ArgRef(prog, i) == Ref("Arg", i, Info(prog.procs[prog.curProc].type).args[i])
DataRef(prog, i) == Ref("Data", i, prog.data[i].type)
ProcRef(prog, i) == Ref("Proc", i, prog.procs[i].type)
ExternRef(prog, i) == Ref(IF prog.externs[i].isProc THEN "ExternProc" ELSE "ExternData", i, prog.externs[i].type)

(* nkir_emit.  A label makes its block the current one and the next of the   *)
(* procedure; a mov of nothing is left out.                                  *)
Writable(prog, ref) ==
  ref.indir > 0 \/ (ref.kind # "Arg" /\ (ref.kind = "Data" => ~prog.data[ref.index].readOnly))
EmitLabel(prog, label) ==
  [prog EXCEPT !.procs[prog.curProc] = [@ EXCEPT !.curBlock = label, !.blocks = Append(@, label)]]
EmitInstr(prog, instr) ==
  LET block == prog.procs[prog.curProc].curBlock
      checked == Asserted(Asserted(prog, block \in DOMAIN prog.blocks, "no current block"),
                          Writable(prog, instr.dst), "the destination cannot be written")
  IN IF checked.assertion # "" THEN checked ELSE [prog EXCEPT !.blocks[block].instrs = Append(@, instr)]
Emit(prog, instr) ==
  IF instr.code = "label" THEN EmitLabel(prog, instr.label)
  ELSE IF instr.code = "mov" /\ instr.dst.type.size = 0 THEN prog
  ELSE EmitInstr(prog, instr)

-----------------------------------------------------------------------------
(* The machine both back ends run their programs on: numbers of these widths,*)
(* their arithmetic as C and C++ define it, and a memory of objects made of  *)
(* bytes.  What the languages leave undefined is Junk, and so is all that is *)
(* computed from it.                                                         *)

(* A value is worked out once, for what is said about it.                    *)
Given(v, Of(_)) == Of(v)

ByteBits == 2   (* bound: the bits of a byte; an i64 has sixteen            *)

Bits(num) == ByteBits * WidthOf[num]
Wrap(num, n) ==
  Given(2^Bits(num), LAMBDA all :
    IF IsSigned(num) /\ 2 * (n % all) >= all THEN (n % all) - all ELSE n % all)
InRange(num, n) == Wrap(num, n) = n

(* A value: a whole number, a real one in quarters, the address of a byte of *)
(* an object, or a procedure of one of the two programs or of a library.     *)
Nothing == <<"none", 0, 0>>
Value(kind, n, obj) == [kind |-> kind, n |-> n, obj |-> obj]
Whole(n) == Value("whole", n, Nothing)
Real(n) == Value("real", n, Nothing)
Address(obj, n) == Value("address", n, obj)
Code(kind, n) == Value(kind, n, Nothing)
Junk == Value("junk", 0, Nothing)

-----------------------------------------------------------------------------
(* The usual arithmetic conversions: what is narrower than an i32 is one.    *)
Promoted(num) == IF WidthOf[num] < 4 THEN "i32" ELSE num
Common(num1, num2) ==
  LET both == {Promoted(num1), Promoted(num2)}
  IN CHOOSE num \in both : \A other \in both : IndexOf(num) >= IndexOf(other)

(* An f32 has halves only; what does not fit a whole number is undefined.    *)
Rounded(num, n) == IF num = "f32" THEN ((n + 1) \div 2) * 2 ELSE n
Magnitude(n) == IF n < 0 THEN -n ELSE n
NumberOf(num, n) == IF IsWhole(num) THEN Whole(n) ELSE Real(Rounded(num, n))
TowardsZero(n, d) ==
  LET q == Magnitude(n) \div Magnitude(d) IN IF (n < 0) = (d < 0) THEN q ELSE -q
Convert(num, v) ==
  CASE v.kind \notin {"whole", "real"} -> Junk
    [] ~IsWhole(num) -> Real(Rounded(num, IF v.kind = "whole" THEN 4 * v.n ELSE v.n))
    [] v.kind = "whole" -> Whole(Wrap(num, v.n))
    [] OTHER -> Given(TowardsZero(v.n, 4), LAMBDA n : IF Wrap(num, n) = n THEN Whole(n) ELSE Junk)

(* A signed result that does not fit is undefined, another one wraps.        *)
Fit(num, n) == Given(Wrap(num, n), LAMBDA m : IF IsSigned(num) /\ m # n THEN Junk ELSE Whole(m))
Product(x, y) == IF x < 2^15 /\ y < 2^15 THEN x * y ELSE (((x * (y \div 256)) % 2^16) * 256 + x * (y % 256)) % 2^16
Unsigned(num, n) == n % 2^Bits(num)
IsDefined(op, num, x, y) ==
  CASE op = "div" -> y # 0
    [] op = "mod" -> y # 0 /\ InRange(num, TowardsZero(x, y))
    [] op = "lsh" -> y \in 0..Bits(num) - 1 /\ x >= 0
    [] op = "rsh" -> y \in 0..Bits(num) - 1
    [] OTHER -> TRUE
Bitwise2(op, x, y) == CASE op = "and" -> x & y [] op = "or" -> x | y [] op = "xor" -> x ^^ y
WholeResult(op, num, x, y) ==
  IF ~IsDefined(op, num, x, y) THEN Junk
  ELSE IF op \in {"and", "or", "xor"} THEN Whole(Wrap(num, Bitwise2(op, Unsigned(num, x), Unsigned(num, y))))
  ELSE Fit(num, CASE op = "add" -> x + y
                  [] op = "sub" -> x - y
                  [] op \in {"mul", "lsh"} -> Product(x, IF op = "lsh" THEN 2^y ELSE y)
                  [] op = "rsh" -> x \div 2^y
                  [] OTHER -> Given(TowardsZero(x, y), LAMBDA q : IF op = "div" THEN q ELSE x - y * q))
RealResult(op, num, x, y) ==
  IF op \notin {"add", "sub", "mul", "div"} \/ (op = "div" /\ y = 0) THEN Junk
  ELSE Real(Rounded(num, CASE op = "add" -> x + y
                           [] op = "sub" -> x - y
                           [] op = "mul" -> (x * y) \div 4
                           [] op = "div" -> TowardsZero(4 * x, y)))
Holds(op, x, y) ==
  CASE op = "cmp_eq" -> x = y [] op = "cmp_ne" -> x # y [] op = "cmp_lt" -> x < y
    [] op = "cmp_le" -> x <= y [] op = "cmp_gt" -> x > y [] op = "cmp_ge" -> x >= y
Comparisons == {"cmp_eq", "cmp_ne", "cmp_lt", "cmp_le", "cmp_gt", "cmp_ge"}
Numbers == {"whole", "real"}

(* `x op y` of operands of two types, and the type of the result.  The type  *)
(* of a shift is that of its left operand.                                   *)
ResultType(op, num1, num2) ==
  IF op \in Comparisons THEN "i32" ELSE IF op \in {"lsh", "rsh"} THEN Promoted(num1) ELSE Common(num1, num2)
ResultOf(op, num, x, y) ==
  CASE {x.kind, y.kind} \notin {{"whole"}, {"real"}} -> Junk
    [] op \in Comparisons -> Whole(IF Holds(op, x.n, y.n) THEN 1 ELSE 0)
    [] x.kind = "whole" -> WholeResult(op, num, x.n, y.n)
    [] OTHER -> RealResult(op, num, x.n, y.n)
Result(op, num1, v1, num2, v2) ==
  Given(IF op \in {"lsh", "rsh"} THEN Promoted(num1) ELSE Common(num1, num2), LAMBDA num :
    Given(IF op \in {"lsh", "rsh"} THEN <<v1, v2>> ELSE <<v1, Convert(num, v2)>>, LAMBDA vs :
      ResultOf(op, num, Convert(num, vs[1]), vs[2])))

-----------------------------------------------------------------------------
(* A byte: the bits of a whole number, or one part of another value.         *)
Bytes(v, size) ==
  [k \in 1..size |-> IF v.kind = "whole" THEN <<Whole((v.n \div 2^(ByteBits * (k - 1))) % 2^ByteBits), 1, 1>> ELSE <<v, k, size>>]
Zeros(size) == [k \in 1..size |-> <<Whole(0), 1, 1>>]
FromBytes(bytes) ==
  IF \A k \in DOMAIN bytes : bytes[k][1].kind = "whole"
  THEN Whole(FoldRight(LAMBDA byte, n : byte[1].n + n * 2^ByteBits, bytes, 0))
  ELSE IF bytes = Bytes(bytes[1][1], Len(bytes)) THEN bytes[1][1] ELSE Junk
AsNumber(num, v) ==
  CASE v.kind = "whole" /\ IsWhole(num) -> Whole(Wrap(num, v.n))
    [] v.kind = "real" /\ ~IsWhole(num) -> v
    [] v = Whole(0) /\ ~IsWhole(num) -> Real(0)
    [] OTHER -> Junk

(* A machine has a memory; a read outside of its objects is junk, a write is *)
(* a fault.                                                                  *)
NewMachine == [mem |-> [obj \in {} |-> <<>>], fault |-> FALSE, out |-> <<>>]
Faulty(m) == [m EXCEPT !.fault = TRUE]
New(m, obj, bytes) == [m EXCEPT !.mem = [o \in DOMAIN @ \cup {obj} |-> IF o = obj THEN bytes ELSE @[o]]]
Freed(m, objs) == [m EXCEPT !.mem = [o \in DOMAIN @ \ objs |-> @[o]]]
Valid(m, a, size) == a.kind = "address" /\ a.obj \in DOMAIN m.mem /\ a.n >= 0 /\ a.n + size <= Len(m.mem[a.obj])
Fetch(m, a, size) == IF Valid(m, a, size) THEN SubSeq(m.mem[a.obj], a.n + 1, a.n + size) ELSE Bytes(Junk, size)
Load(m, a, size) == FromBytes(Fetch(m, a, size))
Plus(a, n) == IF a.kind = "address" THEN [a EXCEPT !.n = @ + n] ELSE IF n = 0 THEN a ELSE Junk
Place(m, a, bytes) ==
  IF ~Valid(m, a, Len(bytes)) THEN Faulty(m)
  ELSE [m EXCEPT !.mem[a.obj] = [k \in DOMAIN @ |-> IF k \in a.n + 1..a.n + Len(bytes) THEN bytes[k - a.n] ELSE @[k]]]

(* What a library procedure sees of an argument: a number, or the string at  *)
(* an address.  A program is observed by the calls it makes of them.         *)
RECURSIVE StringAt(_, _)
StringAt(m, a) ==
  Given(Load(m, a, 1), LAMBDA v :
    IF v.kind # "whole" THEN <<-1>> ELSE IF v.n = 0 THEN <<>> ELSE <<v.n>> \o StringAt(m, Plus(a, 1)))
SeenNumber(v) == IF v.kind = "junk" THEN <<"junk">> ELSE <<v.kind, <<v.n>>>>
Seen(m, type, bytes) ==
  Given(FromBytes(bytes), LAMBDA v :
    IF Len(bytes) # type.size THEN <<"junk">>
    ELSE IF IsNumeric(type) THEN SeenNumber(AsNumber(type.num, v))
    ELSE IF v.kind = "address" THEN <<"string", StringAt(m, v)>> ELSE <<v.kind>>)
Observe(m, name, seen) == [m EXCEPT !.out = Append(@, <<name, seen>>)]
Clean(m) ==
  /\ ~m.fault
  /\ \A i \in DOMAIN m.out : \A a \in DOMAIN m.out[i][2] : m.out[i][2][a] # <<"junk">>
=============================================================================
