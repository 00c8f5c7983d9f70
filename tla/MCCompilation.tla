--------------------------- MODULE MCCompilation ----------------------------
(***************************************************************************)
(* The end of a compilation in nkirc, in two parts, one at a time as       *)
(* `unit` says: programs that are interpreted or written in C, and the     *)
(* pipe through which the C goes to the compiler.  The programs are an     *)
(* operation on every type of number, a conversion between every two of    *)
(* them, and longer ones about memory, data, calls and jumps.              *)
(***************************************************************************)
EXTENDS BackEnds, PipeStream

(* Tokens, references and lines.                                             *)
K(id) == <<[id |-> id, v |-> id]>>
Tok(id, v) == <<[id |-> id, v |-> v]>>
Id(name) == Tok("Id", name)
Lit(n) == Tok("Int", n)
Str(bytes) == Tok("String", bytes)
End == K("Newline")
Line(tokens) == tokens \o End
Const(num, n) == K(":") \o K(num) \o Tok(IF IsWhole(num) THEN "Int" ELSE "Float", n)
At(ref, n, type) == ref \o K("+") \o Lit(n) \o K(":") \o type
Deref(ref, type) == K("[") \o ref \o K("]") \o K(":") \o type
Op1(op, src, dst) == Line(Tok("Op", op) \o src \o K("->") \o dst)
Op2(op, lhs, rhs, dst) == Line(Tok("Op", op) \o lhs \o K(",") \o rhs \o K("->") \o dst)
Cmp(rel, lhs, rhs, dst) == Line(K("cmp") \o Tok("Cmp", rel) \o lhs \o K(",") \o rhs \o K("->") \o dst)
Listed(items) == IF items = <<>> THEN <<>> ELSE FoldLeft(LAMBDA s, item : s \o K(",") \o item, Head(items), Tail(items))
CallTo(proc, args) == Tok("Op", "call") \o proc \o K(",") \o K("(") \o Listed(args) \o K(")")
Call(proc, args) == Line(CallTo(proc, args))
CallInto(proc, args, dst) == Line(CallTo(proc, args) \o K("->") \o dst)
Label(name) == Line(Tok("Label", name))
Jump(name) == Line(Tok("Op", "jmp") \o Tok("Label", name))
JumpOn(op, cond, name) == Line(Tok("Op", op) \o cond \o K(",") \o Tok("Label", name))
Ret(ref) == Line(Tok("Op", "ret") \o ref)
Local(name, type) == Line(Id(name) \o K(":") \o type)
Extern(name, types, ret) ==
  Line(K("extern") \o Tok("String", <<1>>) \o K("proc") \o Id(name) \o K("(") \o Listed(types) \o K(")") \o ret)
Param(name, type) == Id(name) \o K(":") \o type
Proc(name, params, ret) == Line(K("proc") \o name \o K("(") \o Listed(params) \o K(")") \o ret \o K("{"))
Brace == Line(K("}"))
Array(n, type) == K("[") \o Lit(n) \o K("]") \o type
Struct(types) == K("{") \o Listed(types) \o K("}")
Main(body) == K("pub") \o Proc(Id("main"), <<>>, K("i32")) \o Label("start") \o body
EndMain == Label("end") \o Ret(Const("i32", 0)) \o Brace \o K("Eof")

-----------------------------------------------------------------------------
(* An operation on numbers of one type.                                      *)
Extremes(num) ==
  IF IsWhole(num) THEN {Wrap(num, -1), Wrap(num, 2^(Bits(num) - 1)), 1} ELSE {6, -10}
NumberOps(num) ==
  {Op2(op, Id("a"), Id("b"), Id("a")) : op \in IF IsWhole(num) THEN Arithmetic ELSE {"add", "sub", "mul", "div"}}
  \cup {Cmp(rel, Id("a"), Id("b"), Id("c")) : rel \in Compared}
  \cup {Op2("sub", Id("a"), Const(num, IF IsWhole(num) THEN 1 ELSE 6), Id("a")),
         Cmp("gt", Const(num, IF IsWhole(num) THEN Wrap(num, -1) ELSE 6), Id("b"), Id("c"))}
Numbers1(num) ==
  [opening |-> Extern("show", <<K(num), K("u8")>>, K("void"))
                 \o Main(Local("a", K(num)) \o Local("b", K(num)) \o Local("c", K("u8"))),
   stages |-> <<{Op1("mov", Const(num, n), Id("a")) : n \in Extremes(num)},
                {Op1("mov", Const(num, n), Id("b")) : n \in IF IsWhole(num) THEN {Wrap(num, -1), 1} ELSE {6}}, NumberOps(num)>>,
   closing |-> Call(Id("show"), <<Id("a"), Id("c")>>) \o EndMain]

(* A conversion between two types.                                           *)
Conversion(from, to) ==
  CASE IsWhole(from) # IsWhole(to) -> IF IsWhole(to) THEN "fp2i" ELSE "i2fp"
    [] WidthOf[from] < WidthOf[to] -> "ext"
    [] WidthOf[from] > WidthOf[to] -> "trunc"
    [] OTHER -> "mov"
Conversions(from, to) ==
  [opening |-> Extern("show", <<K(to), K(to)>>, K("void")) \o Main(Local("a", K(from)) \o Local("c", K(to))),
   stages |-> <<{Op1("mov", Const(from, n), Id("a")) : n \in Extremes(from)},
                {Op1(Conversion(from, to), src, Id("c")) : src \in {Id("a"), Const(from, IF IsWhole(from) THEN Wrap(from, -1) ELSE 6)}}>>,
   closing |-> Call(Id("show"), <<Id("c"), Id("c")>>) \o EndMain]

(* Structs, pointers and data.                                               *)
PairType == Struct(<<K("i32"), Array(2, K("i16")), K("i64")>>)
MemorySetup ==
  {Op1("mov", Id("table"), Id("a")), Op1("lea", Id("a"), Id("p")), Op1("lea", At(Id("a"), 8, K("i64")), Id("p")),
   Op1("mov", K("&") \o Id("g"), Id("p")), Op1("mov", Id("home"), Id("p")), Op1("mov", Lit(5), Id("x")),
   Op1("mov", K("&") \o Id("limit"), Id("p")), Op1("mov", Id("limit"), Id("x"))}
MemoryWrites ==
  {Op1("mov", Id("x"), At(Id("a"), 8, K("i64"))), Op1("mov", At(Id("table"), 6, K("i16")), At(Id("a"), 4, K("i16"))),
   Op1("mov", Id("x"), Deref(Id("p"), K("i64"))), Op1("lea", Id("p"), Id("q")), Op1("mov", Lit(5), Id("g")),
   Op1("mov", K("&") \o Str(<<1>>), Id("s")), Op2("add", Id("x"), Id("limit"), Id("x")),
   Op1("mov", K("&") \o Id("limit"), Id("p"))}
MemoryReads ==
  {Op1("mov", At(Id("a"), 8, K("i64")), Id("x")), Op1("mov", Deref(Id("p"), K("i64")), Id("x")), Op1("mov", Id("g"), Id("x")),
   Op1("mov", K("[") \o Id("p") \o K("]") \o K("+") \o Lit(4) \o K(":") \o K("i16"), Id("y")),
   Op1("mov", K("[") \o K("[") \o Id("q") \o K("]") \o K("]") \o K(":") \o K("i64"), Id("x"))}
Memory ==
  [opening |-> Extern("show", <<K("i64"), K("i64"), K("i16"), K("ptr")>>, K("void"))
                 \o Line(K("type") \o Id("Pair") \o K(":") \o PairType)
                 \o Line(K("data") \o Id("g") \o K(":") \o K("i64"))
                 \o Line(K("pub") \o K("const") \o Id("table") \o K(":") \o Id("Pair")
                         \o Struct(<<Lit(7), K("[") \o Lit(1) \o K(",") \o Lit(-2) \o K("]"), Lit(3)>>))
                 \o Line(K("local") \o K("const") \o Id("limit") \o K(":") \o K("i64") \o Lit(9))
                 \o Line(K("const") \o Id("bytes") \o K(":") \o Struct(<<Array(3, K("i8"))>>) \o Struct(<<Str(<<1, 1>>)>>))
                 \o Line(K("data") \o Id("home") \o K(":") \o K("ptr") \o K("&") \o Id("table"))
                 \o Main(Local("a", Id("Pair")) \o Local("p", K("ptr")) \o Local("q", K("ptr")) \o Local("x", K("i64"))
                         \o Local("y", K("i16")) \o Local("s", K("ptr")) \o Op1("mov", K("&") \o Id("bytes"), Id("s"))),
   stages |-> <<MemorySetup, MemoryWrites, MemoryWrites \cup MemoryReads>>,
   closing |-> Call(Id("show"), <<Id("x"), Id("g"), Id("y"), Id("s")>>)
                 \o Call(Id("show"), <<At(Id("a"), 8, K("i64")), Id("x"), At(Id("a"), 4, K("i16")), Id("s")>>) \o EndMain]

(* Calls and jumps.                                                          *)
Library ==
  Line(K("type") \o Id("Pair") \o K(":") \o Struct(<<Array(2, K("i64"))>>))
  \o Proc(Id("swap"), <<Param("v", Id("Pair"))>>, Id("Pair")) \o Local("r", Id("Pair")) \o Label("start")
  \o Op1("mov", At(Id("v"), 8, K("i64")), At(Id("r"), 0, K("i64"))) \o Op1("mov", At(Id("v"), 0, K("i64")), At(Id("r"), 8, K("i64")))
  \o Ret(Id("r")) \o Brace \o K("Eof")
FlowCalls ==
  {CallInto(Id("inc"), <<Id("i")>>, Id("i")), CallInto(Id("inc"), <<Lit(3)>>, At(Id("v"), 8, K("i64"))),
   CallInto(Id("swap"), <<Id("v")>>, Id("v")), CallInto(Id("apply"), <<Id("inc"), Id("i")>>, At(Id("v"), 0, K("i64"))),
   CallInto(Id("native"), <<Id("i"), K(":") \o K("i16") \o Lit(2)>>, Id("i")), Call(Id("store"), <<Id("p"), Id("i")>>),
   CallInto(Id("sum"), <<Id("i")>>, Id("i")), Call(Id("printf"), <<K("&") \o Str(<<1, 1>>), K("..."), Id("i"), Id("c64")>>)}
(* What follows a jump starts a block of its own.                            *)
FlowLines(next) ==
  {Op1("lea", At(Id("v"), 8, K("i64")), Id("p")), Cmp("lt", Id("i"), Lit(2), Id("c")), Cmp("ne", Id("i"), Lit(0), Id("c")),
   JumpOn("jmpz", Id("c"), "end"), JumpOn("jmpnz", Id("c"), "start"), JumpOn("jmpnz", Id("c"), next) \o Label(next),
   Jump("end") \o Label(next), Jump("last") \o Label(next), Jump(next) \o Label(next)}
Flow ==
  [opening |-> Line(K("include") \o Tok("String", "lib")) \o Extern("show", <<K("i64"), K("i64"), K("i64"), K("u8")>>, K("void"))
                 \o Extern("printf", <<K("ptr"), K("...")>>, K("i32"))
                 \o Proc(Id("inc"), <<Param("n", K("i64"))>>, K("i64")) \o Local("r", K("i64")) \o Label("start")
                 \o Op2("add", Id("n"), Lit(1), Id("r")) \o Ret(Id("r")) \o Brace
                 \o Proc(K("cdecl") \o Id("native"), <<Param("n", K("i64")), Param("m", K("i16"))>>, K("i64"))
                 \o Local("r", K("i64")) \o Label("start") \o Op1("ext", Id("m"), Id("r")) \o Op2("sub", Id("n"), Id("r"), Id("r"))
                 \o Ret(Id("r")) \o Brace
                 \o Proc(Id("apply"), <<Param("f", K("(") \o K("i64") \o K(")") \o K("i64")), Param("n", K("i64"))>>, K("i64"))
                 \o Local("r", K("i64")) \o Label("start") \o CallInto(Id("f"), <<Id("n")>>, Id("r"))
                 \o CallInto(Id("f"), <<Id("r")>>, Id("r")) \o Ret(Id("r")) \o Brace
                 \o Proc(Id("store"), <<Param("p", K("ptr")), Param("n", K("i64"))>>, K("void")) \o Label("start")
                 \o Op1("mov", Id("n"), Deref(Id("p"), K("i64"))) \o Line(Tok("Op", "ret")) \o Brace
                 \o Proc(Id("sum"), <<Param("n", K("i64"))>>, K("i64")) \o Local("r", K("i64")) \o Local("c", K("u8")) \o Label("start")
                 \o Cmp("le", Id("n"), Lit(0), Id("c")) \o JumpOn("jmpnz", Id("c"), "end")
                 \o Op2("sub", Id("n"), Lit(1), Id("r")) \o CallInto(Id("sum"), <<Id("r")>>, Id("r"))
                 \o Op2("add", Id("r"), Id("n"), Id("r")) \o Label("end") \o Ret(Id("r")) \o Brace
                 \o Main(Local("i", K("i64")) \o Local("c", K("u8")) \o Local("c64", K("u64")) \o Local("v", Id("Pair")) \o Local("p", K("ptr"))
                         \o Op1("lea", Id("v"), Id("p")) \o Op2("add", Id("i"), Lit(1), Id("i"))),
   stages |-> <<FlowCalls, FlowLines("second"), FlowLines("third")>>,
   closing |-> Label("last") \o Call(Id("show"), <<Id("i"), At(Id("v"), 0, K("i64")), At(Id("v"), 8, K("i64")), Id("c")>>) \o EndMain]

MCFiles == [lib |-> Library]
MCFamilies ==
  {<<"numbers", num>> : num \in Range(Numerics)}
  \cup {<<"conversion", from, to>> : from, to \in Range(Numerics)} \cup {<<"memory">>, <<"flow">>}
MCSources ==
  [f \in MCFamilies |->
     CASE f[1] = "numbers"    -> Numbers1(f[2])
       [] f[1] = "conversion" -> Conversions(f[2], f[3])
       [] f[1] = "memory"     -> Memory
       [] f[1] = "flow"       -> Flow]

(* A jump that is not the last instruction of its block: what follows it up  *)
(* to the next label is never reached.                                       *)
DeadCode ==
  [opening |-> Main(Local("i", K("i64"))), stages |-> <<{Jump("last")}, {Jump("end")}>>, closing |-> Label("last") \o Ret(Const("i32", 1)) \o EndMain]
MCDeadCode == <<"dead">> :> DeadCode

-----------------------------------------------------------------------------
backEndVars == <<source, answers>>
Spec == SourceInit /\ [][AddLine]_backEndVars

-----------------------------------------------------------------------------
VARIABLE unit

CompilationInit ==
  /\ unit \in {"write", "pipe"}
  /\ IF unit = "write" THEN SourceInit ELSE source = 0 /\ answers = Rejected
  /\ PipeInit
CompilationNext ==
  /\ UNCHANGED unit
  /\ \/ unit = "write" /\ AddLine /\ UNCHANGED pipeVars
     \/ unit = "pipe" /\ PipeNext /\ UNCHANGED <<source, answers>>

vars == <<unit, source, answers, pipeVars>>
Compilation == CompilationInit /\ [][CompilationNext]_vars
(* What PipeStream says of the calls and of the children.                    *)
FairCompilation ==
  /\ Compilation
  /\ WF_vars(CallStep /\ CompilationNext)
  /\ \A s \in Streams : WF_vars(ChildStep(s) /\ CompilationNext)
=============================================================================
