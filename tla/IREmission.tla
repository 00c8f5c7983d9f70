----------------------------- MODULE IREmission -----------------------------
(***************************************************************************)
(* What LLVM is given for a module of the reader: nkir_validateProc is not *)
(* written yet (nkb2/src/ir.c:1123), so the emitter relies on procedures   *)
(* being valid.  Valid says what that is; what the emitter makes of such a *)
(* procedure, LLVM must accept.                                            *)
(***************************************************************************)
EXTENDS IRTexts, LLVMEmitter

ArgRefs(arg) == CASE arg.k = "Ref" -> <<arg.v>> [] arg.k = "Refs" -> arg.v [] OTHER -> <<>>
DstRef(instr) == IF instr.arg[1].k = "Ref" THEN instr.arg[1].v ELSE NoRef
ByPointer(type) == IsAggr(type) /\ type.size > 0
(* The destination is a place in memory, not a local that gets a value.      *)
WritesMemory(instr) == instr.code = "store" \/ (instr.code = "call" /\ ByPointer(DstRef(instr).type))
Assigns(instr) == DstRef(instr).kind = "Local" /\ ~WritesMemory(instr)
Used(instr) == (IF WritesMemory(instr) THEN <<DstRef(instr)>> ELSE <<>>) \o ArgRefs(instr.arg[2]) \o ArgRefs(instr.arg[3])
PlaceType(instr) == IF instr.code = "call" THEN Ptr ELSE DstRef(instr).type
TypeOfUse(instr, u) == IF WritesMemory(instr) /\ u = 1 THEN PlaceType(instr) ELSE Used(instr)[u].type

(* Each local is assigned once, before its uses, and used with its type.     *)
LocalsValid(instrs) ==
  /\ \A i, j \in DOMAIN instrs :
       Assigns(instrs[i]) /\ Assigns(instrs[j]) /\ DstRef(instrs[i]).v = DstRef(instrs[j]).v => i = j
  /\ \A i \in DOMAIN instrs : \A u \in DOMAIN Used(instrs[i]) :
       Used(instrs[i])[u].kind = "Local" =>
         \E j \in 1..i - 1 : Assigns(instrs[j]) /\ DstRef(instrs[j]).v = Used(instrs[i])[u].v
                             /\ DstRef(instrs[j]).type = TypeOfUse(instrs[i], u)

ParamsValid(sym) ==
  \A i \in DOMAIN sym.instrs : \A u \in DOMAIN Used(sym.instrs[i]) :
    LET ref == Used(sym.instrs[i])[u] IN
    ref.kind = "Param" =>
      IF ParamIsPtr(sym, ref.v) THEN ref.type = Ptr
      ELSE \E p \in DOMAIN sym.params : sym.params[p].name = ref.v /\ sym.params[p].type = ref.type

(* An address, which is a pointer to LLVM, is used where the emitter makes a *)
(* number of it, or where a pointer will do.                                 *)
Converted == {"mov", "cast", "load", "add", "sub", "div", "and", "rsh"}
AddressesValid(sym) ==
  \A i \in DOMAIN sym.instrs :
    LET instr == sym.instrs[i] args == ArgRefs(instr.arg[2]) \o ArgRefs(instr.arg[3]) IN
    \A a \in DOMAIN args :
      RefIsPtr(sym, args[a]) =>
        \/ instr.code \in Converted
        \/ instr.code = "call" /\ (a = 1 \/ args[a].kind = "Global")
        \/ instr.code = "store" /\ args[a].kind = "Global"

Emits(instrs) == SelectSeq([i \in DOMAIN instrs |-> i], LAMBDA i : instrs[i].code \notin {"nop", "comment"})
Ends == {"jmp", "ret"}
(* A block ends in one jump or return; none jumps to the beginning.          *)
BlocksValid(instrs) ==
  LET e == Emits(instrs) code(n) == instrs[e[n]].code IN
  /\ e # <<>> /\ code(Len(e)) \in Ends
  /\ \A n \in 2..Len(e) : code(n) = "label" <=> code(n - 1) \in Ends
  /\ \A t \in Targets(instrs) :
       LET arg == instrs[t[1]].arg[t[2]]
           k == IF arg.k = "Rel" THEN FindByIdx(Labels(instrs), t[1] + arg.v) ELSE FindByName(Labels(instrs), arg.v)
       IN k # 0 /\ Labels(instrs)[k].idx # e[1]

InstrValid(sym, instr) ==
  LET dst == DstRef(instr)
      x == IF instr.arg[2].k = "Ref" THEN instr.arg[2].v ELSE NoRef
      y == IF instr.arg[3].k = "Ref" THEN instr.arg[3].v ELSE NoRef
      binary == IsNum(x.type) /\ x.type = y.type
  IN CASE instr.code \in {"mov", "cast"} -> IsNum(x.type) /\ IsNum(dst.type) /\ (instr.code = "mov" => x.type.size = dst.type.size)
       [] instr.code \in {"add", "sub", "div"} -> binary /\ dst.type = x.type
       [] instr.code \in Logic -> binary /\ IsInt(x.type) /\ dst.type = x.type
       [] instr.code \in Comparisons -> binary /\ IsInt(dst.type)
       [] instr.code = "load" -> IsInt(x.type) /\ IsNum(dst.type)
       [] instr.code = "store" -> IsInt(dst.type) /\ IsNum(x.type)
       [] instr.code = "alloc" -> IsInt(dst.type) /\ instr.arg[2].v.size > 0 /\ Counted(instr.arg[2].v)
       [] instr.code \in {"jmpz", "jmpnz"} -> IsNum(x.type)
       [] instr.code = "call" -> IsInt(x.type) /\ (dst.kind = "Local" => IsNum(dst.type) \/ dst.type.size > 0)
       [] instr.code = "ret" -> IF IsNum(sym.ret.type) THEN x.kind \notin {"None", "Variadic"} /\ x.type = sym.ret.type
                                ELSE x.kind = "None" /\ (sym.ret.name # <<>> \/ sym.ret.type.size = 0)
       [] OTHER -> TRUE

Valid(sym) ==
  /\ LocalsValid(sym.instrs) /\ ParamsValid(sym) /\ AddressesValid(sym) /\ BlocksValid(sym.instrs)
  /\ \A i \in DOMAIN sym.instrs : InstrValid(sym, sym.instrs[i])
  /\ \A j, k \in DOMAIN Labels(sym.instrs) :
       LabelText(Labels(sym.instrs), j) = LabelText(Labels(sym.instrs), k) => j = k

-----------------------------------------------------------------------------
(* LLVM's verifier.                                                          *)
Sizes == [i1 |-> 1, i8 |-> 8, i32 |-> 32, i64 |-> 64, double |-> 64]
Simple(type) == Len(type) = 1 /\ type[1].id \in DOMAIN Sizes
Size(type) == Sizes[type[1].id]
Float(type) == type[1].id = "double"
Casts == {<<"si", "to", "fp">>, <<"ui", "to", "fp">>, <<"fp", "to", "si">>, <<"fp", "to", "ui">>}

(* The type a register has at a line; no type if nothing defines it before.  *)
RegType(fn, at, v) ==
  LET defs == {n \in 1..at - 1 : fn.code[n].dst = v}
      params == {p \in DOMAIN fn.params : v = V("local", fn.params[p].name)}
  IN IF defs # {} THEN fn.code[CHOOSE n \in defs : TRUE].type
     ELSE IF params # {} THEN fn.params[CHOOSE p \in params : TRUE].type ELSE <<>>

OperandOk(fn, at, arg) ==
  CASE arg.v.k \in {"local", "temp"} -> arg.type # <<>> /\ RegType(fn, at, arg.v) = arg.type
    [] arg.v.k = "global" -> arg.type = PTR
    [] arg.v.k = "imm" -> Simple(arg.type)
    [] OTHER -> fn.code[at].op = <<"alloca">>

LineOk(fn, at) ==
  LET l == fn.code[at]
      type(n) == l.args[n].type
  IN /\ \A a \in DOMAIN l.args : OperandOk(fn, at, l.args[a])
     /\ CASE l.op = <<"inttoptr">> -> Simple(type(1)) /\ ~Float(type(1))
          [] l.op = <<"ptrtoint">> -> type(1) = PTR /\ Simple(l.type) /\ ~Float(l.type)
          [] l.op = <<"bitcast">> -> Simple(type(1)) /\ Simple(l.type) /\ Size(type(1)) = Size(l.type)
          [] l.op \in {<<"sext">>, <<"zext">>} -> ~Float(type(1)) /\ ~Float(l.type) /\ Size(type(1)) < Size(l.type)
          [] l.op = <<"trunc">> -> ~Float(type(1)) /\ ~Float(l.type) /\ Size(type(1)) > Size(l.type)
          [] l.op \in Casts -> Float(type(1)) = (l.op[1] = "fp") /\ Float(l.type) = (l.op[3] = "fp")
          [] l.op \in {<<"icmp", "", "eq">>, <<"icmp", "s", "lt">>, <<"icmp", "u", "lt">>} ->
               type(1) = type(2) /\ Simple(type(1)) /\ ~Float(type(1))
          [] l.op \in {<<"fcmp", "o", o>> : o \in Comparisons} -> type(1) = type(2) /\ Float(type(1))
          [] l.op \in {<<p, o>> : p \in {"", "a", "l", "f", "s", "u"}, o \in {"add", "sub", "div"} \cup Logic} ->
               type(1) = l.type /\ type(2) = l.type /\ Simple(l.type) /\ Float(l.type) = (l.op[1] = "f")
               /\ (l.op[2] = "div" => l.op[1] \in {"f", "s", "u"}) /\ (l.op[2] = "rsh" => l.op[1] \in {"a", "l"})
          [] l.op = <<"load">> -> type(1) = PTR /\ Simple(l.type)
          [] l.op = <<"store">> -> type(2) = PTR
          [] l.op = <<"call">> -> type(1) = PTR
          [] l.op = <<"br">> -> l.args = <<>> \/ type(1) = Toks(<<"i1">>)
          [] l.op = <<"ret">> -> IF l.args = <<>> THEN fn.ret = Toks(<<"void">>) ELSE type(1) = fn.ret
          [] l.op \in {<<"label">>, <<"alloca">>} -> TRUE

FunctionOk(fn) ==
  LET code == fn.code
      ends(n) == code[n].op \in {<<"br">>, <<"ret">>}
      labels == {n \in DOMAIN code : code[n].op = <<"label">>}
  IN /\ ~fn.failed
     /\ \A n \in DOMAIN code : LineOk(fn, n)
     /\ \A m, n \in DOMAIN code : code[m].dst = code[n].dst /\ code[m].dst # Nothing => m = n
     /\ \A m, n \in labels : code[m].dst = code[n].dst => m = n
     /\ \A n \in DOMAIN code : \A t \in DOMAIN code[n].to : \E m \in labels \ {1} : code[m].dst = code[n].to[t]
     /\ code # <<>> /\ ends(Len(code))
     /\ \A n \in 2..Len(code) : n \in labels <=> ends(n - 1)

-----------------------------------------------------------------------------
(* Data the emitter writes as LLVM reads it: bytes come first in their       *)
(* aggregate, at least two of them, without a quote or a backslash; an array *)
(* has no relocations; nothing is void.                                      *)
RECURSIVE Emittable(_, _, _)
Emittable(sym, base, type) ==
  type.size > 0 /\ \A i \in DOMAIN type.elems :
    LET e == type.elems[i] IN
    IF IsBytes(e)
    THEN /\ e.count > 1 /\ e.count = type.elems[1].count
         /\ \A n \in 1..e.count : sym.mem # <<>> => sym.mem[base + e.offset + n - 1] \notin {34, 92}
    ELSE /\ \A n \in 1..e.count : Emittable(sym, base + e.offset + (n - 1) * e.type.size, e.type)
         /\ e.count > 1 => \A r \in ToSet(sym.relocs) :
              r.offset \notin base + e.offset..base + e.offset + e.count * e.type.size - 1

RECURSIVE ConstOk(_)
ConstOk(c) ==
  CASE c.k = "num" -> Simple(c.type)
    [] c.k = "global" -> c.type = PTR
    [] c.k = "zero" -> TRUE
    [] c.k = "bytes" -> c.type = ArrayType(Len(c.v), Toks(<<"i8">>))
    [] c.k = "array" -> /\ \A i \in DOMAIN c.v : ConstOk(c.v[i])
                        /\ c.type = ArrayType(Len(c.v), c.v[1].type)
    [] c.k = "struct" -> /\ \A i \in DOMAIN c.v : ConstOk(c.v[i])
                         /\ c.type = <<Tok("{")>> \o Commas([i \in DOMAIN c.v |-> c.v[i].type]) \o <<Tok("}")>>

(* The numbers, names and bytes of a constant, in order, and those of memory.*)
RECURSIVE Content(_), MemContent(_, _, _)
Content(c) == CASE c.k \in {"struct", "array"} -> FlattenSeq([i \in DOMAIN c.v |-> Content(c.v[i])])
                [] c.k = "global" -> <<V("global", c.v)>>
                [] c.k = "zero" -> <<>>
                [] OTHER -> [i \in DOMAIN c.v |-> V("num", c.v[i])]
MemContent(sym, base, type) ==
  IF IsNum(type)
  THEN IF RelocsAt(sym.relocs, base) # <<>> THEN <<V("global", RelocsAt(sym.relocs, base)[1].sym)>>
       ELSE <<V("num", sym.mem[base])>>
  ELSE FlattenSeq([i \in DOMAIN type.elems |->
         LET e == type.elems[i]
         IN FlattenSeq([n \in 1..e.count |-> MemContent(sym, base + e.offset + (n - 1) * e.type.size, e.type)])])

HasContent(c, sym) == ConstOk(c) /\ (sym.mem # <<>> => Content(c) = MemContent(sym, 0, sym.type))
DataOk(sym) ==
  HasContent(EmitData(sym), sym)

(* What declares a procedure says what its definition says.  An aggregate    *)
(* that fits into a pointer is returned by the definition and expected in    *)
(* memory by the declaration.                                                *)
Nameless(params) == [i \in DOMAIN params |-> [params[i] EXCEPT !.name = <<>>]]
DeclaredAs(decl, fn) == decl.type = fn.ret /\ Nameless(decl.params) = Nameless(fn.params)
ProcEmitted(sym, fn) ==
  /\ (ByPointer(sym.ret.type) => sym.ret.name # <<>>) => DeclaredAs(EmitExtern(SymToExtern(sym)), fn)
  /\ Valid(sym) => FunctionOk(fn)
DataEmitted(sym) ==
  Counted(sym.type) /\ Emittable(sym, 0, sym.type) /\ (\A r \in ToSet(sym.relocs) : r.offset \in Slots(0, sym.type))
    => DataOk(sym)

(* A valid procedure of a module becomes a function that LLVM's verifier     *)
(* accepts: each register has one definition and the type of its uses, each  *)
(* block one end.  A datum becomes a constant of its type with its content.  *)
(* A procedure that is loaded already is declared as it was defined.         *)
Emitted ==
  \A sym \in ToSet(Module.syms) :
    /\ sym.kind = "Proc" => ProcEmitted(sym, EmitProc(sym))
    /\ sym.kind = "Data" => DataEmitted(sym)
=============================================================================
