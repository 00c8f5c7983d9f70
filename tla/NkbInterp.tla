----------------------------- MODULE NkbInterp ------------------------------
(***************************************************************************)
(* Procedures of NkbIr as bytecode and how it runs.  The translation       *)
(* (nkb/src/bytecode.cpp), with the data and the procedures a procedure    *)
(* refers to, finds the opcode of an instruction by counting from the      *)
(* first of its family in the table of bytecode.inl.  The interpreter      *)
(* (nkb/src/interp.cpp) has registers, frames it goes back to, and calls   *)
(* out and in through the native interface; the arguments of a call of     *)
(* bytecode are the addresses of the operands of the caller.               *)
(***************************************************************************)
EXTENDS NkbIr

(* bytecode.inl: a family has an opcode without an extension, then one for   *)
(* each of its extensions.                                                   *)
Family(name, exts) == <<<<name, "">>>> \o [i \in DOMAIN exts |-> <<name, exts[i]>>]
Families(names, exts) == FlattenSeq([i \in DOMAIN names |-> Family(names[i], exts)])
Sizes == <<"8", "16", "32", "64">>
Wholes == SubSeq(Numerics, 1, 8)
Widenings == <<"8_16", "8_32", "8_64", "16_32", "16_64", "32_64">>
Narrowings == <<"16_8", "32_8", "64_8", "32_16", "64_16", "64_32">>
Opcodes ==
  Families(<<"nop", "ret", "jmp">>, <<>>) \o Families(<<"jmpz", "jmpnz">>, Sizes) \o Family("call", <<"jmp", "ext", "extv">>)
  \o Family("ext", <<>>) \o Families(<<"sext", "zext">>, Widenings) \o Family("fext", <<>>)
  \o Family("trunc", Narrowings) \o Family("ftrunc", <<>>)
  \o Family("fp2i", <<>>) \o Families(<<"fp2i_32", "fp2i_64">>, Wholes)
  \o Family("i2fp", <<>>) \o Families(<<"i2fp_32", "i2fp_64">>, Wholes)
  \o Family("mov", Sizes) \o Family("lea", <<>>)
  \o Families(<<"add", "sub", "mul", "div">>, Numerics) \o Families(<<"mod", "and", "or", "xor", "lsh", "rsh">>, Wholes)
  \o Families(<<"cmp_eq", "cmp_ne", "cmp_lt", "cmp_le", "cmp_gt", "cmp_ge">>, Numerics)
  \o Family("syscall", <<"0", "1", "2", "3", "4", "5", "6">>) \o Families(<<"label", "comment", "line">>, <<>>)
FamilyNames == {op[1] : op \in Range(Opcodes)}
FirstOf == [name \in FamilyNames |-> CHOOSE i \in DOMAIN Opcodes : Opcodes[i] = <<name, "">>]

Log2(n) == CHOOSE k \in 0..6 : 2^k = n
NumberType(ref) == ref.type.num

(* Mutant: a number is looked for at its index, after the plain opcode.      *)
NumOpcodePlain(name, num) == <<name, IndexOf(num) - 1>>

(* An opcode is a family and how far from its first: for an operation on     *)
(* numbers, and for one on so many bytes.                                    *)
NumOpcode(name, num) == <<name, IndexOf(num)>>
SizOpcode(name, size) == <<name, IF size \in {1, 2, 4, 8} THEN 1 + Log2(size) ELSE 0>>

(* ext and trunc: by the narrower type, then by the wider one.               *)
ExtName(wide) == IF ~IsWhole(NumberType(wide)) THEN "fext" ELSE IF IsSigned(NumberType(wide)) THEN "sext" ELSE "zext"
ResizeOpcode(name, wide, narrow) ==
  <<name, CASE ~IsWhole(NumberType(wide)) -> 0
            [] WidthOf[NumberType(narrow)] = 1 -> Log2(WidthOf[NumberType(wide)])
            [] WidthOf[NumberType(narrow)] = 2 -> 2 + Log2(WidthOf[NumberType(wide)])
            [] OTHER -> 6>>
Resizable(wide, narrow) ==
  /\ IsNumeric(wide.type) /\ IsNumeric(narrow.type) /\ WidthOf[NumberType(wide)] > WidthOf[NumberType(narrow)]
  /\ IsWhole(NumberType(wide)) = IsWhole(NumberType(narrow))

(* call: into bytecode, or out through the native interface.                 *)
CallOpcode(instr) ==
  LET callee == instr.srcs[1]
      native == callee.kind = "ExternProc" \/ (callee.kind = "Proc" /\ Info(callee.type).cdecl)
  IN <<"call", IF ~native THEN 1 ELSE IF VariadicMarker \in Range(instr.refs) THEN 3 ELSE 2>>

Arithmetic == {"add", "sub", "mul", "div", "mod", "and", "or", "xor", "lsh", "rsh"}
ResizeOf(code, dst, src) ==
  IF code = "ext" THEN ResizeOpcode(ExtName(dst), dst, src)
  ELSE ResizeOpcode(IF IsWhole(NumberType(src)) THEN "trunc" ELSE "ftrunc", src, dst)
SizedBy(code, dst, src) == IF code = "mov" THEN dst.type.size ELSE src.type.size
NumberedBy(code, dst, src) ==
  CASE code = "fp2i" -> <<IF NumberType(src) = "f32" THEN "fp2i_32" ELSE "fp2i_64", NumberType(dst)>>
    [] code = "i2fp" -> <<IF NumberType(dst) = "f32" THEN "i2fp_32" ELSE "i2fp_64", NumberType(src)>>
    [] code \in Arithmetic -> <<code, NumberType(dst)>>
    [] code \in Comparisons -> <<code, NumberType(src)>>
OpcodeOf(instr) ==
  LET code == instr.code
      dst == instr.dst
      src == instr.srcs[1]
  IN CASE code = "call" -> CallOpcode(instr)
       [] code \in {"ext", "trunc"} -> ResizeOf(code, dst, src)
       [] code = "syscall" -> <<code, 1 + Len(instr.refs)>>
       [] code \in {"mov", "jmpz", "jmpnz"} -> SizOpcode(code, SizedBy(code, dst, src))
       [] code \in {"fp2i", "i2fp"} \cup Arithmetic \cup Comparisons ->
            Given(NumberedBy(code, dst, src), LAMBDA by : NumOpcode(by[1], by[2]))
       [] OTHER -> <<code, 0>>
Opcode(family, index) == Opcodes[FirstOf[family] + index]

(* The assertions on the types of an instruction.                            *)
WellTyped(instr) ==
  CASE instr.code = "call" -> instr.srcs[1].type.kind = "Procedure"
    [] instr.code = "ext" -> Resizable(instr.dst, instr.srcs[1])
    [] instr.code = "trunc" -> Resizable(instr.srcs[1], instr.dst)
    [] instr.code \in Arithmetic -> IsNumeric(instr.dst.type)
    [] instr.code \in Comparisons -> IsNumeric(instr.srcs[1].type)
    [] OTHER -> TRUE

-----------------------------------------------------------------------------
(* getDataAddr: the memory of data is made, filled and relocated when it is  *)
(* first referred to.                                                        *)
DataObject(i) == <<"data", i, 0>>
Filled(decl) ==
  FoldLeft(LAMBDA bytes, val :
             LET new == Bytes(NumberOf(val.type.num, val.v), val.type.size)
             IN [k \in DOMAIN bytes |-> IF k - val.offset \in DOMAIN new THEN new[k - val.offset] ELSE bytes[k]],
           Zeros(decl.type.size), decl.values)
RECURSIVE WithData(_, _, _)
WithData(m, prog, i) ==
  IF DataObject(i) \in DOMAIN m.mem THEN m
  ELSE FoldLeft(LAMBDA n, reloc : Place(WithData(n, prog, reloc.target), Address(DataObject(i), reloc.offset),
                                        Bytes(Address(DataObject(reloc.target), 0), 8)),
                New(m, DataObject(i), Filled(prog.data[i])), prog.data[i].relocs)

(* translate_ref.  A procedure is referred to through a cell that holds it.  *)
ProcObject(prog, i) == <<IF Info(prog.procs[i].type).cdecl THEN "closure" ELSE "bytecode", i, 0>>
ExternObject(i) == <<"native", i, 0>>
BcRef(kind, obj, offset, indir, ref) ==
  [kind |-> kind, obj |-> obj, offset |-> offset, post |-> ref.post, indir |-> indir, type |-> ref.type]
TranslateRef(prog, proc, ref) ==
  CASE ref.kind = "Frame" -> BcRef("Frame", Nothing, ref.offset + proc.locals[ref.index].offset, ref.indir, ref)
    [] ref.kind = "Arg" -> BcRef("Arg", Nothing, ref.offset + 8 * (ref.index - 1), ref.indir + 1, ref)
    [] ref.kind = "Data" -> BcRef("Data", DataObject(ref.index), ref.offset, ref.indir, ref)
    [] ref.kind = "Proc" -> BcRef("Data", ProcObject(prog, ref.index), 0, ref.indir, ref)
    [] ref.kind \in {"ExternProc", "ExternData"} -> BcRef("Data", ExternObject(ref.index), ref.offset, ref.indir, ref)
    [] OTHER -> BcRef(ref.kind, Nothing, 0, 0, ref)

(* The cells and the data that a reference needs.                            *)
Referred(m, prog, ref) ==
  CASE ref.kind = "Data" -> WithData(m, prog, ref.index)
    [] ref.kind = "Proc" -> New(m, ProcObject(prog, ref.index), Bytes(Code(ProcObject(prog, ref.index)[1], ref.index), 8))
    [] ref.kind = "ExternProc" -> New(m, ExternObject(ref.index), Bytes(Code("native", ref.index), 8))
    [] OTHER -> m
RefsOf(instr) == <<instr.dst>> \o instr.srcs \o instr.refs

(* The position of a block among those of the procedure; a label that was    *)
(* not emitted is where the procedure starts.                                *)
Position(proc, label) == SelectLastInSeq(proc.blocks, LAMBDA id : id = label)
KeptInstrs(prog, proc, pos) ==
  SelectSeq(prog.blocks[proc.blocks[pos]].instrs, LAMBDA instr :
    instr.code # "comment" /\ ~(instr.code = "jmp" /\ Position(proc, instr.label) = pos + 1))
FirstInstr(prog, proc, pos) == 1 + FoldLeft(LAMBDA n, p : n + Len(KeptInstrs(prog, proc, p)), 0, [p \in 1..pos - 1 |-> p])

TranslateInstr(prog, proc, instr) ==
  [op |-> IF WellTyped(instr) THEN Given(OpcodeOf(instr), LAMBDA op : Opcode(op[1], op[2])) ELSE <<"assertion", "">>,
   dst |-> TranslateRef(prog, proc, instr.dst),
   srcs |-> [i \in DOMAIN instr.srcs |-> TranslateRef(prog, proc, instr.srcs[i])],
   refs |-> [i \in DOMAIN instr.refs |-> TranslateRef(prog, proc, instr.refs[i])],
   target |-> IF instr.label = 0 THEN 0 ELSE FirstInstr(prog, proc, Position(proc, instr.label))]

KeptOf(prog, proc) == FlattenSeq([pos \in DOMAIN proc.blocks |-> KeptInstrs(prog, proc, pos)])

Known(m, prog, i, kept) ==
  [m EXCEPT !.procs = (i :> [frameSize |-> prog.procs[i].frameSize,
                             instrs |-> [k \in DOMAIN kept |-> TranslateInstr(prog, prog.procs[i], kept[k])]]) @@ @]

(* translateProc: the procedure is known before those it refers to are       *)
(* translated in their turn.                                                 *)
RECURSIVE TranslateProc(_, _, _)
TranslateProc(m, prog, i) ==
  IF i \in DOMAIN m.procs THEN m
  ELSE Given(KeptOf(prog, prog.procs[i]), LAMBDA kept :
         Given(FlattenSeq([k \in DOMAIN kept |-> RefsOf(kept[k])]), LAMBDA refs :
           FoldLeft(LAMBDA n, ref : IF ~n.fault /\ ref.kind = "Proc" THEN TranslateProc(n, prog, ref.index) ELSE n,
                    FoldLeft(LAMBDA n, ref : IF n.fault THEN n ELSE Referred(n, prog, ref), Known(m, prog, i, kept), refs), refs)))

-----------------------------------------------------------------------------
Fuel == 80   (* bound: instructions executed in a run                        *)

NumOf(width, signed) == CHOOSE num \in Range(Wholes) : WidthOf[num] = width /\ IsSigned(num) = signed
WidthsOf(ext) ==
  CASE ext \in {"8_16", "16_8"} -> <<1, 2>> [] ext \in {"8_32", "32_8"} -> <<1, 4>> [] ext \in {"8_64", "64_8"} -> <<1, 8>>
    [] ext \in {"16_32", "32_16"} -> <<2, 4>> [] ext \in {"16_64", "64_16"} -> <<2, 8>> [] OTHER -> <<4, 8>>
SizeOf(ext) == CASE ext = "8" -> 1 [] ext = "16" -> 2 [] ext = "32" -> 4 [] OTHER -> 8

(* nkbc_deref.                                                               *)
BaseOf(m, ref) ==
  CASE ref.kind = "Frame" -> Address(m.reg.frame, 0) [] ref.kind = "Arg" -> Address(m.reg.args, 0)
    [] ref.kind = "Data" -> Address(ref.obj, 0) [] OTHER -> Junk
RefAddr(m, ref) ==
  Plus(FoldLeft(LAMBDA a, i : Load(m, a, 8), Plus(BaseOf(m, ref), ref.offset), [i \in 1..ref.indir |-> i]), ref.post)
ReadNum(m, ref, num) == AsNumber(num, Load(m, RefAddr(m, ref), WidthOf[num]))
WriteNum(m, ref, num, v) == Place(m, RefAddr(m, ref), Bytes(v, WidthOf[num]))
Moved(m, instr, name, ext, addr) ==
  IF name = "lea" THEN Bytes(addr, 8) ELSE Fetch(m, addr, IF ext = "" THEN instr.dst.type.size ELSE SizeOf(ext))
JumpTo(m, pc) == [m EXCEPT !.reg.pc = pc]

-----------------------------------------------------------------------------
(* jumpCall: the frame is zeroed; the registers are kept until the return.   *)
Depth(m) == Len(m.ctrl)
JumpCall(m, proc, args, ret) ==
  Given(<<"frame", Depth(m) + 1, 0>>, LAMBDA frame :
    [New(m, frame, Zeros(m.procs[proc].frameSize)) EXCEPT
       !.ctrl = Append(@, m.reg), !.reg = [proc |-> proc, pc |-> 1, frame |-> frame, args |-> args, ret |-> ret]])
ArgArray(args) == FlattenSeq([i \in DOMAIN args |-> Bytes(args[i], 8)])
CallBytecode(m, instr) ==
  LET args == <<"args", Depth(m) + 1, 0>>
      pushed == New(m, args, ArgArray([i \in DOMAIN instr.refs |-> RefAddr(m, instr.refs[i])]))
  IN Given(Load(m, RefAddr(m, instr.srcs[1]), 8), LAMBDA callee :
       IF callee.kind # "bytecode" THEN Faulty(m) ELSE JumpCall(pushed, callee.n, args, RefAddr(m, instr.dst)))

(* Mutant: the value returned is left in the frame.                          *)
ReturnNothing(m, instr) ==
  [Freed(m, {m.reg.frame, m.reg.args}) EXCEPT !.reg = Last(m.ctrl), !.ctrl = Front(m.ctrl)]

(* nkop_ret.                                                                 *)
LeaveFrame(m, instr) ==
  LET value == IF instr.srcs = <<>> THEN m
               ELSE Place(m, m.reg.ret, Fetch(m, RefAddr(m, instr.srcs[1]), instr.srcs[1].type.size))
  IN [Freed(value, {m.reg.frame, m.reg.args}) EXCEPT !.reg = Last(m.ctrl), !.ctrl = Front(m.ctrl)]

(* The types as libffi is told them (nkb/src/ffi_adapter.cpp): numbers by    *)
(* their own, anything with an address as a pointer, an aggregate by each of *)
(* its elements, and an empty one as nothing.                                *)
RECURSIVE NativeType(_)
NativeElems(elem) == [j \in 1..elem.count |-> NativeType(elem.type)]
NativeType(type) ==
  CASE IsNumeric(type) -> type
    [] type.kind \in {"Pointer", "Procedure"} -> PointerType
    [] type.kind = "Aggregate" /\ type.size = 0 -> VoidType
    [] OTHER -> [type EXCEPT !.elems = FlattenSeq([i \in DOMAIN @ |-> NativeElems(@[i])])]
NativeTypes(types) == [i \in DOMAIN types |-> NativeType(types[i])]

(* A library procedure reads its arguments by the types of its own, and the  *)
(* rest as they come; it returns one.                                        *)
OneOf(type) == IF type.kind # "Numeric" THEN Whole(0) ELSE IF IsWhole(type.num) THEN Whole(1) ELSE Real(4)
SeenArgs(m, extern, types, bytes) ==
  LET own == Info(extern.type).args
  IN [i \in DOMAIN bytes |-> Seen(m, IF i \in DOMAIN own THEN own[i] ELSE types[i], bytes[i])]
NativeArgs(instr) == SelectSeq(instr.refs, LAMBDA ref : ref.kind # "VariadicMarker")
Returned(m, instr) ==
  IF instr.dst.kind = "None" THEN m ELSE Place(m, RefAddr(m, instr.dst), Bytes(OneOf(NativeType(instr.dst.type)), instr.dst.type.size))

-----------------------------------------------------------------------------
Binary2(m, instr, op, num) == Result(op, num, ReadNum(m, instr.srcs[1], num), num, ReadNum(m, instr.srcs[2], num))
JumpIf(m, instr, size, zero) ==
  Given(Load(m, RefAddr(m, instr.srcs[1]), size), LAMBDA v :
    IF v.kind = "junk" THEN Faulty(m) ELSE IF (v.kind \in Numbers /\ v.n = 0) = zero THEN JumpTo(m, instr.target) ELSE m)
Resize(m, instr, from, to) == WriteNum(m, instr.dst, to, Convert(to, ReadNum(m, instr.srcs[1], from)))

RECURSIVE Run(_, _, _, _)

(* nkop_call_ext and nkop_call_extv.  Through a closure a native call comes  *)
(* back in, with copies of its arguments.                                    *)
CallLibrary(m, extern, instr, types, bytes) ==
  Returned(Observe(m, extern.name, SeenArgs(m, extern, NativeTypes(types), bytes)), instr)
CallBack(m, prog, instr, proc, bytes) ==
  LET copies == [i \in DOMAIN bytes |-> <<"copy", Depth(m) + 1, i>>]
      copied == FoldLeft(LAMBDA n, i : New(n, copies[i], bytes[i]), m, [i \in DOMAIN bytes |-> i])
      args == <<"args", Depth(m) + 1, 0>>
      pushed == New(copied, args, ArgArray([i \in DOMAIN copies |-> Address(copies[i], 0)]))
  IN Freed(Run(JumpCall(pushed, proc, args, RefAddr(m, instr.dst)), prog, Depth(m), m.fuel + 1), Range(copies))
CallNative(m, prog, instr) ==
  LET refs == NativeArgs(instr)
  IN Given([i \in DOMAIN refs |-> Fetch(m, RefAddr(m, refs[i]), refs[i].type.size)], LAMBDA bytes :
       Given(Load(m, RefAddr(m, instr.srcs[1]), 8), LAMBDA callee :
         CASE callee.kind = "native" -> CallLibrary(m, prog.externs[callee.n], instr, [i \in DOMAIN refs |-> refs[i].type], bytes)
           [] callee.kind = "closure" -> CallBack(m, prog, instr, callee.n, bytes)
           [] OTHER -> Faulty(m)))
SystemCall(m, instr) ==
  LET seen == [i \in 0..Len(instr.refs) |-> SeenNumber(ReadNum(m, IF i = 0 THEN instr.srcs[1] ELSE instr.refs[i], "i64"))]
  IN WriteNum(Observe(m, "syscall", [i \in 1..Len(instr.refs) + 1 |-> seen[i - 1]]), instr.dst, "i64", Whole(1))

Transfers == {"nop", "ret", "jmp", "jmpz", "jmpnz", "call", "syscall", "mov", "lea"}
Transferred(m, prog, instr, name, ext) ==
  CASE name = "nop" -> m
    [] name = "ret" -> LeaveFrame(m, instr)
    [] name = "jmp" -> JumpTo(m, instr.target)
    [] name \in {"jmpz", "jmpnz"} /\ ext # "" -> JumpIf(m, instr, SizeOf(ext), name = "jmpz")
    [] name = "call" /\ ext = "jmp" -> CallBytecode(m, instr)
    [] name = "call" /\ ext # "" -> CallNative(m, prog, instr)
    [] name = "syscall" /\ ext # "" -> SystemCall(m, instr)
    [] name \in {"mov", "lea"} -> Place(m, RefAddr(m, instr.dst), Moved(m, instr, name, ext, RefAddr(m, instr.srcs[1])))
    [] OTHER -> Faulty(m)
Resizes == {"sext", "zext", "trunc", "fext", "ftrunc", "fp2i_32", "fp2i_64", "i2fp_32", "i2fp_64"}
Resizing(name, ext) ==
  CASE name \in {"sext", "zext"} -> [i \in {1, 2} |-> NumOf(WidthsOf(ext)[i], name = "sext")]
    [] name = "trunc" -> [i \in {1, 2} |-> NumOf(WidthsOf(ext)[3 - i], FALSE)]
    [] name = "fext" -> <<"f32", "f64">>
    [] name = "ftrunc" -> <<"f64", "f32">>
    [] name \in {"fp2i_32", "fp2i_64"} -> <<IF name = "fp2i_32" THEN "f32" ELSE "f64", ext>>
    [] name \in {"i2fp_32", "i2fp_64"} -> <<ext, IF name = "i2fp_32" THEN "f32" ELSE "f64">>
Numeric(m, instr, name, ext) ==
  IF name \in Resizes THEN Given(Resizing(name, ext), LAMBDA nums : Resize(m, instr, nums[1], nums[2]))
  ELSE Given(IF name \in Comparisons THEN "u8" ELSE ext, LAMBDA num :
         WriteNum(m, instr.dst, num, Convert(num, Binary2(m, instr, name, ext))))
Executable(name, ext) == name \in Transfers \/ ext # "" \/ name \in {"fext", "ftrunc"}
Execute(m, prog, instr) ==
  LET next == [m EXCEPT !.reg.pc = @ + 1, !.fuel = @ - 1]
      name == instr.op[1]
      ext == instr.op[2]
  IN CASE name \in Transfers -> Transferred(next, prog, instr, name, ext)
       [] Executable(name, ext) -> Numeric(next, instr, name, ext)
       [] OTHER -> Faulty(next)

(* nkir_interp_invoke: until the frame it was entered with has been left.    *)
(* The fuel ends it before so many steps are done.                           *)
Run(m, prog, depth, steps) ==
  IF m.fault \/ Depth(m) = depth THEN m
  ELSE IF steps > 1
  THEN Given(Run(m, prog, depth, steps \div 2), LAMBDA half : Run(half, prog, depth, steps - steps \div 2))
  ELSE IF m.fuel = 0 \/ m.reg.pc \notin DOMAIN m.procs[m.reg.proc].instrs THEN Faulty(m)
  ELSE Execute(m, prog, m.procs[m.reg.proc].instrs[m.reg.pc])

(* nkir_run: the entry point gets a count and the names, and leaves a code.  *)
NoRegisters == [proc |-> 0, pc |-> 0, frame |-> Nothing, args |-> Nothing, ret |-> Junk]
Interpreted(prog, entry) ==
  LET ready == NewMachine @@ [procs |-> <<>>, reg |-> NoRegisters, ctrl |-> <<>>, fuel |-> Fuel]
      given == New(New(New(ready, <<"argc", 0, 0>>, Bytes(Whole(1), 4)), <<"argv", 0, 0>>, Zeros(8)), <<"code", 0, 0>>, Bytes(Whole(-1), 8))
      args == New(given, <<"args", 1, 0>>, ArgArray(<<Address(<<"argc", 0, 0>>, 0), Address(<<"argv", 0, 0>>, 0)>>))
  IN Given(Run(JumpCall(TranslateProc(args, prog, entry), entry, <<"args", 1, 0>>, Address(<<"code", 0, 0>>, 0)), prog, 0, Fuel + 1),
           LAMBDA done : Observe(done, "exit", <<Seen(done, NumericType("i32"), SubSeq(done.mem[<<"code", 0, 0>>], 1, 4))>>))
=============================================================================
