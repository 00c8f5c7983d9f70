------------------------------- MODULE CWriter ------------------------------
(***************************************************************************)
(* The writer of C (nkb/src/translate2c.cpp): a text in three parts, the   *)
(* typedefs, the declarations and data, and the procedures, each growing   *)
(* as what it says is first referred to.  `val` is the piece of text just  *)
(* written for its reader to put in place.                                 *)
(***************************************************************************)
EXTENDS NkbIr

NewWriter ==
  [types |-> <<>>, forward |-> <<>>, main |-> <<>>, dataMap |-> <<>>, dataCount |-> 0,
   procsTranslated |-> {}, externsTranslated |-> {}, procsToTranslate |-> <<>>, unknownTarget |-> FALSE, val |-> <<>>]
Yields(w, val) == [w EXCEPT !.val = val]
(* What is written of each of a sequence, after what was there.              *)
Collect(w, items, Write(_, _)) ==
  FoldLeft(LAMBDA v, item : IF v.unknownTarget THEN v
                            ELSE Given(Write(v, item), LAMBDA done : Yields(done, Append(v.val, done.val))),
           Yields(w, <<>>), items)
Joined(w, items, Write(_, _)) == Given(Collect(w, items, Write), LAMBDA done : Yields(done, FlattenSeq(done.val)))

(* writeName: of what has no name, its class and number.                     *)
NameOf(name, index, class) == IF name # "" THEN <<name, 0>> ELSE <<class, index>>

(* writeType: a struct or a pointer to a procedure gets a typedef, after the *)
(* types it is made of.                                                      *)
IsComplex(type) == type.kind \in {"Aggregate", "Procedure"}
Present(type) == IF type.size = 0 THEN <<>> ELSE <<type>>
PartsOf(type) ==
  CASE type.kind = "Aggregate" -> [i \in DOMAIN type.elems |-> type.elems[i].type]
    [] type.kind = "Procedure" -> Present(Info(type).ret) \o Info(type).args
    [] OTHER -> <<>>
RECURSIVE WriteType(_, _), WriteTypes(_, _)
WriteType(w, type) ==
  IF ~IsComplex(type) \/ type \in Range(w.types) THEN w
  ELSE [WriteTypes(w, PartsOf(type)) EXCEPT !.types = Append(@, type)]
WriteTypes(w, types) == IF types = <<>> THEN w ELSE WriteTypes(WriteType(w, Head(types)), Tail(types))

(* writeProcSignature, and the declaration it is for.                        *)
PrintfType == ProcedureType(<<PointerType>>, NumericType("i32"), TRUE, TRUE)
Declaration(kind, name, type, leaves) == [kind |-> kind, name |-> name, type |-> type, leaves |-> leaves]
DeclareProc(w, kind, name, type) ==
  IF name = <<"printf", 0>> THEN [w EXCEPT !.forward = Append(@, Declaration(kind, name, PrintfType, <<>>))]
  ELSE [WriteTypes(w, Present(Info(type).ret) \o Info(type).args) EXCEPT !.forward = Append(@, Declaration(kind, name, type, <<>>))]
ProcName(proc, i) == IF proc.name = "main" THEN <<"__nkl_main", 0>> ELSE NameOf(proc.name, i, "_proc")

-----------------------------------------------------------------------------
(* A base of an expression: a literal, a name, or the address of one.        *)
Base(kind, name, num, v, of) == [kind |-> kind, name |-> name, num |-> num, v |-> v, of |-> of]
NamedBase(name) == Base("name", name, "", Junk, <<>>)
(* The suffix of a literal: nothing or u is an int, l and ll have 64 bits.   *)
LiteralType(num) ==
  CASE num \in {"i8", "i16"} -> "i32" [] num \in {"u8", "u16"} -> "u32"
    [] num = "i32" -> "i64" [] num = "u32" -> "u64" [] OTHER -> num
Literal(num, v) == Base("literal", <<"", 0>>, LiteralType(num), v, <<>>)

IsInlineDecl(decl) ==
  /\ decl.readOnly /\ decl.vis = "Local"
  /\ \/ decl.type.kind # "Aggregate"
     \/ Len(decl.type.elems) = 1 /\ IsNumeric(decl.type.elems[1].type) /\ decl.type.elems[1].type.size = 1

(* The bytes of data as its client left them.                                *)
ValueAt(decl, offset, num) ==
  LET set == SelectSeq(decl.values, LAMBDA val : val.offset = offset)
  IN IF set = <<>> THEN NumberOf(num, 0) ELSE NumberOf(num, Last(set).v)


(* Whether data is written as an object with a name.                         *)
NeedsName(decl, isComplex) == isComplex \/ ~IsInlineDecl(decl)

(* writeConst and writeData: the leaves of the value, in their order.  The   *)
(* text of data is kept for the next time.                                   *)
RECURSIVE WriteConst(_, _, _, _, _), WriteData(_, _, _, _)
WriteElems(w, prog, i, elem, offset) ==
  Joined(w, [c \in 1..elem.count |-> c - 1], LAMBDA v, c : WriteConst(v, prog, i, offset + elem.offset + c * elem.type.size, elem.type))
WriteConst(w, prog, i, offset, type) ==
  CASE type.kind = "Aggregate" -> Joined(w, type.elems, LAMBDA v, elem : WriteElems(v, prog, i, elem, offset))
    [] type.kind = "Numeric" -> Yields(w, <<Literal(type.num, ValueAt(prog.data[i], offset, type.num))>>)
    [] OTHER -> Given(SelectSeq(prog.data[i].relocs, LAMBDA reloc : reloc.offset = offset), LAMBDA relocs :
         IF relocs = <<>> THEN [Yields(w, <<>>) EXCEPT !.unknownTarget = TRUE]
         ELSE Given(WriteData(w, prog, relocs[1].target, TRUE), LAMBDA target :
                Yields(target, <<Base("address", <<"", 0>>, "", Junk, <<target.val>>)>>)))
Remembered(w, i, text) == Yields([w EXCEPT !.dataMap = (i :> text) @@ @], text)
InlineData(const, decl, i) ==
  Remembered(const, i, IF decl.type.kind = "Aggregate" THEN Base("braces", <<"", 0>>, "", Junk, const.val) ELSE Head(const.val))
NamedData(const, decl, i) ==
  LET name == NameOf(decl.name, const.dataCount, "_const")
  IN Remembered([WriteType(const, decl.type) EXCEPT !.forward = Append(@, Declaration("data", name, decl.type, const.val)),
                                                    !.dataCount = @ + 1],
                i, NamedBase(name))
WriteData(w, prog, i, isComplex) ==
  IF i \in DOMAIN w.dataMap THEN Yields(w, w.dataMap[i])
  ELSE Given(WriteConst(w, prog, i, 0, prog.data[i].type), LAMBDA const :
         IF NeedsName(prog.data[i], isComplex) THEN NamedData(const, prog.data[i], i) ELSE InlineData(const, prog.data[i], i))

-----------------------------------------------------------------------------
(* write_ref.  What can have an address is read through a pointer to its     *)
(* type, the offsets added to it as a pointer to bytes.                      *)
Expr(kind, base, ref) ==
  [kind |-> kind, base |-> base, type |-> ref.type, indir |-> ref.indir, offset |-> ref.offset, post |-> ref.post]
IsAddressable(prog, ref) ==
  ~(ref.kind = "Data" /\ prog.data[ref.index].readOnly /\ prog.data[ref.index].vis = "Local"
    /\ prog.data[ref.index].type.kind # "Aggregate")
RefToProc(w, prog, i, ref) ==
  Yields([w EXCEPT !.procsToTranslate = IF i \in w.procsTranslated THEN @ ELSE Append(@, i)],
         Expr("plain", NamedBase(NameOf(prog.procs[i].name, i, "_proc")), ref))
DeclareExternal(w, extern) ==
  IF extern.isProc THEN DeclareProc(w, "externProc", <<extern.name, 0>>, extern.type)
  ELSE [WriteType(w, extern.type) EXCEPT !.forward = Append(@, Declaration("externData", <<extern.name, 0>>, extern.type, <<>>))]
RefToExtern(w, prog, i, ref) ==
  Yields([(IF i \in w.externsTranslated THEN w ELSE DeclareExternal(w, prog.externs[i])) EXCEPT !.externsTranslated = @ \cup {i}],
         Expr("plain", NamedBase(<<prog.externs[i].name, 0>>), ref))
WriteBase(w, prog, proc, ref) ==
  CASE ref.kind = "Frame" -> Yields(w, NamedBase(NameOf(proc.locals[ref.index].name, ref.index, "_var")))
    [] ref.kind = "Arg" -> Yields(w, NamedBase(NameOf(proc.argNames[ref.index], ref.index, "_arg")))
    [] ref.kind = "Data" -> WriteData(w, prog, ref.index, FALSE)
WriteRef(w, prog, proc, ref) ==
  CASE ref.kind = "Proc" -> RefToProc(w, prog, ref.index, ref)
    [] ref.kind \in {"ExternProc", "ExternData"} -> RefToExtern(w, prog, ref.index, ref)
    [] OTHER -> Given(IsAddressable(prog, ref), LAMBDA access :
         Given(WriteBase(IF access THEN WriteType(w, ref.type) ELSE w, prog, proc, ref), LAMBDA based :
           Yields(based, Expr(IF access THEN "access" ELSE "plain", based.val, ref))))

WriteRefs(w, prog, proc, refs) ==
  Collect(w, refs, LAMBDA v, ref : WriteRef(v, prog, proc, ref))

(* writeCast.                                                                *)
IsCast(type) == type.kind \in {"Numeric", "Pointer"} \/ type.size = 0
Casts(w, types) == WriteTypes(w, SelectSeq(types, IsCast))

(* The cast of what is extended: as wide as the source, as signed as the     *)
(* destination.                                                              *)
ExtCast(instr) ==
  LET src == instr.srcs[1].type.num
  IN CHOOSE num \in Range(Numerics) :
       IF ~IsWhole(src) THEN num = src
       ELSE IsWhole(num) /\ WidthOf[num] = WidthOf[src] /\ IsSigned(num) = IsSigned(instr.dst.type.num)

(* A statement: where the value goes, of what, and the arguments of a call   *)
(* with the types the fixed ones are cast to.                                *)
FixedArgs(instr) ==
  LET marker == SelectInSeq(instr.refs, LAMBDA ref : ref.kind = "VariadicMarker")
  IN IF marker = 0 THEN Len(instr.refs) ELSE marker - 1
ArgCasts(instr) == IF instr.code = "call" THEN SubSeq(Info(instr.srcs[1].type).args, 1, FixedArgs(instr)) ELSE <<>>
WrittenRefs(instr, ret) ==
  [dst |-> IF instr.dst.kind = "None" THEN <<>> ELSE <<instr.dst>>,
   srcs |-> IF instr.code = "ret" /\ ret.size = 0 THEN <<>> ELSE instr.srcs,
   args |-> SelectSeq(instr.refs, LAMBDA ref : ref.kind # "VariadicMarker")]
Statement(prog, instr, dst, srcs, args, casts) ==
  [dst |-> dst, code |-> instr.code, srcs |-> srcs, args |-> args,
   casts |-> IF instr.code = "ext" THEN <<NumericType(ExtCast(instr))>> ELSE casts,
   missing |-> instr.refs # <<>> /\ FixedArgs(instr) = 0 /\ args # <<>>,
   label |-> IF instr.label = 0 THEN "" ELSE prog.blocks[instr.label].name]
WriteInstr(w, prog, proc, instr) ==
  Given(<<WrittenRefs(instr, Info(proc.type).ret), ArgCasts(instr)>>, LAMBDA given :
    Given(WriteRefs(w, prog, proc, given[1].dst), LAMBDA dst :
      Given(WriteRefs(Casts(dst, [i \in DOMAIN given[1].dst |-> instr.dst.type]), prog, proc, given[1].srcs), LAMBDA srcs :
        Given(WriteRefs(Casts(srcs, given[2]), prog, proc, given[1].args), LAMBDA args :
          Yields(args, Statement(prog, instr, dst.val, srcs.val, args.val, given[2]))))))
WriteBlock(w, prog, proc, block) ==
  Given(Collect(w, SelectSeq(block.instrs, LAMBDA instr : instr.code \notin {"nop", "comment"}),
                LAMBDA v, instr : WriteInstr(v, prog, proc, instr)),
        LAMBDA stmts : Yields(stmts, [label |-> block.name, stmts |-> stmts.val]))

(* translateProc.                                                            *)
DeclareEntry(w, proc) ==
  IF proc.name # "main" THEN w
  ELSE [w EXCEPT !.forward = Append(@, Declaration("entry", <<"main", 0>>, proc.type, <<>>))]
Function(proc, i, blocks) ==
  [name |-> ProcName(proc, i), ret |-> Info(proc.type).ret, blocks |-> blocks,
   locals |-> [v \in DOMAIN proc.locals |-> [name |-> NameOf(proc.locals[v].name, v, "_var"), type |-> proc.locals[v].type]],
   params |-> [a \in DOMAIN Info(proc.type).args |->
                 [name |-> NameOf(proc.argNames[a], a, "_arg"), type |-> Info(proc.type).args[a]]]]
WriteBody(w, prog, proc) ==
  Collect(WriteTypes(w, [v \in DOMAIN proc.locals |-> proc.locals[v].type]), proc.blocks,
          LAMBDA v, id : WriteBlock(v, prog, proc, prog.blocks[id]))
TranslateToC(w, prog, i) ==
  IF i \in w.procsTranslated THEN w
  ELSE LET proc == prog.procs[i]
           declared == DeclareProc([w EXCEPT !.procsTranslated = @ \cup {i}], "proc", ProcName(proc, i), proc.type)
       IN Given(WriteBody(DeclareEntry(declared, proc), prog, proc), LAMBDA done :
            [done EXCEPT !.main = Append(@, Function(proc, i, done.val))])

(* nkir_translate2c: an exported procedure and all it leads to, the last     *)
(* found first; then the exported data that is left.                         *)
RECURSIVE Drain(_, _)
Drain(w, prog) ==
  IF w.procsToTranslate = <<>> THEN w
  ELSE Drain(TranslateToC([w EXCEPT !.procsToTranslate = Front(@)], prog, Last(w.procsToTranslate)), prog)
WrittenC(prog) ==
  LET procs == FoldLeft(LAMBDA w, i : Drain([w EXCEPT !.procsToTranslate = <<i>>], prog), NewWriter, prog.exportedProcs)
  IN FoldLeft(LAMBDA w, i : WriteData(w, prog, i, TRUE), procs, prog.exportedData)
=============================================================================
