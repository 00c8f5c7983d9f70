----------------------------- MODULE NkircReader ----------------------------
(***************************************************************************)
(* The reader of nkirc (nkirc/src/parser.cpp): a recursive descent over    *)
(* the tokens of a file that builds the program of NkbIr as it goes.  The  *)
(* declarations are shared by all the files of a compilation, the names    *)
(* local to a procedure are kept until the next one.                       *)
(***************************************************************************)
EXTENDS NkbIr, TokenReader, TLC

NoNames == [x \in {} |-> 0]
Built(p, prog) == [p EXCEPT !.prog = prog, !.err = @ \/ prog.assertion # ""]
Crash(p, text) == IF p.err THEN p ELSE Built(p, Asserted(p.prog, FALSE, text))

Decl(kind, index, type) == [kind |-> kind, index |-> index, type |-> type]

(* makeGlobalDecl, makeLocalDecl: of a name that is taken they return null,  *)
(* which the declaration is written to.                                      *)
DeclareGlobal(p, name, decl) ==
  IF p.err THEN p ELSE IF name \in DOMAIN p.decls THEN Crash(p, "a second declaration")
  ELSE [p EXCEPT !.decls = (name :> decl) @@ @]
DeclareLocal(p, name, decl) ==
  IF p.err THEN p ELSE IF name \in DOMAIN p.locals THEN Crash(p, "a second declaration")
  ELSE [p EXCEPT !.locals = (name :> decl) @@ @]

ParseId(p) == Take(p, {"Id"})
Strings == {"String", "EscapedString"}

(* parseNumeric: the value is cut to the width of the type.                  *)
ParseNumeric(p, num) ==
  Then(Take(p, {IF IsWhole(num) THEN "Int" ELSE "Float"}), LAMBDA n :
    With(n, IF IsWhole(num) THEN Wrap(num, n.val) ELSE n.val))

-----------------------------------------------------------------------------
RECURSIVE ParseType(_), ParseElems(_, _, _), ParseSignature(_, _), ParseParams(_, _, _)

(* A count in brackets, or one.                                              *)
ParseCount(p) == IF On(p, "[") THEN Expect(ParseNumeric(Step(p), "u64"), "]") ELSE With(p, 1)
ParseElems(p, types, counts) ==
  IF p.err THEN p
  ELSE IF OnAny(p, {")", "Eof"}) THEN With(Expect(p, "}"), AggregateType(types, counts))
  ELSE Then(ParseCount(p), LAMBDA n : Then(ParseType(n), LAMBDA t :
         IF On(t, ",") THEN ParseElems(Step(t), Append(types, t.val), Append(counts, n.val))
         ELSE With(Expect(t, "}"), AggregateType(Append(types, t.val), Append(counts, n.val)))))

NamedType(p, name) ==
  IF name \in DOMAIN p.decls /\ p.decls[name].kind = "Type" THEN Step(With(p, p.decls[name].type)) ELSE Fail(p)

ParseType(p) ==
  IF p.err THEN p
  ELSE IF On(p, "void") THEN Step(With(p, VoidType))
  ELSE IF On(p, "ptr") THEN Step(With(p, PointerType))
  ELSE IF OnAny(p, Range(Numerics)) THEN Step(With(p, NumericType(p.toks[p.pos].id)))
  ELSE IF On(p, "Id") THEN NamedType(p, Here(p))
  ELSE IF On(p, "{") THEN ParseElems(Step(p), <<>>, <<>>)
  ELSE IF On(p, "(") THEN Then(ParseSignature(p, FALSE), LAMBDA s :
         With(s, ProcedureType(s.val.args, s.val.ret, s.val.cdecl, s.val.variadic)))
  ELSE Fail(p)

(* parseProcSignature: after a dot-dot-dot or a last comma comes the end.    *)
Signature(cdecl, name) ==
  [cdecl |-> cdecl, name |-> name, argNames |-> <<>>, args |-> <<>>, ret |-> VoidType, variadic |-> FALSE]
ParseParamName(p, named) == IF named THEN Then(ParseId(p), LAMBDA id : Expect(id, ":")) ELSE With(p, "")
ParseParams(p, named, sig) ==
  IF p.err THEN p
  ELSE IF OnAny(p, {")", "Eof"}) THEN With(Expect(p, ")"), sig)
  ELSE IF On(p, "...") THEN With(Expect(Step(p), ")"), [sig EXCEPT !.variadic = TRUE])
  ELSE Then(ParseParamName(p, named), LAMBDA name : Then(ParseType(name), LAMBDA t :
         LET longer == [sig EXCEPT !.args = Append(@, t.val), !.argNames = Append(@, name.val)]
         IN IF On(t, ",") THEN ParseParams(Step(t), named, longer) ELSE With(Expect(t, ")"), longer)))
ParseSignatureFrom(p, cdecl, name, named) ==
  Then(ParseParams(Expect(p, "("), named, Signature(cdecl, name)), LAMBDA s :
    Then(ParseType(s), LAMBDA t : With(t, [s.val EXCEPT !.ret = t.val])))
ParseSignature(p, named) == ParseSignatureFrom(p, FALSE, "", named)
ParseNamedSignature(p, named) ==
  LET cdecl == On(p, "cdecl")
  IN Then(ParseId(IF cdecl THEN Step(p) ELSE p), LAMBDA id : ParseSignatureFrom(id, cdecl, id.val, named))

SignatureType(sig, cdecl) == ProcedureType(sig.args, sig.ret, cdecl, sig.variadic)

-----------------------------------------------------------------------------
(* Data that has no name is constant and local to the module.                *)
MakeAnonymous(p, type) == Built(p, MakeData(p.prog, "", type, "Local", TRUE))
LastData(p) == Len(p.prog.data)
Write(p, ref, num, value) == Built(p, SetData(p.prog, ref.index, ref.post, NumericType(num), value))
WriteString(p, ref, codes) ==
  FoldLeft(LAMBDA q, i : Write(q, [ref EXCEPT !.post = @ + i - 1], "i8", Append(codes, 0)[i]), p,
           [i \in 1..Len(codes) + 1 |-> i])

(* resolve: the names of the last procedure come first.                      *)
Resolve(p, name) == IF name \in DOMAIN p.locals THEN p.locals[name] ELSE p.decls[name]
RefTo(p, decl) ==
  CASE decl.kind = "Arg" -> ArgRef(p.prog, decl.index)
    [] decl.kind = "Local" -> FrameRef(p.prog, decl.index)
    [] decl.kind = "Proc" -> ProcRef(p.prog, decl.index)
    [] decl.kind = "Data" -> DataRef(p.prog, decl.index)
    [] decl.kind = "Extern" -> ExternRef(p.prog, decl.index)
ParseName(p) ==
  IF Here(p) \notin DOMAIN p.locals \cup DOMAIN p.decls THEN Fail(p)
  ELSE Given(Resolve(p, Here(p)), LAMBDA decl : IF decl.kind = "Type" THEN Fail(Step(p)) ELSE Step(With(p, RefTo(p, decl))))

RECURSIVE ParseValue(_, _), ParseElemValues(_, _, _), ParseItems(_, _, _, _), ParseRef(_)

(* parseValue.  A string goes to the start of the aggregate, whatever the    *)
(* offset of its element; an address is that of data.                        *)
IsBytes(elem) == IsNumeric(elem.type) /\ elem.type.size = 1
ParseStringElem(p, ref, elem) ==
  IF p.err THEN p
  ELSE IF ~OnAny(p, Strings) THEN Crash(p, "not a string")
  ELSE IF Len(Here(p)) + 1 # elem.count THEN Fail(Step(p)) ELSE Step(WriteString(p, ref, Here(p)))
ParseItems(p, ref, elem, i) ==
  IF p.err \/ i > elem.count THEN p
  ELSE ParseItems(ParseValue(IF i > 1 THEN Expect(p, ",") ELSE p,
                             [ref EXCEPT !.post = @ + elem.offset + elem.type.size * (i - 1), !.type = elem.type]),
                  ref, elem, i + 1)
ParseElem(p, ref, elem) ==
  IF IsBytes(elem) THEN ParseStringElem(p, ref, elem)
  ELSE IF elem.count = 1 THEN ParseItems(p, ref, elem, 1)
  ELSE Expect(Accept(ParseItems(Expect(p, "["), ref, elem, 1), ","), "]")
ParseElemValues(p, ref, e) ==
  IF p.err \/ e > Len(ref.type.elems) THEN p
  ELSE ParseElemValues(ParseElem(IF e > 1 THEN Expect(p, ",") ELSE p, ref, ref.type.elems[e]), ref, e + 1)

(* The error in a reference is not looked at before another one is reported. *)
ParseTarget(p, ref) ==
  Given(ParseRef(p), LAMBDA r :
    IF r.err THEN IF r.prog.assertion # "" THEN r ELSE Built(r, Asserted(r.prog, FALSE, "a second error"))
    ELSE IF r.val.kind # "Data" THEN Fail(r) ELSE Built(r, AddDataReloc(r.prog, ref, r.val.index)))
ParseValue(p, ref) ==
  IF p.err THEN p
  ELSE CASE ref.type.kind = "Aggregate" -> Expect(Accept(ParseElemValues(Expect(p, "{"), ref, 1), ","), "}")
         [] ref.type.kind = "Numeric" -> Then(ParseNumeric(p, ref.type.num), LAMBDA n : Write(n, ref, ref.type.num, n.val))
         [] ref.type.kind = "Pointer" -> Then(Expect(p, "&"), LAMBDA amper : ParseTarget(amper, ref))
         [] ref.type.kind = "Procedure" -> Crash(p, "unreachable")

(* What a reference refers to, before its offsets.                           *)
ParseConst(p, type) ==
  Then(MakeAnonymous(p, type), LAMBDA made :
    Given(DataRef(made.prog, LastData(made)), LAMBDA ref : With(ParseValue(made, ref), ref)))
ParseStringRef(p) ==
  Given(MakeAnonymous(p, ArrayType(NumericType("i8"), Len(Here(p)) + 1)), LAMBDA made :
    Given(DataRef(made.prog, LastData(made)), LAMBDA ref : Step(With(WriteString(made, ref, Here(p)), ref))))
ParseBase(p) ==
  IF On(p, "Id") THEN ParseName(p)
  ELSE IF OnAny(p, Strings) THEN ParseStringRef(p)
  ELSE IF ~OnAny(p, {"Int", ":"}) THEN Fail(p)
  ELSE Then(IF On(p, ":") THEN ParseType(Step(p)) ELSE With(p, NumericType("i64")), LAMBDA t : ParseConst(t, t.val))

RECURSIVE Opened(_), Unbracketed(_, _)
Opened(p) == IF On(p, "[") THEN Opened([Step(p) EXCEPT !.indir = @ + 1]) ELSE p
Unbracketed(p, n) == IF n = 0 THEN p ELSE Unbracketed(Expect(p, "]"), n - 1)

ParseOffset(p) == IF ~p.err /\ On(p, "+") THEN ParseNumeric(Step(p), "i64") ELSE With(p, 0)

(* One offset, before or after the brackets, is added last; of two the first *)
(* is added before the pointer is followed.                                  *)
ParseOffsets(p, ref, indir) ==
  Then(ParseOffset(p), LAMBDA first :
    IF indir > 0 /\ ref.type.kind # "Pointer" THEN Fail(first)
    ELSE Then(Unbracketed(first, indir), LAMBDA closed : Then(ParseOffset(closed), LAMBDA second :
      With(second, IF On(closed, "+")
                   THEN [ref EXCEPT !.offset = @ + first.val, !.post = @ + second.val, !.indir = @ + indir]
                   ELSE [ref EXCEPT !.post = @ + first.val, !.indir = @ + indir]))))

ParseRefType(p, ref, indir) ==
  IF indir > 0 \/ On(p, ":") THEN Then(ParseType(Expect(p, ":")), LAMBDA t : With(t, [ref EXCEPT !.type = t.val]))
  ELSE With(p, ref)

(* The address of data is a constant pointer relocated against it.           *)
TakeAddress(p, ref, indir) ==
  IF p.err THEN p
  ELSE IF indir > 0 \/ ref.kind # "Data" THEN Fail(p)
  ELSE Then(MakeAnonymous(p, PointerType), LAMBDA made :
         Given(DataRef(made.prog, LastData(made)), LAMBDA addr :
           With(Built(made, AddDataReloc(made.prog, addr, ref.index)), addr)))

ParseRef(p) ==
  IF p.err THEN p
  ELSE Then(Opened([Accept(p, "&") EXCEPT !.indir = 0]), LAMBDA opened : Then(ParseBase(opened), LAMBDA base :
         Then(ParseOffsets(base, base.val, opened.indir), LAMBDA placed :
           Then(ParseRefType(placed, placed.val, opened.indir), LAMBDA typed :
             IF On(p, "&") THEN TakeAddress(typed, typed.val, opened.indir) ELSE typed))))

RECURSIVE ParseRefs(_, _)
ParseArg(p) == IF On(p, "...") THEN Step(With(p, VariadicMarker)) ELSE ParseRef(p)
ParseRefs(p, refs) ==
  IF p.err THEN p
  ELSE IF OnAny(p, {")", "Eof"}) THEN With(Expect(p, ")"), refs)
  ELSE Then(ParseArg(p), LAMBDA r :
         IF On(r, ",") THEN ParseRefs(Step(r), Append(refs, r.val)) ELSE With(Expect(r, ")"), Append(refs, r.val)))

-----------------------------------------------------------------------------
(* getLabel: a label is made where its name is first met.                    *)
GetLabel(p, name) ==
  IF name \in DOMAIN p.labels THEN With(p, p.labels[name])
  ELSE Given(Built(p, CreateLabel(p.prog, name)), LAMBDA made :
         With([made EXCEPT !.labels = (name :> Len(made.prog.blocks)) @@ @], Len(made.prog.blocks)))
ParseLabelRef(p) == IF p.err THEN p ELSE IF On(p, "Label") THEN Step(GetLabel(p, Here(p))) ELSE Fail(p)

(* parseInstr: what an instruction reads, piece by piece.                    *)
Unary == {"ext", "trunc", "fp2i", "i2fp", "mov", "lea"}
Binary == {"add", "sub", "mul", "div", "mod", "and", "or", "xor", "lsh", "rsh"}
Compared == {"eq", "ne", "lt", "le", "gt", "ge"}
CmpCode == [eq |-> "cmp_eq", ne |-> "cmp_ne", lt |-> "cmp_lt", le |-> "cmp_le", gt |-> "cmp_gt", ge |-> "cmp_ge"]
Pieces(code) ==
  CASE code \in {"nop", "comment"} -> <<>>
    [] code = "label" -> <<"label">>
    [] code = "ret" -> <<"refOrNone">>
    [] code = "jmp" -> <<"label">>
    [] code \in {"jmpz", "jmpnz"} -> <<"ref", ",", "label">>
    [] code = "call" -> <<"ref", ",", "refs", "dstOrNone">>
    [] code = "syscall" -> <<"ref", ",", "refs", "->", "dst">>
    [] code \in Unary -> <<"ref", "->", "dst">>
    [] OTHER -> <<"ref", ",", "ref", "->", "dst">>

ParsePiece(p, piece, instr) ==
  CASE piece = "label" -> Then(ParseLabelRef(p), LAMBDA l : With(l, [instr EXCEPT !.label = l.val]))
    [] piece = "refs" -> Then(ParseRefs(Expect(p, "("), <<>>), LAMBDA r : With(r, [instr EXCEPT !.refs = r.val]))
    [] piece = "refOrNone" /\ On(p, "Newline") -> With(p, instr)
    [] piece = "dstOrNone" /\ ~On(p, "->") -> With(p, instr)
    [] piece \in {"ref", "refOrNone", "dst", "dstOrNone"} ->
         Then(ParseRef(IF piece = "dstOrNone" THEN Step(p) ELSE p), LAMBDA r :
           With(r, IF piece \in {"ref", "refOrNone"} THEN [instr EXCEPT !.srcs = Append(@, r.val)] ELSE [instr EXCEPT !.dst = r.val]))
    [] OTHER -> With(Expect(p, piece), instr)
RECURSIVE ParsePieces(_, _, _)
ParsePieces(p, pieces, instr) ==
  IF p.err THEN p
  ELSE IF pieces = <<>> THEN With(p, instr)
  ELSE Then(ParsePiece(p, Head(pieces), instr), LAMBDA piece : ParsePieces(piece, Tail(pieces), piece.val))

(* The token of the operation, which a label does not have.                  *)
Comment(p) == IF OnAny(p, Strings) THEN Step(With(p, "comment")) ELSE Fail(p)
ParseCode(p) ==
  CASE On(p, "Label") -> With(p, "label")
    [] On(p, "comment") -> Comment(Step(p))
    [] On(p, "cmp") -> Then(Take(Step(p), {"Cmp"}), LAMBDA c : With(c, CmpCode[c.val]))
    [] On(p, "Op") -> Step(With(p, Here(p)))
    [] OTHER -> Fail(p)
ParseInstr(p) ==
  Then(ParseCode(p), LAMBDA c : ParsePieces(c, Pieces(c.val), Instr(c.val, NoRef, <<>>, <<>>, 0)))

-----------------------------------------------------------------------------
ParseLocal(p) ==
  Then(ParseId(p), LAMBDA id : Then(ParseType(Expect(id, ":")), LAMBDA t :
    Given(Built(t, MakeLocalVar(t.prog, id.val, t.val)), LAMBDA made :
      DeclareLocal(made, id.val, Decl("Local", Len(made.prog.procs[made.prog.curProc].locals), t.val)))))
ParseEmitted(p) == Then(ParseInstr(p), LAMBDA i : Built(i, Emit(i.prog, i.val)))

(* A number and a bar in front of a line are skipped; a line may be empty.   *)
Numbered(p) == IF ~p.err /\ On(p, "Int") THEN Expect(Step(p), "|") ELSE p
ParseLine(p) ==
  IF p.err \/ On(p, "Newline") THEN p
  ELSE SkipNewlines(Expect(IF On(p, "Id") THEN ParseLocal(p) ELSE ParseEmitted(p), "Newline"))
(* Up to so many lines, of which there are fewer than tokens.                *)
RECURSIVE ParseBody(_, _)
ParseBody(p, lines) ==
  IF p.err \/ OnAny(p, {"}", "Eof"}) THEN p
  ELSE IF lines = 1 THEN ParseLine(Numbered(SkipNewlines(p)))
  ELSE Given(ParseBody(p, lines \div 2), LAMBDA half : ParseBody(half, lines - lines \div 2))

(* parseProc.  Exported before its visibility is set, like any other.        *)
OpenProc(p, sig, vis) ==
  LET proc == Len(p.prog.procs) + 1
      main == sig.name = "main"
  IN Then(Built(p, ExportProc(CreateProc(p.prog), proc)), LAMBDA made :
       IF main /\ vis # "Default" THEN Fail(made)
       ELSE DeclareGlobal([Built(made, StartProc(made.prog, proc, sig.name, SignatureType(sig, sig.cdecl), sig.argNames, vis))
                             EXCEPT !.entry = IF main THEN proc ELSE @],
                          sig.name, Decl("Proc", proc, VoidType)))
DeclareArgs(p, sig) ==
  FoldLeft(LAMBDA q, i : DeclareLocal(q, sig.argNames[i], Decl("Arg", i, sig.args[i])),
           [p EXCEPT !.locals = NoNames, !.labels = NoNames], [i \in DOMAIN sig.args |-> i])
ParseProc(p, vis) ==
  Then(ParseNamedSignature(p, TRUE), LAMBDA sig :
    Then(OpenProc(sig, sig.val, vis), LAMBDA open :
      Then(ParseBody(Expect(DeclareArgs(open, sig.val), "{"), Len(p.toks)), LAMBDA body :
        Expect(Built(body, FinishProc(body.prog, body.prog.curProc)), "}"))))

ParseTyped(p) ==
  Then(ParseId(p), LAMBDA id : Then(ParseType(Expect(id, ":")), LAMBDA t : With(t, [name |-> id.val, type |-> t.val])))
ParseTypeDef(p) ==
  Then(ParseTyped(p), LAMBDA t : DeclareGlobal(t, t.val.name, Decl("Type", 0, t.val.type)))

ParseData(p, vis, readOnly) ==
  Then(ParseTyped(p), LAMBDA t :
    LET data == LastData(t) + 1
    IN Given(Built(t, MakeData(t.prog, t.val.name, t.val.type, vis, readOnly)), LAMBDA made :
         Then(DeclareGlobal(IF vis = "Local" THEN made ELSE Built(made, ExportData(made.prog, data)),
                            t.val.name, Decl("Data", data, t.val.type)), LAMBDA d :
           IF On(d, "Newline") THEN d ELSE ParseValue(d, DataRef(d.prog, data)))))

(* parseExternProc, parseExternData: known to the run by name.               *)
DeclareExtern(p, isProc, name, type) ==
  Then(Built(p, MakeExtern(p.prog, isProc, name, type)), LAMBDA made :
    DeclareGlobal(made, name, Decl("Extern", Len(made.prog.externs), type)))
ParseExtern(p) ==
  CASE On(p, "proc") -> Then(ParseNamedSignature(Step(p), FALSE), LAMBDA s :
                          DeclareExtern(s, TRUE, s.val.name, SignatureType(s.val, TRUE)))
    [] On(p, "data") -> Then(ParseTyped(Step(p)), LAMBDA t : DeclareExtern(t, FALSE, t.val.name, t.val.type))
    [] OTHER -> Fail(p)

ParseDefinition(p, vis) ==
  CASE On(p, "proc") -> ParseProc(Step(p), vis)
    [] OnAny(p, {"const", "data"}) -> ParseData(Step(p), vis, On(p, "const"))
    [] OTHER -> Fail(p)

RECURSIVE TopLevel(_, _), ParseFile(_, _, _)
(* nkir_compileFile: the tokens of the file, read with no procedure of its   *)
(* own; then where it was.                                                   *)
Include(p, files) ==
  IF ~On(p, "String") THEN Fail(p)
  ELSE IF Here(p) \notin DOMAIN files THEN Fail(Step(p))
  ELSE [ParseFile([p EXCEPT !.toks = files[Here(p)], !.pos = 1, !.locals = NoNames], files, Len(files[Here(p)]))
          EXCEPT !.toks = p.toks, !.pos = p.pos + 1, !.locals = p.locals, !.labels = p.labels]
VisOf(p) == IF On(p, "pub") THEN "Default" ELSE IF On(p, "local") THEN "Local" ELSE "Hidden"
TopLevel(p, files) ==
  CASE On(p, "extern") -> ParseExtern(IF On(Step(p), "String") THEN Step(Step(p)) ELSE Step(p))
    [] On(p, "type") -> ParseTypeDef(Step(p))
    [] On(p, "include") -> Include(Step(p), files)
    [] OTHER -> ParseDefinition(IF OnAny(p, {"pub", "local"}) THEN Step(p) ELSE p, VisOf(p))
ParseFile(p, files, lines) ==
  IF p.err \/ On(p, "Eof") THEN p
  ELSE IF lines = 1 THEN SkipNewlines(Expect(TopLevel(SkipNewlines(p), files), "Newline"))
  ELSE Given(ParseFile(p, files, lines \div 2), LAMBDA half : ParseFile(half, files, lines - lines \div 2))

(* nkir_compile, before the program is run or written.                       *)
Compile(toks, files) ==
  ParseFile([toks |-> toks, pos |-> 1, val |-> <<>>, err |-> FALSE, indir |-> 0, prog |-> NewProgram, entry |-> 0,
             decls |-> NoNames, locals |-> NoNames, labels |-> NoNames], files, Len(toks))
=============================================================================
