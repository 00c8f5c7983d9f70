------------------------------ MODULE IRReader ------------------------------
(***************************************************************************)
(* The reader of the textual IR (nkl_core2/src/ir_parser.c), a recursive   *)
(* descent over the tokens that defines each symbol in the module as soon  *)
(* as it is read.  Files are the texts nickl_getText answers; an included  *)
(* file is read where it is named, by a reader that keeps the type names.  *)
(***************************************************************************)
EXTENDS IRText, TokenReader

(* defineSymbol: nickl_defineSymbol does not refuse (the TODO at line 367).  *)
(* Mutant: a symbol replaces the one that has its name.                      *)
DefineReplacing(p, sym) ==
  IF p.err THEN p ELSE [p EXCEPT !.syms = Append(SelectSeq(@, LAMBDA s : s.name # sym.name), sym)]
Define(p, sym) == IF p.err THEN p ELSE [p EXCEPT !.syms = Append(@, sym)]

-----------------------------------------------------------------------------
Alias(p, name) == SelectSeq(p.types, LAMBDA t : t.name = name)

RECURSIVE ParseType(_), ParseElems(_, _)
ParseType(p) ==
  IF p.err THEN p
  ELSE IF OnAny(p, DOMAIN Widths) THEN Step(With(p, Num(p.toks[p.pos].id)))
  ELSE IF On(p, "void") THEN Step(With(p, Void))
  ELSE IF On(p, "{") THEN ParseElems(Step(p), <<>>)
  ELSE IF On(p, "Id") /\ Alias(p, Here(p)) # <<>> THEN Step(With(p, Alias(p, Here(p))[1].type))
  ELSE Fail(p)

ParseCount(p) == IF On(p, "[") THEN Expect(Take(Step(p), {"Int"}), "]") ELSE With(p, 1)
ParseElems(p, elems) ==
  IF p.err THEN p
  ELSE IF OnAny(p, {"}", "Eof"}) THEN With(Expect(p, "}"), Aggregate(elems))
  ELSE Then(ParseCount(p), LAMBDA n : Then(ParseType(n), LAMBDA t :
         ParseElems(IF On(t, "}") THEN t ELSE Expect(t, ","), AddElem(elems, t.val, n.val))))

-----------------------------------------------------------------------------
Strings == {"String", "EscapedString"}
Names == {"Id", "$"}
Ints == {"Int", "IntHex"}

(* parseString: the size leaves out the zero at the end, which is added to an*)
(* escaped string only if it is not there.                                   *)
ParseString(p) ==
  LET bytes == Unescape(Here(p))
  IN IF p.err THEN p
     ELSE IF On(p, "String") THEN Step(With(p, Here(p)))
     ELSE IF On(p, "EscapedString") THEN Step(With(p, IF Last(bytes) = 0 THEN Front(bytes) ELSE bytes))
     ELSE Fail(p)

ParseId(p) == Take(p, Names)

SetMem(p, base, bytes) ==
  IF p.err THEN p
  ELSE [p EXCEPT !.mem = [o \in DOMAIN @ |-> IF o - base + 1 \in DOMAIN bytes THEN bytes[o - base + 1] ELSE @[o]]]

ParseNumber(p, type) == Take(p, IF type.num = "f64" THEN Ints \cup {"Float"} ELSE Ints)

(* parseConst writes into p.mem and p.relocs.  After a string it goes to the *)
(* next element without looking for a comma.                                 *)
RECURSIVE ParseConst(_, _, _), ParseParts(_, _, _, _), ParseItem(_, _, _), ParseItems(_, _, _, _)
ParseConst(p, base, type) ==
  IF p.err THEN p
  ELSE IF IsNum(type) THEN Then(ParseNumber(p, type), LAMBDA n : SetMem(n, base, <<n.val>>))
  ELSE Expect(ParseParts(Expect(p, "{"), base, type, 1), "}")

(* A comma between elements, one is allowed after the last.                  *)
Comma(p, isLast) == IF isLast THEN Accept(p, ",") ELSE Expect(p, ",")
Closed(p, many) == IF many THEN Expect(p, "]") ELSE p

ParseParts(p, base, type, e) ==
  LET elem == type.elems[e]
      many == elem.count > 1
  IN IF p.err \/ e > Len(type.elems) THEN p
     ELSE ParseParts(IF IsBytes(elem) /\ OnAny(p, Strings)
                     THEN Then(ParseString(p), LAMBDA str :
                            IF Len(str.val) + 1 # elem.count THEN Fail(p)
                            ELSE SetMem(str, base + elem.offset, Append(str.val, 0)))
                     ELSE Comma(Closed(ParseItems(IF many THEN Expect(p, "[") ELSE p, base + elem.offset, elem, 1), many),
                                e = Len(type.elems)),
                     base, type, e + 1)

ParseItem(p, offset, elem) ==
  IF ~OnAny(p, Names) THEN ParseConst(p, offset, elem.type)
  ELSE IF elem.type.size # Ptr.size THEN Fail(p)
  ELSE Then(ParseId(p), LAMBDA name : [name EXCEPT !.relocs = Append(@, [sym |-> name.val, offset |-> offset])])
ParseItems(p, offset, elem, i) ==
  IF p.err \/ i > elem.count THEN p
  ELSE Then(ParseItem(p, offset, elem), LAMBDA item :
         ParseItems(IF elem.count = 1 THEN item ELSE Comma(item, i = elem.count), offset + elem.type.size, elem, i + 1))

(* A constant of a type in memory of its own.                                *)
Fresh(p, type) == [p EXCEPT !.mem = IF type.size = 0 THEN <<>> ELSE [o \in 0..type.size - 1 |-> 0], !.relocs = <<>>]

-----------------------------------------------------------------------------
Data(name, vis, readOnly, type, mem, relocs) ==
  [kind |-> "Data", name |-> name, vis |-> vis, readOnly |-> readOnly, type |-> type, mem |-> mem, relocs |-> relocs]

(* parseLocal.                                                               *)
ParseLocal(p, typeOpt, toWrite) ==
  LET name == Here(p)
      params == SelectSeq(p.params, LAMBDA q : q.name = name)
      isRet == p.ret.name = name
      isParam == isRet \/ params # <<>>
      type == IF isRet THEN Ptr
              ELSE IF params # <<>> /\ typeOpt = NoType THEN IF IsNum(params[1].type) THEN params[1].type ELSE Ptr
              ELSE typeOpt
  IN IF p.err THEN p
     ELSE IF type = NoType \/ (isParam /\ toWrite) THEN Fail(p)
     ELSE Step(With(p, Ref(IF isParam THEN "Param" ELSE "Local", name, type)))

(* The type in front of a reference, or another one.                         *)
TypeOr(p, typeOpt) == IF On(p, ":") THEN ParseType(Step(p)) ELSE With(p, typeOpt)

ParseDst(p, typeOpt, allowNull) ==
  Then(TypeOr(p, typeOpt), LAMBDA t :
    IF On(t, "Newline") /\ allowNull THEN IF t.val = NoType THEN Fail(t) ELSE With(t, Ref("Null", <<>>, t.val))
    ELSE IF On(t, "%") THEN ParseLocal(t, t.val, TRUE) ELSE Fail(t))

GuessType(p, type) ==
  IF type # NoType THEN type
  ELSE IF On(p, "Int") THEN Ptr ELSE IF On(p, "IntHex") THEN Num("u64")
  ELSE IF On(p, "Float") THEN Num("f64") ELSE NoType

(* A constant of a known type, or a string, whose type is its own.           *)
Constant(type, mem, relocs) == [type |-> type, mem |-> mem, relocs |-> relocs]
StringConstant(bytes) == Constant(StringType(Len(bytes)), [i \in 0..Len(bytes) |-> Append(bytes, 0)[i + 1]], <<>>)
ParseConstant(p, type) ==
  IF p.err THEN p
  ELSE IF type # NoType THEN Then(ParseConst(Fresh(p, type), 0, type), LAMBDA c : With(c, Constant(type, c.mem, c.relocs)))
  ELSE IF OnAny(p, Strings) THEN Then(ParseString(p), LAMBDA str : With(str, StringConstant(str.val)))
  ELSE Fail(p)

(* parseRef: a constant that is not a number becomes a symbol of its own.    *)
DefineAnonymous(p, const, name) ==
  [With(Define(p, Data(name, "Local", TRUE, const.type, const.mem, const.relocs)), Ref("Global", name, Ptr)) EXCEPT !.atoms = @ + 1]
RefToConstant(p, const) ==
  IF IsNum(const.type) THEN With(p, Ref("Imm", const.mem[0], const.type)) ELSE DefineAnonymous(p, const, <<"", p.atoms>>)
RefOfType(p, type) ==
  IF On(p, "%") THEN ParseLocal(p, type, FALSE)
  ELSE IF OnAny(p, Names) THEN Then(ParseId(p), LAMBDA id : With(id, Ref("Global", id.val, Ptr)))
  ELSE Then(ParseConstant(p, type), LAMBDA const : RefToConstant(const, const.val))

ParseRef(p, typeOpt) ==
  IF p.err THEN p
  ELSE IF On(p, "...") THEN Step(With(p, Ref("Variadic", <<>>, NoType)))
  ELSE Then(TypeOr(p, typeOpt), LAMBDA t : RefOfType(t, GuessType(t, t.val)))

RECURSIVE ParseRefs(_, _)
ParseRefs(p, refs) ==
  IF p.err THEN p
  ELSE IF OnAny(p, {")", "Eof"}) THEN With(Expect(p, ")"), refs)
  ELSE Then(ParseRef(p, NoType), LAMBDA r : ParseRefs(Accept(r, ","), Append(refs, r.val)))

(* parseLabel.                                                               *)
ParseLabel(p, allowRel) ==
  IF p.err THEN p
  ELSE IF On(p, "@") THEN Step(With(p, Arg("Label", Here(p))))
  ELSE IF allowRel /\ OnAny(p, {"@+", "@-"})
       THEN Then(Take(Step(p), {"Int"}), LAMBDA n : With(n, Arg("Rel", IF On(p, "@+") THEN n.val ELSE -n.val)))
  ELSE Fail(p)

-----------------------------------------------------------------------------
(* parseInstr: what an instruction reads, piece by piece.  A piece that is   *)
(* not a token goes into an argument; hint says which type it has if it does *)
(* not say.                                                                  *)
Piece(what, into, hint) == [what |-> what, into |-> into, hint |-> hint]
Token(id) == Piece(id, 0, "none")
Src(hint) == Piece("ref", 2, hint)
Dst(hint) == Piece("dst", 1, hint)
Unary(hint) == <<Src(hint), Dst("none")>>
Binary(hint) == <<Src("none"), Token(","), Piece("ref", 3, "lhs"), Dst(hint)>>
JumpIf == <<Src("none"), Token(","), Piece("label", 3, "none")>>

UnaryCodes == {"mov", "cast"}
BinaryCodes == {"add", "sub", "div", "and", "rsh"}
Pieces(code) ==
  CASE code = "label" -> <<Piece("ownLabel", 2, "none")>>
    [] code = "nop" -> <<>>
    [] code = "ret" -> <<Piece("refOrNone", 2, "ret")>>
    [] code = "jmp" -> <<Piece("label", 2, "none")>>
    [] code \in {"jmpz", "jmpnz"} -> JumpIf
    [] code = "call" -> <<Src("ptr"), Token(","), Token("("), Piece("refs", 3, "none"), Piece("dstOrNull", 1, "none")>>
    [] code = "store" -> <<Src("none"), Token("->"), Piece("ref", 1, "ptr")>>
    [] code = "alloc" -> <<Token(":"), Piece("type", 2, "none"), Dst("ptr")>>
    [] code = "load" -> Unary("ptr")
    [] code \in UnaryCodes -> Unary("none")
    [] code \in BinaryCodes -> Binary("lhs")
    [] code \in Comparisons -> Binary("i8")
    [] code = "comment" -> <<Piece("string", 2, "none")>>
Codes == UnaryCodes \cup BinaryCodes
         \cup {"nop", "ret", "jmp", "jmpz", "jmpnz", "call", "store", "alloc", "load", "comment"}

Hint(p, instr, hint) ==
  CASE hint = "none" -> NoType
    [] hint = "ptr" -> Ptr
    [] hint = "i8" -> Num("i8")
    [] hint = "ret" -> p.ret.type
    [] hint = "lhs" -> instr.arg[2].v.type

Kind(what) == CASE what \in {"ref", "refOrNone", "dst", "dstOrNull"} -> "Ref" [] what = "refs" -> "Refs"
                [] what = "type" -> "Type" [] what = "string" -> "String" [] OTHER -> "Label"
(* A piece with its argument.                                                *)
ParsePiece(p, what, type) ==
  CASE what \in {"label", "ownLabel"} -> ParseLabel(p, what = "label")
    [] what = "dstOrNull" /\ ~On(p, "->") -> With(p, Ref("Null", <<>>, Void))
    [] what = "refOrNone" /\ On(p, "Newline") -> With(p, NoRef)
    [] what = "dst" \/ (what = "dstOrNull" /\ On(p, "->")) -> ParseDst(Expect(p, "->"), type, what = "dstOrNull")
    [] what = "ref" \/ (what = "refOrNone" /\ ~On(p, "Newline")) -> ParseRef(p, type)
    [] what = "refs" -> ParseRefs(p, <<>>)
    [] what = "type" -> ParseType(p)
    [] what = "string" -> ParseString(p)

RECURSIVE ParsePieces(_, _, _)
ParsePieces(p, pieces, instr) ==
  IF p.err \/ pieces = <<>> THEN With(p, instr)
  ELSE IF pieces[1].into = 0 THEN ParsePieces(Expect(p, pieces[1].what), Tail(pieces), instr)
  ELSE Then(ParsePiece(p, pieces[1].what, Hint(p, instr, pieces[1].hint)), LAMBDA a :
         ParsePieces(a, Tail(pieces),
                     [instr EXCEPT !.arg[pieces[1].into] = IF Kind(pieces[1].what) = "Label" THEN a.val
                                                           ELSE Arg(Kind(pieces[1].what), a.val)]))

(* The code of nop is zero, and so is what a cmp without a comparison leaves.*)
CodeAfterCmp(p) == IF OnAny(p, Comparisons) THEN Step(With(p, p.toks[p.pos].id)) ELSE With(p, "nop")
ParseCode(p) ==
  CASE On(p, "@") -> With(p, "label")
    [] On(p, "cmp") -> CodeAfterCmp(Step(p))
    [] OnAny(p, Codes) -> Step(With(p, p.toks[p.pos].id))
    [] OTHER -> Fail(p)
ParseOp(p) == Then(ParseCode(p), LAMBDA c : ParsePieces(c, Pieces(c.val), Instr(c.val, NoArg, NoArg, NoArg)))

(* A number and a bar in front of an instruction are what the printer puts   *)
(* there.                                                                    *)
ParseInstr(p) ==
  Then(p, LAMBDA start : SkipNewlines(Expect(ParseOp(IF On(p, "Int") THEN Expect(Step(p), "|") ELSE p), "Newline")))

RECURSIVE ParseInstrs(_, _)
ParseInstrs(p, instrs) ==
  IF p.err THEN p
  ELSE IF OnAny(p, {"}", "Eof"}) THEN With(Expect(p, "}"), instrs)
  ELSE Then(ParseInstr(p), LAMBDA i : ParseInstrs(i, Append(instrs, i.val)))

-----------------------------------------------------------------------------
RECURSIVE ParseParams(_, _)
ParseParams(p, params) ==
  IF p.err THEN p
  ELSE IF OnAny(p, {")", "Eof"}) THEN With(Expect(p, ")"), params)
  ELSE Then(ParseType(Expect(p, ":")), LAMBDA t :
         Then(Take(t, {"%"}), LAMBDA name :
           ParseParams(Accept(name, ","), Append(params, [name |-> name.val, type |-> t.val]))))

ParseBody(p) ==
  Then(SkipNewlines(Expect(Expect(p, "{"), "Newline")), LAMBDA open : ParseInstrs(open, <<>>))
ParseResult(p) ==
  Then(IF On(p, ":") THEN ParseType(Step(p)) ELSE With(p, Void), LAMBDA t :
    Then(IF t.val.size > Ptr.size THEN Take(t, {"%"}) ELSE With(t, <<>>), LAMBDA name :
      [name EXCEPT !.ret = [name |-> name.val, type |-> t.val]]))
ParseProc(p, vis) ==
  Then(ParseId(p), LAMBDA name :
    Then(ParseParams(Expect(name, "("), <<>>), LAMBDA params :
      Then(ParseResult(params), LAMBDA ret :
        Then(ParseBody([ret EXCEPT !.params = params.val]), LAMBDA body :
          Define(body, [kind |-> "Proc", name |-> name.val, vis |-> vis, params |-> params.val,
                        ret |-> body.ret, instrs |-> body.val])))))

(* Data without a value has no memory.                                       *)
ValueOfData(p, type) ==
  IF On(p, "Newline") THEN IF type = NoType THEN Fail(p) ELSE With(p, Constant(type, <<>>, <<>>)) ELSE ParseConstant(p, type)
ParseData(p, vis, readOnly) ==
  Then(ParseId(p), LAMBDA name :
    Then(TypeOr(name, NoType), LAMBDA t :
      Then(ValueOfData(t, GuessType(t, t.val)), LAMBDA const :
        Define(const, Data(name.val, vis, readOnly, const.val.type, const.val.mem, const.val.relocs)))))

RECURSIVE ParseParamTypes(_, _), ParamTypesAfter(_, _)
ParseParamTypes(p, types) ==
  IF p.err THEN p
  ELSE IF OnAny(p, {")", "Eof"}) THEN With(Expect(p, ")"), [types |-> types, variadic |-> FALSE])
  ELSE Then(ParseType(Expect(p, ":")), LAMBDA t : ParamTypesAfter(Accept(t, ","), Append(types, t.val)))
ParamTypesAfter(p, types) ==
  IF On(p, "...") THEN With(Expect(Step(p), ")"), [types |-> types, variadic |-> TRUE]) ELSE ParseParamTypes(p, types)

(* parseExtern: a library is a string without escapes; what is neither a     *)
(* procedure nor data defines nothing here.                                  *)
Extern(name, lib, isProc, params, type) ==
  [kind |-> "Extern", name |-> name, vis |-> "Unknown", lib |-> lib, isProc |-> isProc,
   params |-> params.types, variadic |-> params.variadic, type |-> type]
ParseExternSymbol(p, lib, isProc) ==
  Then(ParseId(p), LAMBDA name :
    Then(IF isProc THEN ParseParamTypes(Expect(name, "("), <<>>) ELSE With(name, [types |-> <<>>, variadic |-> FALSE]), LAMBDA params :
      Then(ParseType(Expect(params, ":")), LAMBDA type :
        Define(type, Extern(name.val, lib, isProc, params.val, type.val)))))
ParseExtern(p) ==
  Then(IF On(p, "String") THEN ParseString(p) ELSE With(p, <<>>), LAMBDA lib :
    IF OnAny(lib, {"proc", "data"}) THEN ParseExternSymbol(Step(lib), lib.val, On(lib, "proc")) ELSE lib)

ParseTypeName(p) ==
  Then(Take(p, {"Id"}), LAMBDA name :
    Then(ParseType(Expect(name, ":")), LAMBDA t :
      [t EXCEPT !.types = Append(@, [name |-> name.val, type |-> t.val])]))

(* A visibility and what it is the visibility of.                            *)
DefinitionOf(p, vis) ==
  CASE On(p, "proc") -> ParseProc(Step(p), vis)
    [] OnAny(p, {"const", "data"}) -> ParseData(Step(p), vis, On(p, "const"))
    [] OTHER -> Fail(p)
Visibility(p) == IF On(p, "pub") THEN "Default" ELSE IF On(p, "local") THEN "Local" ELSE "Hidden"
ParseDefinition(p) == DefinitionOf(IF OnAny(p, {"pub", "local"}) THEN Step(p) ELSE p, Visibility(p))

RECURSIVE SymbolAt(_, _), ParseSymbol(_, _), Parse(_, _), ParseInclude(_, _)
SymbolAt(p, files) ==
  CASE On(p, "extern") -> ParseExtern(Step(p))
    [] On(p, "type") -> ParseTypeName(Step(p))
    [] On(p, "include") -> ParseInclude(Step(p), files)
    [] OTHER -> ParseDefinition(p)
ParseSymbol(p, files) == Then(SkipNewlines(p), LAMBDA s : SkipNewlines(Expect(SymbolAt(s, files), "Newline")))

Parse(p, files) ==
  Then(SkipNewlines(p), LAMBDA q : IF On(q, "Eof") THEN q ELSE Parse(ParseSymbol(q, files), files))

(* pushSource, parse, popSource: the tokens of the file, then where it was.  *)
(* Mutant: the file's type names end with it.                                *)
PushSource(p, text) ==
  IF p.err THEN p ELSE IF ~Lex(text).ok THEN Fail(p) ELSE [p EXCEPT !.toks = Lex(text).tokens, !.pos = 1]
PopSourceScoped(read, p) == [read EXCEPT !.toks = p.toks, !.pos = p.pos, !.types = p.types]
PopSource(read, p) == [read EXCEPT !.toks = p.toks, !.pos = p.pos]
ParseInclude(p, files) ==
  Then(ParseString(p), LAMBDA name :
    IF name.val \notin DOMAIN files THEN Fail(name)
    ELSE PopSource(Parse(PushSource(name, files[name.val]), files), name))

(* nkl_ir_parse.                                                             *)
Reader == [toks |-> <<>>, pos |-> 1, val |-> <<>>, err |-> FALSE, mem |-> <<>>, relocs |-> <<>>,
           params |-> <<>>, ret |-> [name |-> <<>>, type |-> Void], types |-> <<>>, syms |-> <<>>, atoms |-> 1]
Read(text, files) == LET p == PushSource(Reader, text) IN IF p.err THEN p ELSE Parse(p, files)
=============================================================================
