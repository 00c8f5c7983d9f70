------------------------------- MODULE IRText -------------------------------
(***************************************************************************)
(* The text of the intermediate representation: the lexer and the reader   *)
(* of nkl_core2 (lexer.c, ir_parser.c) and the printer of nkb2 (ir.c,      *)
(* types.c, common.c).                                                     *)
(*                                                                         *)
(* A text is a sequence of lexemes [id, v].  Characters matter in strings  *)
(* only, whose content is a sequence of character codes.  A name is        *)
(* <<base>> or <<base, n, ...>>, the base followed by numbers; <<"", n>> is*)
(* the n-th atom without a string.  The reader is one record, p, that every*)
(* function takes and returns, with its result in p.val; after an error    *)
(* (p.err) nothing changes any more, which is what TRY does.               *)
(***************************************************************************)
EXTENDS Integers, Sequences, SequencesExt

Tok(id) == [id |-> id, v |-> <<>>]
Val(id, v) == [id |-> id, v |-> v]
Toks(ids) == [i \in DOMAIN ids |-> Tok(ids[i])]

-----------------------------------------------------------------------------
(* Types.                                                                    *)
Widths == [i8 |-> 1, i32 |-> 4, i64 |-> 8, u64 |-> 8, f64 |-> 8]
Num(n) == [num |-> n, size |-> Widths[n], align |-> Widths[n], elems |-> <<>>]
Void == [num |-> "", size |-> 0, align |-> 0, elems |-> <<>>]
NoType == [num |-> "none", size |-> 0, align |-> 0, elems |-> <<>>]
Ptr == Num("i64")
IsNum(type) == type.num \in DOMAIN Widths
IsBytes(elem) == elem.type.num = "i8"

Larger(a, b) == IF a < b THEN b ELSE a
RoundUpSafe(n, to) == IF to = 0 THEN n ELSE ((n + to - 1) \div to) * to

(* parseType, an element of an aggregate: offsets follow each other.         *)
NextOffset(elems) ==
  IF elems = <<>> THEN 0 ELSE Last(elems).offset + Last(elems).type.size * Last(elems).count
AddElem(elems, type, count) ==
  Append(elems, [type |-> type, count |-> count, offset |-> RoundUpSafe(NextOffset(elems), type.align)])
Aggregate(elems) ==
  LET align == FoldLeft(LAMBDA a, e : Larger(a, e.type.align), 1, elems)
  IN [num |-> "", size |-> RoundUpSafe(NextOffset(elems), align), align |-> align, elems |-> elems]
StringType(size) == Aggregate(AddElem(<<>>, Num("i8"), size + 1))

-----------------------------------------------------------------------------
(* Strings: nks_escape, the lexer's strings, nks_unescape.                   *)
Escapes == {<<7, 97>>, <<8, 98>>, <<12, 102>>, <<10, 110>>, <<13, 114>>, <<9, 116>>, <<11, 118>>, <<0, 48>>, <<34, 34>>, <<92, 92>>}
EscapeByte(b) ==
  IF \E e \in Escapes : e[1] = b THEN <<92, (CHOOSE e \in Escapes : e[1] = b)[2]>>
  ELSE IF b \in 32..126 THEN <<b>> ELSE <<92, 120, b>>
Escape(bytes) == FlattenSeq([i \in DOMAIN bytes |-> EscapeByte(bytes[i])])

(* A string of the text ends in an error token at the end of its line and at *)
(* an escape the lexer does not know; nks_unescape knows more of them, but is*)
(* not asked.                                                                *)
LexerEscapes == {110, 116, 48, 92, 34, 10}
LexString(codes) ==
  LET from[i \in 1..Len(codes) + 2] ==
        IF i > Len(codes) THEN "String"
        ELSE IF codes[i] \in {0, 10} THEN "Error"
        ELSE IF codes[i] # 92 THEN from[i + 1]
        ELSE IF i < Len(codes) /\ codes[i + 1] \in LexerEscapes /\ from[i + 2] # "Error"
             THEN "EscapedString" ELSE "Error"
  IN from[1]

Unescape(codes) ==
  LET from[i \in 1..Len(codes) + 2] ==
        IF i > Len(codes) THEN <<>>
        ELSE IF codes[i] # 92 \/ i = Len(codes) THEN <<codes[i]>> \o from[i + 1]
        ELSE <<IF \E e \in Escapes : e[2] = codes[i + 1] THEN (CHOOSE e \in Escapes : e[2] = codes[i + 1])[1]
               ELSE codes[i + 1]>> \o from[i + 2]
  IN from[1]

(* nkl_lex: comments go, an error ends the tokens.                           *)
Lexed(lexeme) == IF lexeme.id = "Quoted" THEN Val(LexString(lexeme.v), lexeme.v) ELSE lexeme
Lex(text) == LET tokens == SelectSeq([i \in DOMAIN text |-> Lexed(text[i])], LAMBDA t : t.id # "Comment")
             IN [ok |-> \A i \in DOMAIN tokens : tokens[i].id # "Error", tokens |-> Append(tokens, Tok("Eof"))]

-----------------------------------------------------------------------------
(* References, arguments and instructions (nkb2/src/ir.c).                   *)
Ref(kind, v, type) == [kind |-> kind, v |-> v, type |-> type]
NoRef == Ref("None", <<>>, NoType)
Arg(k, v) == [k |-> k, v |-> v]
NoArg == Arg("None", <<>>)
Instr(code, a0, a1, a2) == [code |-> code, arg |-> <<a0, a1, a2>>]

(* common.c: labels, how many of the same name came before, searches.        *)
Labels(instrs) ==
  LET at == SelectSeq([i \in DOMAIN instrs |-> i], LAMBDA i : instrs[i].code = "label")
  IN [i \in DOMAIN at |-> [name |-> instrs[at[i]].arg[2].v, idx |-> at[i]]]
CountBefore(labels, k) == Len(SelectSeq(SubSeq(labels, 1, k - 1), LAMBDA l : l.name = labels[k].name))
FirstOf(found) == IF found = {} THEN 0 ELSE CHOOSE k \in found : \A j \in found : k <= j
FindByName(labels, name) == FirstOf({k \in DOMAIN labels : labels[k].name = name})
FindByIdx(labels, idx) == FirstOf({k \in DOMAIN labels : labels[k].idx = idx})

(* nkir_convertToPic: a jump to a label becomes one by a distance.           *)
Jumps == {"jmp", "jmpz", "jmpnz"}
Distance(labels, idx, arg) ==
  LET k == FindByName(labels, arg.v)
  IN IF arg.k = "Label" /\ k # 0 THEN Arg("Rel", labels[k].idx - idx) ELSE arg
ConvertToPic(instrs) ==
  [i \in DOMAIN instrs |->
     IF instrs[i].code \in Jumps
     THEN [instrs[i] EXCEPT !.arg[2] = Distance(Labels(instrs), i, @), !.arg[3] = Distance(Labels(instrs), i, @)]
     ELSE instrs[i]]

-----------------------------------------------------------------------------
(* The printer.                                                              *)
Commas(parts) == FlattenSeq([i \in DOMAIN parts |-> IF i = 1 THEN parts[i] ELSE <<Tok(",")>> \o parts[i]])
Enclosed(open, parts, close) == <<Tok(open)>> \o Commas(parts) \o <<Tok(close)>>

PrintName(name) == IF name[1] = "" THEN <<"__nkl_anonymous_">> \o Tail(name) ELSE name

RECURSIVE PrintType(_)
PrintType(type) ==
  IF IsNum(type) THEN <<Tok(type.num)>>
  ELSE IF type.elems = <<>> THEN <<Tok("void")>>
  ELSE Enclosed("{", [i \in DOMAIN type.elems |->
         (IF type.elems[i].count > 1 THEN <<Tok("["), Val("Int", type.elems[i].count), Tok("]")>> ELSE <<>>)
         \o PrintType(type.elems[i].type)], "}")

(* inspectVal: a byte array is a string, a number with a relocation its name.*)
RECURSIVE PrintVal(_, _, _, _)
PrintVal(mem, base, relocs, type) ==
  LET at(offset) == SelectSeq(relocs, LAMBDA r : r.offset = offset)
      item(elem, i) ==
        LET offset == base + elem.offset + i * elem.type.size
        IN IF IsNum(elem.type) /\ at(offset) # <<>> THEN <<Val("$", at(offset)[1].sym)>>
           ELSE PrintVal(mem, offset, relocs, elem.type)
      many(elem) == Commas([i \in 1..elem.count |-> item(elem, i - 1)])
      part(elem) == IF IsBytes(elem)
                    THEN <<Val("Quoted", Escape([i \in 1..elem.count |-> mem[base + elem.offset + i - 1]]))>>
                    ELSE IF elem.count > 1 THEN <<Tok("[")>> \o many(elem) \o <<Tok("]")>> ELSE many(elem)
  IN IF IsNum(type) THEN <<Val(IF type.num = "f64" THEN "Float" ELSE "Int", mem[base])>>
     ELSE <<Tok("{")>> \o Commas([i \in DOMAIN type.elems |-> part(type.elems[i])]) \o <<Tok("}")>>

PrintRefValue(ref) ==
  CASE ref.kind \in {"Local", "Param"} -> <<Val("%", ref.v)>>
    [] ref.kind = "Global" -> <<Val("$", PrintName(ref.v))>>
    [] ref.kind = "Imm" -> PrintVal([i \in {0} |-> ref.v], 0, <<>>, ref.type)
    [] OTHER -> <<>>
PrintRef(ref) ==
  CASE ref.kind = "None" -> <<>>
    [] ref.kind = "Variadic" -> <<Tok("...")>>
    [] OTHER -> <<Tok(":")>> \o PrintType(ref.type) \o PrintRefValue(ref)

(* inspectLabel.  Mutant: the number is left out.                            *)
LabelTextPlain(labels, k) == labels[k].name
LabelText(labels, k) ==
  IF CountBefore(labels, k) = 0 THEN labels[k].name ELSE Append(labels[k].name, CountBefore(labels, k))

(* A label prints as itself, a reference as the first label of its name, a   *)
(* distance as the label it leads to, if there is one.                       *)
LabelOfArg(instr, idx, labels, arg) ==
  IF arg.k = "Rel" THEN FindByIdx(labels, idx + arg.v)
  ELSE IF instr.code = "label" THEN FindByIdx(labels, idx) ELSE FindByName(labels, arg.v)
PrintLabel(labels, k, arg) ==
  CASE k # 0 -> <<Val("@", LabelText(labels, k))>>
    [] k = 0 /\ arg.k = "Label" -> <<Val("@", arg.v)>>
    [] k = 0 /\ arg.k = "Rel" -> IF arg.v >= 0 THEN <<Tok("@+"), Val("Int", arg.v)>> ELSE <<Tok("@-"), Val("Int", -arg.v)>>

Comparisons == {"eq", "lt"}
Opcode(code) == IF code \in Comparisons THEN Toks(<<"cmp", code>>) ELSE <<Tok(code)>>

PrintRefs(refs) == [i \in DOMAIN refs |-> PrintRef(refs[i])]
Before(n) == CASE n = 1 -> <<Tok("->")>> [] n = 2 -> <<>> [] n = 3 -> <<Tok(",")>>
PrintArg(instr, idx, labels, arg) ==
  CASE arg.k = "Ref" -> PrintRef(arg.v)
    [] arg.k = "Refs" -> Enclosed("(", PrintRefs(arg.v), ")")
    [] arg.k = "Type" -> <<Tok(":")>> \o PrintType(arg.v)
    [] OTHER -> PrintLabel(labels, LabelOfArg(instr, idx, labels, arg), arg)
PrintArgs(instr, idx, labels, order) ==
  FlattenSeq([i \in DOMAIN order |-> IF instr.arg[order[i]].k = "None" THEN <<>>
                                     ELSE Before(order[i]) \o PrintArg(instr, idx, labels, instr.arg[order[i]])])

PrintInstr(instr, idx, labels) ==
  Append(CASE instr.code = "comment" -> <<Val("Comment", instr.arg[2].v)>>
           [] instr.code = "label" -> PrintArgs(instr, idx, labels, <<2>>)
           [] OTHER -> <<Val("Int", idx), Tok("|")>> \o Opcode(instr.code) \o PrintArgs(instr, idx, labels, <<2, 3, 1>>),
         Tok("Newline"))

PrintParam(param) == <<Tok(":")>> \o PrintType(param.type) \o <<Val("%", param.name)>>
PrintVis(vis) == CASE vis = "Default" -> <<Tok("pub")>> [] vis = "Local" -> <<Tok("local")>> [] OTHER -> <<>>

PrintInstrs(instrs, labels) == FlattenSeq([i \in DOMAIN instrs |-> PrintInstr(instrs[i], i, labels)])
PrintProc(sym) ==
  <<Tok("proc"), Val("$", PrintName(sym.name))>>
  \o Enclosed("(", [i \in DOMAIN sym.params |-> PrintParam(sym.params[i])], ")") \o <<Tok(":")>> \o PrintType(sym.ret.type)
  \o (IF sym.ret.name # <<>> THEN <<Val("%", sym.ret.name)>> ELSE <<>>)
  \o Toks(<<"{", "Newline">>) \o PrintInstrs(sym.instrs, Labels(sym.instrs)) \o <<Tok("}")>>

PrintData(sym) ==
  <<Tok(IF sym.readOnly THEN "const" ELSE "data"), Val("$", PrintName(sym.name)), Tok(":")>> \o PrintType(sym.type)
  \o (IF sym.mem # <<>> THEN PrintVal(sym.mem, 0, sym.relocs, sym.type) ELSE <<>>)

PrintExtern(sym) ==
  <<Tok("extern")>> \o (IF sym.lib # <<>> THEN <<Val("Quoted", Escape(sym.lib))>> ELSE <<>>)
  \o (IF sym.isProc
      THEN <<Tok("proc"), Val("$", PrintName(sym.name)), Tok("(")>>
           \o Commas([i \in DOMAIN sym.params |-> <<Tok(":")>> \o PrintType(sym.params[i])])
           \o (IF sym.variadic THEN Toks(<<",", "...">>) ELSE <<>>) \o <<Tok(")")>>
      ELSE <<Tok("data"), Val("$", PrintName(sym.name))>>) \o <<Tok(":")>> \o PrintType(sym.type)

PrintSymbol(sym) ==
  PrintVis(sym.vis)
  \o (CASE sym.kind = "Proc" -> PrintProc(sym) [] sym.kind = "Data" -> PrintData(sym) [] OTHER -> PrintExtern(sym))
  \o <<Tok("Newline")>>

PrintModule(syms) == FlattenSeq([i \in DOMAIN syms |-> <<Tok("Newline")>> \o PrintSymbol(syms[i])])
=============================================================================
