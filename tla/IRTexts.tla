------------------------------- MODULE IRTexts -------------------------------
(***************************************************************************)
(* Texts of the intermediate representation that grow piece by piece, what *)
(* the reader makes of each of them, and what the printer says of that.    *)
(*                                                                         *)
(* A text is a sequence of declarations and then a procedure; decls and    *)
(* body hold the numbers of its pieces.                                    *)
(***************************************************************************)
EXTENDS IRReader

CONSTANTS Decls,    (* the declarations, each a text without its newline     *)
          Instrs,   (* the instructions, likewise                            *)
          Frames,   (* procedures around these: what opens and what closes   *)
                    (* one, and how many instructions fit between            *)
          Files,    (* the files that can be included, by name               *)
          MaxDecls  (* declarations of a text                                *)

VARIABLES decls, frame, body
irVars == <<decls, frame, body>>

Lines(texts, numbers) == FlattenSeq([i \in DOMAIN numbers |-> Append(texts[numbers[i]], Tok("Newline"))])
ProcText == IF frame = 0 THEN <<>> ELSE Frames[frame].open \o Lines(Instrs, body) \o Frames[frame].close
Text == Lines(Decls, decls) \o ProcText
Module == Read(Text, Files)

IRInit == decls = <<>> /\ frame = 0 /\ body = <<>>

AddDecl ==
  /\ frame = 0 /\ Len(decls) < MaxDecls
  /\ \E d \in DOMAIN Decls : decls' = Append(decls, d)
  /\ UNCHANGED <<frame, body>>

OpenProc ==
  /\ frame = 0
  /\ frame' \in DOMAIN Frames
  /\ UNCHANGED <<decls, body>>

(* A declaration takes the room of two instructions.                         *)
AddInstr ==
  /\ frame # 0 /\ 2 * Len(decls) + Len(body) < Frames[frame].room
  /\ \E i \in DOMAIN Instrs : body' = Append(body, i)
  /\ UNCHANGED <<decls, frame>>

IRNext == AddDecl \/ OpenProc \/ AddInstr

-----------------------------------------------------------------------------
(* What a symbol means: names as they are printed, an aggregate without      *)
(* elements as void, no comments, and a jump by how many instructions stand  *)
(* before the place it leads to.                                             *)
RECURSIVE TypeMeaning(_)
TypeMeaning(type) ==
  IF type.elems = <<>> THEN IF IsNum(type) THEN type ELSE Void
  ELSE [type EXCEPT !.elems = [i \in DOMAIN @ |-> [@[i] EXCEPT !.type = TypeMeaning(@)]]]

RefMeaning(ref) ==
  [kind |-> ref.kind, v |-> IF ref.kind = "Global" THEN PrintName(ref.v) ELSE ref.v,
   type |-> IF ref.kind \in {"None", "Variadic"} THEN NoType ELSE TypeMeaning(ref.type)]

Real(instrs) == SelectSeq(instrs, LAMBDA i : i.code # "comment")
PlaceOf(instrs, to) == <<IF to \in DOMAIN instrs THEN Len(Real(SubSeq(instrs, 1, to - 1))) ELSE to>>
PlaceOfLabel(instrs, labels, k, name) == IF k = 0 THEN name ELSE PlaceOf(instrs, labels[k].idx)
LeadsTo(instrs, labels, idx, arg) ==
  IF arg.k = "Rel" THEN [missing |-> FALSE, at |-> PlaceOf(instrs, idx + arg.v)]
  ELSE [missing |-> FindByName(labels, arg.v) = 0, at |-> PlaceOfLabel(instrs, labels, FindByName(labels, arg.v), arg.v)]

ArgMeaning(instrs, idx, arg) ==
  CASE arg.k = "Ref" -> RefMeaning(arg.v)
    [] arg.k = "Refs" -> [i \in DOMAIN arg.v |-> RefMeaning(arg.v[i])]
    [] arg.k = "Type" -> TypeMeaning(arg.v)
    [] arg.k \in {"Label", "Rel"} /\ instrs[idx].code # "label" -> LeadsTo(instrs, Labels(instrs), idx, arg)
    [] OTHER -> <<>>

InstrsMeaning(instrs) ==
  LET real == SelectSeq([i \in DOMAIN instrs |-> i], LAMBDA i : instrs[i].code # "comment")
  IN [n \in DOMAIN real |->
        <<instrs[real[n]].code, [a \in 1..3 |-> ArgMeaning(instrs, real[n], instrs[real[n]].arg[a])]>>]

Named(sym) == [sym EXCEPT !.name = PrintName(@)]
ParamMeaning(param) == [param EXCEPT !.type = TypeMeaning(@)]
Meaning(sym) ==
  CASE sym.kind = "Proc" -> [Named(sym) EXCEPT !.instrs = InstrsMeaning(@), !.ret = ParamMeaning(@),
                                              !.params = [i \in DOMAIN @ |-> ParamMeaning(@[i])]]
    [] sym.kind = "Data" -> [Named(sym) EXCEPT !.type = TypeMeaning(@)]
    [] OTHER -> [Named(sym) EXCEPT !.type = TypeMeaning(@), !.params = [i \in DOMAIN @ |-> TypeMeaning(@[i])]]
Meanings(syms) == [i \in DOMAIN syms |-> Meaning(syms[i])]

-----------------------------------------------------------------------------
(* What the text of a symbol does not keep.                                  *)
RECURSIVE Counted(_)
Counted(type) == \A i \in DOMAIN type.elems : type.elems[i].count > 0 /\ Counted(type.elems[i].type)

(* Bytes that end in a zero, have escapes the lexer knows, and stand last.   *)
RECURSIVE Readable(_, _, _)
Readable(mem, base, type) ==
  \A i \in DOMAIN type.elems :
    LET elem == type.elems[i]
        bytes == [n \in 1..elem.count |-> mem[base + elem.offset + n - 1]]
    IN IF IsBytes(elem)
       THEN Last(bytes) = 0 /\ i = Len(type.elems) /\ LexString(Escape(bytes)) # "Error"
       ELSE \A n \in 1..elem.count : Readable(mem, base + elem.offset + (n - 1) * elem.type.size, elem.type)

(* The offsets of the numbers as wide as a pointer.                          *)
RECURSIVE Slots(_, _)
Slots(base, type) ==
  IF IsNum(type) THEN IF type.size = Ptr.size THEN {base} ELSE {}
  ELSE UNION {Slots(base + e.offset + n * e.type.size, e.type) : e \in ToSet(type.elems), n \in 0..3}

DataPrintable(sym) ==
  /\ Counted(sym.type)
  /\ sym.mem # <<>> => Readable(sym.mem, 0, sym.type)
  /\ \A r \in ToSet(sym.relocs) : r.offset \in Slots(0, sym.type)

Targets(instrs) ==
  {t \in (DOMAIN instrs) \X (2..3) : instrs[t[1]].code # "label" /\ instrs[t[1]].arg[t[2]].k \in {"Label", "Rel"}}
LabelsPrintable(instrs) ==
  LET labels == Labels(instrs)
      texts == [k \in DOMAIN labels |-> LabelText(labels, k)]
      numbered == {Append(labels[k].name, CountBefore(labels, k)) : k \in DOMAIN labels}
  IN /\ \A k \in DOMAIN labels : labels[k].name \notin numbered
     /\ \A t \in Targets(instrs) :
          LET arg == instrs[t[1]].arg[t[2]] IN
          /\ arg.k = "Label" /\ FindByName(labels, arg.v) = 0 =>
               \A k \in DOMAIN labels : texts[k] # arg.v
          /\ arg.k = "Rel" /\ FindByIdx(labels, t[1] + arg.v) = 0 =>
               \A i \in DOMAIN instrs : instrs[i].code # "comment"

TypesOf(sym) ==
  CASE sym.kind = "Proc" ->
         {sym.ret.type} \cup {sym.params[i].type : i \in DOMAIN sym.params}
         \cup {sym.instrs[i].arg[2].v : i \in {j \in DOMAIN sym.instrs : sym.instrs[j].arg[2].k = "Type"}}
    [] sym.kind = "Extern" -> {sym.type} \cup ToSet(sym.params)
    [] OTHER -> {}
Printable(sym) ==
  /\ \A type \in TypesOf(sym) : Counted(type)
  /\ sym.kind = "Data" => DataPrintable(sym)
  /\ sym.kind = "Proc" => LabelsPrintable(sym.instrs)
  /\ sym.kind = "Extern" => Escape(sym.lib) = sym.lib

-----------------------------------------------------------------------------
PicLeadsAlike(syms) ==
  \A i \in DOMAIN syms : syms[i].kind = "Proc" => InstrsMeaning(ConvertToPic(syms[i].instrs)) = InstrsMeaning(syms[i].instrs)
ReadAs(again, syms) == ~again.err /\ Meanings(syms) = Meanings(again.syms)
SurvivesPrinting(syms) ==
  (\A i \in DOMAIN syms : Printable(syms[i])) => ReadAs(Read(PrintModule(syms), Files), syms)
PrintsAlike(syms) == PicLeadsAlike(syms) /\ SurvivesPrinting(syms)

(* What the printer says of a module is read back as that module: layouts,   *)
(* values, relocations, references and where each jump leads.  Position-     *)
(* independent code leads where it led.                                      *)
RoundTrip == PrintsAlike(Module.syms)

InlinedDecl(decl) ==
  IF decl[1].id = "include" /\ decl[2].v \in DOMAIN Files THEN Files[decl[2].v] ELSE Append(decl, Tok("Newline"))
InlinedText == FlattenSeq([i \in DOMAIN decls |-> InlinedDecl(Decls[decls[i]])]) \o ProcText
SameReading(one, other) == one.err = other.err /\ one.syms = other.syms

(* A file that is included is read as if its text stood in its place, with   *)
(* the type names it adds and with the symbols it defines before an error.   *)
InPlace == Lex(InlinedText).ok => SameReading(Read(InlinedText, Files), Module)

Kept(before, after) == IsPrefix(before.syms, after.syms) /\ (before.err => after.err /\ after.syms = before.syms)
ReadDecls(numbers) == Read(Lines(Decls, numbers), Files)
(* Nothing that is added at the end of a text takes back a symbol or an      *)
(* error, unless it is what the lexer does not read.                         *)
DefinedStays == [][Lex(Lines(Decls, decls')).ok => Kept(ReadDecls(decls), ReadDecls(decls'))]_irVars
=============================================================================
