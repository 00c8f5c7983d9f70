------------------------------- MODULE BackEnds -----------------------------
(***************************************************************************)
(* A program of nkirc, and what becomes of it: nkir_run interprets its     *)
(* bytecode, nkir_compile writes it in C for a compiler (nkirc/src/irc.cpp, *)
(* nkb/src/ir.cpp).  The text is chosen line by line; after each one it is *)
(* read, run, written and run again.                                       *)
(***************************************************************************)
EXTENDS NkircReader, NkbInterp, CMachine

CONSTANTS
  Sources,   (* for each family of programs, its opening and closing tokens  *)
             (* and the lines that may stand between them, stage by stage    *)
  Files      (* the tokens of the files that may be included                 *)

VARIABLES
  source,    (* the family of the text, and the lines chosen so far          *)
  answers    (* what became of the text                                      *)

Text(src) == Sources[src.family].opening \o FlattenSeq(src.lines) \o Sources[src.family].closing

(* What a procedure refers to, in the order of its text.                     *)
WrittenInOrder(prog, proc) ==
  FlattenSeq([b \in DOMAIN proc.blocks |->
    FlattenSeq([k \in DOMAIN prog.blocks[proc.blocks[b]].instrs |-> RefsOf(prog.blocks[proc.blocks[b]].instrs[k])])])
Reads(ref, i) == ref.kind = "Data" /\ ref.index = i
TakesAddress(prog, ref, i) ==
  ref.kind = "Data" /\ \E reloc \in Range(prog.data[ref.index].relocs) : reloc.target = i

(* A local constant is read before its address is first taken.  The writer   *)
(* has then put its value in place of the constant, and as it remembers the  *)
(* text of data without asking what for, it writes the address of a literal  *)
(* (translate2c.cpp:341-345, 382).                                           *)
AddressAfterValue(prog) ==
  \E i \in {j \in DOMAIN prog.data : IsInlineDecl(prog.data[j])}, proc \in Range(prog.procs) :
    Given(WrittenInOrder(prog, proc), LAMBDA refs :
      LET taken == {k \in DOMAIN refs : TakesAddress(prog, refs[k], i)}
      IN taken # {} /\ \E j \in DOMAIN refs : Reads(refs[j], i) /\ \A k \in taken : j < k)

(* nkir_run, nkir_compile: both read the text, and want an entry point.      *)
Rejected == [read |-> FALSE, defined |-> FALSE, run |-> <<>>, isProgram |-> FALSE, runInC |-> <<>>, ofLiteral |-> FALSE]
Answer(prog, run, c) ==
  Given(IsProgram(c), LAMBDA isProgram :
    [read |-> TRUE, defined |-> Clean(run), run |-> run.out, isProgram |-> isProgram,
     runInC |-> IF isProgram /\ Clean(run) THEN RunsInC(c).out ELSE <<>>, ofLiteral |-> AddressAfterValue(prog)])
Answers(toks) ==
  Given(Compile(toks, Files), LAMBDA read :
    IF read.err \/ read.entry = 0 THEN Rejected
    ELSE Answer(read.prog, Interpreted(read.prog, read.entry), WrittenC(read.prog)))

SourceInit ==
  /\ source \in [family : DOMAIN Sources, lines : {<<>>}]
  /\ answers = Answers(Text(source))
AddLine ==
  LET stages == Sources[source.family].stages
  IN /\ Len(source.lines) < Len(stages)
     /\ \E line \in stages[Len(source.lines) + 1] : source' = [source EXCEPT !.lines = Append(@, line)]
     /\ answers' = Answers(Text(source'))

(* nkirc run and nkirc compile give one answer: what a program that is       *)
(* defined does under the interpreter, which calls it makes of the libraries *)
(* with which arguments and with which code it exits, it does as the C that  *)
(* translate2c writes for it (nkirc/cmake/NkircTest.cmake runs every test    *)
(* both ways).  Except where there is no C to run: see AddressAfterValue.    *)
BackEndsAgree == answers.defined /\ ~answers.ofLiteral => answers.runInC = answers.run

=============================================================================
