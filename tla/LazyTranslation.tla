--------------------------- MODULE LazyTranslation ---------------------------
(***************************************************************************)
(* Translation on demand in nkb/src/bytecode.cpp.  nkir_invoke translates  *)
(* the IR of a procedure, and of every procedure its code refers to, the   *)
(* first time it is needed, and keeps the result in ctx->procs; data are   *)
(* allocated in the same way the first time code refers to them.           *)
(*                                                                         *)
(* Nothing can run between the steps of a translation, so translateProc is *)
(* an operator on a record `tr` of what it reads and writes.  Blocks and   *)
(* jumps are the subject of StatementLowering; here a procedure is a       *)
(* sequence of the instructions that refer to something outside of it.     *)
(*                                                                         *)
(* The closures made for `cdecl` procedures describe their arguments in an *)
(* array that nk_native_makeClosure allocates in the temporary arena; the  *)
(* arena is a sequence of blocks of which the first `top` are allocated.   *)
(***************************************************************************)
EXTENDS NkbProgram

-----------------------------------------------------------------------------
(* The temporary arena: a block takes the place of what was popped there.    *)
Allocate(tr, block) ==
  [tr EXCEPT !.tmp = Append(SubSeq(@, 1, tr.top), block) \o SubSeq(@, tr.top + 2, Len(@)),
             !.top = @ + 1]

(* reportError asserts that there was no error.                              *)
ReportError(tr, c) == [tr EXCEPT !.ok = FALSE, !.aborted = @ \/ c \in tr.errors,
                                 !.errors = @ \cup {c}]

(* getDataAddr: the datum is allocated and entered before its relocations    *)
(* are followed, each of which stores the address of its target.             *)
RECURSIVE GetDataAddr(_, _)
GetDataAddr(data, d) ==
  IF data[d] # None THEN data
  ELSE LET store(a, t) == [GetDataAddr(a, t) EXCEPT ![d] = Append(@, t)]
       IN FoldLeft(store, [data EXCEPT ![d] = <<>>], Relocs[d])

(* Appending one instruction with its references; procedures stay unlinked.  *)
TranslateInstr(tr, p, i) ==
  LET bc == [op |-> Opcode(i), native |-> i.op = "native", to |-> None]
  IN IF i.op = "native" /\ ~tr.externs
     THEN ReportError([tr EXCEPT !.procs[p].code = Append(@, bc)], CtxOf[p])
     ELSE [tr EXCEPT !.procs[p].code = Append(@, bc),
                     !.data = IF i.op = "data" THEN GetDataAddr(@, i.data) ELSE @]

(* Reloc_Closure makes a closure, whose types are in the temporary arena.    *)
Link(tr, p, n, q) ==
  IF q \in Cdecl
  THEN LET made == Allocate(tr, Params[q])
       IN [made EXCEPT !.procs[p].code[n].to = [proc |-> q, argt |-> made.top]]
  ELSE [tr EXCEPT !.procs[p].code[n].to = [proc |-> q, argt |-> 0]]

(* Mutant: the relocations of the first instruction are left out.            *)
LinkSkipsFirst(tr, p, body) ==
  LET link(t, n) == IF n = 1 \/ body[n].proc = None THEN t ELSE Link(t, p, n, body[n].proc)
  IN FoldLeft(link, tr, [n \in DOMAIN body |-> n])

LinkAll(tr, p, body) ==
  LET link(t, n) == IF body[n].proc = None THEN t ELSE Link(t, p, n, body[n].proc)
  IN FoldLeft(link, tr, [n \in DOMAIN body |-> n])

(* translateProc.  What was entered before is taken as it is.  The frame of  *)
(* the temporary arena is popped on every way out.                           *)
RECURSIVE TranslateProc(_, _, _)
TranslateProc(tr, ir, p) ==
  IF tr.procs[p] # None THEN tr
  ELSE LET entered == Allocate([tr EXCEPT !.procs[p] = [code |-> <<>>, linked |-> FALSE]], "lists")
           instr(t, i) == IF t.ok THEN TranslateInstr(t, p, i) ELSE t
           refer(t, q) == IF t.ok THEN TranslateProc(t, ir, q) ELSE t
           whole == FoldLeft(refer, FoldLeft(instr, entered, ir[p]), References(ir[p]))
           done == IF whole.ok THEN [LinkAll(whole, p, ir[p]) EXCEPT !.procs[p].linked = TRUE]
                   ELSE whole
       IN [done EXCEPT !.top = tr.top]
=============================================================================
