-------------------------- MODULE StatementLowering --------------------------
(***************************************************************************)
(* How nkl_core compiles the statements of a procedure to IR               *)
(* (nkl_core/src/compiler.cpp and compiler_state.cpp, nkb/src/ir.cpp):     *)
(* blocks, branches and loops, nested scopes whose variables share the     *)
(* slots of the frame, and deferred statements, whose code is recorded     *)
(* when they are met and emitted, with new labels, wherever control leaves *)
(* their scope.                                                            *)
(*                                                                         *)
(* The compiler walks the tree of a procedure.  A step of this module is   *)
(* the code run when a statement is met, or when the compiler comes back   *)
(* from the body of one; the choice of the steps is the choice of the      *)
(* source.  `ctx` is the compiler's context; each of its frames also keeps *)
(* the source read so far, so that what the code does can be compared with *)
(* what the source says.                                                   *)
(*                                                                         *)
(* The IR is one sequence in which a "label" starts a block, as it was     *)
(* emitted.  What an instruction computes is abstracted to what an         *)
(* observer can tell apart: "call" shows its own number, "mov" stores a    *)
(* number in a slot of the frame, "use" shows what a slot holds.           *)
(* Conditions are the outside world's: `bits` are the outcomes the         *)
(* conditional jumps will meet, and FALSE once they are used up.           *)
(***************************************************************************)
EXTENDS Naturals, Sequences, FiniteSets, SequencesExt

CONSTANTS
  MaxNodes,       (* bound: statements in the source                       *)
  MaxOpen,        (* bound: statements open at a time                      *)
  MaxBits,        (* bound: outcomes of conditions that may be TRUE        *)
  ReturnInDefer   (* whether a return may stand in a deferred statement    *)

ASSUME LoweringAssumption ==
  /\ MaxNodes \in Nat /\ MaxOpen \in Nat /\ MaxBits \in Nat
  /\ ReturnInDefer \in BOOLEAN

VARIABLE
  ctx   (* Context: frames, code, hasReturn, labels, frameSize, nodes       *)

-----------------------------------------------------------------------------
(* The code of one procedure, the bytecode translateProc makes of it         *)
(* (nkb/src/bytecode.cpp), and what the interpreter does with it             *)
(* (nkb/src/interp.cpp).                                                     *)
NoSlot == 0

Instr == [op : {"label", "jmp", "jmpz", "call", "mov", "use", "ret"}, arg : Nat, slot : Nat]
I(op, arg, slot) == [op |-> op, arg |-> arg, slot |-> slot]

Labels(code) == {code[i].arg : i \in {j \in DOMAIN code : code[j].op = "label"}}
Targets(code) == {code[i].arg : i \in {j \in DOMAIN code : code[j].op \in {"jmp", "jmpz"}}}

-----------------------------------------------------------------------------
(* block_info: the number of the block of an instruction, and of a label.    *)
BlockOf(code, i) == Cardinality({j \in 1..i : code[j].op = "label"})
BlockIdx(code, l) ==
  BlockOf(code, CHOOSE i \in DOMAIN code : code[i].op = "label" /\ code[i].arg = l)

(* A jump to the block that comes next is not translated.                    *)
FallsThrough(code, i) ==
  code[i].op = "jmp" /\ BlockIdx(code, code[i].arg) = BlockOf(code, i) + 1
Translated(code, i) == code[i].op # "label" /\ ~FallsThrough(code, i)

(* translateProc: the instructions, and the first instruction of each label, *)
(* which is what the relocations of the jumps are set to.                    *)
Bytecode(code) ==
  LET kept == {i \in DOMAIN code : Translated(code, i)}
      place == [i \in kept |-> Cardinality({j \in kept : j <= i})]
  IN [instrs |-> [p \in 1..Cardinality(kept) |-> code[CHOOSE i \in kept : place[i] = p]],
      first  |-> [l \in Labels(code) |->
                    LET at == CHOOSE i \in DOMAIN code : code[i].op = "label" /\ code[i].arg = l
                    IN 1 + Cardinality({j \in kept : j < at})]]

-----------------------------------------------------------------------------
(* jumpCall: the frame is zeroed and the first instruction is next.  Where   *)
(* there is none, instrs.data is NULL and the loop ends before it begins.    *)
Start(bc, slots, bits) ==
  [pc |-> 1, frame |-> [s \in slots |-> 0], bits |-> bits, out |-> <<>>, val |-> 0, end |-> bc.instrs = <<>>]

(* One round of the loop of nkir_interp_invoke.  After the last instruction  *)
(* pinstr is not NULL: a pc outside of the instructions is read as one, and  *)
(* what it is read as is not of the procedure: the state has no successor.   *)
Exec(bc, s) ==
  LET i == bc.instrs[s.pc]
      next == [s EXCEPT !.pc = @ + 1]
  IN CASE i.op = "call" -> [next EXCEPT !.out = Append(@, i.arg)]
       [] i.op = "use"  -> [next EXCEPT !.out = Append(@, s.frame[i.slot])]
       [] i.op = "mov"  -> [next EXCEPT !.frame[i.slot] = i.arg]
       [] i.op = "jmp"  -> [s EXCEPT !.pc = bc.first[i.arg]]
       [] i.op = "jmpz" ->
            LET taken == s.bits = <<>> \/ ~Head(s.bits)
            IN [next EXCEPT !.pc = IF taken THEN bc.first[i.arg] ELSE @,
                            !.bits = IF @ = <<>> THEN @ ELSE Tail(@)]
       [] i.op = "ret"  ->
            [s EXCEPT !.end = TRUE, !.val = IF i.slot = NoSlot THEN 0 ELSE s.frame[i.slot]]

Stuck(bc, s) == s.end \/ s.pc \notin DOMAIN bc.instrs

(* The state after at most `fuel` instructions.                              *)
Run(bc, slots, bits, fuel) ==
  LET after[n \in 0..fuel] ==
        IF n = 0 THEN Start(bc, slots, bits)
        ELSE LET s == after[n-1] IN IF Stuck(bc, s) THEN s ELSE Exec(bc, s)
  IN after[fuel]

-----------------------------------------------------------------------------
(* A statement: its kind, its number, and its parts.                         *)
Stmt(kind, n, body, alt) == [kind |-> kind, n |-> n, body |-> body, alt |-> alt]

(* The compiler inside of a statement.  All but "defer" have opened a scope. *)
Frame(kind, n, l1, l2, size) ==
  [kind |-> kind, n |-> n, l1 |-> l1, l2 |-> l2,
   size   |-> size,   (* NkIrProc_T.scopes: cur_frame_size to go back to     *)
   list   |-> <<>>,   (* the statements of the body read so far              *)
   then   |-> <<>>,   (* in "else": the statements of the other branch       *)
   vars   |-> {},     (* Scope.locals: the <<number, slot>> declared         *)
   defers |-> <<>>,   (* Scope.defer_stack: recorded code, newest first      *)
   instrs |-> <<>>]   (* DeferListNode.instrs, in "defer"                    *)

-----------------------------------------------------------------------------
(* Where the compiler is: the innermost scope, and the innermost deferred    *)
(* statement, whose code is being recorded.                                  *)
Top(c) == Last(c.frames)
ScopeOf(c) == CHOOSE i \in DOMAIN c.frames :
                /\ c.frames[i].kind # "defer"
                /\ \A j \in i+1..Len(c.frames) : c.frames[j].kind = "defer"
Recorders(c) == {i \in DOMAIN c.frames : c.frames[i].kind = "defer"}
ActiveDefer(c) == CHOOSE i \in Recorders(c) : \A j \in Recorders(c) : j <= i

(* nkir_emitArray, or the list of the deferred statement.                    *)
EmitArray(c, instrs) ==
  IF Recorders(c) = {} THEN [c EXCEPT !.code = @ \o instrs]
  ELSE [c EXCEPT !.frames[ActiveDefer(c)].instrs = @ \o instrs]

(* Mutant: a label does not start a block without return.                    *)
EmitKeepsFlag(c, instr) ==
  EmitArray([c EXCEPT !.hasReturn = @ \/ instr.op = "ret"], <<instr>>)

(* emit.                                                                     *)
Emit(c, instr) ==
  EmitArray([c EXCEPT !.hasReturn = CASE instr.op = "label" -> FALSE
                                      [] instr.op = "ret"   -> TRUE
                                      [] OTHER -> @], <<instr>>)

(* Mutant: the copy of a deferred statement has the labels of the original.  *)
EmitCopyShared(c, instrs) == EmitArray(c, instrs)

(* nkir_instrArrayDupInto: a copy of the code of a deferred statement has    *)
(* labels of its own.                                                        *)
EmitCopy(c, instrs) ==
  LET own == Labels(instrs)
      New(l) == c.labels + Cardinality({k \in own : k < l})
  IN EmitArray([c EXCEPT !.labels = @ + Cardinality(own)],
               [i \in DOMAIN instrs |->
                  IF instrs[i].op \in {"label", "jmp", "jmpz"} /\ instrs[i].arg \in own
                  THEN [instrs[i] EXCEPT !.arg = New(@)] ELSE instrs[i]])

(* The deferred code of the scopes above the frame `upto`, innermost first.  *)
Pending(c, upto) ==
  FlattenSeq([i \in 1..Len(c.frames) - upto |-> c.frames[Len(c.frames) + 1 - i].defers])

(* emitDefersForScope: one after the other.                                  *)
EmitCopies(c, blocks) ==
  LET after[i \in 0..Len(blocks)] == IF i = 0 THEN c ELSE EmitCopy(after[i-1], blocks[i])
  IN after[Len(blocks)]

(* Mutant: the oldest deferred statement comes first.                        *)
EmitDefersOldestFirst(c, upto) == IF c.hasReturn THEN c ELSE EmitCopies(c, Reverse(Pending(c, upto)))

(* emitDefers.                                                               *)
EmitDefers(c, upto) == IF c.hasReturn THEN c ELSE EmitCopies(c, Pending(c, upto))

(* nkir_makeLocalVar: the next slot of the frame.                            *)
MakeLocalVar(c) == [c EXCEPT !.frameSize = @ + 1]

-----------------------------------------------------------------------------
AddStmt(c, stmt) == [c EXCEPT !.frames[Len(c.frames)].list = Append(@, stmt)]
Counted(c) == [c EXCEPT !.nodes = @ + 1]
Enter(c, frame) == [c EXCEPT !.frames = Append(@, frame)]

(* Mutant: leaving a scope gives back the slots of all the scopes.           *)
LeaveAll(c) ==
  LET out == EmitDefers([c EXCEPT !.frameSize = 0], Len(c.frames) - 1)
  IN [out EXCEPT !.frames = Front(@)]

(* enterPrivateScope, and what it returns: nkir_leave, then the deferred     *)
(* statements of the scope, then the scope is gone.                          *)
Leave(c) ==
  LET size == Top(c).size
      out  == EmitDefers([c EXCEPT !.frameSize = size], Len(c.frames) - 1)
  IN [out EXCEPT !.frames = Front(@)]

(* compileProc: a procedure starts with a block of its own.                  *)
LoweringInit ==
  ctx = Emit([frames |-> <<Frame("proc", 0, 0, 0, 0)>>, code |-> <<>>, hasReturn |-> FALSE,
              labels |-> 2, frameSize |-> 0, nodes |-> 0, source |-> <<>>],
             I("label", 1, NoSlot))

Compiling == ctx.frames # <<>>
Room == Compiling /\ ctx.nodes < MaxNodes
Deeper == Room /\ Len(ctx.frames) <= MaxOpen
N == ctx.nodes + 1

CompileCall ==
  /\ Room
  /\ ctx' = Counted(AddStmt(Emit(ctx, I("call", N, NoSlot)), Stmt("call", N, <<>>, <<>>)))

(* n_var: a slot, and the value.                                             *)
CompileVar ==
  /\ Room
  /\ LET slot == ctx.frameSize + 1
         c == Emit(MakeLocalVar(ctx), I("mov", N, slot))
     IN ctx' = Counted(AddStmt([c EXCEPT !.frames[Len(c.frames)].vars = @ \cup {<<N, slot>>}],
                               Stmt("var", N, <<>>, <<>>)))

(* resolve: the variables that can be named.  One declared in the list of a  *)
(* deferred statement is not named outside of it, where it has no value yet. *)
Visible(c) == UNION {c.frames[i].vars : i \in DOMAIN c.frames}

(* A call that shows the value of a variable.                                *)
CompileUse ==
  /\ Room
  /\ \E v \in Visible(ctx) :
       ctx' = Counted(AddStmt(Emit(ctx, I("use", 0, v[2])), Stmt("use", v[1], <<>>, <<>>)))

(* Whether leaving the scopes of the procedure overwrites a slot: a variable *)
(* declared in a scope of a deferred statement has given its slot back.      *)
Overwritten(c, slot) ==
  \E i \in DOMAIN Pending(c, 0) : \E j \in DOMAIN Pending(c, 0)[i] :
    Pending(c, 0)[i][j].op = "mov" /\ Pending(c, 0)[i][j].slot = slot

(* n_return: the deferred statements of all the scopes of the procedure come *)
(* before the value is read.  `alt` says that they overwrite it.             *)
ReturnWith(n, slot, alt) ==
  /\ Room
  /\ ReturnInDefer \/ Recorders(ctx) = {}
  /\ ctx' = Counted(AddStmt(Emit(EmitDefers(ctx, 0), I("ret", 0, slot)),
                            Stmt("return", n, <<>>, alt)))

CompileReturn == ReturnWith(0, NoSlot, FALSE)
CompileReturnValue == \E v \in Visible(ctx) : ReturnWith(v[1], v[2], Overwritten(ctx, v[2]))

(* n_scope, n_if, n_while, n_defer_stmt: before the body ...                 *)
OpenScope ==
  /\ Deeper
  /\ ctx' = Counted(Enter(ctx, Frame("scope", N, 0, 0, ctx.frameSize)))

OpenIf ==
  /\ Deeper
  /\ \E branches \in {1, 2} :
       LET endif == ctx.labels
           else  == ctx.labels + branches - 1
           c == Emit([ctx EXCEPT !.labels = @ + branches], I("jmpz", else, NoSlot))
       IN ctx' = Counted(Enter(c, Frame(IF branches = 1 THEN "if" ELSE "then",
                                        N, else, endif, c.frameSize)))

OpenWhile ==
  /\ Deeper
  /\ LET loop == ctx.labels
         endloop == ctx.labels + 1
         start == Emit(Emit([ctx EXCEPT !.labels = @ + 2], I("jmp", loop, NoSlot)), I("label", loop, NoSlot))
         c == Emit(start, I("jmpz", endloop, NoSlot))
     IN ctx' = Counted(Enter(c, Frame("while", N, loop, endloop, c.frameSize)))

OpenDefer ==
  /\ Deeper
  /\ ctx' = Counted(Enter(ctx, Frame("defer", N, 0, 0, ctx.frameSize)))

(* ... and after it.                                                         *)
JumpThenLabel(c, target, label) == Emit(Emit(c, I("jmp", target, NoSlot)), I("label", label, NoSlot))

CloseScope ==
  /\ Compiling /\ Top(ctx).kind = "scope"
  /\ ctx' = AddStmt(Leave(ctx), Stmt("scope", Top(ctx).n, Top(ctx).list, <<>>))

CloseThen ==
  /\ Compiling /\ Top(ctx).kind = "then"
  /\ LET fr == Top(ctx)
         c == JumpThenLabel(Leave(ctx), fr.l2, fr.l1)
     IN ctx' = Enter(c, [Frame("else", fr.n, fr.l1, fr.l2, c.frameSize) EXCEPT !.then = fr.list])

CloseIf ==
  /\ Compiling /\ Top(ctx).kind \in {"if", "else"}
  /\ LET fr == Top(ctx)
         c == JumpThenLabel(Leave(ctx), fr.l2, fr.l2)
     IN ctx' = AddStmt(c, IF fr.kind = "if" THEN Stmt("if", fr.n, fr.list, <<>>)
                          ELSE Stmt("if", fr.n, fr.then, fr.list))

CloseWhile ==
  /\ Compiling /\ Top(ctx).kind = "while"
  /\ LET fr == Top(ctx)
         c == JumpThenLabel(Leave(ctx), fr.l1, fr.l2)
     IN ctx' = AddStmt(c, Stmt("while", fr.n, fr.list, <<>>))

CloseDefer ==
  /\ Compiling /\ Top(ctx).kind = "defer"
  /\ LET fr == Top(ctx)
         c == [ctx EXCEPT !.frames = Front(@)]
     IN ctx' = AddStmt([c EXCEPT !.frames[ScopeOf(c)].defers = <<fr.instrs>> \o @],
                       Stmt("defer", fr.n, fr.list, <<>>))

(* compileProc, when the body is compiled: the deferred statements of the    *)
(* procedure, and a return unless the code just ended with one.              *)
FinishProc ==
  /\ Compiling /\ Top(ctx).kind = "proc"
  /\ LET out == EmitDefers(ctx, 0)
         c == IF out.hasReturn THEN out ELSE Emit(out, I("ret", 0, NoSlot))
     IN ctx' = [c EXCEPT !.source = Top(ctx).list, !.frames = <<>>]

LoweringNext ==
  \/ CompileCall \/ CompileVar \/ CompileUse \/ CompileReturn \/ CompileReturnValue
  \/ OpenScope \/ OpenIf \/ OpenWhile \/ OpenDefer
  \/ CloseScope \/ CloseThen \/ CloseIf \/ CloseWhile \/ CloseDefer
  \/ FinishProc

LoweringSpec == LoweringInit /\ [][LoweringNext]_ctx

-----------------------------------------------------------------------------
(* What the source says.  A run has statements to do; the deferred           *)
(* statements of each scope it is in, innermost scope first and in a scope   *)
(* the newest first; and a mark where a scope ends.                          *)
EndOfScope == Stmt("end", 0, <<>>, <<>>)
InScope(s, body) ==
  [s EXCEPT !.todo = body \o <<EndOfScope>> \o @, !.defers = <<<<>>>> \o @]

Begin(source, bits) ==
  [todo |-> source \o <<EndOfScope>>, defers |-> <<<<>>>>, bits |-> bits, out |-> <<>>,
   val |-> 0, lost |-> FALSE]

Do(s0) ==
  LET t == Head(s0.todo)
      s == [s0 EXCEPT !.todo = Tail(@)]
      holds == s.bits # <<>> /\ Head(s.bits)
      cond  == [s EXCEPT !.bits = IF @ = <<>> THEN @ ELSE Tail(@)]
  IN CASE t.kind \in {"call", "use"} -> [s EXCEPT !.out = Append(@, t.n)]
       [] t.kind = "var"    -> s
       [] t.kind = "scope"  -> InScope(s, t.body)
       [] t.kind = "if"     -> InScope(cond, IF holds THEN t.body ELSE t.alt)
       [] t.kind = "while"  -> IF holds THEN InScope([cond EXCEPT !.todo = <<t>> \o @], t.body)
                               ELSE cond
       [] t.kind = "defer"  -> [s EXCEPT !.defers[1] = <<t.body>> \o @]
       [] t.kind = "return" -> [s EXCEPT !.todo = [i \in DOMAIN s.defers |-> EndOfScope],
                                         !.val = t.n, !.lost = t.alt]
       [] t.kind = "end"    ->
            IF Head(s.defers) = <<>> THEN [s EXCEPT !.defers = Tail(@)]
            ELSE [s EXCEPT !.todo = Head(Head(s.defers)) \o <<EndOfScope>> \o @,
                           !.defers[1] = Tail(@)]

Meaning(source, bits, fuel) ==
  LET after[n \in 0..fuel] ==
        IF n = 0 THEN Begin(source, bits)
        ELSE LET s == after[n-1] IN IF s.todo = <<>> THEN s ELSE Do(s)
  IN after[fuel]

-----------------------------------------------------------------------------
Compiled == ctx.frames = <<>>
Conditions == {i \in DOMAIN ctx.code : ctx.code[i].op = "jmpz"}
Outcomes == IF Conditions = {} THEN {<<>>} ELSE [1..MaxBits -> BOOLEAN]
Fuel == (MaxBits + 2) * (Len(ctx.code) + MaxNodes)
Slots == 1..MaxNodes
Machine(bits) == Run(Bytecode(ctx.code), Slots, bits, Fuel)

(* The interpreter, on the bytecode of the compiled procedure, does what the *)
(* source says, whatever its conditions turn out to be: it shows the same    *)
(* calls and values in the same order, with every deferred statement run     *)
(* once, at the end of its scope, newest first, on each way out; and it ends *)
(* with a return.  The returned value is the one the source names, unless a  *)
(* deferred statement that runs before it is read has a variable of its own  *)
(* in the same slot.                                                         *)
RunsAsWritten ==
  Compiled =>
    \A bits \in Outcomes :
      LET m == Machine(bits)
          s == Meaning(ctx.source, bits, Fuel)
      IN /\ s.todo = <<>>
         /\ m.end /\ m.out = s.out
         /\ s.lost \/ m.val = s.val

(* Every block of the procedure is there once, and every jump goes to one,   *)
(* though deferred code with branches is copied to every way out.            *)
LabelsResolve ==
  /\ \A i, j \in DOMAIN ctx.code :
       ctx.code[i].op = "label" /\ ctx.code[j].op = "label" /\ ctx.code[i].arg = ctx.code[j].arg
         => i = j
  /\ Compiled => Targets(ctx.code) \subseteq Labels(ctx.code)

(* The flag that stands for "nothing after this can be reached", by which    *)
(* the compiler leaves out deferred statements and the final return, is set  *)
(* only when the last block of the code being emitted has returned.          *)
Sink == IF Recorders(ctx) = {} THEN ctx.code ELSE ctx.frames[ActiveDefer(ctx)].instrs
ReturnFlagSound ==
  Compiling /\ ctx.hasReturn /\ Recorders(ctx) = {} =>
    \E i \in DOMAIN Sink : /\ Sink[i].op = "ret"
                           /\ \A j \in i..Len(Sink) : Sink[j].op # "label"

(* Variables that can be named at the same time have slots of their own.     *)
SlotsDisjoint ==
  \A v, w \in Visible(ctx) : v # w => v[2] # w[2]

(* The assertion of nkir_interp_invoke (nkb/src/interp.cpp:566) that the     *)
(* interpreter knows every instruction it meets: it stays within those of    *)
(* the procedure until it returns, or has none to begin with.                *)
OnlyInstructions == Compiled => \A bits \in Outcomes : Machine(bits).end
=============================================================================
