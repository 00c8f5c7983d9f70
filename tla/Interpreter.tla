----------------------------- MODULE Interpreter -----------------------------
(***************************************************************************)
(* The interpreter of nkb (nkb/src/interp.cpp) with the calls that leave   *)
(* it and come back (nkb/src/ffi_adapter.cpp), over some translation of    *)
(* the program, for which LazyTranslation stands.                          *)
(*                                                                         *)
(* The interpreter has no C++ frame for a call between procedures: it      *)
(* saves its registers in a control frame on a stack of its own, `stack`,  *)
(* an arena of blocks that a call pushes and `ret` pops at once.  A call   *)
(* of native code is a C++ call, and native code may come back through a   *)
(* closure, or by asking for another run; `host` is the C++ stack.         *)
(*                                                                         *)
(* An address is a block of `stack` or a variable of `host`.  Procedures   *)
(* have one parameter and one variable, which is what they return.         *)
(***************************************************************************)
EXTENDS NkbProgram

CONSTANTS
  Programs,           (* the bodies the procedures may have                 *)
  Translate(_, _, _), (* translateProc: what is ready to run afterwards     *)
  MaxDepth            (* bound: the calls in progress, also of the host     *)

ASSUME ProgramAssumption ==
  \A program \in Programs, p \in Procs : program[p] \in Seq(Instructions)

VARIABLES
  ir,        (* the bodies of the procedures                                *)
  externs,   (* the address of the extern procedure has been set            *)
  run,       (* what translation has done, see LazyTranslation              *)
  stack,     (* InterpContext.stack                                         *)
  ctrl,      (* ctrl_stack: the block of the newest control frame           *)
  reg,       (* the registers: frame, arg, ret, pc and stack_frame          *)
  ffi,       (* ffi_ctx: whose native calls are made                        *)
  host       (* calls of nkir_interp_invoke and of native code, newest last *)

interpVars == <<stack, ctrl, reg, ffi, host>>
vars == <<ir, externs, run, interpVars>>

NoPc == [proc |-> None, n |-> 0]
NoAddr == [at |-> "null", i |-> 0]
OnStack(i) == [at |-> "stack", i |-> i]
OnHost(i) == [at |-> "host", i |-> i]

(* A block of the stack: argv with the address of the result, a control      *)
(* frame, or the frame of a procedure.                                       *)
Block(kind, refs, saved, next, var) ==
  [kind |-> kind, refs |-> refs, saved |-> saved, next |-> next, var |-> var]

(* An activation of the host.  Native code has an argument in `var`, the     *)
(* closure it may call, the address of its result and the frame of the stack.*)
Activation(kind, proc, var, ret, frame, pc, fctx) ==
  [kind |-> kind, proc |-> proc, var |-> var, ret |-> ret, frame |-> frame, pc |-> pc,
   ffi |-> fctx, called |-> FALSE]

NoRegs == [frame |-> 0, arg |-> NoAddr, ret |-> NoAddr, pc |-> NoPc, sf |-> 0]

-----------------------------------------------------------------------------
(* getRefAddr and what is behind it.  args and ret are addresses of cells    *)
(* that hold addresses: in an argv block, or the host's own variable.        *)
Cell(a) == IF a.at = "stack" THEN stack[a.i].refs ELSE a
Load(a) == IF a.at = "stack" THEN stack[a.i].var ELSE host[a.i].var
StackAfter(a, v) == IF a.at = "stack" THEN [stack EXCEPT ![a.i].var = v] ELSE stack
HostAfter(a, v) == IF a.at = "host" THEN [host EXCEPT ![a.i].var = v] ELSE host

(* The registers as jumpCall saves them, with the instruction to return to.  *)
(* Mutant: the instruction to return to is the call itself.                  *)
SavedAtCall(pc) == reg
Saved(pc) == [reg EXCEPT !.pc = pc]

(* jumpCall: the registers go into a control frame, and p begins with a      *)
(* zeroed frame.  `mem` is the stack with the arguments on it.               *)
JumpCall(mem, saved, p, args, ret, sf) ==
  /\ stack' = mem \o <<Block("ctrl", NoAddr, saved, ctrl, 0), Block("frame", NoAddr, NoRegs, 0, 0)>>
  /\ ctrl' = Len(mem) + 1
  /\ reg' = [frame |-> Len(mem) + 2, arg |-> args, ret |-> ret, pc |-> [proc |-> p, n |-> 1], sf |-> sf]

(* nkir_interp_invoke, as far as its loop: `cell` is where the host has the  *)
(* argument and takes the result.                                            *)
InterpInvoke(callers, p, v) ==
  LET cell == OnHost(Len(host) + 1)
  IN /\ host' = Append(callers, Activation("entry", p, v, NoAddr, 0, reg.pc, ffi))
     /\ ffi' = CtxOf[p]
     /\ JumpCall(stack, Saved(NoPc), p, cell, cell, Len(stack))

-----------------------------------------------------------------------------
Depth == Len(host) + Cardinality({i \in DOMAIN stack : stack[i].kind = "frame"})
Idle == host = <<>>
InLoop == ~Idle /\ Last(host).kind = "entry"
InNative == ~Idle /\ Last(host).kind = "native"

Init ==
  /\ ir \in Programs
  /\ externs = FALSE
  /\ run = [procs |-> [p \in Procs |-> None], data |-> [d \in Data |-> None], errors |-> {},
            tmp |-> <<>>, top |-> 0, ok |-> TRUE, externs |-> FALSE, aborted |-> FALSE]
  /\ stack = <<>> /\ ctrl = 0 /\ reg = NoRegs /\ ffi = None /\ host = <<>>

(* nkir_setExternSymAddr, before the program is run.                         *)
SetExternSymAddr ==
  /\ Idle /\ ~externs
  /\ externs' = TRUE
  /\ UNCHANGED <<ir, run, interpVars>>

(* nkir_invoke, by the client or by native code.  No caller goes on with a   *)
(* context in which a run has failed.                                        *)
Invoke(p, v) ==
  LET tr == Translate([run EXCEPT !.ok = TRUE, !.externs = externs], ir, p)
  IN /\ Idle \/ InNative
     /\ CtxOf[p] \notin run.errors
     /\ Depth + 2 <= MaxDepth
     /\ run' = tr
     /\ IF tr.ok THEN InterpInvoke(host, p, v) ELSE UNCHANGED interpVars
     /\ UNCHANGED <<ir, externs>>

(* The end of the loop: there is no instruction to go to.  Native code goes  *)
(* on with the result of the run.                                            *)
InvokeReturns ==
  LET a == Last(host) IN
  /\ InLoop /\ reg.pc = NoPc
  /\ host' = IF Len(host) = 1 THEN <<>>
             ELSE [SubSeq(host, 1, Len(host) - 1) EXCEPT ![Len(host) - 1].var = a.var]
  /\ reg' = [reg EXCEPT !.pc = a.pc]
  /\ ffi' = a.ffi
  /\ UNCHANGED <<ir, externs, run, stack, ctrl>>

-----------------------------------------------------------------------------
(* The instruction at pc; the one after the last is the final "ret".         *)
Code == run.procs[reg.pc.proc].code
Fetch == IF reg.pc.n > Len(Code) THEN [op |-> "ret", to |-> None] ELSE Code[reg.pc.n]
Executes(op) == InLoop /\ reg.pc # NoPc /\ Fetch.op = op
NextPc == [reg.pc EXCEPT !.n = @ + 1]
Local == OnStack(reg.frame)

Get ==
  /\ Executes("get")
  /\ stack' = StackAfter(Local, Load(Cell(reg.arg)))
  /\ reg' = [reg EXCEPT !.pc = NextPc]
  /\ UNCHANGED <<ir, externs, run, ctrl, ffi, host>>

Put ==
  /\ Executes("put")
  /\ stack' = StackAfter(Cell(reg.arg), 0)
  /\ host' = HostAfter(Cell(reg.arg), 0)
  /\ reg' = [reg EXCEPT !.pc = NextPc]
  /\ UNCHANGED <<ir, externs, run, ctrl, ffi>>

Lea ==
  /\ Executes("data")
  /\ reg' = [reg EXCEPT !.pc = NextPc]
  /\ UNCHANGED <<ir, externs, run, stack, ctrl, ffi, host>>

(* The target is the position that the final "ret" of the procedure has.     *)
Jmpz ==
  LET target == Len(ir[reg.pc.proc]) + 1 IN
  /\ Executes("jmpz")
  /\ reg' = [reg EXCEPT !.pc = IF Load(Local) = 0 THEN [@ EXCEPT !.n = target] ELSE NextPc]
  /\ UNCHANGED <<ir, externs, run, stack, ctrl, ffi, host>>

(* nkop_call_jmp: the argument and the result are the caller's variable.     *)
CallJmp(p) ==
  LET argv == Len(stack) + 1 IN
  /\ Executes("call_jmp") /\ Fetch.to.proc = p
  /\ Depth < MaxDepth
  /\ JumpCall(Append(stack, Block("argv", Local, NoRegs, 0, 0)), Saved(NextPc),
              p, OnStack(argv), OnStack(argv), Len(stack))
  /\ UNCHANGED <<ir, externs, run, ffi, host>>

(* nkop_call_ext and nk_native_invoke: native code gets a copy.  A `cdecl`   *)
(* procedure is called through its closure.                                  *)
CallExt(p) ==
  /\ Executes("call_ext") /\ Fetch.to.proc = p
  /\ Depth < MaxDepth
  /\ stack' = Append(stack, Block("argv", Local, NoRegs, 0, 0))
  /\ host' = Append(host, Activation(IF Fetch.native THEN "native" ELSE "thunk", p, Load(Local),
                                     Local, Len(stack), NoPc, ffi))
  /\ reg' = [reg EXCEPT !.pc = NextPc]
  /\ UNCHANGED <<ir, externs, run, ctrl, ffi>>

(* nk_arena_popFrame.  Mutants: the arguments stay on the stack; the frame of *)
(* the caller goes too.                                                      *)
PopBelow(mem, size) == SubSeq(mem, 1, size - 1)
PopKeepsOne(mem, size) == SubSeq(mem, 1, IF Len(mem) > size + 2 THEN size + 1 ELSE size)
PopTo(mem, size) == SubSeq(mem, 1, size)

(* nkop_ret.                                                                 *)
Ret ==
  LET to == Cell(reg.ret)
      v == Load(Local)
  IN /\ Executes("ret")
     /\ stack' = PopTo(StackAfter(to, v), reg.sf)
     /\ host' = HostAfter(to, v)
     /\ reg' = stack[ctrl].saved
     /\ ctrl' = stack[ctrl].next
     /\ UNCHANGED <<ir, externs, run, ffi>>

-----------------------------------------------------------------------------
(* ffiClosure: the closure given to native code is called, or the procedure  *)
(* behind a call.  A run in it is a run of nkir_interp_invoke.               *)
CallClosure ==
  LET n == Len(host) IN
  /\ ~Idle
  /\ host[n].kind = "native" \/ (host[n].kind = "thunk" /\ ~host[n].called)
  /\ Depth + 2 <= MaxDepth
  /\ InterpInvoke([host EXCEPT ![n].called = TRUE], host[n].proc, host[n].var)
  /\ UNCHANGED <<ir, externs, run>>

(* Native code returns: ffi_call stores its result, and the frame is popped. *)
NativeReturns ==
  LET a == Last(host)
      under == SubSeq(host, 1, Len(host) - 1)
  IN /\ ~Idle
     /\ a.kind = "native" \/ (a.kind = "thunk" /\ a.called)
     /\ stack' = PopTo(StackAfter(a.ret, a.var), a.frame)
     /\ host' = under
     /\ UNCHANGED <<ir, externs, run, ctrl, reg, ffi>>

Next ==
  \/ SetExternSymAddr
  \/ \E p \in Procs, v \in {0, 1} : Invoke(p, v)
  \/ InvokeReturns
  \/ Get \/ Put \/ Lea \/ Jmpz
  \/ \E p \in Procs : CallJmp(p) \/ CallExt(p)
  \/ Ret
  \/ CallClosure
  \/ NativeReturns

Spec == Init /\ [][Next]_vars

-----------------------------------------------------------------------------
(* The calls in progress, in the order they were made: those of the host,    *)
(* each above the frames that the stack had then, and the frames.            *)
Frames(top) == Cardinality({i \in 1..top : stack[i].kind = "frame"})
Under(k) == IF host[k].kind # "entry" THEN host[k].frame ELSE IF k = 1 THEN 0 ELSE host[k - 1].frame
Place(k) == k + Frames(Under(k))
HostAt(n) == {k \in DOMAIN host : Place(k) = n}
HostBefore(n) == {k \in DOMAIN host : Place(k) < n}
NthFrame(j) == CHOOSE i \in DOMAIN stack : stack[i].kind = "frame" /\ Frames(i) = j

(* Where the procedure of the frame i will go on: after the run that began   *)
(* above it, after the procedure that it called, or now.                     *)
RunsAbove(i) == {k \in 2..Len(host) : host[k].kind = "entry" /\ host[k - 1].frame = i}
PcOf(i) == IF RunsAbove(i) # {} THEN host[CHOOSE k \in RunsAbove(i) : TRUE].pc
           ELSE IF i + 2 <= Len(stack) THEN stack[i + 2].saved.pc ELSE reg.pc

HostCall(k) == [kind |-> IF host[k].kind = "entry" THEN "entry" ELSE "native", proc |-> host[k].proc,
                pc |-> 1, var |-> host[k].var]
FrameCall(i) == [kind |-> "proc", proc |-> PcOf(i).proc, pc |-> PcOf(i).n, var |-> stack[i].var]
CallAt(n) == IF HostAt(n) # {} THEN HostCall(CHOOSE k \in HostAt(n) : TRUE)
             ELSE FrameCall(NthFrame(n - Cardinality(HostBefore(n))))
Calls == [n \in 1..Depth |-> CallAt(n)]

(* The interpreter with its registers, control frames and addresses does     *)
(* what a stack of calls does: interp.cpp:88-147, 210-256, 545-594.          *)
Abstract == INSTANCE CallStack WITH calls <- Calls
RefinesCallStack == Abstract!Spec

(* Between runs nothing is left on the stack, whatever was called back in    *)
(* between; the destructor asserts it (interp.cpp:57).                       *)
BalancedExit == Idle => stack = <<>> /\ ctrl = 0 /\ reg = NoRegs /\ ffi = None

(* Every procedure that has a call in progress, and every procedure and      *)
(* datum it can reach, has been translated and linked, also when another     *)
(* context has failed half way (bytecode.cpp:544-575, 638-647); native code  *)
(* is called, and closures are made, with the types of the context whose     *)
(* procedure is running (interp.cpp:545-594); and no second error meets the  *)
(* assertion of reportError (bytecode.cpp:156).                              *)
RunsWhole ==
  /\ ~run.aborted
  /\ reg.pc # NoPc => ffi = CtxOf[reg.pc.proc]
  /\ \A n \in DOMAIN Calls : Calls[n].kind = "proc" =>
       \A q \in CalledFrom(ir, Calls[n].proc) : IsWhole(run, ir, q)

(* Every address that is held, in a register now or in a control frame, is   *)
(* of a block below it, however calls, runs and native code are nested: what *)
(* is popped at once is what nobody refers to (interp.cpp:88-147, 545-594).  *)
LiveAddr(a, top) == CASE a.at = "stack" -> a.i \in 1..top
                      [] a.at = "host"  -> a.i \in DOMAIN host
                      [] OTHER          -> TRUE
LiveRegs(r, top) ==
  /\ r.frame \in 0..top /\ r.sf \in 0..top
  /\ r.frame # 0 => stack[r.frame].kind = "frame"
  /\ \A a \in {r.arg, r.ret} : LiveAddr(a, top) /\ (a.at = "stack" => LiveAddr(Cell(a), a.i - 1))
AddressesLive ==
  /\ LiveRegs(reg, Len(stack))
  /\ \A i \in DOMAIN stack : stack[i].kind = "ctrl" => LiveRegs(stack[i].saved, i - 1)

(* A `cdecl` procedure is called with the description of the arguments that  *)
(* its closure was made with.  nk_native_makeClosure keeps it in the         *)
(* temporary arena (ffi_adapter.cpp:185), which translateProc pops           *)
(* (bytecode.cpp:207).                                                       *)
ClosureTypesKept ==
  Executes("call_ext") /\ ~Fetch.native => run.tmp[Fetch.to.argt] = Params[Fetch.to.proc]
=============================================================================
