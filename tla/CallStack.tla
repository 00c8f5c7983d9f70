------------------------------ MODULE CallStack ------------------------------
(***************************************************************************)
(* What running a program of nkb promises, without bytecode, registers or  *)
(* addresses: calls are stacked, and each goes on after the call it made   *)
(* with its own variables.                                                 *)
(*                                                                         *)
(* A call is of a procedure, of native code, or of the outside world that  *)
(* asked for the run (an "entry").  Parameters are passed by reference     *)
(* between procedures: the parameter of a call is the variable of the call *)
(* below it.  Native code has a copy.                                      *)
(***************************************************************************)
EXTENDS Naturals, Sequences

CONSTANTS Procs, Cdecl, None, MaxDepth

VARIABLES
  ir,     (* the bodies of the procedures                                   *)
  calls   (* the calls in progress, the innermost last                      *)

Call(kind, proc, var) == [kind |-> kind, proc |-> proc, pc |-> 1, var |-> var]

Depth == Len(calls)
Top == calls[Depth]
Running == calls # <<>> /\ Top.kind = "proc"
Instruction == IF Top.pc > Len(ir[Top.proc]) THEN [op |-> "ret", proc |-> None] ELSE ir[Top.proc][Top.pc]
Advanced == [calls EXCEPT ![Depth].pc = @ + 1]

(* A run begins: the client, or native code, invokes p.                      *)
Invoke(p, v) ==
  /\ calls = <<>> \/ Top.kind = "native"
  /\ Depth + 2 <= MaxDepth
  /\ calls' = calls \o <<Call("entry", p, v), Call("proc", p, 0)>>
  /\ UNCHANGED ir

(* Native code goes on with the result of the run.                           *)
InvokeReturns ==
  /\ calls # <<>> /\ Top.kind = "entry"
  /\ calls' = IF Depth = 1 THEN <<>>
              ELSE [SubSeq(calls, 1, Depth - 1) EXCEPT ![Depth - 1].var = Top.var]
  /\ UNCHANGED ir

Step ==
  /\ Running
  /\ Instruction.op \in {"get", "put", "data", "jmpz"}
  /\ calls' = CASE Instruction.op = "get"  -> [Advanced EXCEPT ![Depth].var = calls[Depth - 1].var]
                [] Instruction.op = "put"  -> [Advanced EXCEPT ![Depth - 1].var = 0]
                [] Instruction.op = "jmpz" -> IF Top.var # 0 THEN Advanced
                                              ELSE [calls EXCEPT ![Depth].pc = Len(ir[Top.proc]) + 1]
                [] OTHER                   -> Advanced
  /\ UNCHANGED ir

CallProc ==
  /\ Running
  /\ Instruction.op = "call" /\ Instruction.proc \notin Cdecl
  /\ Depth < MaxDepth
  /\ calls' = Append(Advanced, Call("proc", Instruction.proc, 0))
  /\ UNCHANGED ir

CallNative ==
  /\ Running
  /\ Instruction.op = "native" \/ (Instruction.op = "call" /\ Instruction.proc \in Cdecl)
  /\ Depth < MaxDepth
  /\ calls' = Append(Advanced, Call("native", Instruction.proc, Top.var))
  /\ UNCHANGED ir

(* The result of a call becomes the variable of its caller.                  *)
Return ==
  /\ calls # <<>> /\ Depth > 1
  /\ Top.kind = "native" \/ (Running /\ Instruction.op = "ret")
  /\ calls' = [SubSeq(calls, 1, Depth - 1) EXCEPT ![Depth - 1].var = Top.var]
  /\ UNCHANGED ir

Init == calls = <<>>

Next ==
  \/ \E p \in Procs, v \in {0, 1} : Invoke(p, v)
  \/ InvokeReturns
  \/ Step
  \/ CallProc
  \/ CallNative
  \/ Return

Spec == Init /\ [][Next]_<<ir, calls>>
=============================================================================
