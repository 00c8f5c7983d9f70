---------------------------- MODULE MCExecution -----------------------------
(***************************************************************************)
(* Procedures, as `unit` says: the statements of one are compiled to       *)
(* instructions, or programs run.  There are two programs.  In the first,  *)
(* f and the `cdecl` procedure g have every body of up to two              *)
(* instructions, which may call each other and themselves; g may give a    *)
(* closure of itself to native code, and f may refer to a datum of two     *)
(* that contain each other's addresses.  The second program is the         *)
(* procedure h, which gives a closure of itself to native code.            *)
(***************************************************************************)
EXTENDS Interpreter, LazyTranslation, StatementLowering

CONSTANTS f, g, h, d1, d2, a1, a2, int, pair

MCProcs == {f, g, h}
MCCtxOf == [p \in MCProcs |-> IF p = h THEN a2 ELSE a1]
MCParams == [p \in MCProcs |-> int]
MCRelocs == [d \in {d1, d2} |-> IF d = d1 THEN <<d2>> ELSE <<d1>>]

Bodies(pool) == {<<>>} \cup {<<i>> : i \in pool} \cup {<<i, j>> : i \in pool, j \in pool}
BodiesOfF == Bodies({Plain("get"), Plain("put"), Plain("jmpz"), DataRef(d1), Ref("call", f),
                     Ref("call", g)})
BodiesOfG == Bodies({Plain("get"), Ref("call", f), Ref("native", g)})
BodyOfH == <<Plain("get"), Ref("native", h)>>

MCPrograms == {[p \in MCProcs |-> CASE p = f -> bf [] p = g -> bg [] OTHER -> BodyOfH] :
                 bf \in BodiesOfF, bg \in BodiesOfG}

(* For the closures, one program: f calls g twice, and g calls h.            *)
MCOneCtx == [p \in MCProcs |-> a1]
MCTwoTypes == [p \in MCProcs |-> IF p = g THEN int ELSE pair]
MCClosurePrograms ==
  {[p \in MCProcs |-> CASE p = f -> <<Ref("call", g), Ref("call", g)>>
                        [] p = g -> <<Ref("call", h)>>
                        [] OTHER -> <<Plain("get")>>]}

-----------------------------------------------------------------------------
VARIABLE unit

NoBodies == [p \in Procs |-> IF p = h THEN BodyOfH ELSE <<>>]

ExecutionInit ==
  /\ unit \in {"run", "lower"}
  /\ LoweringInit
  /\ Init /\ (unit = "lower" => ir = NoBodies)
ExecutionNext ==
  /\ UNCHANGED unit
  /\ \/ unit = "run" /\ Next /\ UNCHANGED ctx
     \/ unit = "lower" /\ LoweringNext /\ UNCHANGED vars
Execution == ExecutionInit /\ [][ExecutionNext]_<<unit, ctx, vars>>
=============================================================================
