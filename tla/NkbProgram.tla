----------------------------- MODULE NkbProgram -----------------------------
(***************************************************************************)
(* Programs of nkb as their interpreter sees them: procedures whose code   *)
(* refers to other procedures and to data, and what of it has been made    *)
(* ready to run (`tr`, see LazyTranslation).                               *)
(***************************************************************************)
EXTENDS Naturals, Sequences, FiniteSets, SequencesExt

CONSTANTS
  Procs,     (* the procedures of all programs                              *)
  Data,      (* their global data                                           *)
  Ctxs,      (* the run contexts, one for each program                      *)
  CtxOf,     (* the context of a procedure                                  *)
  Cdecl,     (* the procedures with the calling convention of C             *)
  Params,    (* the types of the parameters of a procedure                  *)
  Relocs,    (* for each datum, the data whose addresses it contains        *)
  None       (* no bytecode, no address: a null pointer                     *)

ASSUME TranslationAssumption ==
  /\ CtxOf \in [Procs -> Ctxs] /\ None \notin Procs
  /\ Cdecl \subseteq Procs
  /\ Relocs \in [Data -> Seq(Data)]

(* An instruction of the IR.  "call" calls a procedure; "native" calls an    *)
(* extern procedure and gives it a closure; "data" refers to a datum; "get", *)
(* "put" read and write the parameter; "jmpz" goes to the final "ret".       *)
Ref(op, proc) == [op |-> op, proc |-> proc, data |-> None]
DataRef(d) == [op |-> "data", proc |-> None, data |-> d]
Plain(op) == Ref(op, None)
Instructions ==
  {Ref(op, p) : op \in {"call", "native"}, p \in Procs} \cup {DataRef(d) : d \in Data}
  \cup {Plain(op) : op \in {"get", "put", "jmpz"}}

(* The opcode of a call depends on what is called.                           *)
Opcode(i) ==
  IF i.op = "native" \/ (i.op = "call" /\ i.proc \in Cdecl) THEN "call_ext"
  ELSE IF i.op = "call" THEN "call_jmp" ELSE i.op

(* Mutant: only the first procedure referred to.                             *)
FirstReference(body) ==
  SelectSeq([n \in DOMAIN body |-> IF n = 1 THEN body[n].proc ELSE None], LAMBDA q : q # None)

(* referenced_procs, and the relocations: the same instructions.             *)
References(body) == SelectSeq([n \in DOMAIN body |-> body[n].proc], LAMBDA q : q # None)

-----------------------------------------------------------------------------
(* What can be called from p, and the data that can be reached.              *)
Reaches(step(_), x, all) ==
  {y \in all : \A S \in SUBSET all : x \in S /\ (\A z \in S : step(z) \subseteq S) => y \in S}

CalledFrom(ir, p) == Reaches(LAMBDA q : Range(References(ir[q])), p, Procs)
DataOf(ir, p) == {ir[p][n].data : n \in DOMAIN ir[p]} \ {None}
DataFrom(d) == Reaches(LAMBDA e : Range(Relocs[e]), d, Data)

(* The code of p says what its body says, and refers to procedures and data  *)
(* that exist.                                                               *)
IsWhole(tr, ir, p) ==
  /\ tr.procs[p] # None
  /\ tr.procs[p].linked
  /\ Len(tr.procs[p].code) = Len(ir[p])
  /\ \A n \in DOMAIN ir[p] :
       /\ tr.procs[p].code[n].op = Opcode(ir[p][n])
       /\ ir[p][n].proc # None => /\ tr.procs[p].code[n].to # None
                                 /\ tr.procs[p].code[n].to.proc = ir[p][n].proc
  /\ \A d \in DataOf(ir, p) : \A e \in DataFrom(d) : tr.data[e] = Relocs[e]
=============================================================================
