---------------------------- MODULE Declarations ----------------------------
(***************************************************************************)
(* Declarations in the compiler of nkl_core: constants that are evaluated  *)
(* when they are first used, imports, exports and code that is run while   *)
(* it is compiled (nkl_core/src/compiler.cpp, compiler_state.cpp), over    *)
(* the cache of source files (nkl_core/src/nickl.c).                       *)
(*                                                                         *)
(* A constant keeps a copy of the context of its declaration and is        *)
(* compiled in it at its first use.  The copy has the scopes, but a scope's*)
(* hash tree is copied with its root: what is declared later is seen       *)
(* through the copy only if the tree was not empty (`seen`).               *)
(*                                                                         *)
(* Compilation is one call without interruption, so the functions of the   *)
(* compiler are operators on the compiler's state `s`; the actions are the *)
(* calls of a client, for several compilers over one cache of sources.     *)
(* After an error every function returns at its next CHECK or DEFINE, but  *)
(* what it does before that is done, and the scopes are left one by one.   *)
(*                                                                         *)
(* An expression is a number, a name, a procedure, an import or a member of*)
(* an imported module; a statement declares, exports, shows or calls one,  *)
(* opens a scope, or runs a body at once.  Every statement has a place, the*)
(* file and the path of statement numbers that lead to it.                 *)
(***************************************************************************)
EXTENDS Naturals, Sequences, FiniteSets, SequencesExt

CONSTANTS
  Names,      (* names of constants                                         *)
  Files,      (* file names                                                 *)
  Compilers,  (* compilers over one state                                   *)
  Texts,      (* the bodies the files may have                              *)
  None

VARIABLES
  disk,      (* the text of a file, None if it cannot be read               *)
  sources,   (* NklState.files: None, or what it got when first asked for   *)
  comps,     (* the state of each compiler                                  *)
  answers    (* the calls of each compiler and their results, in order      *)

vars == <<disk, sources, comps, answers>>

Lit(n) == [e |-> "lit", n |-> n]
Id(x) == [e |-> "id", x |-> x]
Proc(body) == [e |-> "proc", body |-> body]
Import(f) == [e |-> "import", f |-> f]
Member(m, x) == [e |-> "member", m |-> m, x |-> x]

Const(x, val) == [k |-> "const", x |-> x, val |-> val]
Export(x, val) == [k |-> "export", x |-> x, val |-> val]
Show(val) == [k |-> "show", val |-> val]
CallOf(val) == [k |-> "call", val |-> val]
Scope(body) == [k |-> "scope", body |-> body]
RunNow(body) == [k |-> "run", body |-> body]

(* A compiler's state.  `tables` are the scopes' declarations, `procs` the   *)
(* code of the procedures, `files` its contexts for files, `unpopped` the    *)
(* contexts in which a scope was left without popScope, `cache` the sources  *)
(* while a call is in progress.  The rest is what the properties speak of:   *)
(* which names were bound to which scope, whether procedures were run before *)
(* they were complete, and the assertion that failed.                        *)
NewCompiler ==
  [tables |-> <<>>, procs |-> <<>>, files |-> [f \in Files |-> None],
   names |-> {}, merged |-> <<>>, unpopped |-> {}, cache |-> None,
   err |-> FALSE, abort |-> "", bindings |-> {}, partial |-> FALSE, cyclic |-> FALSE]

Stopped(s) == s.err \/ s.abort # ""
Error(s) == [s EXCEPT !.err = TRUE]
Abort(s, why) == [s EXCEPT !.abort = why]
NoDecls == [x \in Names |-> None]

(* A scope in a context: the table, and whether its tree is seen.            *)
View(t) == [t |-> t, seen |-> TRUE]
IsEmpty(s, t) == \A x \in Names : s.tables[t].decls[x] = None

-----------------------------------------------------------------------------
(* The context of a file itself, whose innermost scope an import of the file *)
(* gets, as opposed to the copies of it that constants are compiled in.      *)
IsOfFile(ctx) == ctx.id = <<ctx.file>>
Innermost(s, ctx, t) == IF IsOfFile(ctx) THEN [s EXCEPT !.files[ctx.file].table = t] ELSE s

(* pushScope: a new table; its place is that of the block of statements.     *)
PushScope(s, ctx, place) ==
  [s   |-> Innermost([s EXCEPT !.tables = Append(@, [decls |-> NoDecls, place |-> place])], ctx, Len(s.tables) + 1),
   ctx |-> [ctx EXCEPT !.scopes = <<View(Len(s.tables) + 1)>> \o @, !.exports = <<>>]]

(* popScope.  The scope of the file is pushed again by importFile.           *)
PopScope(s, ctx) == IF Len(ctx.scopes) = 1 THEN s ELSE Innermost(s, ctx, ctx.scopes[2].t)

(* cloneList, in defineComptimeUnresolved.                                   *)
Clone(s, ctx, place) ==
  [ctx EXCEPT !.scopes = [i \in DOMAIN @ |-> [@[i] EXCEPT !.seen = @ /\ ~IsEmpty(s, ctx.scopes[i].t)]], !.id = place]

(* makeDecl, for a constant.                                                 *)
DefineComptime(s, ctx, x, val, place) ==
  LET t == ctx.scopes[1].t
      d == [kind |-> "unresolved", ctx |-> Clone(s, ctx, place), val |-> val, place |-> place]
  IN IF s.tables[t].decls[x] # None THEN Error(s) ELSE [s EXCEPT !.tables[t].decls[x] = d]

(* resolve: the innermost scope that has the name, 0 if there is none.       *)
Resolve(s, ctx, x) ==
  LET has == {i \in DOMAIN ctx.scopes : /\ ctx.scopes[i].seen
                                        /\ s.tables[ctx.scopes[i].t].decls[x] # None}
  IN IF has = {} THEN 0 ELSE ctx.scopes[CHOOSE i \in has : \A j \in has : i <= j].t

(* What an observer notes of it: where the name stands, the block whose      *)
(* declaration it got, and whether every scope of the context was seen.      *)
Noted(s, ctx, x, t, place) ==
  LET all == \A i \in DOMAIN ctx.scopes : ctx.scopes[i].seen
      held == {s.tables[i].place : i \in {j \in DOMAIN s.tables : s.tables[j].decls[x] # None}}
  IN IF t = 0 THEN s
     ELSE [s EXCEPT !.bindings = @ \cup {[place |-> place, x |-> x, to |-> s.tables[t].place,
                                          held |-> held, all |-> all]}]

(* The value of a procedure, with the table of its scope.                    *)
ProcVal(p, t) == [v |-> "proc", p |-> p, t |-> t]
NumVal(n) == [v |-> "num", p |-> n, t |-> 0]

EmitInstr(s, ctx, instr) == [s EXCEPT !.procs[ctx.proc].code = Append(@, instr)]

(* The procedures a run may come to.                                         *)
RECURSIVE Reach(_, _)
Reach(s, ps) ==
  LET more == ps \cup UNION {{s.procs[p].code[i].n : i \in {j \in DOMAIN s.procs[p].code :
                                                            s.procs[p].code[j].op = "call"}} : p \in ps}
  IN IF more = ps THEN ps ELSE Reach(s, more)

(* n_run: nkir_invoke translates and runs what the procedure refers to.      *)
Invoke(s, p) == [s EXCEPT !.partial = @ \/ \E q \in Reach(s, {p}) : ~s.procs[q].done]

(* nkl_getSource.  The entry is made first and stays, without nodes if the   *)
(* file cannot be read or if there has been an error before.                 *)
GetSource(s, f) ==
  LET parsed == disk[f] # None /\ ~s.err IN
  IF s.cache[f] # None THEN s
  ELSE [s EXCEPT !.cache[f] = [parsed |-> parsed, nodes |-> IF parsed THEN disk[f] ELSE <<>>], !.err = @ \/ disk[f] = None]

(* The assertion of importFile.  Mutant: a source without nodes will do.     *)
NeedsNoNodes(src) == TRUE
HasNodes(src) == src.parsed

-----------------------------------------------------------------------------
(* The context a constant is compiled in.  Mutant: that of its user.         *)
ContextOfUser(d, user) == [user EXCEPT !.exports = <<>>]
ContextOf(d, user) == d.ctx

(* A constant is Complete.  Mutant: its value is not kept.                   *)
KeptNot(d, val) == [d EXCEPT !.kind = "unresolved"]
Kept(d, val) == [d EXCEPT !.kind = "complete", !.val = val]

(* What follows a result, unless an error or an assertion stopped it.        *)
Then(r, Next(_)) == IF Stopped(r.s) THEN r ELSE Next(r)
Using(r, Next(_)) == Next(r)

(* The functions below call each other.                                      *)
RECURSIVE Eval(_, _, _, _), Body(_, _, _, _), CompileProc(_, _, _, _), LeaveScope(_, _, _)
RECURSIVE ResolveDecl(_, _, _, _), ImportFile(_, _), CompileStmt(_, _, _, _)

(* resolveDecl and resolveComptime: the state and the value.                 *)
ResolveDecl(s, ctx, t, x) ==
  LET d == s.tables[t].decls[x] IN
  CASE d.kind = "complete"   -> [s |-> s, val |-> d.val]
    [] d.kind = "incomplete" -> [s |-> Abort(s, "incomplete"), val |-> None]
    [] OTHER -> Then(Eval([s EXCEPT !.tables[t].decls[x].kind = "incomplete"], ContextOf(d, ctx), d.val, d.place),
                     LAMBDA r : [r EXCEPT !.s.tables[t].decls[x] = Kept(@, r.val)])

(* compile, for an expression.  The value of an import is the top level      *)
(* procedure, the first one of all where it is not known yet, with the scope *)
(* that is innermost in the file's context.                                  *)
Imported(s, c) ==
  [s |-> [s EXCEPT !.cyclic = @ \/ c.top = 0], val |-> ProcVal(IF c.top = 0 THEN 1 ELSE c.top, c.table)]
Eval(s, ctx, e, place) ==
  CASE e.e = "lit" -> [s |-> s, val |-> NumVal(e.n)]
    [] e.e = "id" ->
         Using(Resolve(s, ctx, e.x),
               LAMBDA t : IF t = 0 THEN [s |-> Error(Noted(s, ctx, e.x, t, place)), val |-> None]
                          ELSE ResolveDecl(Noted(s, ctx, e.x, t, place), ctx, t, e.x))
    [] e.e = "proc" -> Then([s |-> s, val |-> None], LAMBDA q : CompileProc(q.s, ctx, e.body, place))
    [] e.e = "import" -> Then(ImportFile(s, e.f), LAMBDA r : Imported(r.s, r.s.files[e.f]))
    [] e.e = "member" ->
         Then(Eval(s, ctx, e.m, place),
              LAMBDA m : IF m.val.v # "proc" \/ m.s.tables[m.val.t].decls[e.x] = None
                         THEN [s |-> Error(m.s), val |-> None]
                         ELSE ResolveDecl(m.s, ctx, m.val.t, e.x))

(* compileProc: the procedure's own scope, its body, and on leaving it the   *)
(* exports and the final return.                                             *)
NewProc(place) == [code |-> <<>>, done |-> FALSE, place |-> place]
Done(s, p, t) == [s |-> IF Stopped(s) THEN s ELSE [s EXCEPT !.procs[p].done = TRUE], val |-> ProcVal(p, t)]
CompileProc(s, ctx, body, place) ==
  LET p == Len(s.procs) + 1 IN
  Using(PushScope([s EXCEPT !.procs = Append(@, NewProc(place))], [ctx EXCEPT !.proc = p], place),
        LAMBDA begun : Using(Body(begun.s, begun.ctx, body, place),
          LAMBDA r : Done(LeaveScope(r.s, r.ctx, r.ctx.exports), p, Len(begun.s.tables))))

(* leaveScope: exported constants are resolved, the last one first.  It      *)
(* returns, and the scope stays, at one that is incomplete or once there is  *)
(* an error; the scopes around it then find that one in their way.           *)
Exported(r, f) ==
  IF r.val.v # "proc" THEN [r EXCEPT !.s = Abort(@, "invalid ast")]
  ELSE [r EXCEPT !.s.files[f].exports = Append(@, r.val.p)]
Unpopped(s, ctx) == [s EXCEPT !.unpopped = @ \cup {ctx.id}]
LeaveNext(s, ctx, exports) ==
  LET x == Last(exports)
      t == Resolve(s, ctx, x)
  IN CASE t = 0 -> Abort(s, "export")
       [] t # 0 /\ s.tables[t].decls[x].kind = "incomplete" -> Unpopped(s, ctx)
       [] OTHER -> Using(Then(ResolveDecl(s, ctx, t, x), LAMBDA r : Exported(r, ctx.file)),
                         LAMBDA r : IF Stopped(r.s) THEN Unpopped(r.s, ctx) ELSE LeaveScope(r.s, ctx, Front(exports)))
LeaveScope(s, ctx, exports) ==
  CASE s.abort # "" \/ ctx.id \in s.unpopped -> s
    [] s.abort = "" /\ ctx.id \notin s.unpopped /\ exports = <<>> -> PopScope(s, ctx)
    [] OTHER -> LeaveNext(s, ctx, exports)

(* n_list.                                                                   *)
Body(s, ctx, body, place) ==
  LET one(a, i) == Then(a, LAMBDA q : CompileStmt(q.s, q.ctx, body[i], Append(place, i)))
  IN FoldLeft(one, [s |-> s, ctx |-> ctx], [i \in DOMAIN body |-> i])

(* compileStmt.                                                              *)
ShowIt(r, ctx) == EmitInstr(r.s, ctx, [op |-> "show", n |-> r.val.p])
CallIt(r, ctx) == IF r.val.v # "proc" THEN Error(r.s) ELSE EmitInstr(r.s, ctx, [op |-> "call", n |-> r.val.p])
CompileStmt(s, ctx, st, place) ==
  CASE st.k = "const" -> [s |-> DefineComptime(s, ctx, st.x, st.val, place), ctx |-> ctx]
    [] st.k = "export" ->
         [s |-> IF <<ctx.file, st.x>> \in s.names THEN Error(s)
                ELSE DefineComptime([s EXCEPT !.names = @ \cup {<<ctx.file, st.x>>}], ctx, st.x, st.val, place),
          ctx |-> [ctx EXCEPT !.exports = Append(@, st.x)]]
    [] st.k \in {"show", "call"} ->
         [s |-> Then(Eval(s, ctx, st.val, place),
                     LAMBDA r : [r EXCEPT !.s = IF st.k = "show" THEN ShowIt(r, ctx) ELSE CallIt(r, ctx)]).s,
          ctx |-> ctx]
    [] st.k = "scope" ->
         [s |-> Using(PushScope(s, ctx, place),
                      LAMBDA begun : Using(Body(begun.s, begun.ctx, st.body, place),
                        LAMBDA r : LeaveScope(r.s, r.ctx, r.ctx.exports))),
          ctx |-> ctx]
    [] st.k = "run" ->
         [s |-> Then(CompileProc(s, ctx, st.body, place), LAMBDA r : [r EXCEPT !.s = Invoke(@, r.val.p)]).s,
          ctx |-> ctx]

(* importFile.  The context is entered before the file is compiled; its top  *)
(* level is known afterwards.                                                *)
EnterFile(s, f) == [s EXCEPT !.files[f] = [top |-> 0, table |-> 0, exports |-> <<>>]]
FileContext(f) == [id |-> <<f>>, file |-> f, scopes |-> <<>>, proc |-> 0, exports |-> <<>>]
NewContext(s, f) ==
  IF ~HasNodes(s.cache[f]) THEN [s |-> Abort(EnterFile(s, f), "no nodes"), val |-> None]
  ELSE Then(CompileProc(EnterFile(s, f), FileContext(f), s.cache[f].nodes, <<f>>),
            LAMBDA r : [r EXCEPT !.s.files[f].top = r.val.p])
ImportFile(s, f) ==
  Then([s |-> GetSource(s, f), val |-> None], LAMBDA r : IF r.s.files[f] # None THEN r ELSE NewContext(r.s, f))

-----------------------------------------------------------------------------
(* nkir_mergeModules: what is there already is not added again.              *)
Merge(dst, src) == FoldLeft(LAMBDA merged, p : IF p \in Range(merged) THEN merged ELSE Append(merged, p), dst, src)

Init ==
  /\ disk \in Texts
  /\ sources = [f \in Files |-> None]
  /\ comps = [c \in Compilers |-> NewCompiler]
  /\ answers = [c \in Compilers |-> <<>>]

Alive == \A c \in Compilers : comps[c].abort = ""

(* The outside world: a file that could not be read is there.                *)
CreateFile(f) ==
  /\ Alive
  /\ disk[f] = None
  /\ \E text \in {d[f] : d \in Texts} \ {None} : disk' = [disk EXCEPT ![f] = text]
  /\ UNCHANGED <<sources, comps, answers>>

(* nkl_compileFile and nkl_runFile: what a call leaves, and what it says;    *)
(* of a call that failed nobody asks again what it was for.                  *)
Refused == [ok |-> FALSE, op |-> None, file |-> None]
Finish(c, op, f, s) ==
  /\ comps' = [comps EXCEPT ![c] = [s EXCEPT !.cache = None]]
  /\ sources' = s.cache
  /\ answers' = [answers EXCEPT ![c] = Append(@, IF Stopped(s) THEN Refused ELSE [ok |-> TRUE, op |-> op, file |-> f])]
  /\ UNCHANGED disk

AfterCompile(s, f) == IF Stopped(s) THEN s ELSE [s EXCEPT !.merged = Merge(@, s.files[f].exports)]
AfterRun(s, f) == IF Stopped(s) THEN s ELSE Invoke(s, s.files[f].top)
ImportInto(c, f) == ImportFile([comps[c] EXCEPT !.cache = sources], f).s
CompileFile(c, f) == Alive /\ \E s \in {AfterCompile(ImportInto(c, f), f)} : Finish(c, "compile", f, s)
RunFile(c, f) == Alive /\ \E s \in {AfterRun(ImportInto(c, f), f)} : Finish(c, "run", f, s)

MaxCalls == 2  (* bound: calls of the client for one compiler *)
MaxInAll == 3  (* bound: calls of the client for all of them  *)
Calls == FoldFunctionOnSet(LAMBDA seq, n : Len(seq) + n, 0, answers, Compilers)

Next ==
  \/ \E f \in Files : CreateFile(f)
  \/ \E c \in Compilers, f \in Files :
       Len(answers[c]) < MaxCalls /\ Calls < MaxInAll /\ (CompileFile(c, f) \/ RunFile(c, f))

Spec == Init /\ [][Next]_vars

-----------------------------------------------------------------------------
(* A name means the declaration of a block around the place where it is      *)
(* written, wherever the constant is used first; and the innermost one that  *)
(* has been compiled, unless a scope of the context is not seen              *)
(* (compiler_state.cpp:253-279, compiler.cpp:484-541).                       *)
NamesBoundLexically ==
  \A c \in Compilers : \A b \in comps[c].bindings :
    /\ IsPrefix(b.to, b.place)
    /\ b.all => \A p \in b.held : IsPrefix(p, b.place) => Len(p) <= Len(b.to)

(* A compiler compiles the text of a procedure once, however often it is     *)
(* used, imported or exported, and what it runs while it compiles is         *)
(* complete, unless files import each other (compiler.cpp:484-541, 782-847). *)
CompiledOnce ==
  \A c \in Compilers :
    /\ comps[c].partial => comps[c].cyclic
    /\ \A i, j \in DOMAIN comps[c].procs : i # j => comps[c].procs[i].place # comps[c].procs[j].place

(* A compiler without error compiled a file from the text that is on the     *)
(* disk and from all of it.                                                  *)
TextOf(f) == IF disk[f] = None THEN <<>> ELSE disk[f]
Declared(f, kinds) == {st.x : st \in {i \in Range(TextOf(f)) : i.k \in kinds}}
RECURSIVE Emitted(_)
Emitted(body) ==
  FoldLeft(LAMBDA n, st : CASE st.k \in {"show", "call"} -> n + 1 [] st.k = "scope" -> n + Emitted(st.body) [] OTHER -> n, 0, body)
ReadInFull(s, f) ==
  /\ disk[f] # None
  /\ s.files[f].top # 0 /\ s.procs[s.files[f].top].done
  /\ Len(s.procs[s.files[f].top].code) = Emitted(TextOf(f))
  /\ {x \in Names : s.tables[s.files[f].table].decls[x] # None} = Declared(f, {"const", "export"})

(* A call answers that it was successful only if no call of its compiler has *)
(* failed.  Then what it was asked for, and all that this imports, was read  *)
(* in full, whichever compiler asked for a file first, whether it could be   *)
(* read then, and whether there had been an error: an entry of the cache     *)
(* without nodes never passes for an empty file.  Every declaration is open  *)
(* or complete, what was merged into the client's module are complete        *)
(* procedures, each once, and those that the text on the disk exports are    *)
(* among them (nickl.c:50-76, compiler.cpp:654-681, 782-847, 1921-1957,      *)
(* nkb/src/ir.cpp:126-141).                                                  *)
Succeeded(c) == answers[c] # <<>> /\ Last(answers[c]).ok
Merged(s, d) == d.kind = "complete" /\ d.val.p \in Range(s.merged)
ExportsComplete ==
  \A c \in Compilers :
    LET s == comps[c] IN
    /\ \A i, j \in DOMAIN answers[c] : i < j /\ answers[c][j].ok => answers[c][i].ok
    /\ Succeeded(c) =>
         /\ \A a \in Range(answers[c]) : s.files[a.file] # None
         /\ \A f \in Files : s.files[f] # None => ReadInFull(s, f)
         /\ \A t \in DOMAIN s.tables, x \in Names :
              s.tables[t].decls[x] # None => s.tables[t].decls[x].kind # "incomplete"
         /\ \A i \in DOMAIN s.merged : s.procs[s.merged[i]].done
         /\ IsInjective(s.merged)
         /\ \A a \in Range(answers[c]) : a.op = "compile" =>
              \A x \in Declared(a.file, {"export"}) : Merged(s, s.tables[s.files[a.file].table].decls[x])
=============================================================================
