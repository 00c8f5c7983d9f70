---------------------------- MODULE SymbolLoading ----------------------------
(***************************************************************************)
(* Resolving the address of a symbol at run time: nkl_getSymbolAddress,    *)
(* the resolver nickl gives to each IR module (nkl_core2/src/nickl.c), and *)
(* nkir_getSymbolAddress (nkb2/src/ir.c) over the LLVM JIT.                *)
(*                                                                         *)
(* nkir_getSymbolAddress computes everything the symbol depends on in its  *)
(* module and visits it in the order of a hash tree.  What was loaded      *)
(* before becomes a declaration; the rest is marked loaded and is either   *)
(* emitted or, for an extern, resolved: in a library, or in a linked       *)
(* module by a nested nkir_getSymbolAddress.  Only after the last          *)
(* dependency does it touch the JIT: define the externs, add one LLVM      *)
(* module with the emitted definitions, look the symbol up.  The variable  *)
(* `stack` holds the nested calls, and a step visits one dependency.       *)
(*                                                                         *)
(* Linking goes on between requests, so this module extends ModuleLinking  *)
(* and its next-state relation contains the steps of that module.          *)
(***************************************************************************)
EXTENDS ModuleLinking

CONSTANTS
  LibSyms,  (* the <<library, symbol>> the dynamic loader can find          *)
  Aliases,  (* the <<alias, library>> a client may register                 *)
  Null      (* the answer to a request that failed                          *)

(* An address is the place it points into: a module's code or a library's.   *)
Addr == (Mods \cup Names) \X Syms

(* An entry of a JIT dylib: where the symbol is, and the symbols its LLVM    *)
(* module refers to.                                                         *)
Entry == [addr : Addr, needs : SUBSET Syms]

ASSUME LoadingAssumption ==
  /\ LibSyms \subseteq Names \X Syms
  /\ Aliases \subseteq Names \X Names
  /\ Null # Absent
  /\ Null \notin Addr
  /\ Absent \notin Addr \cup Entry

VARIABLES
  libAliases,  (* NklCompiler.lib_aliases                                   *)
  rtLoaded,    (* NkIrModule.rt_loaded_syms                                 *)
  dylib,       (* the symbol table of the module's JIT dylib                *)
  stack,       (* the calls of nkir_getSymbolAddress, innermost last: the   *)
               (* module and the symbol, the dependencies still to visit,   *)
               (* those to emit, and the addresses found for its externs    *)
  answers,     (* the last answer for each symbol of each module            *)
  failed,      (* some request has returned NULL                            *)
  aborted      (* an assertion of the loader stopped the program            *)

loadVars == <<libAliases, rtLoaded, dylib, stack, answers, failed, aborted>>
vars == <<linkVars, loadVars>>

-----------------------------------------------------------------------------
(* The symbols reached from s: the least set that contains s and all the     *)
(* successors of its members.                                                *)
Reached(next, s) ==
  {t \in Syms : \A S \in SUBSET Syms : s \in S /\ (\A x \in S : next[x] \subseteq S) => t \in S}

(* gatherDeps, getSymbolDependencies.                                        *)
Refs(m) == [s \in Syms |-> IF Defined(m, s) THEN Find(m, s).refs ELSE {}]
Closure(m, s) == Reached(Refs(m), s)
ValidIr(m, s) == \A t \in Closure(m, s) : Declared(m, t)

(* nickl_translateLib.                                                       *)
TranslateLib(com, lib) ==
  IF libAliases[com][lib] = Absent THEN lib ELSE libAliases[com][lib]

-----------------------------------------------------------------------------
(* What the code relies on in the LLVM JIT.  A symbol can be looked up when  *)
(* the dylib defines it and everything its LLVM module needs, recursively. A *)
(* local symbol is in no symbol table.                                       *)
Local(m, s) == Defined(m, s) /\ Find(m, s).vis = "local"

(* Mutants: the externs of the call are not defined; or to their own stubs.  *)
JitAddNoExterns(m, fr) ==
  LET locals == {t \in fr.emit : Local(m, t)}
      needs  == (fr.emit \cup UNION {Refs(m)[t] : t \in fr.emit}) \ locals
  IN  [t \in Syms |->
         IF t \in fr.emit \ locals THEN [addr |-> <<m, t>>, needs |-> needs]
         ELSE dylib[m][t]]
JitAddStubs(m, fr) ==
  LET table == JitAddNoExterns(m, fr)
  IN  [t \in Syms |-> IF fr.defs[t] # Absent THEN [addr |-> <<m, t>>, needs |-> {}]
                      ELSE table[t]]

JitAdd(m, fr) ==
  LET locals == {t \in fr.emit : Local(m, t)}
      needs  == (fr.emit \cup UNION {Refs(m)[t] : t \in fr.emit}) \ locals
  IN  [t \in Syms |->
         IF t \in fr.emit \ locals THEN [addr |-> <<m, t>>, needs |-> needs]
         ELSE IF fr.defs[t] # Absent THEN [addr |-> fr.defs[t], needs |-> {}]
         ELSE dylib[m][t]]

Needs(table) == [t \in Syms |-> IF table[t] = Absent THEN {} ELSE table[t].needs]
Usable(table, s) == \A t \in Reached(Needs(table), s) : table[t] # Absent
JitLookup(table, s) == IF Usable(table, s) THEN table[s].addr ELSE Null

-----------------------------------------------------------------------------
Init ==
  /\ LinkInit
  /\ libAliases = [c \in Compilers |-> [n \in Names |-> Absent]]
  /\ rtLoaded = [m \in Mods |-> {}]
  /\ dylib    = [m \in Mods |-> [s \in Syms |-> Absent]]
  /\ stack    = <<>>
  /\ answers  = [k \in Mods \X Syms |-> Absent]
  /\ failed   = FALSE
  /\ aborted  = FALSE

(* Between requests a client links modules, compiles into them ...           *)
Between == stack = <<>> /\ ~aborted
LinkStep == Between /\ LinkNext /\ UNCHANGED loadVars

(* ... and registers libraries: nkl_addLibraryAlias.                         *)
AddLibraryAlias(com, alias, lib) ==
  /\ Between /\ op = "idle"
  /\ libAliases' = [libAliases EXCEPT ![com] = InsertNew(@, alias, lib)]
  /\ UNCHANGED <<linkVars, rtLoaded, dylib, stack, answers, failed, aborted>>

Top == stack[Len(stack)]
Callers == SubSeq(stack, 1, Len(stack) - 1)
Asked(frames) == {<<frames[i].mod, frames[i].sym>> : i \in DOMAIN frames}

(* A call that returns NULL makes its caller return NULL at once, and so on  *)
(* to the client: what the calls had visited stays marked, what they were    *)
(* about to define is lost.                                                  *)
Fail(asked) ==
  /\ stack' = <<>>
  /\ failed' = TRUE
  /\ answers' = [k \in Mods \X Syms |-> IF k \in asked THEN Null ELSE answers[k]]
  /\ UNCHANGED aborted

(* nkir_getSymbolAddress up to its loop.  A reference to a symbol the module *)
(* does not even declare is an assertion failure.                            *)
Enter(m, s, callers) ==
  \/ /\ ~Declared(m, s)
     /\ Fail(Asked(callers) \cup {<<m, s>>})
  \/ /\ Declared(m, s) /\ ~ValidIr(m, s)
     /\ aborted' = TRUE
     /\ UNCHANGED <<stack, answers, failed>>
  \/ /\ Declared(m, s) /\ ValidIr(m, s)
     /\ stack' = Append(callers, [mod |-> m, sym |-> s, todo |-> Closure(m, s),
                                  emit |-> {}, defs |-> [t \in Syms |-> Absent]])
     /\ UNCHANGED <<answers, failed, aborted>>

(* nkl_getSymbolAddress.                                                     *)
GetSymbolAddress(m, s) ==
  /\ Between /\ op = "idle"
  /\ Enter(m, s, <<>>)
  /\ UNCHANGED <<linkVars, libAliases, rtLoaded, dylib>>

-----------------------------------------------------------------------------
(* The loop over the dependencies.  The symbol itself is the root of the     *)
(* hash tree and comes first; the others come in the order of their hashes,  *)
(* which is any order.                                                       *)
Running == stack # <<>> /\ ~aborted
Visits(d) == /\ Running
             /\ d \in Top.todo
             /\ Top.sym \in Top.todo => d = Top.sym

(* Mutants: a dependency is not counted as visited; only definitions are     *)
(* marked; the set of the outermost call is marked; the mark is not tested.  *)
VisitedNot(d) == Top
MarkDefinition(d) ==
  rtLoaded' = [rtLoaded EXCEPT ![Top.mod] = IF Defined(Top.mod, d) THEN @ \cup {d} ELSE @]
MarkOuter(d) == rtLoaded' = [rtLoaded EXCEPT ![stack[1].mod] = @ \cup {d}]
FreshAlways(d) == Visits(d)

Visited(d) == [Top EXCEPT !.todo = @ \ {d}]
MarkLoaded(d) == rtLoaded' = [rtLoaded EXCEPT ![Top.mod] = @ \cup {d}]
Fresh(d) == Visits(d) /\ d \notin rtLoaded[Top.mod]
Provider(d) == externSyms[Top.mod][d]
IsExtern(d) == Find(Top.mod, d).kind = "extern"

(* Loaded before: symToExtern turns a definition into a declaration.         *)
SkipLoaded(d) ==
  /\ Visits(d) /\ d \in rtLoaded[Top.mod]
  /\ stack' = Append(Callers, Visited(d))
  /\ UNCHANGED <<linkVars, libAliases, rtLoaded, dylib, answers, failed, aborted>>

LoadDefinition(d) ==
  /\ Fresh(d) /\ ~IsExtern(d)
  /\ MarkLoaded(d)
  /\ stack' = Append(Callers, [Visited(d) EXCEPT !.emit = @ \cup {d}])
  /\ UNCHANGED <<linkVars, libAliases, dylib, answers, failed, aborted>>

(* symbolResolver: nobody provides the symbol.                               *)
ResolveNothing(d) ==
  /\ Fresh(d) /\ IsExtern(d)
  /\ Provider(d) \notin Names
  /\ MarkLoaded(d)
  /\ Fail(Asked(stack))
  /\ UNCHANGED <<linkVars, libAliases, dylib>>

(* symbolResolver: a linked module of that name, in the module's own JIT     *)
(* dylib.  The call returns into this frame.                                 *)
ResolveInModule(d) ==
  /\ Fresh(d) /\ IsExtern(d)
  /\ Provider(d) \in Names
  /\ linkedMods[Top.mod][Provider(d)] # Absent
  /\ MarkLoaded(d)
  /\ Enter(linkedMods[Top.mod][Provider(d)], d, Append(Callers, Visited(d)))
  /\ UNCHANGED <<linkVars, libAliases, dylib>>

(* symbolResolver: the dynamic loader, under the alias of the name.          *)
ResolveInLibrary(d) ==
  /\ Fresh(d) /\ IsExtern(d)
  /\ Provider(d) \in Names
  /\ linkedMods[Top.mod][Provider(d)] = Absent
  /\ MarkLoaded(d)
  /\ LET lib == TranslateLib(CompilerOf[Top.mod], Provider(d)) IN
       \/ /\ <<lib, d>> \in LibSyms
          /\ stack' = Append(Callers, [Visited(d) EXCEPT !.defs[d] = <<lib, d>>])
          /\ UNCHANGED <<answers, failed, aborted>>
       \/ <<lib, d>> \notin LibSyms /\ Fail(Asked(stack))
  /\ UNCHANGED <<linkVars, libAliases, dylib>>

(* Every dependency was visited: define, add, look up, return.               *)
Finish ==
  /\ Running /\ Top.todo = {}
  /\ LET table == JitAdd(Top.mod, Top)
         addr  == JitLookup(table, Top.sym)
         last  == Len(Callers)
     IN  /\ dylib' = [dylib EXCEPT ![Top.mod] = table]
         /\ \/ addr = Null /\ Fail(Asked(stack))
            \/ /\ addr # Null
               /\ answers' = [answers EXCEPT ![<<Top.mod, Top.sym>>] = addr]
               /\ stack' = IF Callers = <<>> THEN <<>>
                           ELSE [Callers EXCEPT ![last].defs[Top.sym] = addr]
               /\ UNCHANGED <<failed, aborted>>
  /\ UNCHANGED <<linkVars, libAliases, rtLoaded>>

LoadStep ==
  \/ \E d \in Syms : \/ SkipLoaded(d)
                     \/ LoadDefinition(d)
                     \/ ResolveNothing(d)
                     \/ ResolveInModule(d)
                     \/ ResolveInLibrary(d)
  \/ Finish

Next ==
  \/ LinkStep
  \/ \E c \in Compilers : \E a \in Aliases : AddLibraryAlias(c, a[1], a[2])
  \/ \E m \in Mods, s \in Syms : GetSymbolAddress(m, s)
  \/ LoadStep

Spec == Init /\ [][Next]_vars

(* A call runs to its end; nothing obliges a client to make another one.     *)
FairSpec == Spec /\ WF_vars(LoadStep)

-----------------------------------------------------------------------------
(* What a call in progress will define when it finishes.                     *)
Owned(fr) == fr.emit \cup {s \in Syms : fr.defs[s] # Absent}

(* The JIT is never given a second definition of a symbol of a dylib, though *)
(* calls nest and may come back to a module whose own call has not finished: *)
(* what a call will define is not defined yet, and no other call of the same *)
(* module will define it.                                                    *)
OneDefinition ==
  \A i \in DOMAIN stack :
    /\ \A s \in Owned(stack[i]) : dylib[stack[i].mod][s] = Absent
    /\ \A s \in stack[i].emit : stack[i].defs[s] = Absent
    /\ \A j \in DOMAIN stack :
         i # j /\ stack[i].mod = stack[j].mod => Owned(stack[i]) \cap Owned(stack[j]) = {}

(* rt_loaded_syms is what later calls trust when they turn a symbol into a   *)
(* declaration.  Between requests every symbol it holds is one the JIT can   *)
(* link to, local symbols excepted, unless a request that was refused needed *)
(* that symbol: nothing else loses a symbol.                                 *)
LoadedIsDefined ==
  stack = <<>> =>
    \A m \in Mods, s \in Syms :
      s \in rtLoaded[m] /\ ~Local(m, s) =>
        \/ dylib[m][s] # Absent
        \/ \E k \in Syms : answers[<<m, k>>] = Null /\ s \in Closure(m, k)

(* The address a dylib has for a symbol is the right one: its own code if    *)
(* the module defines the symbol; otherwise an address from the provider     *)
(* extern_syms names, in a library (under its name or an alias of it) or in  *)
(* the module linked under that name, as that module has it.                 *)
AddressFromProvider ==
  \A m \in Mods, s \in Syms :
    dylib[m][s] # Absent =>
      \/ Defined(m, s) /\ dylib[m][s].addr = <<m, s>>
      \/ /\ ~Defined(m, s)
         /\ LET b == externSyms[m][s] IN
              /\ b \in Names
              /\ \/ dylib[m][s].addr \in {<<b, s>>, <<TranslateLib(CompilerOf[m], b), s>>}
                 \/ \E src \in Mods : /\ linkedMods[m][b] = src
                                      /\ dylib[src][s] # Absent
                                      /\ dylib[src][s].addr = dylib[m][s].addr

(* Once a request has got an address, the same request gets that address for *)
(* ever: whatever is linked, compiled, loaded or refused in between.         *)
AnswersStable ==
  [][\A k \in Mods \X Syms : answers[k] \in Addr => answers'[k] = answers[k]]_vars

(* What a symbol needs across modules, and the symbols that can be provided  *)
(* with all they need.                                                       *)
Source(m, s) ==
  LET b == externSyms[m][s] IN
    IF b \notin Names THEN Absent ELSE linkedMods[m][b]
Supplied(k) ==
  /\ Declared(k[1], k[2])
  /\ \/ Defined(k[1], k[2])
     \/ Source(k[1], k[2]) # Absent
     \/ /\ externSyms[k[1]][k[2]] \in Names
        /\ <<TranslateLib(CompilerOf[k[1]], externSyms[k[1]][k[2]]), k[2]>> \in LibSyms
Successors(k) ==
  IF Defined(k[1], k[2]) THEN {<<k[1], t>> : t \in Refs(k[1])[k[2]]}
  ELSE IF Declared(k[1], k[2]) /\ Source(k[1], k[2]) # Absent
       THEN {<<Source(k[1], k[2]), k[2]>>}
       ELSE {}
Resolvable(k) ==
  \E S \in SUBSET (Mods \X Syms) :
    k \in S /\ \A x \in S : Supplied(x) /\ Successors(x) \subseteq S

(* The three ways a resolvable symbol can be refused: a request that failed  *)
(* earlier, a nested call for a module that is still being loaded, and a     *)
(* local definition that an earlier LLVM module of the dylib keeps to        *)
(* itself.                                                                   *)
Reentered ==
  \E i, j \in DOMAIN stack : i # j /\ stack[i].mod = stack[j].mod
LocalLoaded ==
  \E m \in Mods, s \in Syms : s \in rtLoaded[m] /\ Local(m, s)

(* Otherwise the first request to fail is one that had to: something it      *)
(* needs has no provider.                                                    *)
Root == IF stack = <<>> THEN {k \in Mods \X Syms : answers'[k] = Null}
        ELSE {<<stack[1].mod, stack[1].sym>>}
FirstFailureJustified ==
  [][~failed /\ failed' /\ ~Reentered /\ ~LocalLoaded
       => \A k \in Root : ~Resolvable(k)]_vars

(* A request comes to an end, also when modules are linked in a cycle: a     *)
(* nested call is made only for an extern that was never visited.            *)
RequestsReturn == stack # <<>> ~> (stack = <<>> \/ aborted)
=============================================================================
