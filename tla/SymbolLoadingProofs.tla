-------------------------- MODULE SymbolLoadingProofs --------------------------
(***************************************************************************)
(* Proofs about SymbolLoading, for every set of modules, names, sources    *)
(* and libraries.                                                          *)
(***************************************************************************)
EXTENDS SymbolLoading, ModuleLinkingProofs, ProofFacts

-----------------------------------------------------------------------------
(* What is reached contains its start, is closed, and is the least such set. *)
LEMMA ReachedSelf ==
  ASSUME NEW next, NEW s \in Syms
  PROVE  s \in Reached(next, s)
  BY DEF Reached

LEMMA ReachedClosed ==
  ASSUME NEW next \in [Syms -> SUBSET Syms], NEW s \in Syms
  PROVE  /\ Reached(next, s) \subseteq Syms
         /\ \A t \in Reached(next, s) : next[t] \subseteq Reached(next, s)
  BY DEF Reached

LEMMA ReachedLeast ==
  ASSUME NEW next, NEW s \in Syms, NEW S \in SUBSET Syms,
         s \in S, \A x \in S : next[x] \subseteq S
  PROVE  Reached(next, s) \subseteq S
  BY DEF Reached

(* A declared symbol has a first place in its module's list.                 *)
LEMMA FirstPlace ==
  ASSUME LinkTypeOK, NEW m \in Mods, NEW s \in Syms, Declared(m, s)
  PROVE  \E i \in Places(m, s) : /\ \A j \in Places(m, s) : i <= j
                                 /\ Find(m, s) = syms[m][i]
<1>1. DOMAIN syms[m] = 1..Len(syms[m]) /\ Len(syms[m]) \in Nat
  BY DEF LinkTypeOK
<1>2. Places(m, s) \in SUBSET Nat /\ Places(m, s) # {}
  BY <1>1 DEF Places, Declared
<1>3. PICK i \in Places(m, s) : \A j \in Places(m, s) : i <= j
  BY <1>2, SmallestExists
<1>4. \A k \in Places(m, s) : (\A j \in Places(m, s) : k <= j) => k = i
  BY <1>2, <1>3
<1>5. Find(m, s) = syms[m][i]
  BY <1>3, <1>4 DEF Find
<1>6. QED
  BY <1>3, <1>5

LEMMA FindTyped ==
  ASSUME LinkTypeOK, NEW m \in Mods, NEW s \in Syms, Declared(m, s)
  PROVE  Find(m, s) \in Symbol
  BY FirstPlace DEF Places, LinkTypeOK

(* Linking and compiling keep what a symbol is, its provider and the modules *)
(* linked in.                                                                *)
LEMMA LinkKeeps ==
  ASSUME LinkTypeOK, LinkTypeOK', [LinkNext]_linkVars
  PROVE  /\ \A m \in Mods, s \in Syms :
              Declared(m, s) => Declared(m, s)' /\ Find(m, s)' = Find(m, s)
         /\ \A m \in Mods, s \in Syms :
              externSyms[m][s] \in Names => externSyms'[m][s] = externSyms[m][s]
         /\ \A m \in Mods, n \in Names :
              linkedMods[m][n] # Absent => linkedMods'[m][n] = linkedMods[m][n]
<1>1. \A m \in Mods : /\ Len(syms[m]) \in Nat
                      /\ DOMAIN syms[m] = 1..Len(syms[m])
  BY DEF LinkTypeOK
<1>2. ASSUME NEW m \in Mods
      PROVE  /\ DOMAIN syms[m] \subseteq DOMAIN syms'[m]
             /\ \A i \in DOMAIN syms[m] : syms'[m][i] = syms[m][i]
             /\ \A i \in DOMAIN syms'[m] : i \notin DOMAIN syms[m] => i = Len(syms[m]) + 1
  <2>1. ASSUME NEW n \in Mods, NEW d \in Decls[n], DefineSymbol(n, d)
        PROVE  /\ DOMAIN syms[m] \subseteq DOMAIN syms'[m]
               /\ \A i \in DOMAIN syms[m] : syms'[m][i] = syms[m][i]
               /\ \A i \in DOMAIN syms'[m] : i \notin DOMAIN syms[m] => i = Len(syms[m]) + 1
    <3>1. syms'[m] = IF n = m THEN Append(syms[m], d) ELSE syms[m]
      BY <2>1 DEF DefineSymbol, LinkTypeOK
    <3>2. syms[m] \in Seq(Symbol) /\ d \in Symbol
      BY LinkingAssumption DEF LinkTypeOK
    <3>3. QED
      BY <3>1, <3>2
  <2>2. CASE syms' = syms
    BY <2>2
  <2>3. QED
    BY <2>1, <2>2 DEF LinkNext, linkVars, LinkModule, LinkHidden, LinkConflict, LinkRedefined, LinkBind
<1>3. ASSUME NEW m \in Mods, NEW s \in Syms, Declared(m, s)
      PROVE  Declared(m, s)' /\ Find(m, s)' = Find(m, s)
  <2>1. PICK i \in Places(m, s) : /\ \A j \in Places(m, s) : i <= j
                                  /\ Find(m, s) = syms[m][i]
    BY <1>3, FirstPlace
  <2>2. i \in Places(m, s)' /\ syms'[m][i] = syms[m][i] /\ i \in 1..Len(syms[m])
    BY <1>1, <1>2, <2>1 DEF Places
  <2>3. \A j \in Places(m, s)' : i <= j
    BY <1>1, <1>2, <2>1, <2>2 DEF Places
  <2>4. Declared(m, s)'
    BY <2>2 DEF Declared
  <2>5. PICK k \in Places(m, s)' : /\ \A j \in Places(m, s)' : k <= j
                                   /\ Find(m, s)' = syms'[m][k]
    <3>1. DOMAIN syms'[m] = 1..Len(syms'[m]) /\ Len(syms'[m]) \in Nat
      BY DEF LinkTypeOK
    <3>2. Places(m, s)' \subseteq Nat
      BY <3>1 DEF Places
    <3>3. \A k \in Places(m, s)' : (\A j \in Places(m, s)' : k <= j) => k = i
      BY <2>2, <2>3, <3>2
    <3>4. Find(m, s)' = syms'[m][i]
      BY <2>2, <2>3, <3>3 DEF Find
    <3>5. QED
      BY <2>2, <2>3, <3>4
  <2>6. k = i
    <3>1. DOMAIN syms'[m] = 1..Len(syms'[m]) /\ Len(syms'[m]) \in Nat
      BY DEF LinkTypeOK
    <3>2. QED
      BY <2>2, <2>3, <2>5, <3>1 DEF Places
  <2>7. QED
    BY <2>1, <2>2, <2>4, <2>5, <2>6
<1>4. ASSUME NEW m \in Mods, NEW s \in Syms, externSyms[m][s] \in Names
      PROVE  externSyms'[m][s] = externSyms[m][s]
  <2>1. ASSUME NEW n \in Mods, NEW d \in Decls[n], DefineSymbol(n, d)
        PROVE  externSyms'[m][s] = externSyms[m][s]
    <3>1. d \in Symbol
      BY LinkingAssumption
    <3>2. QED
      BY <1>4, <2>1, <3>1, LinkingAssumption DEF DefineSymbol, InsertNew, LinkTypeOK, Symbol
  <2>2. ASSUME pending # <<>>, ~Taken(Call), Bind
        PROVE  externSyms'[m][s] = externSyms[m][s]
    BY <1>4, <2>2, CallTyped, LinkingAssumption DEF Taken, Bind, LinkTypeOK, LinkCall, Symbol
  <2>3. QED
    BY <2>1, <2>2 DEF LinkNext, linkVars, LinkModule, LinkHidden, LinkConflict,
                      LinkRedefined, LinkBind
<1>5. ASSUME NEW m \in Mods, NEW n \in Names, linkedMods[m][n] # Absent
      PROVE  linkedMods'[m][n] = linkedMods[m][n]
  <2>1. ASSUME NEW dst \in Mods, NEW src \in Mods, LinkModule(dst, src)
        PROVE  linkedMods'[m][n] = linkedMods[m][n]
    BY <1>5, <2>1, LinkingAssumption DEF LinkModule, InsertNew, LinkTypeOK
  <2>2. QED
    BY <2>1 DEF LinkNext, linkVars, DefineSymbol, LinkHidden, LinkConflict, LinkRedefined, LinkBind
<1>6. QED
  BY <1>3, <1>4, <1>5

-----------------------------------------------------------------------------
(* References and closures.                                                  *)
LEMMA RefsTyped ==
  ASSUME LinkTypeOK, NEW m \in Mods
  PROVE  Refs(m) \in [Syms -> SUBSET Syms]
<1>1. ASSUME NEW s \in Syms, Defined(m, s) PROVE Find(m, s).refs \subseteq Syms
  BY <1>1, FindTyped DEF Defined, Symbol
<1>2. QED
  BY <1>1 DEF Refs

LEMMA ClosureClosed ==
  ASSUME LinkTypeOK, NEW m \in Mods, NEW s \in Syms
  PROVE  /\ s \in Closure(m, s)
         /\ Closure(m, s) \subseteq Syms
         /\ \A t \in Closure(m, s) : Refs(m)[t] \subseteq Closure(m, s)
  BY RefsTyped, ReachedSelf, ReachedClosed DEF Closure

ClosuresClosed ==
  \A m \in Mods, s \in Syms :
    /\ s \in Closure(m, s)
    /\ Closure(m, s) \subseteq Syms
    /\ \A t \in Closure(m, s) : Refs(m)[t] \subseteq Closure(m, s)
LEMMA ClosuresClosedNow == LinkTypeOK => ClosuresClosed
  BY ClosureClosed DEF ClosuresClosed
LEMMA ClosuresClosedNext == LinkTypeOK' => ClosuresClosed'
  BY ClosuresClosedNow, PTL

LEMMA SameLinks ==
  ASSUME UNCHANGED linkVars, NEW m, NEW s
  PROVE  /\ Declared(m, s)' = Declared(m, s)
         /\ Defined(m, s)' = Defined(m, s)
         /\ Local(m, s)' = Local(m, s)
         /\ Refs(m)' = Refs(m)
         /\ Closure(m, s)' = Closure(m, s)
         /\ ValidIr(m, s)' = ValidIr(m, s)
<1>1. syms' = syms
  BY DEF linkVars
<1>2. \A t : Places(m, t)' = Places(m, t)
  BY <1>1 DEF Places
<1>3. \A t : Declared(m, t)' = Declared(m, t)
  BY <1>2 DEF Declared
<1>4. ASSUME NEW t PROVE Find(m, t)' = Find(m, t)
  BY <1>1 DEF Find, Places
<1>5. \A t : Defined(m, t)' = Defined(m, t)
  BY <1>3, <1>4 DEF Defined
<1>6. Local(m, s)' = Local(m, s)
  BY <1>4, <1>5 DEF Local
<1>7. Refs(m)' = Refs(m)
  BY <1>4, <1>5 DEF Refs
<1>8. Closure(m, s)' = Closure(m, s)
  BY <1>7 DEF Closure, Reached
<1>9. ValidIr(m, s)' = ValidIr(m, s)
  BY <1>3, <1>8 DEF ValidIr
<1>10. QED
  BY <1>3, <1>5, <1>6, <1>7, <1>8, <1>9

(* What is declared stays what it is, when modules are linked or compiled.   *)
LEMMA SymbolKept ==
  ASSUME LinkTypeOK, LinkTypeOK', [LinkNext]_linkVars,
         NEW m \in Mods, NEW s \in Syms, Declared(m, s)
  PROVE  /\ Declared(m, s)'
         /\ Defined(m, s)' = Defined(m, s)
         /\ Local(m, s)' = Local(m, s)
         /\ Refs(m)'[s] = Refs(m)[s]
<1>1. Declared(m, s)' /\ Find(m, s)' = Find(m, s)
  BY LinkKeeps
<1>2. Defined(m, s)' = Defined(m, s)
  BY <1>1 DEF Defined
<1>3. QED
  BY <1>1, <1>2 DEF Local, Refs

LEMMA ClosureGrows ==
  ASSUME LinkTypeOK, LinkTypeOK', [LinkNext]_linkVars, NEW m \in Mods, NEW s \in Syms
  PROVE  Closure(m, s) \subseteq Closure(m, s)'
<1>1. \A t \in Syms : Refs(m)[t] \subseteq Refs(m)'[t]
  BY SymbolKept DEF Refs, Defined
<1>2. /\ s \in Closure(m, s)'
      /\ Closure(m, s)' \subseteq Syms
      /\ \A t \in Closure(m, s)' : Refs(m)'[t] \subseteq Closure(m, s)'
  BY ClosuresClosedNext DEF ClosuresClosed
<1>3. \A t \in Closure(m, s)' : Refs(m)[t] \subseteq Closure(m, s)'
  BY <1>1, <1>2
<1>4. QED
  BY <1>2, <1>3, ReachedLeast DEF Closure

LEMMA ClosureKept ==
  ASSUME LinkTypeOK, LinkTypeOK', [LinkNext]_linkVars,
         NEW m \in Mods, NEW s \in Syms, ValidIr(m, s)
  PROVE  Closure(m, s)' = Closure(m, s) /\ ValidIr(m, s)'
<1>1. \A t \in Closure(m, s) : t \in Syms /\ Declared(m, t) /\ Refs(m)'[t] = Refs(m)[t]
  BY ClosureClosed, SymbolKept DEF ValidIr
<1>2. Closure(m, s)' \subseteq Closure(m, s)
  <2>1. \A t \in Closure(m, s) : Refs(m)'[t] \subseteq Closure(m, s)
    BY <1>1, ClosureClosed
  <2>2. QED
    BY <2>1, ClosureClosed, ReachedLeast DEF Closure
<1>3. Closure(m, s)' = Closure(m, s)
  BY <1>2, ClosureGrows
<1>4. \A t \in Closure(m, s) : Declared(m, t)'
  BY <1>1, SymbolKept
<1>5. QED
  BY <1>3, <1>4 DEF ValidIr

-----------------------------------------------------------------------------
(* A step of a session is a step of linking or leaves the links alone.       *)
LEMMA StepLinks ==
  ASSUME [Next]_vars
  PROVE  [LinkNext]_linkVars
BY DEF Next, vars, LinkStep, LoadStep, AddLibraryAlias, GetSymbolAddress, SkipLoaded,
       LoadDefinition, ResolveNothing, ResolveInModule, ResolveInLibrary, Finish

(* Loading is harmless to linking: all that holds of the modules when no     *)
(* symbol is ever requested holds here.                                      *)
THEOREM LoadingLinks == Spec => LinkSpec
<1>1. Init => LinkInit
  BY DEF Init
<1>2. [Next]_vars => [LinkNext]_linkVars
  BY StepLinks
<1>3. QED
  BY <1>1, <1>2, PTL DEF Spec, LinkSpec

(* The modules, their symbols and their links stay well typed while symbols  *)
(* are loaded.                                                               *)
THEOREM LoadingLinkTypes == Spec => []LinkTypeOK
  BY LoadingLinks, LinkTypeInvariant, PTL

-----------------------------------------------------------------------------
(* Every variable of the loader keeps to its type.                           *)
Frame == [mod : Mods, sym : Syms, todo : SUBSET Syms, emit : SUBSET Syms,
          defs : [Syms -> Addr \cup {Absent}]]

LoadTypeOK ==
  /\ libAliases \in [Compilers -> [Names -> Names \cup {Absent}]]
  /\ rtLoaded \in [Mods -> SUBSET Syms]
  /\ dylib \in [Mods -> [Syms -> Entry \cup {Absent}]]
  /\ stack \in Seq(Frame)
  /\ answers \in [Mods \X Syms -> Addr \cup {Null, Absent}]
  /\ failed \in BOOLEAN
  /\ aborted \in BOOLEAN
TypesOK == LinkTypeOK /\ LoadTypeOK

(* The innermost call, and a stack on which only that call has changed, on   *)
(* which another one was pushed, or from which it was popped.                *)
LEMMA TopOfStack ==
  ASSUME LoadTypeOK, stack # <<>>
  PROVE  /\ Len(stack) \in Nat \ {0}
         /\ DOMAIN stack = 1..Len(stack)
         /\ Top = stack[Len(stack)] /\ Top \in Frame
         /\ Callers \in Seq(Frame) /\ Len(Callers) = Len(stack) - 1
         /\ Len(Callers) \in Nat /\ Len(stack) = Len(Callers) + 1
         /\ \A i \in 1..Len(Callers) : Callers[i] = stack[i]
<1>1. stack \in Seq(Frame)
  BY DEF LoadTypeOK
<1>2. /\ Len(stack) \in Nat \ {0} /\ DOMAIN stack = 1..Len(stack)
      /\ Len(stack) - 1 \in 0..Len(stack)
  BY <1>1
<1>3. stack[Len(stack)] \in Frame
  BY <1>1, <1>2
<1>4. Callers \in Seq(Frame)
  BY <1>1, <1>2 DEF Callers
<1>5. /\ Len(Callers) = Len(stack) - 1
      /\ \A i \in 1..Len(Callers) : Callers[i] = stack[i]
  BY <1>1, <1>2 DEF Callers
<1>6. QED
  BY <1>2, <1>3, <1>4, <1>5 DEF Top

FramesTyped ==
  \A i \in DOMAIN stack : /\ stack[i] \in Frame
                          /\ stack[i].mod \in Mods /\ stack[i].sym \in Syms
LEMMA FramesTypedNow == TypesOK => FramesTyped
  <1>1. \A f \in Frame : f.mod \in Mods /\ f.sym \in Syms
    BY DEF Frame
  <1>2. TypesOK => \A i \in DOMAIN stack : stack[i] \in Frame
    BY DEF TypesOK, LoadTypeOK
  <1>3. QED
    BY <1>1, <1>2 DEF FramesTyped
LEMMA FramesTypedNext == TypesOK' => FramesTyped'
  BY FramesTypedNow, PTL

LEMMA Appended ==
  ASSUME NEW frames \in Seq(Frame), NEW x \in Frame
  PROVE  /\ Append(frames, x) \in Seq(Frame)
         /\ Len(Append(frames, x)) = Len(frames) + 1
         /\ Append(frames, x)[Len(frames) + 1] = x
         /\ \A i \in 1..Len(frames) : Append(frames, x)[i] = frames[i]
  OBVIOUS

LEMMA JitAddTyped ==
  ASSUME TypesOK, NEW m \in Mods, NEW fr \in Frame
  PROVE  JitAdd(m, fr) \in [Syms -> Entry \cup {Absent}]
<1>1. Refs(m) \in [Syms -> SUBSET Syms]
  BY RefsTyped DEF TypesOK
<1>2. fr.emit \subseteq Syms /\ fr.defs \in [Syms -> Addr \cup {Absent}]
  BY DEF Frame
<1>3. \A t \in Syms : <<m, t>> \in Addr
  BY DEF Addr
<1>4. UNION {Refs(m)[t] : t \in fr.emit} \subseteq Syms
  BY <1>1, <1>2
<1>5. dylib[m] \in [Syms -> Entry \cup {Absent}]
  BY DEF TypesOK, LoadTypeOK
<1>6. QED
  BY <1>2, <1>3, <1>4, <1>5 DEF JitAdd, Entry

LEMMA JitAddOwned ==
  ASSUME TypesOK, NEW m \in Mods, NEW fr \in Frame, NEW s \in Owned(fr), ~Local(m, s)
  PROVE  JitAdd(m, fr)[s] # Absent
<1>1. Refs(m) \in [Syms -> SUBSET Syms]
  BY RefsTyped DEF TypesOK
<1>2. fr.emit \subseteq Syms /\ fr.defs \in [Syms -> Addr \cup {Absent}]
  BY DEF Frame
<1>3. \A t \in Syms : <<m, t>> \in Addr
  BY DEF Addr
<1>4. UNION {Refs(m)[t] : t \in fr.emit} \subseteq Syms
  BY <1>1, <1>2
<1>5. s \in Syms /\ (s \in fr.emit \/ fr.defs[s] # Absent)
  BY <1>2 DEF Owned
<1>6. \A a \in Addr, N \in SUBSET Syms : [addr |-> a, needs |-> N] # Absent
  BY LoadingAssumption DEF Entry
<1>7. CASE s \in fr.emit
  <2>1. PICK N \in SUBSET Syms : JitAdd(m, fr)[s] = [addr |-> <<m, s>>, needs |-> N]
    BY <1>2, <1>4, <1>5, <1>7 DEF JitAdd
  <2>2. QED
    BY <1>3, <1>5, <1>6, <2>1
<1>8. CASE s \notin fr.emit
  <2>1. fr.defs[s] \in Addr
    BY <1>2, <1>5, <1>8
  <2>2. JitAdd(m, fr)[s] = [addr |-> fr.defs[s], needs |-> {}]
    BY <1>5, <1>8 DEF JitAdd
  <2>3. QED
    BY <1>6, <2>1, <2>2
<1>9. QED
  BY <1>7, <1>8

LEMMA JitLookupTyped ==
  ASSUME NEW table \in [Syms -> Entry \cup {Absent}], NEW s \in Syms
  PROVE  /\ Needs(table) \in [Syms -> SUBSET Syms]
         /\ Usable(table, s) => table[s] \in Entry
         /\ JitLookup(table, s) \in Addr \cup {Null}
         /\ JitLookup(table, s) # Null
              => Usable(table, s) /\ JitLookup(table, s) = table[s].addr
<1>1. Needs(table) \in [Syms -> SUBSET Syms]
  BY DEF Needs, Entry
<1>2. Usable(table, s) => table[s] \in Entry
  BY ReachedSelf DEF Usable
<1>3. QED
  BY <1>1, <1>2 DEF JitLookup, Entry

LEMMA FailTyped ==
  ASSUME TypesOK, NEW asked, Fail(asked)
  PROVE  /\ stack' \in Seq(Frame)
         /\ answers' \in [Mods \X Syms -> Addr \cup {Null, Absent}]
         /\ failed' \in BOOLEAN /\ aborted' \in BOOLEAN
<1>1. <<>> \in Seq(Frame)
  OBVIOUS
<1>2. QED
  BY <1>1 DEF Fail, TypesOK, LoadTypeOK

LEMMA EnterTyped ==
  ASSUME TypesOK, NEW m \in Mods, NEW s \in Syms, NEW callers \in Seq(Frame),
         Enter(m, s, callers)
  PROVE  /\ stack' \in Seq(Frame)
         /\ answers' \in [Mods \X Syms -> Addr \cup {Null, Absent}]
         /\ failed' \in BOOLEAN /\ aborted' \in BOOLEAN
<1>1. Closure(m, s) \subseteq Syms
  BY ClosureClosed DEF TypesOK
<1>2. [mod |-> m, sym |-> s, todo |-> Closure(m, s), emit |-> {},
       defs |-> [t \in Syms |-> Absent]] \in Frame
  BY <1>1 DEF Frame
<1>3. CASE Fail(Asked(callers) \cup {<<m, s>>})
  BY <1>3, FailTyped
<1>4. CASE UNCHANGED <<stack, answers, failed>> /\ aborted' = TRUE
  BY <1>4 DEF TypesOK, LoadTypeOK
<1>5. CASE /\ stack' = Append(callers, [mod |-> m, sym |-> s, todo |-> Closure(m, s),
                                        emit |-> {}, defs |-> [t \in Syms |-> Absent]])
           /\ UNCHANGED <<answers, failed, aborted>>
  BY <1>2, <1>5, Appended DEF TypesOK, LoadTypeOK
<1>6. QED
  BY <1>3, <1>4, <1>5 DEF Enter

LEMMA VisitTyped ==
  ASSUME TypesOK, NEW d \in Syms, Visits(d)
  PROVE  /\ stack # <<>> /\ ~aborted /\ d \in Top.todo
         /\ Top.mod \in Mods /\ Top.sym \in Syms
         /\ Visited(d) \in Frame
         /\ Visited(d).mod = Top.mod /\ Visited(d).sym = Top.sym
         /\ Visited(d).todo = Top.todo \ {d}
         /\ Visited(d).emit = Top.emit /\ Visited(d).defs = Top.defs
  BY TopOfStack DEF Visits, Running, Visited, Frame, TypesOK

LEMMA MarkTyped ==
  ASSUME TypesOK, NEW d \in Syms, Visits(d), MarkLoaded(d)
  PROVE  rtLoaded' \in [Mods -> SUBSET Syms]
  BY VisitTyped DEF MarkLoaded, TypesOK, LoadTypeOK

(* The innermost call with one of its addresses found.                       *)
LEMMA FoundTyped ==
  ASSUME TypesOK, NEW fr \in Frame, NEW d \in Syms, NEW a \in Addr
  PROVE  [fr EXCEPT !.defs[d] = a] \in Frame
  BY DEF Frame

LEMMA PoppedTyped ==
  ASSUME TypesOK, stack # <<>>, Callers # <<>>, NEW a \in Addr,
         stack' = [Callers EXCEPT ![Len(Callers)].defs[Top.sym] = a]
  PROVE  /\ stack' \in Seq(Frame)
         /\ Len(stack') = Len(stack) - 1 /\ Len(stack') \in Nat \ {0}
         /\ \A i \in 1..Len(stack') - 1 : stack'[i] = stack[i]
         /\ stack'[Len(stack')] = [stack[Len(stack')] EXCEPT !.defs[Top.sym] = a]
<1>1. /\ Callers \in Seq(Frame) /\ Len(Callers) = Len(stack) - 1 /\ Top.sym \in Syms
      /\ \A i \in 1..Len(Callers) : Callers[i] = stack[i]
      /\ Len(stack) \in Nat \ {0}
  BY TopOfStack DEF TypesOK, Frame
<1>2. Len(Callers) \in Nat \ {0} /\ DOMAIN Callers = 1..Len(Callers)
  BY <1>1
<1>3. Callers[Len(Callers)] \in Frame
  BY <1>1, <1>2
<1>4. stack' = [Callers EXCEPT ![Len(Callers)] = [@ EXCEPT !.defs[Top.sym] = a]]
  OBVIOUS
<1>5. [Callers[Len(Callers)] EXCEPT !.defs[Top.sym] = a] \in Frame
  BY <1>1, <1>3, FoundTyped
<1>6. /\ stack' \in Seq(Frame) /\ Len(stack') = Len(Callers)
      /\ \A i \in 1..Len(Callers) :
           stack'[i] = IF i = Len(Callers)
                       THEN [Callers[Len(Callers)] EXCEPT !.defs[Top.sym] = a] ELSE Callers[i]
  BY <1>1, <1>2, <1>4, <1>5
<1>7. QED
  BY <1>1, <1>2, <1>6

(* Type correctness of loading: the JIT of a module holds entries of         *)
(* symbols, the calls of getSymbolAddress are frames, an answer is an        *)
(* address or a refusal.                                                     *)
THEOREM LoadTypeInvariant == Spec => []LoadTypeOK
<1>1. Init => LoadTypeOK
  <2>1. <<>> \in Seq(Frame)
    OBVIOUS
  <2> SUFFICES ASSUME Init PROVE LoadTypeOK
    OBVIOUS
  <2>2. /\ libAliases \in [Compilers -> [Names -> Names \cup {Absent}]]
        /\ rtLoaded \in [Mods -> SUBSET Syms]
    BY DEF Init
  <2>3. dylib \in [Mods -> [Syms -> Entry \cup {Absent}]]
    BY DEF Init
  <2>4. answers \in [Mods \X Syms -> Addr \cup {Null, Absent}]
    BY DEF Init
  <2>5. stack \in Seq(Frame) /\ failed \in BOOLEAN /\ aborted \in BOOLEAN
    BY <2>1 DEF Init
  <2>6. QED
    BY <2>2, <2>3, <2>4, <2>5 DEF LoadTypeOK
<1>2. TypesOK /\ [Next]_vars => LoadTypeOK'
  <2> SUFFICES ASSUME TypesOK, [Next]_vars PROVE LoadTypeOK'
    OBVIOUS
  <2> USE DEF LoadTypeOK
  <2>1. CASE LinkStep
    BY <2>1 DEF LinkStep, loadVars, TypesOK
  <2>2. ASSUME NEW c \in Compilers, NEW p \in Aliases, AddLibraryAlias(c, p[1], p[2])
        PROVE  LoadTypeOK'
    <3>1. p[1] \in Names /\ p[2] \in Names
      BY LoadingAssumption
    <3>2. InsertNew(libAliases[c], p[1], p[2]) \in [Names -> Names \cup {Absent}]
      BY <3>1, InsertNewTyped DEF TypesOK
    <3>3. libAliases' \in [Compilers -> [Names -> Names \cup {Absent}]]
      BY <2>2, <3>2 DEF AddLibraryAlias, TypesOK
    <3>4. QED
      BY <2>2, <3>3 DEF AddLibraryAlias, TypesOK
  <2>3. ASSUME NEW m \in Mods, NEW s \in Syms, GetSymbolAddress(m, s)
        PROVE  LoadTypeOK'
    <3>1. <<>> \in Seq(Frame)
      OBVIOUS
    <3>2. Enter(m, s, <<>>)
      BY <2>3 DEF GetSymbolAddress
    <3>3. QED
      BY <2>3, <3>1, <3>2, EnterTyped DEF GetSymbolAddress, TypesOK
  <2>4. ASSUME NEW d \in Syms, SkipLoaded(d)
        PROVE  LoadTypeOK'
    <3>1. stack' \in Seq(Frame)
      BY <2>4, VisitTyped, TopOfStack, Appended DEF SkipLoaded, TypesOK
    <3>2. QED
      BY <2>4, <3>1 DEF SkipLoaded, TypesOK
  <2>5. ASSUME NEW d \in Syms, LoadDefinition(d)
        PROVE  LoadTypeOK'
    <3>1. Visits(d) /\ MarkLoaded(d)
      BY <2>5 DEF LoadDefinition, Fresh
    <3>2. [Visited(d) EXCEPT !.emit = @ \cup {d}] \in Frame
      BY <3>1, VisitTyped DEF Frame
    <3>3. stack' \in Seq(Frame)
      BY <2>5, <3>1, <3>2, VisitTyped, TopOfStack, Appended DEF LoadDefinition, TypesOK
    <3>4. QED
      BY <2>5, <3>1, <3>3, MarkTyped DEF LoadDefinition, TypesOK
  <2>6. ASSUME NEW d \in Syms, ResolveNothing(d)
        PROVE  LoadTypeOK'
    <3>1. Visits(d) /\ MarkLoaded(d) /\ Fail(Asked(stack))
      BY <2>6 DEF ResolveNothing, Fresh
    <3>2. QED
      BY <2>6, <3>1, MarkTyped, FailTyped DEF ResolveNothing, TypesOK
  <2>7. ASSUME NEW d \in Syms, ResolveInModule(d)
        PROVE  LoadTypeOK'
    <3>1. Visits(d) /\ MarkLoaded(d)
      BY <2>7 DEF ResolveInModule, Fresh
    <3>2. linkedMods[Top.mod][Provider(d)] \in Mods
      BY <2>7, <3>1, VisitTyped DEF ResolveInModule, TypesOK, LinkTypeOK
    <3>3. Append(Callers, Visited(d)) \in Seq(Frame)
      BY <3>1, VisitTyped, TopOfStack, Appended DEF TypesOK
    <3>4. Enter(linkedMods[Top.mod][Provider(d)], d, Append(Callers, Visited(d)))
      BY <2>7 DEF ResolveInModule
    <3>5. QED
      BY <2>7, <3>1, <3>2, <3>3, <3>4, MarkTyped, EnterTyped DEF ResolveInModule, TypesOK
  <2>8. ASSUME NEW d \in Syms, ResolveInLibrary(d)
        PROVE  LoadTypeOK'
    <3> DEFINE lib == TranslateLib(CompilerOf[Top.mod], Provider(d))
    <3>1. Visits(d) /\ MarkLoaded(d)
      BY <2>8 DEF ResolveInLibrary, Fresh
    <3>2. CASE <<lib, d>> \in LibSyms /\ UNCHANGED <<answers, failed, aborted>>
               /\ stack' = Append(Callers, [Visited(d) EXCEPT !.defs[d] = <<lib, d>>])
      <4>1. <<lib, d>> \in Addr
        BY <3>2, LoadingAssumption DEF Addr
      <4>2. [Visited(d) EXCEPT !.defs[d] = <<lib, d>>] \in Frame
        BY <3>1, <4>1, VisitTyped, FoundTyped
      <4>3. stack' \in Seq(Frame)
        BY <3>1, <3>2, <4>2, VisitTyped, TopOfStack, Appended DEF TypesOK
      <4>4. QED
        BY <2>8, <3>1, <3>2, <4>3, MarkTyped DEF ResolveInLibrary, TypesOK
    <3>3. CASE Fail(Asked(stack))
      BY <2>8, <3>1, <3>3, MarkTyped, FailTyped DEF ResolveInLibrary, TypesOK
    <3>4. QED
      BY <2>8, <3>2, <3>3 DEF ResolveInLibrary
  <2>9. ASSUME Finish
        PROVE  LoadTypeOK'
    <3> DEFINE table == JitAdd(Top.mod, Top)
               addr  == JitLookup(table, Top.sym)
    <3>1. /\ stack # <<>> /\ Top \in Frame /\ Top.mod \in Mods /\ Top.sym \in Syms
      BY <2>9, TopOfStack DEF Finish, Running, TypesOK, Frame
    <3>2. table \in [Syms -> Entry \cup {Absent}]
      BY <3>1, JitAddTyped
    <3>3. dylib' = [dylib EXCEPT ![Top.mod] = table]
      BY <2>9 DEF Finish
    <3>4. dylib' \in [Mods -> [Syms -> Entry \cup {Absent}]]
      BY <3>2, <3>3 DEF TypesOK
    <3>5. CASE addr = Null /\ Fail(Asked(stack))
      BY <2>9, <3>4, <3>5, FailTyped DEF Finish, TypesOK
    <3>6. CASE /\ addr # Null
               /\ answers' = [answers EXCEPT ![<<Top.mod, Top.sym>>] = addr]
               /\ stack' = IF Callers = <<>> THEN <<>>
                           ELSE [Callers EXCEPT ![Len(Callers)].defs[Top.sym] = addr]
               /\ UNCHANGED <<failed, aborted>>
      <4>1. addr \in Addr
        BY <3>1, <3>2, <3>6, JitLookupTyped
      <4>2. answers' \in [Mods \X Syms -> Addr \cup {Null, Absent}]
        BY <3>1, <3>6, <4>1 DEF TypesOK
      <4>3. stack' \in Seq(Frame)
        <5>1. CASE Callers = <<>>
          BY <3>6, <5>1
        <5>2. CASE Callers # <<>>
          BY <3>1, <3>6, <4>1, <5>2, PoppedTyped
        <5>3. QED
          BY <5>1, <5>2
      <4>4. QED
        BY <2>9, <3>4, <3>6, <4>2, <4>3 DEF Finish, TypesOK
    <3>7. QED
      BY <2>9, <3>5, <3>6 DEF Finish
  <2>10. CASE UNCHANGED vars
    BY <2>10 DEF vars, loadVars, TypesOK
  <2>11. QED
    BY <2>1, <2>2, <2>3, <2>4, <2>5, <2>6, <2>7, <2>8, <2>9, <2>10 DEF Next, LoadStep
<1>3. Spec => []LinkTypeOK
  BY LoadingLinkTypes
<1>4. QED
  BY <1>1, <1>2, <1>3, PTL DEF Spec, TypesOK

-----------------------------------------------------------------------------
(* A call waits for the address of the symbol of the call it has made.  What *)
(* a call has found, is about to define or waits for is its claim: marked in *)
(* its module, not in the dylib, and claimed by no other call of the module. *)
Awaited(i) == IF i < Len(stack) THEN {stack[i + 1].sym} ELSE {}
Claimed(i) == Owned(stack[i]) \cup Awaited(i)

ClaimOK(i) ==
  /\ Claimed(i) \subseteq rtLoaded[stack[i].mod]
  /\ \A s \in Claimed(i) : dylib[stack[i].mod][s] = Absent
  /\ \A s \in stack[i].emit : stack[i].defs[s] = Absent
  /\ Awaited(i) \cap Owned(stack[i]) = {}
ClaimsApart ==
  /\ \A i \in DOMAIN stack : ClaimOK(i)
  /\ \A i, j \in DOMAIN stack :
       i # j /\ stack[i].mod = stack[j].mod => Claimed(i) \cap Claimed(j) = {}

(* The JIT has only symbols that were visited.                               *)
LoadedFirst == \A m \in Mods, s \in Syms : dylib[m][s] # Absent => s \in rtLoaded[m]

(* The claims when the innermost call goes on, makes a call, or returns.     *)
LEMMA CallGoesOn ==
  ASSUME LoadTypeOK, stack # <<>>, NEW x \in Frame, stack' = Append(Callers, x),
         x.mod = Top.mod, x.sym = Top.sym
  PROVE  /\ Len(stack') = Len(stack) /\ DOMAIN stack' = DOMAIN stack
         /\ stack'[Len(stack)] = x
         /\ \A i \in DOMAIN stack : /\ stack'[i].mod = stack[i].mod
                                    /\ stack'[i].sym = stack[i].sym
                                    /\ Awaited(i)' = Awaited(i)
                                    /\ i # Len(stack) => stack'[i] = stack[i]
<1>1. /\ Len(stack) \in Nat \ {0} /\ DOMAIN stack = 1..Len(stack)
      /\ Top = stack[Len(stack)]
      /\ Callers \in Seq(Frame)
      /\ Len(Callers) \in Nat /\ Len(stack) = Len(Callers) + 1
      /\ \A i \in 1..Len(Callers) : Callers[i] = stack[i]
  BY TopOfStack
<1>2. /\ stack' \in Seq(Frame) /\ Len(stack') = Len(stack) /\ stack'[Len(stack)] = x
      /\ \A i \in 1..Len(Callers) : stack'[i] = stack[i]
  <2>1. /\ stack' \in Seq(Frame) /\ Len(stack') = Len(Callers) + 1
        /\ stack'[Len(Callers) + 1] = x
        /\ \A i \in 1..Len(Callers) : stack'[i] = Callers[i]
    BY <1>1, Appended
  <2>2. QED
    BY <1>1, <2>1
<1>3. DOMAIN stack' = DOMAIN stack
  <2>1. DOMAIN stack' = 1..Len(stack')
    BY <1>2
  <2>2. QED
    BY <1>1, <1>2, <2>1
<1>4. \A i \in DOMAIN stack : /\ stack'[i].mod = stack[i].mod
                              /\ stack'[i].sym = stack[i].sym
                              /\ i # Len(stack) => stack'[i] = stack[i]
  BY <1>1, <1>2
<1>5. \A i \in DOMAIN stack : i < Len(stack) => i + 1 \in DOMAIN stack
  BY <1>1
<1>6. QED
  BY <1>2, <1>3, <1>4, <1>5 DEF Awaited

LEMMA CallCalls ==
  ASSUME LoadTypeOK, stack # <<>>, NEW x \in Frame, NEW y \in Frame,
         stack' = Append(Append(Callers, x), y), x.mod = Top.mod, x.sym = Top.sym
  PROVE  /\ Len(stack') = Len(stack) + 1 /\ DOMAIN stack' = DOMAIN stack \cup {Len(stack')}
         /\ Len(stack') \notin DOMAIN stack
         /\ stack'[Len(stack)] = x /\ stack'[Len(stack')] = y
         /\ \A n : n = Len(stack) => Awaited(n)' = {y.sym}
         /\ \A n : n = Len(stack') => Awaited(n)' = {}
         /\ \A i \in DOMAIN stack : /\ stack'[i].mod = stack[i].mod
                                    /\ stack'[i].sym = stack[i].sym
                                    /\ i # Len(stack) => /\ stack'[i] = stack[i]
                                                         /\ Awaited(i)' = Awaited(i)
<1>1. /\ Len(stack) \in Nat \ {0} /\ DOMAIN stack = 1..Len(stack)
      /\ Top = stack[Len(stack)]
      /\ Callers \in Seq(Frame)
      /\ Len(Callers) \in Nat /\ Len(stack) = Len(Callers) + 1
      /\ \A i \in 1..Len(Callers) : Callers[i] = stack[i]
  BY TopOfStack
<1>2. /\ Append(Callers, x) \in Seq(Frame) /\ Len(Append(Callers, x)) = Len(stack)
      /\ Append(Callers, x)[Len(stack)] = x
      /\ \A i \in 1..Len(Callers) : Append(Callers, x)[i] = stack[i]
  <2>1. /\ Append(Callers, x) \in Seq(Frame)
        /\ Len(Append(Callers, x)) = Len(Callers) + 1
        /\ Append(Callers, x)[Len(Callers) + 1] = x
        /\ \A i \in 1..Len(Callers) : Append(Callers, x)[i] = Callers[i]
    BY <1>1, Appended
  <2>2. QED
    BY <1>1, <2>1
<1>3. /\ stack' \in Seq(Frame) /\ Len(stack') = Len(stack) + 1
      /\ stack'[Len(stack) + 1] = y
      /\ \A i \in 1..Len(stack) : stack'[i] = Append(Callers, x)[i]
  BY <1>2, Appended
<1>4. stack'[Len(stack)] = x /\ \A i \in 1..Len(Callers) : stack'[i] = stack[i]
  <2>1. Len(stack) \in 1..Len(stack) /\ \A i \in 1..Len(Callers) : i \in 1..Len(stack)
    BY <1>1
  <2>2. QED
    BY <1>2, <1>3, <2>1
<1>5. DOMAIN stack' = DOMAIN stack \cup {Len(stack')} /\ Len(stack') \notin DOMAIN stack
  <2>1. DOMAIN stack' = 1..Len(stack')
    BY <1>3
  <2>2. QED
    BY <1>1, <1>3, <2>1
<1>6. \A i \in DOMAIN stack : /\ stack'[i].mod = stack[i].mod
                              /\ stack'[i].sym = stack[i].sym
                              /\ i # Len(stack) => stack'[i] = stack[i]
  <2>1. \A i \in DOMAIN stack : i # Len(stack) => i \in 1..Len(Callers)
    BY <1>1
  <2>2. QED
    BY <1>1, <1>4, <2>1
<1>7. /\ \A n : n = Len(stack) => Awaited(n)' = {y.sym}
      /\ \A n : n = Len(stack') => Awaited(n)' = {}
  <2>1. Len(stack) < Len(stack') /\ ~(Len(stack') < Len(stack'))
    BY <1>1, <1>3
  <2>2. QED
    BY <1>3, <2>1 DEF Awaited
<1>8. \A i \in DOMAIN stack : i # Len(stack) => i + 1 \in DOMAIN stack /\ i < Len(stack)
                                                /\ i < Len(stack')
  BY <1>1, <1>3
<1>9. \A i \in DOMAIN stack : i # Len(stack) => Awaited(i)' = Awaited(i)
  BY <1>6, <1>8 DEF Awaited
<1>10. QED
  BY <1>3, <1>4, <1>5, <1>6, <1>7, <1>9

LEMMA CallReturns ==
  ASSUME TypesOK, stack # <<>>, Callers # <<>>, NEW a \in Addr,
         stack' = [Callers EXCEPT ![Len(Callers)].defs[Top.sym] = a]
  PROVE  /\ Len(stack) = Len(stack') + 1 /\ DOMAIN stack = DOMAIN stack' \cup {Len(stack)}
         /\ Len(stack) \notin DOMAIN stack' /\ Len(stack') \in DOMAIN stack'
         /\ stack'[Len(stack')] = [stack[Len(stack')] EXCEPT !.defs[Top.sym] = a]
         /\ \A n : n = Len(stack') => Awaited(n)' = {} /\ Awaited(n) = {Top.sym}
         /\ \A i \in DOMAIN stack' : /\ stack'[i].mod = stack[i].mod
                                     /\ stack'[i].sym = stack[i].sym
                                     /\ i # Len(stack') => /\ stack'[i] = stack[i]
                                                           /\ Awaited(i)' = Awaited(i)
<1>1. /\ Len(stack) \in Nat \ {0} /\ DOMAIN stack = 1..Len(stack)
      /\ Top = stack[Len(stack)] /\ stack \in Seq(Frame)
  BY TopOfStack DEF TypesOK, LoadTypeOK
<1>2. /\ stack' \in Seq(Frame)
      /\ Len(stack') = Len(stack) - 1 /\ Len(stack') \in Nat \ {0}
      /\ \A i \in 1..Len(stack') - 1 : stack'[i] = stack[i]
      /\ stack'[Len(stack')] = [stack[Len(stack')] EXCEPT !.defs[Top.sym] = a]
  BY PoppedTyped
<1>3. DOMAIN stack' = 1..Len(stack') /\ Len(stack) = Len(stack') + 1
  <2>1. DOMAIN stack' = 1..Len(stack')
    BY <1>2
  <2>2. \A n \in Nat \ {0} : \A k \in Nat : k = n - 1 => n = k + 1
    OBVIOUS
  <2>3. Len(stack) = Len(stack') + 1
    BY <1>1, <1>2, <2>2, Zenon
  <2>4. QED
    BY <2>1, <2>3
<1>4. /\ Len(stack) = Len(stack') + 1 /\ DOMAIN stack = DOMAIN stack' \cup {Len(stack)}
      /\ Len(stack) \notin DOMAIN stack' /\ Len(stack') \in DOMAIN stack'
  <2>1. 1..Len(stack) = 1..Len(stack') \cup {Len(stack)}
    BY <1>2, <1>3
  <2>2. Len(stack) \notin 1..Len(stack') /\ Len(stack') \in 1..Len(stack')
    BY <1>2, <1>3
  <2>3. QED
    BY <1>1, <1>3, <2>1, <2>2
<1>5. stack[Len(stack')] \in Frame
  BY <1>1, <1>4
<1>6. \A i \in DOMAIN stack' : /\ stack'[i].mod = stack[i].mod
                               /\ stack'[i].sym = stack[i].sym
                               /\ i # Len(stack') => stack'[i] = stack[i]
  <2>1. PICK f \in Frame : f = stack[Len(stack')]
    BY <1>5
  <2>2. PICK g : g = [f EXCEPT !.defs[Top.sym] = a]
    OBVIOUS
  <2>3. g.mod = f.mod /\ g.sym = f.sym
    BY <2>2 DEF Frame
  <2>4. stack'[Len(stack')] = g
    BY <1>2, <2>1, <2>2, Zenon
  <2>5. \A m \in Nat \ {0} : \A i \in 1..m : i = m \/ i \in 1..m-1
    OBVIOUS
  <2>6. ASSUME NEW i \in DOMAIN stack'
        PROVE  i = Len(stack') \/ stack'[i] = stack[i]
    BY <1>2, <1>3, <2>5
  <2>7. QED
    BY <2>1, <2>3, <2>4, <2>6
<1>7. \A n : n = Len(stack') => Awaited(n)' = {} /\ Awaited(n) = {Top.sym}
  <2>1. ~(Len(stack') < Len(stack')) /\ Len(stack') < Len(stack)
    BY <1>2, <1>3
  <2>2. Top = stack[Len(stack') + 1]
    BY <1>1, <1>3
  <2>3. QED
    BY <2>1, <2>2 DEF Awaited
<1>8. \A i \in DOMAIN stack' : i # Len(stack') => /\ i + 1 \in DOMAIN stack'
                                                  /\ i < Len(stack) /\ i < Len(stack')
  BY <1>2, <1>3
<1>9. \A i \in DOMAIN stack' : i # Len(stack') => Awaited(i)' = Awaited(i)
  BY <1>6, <1>8 DEF Awaited
<1>10. QED
  BY <1>2, <1>4, <1>6, <1>7, <1>9

(* What visiting a dependency does to the frame of the call.                 *)
LEMMA OwnedByVisit ==
  ASSUME TypesOK, NEW d \in Syms, Visits(d)
  PROVE  Owned(Visited(d)) = Owned(Top)
  BY VisitTyped DEF Owned

LEMMA OwnedByDefinition ==
  ASSUME TypesOK, NEW d \in Syms, Visits(d), NEW x,
         x = [Visited(d) EXCEPT !.emit = @ \cup {d}]
  PROVE  /\ x \in Frame /\ x.mod = Top.mod /\ x.sym = Top.sym /\ x.todo = Top.todo \ {d}
         /\ x.emit = Top.emit \cup {d} /\ x.defs = Top.defs
         /\ Owned(x) = Owned(Top) \cup {d}
<1>1. /\ x \in Frame /\ x.mod = Top.mod /\ x.sym = Top.sym /\ x.todo = Top.todo \ {d}
      /\ x.emit = Top.emit \cup {d} /\ x.defs = Top.defs
  BY VisitTyped DEF Frame
<1>2. QED
  BY <1>1 DEF Owned

LEMMA OwnedByAddress ==
  ASSUME NEW fr \in Frame, NEW d \in Syms, NEW a \in Addr, NEW x \in Frame,
         x.emit = fr.emit,
         \A t \in Syms : x.defs[t] = IF t = d THEN a ELSE fr.defs[t]
  PROVE  Owned(x) = Owned(fr) \cup {d}
<1>1. a # Absent
  BY LoadingAssumption
<1>2. QED
  BY <1>1 DEF Owned

LoadingApart == TypesOK /\ ClaimsApart /\ LoadedFirst

(* Marking the symbol a call visits.                                         *)
LEMMA MarkedLoaded ==
  ASSUME TypesOK, NEW d \in Syms, Fresh(d), MarkLoaded(d)
  PROVE  /\ Visits(d) /\ Top.mod \in Mods /\ Top \in Frame
         /\ d \notin rtLoaded[Top.mod] /\ d \in rtLoaded'[Top.mod]
         /\ \A n \in Mods : rtLoaded[n] \subseteq rtLoaded'[n]
         /\ \A n \in Mods : n # Top.mod => rtLoaded'[n] = rtLoaded[n]
         /\ rtLoaded'[Top.mod] = rtLoaded[Top.mod] \cup {d}
  BY VisitTyped, TopOfStack DEF Fresh, MarkLoaded, TypesOK, LoadTypeOK

LEMMA MarkKeepsFirst ==
  ASSUME TypesOK, LoadedFirst, NEW d \in Syms, Fresh(d), MarkLoaded(d), dylib' = dylib
  PROVE  LoadedFirst' /\ dylib[Top.mod][d] = Absent
  BY MarkedLoaded DEF LoadedFirst

(* A step that visits a symbol, and makes the claim of one call grow by it.   *)
LEMMA ClaimsStay ==
  ASSUME LoadingApart, TypesOK', NEW d \in Syms, Fresh(d), MarkLoaded(d), dylib' = dylib,
         \A i \in DOMAIN stack' :
           \/ Claimed(i)' = {}
           \/ /\ i \in DOMAIN stack /\ stack'[i].mod = stack[i].mod
              /\ \/ Claimed(i)' \subseteq Claimed(i)
                 \/ i = Len(stack) /\ Claimed(i)' \subseteq Claimed(i) \cup {d},
         \A i \in DOMAIN stack' : /\ \A s \in stack'[i].emit : stack'[i].defs[s] = Absent
                                  /\ Awaited(i)' \cap Owned(stack'[i]) = {}
  PROVE  ClaimsApart'
<1> DEFINE k == Len(stack)
           m == Top.mod
           D == {d}
<1>visits. /\ ClaimsApart /\ m \in Mods /\ Top = stack[k]
           /\ D \cap rtLoaded[m] = {} /\ \A s \in D : dylib[m][s] = Absent
           /\ D \subseteq rtLoaded'[m] /\ \A n \in Mods : rtLoaded[n] \subseteq rtLoaded'[n]
  BY MarkedLoaded, MarkKeepsFirst, VisitTyped DEF LoadingApart, Top
<1>grows. \A i \in DOMAIN stack' :
           \/ Claimed(i)' = {}
           \/ /\ i \in DOMAIN stack /\ stack'[i].mod = stack[i].mod
              /\ \/ Claimed(i)' \subseteq Claimed(i)
                 \/ i = k /\ stack[i].mod = m /\ Claimed(i)' \subseteq Claimed(i) \cup D
  BY <1>visits
<1> HIDE DEF k, m, D
<1>1. ASSUME NEW i \in DOMAIN stack'
      PROVE  stack'[i].mod \in Mods /\ ClaimOK(i)'
  <2>1. stack'[i].mod \in Mods
    BY FramesTypedNext DEF FramesTyped
  <2>2. CASE Claimed(i)' = {}
    BY <2>1, <2>2 DEF ClaimOK
  <2>3. CASE /\ i \in DOMAIN stack /\ stack'[i].mod = stack[i].mod
             /\ \/ Claimed(i)' \subseteq Claimed(i)
                \/ i = k /\ stack[i].mod = m /\ Claimed(i)' \subseteq Claimed(i) \cup D
    <3>1. /\ Claimed(i) \subseteq rtLoaded[stack[i].mod]
          /\ \A s \in Claimed(i) : dylib[stack[i].mod][s] = Absent
      BY <1>visits, <2>3 DEF ClaimOK, ClaimsApart
    <3>2. /\ Claimed(i)' \subseteq rtLoaded'[stack[i].mod]
          /\ \A s \in Claimed(i)' : dylib[stack[i].mod][s] = Absent
      <4>1. rtLoaded[stack[i].mod] \subseteq rtLoaded'[stack[i].mod]
        <5>1. stack[i].mod \in Mods
          BY <2>1, <2>3
        <5>2. \A n \in Mods : rtLoaded[n] \subseteq rtLoaded'[n]
          BY <1>visits
        <5>3. QED
          BY <5>1, <5>2, Zenon
      <4>2. CASE Claimed(i)' \subseteq Claimed(i)
        BY <3>1, <4>1, <4>2
      <4>3. CASE stack[i].mod = m /\ Claimed(i)' \subseteq Claimed(i) \cup D
        BY <1>visits, <3>1, <4>1, <4>3
      <4>4. QED
        BY <2>3, <4>2, <4>3
    <3>3. QED
      BY <2>1, <2>3, <3>2 DEF ClaimOK
  <2>4. QED
    BY <1>grows, <2>2, <2>3
<1>2. ASSUME NEW i \in DOMAIN stack', NEW j \in DOMAIN stack', i # j,
             stack'[i].mod = stack'[j].mod
      PROVE  Claimed(i)' \cap Claimed(j)' = {}
  <2>1. CASE Claimed(i)' = {} \/ Claimed(j)' = {}
    BY <2>1
  <2>2. CASE Claimed(i)' # {} /\ Claimed(j)' # {}
    <3>1. /\ i \in DOMAIN stack /\ stack'[i].mod = stack[i].mod
          /\ j \in DOMAIN stack /\ stack'[j].mod = stack[j].mod
          /\ Claimed(i) \cap Claimed(j) = {}
      BY <1>visits, <1>2, <1>grows, <2>2 DEF ClaimsApart
    <3>2. CASE Claimed(i)' \subseteq Claimed(i) /\ Claimed(j)' \subseteq Claimed(j)
      BY <3>1, <3>2
    <3>3. CASE /\ i = k /\ stack[i].mod = m /\ Claimed(i)' \subseteq Claimed(i) \cup D
               /\ Claimed(j)' \subseteq Claimed(j)
      <4>1. Claimed(j) \subseteq rtLoaded[m]
        BY <1>visits, <1>2, <3>1, <3>3 DEF ClaimsApart, ClaimOK
      <4>2. QED
        BY <1>visits, <3>1, <3>3, <4>1
    <3>4. CASE /\ j = k /\ stack[j].mod = m /\ Claimed(j)' \subseteq Claimed(j) \cup D
               /\ Claimed(i)' \subseteq Claimed(i)
      <4>1. Claimed(i) \subseteq rtLoaded[m]
        BY <1>visits, <1>2, <3>1, <3>4 DEF ClaimsApart, ClaimOK
      <4>2. QED
        BY <1>visits, <3>1, <3>4, <4>1
    <3>5. QED
      BY <1>grows, <1>2, <2>2, <3>2, <3>3, <3>4
  <2>3. QED
    BY <2>1, <2>2
<1>3. QED
  BY <1>1, <1>2 DEF ClaimsApart

(* The innermost call goes on, with at most one more symbol in its claim.    *)
LEMMA ClaimsGoOn ==
  ASSUME LoadingApart, TypesOK', NEW d \in Syms, Fresh(d), MarkLoaded(d), dylib' = dylib,
         NEW x \in Frame, stack' = Append(Callers, x),
         x.mod = Top.mod, x.sym = Top.sym, Owned(x) \subseteq Owned(Top) \cup {d},
         \A s \in x.emit : x.defs[s] = Absent
  PROVE  ClaimsApart'
<1>1. TypesOK /\ ClaimsApart /\ LoadedFirst /\ LoadTypeOK /\ stack # <<>>
  BY MarkedLoaded, VisitTyped DEF LoadingApart, TypesOK
<1>2. /\ DOMAIN stack' = DOMAIN stack /\ stack'[Len(stack)] = x
      /\ \A i \in DOMAIN stack : /\ stack'[i].mod = stack[i].mod
                                 /\ Awaited(i)' = Awaited(i)
                                 /\ i # Len(stack) => stack'[i] = stack[i]
  BY <1>1, CallGoesOn
<1>3. Top = stack[Len(stack)] /\ Len(stack) \in DOMAIN stack /\ Top.mod \in Mods
  BY <1>1, TopOfStack, MarkedLoaded
<1>4. \A i \in DOMAIN stack : Claimed(i)' = Owned(stack'[i]) \cup Awaited(i)
  BY <1>2 DEF Claimed, Owned
<1>5. \A i \in DOMAIN stack :
        /\ i # Len(stack) => Claimed(i)' = Claimed(i)
        /\ i = Len(stack) => Claimed(i)' \subseteq Claimed(i) \cup {d}
  BY <1>2, <1>3, <1>4 DEF Claimed
<1>6. \A i : i = Len(stack) => Awaited(i) = {}
  BY <1>1, TopOfStack DEF Awaited
<1>7. \A i \in DOMAIN stack' : /\ \A s \in stack'[i].emit : stack'[i].defs[s] = Absent
                               /\ Awaited(i)' \cap Owned(stack'[i]) = {}
  BY <1>1, <1>2, <1>6 DEF ClaimsApart, ClaimOK
<1>8. \A i \in DOMAIN stack' :
        /\ i \in DOMAIN stack /\ stack'[i].mod = stack[i].mod
        /\ \/ Claimed(i)' \subseteq Claimed(i)
           \/ i = Len(stack) /\ Claimed(i)' \subseteq Claimed(i) \cup {d}
  BY <1>2, <1>5
<1>9. QED
  BY <1>7, <1>8, ClaimsStay

(* The innermost call makes a call for the symbol it visits.                 *)
LEMMA ClaimsCall ==
  ASSUME LoadingApart, TypesOK', NEW d \in Syms, Fresh(d), MarkLoaded(d), dylib' = dylib,
         NEW y \in Frame, stack' = Append(Append(Callers, Visited(d)), y),
         y.sym = d, y.emit = {}, \A t \in Syms : y.defs[t] = Absent
  PROVE  ClaimsApart'
<1>1. /\ TypesOK /\ ClaimsApart /\ LoadedFirst /\ LoadTypeOK /\ stack # <<>>
      /\ Visited(d) \in Frame /\ Visited(d).mod = Top.mod /\ Visited(d).sym = Top.sym
      /\ Visited(d).emit = Top.emit /\ Visited(d).defs = Top.defs
      /\ Owned(Visited(d)) = Owned(Top)
  BY MarkedLoaded, VisitTyped, OwnedByVisit DEF LoadingApart, TypesOK
<1>2. /\ DOMAIN stack' = DOMAIN stack \cup {Len(stack')}
      /\ Len(stack') \notin DOMAIN stack
      /\ stack'[Len(stack)] = Visited(d) /\ stack'[Len(stack')] = y
      /\ \A n : n = Len(stack) => Awaited(n)' = {d}
      /\ \A n : n = Len(stack') => Awaited(n)' = {}
      /\ \A i \in DOMAIN stack : /\ stack'[i].mod = stack[i].mod
                                 /\ i # Len(stack) => /\ stack'[i] = stack[i]
                                                      /\ Awaited(i)' = Awaited(i)
  BY <1>1, CallCalls
<1>3. Top = stack[Len(stack)] /\ Len(stack) \in DOMAIN stack /\ Top \in Frame
  BY <1>1, TopOfStack
<1>4. Owned(y) = {}
  BY DEF Owned
<1>5. \A i \in DOMAIN stack' : Claimed(i)' = Owned(stack'[i]) \cup Awaited(i)'
  BY DEF Claimed, Owned
<1>6. \A i \in DOMAIN stack' :
        \/ Claimed(i)' = {}
        \/ /\ i \in DOMAIN stack /\ stack'[i].mod = stack[i].mod
           /\ \/ Claimed(i)' \subseteq Claimed(i)
              \/ i = Len(stack) /\ Claimed(i)' \subseteq Claimed(i) \cup {d}
  BY <1>1, <1>2, <1>3, <1>4, <1>5 DEF Claimed
<1>7. d \notin Owned(Top)
  <2>1. ClaimOK(Len(stack)) /\ d \notin rtLoaded[Top.mod]
    BY <1>1, <1>3, MarkedLoaded DEF ClaimsApart
  <2>2. QED
    BY <1>3, <2>1 DEF ClaimOK, Claimed
<1>8. ASSUME NEW i \in DOMAIN stack'
      PROVE  /\ \A s \in stack'[i].emit : stack'[i].defs[s] = Absent
             /\ Awaited(i)' \cap Owned(stack'[i]) = {}
  <2>1. CASE i = Len(stack')
    BY <1>2, <2>1
  <2>2. CASE i \in DOMAIN stack
    <3>1. ClaimOK(i)
      BY <1>1, <2>2 DEF ClaimsApart
    <3>2. CASE i = Len(stack)
      BY <1>1, <1>2, <1>3, <1>7, <3>1, <3>2 DEF ClaimOK
    <3>3. CASE i # Len(stack)
      BY <1>2, <2>2, <3>1, <3>3 DEF ClaimOK
    <3>4. QED
      BY <3>2, <3>3
  <2>3. QED
    BY <1>2, <2>1, <2>2
<1>9. QED
  BY <1>6, <1>8, ClaimsStay

(* What the dylib of the module has when a call finishes: what it had, and   *)
(* what the call owns.                                                       *)
LEMMA FinishDefines ==
  ASSUME TypesOK, Finish
  PROVE  /\ Top \in Frame /\ Top.mod \in Mods /\ stack # <<>>
         /\ \A m \in Mods : m # Top.mod => dylib'[m] = dylib[m]
         /\ dylib'[Top.mod] = JitAdd(Top.mod, Top)
         /\ \A t \in Syms : dylib'[Top.mod][t] # Absent
                              => dylib[Top.mod][t] # Absent \/ t \in Owned(Top)
<1>1. /\ Top \in Frame /\ Top.mod \in Mods /\ stack # <<>>
      /\ dylib' = [dylib EXCEPT ![Top.mod] = JitAdd(Top.mod, Top)]
  BY TopOfStack DEF Finish, Running, TypesOK, Frame
<1>2. /\ \A m \in Mods : m # Top.mod => dylib'[m] = dylib[m]
      /\ dylib'[Top.mod] = JitAdd(Top.mod, Top)
  BY <1>1 DEF TypesOK, LoadTypeOK
<1>3. \A t \in Syms : JitAdd(Top.mod, Top)[t] # Absent
                        => dylib[Top.mod][t] # Absent \/ t \in Owned(Top)
  BY DEF JitAdd, Owned
<1>4. QED
  BY <1>1, <1>2, <1>3

LEMMA ClaimsReturn ==
  ASSUME LoadingApart, TypesOK', Finish, Callers # <<>>, NEW a \in Addr,
         stack' = [Callers EXCEPT ![Len(Callers)].defs[Top.sym] = a]
  PROVE  ClaimsApart'
<1>1. /\ TypesOK /\ ClaimsApart /\ LoadedFirst /\ stack # <<>>
      /\ Top \in Frame /\ Top.mod \in Mods /\ rtLoaded' = rtLoaded /\ Top.sym \in Syms
  BY FinishDefines DEF LoadingApart, Finish, Frame
<1>2. /\ DOMAIN stack = DOMAIN stack' \cup {Len(stack)}
      /\ Len(stack) \notin DOMAIN stack' /\ Len(stack') \in DOMAIN stack'
      /\ stack'[Len(stack')] = [stack[Len(stack')] EXCEPT !.defs[Top.sym] = a]
      /\ \A n : n = Len(stack') => Awaited(n)' = {} /\ Awaited(n) = {Top.sym}
      /\ \A i \in DOMAIN stack' : /\ stack'[i].mod = stack[i].mod
                                  /\ i # Len(stack') => /\ stack'[i] = stack[i]
                                                        /\ Awaited(i)' = Awaited(i)
  BY <1>1, CallReturns
<1>3. stack[Len(stack')] \in Frame /\ Top = stack[Len(stack)]
  BY <1>1, <1>2, FramesTypedNow DEF FramesTyped, Top
<1>4. /\ stack'[Len(stack')].emit = stack[Len(stack')].emit
      /\ \A t \in Syms : stack'[Len(stack')].defs[t] =
                           IF t = Top.sym THEN a ELSE stack[Len(stack')].defs[t]
      /\ Owned(stack'[Len(stack')]) = Owned(stack[Len(stack')]) \cup {Top.sym}
  <2>1. PICK fr \in Frame, d \in Syms : fr = stack[Len(stack')] /\ d = Top.sym
    BY <1>1, <1>3
  <2>2. stack'[Len(stack')] = [fr EXCEPT !.defs[d] = a]
    BY <1>2, <2>1
  <2>3. /\ stack'[Len(stack')].emit = fr.emit
        /\ \A t \in Syms : stack'[Len(stack')].defs[t] = IF t = d THEN a ELSE fr.defs[t]
    BY <2>2 DEF Frame
  <2>4. a # Absent
    BY LoadingAssumption
  <2>5. Owned(stack'[Len(stack')]) = Owned(fr) \cup {d}
    BY <2>3, <2>4 DEF Owned
  <2>6. QED
    BY <2>1, <2>3, <2>5
<1>5. \A i \in DOMAIN stack' : Claimed(i)' = Claimed(i)
  <2>1. \A i \in DOMAIN stack' : Claimed(i)' = Owned(stack'[i]) \cup Awaited(i)'
    BY DEF Claimed, Owned
  <2>2. QED
    BY <1>2, <1>4, <2>1 DEF Claimed
<1>6. ASSUME NEW i \in DOMAIN stack'
      PROVE  ClaimOK(i)'
  <2>1. /\ ClaimOK(i) /\ i \in DOMAIN stack /\ i # Len(stack)
        /\ Len(stack) \in DOMAIN stack /\ stack[i].mod \in Mods /\ stack[i] \in Frame
    BY <1>1, <1>2, FramesTypedNow DEF ClaimsApart, FramesTyped
  <2>2. Claimed(i) \subseteq rtLoaded[stack[i].mod] /\ Claimed(i) \subseteq Syms
    BY <1>1, <2>1 DEF ClaimOK, TypesOK, LoadTypeOK
  <2>3. \A s \in Claimed(i) : dylib[stack[i].mod][s] = Absent
    BY <2>1 DEF ClaimOK
  <2>4. \A s \in Claimed(i) : dylib'[stack[i].mod][s] = Absent
    <3>1. CASE stack[i].mod # Top.mod
      BY <1>1, <2>1, <2>3, <3>1, FinishDefines
    <3>2. CASE stack[i].mod = Top.mod
      <4>1. Claimed(i) \cap Claimed(Len(stack)) = {}
        BY <1>1, <1>3, <2>1, <3>2 DEF ClaimsApart
      <4>2. Owned(Top) \subseteq Claimed(Len(stack))
        BY <1>3 DEF Claimed
      <4>3. QED
        BY <1>1, <2>2, <2>3, <3>2, <4>1, <4>2, FinishDefines
    <3>3. QED
      BY <3>1, <3>2
  <2>5. /\ \A s \in stack'[i].emit : stack'[i].defs[s] = Absent
        /\ Awaited(i)' \cap Owned(stack'[i]) = {}
    <3>1. CASE i = Len(stack')
      <4>1. Top.sym \notin stack[i].emit
        <5>1. Awaited(i) = {Top.sym}
          BY <1>2, <3>1
        <5>2. QED
          BY <2>1, <5>1 DEF ClaimOK, Owned
      <4>2. stack[i].emit \subseteq Syms
        BY <2>1 DEF Frame
      <4>3. \A s \in stack[i].emit : stack[i].defs[s] = Absent
        BY <2>1 DEF ClaimOK
      <4>4. \A s \in stack[i].emit : stack'[i].defs[s] = Absent
        BY <1>4, <3>1, <4>1, <4>2, <4>3
      <4>5. QED
        BY <1>2, <1>4, <3>1, <4>4
    <3>2. CASE i # Len(stack')
      BY <1>2, <2>1, <3>2 DEF ClaimOK
    <3>3. QED
      BY <3>1, <3>2
  <2>6. Claimed(i)' \subseteq rtLoaded'[stack'[i].mod]
    BY <1>1, <1>2, <1>5, <2>2
  <2>7. \A s \in Claimed(i)' : dylib'[stack'[i].mod][s] = Absent
    BY <1>2, <1>5, <2>4
  <2>8. QED
    BY <2>5, <2>6, <2>7 DEF ClaimOK
<1>7. ASSUME NEW i \in DOMAIN stack', NEW j \in DOMAIN stack', i # j,
             stack'[i].mod = stack'[j].mod
      PROVE  Claimed(i)' \cap Claimed(j)' = {}
  <2>1. Claimed(i) \cap Claimed(j) = {}
    <3>1. i \in DOMAIN stack /\ j \in DOMAIN stack /\ stack[i].mod = stack[j].mod
      BY <1>2, <1>7
    <3>2. QED
      BY <1>1, <1>7, <3>1 DEF ClaimsApart
  <2>2. QED
    BY <1>5, <2>1
<1>8. QED
  BY <1>6, <1>7 DEF ClaimsApart

(* Entering a call: nothing is called, or the stack is dropped, kept, or has *)
(* one call more.                                                            *)
Called(m, s) == [mod |-> m, sym |-> s, todo |-> Closure(m, s),
                 emit |-> {}, defs |-> [t \in Syms |-> Absent]]
LEMMA EnterCases ==
  ASSUME TypesOK, NEW m \in Mods, NEW s \in Syms, NEW callers, Enter(m, s, callers)
  PROVE  /\ Called(m, s) \in Frame
         /\ \/ stack' = <<>>
            \/ stack' = stack /\ aborted' = TRUE
            \/ /\ stack' = Append(callers, Called(m, s))
               /\ Declared(m, s) /\ ValidIr(m, s)
               /\ UNCHANGED <<answers, failed, aborted>>
<1>1. Closure(m, s) \subseteq Syms
  BY ClosureClosed DEF TypesOK
<1>2. QED
  BY <1>1 DEF Called, Frame, Enter, Fail

LEMMA NoClaims ==
  ASSUME stack = <<>>
  PROVE  ClaimsApart
  BY DEF ClaimsApart

LEMMA NoClaimsNext ==
  ASSUME stack' = <<>>
  PROVE  ClaimsApart'
  BY DEF ClaimsApart

(* The stack of a session that runs no call, after its first call.           *)
LEMMA FirstCall ==
  ASSUME NEW y \in Frame, stack' = Append(<<>>, y), y.emit = {},
         \A t \in Syms : y.defs[t] = Absent
  PROVE  ClaimsApart'
<1>1. DOMAIN stack' = {1} /\ stack'[1] = y /\ Len(stack') = 1
  OBVIOUS
<1>2. Owned(y) = {}
  BY DEF Owned
<1>3. \A i \in DOMAIN stack' : Awaited(i)' = {} /\ Owned(stack'[i]) = {} /\ stack'[i] = y
  BY <1>1, <1>2 DEF Awaited
<1>4. \A i \in DOMAIN stack' : Claimed(i)' = {}
  BY <1>3 DEF Claimed, Owned
<1>5. QED
  BY <1>3, <1>4 DEF ClaimsApart, ClaimOK, Owned

(* Whatever calls are nested, no two of them claim the same symbol of a      *)
(* module: what a call will define is visited and not yet defined, and a     *)
(* defined symbol was visited.                                               *)
THEOREM ClaimsInvariant == Spec => [](ClaimsApart /\ LoadedFirst)
<1>1. Init => ClaimsApart /\ LoadedFirst
  BY NoClaims DEF Init, LoadedFirst
<1>2. LoadingApart /\ TypesOK' /\ [Next]_vars => (ClaimsApart /\ LoadedFirst)'
  <2> SUFFICES ASSUME LoadingApart, TypesOK', [Next]_vars
               PROVE  ClaimsApart' /\ LoadedFirst'
    OBVIOUS
  <2>0. TypesOK /\ ClaimsApart /\ LoadedFirst
    BY DEF LoadingApart
  <2>1. ASSUME UNCHANGED loadVars
        PROVE  ClaimsApart' /\ LoadedFirst'
    BY <2>0, <2>1 DEF loadVars, ClaimsApart, ClaimOK, Claimed, Awaited, Owned, LoadedFirst
  <2>2. ASSUME NEW c \in Compilers, NEW p \in Aliases, AddLibraryAlias(c, p[1], p[2])
        PROVE  ClaimsApart' /\ LoadedFirst'
    BY <2>0, <2>2 DEF AddLibraryAlias, ClaimsApart, ClaimOK, Claimed, Awaited, Owned,
                      LoadedFirst
  <2>3. ASSUME NEW m \in Mods, NEW s \in Syms, GetSymbolAddress(m, s)
        PROVE  ClaimsApart' /\ LoadedFirst'
    <3>1. stack = <<>> /\ Enter(m, s, <<>>) /\ LoadedFirst'
      BY <2>0, <2>3 DEF GetSymbolAddress, Between, LoadedFirst
    <3>2. CASE stack' = <<>>
      BY <3>1, <3>2, NoClaimsNext
    <3>3. CASE stack' = Append(<<>>, Called(m, s))
      <4>1. Called(m, s) \in Frame
        BY <2>0, <3>1, EnterCases
      <4>2. Called(m, s).emit = {} /\ \A t \in Syms : Called(m, s).defs[t] = Absent
        BY DEF Called
      <4>3. QED
        BY <3>1, <3>3, <4>1, <4>2, FirstCall
    <3>4. QED
      BY <2>0, <3>1, <3>2, <3>3, EnterCases
  <2>4. ASSUME NEW d \in Syms, SkipLoaded(d)
        PROVE  ClaimsApart' /\ LoadedFirst'
    <3>1. /\ Visits(d) /\ stack # <<>> /\ Visited(d) \in Frame
          /\ Visited(d).mod = Top.mod /\ Visited(d).sym = Top.sym
          /\ Visited(d).emit = Top.emit /\ Visited(d).defs = Top.defs
          /\ Owned(Visited(d)) = Owned(Top)
      BY <2>0, <2>4, VisitTyped, OwnedByVisit DEF SkipLoaded
    <3>2. /\ DOMAIN stack' = DOMAIN stack /\ stack'[Len(stack)] = Visited(d)
          /\ \A i \in DOMAIN stack : /\ stack'[i].mod = stack[i].mod
                                     /\ Awaited(i)' = Awaited(i)
                                     /\ i # Len(stack) => stack'[i] = stack[i]
      BY <2>0, <2>4, <3>1, CallGoesOn DEF SkipLoaded, TypesOK
    <3>3. \A i \in DOMAIN stack : /\ stack'[i].emit = stack[i].emit
                                  /\ stack'[i].defs = stack[i].defs
                                  /\ Owned(stack'[i]) = Owned(stack[i])
      BY <3>1, <3>2 DEF Top
    <3>4. \A i \in DOMAIN stack : Claimed(i)' = Claimed(i)
      <4>1. \A i \in DOMAIN stack' : Claimed(i)' = Owned(stack'[i]) \cup Awaited(i)'
        BY DEF Claimed, Owned
      <4>2. QED
        BY <3>2, <3>3, <4>1 DEF Claimed
    <3>5. rtLoaded' = rtLoaded /\ dylib' = dylib
      BY <2>4 DEF SkipLoaded
    <3>6. \A i \in DOMAIN stack : ClaimOK(i)'
      BY <2>0, <3>2, <3>3, <3>4, <3>5 DEF ClaimsApart, ClaimOK
    <3>7. \A i, j \in DOMAIN stack' :
            i # j /\ stack'[i].mod = stack'[j].mod => Claimed(i)' \cap Claimed(j)' = {}
      BY <2>0, <3>2, <3>4 DEF ClaimsApart
    <3>8. QED
      BY <2>0, <3>2, <3>5, <3>6, <3>7 DEF ClaimsApart, LoadedFirst
  <2>5. ASSUME NEW d \in Syms, LoadDefinition(d)
        PROVE  ClaimsApart' /\ LoadedFirst'
    <3>1. /\ Fresh(d) /\ MarkLoaded(d) /\ Visits(d) /\ dylib' = dylib
          /\ stack' = Append(Callers, [Visited(d) EXCEPT !.emit = @ \cup {d}])
      BY <2>5 DEF LoadDefinition, Fresh
    <3>2. PICK x : x = [Visited(d) EXCEPT !.emit = @ \cup {d}]
      OBVIOUS
    <3>3. /\ x \in Frame /\ x.mod = Top.mod /\ x.sym = Top.sym
          /\ x.emit = Top.emit \cup {d} /\ x.defs = Top.defs
          /\ Owned(x) = Owned(Top) \cup {d}
      BY <2>0, <3>1, <3>2, OwnedByDefinition
    <3>4. ClaimOK(Len(stack)) /\ d \notin rtLoaded[Top.mod]
      BY <2>0, <3>1, VisitTyped, TopOfStack, MarkedLoaded DEF ClaimsApart, TypesOK
    <3>5. \A s \in x.emit : x.defs[s] = Absent
      <4>1. d \notin Owned(Top)
        BY <3>4 DEF ClaimOK, Claimed, Top
      <4>2. QED
        BY <3>3, <3>4, <4>1 DEF ClaimOK, Owned, Top
    <3>6. QED
      BY <2>0, <3>1, <3>2, <3>3, <3>5, ClaimsGoOn, MarkKeepsFirst
  <2>6. ASSUME NEW d \in Syms, ResolveNothing(d)
        PROVE  ClaimsApart' /\ LoadedFirst'
    BY <2>0, <2>6, NoClaimsNext, MarkKeepsFirst DEF ResolveNothing, Fail
  <2>7. ASSUME NEW d \in Syms, ResolveInModule(d)
        PROVE  ClaimsApart' /\ LoadedFirst'
    <3>1. /\ Fresh(d) /\ MarkLoaded(d) /\ Visits(d) /\ dylib' = dylib
          /\ Enter(linkedMods[Top.mod][Provider(d)], d, Append(Callers, Visited(d)))
          /\ linkedMods[Top.mod][Provider(d)] \in Mods
      BY <2>0, <2>7, VisitTyped DEF ResolveInModule, Fresh, TypesOK, LinkTypeOK
    <3>2. PICK m \in Mods : m = linkedMods[Top.mod][Provider(d)]
      BY <3>1
    <3>3. CASE stack' = <<>>
      BY <2>0, <3>1, <3>3, NoClaimsNext, MarkKeepsFirst
    <3>4. CASE stack' = stack
      <4>1. \A i \in DOMAIN stack' :
              /\ Claimed(i)' = Claimed(i) /\ Owned(stack'[i]) = Owned(stack[i])
              /\ Awaited(i)' = Awaited(i)
        BY <3>4 DEF Claimed, Owned, Awaited
      <4>2. \A i \in DOMAIN stack' : /\ \A s \in stack'[i].emit : stack'[i].defs[s] = Absent
                                     /\ Awaited(i)' \cap Owned(stack'[i]) = {}
        BY <2>0, <3>4, <4>1 DEF ClaimsApart, ClaimOK
      <4>3. QED
        BY <2>0, <3>1, <3>4, <4>1, <4>2, ClaimsStay, MarkKeepsFirst
    <3>5. CASE stack' = Append(Append(Callers, Visited(d)), Called(m, d))
      <4>1. /\ Called(m, d) \in Frame /\ Called(m, d).sym = d
            /\ Called(m, d).emit = {} /\ \A t \in Syms : Called(m, d).defs[t] = Absent
        BY <2>0, <3>1, <3>2, EnterCases DEF Called
      <4>2. QED
        BY <2>0, <3>1, <3>5, <4>1, ClaimsCall, MarkKeepsFirst
    <3>6. QED
      BY <2>0, <3>1, <3>2, <3>3, <3>4, <3>5, EnterCases
  <2>8. ASSUME NEW d \in Syms, ResolveInLibrary(d)
        PROVE  ClaimsApart' /\ LoadedFirst'
    <3> DEFINE lib == TranslateLib(CompilerOf[Top.mod], Provider(d))
    <3>1. Fresh(d) /\ MarkLoaded(d) /\ Visits(d) /\ dylib' = dylib
      BY <2>8 DEF ResolveInLibrary, Fresh
    <3>2. CASE Fail(Asked(stack))
      BY <2>0, <3>1, <3>2, NoClaimsNext, MarkKeepsFirst DEF Fail
    <3>3. CASE /\ <<lib, d>> \in LibSyms
               /\ stack' = Append(Callers, [Visited(d) EXCEPT !.defs[d] = <<lib, d>>])
      <4>1. PICK a \in Addr : a = <<lib, d>>
        BY <3>3, LoadingAssumption DEF Addr
      <4>2. PICK fr \in Frame : /\ fr = Visited(d) /\ fr.mod = Top.mod /\ fr.sym = Top.sym
                                /\ fr.emit = Top.emit /\ fr.defs = Top.defs
                                /\ Owned(fr) = Owned(Top)
        BY <2>0, <3>1, VisitTyped, OwnedByVisit
      <4>3. PICK x : x = [fr EXCEPT !.defs[d] = a]
        OBVIOUS
      <4>4. /\ x \in Frame /\ x.mod = fr.mod /\ x.sym = fr.sym
            /\ x.emit = fr.emit
            /\ \A t \in Syms : x.defs[t] = IF t = d THEN a ELSE fr.defs[t]
            /\ Owned(x) = Owned(fr) \cup {d}
        <5>1. /\ x \in Frame /\ x.mod = fr.mod /\ x.sym = fr.sym /\ x.emit = fr.emit
              /\ \A t \in Syms : x.defs[t] = IF t = d THEN a ELSE fr.defs[t]
          BY <2>0, <4>3, FoundTyped DEF Frame
        <5>2. QED
          BY <5>1, OwnedByAddress
      <4>5. ClaimOK(Len(stack)) /\ d \notin rtLoaded[Top.mod] /\ Top.emit \subseteq Syms
        BY <2>0, <3>1, VisitTyped, TopOfStack, MarkedLoaded DEF ClaimsApart, TypesOK, Frame
      <4>6. \A s \in x.emit : x.defs[s] = Absent
        <5>1. d \notin Owned(Top)
          BY <4>5 DEF ClaimOK, Claimed, Top
        <5>2. \A s \in Top.emit : Top.defs[s] = Absent /\ s # d
          BY <4>5, <5>1 DEF ClaimOK, Owned, Top
        <5>3. QED
          BY <4>2, <4>4, <4>5, <5>2
      <4>7. stack' = Append(Callers, x)
        BY <3>3, <4>1, <4>2, <4>3
      <4>8. QED
        BY <2>0, <3>1, <4>2, <4>4, <4>6, <4>7, ClaimsGoOn, MarkKeepsFirst
    <3>4. QED
      BY <2>8, <3>2, <3>3 DEF ResolveInLibrary
  <2>9. ASSUME Finish
        PROVE  ClaimsApart' /\ LoadedFirst'
    <3>1. LoadedFirst'
      <4>1. rtLoaded' = rtLoaded /\ Owned(Top) \subseteq rtLoaded[Top.mod]
        BY <2>0, <2>9, TopOfStack DEF Finish, Running, ClaimsApart, ClaimOK, Claimed, TypesOK
      <4>2. QED
        BY <2>0, <2>9, <4>1, FinishDefines DEF LoadedFirst
    <3>2. CASE stack' = <<>>
      BY <3>1, <3>2, NoClaimsNext
    <3>3. CASE stack' # <<>>
      <4>1. PICK a \in Addr \cup {Null} : a = JitLookup(JitAdd(Top.mod, Top), Top.sym)
        BY <2>0, <2>9, FinishDefines, JitAddTyped, JitLookupTyped DEF Frame
      <4>2. /\ Callers # <<>> /\ a # Null
            /\ stack' = [Callers EXCEPT ![Len(Callers)].defs[Top.sym] = a]
        BY <2>9, <3>3, <4>1 DEF Finish, Fail
      <4>3. QED
        BY <2>0, <2>9, <3>1, <4>1, <4>2, ClaimsReturn
    <3>4. QED
      BY <3>2, <3>3
  <2>10. QED
    BY <2>1, <2>2, <2>3, <2>4, <2>5, <2>6, <2>7, <2>8, <2>9
       DEF Next, LoadStep, LinkStep, vars
<1>3. Spec => []TypesOK
  BY LoadingLinkTypes, LoadTypeInvariant, PTL DEF TypesOK
<1>4. QED
  BY <1>1, <1>2, <1>3, PTL DEF Spec, LoadingApart

(* A symbol is defined once in the JIT, however calls nest: what a call will *)
(* define when it finishes is part of its claim.                             *)
THEOREM SymbolsDefinedOnce == Spec => []OneDefinition
<1>1. ClaimsApart => OneDefinition
  BY DEF ClaimsApart, ClaimOK, Claimed, OneDefinition
<1>2. QED
  BY <1>1, ClaimsInvariant, PTL

-----------------------------------------------------------------------------
(* Nothing is ever taken out of a dylib, unmarked, or given another alias.   *)
LEMMA StepKeeps ==
  ASSUME LoadingApart, [Next]_vars
  PROVE  /\ \A m \in Mods, s \in Syms :
              dylib[m][s] # Absent => dylib'[m][s] = dylib[m][s]
         /\ \A m \in Mods : rtLoaded[m] \subseteq rtLoaded'[m]
         /\ \A c \in Compilers, n \in Names :
              libAliases[c][n] # Absent => libAliases'[c][n] = libAliases[c][n]
<1>1. TypesOK /\ ClaimsApart
  BY DEF LoadingApart
<1>2. ASSUME UNCHANGED dylib /\ UNCHANGED libAliases, NEW d \in Syms,
             Fresh(d) /\ MarkLoaded(d)
      PROVE  \A m \in Mods : rtLoaded[m] \subseteq rtLoaded'[m]
  BY <1>1, <1>2, MarkedLoaded
<1>3. CASE UNCHANGED loadVars
  BY <1>3 DEF loadVars
<1>4. ASSUME NEW c \in Compilers, NEW p \in Aliases, AddLibraryAlias(c, p[1], p[2])
      PROVE  \A d \in Compilers, n \in Names :
               libAliases[d][n] # Absent => libAliases'[d][n] = libAliases[d][n]
  <2>1. /\ libAliases' = [libAliases EXCEPT ![c] = InsertNew(@, p[1], p[2])]
        /\ libAliases[c] \in [Names -> Names \cup {Absent}]
        /\ libAliases \in [Compilers -> [Names -> Names \cup {Absent}]]
    BY <1>1, <1>4 DEF AddLibraryAlias, TypesOK, LoadTypeOK
  <2>2. \A n \in Names : libAliases[c][n] # Absent
                           => InsertNew(libAliases[c], p[1], p[2])[n] = libAliases[c][n]
    BY <2>1 DEF InsertNew
  <2>3. QED
    BY <2>1, <2>2
<1>5. ASSUME Finish
      PROVE  \A m \in Mods, s \in Syms :
               dylib[m][s] # Absent => dylib'[m][s] = dylib[m][s]
  <2>1. /\ Top \in Frame /\ Top.mod \in Mods /\ stack # <<>>
        /\ \A m \in Mods : m # Top.mod => dylib'[m] = dylib[m]
        /\ dylib'[Top.mod] = JitAdd(Top.mod, Top)
    BY <1>1, <1>5, FinishDefines
  <2>2. \A s \in Owned(Top) : dylib[Top.mod][s] = Absent
    BY <1>1, <2>1, TopOfStack DEF ClaimsApart, ClaimOK, Claimed, TypesOK
  <2>3. \A s \in Syms : s \notin Owned(Top) => dylib'[Top.mod][s] = dylib[Top.mod][s]
    BY <2>1 DEF JitAdd, Owned
  <2>4. QED
    BY <2>1, <2>2, <2>3
<1>6. QED
  BY <1>2, <1>3, <1>4, <1>5
     DEF Next, LoadStep, LinkStep, vars, AddLibraryAlias, GetSymbolAddress, SkipLoaded,
         LoadDefinition, ResolveNothing, ResolveInModule, ResolveInLibrary, Finish

(* Where an address for an extern comes from, and that it stays so.          *)
Sourced(m, s, a) ==
  LET b == externSyms[m][s] IN
    /\ b \in Names
    /\ \/ a \in {<<b, s>>, <<TranslateLib(CompilerOf[m], b), s>>}
       \/ \E src \in Mods : /\ linkedMods[m][b] = src
                            /\ dylib[src][s] # Absent
                            /\ dylib[src][s].addr = a

LEMMA SourcedKept ==
  ASSUME LoadingApart, TypesOK', [Next]_vars,
         NEW m \in Mods, NEW s \in Syms, NEW a, Sourced(m, s, a)
  PROVE  Sourced(m, s, a)'
<1>1. LinkTypeOK /\ LinkTypeOK' /\ [LinkNext]_linkVars /\ TypesOK
  BY StepLinks DEF LoadingApart, TypesOK
<1>2. PICK b \in Names : b = externSyms[m][s]
  BY DEF Sourced
<1>3. externSyms'[m][s] = b
  BY <1>1, <1>2, LinkKeeps
<1>4. CASE a \in {<<b, s>>, <<TranslateLib(CompilerOf[m], b), s>>}
  <2>1. a \in {<<b, s>>, <<TranslateLib(CompilerOf[m], b)', s>>}
    <3>1. CompilerOf[m] \in Compilers
      BY LinkingAssumption
    <3>2. TranslateLib(CompilerOf[m], b) \in {b, TranslateLib(CompilerOf[m], b)'}
      BY <3>1, StepKeeps DEF TranslateLib
    <3>3. QED
      BY <1>4, <3>2
  <2>2. QED
    BY <1>2, <1>3, <2>1 DEF Sourced
<1>5. CASE \E src \in Mods : /\ linkedMods[m][b] = src
                             /\ dylib[src][s] # Absent
                             /\ dylib[src][s].addr = a
  <2>1. PICK src \in Mods : /\ linkedMods[m][b] = src
                            /\ dylib[src][s] # Absent /\ dylib[src][s].addr = a
    BY <1>5
  <2>2. linkedMods'[m][b] = src
    <3>1. src # Absent
      BY LinkingAssumption
    <3>2. QED
      BY <1>1, <2>1, <3>1, LinkKeeps
  <2>3. dylib'[src][s] # Absent /\ dylib'[src][s].addr = a
    BY <2>1, StepKeeps
  <2>4. QED
    BY <1>2, <1>3, <2>2, <2>3 DEF Sourced
<1>6. QED
  BY <1>2, <1>4, <1>5 DEF Sourced

(* What holds of each call: it visits what its symbol depends on, all of it, *)
(* emits definitions of its module, and has an address from the provider for *)
(* each extern that it found.                                                *)
FrameSound(f) ==
  /\ ValidIr(f.mod, f.sym)
  /\ f.todo \cup Owned(f) \subseteq Closure(f.mod, f.sym)
  /\ \A t \in f.emit : Defined(f.mod, t)
  /\ \A t \in Syms : f.defs[t] # Absent
                       => ~Defined(f.mod, t) /\ Sourced(f.mod, t, f.defs[t])
FrameCovered(f) == Closure(f.mod, f.sym) \subseteq f.todo \cup rtLoaded[f.mod]

LEMMA FrameStays ==
  ASSUME LoadingApart, TypesOK', [Next]_vars, NEW f \in Frame, FrameSound(f)
  PROVE  FrameSound(f)' /\ (FrameCovered(f) => FrameCovered(f)')
<1>1. LinkTypeOK /\ LinkTypeOK' /\ [LinkNext]_linkVars /\ TypesOK
  BY StepLinks DEF LoadingApart, TypesOK
<1>2. f.mod \in Mods /\ f.sym \in Syms /\ f.emit \subseteq Syms
  BY DEF Frame
<1>3. Closure(f.mod, f.sym)' = Closure(f.mod, f.sym) /\ ValidIr(f.mod, f.sym)'
  BY <1>1, <1>2, ClosureKept DEF FrameSound
<1>4. \A t \in Closure(f.mod, f.sym) :
        t \in Syms /\ Declared(f.mod, t) /\ Defined(f.mod, t)' = Defined(f.mod, t)
  BY <1>1, <1>2, ClosureClosed, SymbolKept DEF FrameSound, ValidIr
<1>5. FrameCovered(f) => FrameCovered(f)'
  BY <1>2, <1>3, StepKeeps DEF FrameCovered
<1>6. \A t \in f.emit : Defined(f.mod, t)'
  BY <1>4 DEF FrameSound, Owned
<1>7. ASSUME NEW t \in Syms, f.defs[t] # Absent
      PROVE  ~Defined(f.mod, t)' /\ Sourced(f.mod, t, f.defs[t])'
  <2>1. ~Defined(f.mod, t) /\ Sourced(f.mod, t, f.defs[t]) /\ t \in Closure(f.mod, f.sym)
    BY <1>7 DEF FrameSound, Owned
  <2>2. QED
    BY <1>2, <1>4, <2>1, SourcedKept
<1>8. f.todo \cup Owned(f) \subseteq Closure(f.mod, f.sym)'
  BY <1>3 DEF FrameSound
<1>9. QED
  BY <1>3, <1>5, <1>6, <1>7, <1>8 DEF FrameSound, Owned

(* A call is for an extern its caller depends on, to the module that the     *)
(* caller's module has linked in for it.                                     *)
Calls(m, s, n, t) ==
  /\ t \in Closure(m, s)
  /\ ~Defined(m, t)
  /\ externSyms[m][t] \in Names
  /\ linkedMods[m][externSyms[m][t]] = n

LEMMA CallStays ==
  ASSUME LoadingApart, TypesOK', [Next]_vars,
         NEW m \in Mods, NEW s \in Syms, NEW n \in Mods, NEW t \in Syms,
         ValidIr(m, s), Calls(m, s, n, t)
  PROVE  Calls(m, s, n, t)'
<1>1. LinkTypeOK /\ LinkTypeOK' /\ [LinkNext]_linkVars
  BY StepLinks DEF LoadingApart, TypesOK
<1>2. Closure(m, s)' = Closure(m, s) /\ Declared(m, t)
  BY <1>1, ClosureKept DEF Calls, ValidIr
<1>3. ~Defined(m, t)'
  BY <1>1, <1>2, SymbolKept DEF Calls
<1>4. externSyms'[m][t] = externSyms[m][t] /\ externSyms[m][t] \in Names
  BY <1>1, LinkKeeps DEF Calls
<1>5. linkedMods'[m][externSyms[m][t]] = n
  <2>1. n # Absent
    BY LinkingAssumption
  <2>2. QED
    BY <1>1, <1>4, <2>1, LinkKeeps DEF Calls
<1>6. QED
  BY <1>2, <1>3, <1>4, <1>5 DEF Calls

FramesHold == \A i \in DOMAIN stack : FrameSound(stack[i]) /\ FrameCovered(stack[i])
CallsHold ==
  \A i \in DOMAIN stack :
    i < Len(stack) => Calls(stack[i].mod, stack[i].sym, stack[i + 1].mod, stack[i + 1].sym)
LoadedDeclared == \A m \in Mods : \A s \in rtLoaded[m] : Declared(m, s)

LoadingSound == LoadingApart /\ FramesHold /\ CallsHold /\ LoadedDeclared

LEMMA CallsHoldStay ==
  ASSUME LoadingSound, TypesOK', [Next]_vars,
         \A i \in DOMAIN stack' : i < Len(stack') =>
           /\ i \in DOMAIN stack /\ i < Len(stack) /\ i + 1 \in DOMAIN stack
           /\ stack'[i].mod = stack[i].mod /\ stack'[i].sym = stack[i].sym
           /\ stack'[i + 1].mod = stack[i + 1].mod /\ stack'[i + 1].sym = stack[i + 1].sym
  PROVE  CallsHold'
<1>1. ASSUME NEW i \in DOMAIN stack', i < Len(stack')
      PROVE  Calls(stack[i].mod, stack[i].sym, stack[i + 1].mod, stack[i + 1].sym)'
  <2>1. PICK m \in Mods, s \in Syms, n \in Mods, t \in Syms :
          /\ m = stack[i].mod /\ s = stack[i].sym /\ n = stack[i + 1].mod /\ t = stack[i + 1].sym
          /\ m = stack'[i].mod /\ s = stack'[i].sym /\ n = stack'[i + 1].mod /\ t = stack'[i + 1].sym
    BY <1>1, FramesTypedNow DEF FramesTyped, LoadingSound, LoadingApart
  <2>2. Calls(m, s, n, t) /\ ValidIr(m, s)
    BY <1>1, <2>1 DEF LoadingSound, CallsHold, FramesHold, FrameSound
  <2>3. Calls(m, s, n, t)'
    BY <2>1, <2>2, CallStays DEF LoadingSound
  <2>4. QED
    BY <2>1, <2>3
<1>2. QED
  BY <1>1 DEF CallsHold

LEMMA CallsGoOn ==
  ASSUME LoadingSound, TypesOK', [Next]_vars, DOMAIN stack' = DOMAIN stack,
         Len(stack') = Len(stack), stack # <<>>,
         \A i \in DOMAIN stack : /\ stack'[i].mod = stack[i].mod
                                 /\ stack'[i].sym = stack[i].sym
  PROVE  CallsHold'
<1>1. DOMAIN stack = 1..Len(stack) /\ Len(stack) \in Nat
  BY TopOfStack DEF LoadingSound, LoadingApart, TypesOK
<1>2. \A i \in DOMAIN stack' : i < Len(stack') =>
        i \in DOMAIN stack /\ i < Len(stack) /\ i + 1 \in DOMAIN stack
  BY <1>1
<1>3. QED
  BY <1>2, CallsHoldStay

(* The frames after a dependency was visited.                                *)
LEMMA FramesGoOn ==
  ASSUME LoadingSound, TypesOK', [Next]_vars, stack # <<>>,
         NEW d \in Syms, d \in rtLoaded'[Top.mod],
         NEW x \in Frame, stack' = Append(Callers, x),
         x.mod = Top.mod, x.sym = Top.sym, x.todo = Top.todo \ {d}, FrameSound(x)
  PROVE  FramesHold' /\ CallsHold'
<1>1. LoadingApart /\ TypesOK /\ LoadTypeOK
  BY DEF LoadingSound, LoadingApart, TypesOK
<1>2. /\ DOMAIN stack' = DOMAIN stack /\ Len(stack') = Len(stack) /\ stack'[Len(stack)] = x
      /\ \A i \in DOMAIN stack : /\ stack'[i].mod = stack[i].mod
                                 /\ stack'[i].sym = stack[i].sym
                                 /\ i # Len(stack) => stack'[i] = stack[i]
  BY <1>1, CallGoesOn
<1>3. CallsHold'
  BY <1>2, CallsGoOn
<1>4. FrameSound(x)'
  BY <1>1, FrameStays
<1>5. FrameCovered(x)'
  <2>1. /\ Len(stack) \in DOMAIN stack /\ Top = stack[Len(stack)] /\ FrameCovered(Top)
        /\ Top.mod \in Mods /\ Top.sym \in Syms
    BY <1>1, TopOfStack DEF LoadingSound, FramesHold, Frame
  <2>2. Closure(x.mod, x.sym)' = Closure(x.mod, x.sym)
    BY <1>1, <2>1, StepLinks, ClosureKept DEF FrameSound, TypesOK
  <2>3. rtLoaded[Top.mod] \subseteq rtLoaded'[Top.mod]
    BY <1>1, <2>1, StepKeeps
  <2>4. Closure(Top.mod, Top.sym) \subseteq x.todo \cup rtLoaded'[Top.mod]
    BY <2>1, <2>3 DEF FrameCovered
  <2>5. QED
    BY <2>2, <2>4 DEF FrameCovered
<1>6. ASSUME NEW i \in DOMAIN stack', i # Len(stack)
      PROVE  (FrameSound(stack[i]) /\ FrameCovered(stack[i]))'
  <2>1. PICK f \in Frame : f = stack[i] /\ f = stack'[i] /\ FrameSound(f) /\ FrameCovered(f)
    BY <1>1, <1>2, <1>6, FramesTypedNow DEF LoadingSound, FramesHold, FramesTyped
  <2>2. FrameSound(f)' /\ FrameCovered(f)'
    BY <1>1, <2>1, FrameStays
  <2>3. QED
    BY <2>1, <2>2
<1>7. QED
  BY <1>2, <1>3, <1>4, <1>5, <1>6 DEF FramesHold

(* A new call: it has everything to visit.                                   *)
LEMMA CalledSound ==
  ASSUME TypesOK, NEW m \in Mods, NEW s \in Syms, ValidIr(m, s)
  PROVE  FrameSound(Called(m, s)) /\ FrameCovered(Called(m, s))
  BY DEF Called, FrameSound, FrameCovered, Owned

LEMMA FramesCall ==
  ASSUME LoadingSound, TypesOK', [Next]_vars, stack # <<>>,
         NEW d \in Syms, d \in rtLoaded'[Top.mod], Visits(d),
         FrameSound(Visited(d)),
         NEW m \in Mods, ValidIr(m, d), Calls(Top.mod, Top.sym, m, d),
         stack' = Append(Append(Callers, Visited(d)), Called(m, d)), Called(m, d) \in Frame
  PROVE  FramesHold' /\ CallsHold'
<1>1. /\ LoadingApart /\ TypesOK /\ LoadTypeOK
      /\ Visited(d) \in Frame /\ Visited(d).mod = Top.mod /\ Visited(d).sym = Top.sym
      /\ Visited(d).todo = Top.todo \ {d}
  BY VisitTyped DEF LoadingSound, LoadingApart, TypesOK
<1>2. PICK x \in Frame, y \in Frame : x = Visited(d) /\ y = Called(m, d)
  BY <1>1
<1>3. /\ Len(stack') = Len(stack) + 1 /\ DOMAIN stack' = DOMAIN stack \cup {Len(stack')}
      /\ Len(stack') \notin DOMAIN stack
      /\ stack'[Len(stack)] = x /\ stack'[Len(stack')] = y
      /\ \A i \in DOMAIN stack : /\ stack'[i].mod = stack[i].mod
                                 /\ stack'[i].sym = stack[i].sym
                                 /\ i # Len(stack) => stack'[i] = stack[i]
  BY <1>1, <1>2, CallCalls
<1>4. /\ Len(stack) \in DOMAIN stack /\ Top = stack[Len(stack)] /\ FrameCovered(Top)
      /\ Top.mod \in Mods /\ Top.sym \in Syms /\ ValidIr(Top.mod, Top.sym)
      /\ DOMAIN stack = 1..Len(stack) /\ Len(stack) \in Nat
  BY <1>1, TopOfStack DEF LoadingSound, FramesHold, Frame, FrameSound
<1>5. FrameSound(x)' /\ FrameCovered(x)'
  <2>1. FrameSound(x)'
    BY <1>1, <1>2, FrameStays
  <2>2. Closure(x.mod, x.sym)' = Closure(x.mod, x.sym)
    BY <1>1, <1>2, <1>4, StepLinks, ClosureKept DEF TypesOK
  <2>3. rtLoaded[Top.mod] \subseteq rtLoaded'[Top.mod]
    BY <1>1, <1>4, StepKeeps
  <2>4. Closure(Top.mod, Top.sym) \subseteq x.todo \cup rtLoaded'[Top.mod]
    BY <1>1, <1>2, <1>4, <2>3 DEF FrameCovered
  <2>5. QED
    BY <1>1, <1>2, <2>1, <2>2, <2>4 DEF FrameCovered
<1>6. FrameSound(y)' /\ FrameCovered(y)'
  <2>1. FrameSound(y) /\ FrameCovered(y)
    BY <1>1, <1>2, CalledSound
  <2>2. QED
    BY <1>1, <2>1, FrameStays
<1>7. ASSUME NEW i \in DOMAIN stack, i # Len(stack)
      PROVE  (FrameSound(stack[i]) /\ FrameCovered(stack[i]))'
  <2>1. PICK f \in Frame : f = stack[i] /\ f = stack'[i] /\ FrameSound(f) /\ FrameCovered(f)
    BY <1>1, <1>3, <1>7, FramesTypedNow DEF LoadingSound, FramesHold, FramesTyped
  <2>2. FrameSound(f)' /\ FrameCovered(f)'
    BY <1>1, <2>1, FrameStays
  <2>3. QED
    BY <2>1, <2>2
<1>8. FramesHold'
  <2>1. ASSUME NEW i \in DOMAIN stack'
        PROVE  (FrameSound(stack[i]) /\ FrameCovered(stack[i]))'
    <3>1. CASE i = Len(stack)
      BY <1>3, <1>5, <3>1
    <3>2. CASE i = Len(stack')
      BY <1>3, <1>6, <3>2
    <3>3. QED
      BY <1>3, <1>7, <3>1, <3>2
  <2>2. QED
    BY <2>1 DEF FramesHold
<1>9. CallsHold'
  <2>0. PICK a \in Mods, s \in Syms : a = Top.mod /\ s = Top.sym
    BY <1>4
  <2>1. Calls(a, s, m, d)'
    BY <1>1, <1>4, <2>0, CallStays
  <2>2. y.mod = m /\ y.sym = d
    BY <1>2 DEF Called
  <2>3. ASSUME NEW i \in DOMAIN stack', i < Len(stack')
        PROVE  Calls(stack[i].mod, stack[i].sym, stack[i + 1].mod, stack[i + 1].sym)'
    <3>1. CASE i = Len(stack)
      <4>1. stack'[i + 1] = y /\ stack'[i].mod = a /\ stack'[i].sym = s
        BY <1>3, <1>4, <2>0, <3>1
      <4>2. QED
        BY <2>1, <2>2, <4>1
    <3>2. CASE i # Len(stack)
      <4>1. i \in DOMAIN stack /\ i < Len(stack) /\ i + 1 \in DOMAIN stack
        <5>1. i \in DOMAIN stack
          BY <1>3, <2>3
        <5>2. QED
          BY <1>4, <3>2, <5>1
      <4>2. PICK b \in Mods, u \in Syms, n \in Mods, t \in Syms :
              /\ b = stack[i].mod /\ u = stack[i].sym /\ n = stack[i + 1].mod /\ t = stack[i + 1].sym
              /\ b = stack'[i].mod /\ u = stack'[i].sym
              /\ n = stack'[i + 1].mod /\ t = stack'[i + 1].sym
        BY <1>1, <1>3, <4>1, FramesTypedNow DEF FramesTyped
      <4>3. Calls(b, u, n, t) /\ ValidIr(b, u)
        BY <4>1, <4>2 DEF LoadingSound, CallsHold, FramesHold, FrameSound
      <4>4. Calls(b, u, n, t)'
        BY <1>1, <4>3, CallStays
      <4>5. QED
        BY <4>2, <4>4
    <3>3. QED
      BY <3>1, <3>2
  <2>4. QED
    BY <2>3 DEF CallsHold
<1>10. QED
  BY <1>8, <1>9

(* The frame of a caller that has got its address.                           *)
LEMMA FramesReturn ==
  ASSUME LoadingSound, TypesOK', [Next]_vars, Finish, Callers # <<>>, NEW a \in Addr,
         dylib'[Top.mod][Top.sym] # Absent, dylib'[Top.mod][Top.sym].addr = a,
         stack' = [Callers EXCEPT ![Len(Callers)].defs[Top.sym] = a]
  PROVE  FramesHold' /\ CallsHold'
<1>1. /\ LoadingApart /\ TypesOK /\ LoadTypeOK /\ stack # <<>>
      /\ Top \in Frame /\ Top.mod \in Mods /\ Top.sym \in Syms
  BY FinishDefines DEF LoadingSound, LoadingApart, TypesOK, Frame
<1>2. /\ Len(stack) = Len(stack') + 1 /\ DOMAIN stack = DOMAIN stack' \cup {Len(stack)}
      /\ Len(stack) \notin DOMAIN stack' /\ Len(stack') \in DOMAIN stack'
      /\ stack'[Len(stack')] = [stack[Len(stack')] EXCEPT !.defs[Top.sym] = a]
      /\ \A i \in DOMAIN stack' : /\ stack'[i].mod = stack[i].mod
                                  /\ stack'[i].sym = stack[i].sym
                                  /\ i # Len(stack') => stack'[i] = stack[i]
  BY <1>1, CallReturns
<1>3. /\ DOMAIN stack = 1..Len(stack) /\ Len(stack) \in Nat \ {0}
      /\ Top = stack[Len(stack)]
  BY <1>1, TopOfStack
<1>4. PICK n \in DOMAIN stack', fr \in Frame, m \in Mods, s \in Syms :
        /\ n = Len(stack') /\ fr = stack[n] /\ m = Top.mod /\ s = Top.sym
        /\ FrameSound(fr) /\ FrameCovered(fr) /\ n \in DOMAIN stack
        /\ fr.mod \in Mods /\ fr.sym \in Syms
  BY <1>1, <1>2, FramesTypedNow DEF FramesTyped, LoadingSound, FramesHold
<1>5. Calls(fr.mod, fr.sym, m, s)
  <2>1. n < Len(stack) /\ stack[n + 1] = Top
    BY <1>2, <1>3, <1>4
  <2>2. QED
    BY <1>4, <2>1 DEF LoadingSound, CallsHold
<1>6. FrameSound(fr)' /\ FrameCovered(fr)' /\ Calls(fr.mod, fr.sym, m, s)'
  BY <1>1, <1>4, <1>5, FrameStays, CallStays DEF FrameSound
<1>7. PICK x \in Frame : /\ x = stack'[n] /\ x.mod = fr.mod /\ x.sym = fr.sym
                         /\ x.todo = fr.todo /\ x.emit = fr.emit
                         /\ \A t \in Syms : x.defs[t] = IF t = s THEN a ELSE fr.defs[t]
                         /\ Owned(x) = Owned(fr) \cup {s}
  <2>1. PICK x : x = [fr EXCEPT !.defs[s] = a]
    OBVIOUS
  <2>2. /\ x \in Frame /\ x.mod = fr.mod /\ x.sym = fr.sym
        /\ x.todo = fr.todo /\ x.emit = fr.emit
        /\ \A t \in Syms : x.defs[t] = IF t = s THEN a ELSE fr.defs[t]
    BY <1>1, <2>1, FoundTyped DEF Frame
  <2>3. Owned(x) = Owned(fr) \cup {s}
    BY <2>2, OwnedByAddress
  <2>4. x = stack'[n]
    BY <1>2, <1>4, <2>1
  <2>5. QED
    BY <2>2, <2>3, <2>4
<1>8. Sourced(fr.mod, s, a)' /\ ~Defined(fr.mod, s)' /\ s \in Closure(fr.mod, fr.sym)'
  BY <1>4, <1>6 DEF Sourced, Calls
<1>9. FrameSound(x)' /\ FrameCovered(x)'
  <2>1. x.todo \cup Owned(x) \subseteq Closure(x.mod, x.sym)'
    BY <1>6, <1>7, <1>8 DEF FrameSound, Owned
  <2>2. \A t \in x.emit : Defined(x.mod, t)'
    BY <1>6, <1>7 DEF FrameSound
  <2>3. ASSUME NEW t \in Syms, x.defs[t] # Absent
        PROVE  ~Defined(x.mod, t)' /\ Sourced(x.mod, t, x.defs[t])'
    BY <1>6, <1>7, <1>8, <2>3 DEF FrameSound
  <2>4. FrameCovered(x)' /\ ValidIr(x.mod, x.sym)'
    BY <1>6, <1>7 DEF FrameCovered, FrameSound
  <2>5. QED
    BY <2>1, <2>2, <2>3, <2>4 DEF FrameSound, Owned
<1>10. ASSUME NEW i \in DOMAIN stack', i # n
       PROVE  (FrameSound(stack[i]) /\ FrameCovered(stack[i]))'
  <2>1. PICK f \in Frame : f = stack[i] /\ f = stack'[i] /\ FrameSound(f) /\ FrameCovered(f)
    BY <1>1, <1>2, <1>4, <1>10, FramesTypedNow DEF LoadingSound, FramesHold, FramesTyped
  <2>2. FrameSound(f)' /\ FrameCovered(f)'
    BY <1>1, <2>1, FrameStays
  <2>3. QED
    BY <2>1, <2>2
<1>11. FramesHold'
  <2>1. ASSUME NEW i \in DOMAIN stack'
        PROVE  (FrameSound(stack[i]) /\ FrameCovered(stack[i]))'
    BY <1>7, <1>9, <1>10
  <2>2. QED
    BY <2>1 DEF FramesHold
<1>12. CallsHold'
  <2>1. DOMAIN stack' = 1..Len(stack') /\ Len(stack') \in Nat
    <3>1. stack' \in Seq(Frame)
      BY DEF TypesOK, LoadTypeOK
    <3>2. QED
      BY <3>1
  <2>2. \A i \in DOMAIN stack' : i < Len(stack') =>
          i \in DOMAIN stack /\ i < Len(stack) /\ i + 1 \in DOMAIN stack'
    BY <1>2, <2>1
  <2>3. QED
    BY <1>2, <2>2, CallsHoldStay
<1>13. QED
  BY <1>11, <1>12

(* The symbol a call visits is declared, with all it depends on.             *)
LEMMA VisitDeclared ==
  ASSUME LoadingSound, NEW d \in Syms, Visits(d)
  PROVE  /\ Declared(Top.mod, d) /\ d \in Closure(Top.mod, Top.sym)
         /\ FrameSound(Top) /\ FrameSound(Visited(d))
         /\ IsExtern(d) <=> ~Defined(Top.mod, d)
<1>1. /\ LinkTypeOK /\ TypesOK /\ LoadTypeOK /\ stack # <<>> /\ d \in Top.todo
      /\ Top.mod \in Mods /\ Top.sym \in Syms
      /\ Visited(d).mod = Top.mod /\ Visited(d).sym = Top.sym
      /\ Visited(d).todo = Top.todo \ {d} /\ Owned(Visited(d)) = Owned(Top)
      /\ Visited(d).emit = Top.emit /\ Visited(d).defs = Top.defs
  BY VisitTyped, OwnedByVisit DEF LoadingSound, LoadingApart, TypesOK
<1>2. FrameSound(Top)
  BY <1>1, TopOfStack DEF LoadingSound, FramesHold
<1>3. FrameSound(Visited(d))
  BY <1>1, <1>2 DEF FrameSound
<1>4. Declared(Top.mod, d) /\ d \in Closure(Top.mod, Top.sym)
  BY <1>1, <1>2 DEF FrameSound, ValidIr
<1>5. Find(Top.mod, d).kind \in {"def", "extern"}
  BY <1>1, <1>4, FindTyped DEF Symbol
<1>6. IsExtern(d) <=> ~Defined(Top.mod, d)
  BY <1>4, <1>5 DEF IsExtern, Defined
<1>7. QED
  BY <1>2, <1>3, <1>4, <1>6

LEMMA MarkedDeclared ==
  ASSUME LoadingSound, TypesOK', [Next]_vars, NEW d \in Syms, Fresh(d), MarkLoaded(d)
  PROVE  LoadedDeclared'
<1>1. /\ TypesOK /\ LinkTypeOK /\ LinkTypeOK' /\ [LinkNext]_linkVars /\ Visits(d)
  BY StepLinks DEF LoadingSound, LoadingApart, TypesOK, Fresh
<1>2. \A m \in Mods : \A s \in rtLoaded'[m] : s \in Syms /\ Declared(m, s)
  <2>1. \A m \in Mods : \A s \in rtLoaded[m] : s \in Syms /\ Declared(m, s)
    BY <1>1 DEF LoadingSound, LoadedDeclared, TypesOK, LoadTypeOK
  <2>2. QED
    BY <1>1, <2>1, MarkedLoaded, VisitDeclared
<1>3. QED
  BY <1>1, <1>2, SymbolKept DEF LoadedDeclared

LEMMA NoFrames ==
  ASSUME stack' = <<>>
  PROVE  FramesHold' /\ CallsHold'
  BY DEF FramesHold, CallsHold

LEMMA SameFrames ==
  ASSUME LoadingSound, TypesOK', [Next]_vars, stack' = stack
  PROVE  FramesHold' /\ CallsHold'
<1>1. LoadingApart /\ TypesOK /\ LoadTypeOK
  BY DEF LoadingSound, LoadingApart, TypesOK
<1>2. ASSUME NEW i \in DOMAIN stack'
      PROVE  (FrameSound(stack[i]) /\ FrameCovered(stack[i]))'
  <2>1. PICK f \in Frame : f = stack[i] /\ f = stack'[i] /\ FrameSound(f) /\ FrameCovered(f)
    BY <1>1, <1>2, FramesTypedNow DEF LoadingSound, FramesHold, FramesTyped
  <2>2. FrameSound(f)' /\ FrameCovered(f)'
    BY <1>1, <2>1, FrameStays
  <2>3. QED
    BY <2>1, <2>2
<1>3. CallsHold'
  <2>1. CASE stack = <<>>
    BY <2>1, NoFrames
  <2>2. CASE stack # <<>>
    BY <2>2, CallsGoOn
  <2>3. QED
    BY <2>1, <2>2
<1>4. QED
  BY <1>2, <1>3 DEF FramesHold

LEMMA SameMarks ==
  ASSUME LoadingSound, TypesOK', [Next]_vars, rtLoaded' = rtLoaded
  PROVE  LoadedDeclared'
<1>1. /\ LinkTypeOK /\ LinkTypeOK' /\ [LinkNext]_linkVars
      /\ \A m \in Mods : \A s \in rtLoaded[m] : s \in Syms /\ Declared(m, s)
  BY StepLinks DEF LoadingSound, LoadingApart, TypesOK, LoadTypeOK, LoadedDeclared
<1>2. QED
  BY <1>1, SymbolKept DEF LoadedDeclared

(* Every call in progress works on what its symbol reaches and has accounted *)
(* for it, was made by the call below it for a symbol that one needs, and    *)
(* whatever is visited is declared.                                          *)
THEOREM FramesInvariant == Spec => [](FramesHold /\ CallsHold /\ LoadedDeclared)
<1>1. Init => FramesHold /\ CallsHold /\ LoadedDeclared
  BY DEF Init, FramesHold, CallsHold, LoadedDeclared
<1>2. LoadingSound /\ TypesOK' /\ [Next]_vars
        => (FramesHold /\ CallsHold /\ LoadedDeclared)'
  <2> SUFFICES ASSUME LoadingSound, TypesOK', [Next]_vars
               PROVE  FramesHold' /\ CallsHold' /\ LoadedDeclared'
    OBVIOUS
  <2>0. LoadingApart /\ TypesOK /\ LoadTypeOK
    BY DEF LoadingSound, LoadingApart, TypesOK
  <2>1. ASSUME UNCHANGED <<rtLoaded, stack>>
        PROVE  FramesHold' /\ CallsHold' /\ LoadedDeclared'
    BY <2>1, SameFrames, SameMarks
  <2>2. ASSUME NEW m \in Mods, NEW s \in Syms, GetSymbolAddress(m, s)
        PROVE  FramesHold' /\ CallsHold' /\ LoadedDeclared'
    <3>1. stack = <<>> /\ Enter(m, s, <<>>) /\ LoadedDeclared'
      BY <2>2, SameMarks DEF GetSymbolAddress, Between
    <3>2. CASE stack' = <<>> \/ stack' = stack
      BY <3>1, <3>2, NoFrames
    <3>3. CASE stack' = Append(<<>>, Called(m, s)) /\ ValidIr(m, s)
      <4>1. PICK y \in Frame : y = Called(m, s)
        BY <2>0, <3>1, EnterCases
      <4>2. DOMAIN stack' = {1} /\ stack'[1] = y /\ Len(stack') = 1
        BY <3>3, <4>1
      <4>3. FrameSound(y)' /\ FrameCovered(y)'
        BY <2>0, <3>3, <4>1, CalledSound, FrameStays
      <4>4. ASSUME NEW i \in DOMAIN stack'
            PROVE  (FrameSound(stack[i]) /\ FrameCovered(stack[i]))'
        BY <4>2, <4>3
      <4>5. FramesHold'
        BY <4>4 DEF FramesHold
      <4>6. CallsHold'
        BY <4>2 DEF CallsHold
      <4>7. QED
        BY <3>1, <4>5, <4>6
    <3>4. QED
      BY <2>0, <3>1, <3>2, <3>3, EnterCases
  <2>3. ASSUME NEW d \in Syms, SkipLoaded(d)
        PROVE  FramesHold' /\ CallsHold' /\ LoadedDeclared'
    <3>1. /\ Visits(d) /\ d \in rtLoaded'[Top.mod] /\ rtLoaded' = rtLoaded
          /\ stack' = Append(Callers, Visited(d))
      BY <2>3 DEF SkipLoaded
    <3>2. /\ stack # <<>> /\ Visited(d) \in Frame
          /\ Visited(d).mod = Top.mod /\ Visited(d).sym = Top.sym
          /\ Visited(d).todo = Top.todo \ {d} /\ FrameSound(Visited(d))
      BY <2>0, <3>1, VisitTyped, VisitDeclared
    <3>3. QED
      BY <3>1, <3>2, FramesGoOn, SameMarks
  <2>4. ASSUME NEW d \in Syms, LoadDefinition(d)
        PROVE  FramesHold' /\ CallsHold' /\ LoadedDeclared'
    <3>1. /\ Fresh(d) /\ MarkLoaded(d) /\ Visits(d) /\ ~IsExtern(d)
          /\ d \in rtLoaded'[Top.mod]
          /\ stack' = Append(Callers, [Visited(d) EXCEPT !.emit = @ \cup {d}])
      BY <2>0, <2>4, MarkedLoaded DEF LoadDefinition, Fresh
    <3>2. PICK x : x = [Visited(d) EXCEPT !.emit = @ \cup {d}]
      OBVIOUS
    <3>3. /\ x \in Frame /\ x.mod = Top.mod /\ x.sym = Top.sym /\ x.todo = Top.todo \ {d}
          /\ x.emit = Top.emit \cup {d} /\ x.defs = Top.defs
          /\ Owned(x) = Owned(Top) \cup {d}
      BY <2>0, <3>1, <3>2, OwnedByDefinition
    <3>4. FrameSound(x)
      BY <3>1, <3>3, VisitDeclared DEF FrameSound
    <3>5. QED
      BY <2>0, <3>1, <3>2, <3>3, <3>4, VisitTyped, FramesGoOn, MarkedDeclared
  <2>5. ASSUME NEW d \in Syms, ResolveNothing(d)
        PROVE  FramesHold' /\ CallsHold' /\ LoadedDeclared'
    BY <2>5, NoFrames, MarkedDeclared DEF ResolveNothing, Fail
  <2>6. ASSUME NEW d \in Syms, ResolveInModule(d)
        PROVE  FramesHold' /\ CallsHold' /\ LoadedDeclared'
    <3>1. /\ Fresh(d) /\ MarkLoaded(d) /\ Visits(d) /\ IsExtern(d)
          /\ d \in rtLoaded'[Top.mod] /\ stack # <<>>
          /\ Enter(linkedMods[Top.mod][Provider(d)], d, Append(Callers, Visited(d)))
      BY <2>0, <2>6, MarkedLoaded, VisitTyped DEF ResolveInModule, Fresh
    <3>2. PICK m \in Mods : m = linkedMods[Top.mod][Provider(d)]
      BY <2>0, <2>6, <3>1, VisitTyped DEF ResolveInModule, TypesOK, LinkTypeOK
    <3>3. CASE stack' = <<>> \/ stack' = stack
      BY <3>1, <3>3, NoFrames, SameFrames, MarkedDeclared
    <3>4. CASE stack' = Append(Append(Callers, Visited(d)), Called(m, d)) /\ ValidIr(m, d)
      <4>1. Calls(Top.mod, Top.sym, m, d)
        BY <2>6, <3>1, <3>2, VisitDeclared DEF Calls, ResolveInModule, Provider
      <4>2. FrameSound(Visited(d)) /\ Called(m, d) \in Frame
        BY <2>0, <3>1, <3>2, VisitDeclared, EnterCases
      <4>3. QED
        BY <3>1, <3>4, <4>1, <4>2, FramesCall, MarkedDeclared
    <3>5. QED
      BY <2>0, <3>1, <3>2, <3>3, <3>4, EnterCases
  <2>7. ASSUME NEW d \in Syms, ResolveInLibrary(d)
        PROVE  FramesHold' /\ CallsHold' /\ LoadedDeclared'
    <3> DEFINE lib == TranslateLib(CompilerOf[Top.mod], Provider(d))
    <3>1. /\ Fresh(d) /\ MarkLoaded(d) /\ Visits(d) /\ IsExtern(d)
          /\ d \in rtLoaded'[Top.mod] /\ Provider(d) \in Names
      BY <2>0, <2>7, MarkedLoaded DEF ResolveInLibrary, Fresh
    <3>2. CASE Fail(Asked(stack))
      BY <3>1, <3>2, NoFrames, MarkedDeclared DEF Fail
    <3>3. CASE /\ <<lib, d>> \in LibSyms
               /\ stack' = Append(Callers, [Visited(d) EXCEPT !.defs[d] = <<lib, d>>])
      <4>1. PICK a \in Addr : a = <<lib, d>>
        BY <3>3, LoadingAssumption DEF Addr
      <4>2. PICK fr \in Frame : /\ fr = Visited(d) /\ fr.mod = Top.mod /\ fr.sym = Top.sym
                                /\ fr.todo = Top.todo \ {d} /\ FrameSound(fr)
                                /\ fr.emit = Top.emit /\ fr.defs = Top.defs
        BY <2>0, <3>1, VisitTyped, VisitDeclared
      <4>3. PICK x : x = [fr EXCEPT !.defs[d] = a]
        OBVIOUS
      <4>4. /\ x \in Frame /\ x.mod = fr.mod /\ x.sym = fr.sym /\ x.todo = fr.todo
            /\ x.emit = fr.emit
            /\ \A t \in Syms : x.defs[t] = IF t = d THEN a ELSE fr.defs[t]
        BY <2>0, <4>3, FoundTyped DEF Frame
      <4>5. Owned(x) = Owned(fr) \cup {d}
        BY <4>4, OwnedByAddress
      <4>6. Sourced(Top.mod, d, a)
        BY <3>1, <4>1 DEF Sourced, Provider
      <4>7. FrameSound(x)
        <5>1. x.todo \cup Owned(x) \subseteq Closure(x.mod, x.sym)
          BY <3>1, <4>2, <4>4, <4>5, VisitDeclared DEF FrameSound
        <5>2. \A t \in Syms : x.defs[t] # Absent
                                => ~Defined(x.mod, t) /\ Sourced(x.mod, t, x.defs[t])
          BY <3>1, <4>2, <4>4, <4>6, VisitDeclared DEF FrameSound
        <5>3. QED
          BY <4>2, <4>4, <5>1, <5>2 DEF FrameSound
      <4>8. stack' = Append(Callers, x)
        BY <3>3, <4>1, <4>2, <4>3
      <4>9. QED
        BY <2>0, <3>1, <4>2, <4>4, <4>7, <4>8, VisitTyped, FramesGoOn, MarkedDeclared
    <3>4. QED
      BY <2>7, <3>2, <3>3 DEF ResolveInLibrary
  <2>8. ASSUME Finish
        PROVE  FramesHold' /\ CallsHold' /\ LoadedDeclared'
    <3>1. LoadedDeclared'
      BY <2>8, SameMarks DEF Finish
    <3>2. CASE stack' = <<>>
      BY <3>1, <3>2, NoFrames
    <3>3. CASE stack' # <<>>
      <4> DEFINE table == JitAdd(Top.mod, Top)
      <4>1. /\ table \in [Syms -> Entry \cup {Absent}] /\ Top.sym \in Syms
            /\ dylib'[Top.mod] = table
        BY <2>0, <2>8, FinishDefines, JitAddTyped DEF Frame
      <4>2. /\ JitLookup(table, Top.sym) # Null /\ Callers # <<>>
            /\ stack' = [Callers EXCEPT ![Len(Callers)].defs[Top.sym] =
                           JitLookup(table, Top.sym)]
        BY <2>8, <3>3 DEF Finish, Fail
      <4>3. /\ table[Top.sym] \in Entry /\ JitLookup(table, Top.sym) \in Addr
            /\ JitLookup(table, Top.sym) = table[Top.sym].addr
        BY <4>1, <4>2, JitLookupTyped
      <4>4. table[Top.sym] # Absent
        BY <4>3, LoadingAssumption
      <4>5. PICK a \in Addr : /\ a = JitLookup(table, Top.sym)
                              /\ dylib'[Top.mod][Top.sym] # Absent
                              /\ dylib'[Top.mod][Top.sym].addr = a
        BY <4>1, <4>3, <4>4
      <4>6. QED
        BY <2>8, <3>1, <4>2, <4>5, FramesReturn
    <3>4. QED
      BY <3>2, <3>3
  <2>9. QED
    BY <2>1, <2>2, <2>3, <2>4, <2>5, <2>6, <2>7, <2>8
       DEF Next, LoadStep, LinkStep, AddLibraryAlias, vars, loadVars
<1>3. Spec => []LoadingApart
  BY LoadingLinkTypes, LoadTypeInvariant, ClaimsInvariant, PTL DEF TypesOK, LoadingApart
<1>4. Spec => []TypesOK
  BY LoadingLinkTypes, LoadTypeInvariant, PTL DEF TypesOK
<1>5. QED
  BY <1>1, <1>2, <1>3, <1>4, PTL DEF Spec, LoadingSound

(* The invariants of loading hold together: the types, the claims and the    *)
(* frames.                                                                   *)
THEOREM LoadingSoundInvariant == Spec => []LoadingSound
  BY LoadingLinkTypes, LoadTypeInvariant, ClaimsInvariant, FramesInvariant, PTL
     DEF TypesOK, LoadingApart, LoadingSound

(* Every address the JIT has for a symbol comes from the provider the links  *)
(* name, through however many nested calls it was found.                     *)
THEOREM AddressesFromProviders == Spec => []AddressFromProvider
<1> DEFINE Provided(m, s) == \/ Defined(m, s) /\ dylib[m][s].addr = <<m, s>>
                             \/ ~Defined(m, s) /\ Sourced(m, s, dylib[m][s].addr)
           AllProvided == \A m \in Mods, s \in Syms : dylib[m][s] # Absent => Provided(m, s)
<1>1. Init => AllProvided
  BY DEF Init
<1>2. LoadingSound /\ TypesOK' /\ AllProvided /\ [Next]_vars => AllProvided'
  <2> SUFFICES ASSUME LoadingSound, TypesOK', AllProvided, [Next]_vars,
                      NEW m \in Mods, NEW s \in Syms, dylib'[m][s] # Absent
               PROVE  Provided(m, s)'
    OBVIOUS
  <2>0. /\ LoadingApart /\ TypesOK /\ LinkTypeOK /\ LinkTypeOK' /\ [LinkNext]_linkVars
        /\ LoadedFirst /\ LoadedDeclared
    BY StepLinks DEF LoadingSound, LoadingApart, TypesOK
  <2>1. CASE dylib[m][s] # Absent
    <3>1. Provided(m, s) /\ Declared(m, s)
      BY <2>0, <2>1 DEF LoadedFirst, LoadedDeclared
    <3>2. dylib'[m][s] = dylib[m][s] /\ Defined(m, s)' = Defined(m, s)
      BY <2>0, <2>1, <3>1, StepKeeps, SymbolKept
    <3>3. PICK a : a = dylib[m][s].addr
      OBVIOUS
    <3>4. Sourced(m, s, a) => Sourced(m, s, a)'
      BY <2>0, SourcedKept
    <3>5. QED
      BY <3>1, <3>2, <3>3, <3>4
  <2>2. CASE dylib[m][s] = Absent
    <3>1. Finish
      BY <2>2 DEF Next, LoadStep, LinkStep, AddLibraryAlias, GetSymbolAddress, SkipLoaded,
                  LoadDefinition, ResolveNothing, ResolveInModule, ResolveInLibrary,
                  vars, loadVars
    <3>2. /\ m = Top.mod /\ dylib'[m] = JitAdd(m, Top) /\ s \in Owned(Top)
          /\ stack # <<>> /\ Top \in Frame
      BY <2>0, <2>2, <3>1, FinishDefines
    <3>3. FrameSound(Top)
      BY <2>0, <3>2, TopOfStack DEF LoadingSound, FramesHold, TypesOK
    <3>4. Top.defs[s] = Absent \/ s \notin Top.emit
      BY <2>0, <3>2, TopOfStack DEF LoadingApart, ClaimsApart, ClaimOK, TypesOK
    <3>5. linkVars' = linkVars
      BY <3>1 DEF Finish
    <3>6. Defined(m, s)' = Defined(m, s)
      BY <3>5, SameLinks
    <3>7. CASE s \in Top.emit
      <4>1. Defined(m, s) /\ dylib'[m][s].addr = <<m, s>>
        BY <3>2, <3>3, <3>4, <3>7 DEF FrameSound, JitAdd
      <4>2. QED
        BY <3>6, <4>1
    <3>8. CASE s \notin Top.emit
      <4>1. PICK a : a = Top.defs[s] /\ a # Absent
        BY <3>2, <3>8 DEF Owned
      <4>2. ~Defined(m, s) /\ Sourced(m, s, a) /\ dylib'[m][s].addr = a
        BY <3>2, <3>3, <3>8, <4>1 DEF FrameSound, JitAdd
      <4>3. Sourced(m, s, a)'
        BY <2>0, <4>2, SourcedKept
      <4>4. QED
        BY <3>6, <4>2, <4>3
    <3>9. QED
      BY <3>7, <3>8
  <2>3. QED
    BY <2>1, <2>2
<1>3. AllProvided => AddressFromProvider
  BY DEF Sourced, AddressFromProvider
<1>4. Spec => []TypesOK
  BY LoadingLinkTypes, LoadTypeInvariant, PTL DEF TypesOK
<1> HIDE DEF AllProvided
<1>5. QED
  BY <1>1, <1>2, <1>3, <1>4, LoadingSoundInvariant, PTL DEF Spec

-----------------------------------------------------------------------------
(* The definitions E of module m came in one LLVM module: each refers to     *)
(* what that module needs or to its local definitions.                       *)
IsBatch(m, E, needs) ==
  /\ E \subseteq rtLoaded[m]
  /\ \A t \in E : /\ Defined(m, t)
                  /\ Refs(m)[t] \subseteq needs \cup {u \in E : Local(m, u)}
                  /\ Local(m, t) \/ t \in needs
EntryBatched(m, s, e) ==
  /\ e.needs \subseteq rtLoaded[m]
  /\ Defined(m, s) => \E E \in SUBSET Syms : s \in E /\ IsBatch(m, E, e.needs)
Batched ==
  \A m \in Mods, s \in Syms : dylib[m][s] # Absent => EntryBatched(m, s, dylib[m][s])

LEMMA BatchStays ==
  ASSUME LoadingSound, TypesOK', [Next]_vars,
         NEW m \in Mods, NEW s \in Syms, Declared(m, s), NEW e, EntryBatched(m, s, e)
  PROVE  EntryBatched(m, s, e)'
<1>1. /\ LinkTypeOK /\ LinkTypeOK' /\ [LinkNext]_linkVars /\ LoadingApart
  BY StepLinks DEF LoadingSound, LoadingApart, TypesOK
<1>2. Defined(m, s)' = Defined(m, s) /\ rtLoaded[m] \subseteq rtLoaded'[m]
  BY <1>1, SymbolKept, StepKeeps
<1>3. ASSUME NEW E \in SUBSET Syms, IsBatch(m, E, e.needs)
      PROVE  IsBatch(m, E, e.needs)'
  <2>1. \A t \in E : Declared(m, t)
    BY <1>3 DEF IsBatch, Defined
  <2>2. \A t \in E : /\ Defined(m, t)' = Defined(m, t)
                     /\ Local(m, t)' = Local(m, t)
                     /\ Refs(m)'[t] = Refs(m)[t]
    BY <1>1, <2>1, SymbolKept
  <2>3. {u \in E : Local(m, u)}' = {u \in E : Local(m, u)}
    BY <2>2
  <2>4. QED
    BY <1>2, <1>3, <2>2, <2>3 DEF IsBatch
<1>4. QED
  BY <1>2, <1>3 DEF EntryBatched

(* An entry of the JIT came with a batch: the symbols emitted with it are    *)
(* defined in the module, and what they refer to is local to the batch or    *)
(* among the entry's needs, all of them visited.                             *)
THEOREM BatchInvariant == Spec => []Batched
<1>1. Init => Batched
  BY DEF Init, Batched
<1>2. LoadingSound /\ TypesOK' /\ Batched /\ [Next]_vars => Batched'
  <2> SUFFICES ASSUME LoadingSound, TypesOK', Batched, [Next]_vars,
                      NEW m \in Mods, NEW s \in Syms, dylib'[m][s] # Absent
               PROVE  EntryBatched(m, s, dylib[m][s])'
    BY DEF Batched
  <2>0. /\ LoadingApart /\ TypesOK /\ LinkTypeOK /\ LoadedFirst /\ LoadedDeclared
    BY DEF LoadingSound, LoadingApart, TypesOK
  <2>1. CASE dylib[m][s] # Absent
    <3>1. PICK e : e = dylib[m][s] /\ EntryBatched(m, s, e)
      BY <2>1 DEF Batched
    <3>2. e = dylib'[m][s] /\ Declared(m, s)
      BY <2>0, <2>1, <3>1, StepKeeps DEF LoadedFirst, LoadedDeclared
    <3>3. QED
      BY <3>1, <3>2, BatchStays
  <2>2. CASE dylib[m][s] = Absent
    <3>1. Finish
      BY <2>2 DEF Next, LoadStep, LinkStep, AddLibraryAlias, GetSymbolAddress, SkipLoaded,
                  LoadDefinition, ResolveNothing, ResolveInModule, ResolveInLibrary,
                  vars, loadVars
    <3>2. /\ m = Top.mod /\ dylib'[m] = JitAdd(m, Top) /\ s \in Owned(Top)
          /\ stack # <<>> /\ Top \in Frame /\ Top.sym \in Syms
      BY <2>0, <2>2, <3>1, FinishDefines DEF Frame
    <3>3. FrameSound(Top) /\ FrameCovered(Top) /\ Top.todo = {}
      BY <2>0, <3>1, <3>2, TopOfStack DEF LoadingSound, FramesHold, TypesOK, Finish
    <3>4. PICK e : e = dylib'[m][s]
      OBVIOUS
    <3>5. EntryBatched(m, s, e)
      <4> DEFINE locals == {t \in Top.emit : Local(m, t)}
                 needs  == (Top.emit \cup UNION {Refs(m)[t] : t \in Top.emit}) \ locals
      <4>1. CASE s \in Top.emit \ locals
        <5>1. e = [addr |-> <<m, s>>, needs |-> needs]
          BY <3>2, <3>4, <4>1 DEF JitAdd
        <5>2. Top.emit \subseteq Closure(m, Top.sym) /\ Closure(m, Top.sym) \subseteq rtLoaded[m]
          BY <3>2, <3>3 DEF FrameSound, FrameCovered, Owned
        <5>3. UNION {Refs(m)[t] : t \in Top.emit} \subseteq Closure(m, Top.sym)
          BY <2>0, <3>2, <5>2, ClosureClosed
        <5>4. IsBatch(m, Top.emit, needs)
          <6>1. Top.emit \subseteq rtLoaded[m]
            BY <5>2
          <6>2. \A t \in Top.emit : Defined(m, t)
            BY <3>2, <3>3 DEF FrameSound
          <6>3. \A t \in Top.emit : /\ Refs(m)[t] \subseteq needs \cup locals
                                    /\ Local(m, t) \/ t \in needs
            OBVIOUS
          <6>4. QED
            BY <6>1, <6>2, <6>3 DEF IsBatch
        <5>5. Top.emit \in SUBSET Syms
          BY <3>2 DEF Frame
        <5>6. needs \subseteq rtLoaded[m]
          BY <5>2, <5>3
        <5>7. QED
          BY <4>1, <5>1, <5>4, <5>5, <5>6 DEF EntryBatched
      <4>2. CASE s \notin Top.emit \ locals
        <5>1. Top.defs[s] # Absent
          BY <2>2, <3>2, <4>2 DEF JitAdd
        <5>2. e = [addr |-> Top.defs[s], needs |-> {}]
          BY <3>2, <3>4, <4>2, <5>1 DEF JitAdd
        <5>3. ~Defined(m, s)
          BY <3>2, <3>3, <5>1 DEF FrameSound
        <5>4. QED
          BY <5>2, <5>3 DEF EntryBatched
      <4>3. QED
        BY <4>1, <4>2
    <3>6. Declared(m, s)
      BY <3>2, <3>3 DEF FrameSound, ValidIr
    <3>7. QED
      BY <3>4, <3>5, <3>6, BatchStays
  <2>3. QED
    BY <2>1, <2>2
<1>3. Spec => []TypesOK
  BY LoadingLinkTypes, LoadTypeInvariant, PTL DEF TypesOK
<1>4. QED
  BY <1>1, <1>2, <1>3, LoadingSoundInvariant, PTL DEF Spec

(* A usable symbol has all it depends on: visited, and in the dylib unless   *)
(* it is local.                                                              *)
ClosureCovered ==
  \A m \in Mods, s \in Syms : Usable(dylib[m], s) =>
    \A t \in Closure(m, s) : t \in rtLoaded[m] /\ (Local(m, t) \/ dylib[m][t] # Absent)

LEMMA UsableCovers == TypesOK /\ LoadedFirst /\ Batched => ClosureCovered
<1> SUFFICES ASSUME TypesOK, LoadedFirst, Batched,
                    NEW m \in Mods, NEW s \in Syms, Usable(dylib[m], s)
             PROVE  \A t \in Closure(m, s) : /\ t \in rtLoaded[m]
                                             /\ Local(m, t) \/ dylib[m][t] # Absent
  BY DEF ClosureCovered
<1> DEFINE R == Reached(Needs(dylib[m]), s)
           InBatch(r, t) == \E E \in SUBSET Syms : /\ r \in E /\ t \in E
                                                    /\ IsBatch(m, E, dylib[m][r].needs)
           X == {t \in Syms : t \in R \/ (Local(m, t) /\ \E r \in R : InBatch(r, t))}
<1>1. /\ dylib[m] \in [Syms -> Entry \cup {Absent}] /\ LinkTypeOK
      /\ Needs(dylib[m]) \in [Syms -> SUBSET Syms]
  BY JitLookupTyped DEF TypesOK, LoadTypeOK
<1>2. /\ s \in R /\ R \subseteq Syms /\ \A r \in R : dylib[m][r] # Absent
      /\ \A r \in R : Needs(dylib[m])[r] \subseteq R
  BY <1>1, ReachedSelf, ReachedClosed DEF Usable
<1>3. \A r \in R : dylib[m][r].needs \subseteq R
  BY <1>2 DEF Needs
<1>4. ASSUME NEW t \in X, NEW u \in Refs(m)[t]
      PROVE  u \in X
  <2>1. u \in Syms
    BY <1>1, RefsTyped
  <2>2. PICK r \in R, E \in SUBSET Syms : t \in E /\ r \in E /\ IsBatch(m, E, dylib[m][r].needs)
    <3>1. CASE t \in R
      <4>1. Defined(m, t)
        BY <1>4 DEF Refs
      <4>2. EntryBatched(m, t, dylib[m][t])
        BY <1>2, <3>1 DEF Batched
      <4>3. QED
        BY <3>1, <4>1, <4>2 DEF EntryBatched
    <3>2. CASE t \notin R
      BY <3>2
    <3>3. QED
      BY <3>1, <3>2
  <2>3. u \in dylib[m][r].needs \/ (u \in E /\ Local(m, u))
    BY <1>4, <2>2 DEF IsBatch
  <2>4. QED
    BY <1>3, <2>1, <2>2, <2>3
<1>5. Closure(m, s) \subseteq X
  <2>1. X \in SUBSET Syms /\ s \in X
    BY <1>2
  <2>2. \A t \in X : Refs(m)[t] \subseteq X
    BY <1>4
  <2> HIDE DEF X
  <2>3. QED
    BY <2>1, <2>2, ReachedLeast DEF Closure
<1>6. \A t \in X : t \in rtLoaded[m] /\ (Local(m, t) \/ dylib[m][t] # Absent)
  BY <1>2 DEF LoadedFirst, IsBatch
<1>7. QED
  BY <1>5, <1>6

LEMMA UsableCoversNext == TypesOK' /\ LoadedFirst' /\ Batched' => ClosureCovered'
  BY UsableCovers, PTL

-----------------------------------------------------------------------------
(* What is usable stays usable when a table only grows.                      *)
LEMMA UsableStays ==
  ASSUME NEW old \in [Syms -> Entry \cup {Absent}], NEW new \in [Syms -> Entry \cup {Absent}],
         \A t \in Syms : old[t] # Absent => new[t] = old[t],
         NEW s \in Syms, Usable(old, s)
  PROVE  Usable(new, s) /\ new[s] = old[s]
<1> DEFINE R == Reached(Needs(old), s)
<1>1. /\ s \in R /\ R \subseteq Syms /\ \A r \in R : old[r] # Absent
      /\ \A r \in R : Needs(old)[r] \subseteq R
  BY JitLookupTyped, ReachedSelf, ReachedClosed DEF Usable
<1>2. \A r \in R : new[r] = old[r] /\ Needs(new)[r] = Needs(old)[r]
  BY <1>1 DEF Needs
<1>3. R \in SUBSET Syms /\ \A r \in R : Needs(new)[r] \subseteq R
  BY <1>1, <1>2
<1> HIDE DEF R
<1>4. Reached(Needs(new), s) \subseteq R
  BY <1>1, <1>3, ReachedLeast
<1>5. QED
  BY <1>1, <1>2, <1>4 DEF Usable

(* An answer given for symbol s of module m is what the JIT has for it, with *)
(* all it depends on; a call for it that runs is the innermost call.         *)
AnswerOK(m, s, a) ==
  /\ Usable(dylib[m], s)
  /\ dylib[m][s].addr = a
  /\ Closure(m, s) \subseteq rtLoaded[m]
InnermostOnly(m, s) ==
  \A i \in DOMAIN stack : stack[i].mod = m /\ stack[i].sym = s => i = Len(stack)
Answered ==
  \A m \in Mods, s \in Syms :
    answers[<<m, s>>] \in Addr => AnswerOK(m, s, answers[<<m, s>>]) /\ InnermostOnly(m, s)

LEMMA AnswerStays ==
  ASSUME LoadingSound, TypesOK', [Next]_vars,
         NEW m \in Mods, NEW s \in Syms, NEW a, AnswerOK(m, s, a)
  PROVE  AnswerOK(m, s, a)'
<1>1. /\ LoadingApart /\ TypesOK /\ LinkTypeOK /\ LinkTypeOK' /\ [LinkNext]_linkVars
      /\ LoadedDeclared
  BY StepLinks DEF LoadingSound, LoadingApart, TypesOK
<1>2. /\ dylib[m] \in [Syms -> Entry \cup {Absent}]
      /\ dylib'[m] \in [Syms -> Entry \cup {Absent}]
      /\ \A t \in Syms : dylib[m][t] # Absent => dylib'[m][t] = dylib[m][t]
  BY <1>1, StepKeeps DEF TypesOK, LoadTypeOK
<1>3. PICK old \in [Syms -> Entry \cup {Absent}], new \in [Syms -> Entry \cup {Absent}] :
        old = dylib[m] /\ new = dylib'[m]
  BY <1>2
<1>4. Usable(new, s) /\ new[s] = old[s]
  BY <1>2, <1>3, UsableStays DEF AnswerOK
<1>5. ValidIr(m, s)
  BY <1>1 DEF AnswerOK, ValidIr, LoadedDeclared
<1>6. Closure(m, s)' = Closure(m, s) /\ rtLoaded[m] \subseteq rtLoaded'[m]
  BY <1>1, <1>5, ClosureKept, StepKeeps
<1>7. QED
  BY <1>3, <1>4, <1>6 DEF AnswerOK

(* A call that still has work has no answer, nor has what is not declared.   *)
LEMMA FreshUnanswered ==
  ASSUME LoadingSound, Answered, NEW d \in Syms, Fresh(d)
  PROVE  \A k \in Asked(stack) : answers[k] \notin Addr
<1>1. /\ TypesOK /\ LoadTypeOK /\ Visits(d) /\ d \notin rtLoaded[Top.mod]
      /\ stack # <<>> /\ Top.mod \in Mods /\ Top.sym \in Syms
  BY VisitTyped DEF LoadingSound, LoadingApart, TypesOK, Fresh
<1>2. answers[<<Top.mod, Top.sym>>] \notin Addr
  BY <1>1, VisitDeclared DEF Answered, AnswerOK
<1>3. ASSUME NEW i \in DOMAIN stack
      PROVE  answers[<<stack[i].mod, stack[i].sym>>] \notin Addr
  <2>1. stack[i].mod \in Mods /\ stack[i].sym \in Syms
    BY <1>1, FramesTypedNow DEF FramesTyped
  <2>2. CASE i = Len(stack)
    BY <1>2, <2>2 DEF Top
  <2>3. CASE i # Len(stack)
    BY <2>1, <2>3 DEF Answered, InnermostOnly
  <2>4. QED
    BY <2>2, <2>3
<1>4. QED
  BY <1>3 DEF Asked

LEMMA UndeclaredUnanswered ==
  ASSUME LoadingSound, Answered, NEW m \in Mods, NEW s \in Syms, ~Declared(m, s)
  PROVE  answers[<<m, s>>] \notin Addr
<1>1. LinkTypeOK /\ LoadedDeclared
  BY DEF LoadingSound, LoadingApart, TypesOK
<1>2. QED
  BY <1>1, ClosureClosed DEF Answered, AnswerOK, LoadedDeclared

LEMMA VisitAsks ==
  ASSUME TypesOK, NEW d \in Syms, Visits(d)
  PROVE  Asked(Append(Callers, Visited(d))) = Asked(stack)
<1>1. /\ stack # <<>> /\ Visited(d) \in Frame
      /\ Visited(d).mod = Top.mod /\ Visited(d).sym = Top.sym
  BY VisitTyped
<1>2. /\ Len(stack) \in Nat \ {0} /\ DOMAIN stack = 1..Len(stack)
      /\ Top = stack[Len(stack)] /\ Callers \in Seq(Frame)
      /\ Len(Callers) \in Nat /\ Len(stack) = Len(Callers) + 1
      /\ \A i \in 1..Len(Callers) : Callers[i] = stack[i]
  BY <1>1, TopOfStack DEF TypesOK
<1>3. PICK frames : frames = Append(Callers, Visited(d))
  OBVIOUS
<1>4. /\ frames \in Seq(Frame) /\ Len(frames) = Len(Callers) + 1
      /\ frames[Len(Callers) + 1] = Visited(d)
      /\ \A i \in 1..Len(Callers) : frames[i] = Callers[i]
  BY <1>1, <1>2, <1>3, Appended
<1>5. DOMAIN frames = DOMAIN stack
  <2>1. DOMAIN frames = 1..Len(frames)
    BY <1>4
  <2>2. QED
    BY <1>2, <1>4, <2>1
<1>6. \A i \in DOMAIN stack : frames[i].mod = stack[i].mod /\ frames[i].sym = stack[i].sym
  BY <1>1, <1>2, <1>4
<1>7. QED
  BY <1>3, <1>5, <1>6 DEF Asked

LEMMA FailKeeps ==
  ASSUME NEW asked, Fail(asked), \A k \in asked : answers[k] \notin Addr
  PROVE  \A k \in Mods \X Syms : answers[k] \in Addr => answers'[k] = answers[k]
  BY DEF Fail

(* What a call that finishes returns, for its own symbol.                    *)
LEMMA FinishAnswers ==
  ASSUME TypesOK, LoadingSound, [Next]_vars, Finish
  PROVE  /\ Top.mod \in Mods /\ Top.sym \in Syms
         /\ \/ /\ Fail(Asked(stack))
               /\ ~Usable(dylib'[Top.mod], Top.sym)
            \/ \E a \in Addr :
                 /\ Usable(dylib'[Top.mod], Top.sym)
                 /\ dylib'[Top.mod][Top.sym] # Absent
                 /\ dylib'[Top.mod][Top.sym].addr = a
                 /\ answers' = [answers EXCEPT ![<<Top.mod, Top.sym>>] = a]
                 /\ \/ Callers = <<>> /\ stack' = <<>>
                    \/ /\ Callers # <<>>
                       /\ stack' = [Callers EXCEPT ![Len(Callers)].defs[Top.sym] = a]
<1> DEFINE table == JitAdd(Top.mod, Top)
           addr  == JitLookup(table, Top.sym)
<1>1. /\ Top.mod \in Mods /\ Top.sym \in Syms /\ dylib'[Top.mod] = table
      /\ table \in [Syms -> Entry \cup {Absent}]
  BY FinishDefines, JitAddTyped DEF Frame
<1>2. /\ addr \in Addr \cup {Null}
      /\ addr # Null => Usable(table, Top.sym) /\ addr = table[Top.sym].addr
      /\ Usable(table, Top.sym) => table[Top.sym] \in Entry
  BY <1>1, JitLookupTyped
<1>3. Absent \notin Entry
  BY LoadingAssumption
<1>4. CASE addr = Null /\ Fail(Asked(stack))
  <2>1. Usable(table, Top.sym) => addr \in Addr
    BY <1>2 DEF JitLookup, Entry
  <2>2. Null \notin Addr
    BY LoadingAssumption
  <2>3. QED
    BY <1>1, <1>4, <2>1, <2>2
<1>5. CASE /\ addr # Null
           /\ answers' = [answers EXCEPT ![<<Top.mod, Top.sym>>] = addr]
           /\ stack' = IF Callers = <<>> THEN <<>>
                       ELSE [Callers EXCEPT ![Len(Callers)].defs[Top.sym] = addr]
  BY <1>1, <1>2, <1>3, <1>5
<1>6. QED
  BY <1>1, <1>4, <1>5 DEF Finish

LEMMA AnswersKept ==
  ASSUME LoadingSound, TypesOK', Answered, [Next]_vars
  PROVE  \A k \in Mods \X Syms : answers[k] \in Addr => answers'[k] = answers[k]
<1>0. TypesOK /\ LoadTypeOK /\ LoadingApart
  BY DEF LoadingSound, LoadingApart, TypesOK
<1>1. ASSUME UNCHANGED answers
      PROVE  \A k \in Mods \X Syms : answers[k] \in Addr => answers'[k] = answers[k]
  BY <1>1
<1>2. ASSUME NEW m \in Mods, NEW s \in Syms, GetSymbolAddress(m, s), ~UNCHANGED answers
      PROVE  \A k \in Mods \X Syms : answers[k] \in Addr => answers'[k] = answers[k]
  <2>1. ~Declared(m, s) /\ Fail(Asked(<<>>) \cup {<<m, s>>})
    BY <1>2 DEF GetSymbolAddress, Enter
  <2>2. Asked(<<>>) = {}
    BY DEF Asked
  <2>3. answers[<<m, s>>] \notin Addr
    BY <2>1, UndeclaredUnanswered
  <2>4. QED
    BY <2>1, <2>2, <2>3, FailKeeps
<1>3. ASSUME NEW d \in Syms, Fresh(d), Fail(Asked(stack))
      PROVE  \A k \in Mods \X Syms : answers[k] \in Addr => answers'[k] = answers[k]
  BY <1>3, FreshUnanswered, FailKeeps
<1>4. ASSUME NEW d \in Syms, ResolveInModule(d), ~UNCHANGED answers
      PROVE  \A k \in Mods \X Syms : answers[k] \in Addr => answers'[k] = answers[k]
  <2>1. Fresh(d) /\ Visits(d)
    BY <1>4 DEF ResolveInModule, Fresh
  <2>2. PICK m \in Mods : m = linkedMods[Top.mod][Provider(d)]
    BY <1>0, <1>4, <2>1, VisitTyped DEF ResolveInModule, TypesOK, LinkTypeOK
  <2>3. ~Declared(m, d) /\ Fail(Asked(Append(Callers, Visited(d))) \cup {<<m, d>>})
    BY <1>4, <2>2 DEF ResolveInModule, Enter
  <2>4. \A k \in Asked(stack) \cup {<<m, d>>} : answers[k] \notin Addr
    BY <2>1, <2>3, FreshUnanswered, UndeclaredUnanswered
  <2>5. QED
    BY <1>0, <2>1, <2>3, <2>4, VisitAsks, FailKeeps
<1>5. ASSUME Finish
      PROVE  \A k \in Mods \X Syms : answers[k] \in Addr => answers'[k] = answers[k]
  <2>1. PICK m \in Mods, s \in Syms : m = Top.mod /\ s = Top.sym
    BY <1>0, <1>5, FinishAnswers
  <2>2. stack # <<>>
    BY <1>5 DEF Finish, Running
  <2>3. answers[<<m, s>>] \in Addr =>
          Usable(dylib'[m], s) /\ dylib'[m][s].addr = answers[<<m, s>>]
    <3>1. PICK a : a = answers[<<m, s>>]
      OBVIOUS
    <3>2. answers[<<m, s>>] \in Addr => AnswerOK(m, s, a)'
      BY <3>1, AnswerStays DEF Answered
    <3>3. QED
      BY <3>1, <3>2 DEF AnswerOK
  <2>4. CASE Fail(Asked(stack)) /\ ~Usable(dylib'[m], s)
    <3>1. answers[<<m, s>>] \notin Addr
      BY <2>3, <2>4
    <3>2. ASSUME NEW i \in DOMAIN stack
          PROVE  answers[<<stack[i].mod, stack[i].sym>>] \notin Addr
      <4>1. stack[i].mod \in Mods /\ stack[i].sym \in Syms
        BY <1>0, FramesTypedNow DEF FramesTyped
      <4>2. CASE i = Len(stack)
        BY <2>1, <3>1, <4>2 DEF Top
      <4>3. CASE i # Len(stack)
        BY <4>1, <4>3 DEF Answered, InnermostOnly
      <4>4. QED
        BY <4>2, <4>3
    <3>3. QED
      BY <2>4, <3>2, FailKeeps DEF Asked
  <2>5. CASE answers' = [answers EXCEPT ![<<m, s>>] = dylib'[m][s].addr]
    <3>1. answers \in [Mods \X Syms -> Addr \cup {Null, Absent}]
      BY <1>0 DEF LoadTypeOK
    <3>2. QED
      BY <2>3, <2>5, <3>1
  <2>6. QED
    BY <1>0, <1>5, <2>1, <2>4, <2>5, FinishAnswers
<1>6. QED
  BY <1>1, <1>2, <1>3, <1>4, <1>5
     DEF Next, LoadStep, LinkStep, AddLibraryAlias, SkipLoaded, LoadDefinition,
         ResolveNothing, ResolveInLibrary, vars, loadVars

(* A call that waits for an extern cannot be answered by a nested call for   *)
(* the same symbol: that extern is still missing.                            *)
LEMMA AnswerIsInnermost ==
  ASSUME LoadingSound, TypesOK', Batched', LoadedFirst', [Next]_vars, Finish,
         Usable(dylib'[Top.mod], Top.sym),
         NEW i \in DOMAIN stack, i # Len(stack)
  PROVE  ~(stack[i].mod = Top.mod /\ stack[i].sym = Top.sym)
<1> SUFFICES ASSUME stack[i].mod = Top.mod, stack[i].sym = Top.sym PROVE FALSE
  OBVIOUS
<1>1. /\ LoadingApart /\ ClaimsApart /\ TypesOK /\ LoadTypeOK
      /\ stack # <<>> /\ Top.mod \in Mods /\ Top \in Frame /\ Top.sym \in Syms
  BY FinishDefines DEF LoadingSound, LoadingApart, TypesOK, Frame
<1>2. /\ DOMAIN stack = 1..Len(stack) /\ Len(stack) \in DOMAIN stack /\ Top = stack[Len(stack)]
      /\ Len(stack) \in Nat
  BY <1>1, TopOfStack
<1>3. i < Len(stack) /\ i + 1 \in DOMAIN stack
  BY <1>2
<1>4. PICK m \in Mods, s \in Syms, t \in Syms : m = Top.mod /\ s = Top.sym /\ t = stack[i + 1].sym
  BY <1>1, <1>3, FramesTypedNow DEF FramesTyped
<1>5. t \in Claimed(i) /\ dylib[m][t] = Absent
  BY <1>1, <1>3, <1>4 DEF Claimed, Awaited, ClaimsApart, ClaimOK
<1>6. t \notin Owned(Top)
  <2>1. Claimed(i) \cap Claimed(Len(stack)) = {}
    BY <1>1, <1>2 DEF ClaimsApart
  <2>2. QED
    BY <1>2, <1>5, <2>1 DEF Claimed
<1>7. dylib'[m][t] = Absent
  BY <1>1, <1>4, <1>5, <1>6, FinishDefines
<1>8. t \in Closure(m, s) /\ ~Defined(m, t)
  BY <1>3, <1>4 DEF LoadingSound, CallsHold, Calls
<1>9. UNCHANGED linkVars
  BY DEF Finish
<1>10. t \in Closure(m, s)' /\ ~Local(m, t)'
  BY <1>8, <1>9, SameLinks DEF Local
<1>11. QED
  BY <1>4, <1>7, <1>10, UsableCoversNext DEF ClosureCovered

(* An address that was returned is the one the JIT of the module has, the    *)
(* entry is usable, everything it reaches is visited, and no outer call      *)
(* still works on the symbol.                                                *)
THEOREM AnsweredInvariant == Spec => []Answered
<1>1. Init => Answered
  BY LoadingAssumption DEF Init, Answered
<1>2. LoadingSound /\ LoadingSound' /\ Batched' /\ Answered /\ [Next]_vars => Answered'
  <2> SUFFICES ASSUME LoadingSound, LoadingSound', Batched', Answered, [Next]_vars,
                      NEW m \in Mods, NEW s \in Syms, answers'[<<m, s>>] \in Addr
               PROVE  AnswerOK(m, s, answers[<<m, s>>])' /\ InnermostOnly(m, s)'
    BY DEF Answered
  <2>0. /\ LoadingApart /\ TypesOK /\ LoadTypeOK /\ TypesOK' /\ LoadedFirst' /\ <<m, s>> \in Mods \X Syms
    BY DEF LoadingSound, LoadingApart, TypesOK
  <2>1. CASE answers[<<m, s>>] \in Addr
    <3>1. PICK a : a = answers[<<m, s>>] /\ a = answers'[<<m, s>>]
      BY <2>0, <2>1, AnswersKept
    <3>2. AnswerOK(m, s, a)' /\ InnermostOnly(m, s)
      BY <2>0, <2>1, <3>1, AnswerStays DEF Answered
    <3>3. InnermostOnly(m, s)'
      <4>1. CASE stack' = <<>> \/ stack' = stack
        BY <3>2, <4>1 DEF InnermostOnly
      <4>2. ASSUME NEW n \in Mods, NEW t \in Syms, GetSymbolAddress(n, t),
                   stack' # <<>>, stack' # stack
            PROVE  InnermostOnly(m, s)'
        <5>1. stack' = Append(<<>>, Called(n, t))
          BY <2>0, <4>2, EnterCases DEF GetSymbolAddress
        <5>2. DOMAIN stack' = {1} /\ Len(stack') = 1
          BY <5>1
        <5>3. QED
          BY <5>2 DEF InnermostOnly
      <4>3. ASSUME NEW x \in Frame, x.mod = Top.mod, x.sym = Top.sym, stack # <<>>,
                   stack' = Append(Callers, x)
            PROVE  InnermostOnly(m, s)'
        BY <2>0, <3>2, <4>3, CallGoesOn DEF InnermostOnly
      <4>4. ASSUME NEW d \in Syms, ResolveInModule(d), stack' # <<>>, stack' # stack
            PROVE  InnermostOnly(m, s)'
        <5>1. /\ Fresh(d) /\ Visits(d) /\ stack # <<>> /\ Visited(d) \in Frame
              /\ Visited(d).mod = Top.mod /\ Visited(d).sym = Top.sym
          BY <2>0, <4>4, VisitTyped DEF ResolveInModule, Fresh
        <5>2. PICK n \in Mods : n = linkedMods[Top.mod][Provider(d)]
          <6>1. linkedMods \in [Mods -> [Names -> Mods \cup {Absent}]]
            BY <2>0 DEF TypesOK, LinkTypeOK
          <6>2. Provider(d) \in Names /\ linkedMods[Top.mod][Provider(d)] # Absent
            BY <4>4 DEF ResolveInModule
          <6>3. Top.mod \in Mods
            BY <2>0, <5>1, VisitTyped
          <6>4. QED
            BY <6>1, <6>2, <6>3
        <5>3. /\ stack' = Append(Append(Callers, Visited(d)), Called(n, d))
              /\ Called(n, d) \in Frame
          BY <2>0, <4>4, <5>2, EnterCases DEF ResolveInModule
        <5>4. \A k \in Asked(stack) : answers[k] \notin Addr
          BY <5>1, FreshUnanswered
        <5>5. \A i \in DOMAIN stack : ~(stack[i].mod = m /\ stack[i].sym = s)
          BY <2>1, <5>4 DEF Asked
        <5>6. /\ DOMAIN stack' = DOMAIN stack \cup {Len(stack')}
              /\ \A i \in DOMAIN stack : /\ stack'[i].mod = stack[i].mod
                                         /\ stack'[i].sym = stack[i].sym
          BY <2>0, <5>1, <5>3, CallCalls
        <5>7. QED
          BY <5>5, <5>6 DEF InnermostOnly
      <4>5. ASSUME Finish, stack' # <<>>
            PROVE  InnermostOnly(m, s)'
        <5>1. PICK b \in Addr : /\ stack # <<>> /\ Callers # <<>>
                                /\ stack' = [Callers EXCEPT ![Len(Callers)].defs[Top.sym] = b]
          BY <2>0, <4>5, FinishAnswers DEF Fail, Finish, Running
        <5>2. /\ DOMAIN stack = DOMAIN stack' \cup {Len(stack)} /\ Len(stack) \notin DOMAIN stack'
              /\ \A i \in DOMAIN stack' : /\ stack'[i].mod = stack[i].mod
                                          /\ stack'[i].sym = stack[i].sym
          BY <2>0, <5>1, CallReturns
        <5>3. QED
          BY <3>2, <5>2 DEF InnermostOnly
      <4>6. ASSUME NEW d \in Syms, SkipLoaded(d)
            PROVE  InnermostOnly(m, s)'
        <5>1. /\ stack # <<>> /\ Visited(d) \in Frame /\ stack' = Append(Callers, Visited(d))
              /\ Visited(d).mod = Top.mod /\ Visited(d).sym = Top.sym
          BY <2>0, <4>6, VisitTyped DEF SkipLoaded
        <5>2. QED
          BY <4>3, <5>1
      <4>7. ASSUME NEW d \in Syms, LoadDefinition(d)
            PROVE  InnermostOnly(m, s)'
        <5>1. PICK x : x = [Visited(d) EXCEPT !.emit = @ \cup {d}]
          OBVIOUS
        <5>2. x \in Frame /\ x.mod = Top.mod /\ x.sym = Top.sym /\ stack # <<>>
          BY <2>0, <4>7, <5>1, OwnedByDefinition, VisitTyped DEF LoadDefinition, Fresh
        <5>3. QED
          BY <4>3, <4>7, <5>1, <5>2 DEF LoadDefinition
      <4>8. ASSUME NEW d \in Syms, ResolveInLibrary(d), stack' # <<>>
            PROVE  InnermostOnly(m, s)'
        <5>1. PICK lib : /\ <<lib, d>> \in LibSyms
                         /\ stack' = Append(Callers, [Visited(d) EXCEPT !.defs[d] = <<lib, d>>])
          BY <4>8 DEF ResolveInLibrary, Fail
        <5>2. PICK a1 \in Addr : a1 = <<lib, d>>
          BY <5>1, LoadingAssumption DEF Addr
        <5>3. PICK fr \in Frame : fr = Visited(d) /\ fr.mod = Top.mod /\ fr.sym = Top.sym
          BY <2>0, <4>8, VisitTyped DEF ResolveInLibrary, Fresh
        <5>4. PICK x : x = [fr EXCEPT !.defs[d] = a1]
          OBVIOUS
        <5>5. x \in Frame /\ x.mod = fr.mod /\ x.sym = fr.sym
          BY <2>0, <5>4, FoundTyped DEF Frame
        <5>6. stack' = Append(Callers, x) /\ stack # <<>>
          BY <4>8, <5>1, <5>2, <5>3, <5>4 DEF ResolveInLibrary, Fresh, Visits, Running
        <5>7. QED
          BY <4>3, <5>3, <5>5, <5>6
      <4>9. QED
        BY <4>1, <4>2, <4>4, <4>5, <4>6, <4>7, <4>8
           DEF Next, LoadStep, LinkStep, AddLibraryAlias, ResolveNothing, Fail, vars, loadVars
    <3>4. QED
      BY <3>1, <3>2, <3>3
  <2>2. CASE answers[<<m, s>>] \notin Addr
    <3>1. Finish /\ ~Fail(Asked(stack))
      <4>1. Null \notin Addr
        BY LoadingAssumption
      <4>2. ASSUME NEW asked, Fail(asked) PROVE FALSE
        BY <2>0, <2>2, <4>1, <4>2 DEF Fail
      <4>3. answers' # answers
        BY <2>2
      <4>4. QED
        BY <4>2, <4>3
           DEF Next, LoadStep, LinkStep, AddLibraryAlias, GetSymbolAddress, SkipLoaded, Enter,
               LoadDefinition, ResolveNothing, ResolveInModule, ResolveInLibrary, vars, loadVars
    <3>2. PICK a \in Addr :
            /\ Usable(dylib'[Top.mod], Top.sym)
            /\ dylib'[Top.mod][Top.sym].addr = a
            /\ answers' = [answers EXCEPT ![<<Top.mod, Top.sym>>] = a]
            /\ \/ Callers = <<>> /\ stack' = <<>>
               \/ /\ Callers # <<>>
                  /\ stack' = [Callers EXCEPT ![Len(Callers)].defs[Top.sym] = a]
      BY <2>0, <3>1, FinishAnswers
    <3>3. answers \in [Mods \X Syms -> Addr \cup {Null, Absent}]
      BY <2>0 DEF LoadTypeOK
    <3>4. m = Top.mod /\ s = Top.sym /\ answers'[<<m, s>>] = a
      <4>1. Top.mod \in Mods /\ Top.sym \in Syms
        BY <2>0, <3>1, FinishAnswers
      <4>2. <<m, s>> = <<Top.mod, Top.sym>>
        BY <2>0, <2>2, <3>2, <3>3
      <4>3. QED
        BY <2>0, <3>2, <3>3, <4>1, <4>2
    <3>5. AnswerOK(m, s, a)'
      <4>1. FrameCovered(Top) /\ Top.todo = {}
        BY <2>0, <3>1, TopOfStack DEF LoadingSound, FramesHold, Finish, Running
      <4>2. UNCHANGED linkVars /\ rtLoaded' = rtLoaded
        BY <3>1 DEF Finish
      <4>3. Closure(m, s)' = Closure(m, s)
        BY <4>2, SameLinks
      <4>4. QED
        BY <3>2, <3>4, <4>1, <4>2, <4>3 DEF AnswerOK, FrameCovered
    <3>6. InnermostOnly(m, s)'
      <4>1. CASE stack' = <<>>
        BY <4>1 DEF InnermostOnly
      <4>2. CASE /\ Callers # <<>>
                 /\ stack' = [Callers EXCEPT ![Len(Callers)].defs[Top.sym] = a]
        <5>1. stack # <<>>
          BY <3>1 DEF Finish, Running
        <5>2. /\ DOMAIN stack = DOMAIN stack' \cup {Len(stack)} /\ Len(stack) \notin DOMAIN stack'
              /\ \A i \in DOMAIN stack' : /\ stack'[i].mod = stack[i].mod
                                          /\ stack'[i].sym = stack[i].sym
          BY <2>0, <4>2, <5>1, CallReturns
        <5>3. ASSUME NEW i \in DOMAIN stack'
              PROVE  ~(stack'[i].mod = m /\ stack'[i].sym = s)
          <6>1. i \in DOMAIN stack /\ i # Len(stack)
            BY <5>2, <5>3
          <6>2. ~(stack[i].mod = Top.mod /\ stack[i].sym = Top.sym)
            BY <2>0, <3>1, <3>2, <6>1, AnswerIsInnermost
          <6>3. QED
            BY <3>4, <5>2, <6>2
        <5>4. QED
          BY <5>3 DEF InnermostOnly
      <4>3. QED
        BY <3>2, <4>1, <4>2
    <3>7. QED
      BY <3>4, <3>5, <3>6
  <2>3. QED
    BY <2>1, <2>2
<1>3. QED
  BY <1>1, <1>2, LoadingSoundInvariant, BatchInvariant, PTL DEF Spec

(* Once a request has got an address, the same request gets that address for *)
(* ever, whatever is linked, compiled, loaded or refused in between.         *)
THEOREM AnswersAreStable == Spec => AnswersStable
<1>1. LoadingSound /\ TypesOK' /\ Answered /\ [Next]_vars
        => [\A k \in Mods \X Syms : answers[k] \in Addr => answers'[k] = answers[k]]_vars
  BY AnswersKept
<1>2. Spec => []TypesOK
  BY LoadingLinkTypes, LoadTypeInvariant, PTL DEF TypesOK
<1>3. QED
  BY <1>1, <1>2, LoadingSoundInvariant, AnsweredInvariant, PTL DEF Spec, AnswersStable

-----------------------------------------------------------------------------
(* A symbol that was visited is kept: it is in the dylib, some call will put *)
(* it there, or a request that depends on it was refused.                    *)
Refused(m, s) == \E k \in Syms : answers[<<m, k>>] = Null /\ s \in Closure(m, k)
Kept(m, s) ==
  \/ dylib[m][s] # Absent
  \/ \E i \in DOMAIN stack : stack[i].mod = m /\ s \in Claimed(i)
  \/ Refused(m, s)
LoadedKept ==
  ~aborted \/ stack = <<>> =>
    \A m \in Mods, s \in Syms : s \in rtLoaded[m] /\ ~Local(m, s) => Kept(m, s)

(* What becomes of the claims of the calls.                                  *)
LEMMA GoOnClaims ==
  ASSUME LoadTypeOK, stack # <<>>, NEW x \in Frame, stack' = Append(Callers, x),
         x.mod = Top.mod, x.sym = Top.sym, Owned(Top) \subseteq Owned(x)
  PROVE  /\ DOMAIN stack' = DOMAIN stack /\ Len(stack) \in DOMAIN stack
         /\ \A i \in DOMAIN stack : /\ stack'[i].mod = stack[i].mod
                                    /\ Claimed(i) \subseteq Claimed(i)'
                                    /\ i = Len(stack) => Owned(x) \subseteq Claimed(i)'
<1>1. /\ DOMAIN stack' = DOMAIN stack
      /\ stack'[Len(stack)] = x
      /\ \A i \in DOMAIN stack : /\ stack'[i].mod = stack[i].mod
                                 /\ Awaited(i)' = Awaited(i)
                                 /\ i # Len(stack) => stack'[i] = stack[i]
  BY CallGoesOn
<1>2. Top = stack[Len(stack)] /\ Len(stack) \in DOMAIN stack
  BY TopOfStack
<1>3. \A i \in DOMAIN stack' : Claimed(i)' = Owned(stack'[i]) \cup Awaited(i)'
  BY DEF Claimed, Owned
<1>4. QED
  BY <1>1, <1>2, <1>3 DEF Claimed

LEMMA CallClaims ==
  ASSUME LoadTypeOK, stack # <<>>, NEW x \in Frame, NEW y \in Frame,
         stack' = Append(Append(Callers, x), y), x.mod = Top.mod, x.sym = Top.sym,
         Owned(Top) \subseteq Owned(x)
  PROVE  /\ DOMAIN stack \subseteq DOMAIN stack' /\ Len(stack) \in DOMAIN stack
         /\ \A i \in DOMAIN stack : /\ stack'[i].mod = stack[i].mod
                                    /\ Claimed(i) \subseteq Claimed(i)'
                                    /\ i = Len(stack) => y.sym \in Claimed(i)'
<1>1. /\ DOMAIN stack' = DOMAIN stack \cup {Len(stack')}
      /\ stack'[Len(stack)] = x
      /\ \A n : n = Len(stack) => Awaited(n)' = {y.sym}
      /\ \A i \in DOMAIN stack : /\ stack'[i].mod = stack[i].mod
                                 /\ i # Len(stack) => /\ stack'[i] = stack[i]
                                                      /\ Awaited(i)' = Awaited(i)
  BY CallCalls
<1>2. Top = stack[Len(stack)] /\ Len(stack) \in DOMAIN stack
  BY TopOfStack
<1>3. \A n : n = Len(stack) => Awaited(n) = {}
  BY TopOfStack DEF Awaited
<1>4. \A i \in DOMAIN stack' : Claimed(i)' = Owned(stack'[i]) \cup Awaited(i)'
  BY DEF Claimed, Owned
<1>5. QED
  BY <1>1, <1>2, <1>3, <1>4 DEF Claimed

LEMMA ReturnClaims ==
  ASSUME TypesOK, stack # <<>>, Callers # <<>>, NEW a \in Addr,
         stack' = [Callers EXCEPT ![Len(Callers)].defs[Top.sym] = a]
  PROVE  /\ DOMAIN stack = DOMAIN stack' \cup {Len(stack)}
         /\ \A i \in DOMAIN stack' : /\ stack'[i].mod = stack[i].mod
                                     /\ Claimed(i) \subseteq Claimed(i)'
<1>1. /\ DOMAIN stack = DOMAIN stack' \cup {Len(stack)} /\ Len(stack') \in DOMAIN stack'
      /\ stack'[Len(stack')] = [stack[Len(stack')] EXCEPT !.defs[Top.sym] = a]
      /\ \A n : n = Len(stack') => Awaited(n) = {Top.sym}
      /\ \A i \in DOMAIN stack' : /\ stack'[i].mod = stack[i].mod
                                  /\ i # Len(stack') => /\ stack'[i] = stack[i]
                                                        /\ Awaited(i)' = Awaited(i)
  BY CallReturns
<1>2. PICK fr \in Frame, d \in Syms : fr = stack[Len(stack')] /\ d = Top.sym
  BY <1>1, FramesTypedNow, TopOfStack DEF FramesTyped, TypesOK, Frame
<1>3. PICK x : x = [fr EXCEPT !.defs[d] = a]
  OBVIOUS
<1>4. /\ x \in Frame /\ x.emit = fr.emit
      /\ \A t \in Syms : x.defs[t] = IF t = d THEN a ELSE fr.defs[t]
  BY <1>3, FoundTyped DEF Frame
<1>5. Owned(x) = Owned(fr) \cup {d}
  BY <1>4, OwnedByAddress
<1>8. x = stack'[Len(stack')]
  BY <1>1, <1>2, <1>3
<1>6. \A i \in DOMAIN stack' : Claimed(i)' = Owned(stack'[i]) \cup Awaited(i)'
  BY DEF Claimed, Owned
<1>7. QED
  BY <1>1, <1>2, <1>5, <1>8, <1>6 DEF Claimed

LEMMA RefusedStays ==
  ASSUME UNCHANGED linkVars, NEW m \in Mods, NEW s \in Syms, Refused(m, s),
         \A k \in Syms : answers[<<m, k>>] = Null => answers'[<<m, k>>] = Null
  PROVE  Refused(m, s)'
<1>1. PICK k \in Syms : answers[<<m, k>>] = Null /\ s \in Closure(m, k)
  BY DEF Refused
<1>2. Closure(m, k)' = Closure(m, k)
  BY SameLinks
<1>3. QED
  BY <1>1, <1>2 DEF Refused

(* A request that fails refuses all that its calls had claimed.              *)
LEMMA ClaimsDepend ==
  ASSUME LoadingSound, NEW i \in DOMAIN stack
  PROVE  Claimed(i) \subseteq Closure(stack[i].mod, stack[i].sym)
  BY DEF LoadingSound, FramesHold, FrameSound, CallsHold, Calls, Claimed, Awaited

LEMMA FailKept ==
  ASSUME LoadingSound, UNCHANGED linkVars, NEW asked, Fail(asked), Asked(stack) \subseteq asked,
         \A n \in Mods, t \in Syms : dylib[n][t] # Absent => dylib'[n][t] # Absent,
         NEW m \in Mods, NEW s \in Syms
  PROVE  /\ Kept(m, s) => Kept(m, s)'
         /\ \A i \in DOMAIN stack :
              stack[i].mod = m /\ s \in Closure(m, stack[i].sym) => Kept(m, s)'
<1>1. TypesOK
  BY DEF LoadingSound, LoadingApart
<1>2. \A k \in Mods \X Syms : answers[k] = Null \/ k \in asked => answers'[k] = Null
  BY DEF Fail
<1>3. ASSUME NEW i \in DOMAIN stack, stack[i].mod = m, s \in Closure(m, stack[i].sym)
      PROVE  Refused(m, s)'
  <2>1. PICK k \in Syms : k = stack[i].sym /\ <<m, k>> \in asked
    BY <1>1, <1>3, FramesTypedNow DEF FramesTyped, Asked
  <2>2. Closure(m, k)' = Closure(m, k)
    BY SameLinks
  <2>3. QED
    BY <1>2, <1>3, <2>1, <2>2 DEF Refused
<1>4. ASSUME NEW i \in DOMAIN stack, stack[i].mod = m, s \in Claimed(i)
      PROVE  Refused(m, s)'
  BY <1>3, <1>4, ClaimsDepend
<1>5. Refused(m, s) => Refused(m, s)'
  BY <1>2, RefusedStays
<1>6. QED
  BY <1>3, <1>4, <1>5 DEF Kept

(* Whatever an action marks is kept by its end.                              *)
LEMMA KeptStays ==
  ASSUME UNCHANGED <<linkVars, answers>>,
         \A n \in Mods, t \in Syms : dylib[n][t] # Absent => dylib'[n][t] # Absent,
         \A i \in DOMAIN stack : /\ i \in DOMAIN stack'
                                 /\ stack'[i].mod = stack[i].mod
                                 /\ Claimed(i) \subseteq Claimed(i)',
         NEW m \in Mods, NEW s \in Syms, Kept(m, s)
  PROVE  Kept(m, s)'
<1>1. Refused(m, s) => Refused(m, s)'
  BY RefusedStays
<1>2. ASSUME NEW i \in DOMAIN stack, stack[i].mod = m, s \in Claimed(i)
      PROVE  \E j \in DOMAIN stack' : stack'[j].mod = m /\ s \in Claimed(j)'
  BY <1>2
<1>3. QED
  BY <1>1, <1>2 DEF Kept

LEMMA KeptByMark ==
  ASSUME TypesOK, UNCHANGED linkVars, LoadedKept, NEW d \in Syms, Fresh(d), MarkLoaded(d),
         \A m \in Mods, s \in Syms : Kept(m, s) => Kept(m, s)',
         \A m \in Mods : m = Top.mod => Kept(m, d)'
  PROVE  LoadedKept'
<1>1. ASSUME NEW m \in Mods, NEW s \in Syms, s \in rtLoaded'[m], ~Local(m, s)'
      PROVE  Kept(m, s)'
  <2>1. ~aborted
    BY DEF Fresh, Visits, Running
  <2>2. s \in rtLoaded[m] \/ (m = Top.mod /\ s = d)
    BY <1>1, MarkedLoaded
  <2>3. ~Local(m, s)
    BY <1>1, SameLinks
  <2>4. QED
    BY <2>1, <2>2, <2>3 DEF LoadedKept
<1>2. QED
  BY <1>1 DEF LoadedKept

LEMMA KeptWhileLinking ==
  ASSUME TypesOK, TypesOK', LoadingSound, LoadedKept, LinkStep
  PROVE  LoadedKept'
<1>1. UNCHANGED loadVars /\ stack = <<>> /\ [LinkNext]_linkVars
  BY DEF LinkStep, Between
<1>2. ASSUME NEW m \in Mods, NEW s \in Syms, s \in rtLoaded'[m], ~Local(m, s)'
      PROVE  Kept(m, s)'
  <2>1. s \in rtLoaded[m] /\ Declared(m, s)
    BY <1>1, <1>2 DEF loadVars, LoadingSound, LoadedDeclared
  <2>2. ~Local(m, s)
    BY <1>1, <1>2, <2>1, SymbolKept DEF TypesOK
  <2>3. Kept(m, s)
    BY <1>1, <2>1, <2>2 DEF LoadedKept
  <2>4. CASE dylib[m][s] # Absent
    BY <1>1, <2>4 DEF Kept, loadVars
  <2>5. CASE Refused(m, s)
    <3>1. PICK k \in Syms : answers[<<m, k>>] = Null /\ s \in Closure(m, k)
      BY <2>5 DEF Refused
    <3>2. Closure(m, k) \subseteq Closure(m, k)'
      BY <1>1, ClosureGrows DEF TypesOK
    <3>3. answers' = answers
      BY <1>1 DEF loadVars
    <3>4. QED
      BY <3>1, <3>2, <3>3 DEF Kept, Refused
  <2>6. QED
    BY <1>1, <2>3, <2>4, <2>5 DEF Kept
<1>3. QED
  BY <1>2 DEF LoadedKept

(* The same, when a request fails at the symbol it visits.                   *)
LEMMA KeptByRefusal ==
  ASSUME LoadingSound, UNCHANGED <<linkVars, dylib>>, LoadedKept,
         NEW d \in Syms, Fresh(d), MarkLoaded(d),
         NEW asked, Fail(asked), Asked(stack) \subseteq asked
  PROVE  LoadedKept'
<1>1. TypesOK
  BY DEF LoadingSound, LoadingApart
<1>2. Visits(d) /\ stack # <<>>
  BY DEF Fresh, Visits, Running
<1>3. Len(stack) \in DOMAIN stack /\ Top = stack[Len(stack)]
  BY <1>1, <1>2, TopOfStack DEF TypesOK
<1>4. d \in Closure(Top.mod, Top.sym)
  BY <1>2, VisitDeclared
<1>5. \A m \in Mods, s \in Syms : Kept(m, s) => Kept(m, s)'
  BY FailKept
<1>6. ASSUME NEW m \in Mods, m = Top.mod PROVE Kept(m, d)'
  <2>1. \A i \in DOMAIN stack :
          stack[i].mod = m /\ d \in Closure(m, stack[i].sym) => Kept(m, d)'
    BY FailKept
  <2>2. QED
    BY <1>3, <1>4, <1>6, <2>1
<1>7. QED
  BY <1>1, <1>5, <1>6, KeptByMark

(* A call that returns puts all it claimed into the dylib; if its symbol was *)
(* refused before, what the symbol depends on is in the dylib now.           *)
LEMMA KeptByReturn ==
  ASSUME LoadingSound, TypesOK', Batched', LoadedFirst', LoadedKept, [Next]_vars, Finish,
         NEW a \in Addr, Usable(dylib'[Top.mod], Top.sym),
         answers' = [answers EXCEPT ![<<Top.mod, Top.sym>>] = a],
         \/ Callers = <<>> /\ stack' = <<>>
         \/ /\ Callers # <<>>
            /\ stack' = [Callers EXCEPT ![Len(Callers)].defs[Top.sym] = a]
  PROVE  LoadedKept'
<1>1. TypesOK /\ stack # <<>> /\ ~aborted /\ UNCHANGED <<linkVars, rtLoaded>>
  BY DEF LoadingSound, LoadingApart, Finish, Running
<1>2. /\ DOMAIN stack' \cup {Len(stack)} = DOMAIN stack
      /\ \A i \in DOMAIN stack' : /\ stack'[i].mod = stack[i].mod
                                  /\ Claimed(i) \subseteq Claimed(i)'
  <2>1. CASE Callers = <<>> /\ stack' = <<>>
    <3>1. DOMAIN stack = 1..Len(stack) /\ Len(stack) \in Nat /\ Len(stack) = Len(Callers) + 1
      BY <1>1, TopOfStack DEF TypesOK
    <3>2. Len(Callers) = 0 /\ DOMAIN stack' = {}
      BY <2>1
    <3>3. QED
      BY <3>1, <3>2
  <2>2. CASE /\ Callers # <<>>
             /\ stack' = [Callers EXCEPT ![Len(Callers)].defs[Top.sym] = a]
    BY <1>1, <2>2, ReturnClaims
  <2>3. QED
    BY <2>1, <2>2
<1>3. \A n \in Mods, t \in Syms : dylib[n][t] # Absent => dylib'[n][t] # Absent
  BY StepKeeps DEF LoadingSound
<1>4. ClosureCovered'
  BY UsableCoversNext
<1>5. ASSUME NEW m \in Mods, NEW s \in Syms, s \in rtLoaded'[m], ~Local(m, s)'
      PROVE  Kept(m, s)'
  <2>1. Kept(m, s) /\ ~Local(m, s)
    BY <1>1, <1>5, SameLinks DEF LoadedKept
  <2>2. CASE dylib[m][s] # Absent
    BY <1>3, <2>2 DEF Kept
  <2>3. ASSUME NEW i \in DOMAIN stack, stack[i].mod = m, s \in Claimed(i)
        PROVE  Kept(m, s)'
    <3>1. CASE i \in DOMAIN stack'
      BY <1>2, <2>3, <3>1 DEF Kept
    <3>2. CASE i = Len(stack)
      <4>1. s \in Owned(Top) /\ m = Top.mod
        BY <1>1, <2>3, <3>2, TopOfStack DEF Claimed, Awaited, TypesOK
      <4>2. dylib'[Top.mod] = JitAdd(Top.mod, Top)
        BY <1>1, FinishDefines
      <4>3. Top \in Frame
        BY <1>1, FinishDefines
      <4>4. JitAdd(Top.mod, Top)[s] # Absent
        BY <1>1, <2>1, <2>3, <4>1, <4>3, JitAddOwned
      <4>5. QED
        BY <4>1, <4>2, <4>4 DEF Kept
    <3>3. QED
      BY <1>2, <2>3, <3>1, <3>2
  <2>4. ASSUME NEW k \in Syms, answers[<<m, k>>] = Null, s \in Closure(m, k)
        PROVE  Kept(m, s)'
    <3>1. CASE m = Top.mod /\ k = Top.sym
      BY <1>4, <1>5, <2>4, <3>1, SameLinks, <1>1 DEF ClosureCovered, Kept
    <3>2. CASE ~(m = Top.mod /\ k = Top.sym)
      <4>1. answers'[<<m, k>>] = Null
        BY <1>1, <2>4, <3>2 DEF TypesOK, LoadTypeOK
      <4>2. Closure(m, k)' = Closure(m, k)
        BY <1>1, SameLinks
      <4>3. QED
        BY <2>4, <4>1, <4>2 DEF Kept, Refused
    <3>3. QED
      BY <3>1, <3>2
  <2>5. QED
    BY <2>1, <2>2, <2>3, <2>4 DEF Kept, Refused
<1>6. QED
  BY <1>5 DEF LoadedKept

LEMMA KeptByCall ==
  ASSUME LoadingSound, LoadedKept, NEW d \in Syms, Fresh(d), MarkLoaded(d),
         UNCHANGED <<linkVars, answers, dylib>>,
         NEW x \in Frame, x.mod = Top.mod, x.sym = Top.sym, Owned(Top) \subseteq Owned(x),
         \/ stack' = Append(Callers, x) /\ d \in Owned(x)
         \/ \E y \in Frame : stack' = Append(Append(Callers, x), y) /\ y.sym = d
  PROVE  LoadedKept'
<1>1. TypesOK /\ LoadTypeOK /\ stack # <<>>
  BY DEF LoadingSound, LoadingApart, TypesOK, Fresh, Visits, Running
<1>2. /\ Len(stack) \in DOMAIN stack
      /\ \A i \in DOMAIN stack : /\ i \in DOMAIN stack'
                                 /\ stack'[i].mod = stack[i].mod
                                 /\ Claimed(i) \subseteq Claimed(i)'
                                 /\ i = Len(stack) => d \in Claimed(i)'
  <2>1. CASE stack' = Append(Callers, x) /\ d \in Owned(x)
    BY <1>1, <2>1, GoOnClaims
  <2>2. CASE \E y \in Frame : stack' = Append(Append(Callers, x), y) /\ y.sym = d
    <3>1. PICK y \in Frame : stack' = Append(Append(Callers, x), y) /\ y.sym = d
      BY <2>2
    <3>2. QED
      BY <1>1, <3>1, CallClaims
  <2>3. QED
    BY <2>1, <2>2
<1>3. Top = stack[Len(stack)]
  BY <1>1, TopOfStack
<1>4. \A m \in Mods, s \in Syms : Kept(m, s) => Kept(m, s)'
  BY <1>2, KeptStays
<1>5. \A m \in Mods : m = Top.mod => Kept(m, d)'
  BY <1>2, <1>3 DEF Kept
<1>6. QED
  BY <1>1, <1>4, <1>5, KeptByMark

LEMMA KeptStep ==
  ASSUME LoadingSound, TypesOK', Batched', LoadedFirst', LoadedKept, [Next]_vars
  PROVE  LoadedKept'
<1>0. TypesOK /\ LoadTypeOK
  BY DEF LoadingSound, LoadingApart, TypesOK
<1>1. CASE UNCHANGED <<linkVars, rtLoaded, dylib, stack, answers, aborted>>
  <2>1. \A m \in Mods, s \in Syms : Kept(m, s) => Kept(m, s)'
    <3>1. \A i \in DOMAIN stack : Claimed(i)' = Claimed(i)
      BY <1>1 DEF Claimed, Owned, Awaited
    <3>2. QED
      BY <1>1, <3>1, KeptStays
  <2>2. \A m \in Mods, s \in Syms : Local(m, s)' = Local(m, s)
    BY <1>1, SameLinks
  <2>3. QED
    BY <1>1, <2>1, <2>2 DEF LoadedKept
<1>2. CASE LinkStep
  BY <1>0, <1>2, KeptWhileLinking
<1>3. ASSUME NEW m \in Mods, NEW s \in Syms, GetSymbolAddress(m, s) PROVE LoadedKept'
  <2>1. stack = <<>> /\ UNCHANGED <<linkVars, rtLoaded, dylib>> /\ ~aborted
    BY <1>3 DEF GetSymbolAddress, Between
  <2>2. \A k \in Mods \X Syms : answers[k] = Null => answers'[k] = Null
    BY <1>3 DEF GetSymbolAddress, Enter, Fail
  <2>3. ASSUME NEW n \in Mods, NEW t \in Syms, t \in rtLoaded'[n], ~Local(n, t)'
        PROVE  Kept(n, t)'
    <3>1. Kept(n, t)
      BY <2>1, <2>3, SameLinks DEF LoadedKept
    <3>2. DOMAIN stack = {}
      BY <2>1
    <3>3. dylib[n][t] # Absent \/ Refused(n, t)
      BY <3>1, <3>2 DEF Kept
    <3>4. Refused(n, t) => Refused(n, t)'
      BY <2>1, <2>2, RefusedStays
    <3>5. QED
      BY <2>1, <3>3, <3>4 DEF Kept
  <2>4. QED
    BY <2>3 DEF LoadedKept
<1>4. ASSUME NEW d \in Syms, SkipLoaded(d) PROVE LoadedKept'
  <2>1. Visits(d) /\ stack # <<>> /\ ~aborted /\ stack' = Append(Callers, Visited(d))
    BY <1>4 DEF SkipLoaded, Visits, Running
  <2>2. UNCHANGED <<linkVars, answers, dylib, rtLoaded>>
    BY <1>4 DEF SkipLoaded
  <2>3. PICK x \in Frame : x = Visited(d) /\ x.mod = Top.mod /\ x.sym = Top.sym
                           /\ Owned(x) = Owned(Top)
    BY <1>0, <2>1, VisitTyped, OwnedByVisit
  <2>4. \A i \in DOMAIN stack : /\ i \in DOMAIN stack'
                                /\ stack'[i].mod = stack[i].mod
                                /\ Claimed(i) \subseteq Claimed(i)'
    BY <1>0, <2>1, <2>3, GoOnClaims
  <2>5. \A m \in Mods, s \in Syms : Kept(m, s) => Kept(m, s)'
    BY <2>2, <2>4, KeptStays
  <2>6. \A m \in Mods, s \in Syms : Local(m, s)' = Local(m, s)
    BY <2>2, SameLinks
  <2>7. QED
    BY <2>1, <2>2, <2>5, <2>6 DEF LoadedKept
<1>5. ASSUME NEW d \in Syms, LoadDefinition(d) PROVE LoadedKept'
  <2>1. /\ Fresh(d) /\ MarkLoaded(d) /\ Visits(d) /\ UNCHANGED <<linkVars, answers, dylib>>
        /\ stack' = Append(Callers, [Visited(d) EXCEPT !.emit = @ \cup {d}])
    BY <1>5 DEF LoadDefinition, Fresh
  <2>2. PICK x : x = [Visited(d) EXCEPT !.emit = @ \cup {d}]
    OBVIOUS
  <2>3. x \in Frame /\ x.mod = Top.mod /\ x.sym = Top.sym /\ Owned(x) = Owned(Top) \cup {d}
    BY <1>0, <2>1, <2>2, OwnedByDefinition
  <2>4. stack' = Append(Callers, x) /\ d \in Owned(x) /\ Owned(Top) \subseteq Owned(x)
    BY <2>1, <2>2, <2>3
  <2>5. QED
    BY <2>1, <2>3, <2>4, KeptByCall
<1>6. ASSUME NEW d \in Syms, ResolveNothing(d) PROVE LoadedKept'
  <2>1. Fresh(d) /\ MarkLoaded(d) /\ Fail(Asked(stack)) /\ UNCHANGED <<linkVars, dylib>>
    BY <1>6 DEF ResolveNothing
  <2>2. QED
    BY <2>1, KeptByRefusal
<1>7. ASSUME NEW d \in Syms, ResolveInModule(d) PROVE LoadedKept'
  <2>1. PICK m \in Mods : m = linkedMods[Top.mod][Provider(d)]
    BY <1>0, <1>7, VisitTyped DEF ResolveInModule, Fresh, TypesOK, LinkTypeOK, Provider
  <2>2. /\ Fresh(d) /\ MarkLoaded(d) /\ Visits(d) /\ UNCHANGED <<linkVars, dylib>>
        /\ Enter(m, d, Append(Callers, Visited(d)))
    BY <1>7, <2>1 DEF ResolveInModule, Fresh
  <2>3. CASE Fail(Asked(Append(Callers, Visited(d))) \cup {<<m, d>>})
    <3>1. Asked(stack) \subseteq Asked(Append(Callers, Visited(d))) \cup {<<m, d>>}
      BY <1>0, <2>2, VisitAsks
    <3>2. QED
      BY <2>2, <2>3, <3>1, KeptByRefusal
  <2>4. CASE aborted' = TRUE /\ stack' = stack
    <3>1. stack' # <<>>
      BY <2>2, <2>4 DEF Visits, Running
    <3>2. QED
      BY <2>4, <3>1 DEF LoadedKept
  <2>5. CASE /\ stack' = Append(Append(Callers, Visited(d)), Called(m, d))
             /\ UNCHANGED answers
    <3>1. PICK x \in Frame : x = Visited(d) /\ x.mod = Top.mod /\ x.sym = Top.sym
                             /\ Owned(x) = Owned(Top)
      BY <1>0, <2>2, VisitTyped, OwnedByVisit
    <3>2. PICK y \in Frame : y = Called(m, d) /\ y.sym = d
      BY <1>0, <2>2, EnterCases DEF Called
    <3>3. \E z \in Frame : stack' = Append(Append(Callers, x), z) /\ z.sym = d
      BY <2>5, <3>1, <3>2
    <3>4. QED
      BY <2>2, <2>5, <3>1, <3>3, KeptByCall
  <2>6. QED
    BY <2>2, <2>3, <2>4, <2>5 DEF Enter, Called
<1>8. ASSUME NEW d \in Syms, ResolveInLibrary(d) PROVE LoadedKept'
  <2>1. Fresh(d) /\ MarkLoaded(d) /\ Visits(d) /\ UNCHANGED <<linkVars, dylib>>
    BY <1>8 DEF ResolveInLibrary, Fresh
  <2>2. CASE Fail(Asked(stack))
    BY <2>1, <2>2, KeptByRefusal
  <2>3. ASSUME NEW lib, <<lib, d>> \in LibSyms, UNCHANGED answers,
               stack' = Append(Callers, [Visited(d) EXCEPT !.defs[d] = <<lib, d>>])
        PROVE  LoadedKept'
    <3>1. PICK a \in Addr : a = <<lib, d>>
      BY <2>3, LoadingAssumption DEF Addr
    <3>2. PICK fr \in Frame : fr = Visited(d) /\ fr.mod = Top.mod /\ fr.sym = Top.sym
                              /\ Owned(fr) = Owned(Top)
      BY <1>0, <2>1, VisitTyped, OwnedByVisit
    <3>3. PICK x : x = [fr EXCEPT !.defs[d] = a]
      OBVIOUS
    <3>4. /\ x \in Frame /\ x.mod = fr.mod /\ x.sym = fr.sym /\ x.emit = fr.emit
          /\ \A t \in Syms : x.defs[t] = IF t = d THEN a ELSE fr.defs[t]
      BY <1>0, <3>3, FoundTyped DEF Frame
    <3>5. Owned(x) = Owned(fr) \cup {d}
      BY <3>4, OwnedByAddress
    <3>6. stack' = Append(Callers, x)
      BY <2>3, <3>1, <3>2, <3>3
    <3>7. d \in Owned(x) /\ Owned(Top) \subseteq Owned(x)
      BY <3>2, <3>5
    <3>8. x.mod = Top.mod /\ x.sym = Top.sym
      BY <3>2, <3>4
    <3>9. QED
      BY <2>1, <2>3, <3>4, <3>6, <3>7, <3>8, KeptByCall
  <2>4. QED
    BY <1>8, <2>2, <2>3 DEF ResolveInLibrary
<1>9. CASE Finish
  <2>1. CASE Fail(Asked(stack))
    <3>1. \A n \in Mods, t \in Syms : dylib[n][t] # Absent => dylib'[n][t] # Absent
      BY StepKeeps DEF LoadingSound
    <3>2. UNCHANGED <<linkVars, rtLoaded>> /\ ~aborted
      BY <1>9 DEF Finish, Running
    <3>3. \A m \in Mods, s \in Syms : Kept(m, s) => Kept(m, s)'
      BY <2>1, <3>1, <3>2, FailKept
    <3>4. \A m \in Mods, s \in Syms : Local(m, s)' = Local(m, s)
      BY <3>2, SameLinks
    <3>5. QED
      BY <3>2, <3>3, <3>4 DEF LoadedKept
  <2>2. ASSUME NEW a \in Addr, Usable(dylib'[Top.mod], Top.sym),
               answers' = [answers EXCEPT ![<<Top.mod, Top.sym>>] = a],
               \/ Callers = <<>> /\ stack' = <<>>
               \/ /\ Callers # <<>>
                  /\ stack' = [Callers EXCEPT ![Len(Callers)].defs[Top.sym] = a]
        PROVE  LoadedKept'
    BY <1>9, <2>2, KeptByReturn
  <2>3. QED
    BY <1>0, <1>9, <2>1, <2>2, FinishAnswers
<1>10. ASSUME NEW c \in Compilers, NEW al \in Aliases, AddLibraryAlias(c, al[1], al[2])
       PROVE  LoadedKept'
  BY <1>1, <1>10 DEF AddLibraryAlias
<1>11. CASE UNCHANGED vars
  BY <1>1, <1>11 DEF vars, loadVars
<1>12. QED
  BY <1>2, <1>3, <1>4, <1>5, <1>6, <1>7, <1>8, <1>9, <1>10, <1>11 DEF Next, LoadStep

(* Nothing is marked and lost: until a call returns it holds what it visited *)
(* as a claim, and a request that fails accounts for what its calls held.    *)
THEOREM LoadedKeptInvariant == Spec => []LoadedKept
<1>1. Init => LoadedKept
  BY DEF Init, LoadedKept
<1>2. LoadingSound /\ TypesOK' /\ Batched' /\ LoadedFirst' /\ LoadedKept /\ [Next]_vars
        => LoadedKept'
  BY KeptStep
<1>3. LoadingSound => TypesOK /\ LoadedFirst
  BY DEF LoadingSound, LoadingApart
<1>4. QED
  BY <1>1, <1>2, <1>3, LoadingSoundInvariant, BatchInvariant, PTL DEF Spec

(* rt_loaded_syms can be trusted: between requests every symbol it holds is  *)
(* one the JIT can link to, local symbols excepted, unless a request that    *)
(* was refused needed that symbol.                                           *)
THEOREM LoadedSymbolsDefined == Spec => []LoadedIsDefined
<1>1. LoadedKept => LoadedIsDefined
  <2>1. stack = <<>> => DOMAIN stack = {}
    OBVIOUS
  <2>2. QED
    BY <2>1 DEF LoadedKept, LoadedIsDefined, Kept, Refused
<1>2. QED
  BY <1>1, LoadedKeptInvariant, PTL

-----------------------------------------------------------------------------
(* A request is refused only by a failure, and the first failure is one that *)
(* had to come.                                                              *)
RefusedAfterFailure == ~failed => \A k \in Mods \X Syms : answers[k] # Null

(* No request is answered with a refusal before some lookup has failed.      *)
THEOREM RefusalsInvariant == Spec => []RefusedAfterFailure
<1>1. Init => RefusedAfterFailure
  BY LoadingAssumption DEF Init, RefusedAfterFailure
<1>2. ASSUME TypesOK, LoadingSound, RefusedAfterFailure, [Next]_vars PROVE RefusedAfterFailure'
  <2>1. CASE UNCHANGED <<answers, failed>>
    BY <1>2, <2>1 DEF RefusedAfterFailure
  <2>2. ASSUME NEW asked, Fail(asked) PROVE RefusedAfterFailure'
    BY <2>2 DEF Fail, RefusedAfterFailure
  <2>3. ASSUME NEW m \in Mods, NEW s \in Syms, GetSymbolAddress(m, s)
        PROVE  RefusedAfterFailure'
    BY <2>1, <2>2, <2>3 DEF GetSymbolAddress, Enter
  <2>4. ASSUME NEW d \in Syms, ResolveInModule(d) PROVE RefusedAfterFailure'
    BY <2>1, <2>2, <2>4 DEF ResolveInModule, Enter
  <2>5. ASSUME NEW d \in Syms, ResolveInLibrary(d) PROVE RefusedAfterFailure'
    BY <2>1, <2>2, <2>5 DEF ResolveInLibrary
  <2>6. CASE Finish
    <3>1. ASSUME NEW a \in Addr, answers' = [answers EXCEPT ![<<Top.mod, Top.sym>>] = a],
                 ~Fail(Asked(stack))
          PROVE  RefusedAfterFailure'
      <4>1. failed' = failed
        BY <2>6, <3>1 DEF Finish
      <4>2. answers \in [Mods \X Syms -> Addr \cup {Null, Absent}] /\ a # Null
        BY <1>2, LoadingAssumption DEF TypesOK, LoadTypeOK
      <4>3. QED
        BY <1>2, <3>1, <4>1, <4>2 DEF RefusedAfterFailure
    <3>2. QED
      BY <1>2, <2>2, <2>6, <3>1, FinishAnswers
  <2>7. QED
    BY <1>2, <2>1, <2>2, <2>3, <2>4, <2>5, <2>6
       DEF Next, LoadStep, LinkStep, AddLibraryAlias, SkipLoaded, LoadDefinition,
           ResolveNothing, vars, loadVars
<1>3. LoadingSound => TypesOK
  BY DEF LoadingSound, LoadingApart
<1>4. QED
  BY <1>1, <1>2, <1>3, LoadingSoundInvariant, PTL DEF Spec

(* What resolving a symbol would take has all that its calls depend on.      *)
Closed(S) == \A x \in S : Supplied(x) /\ Successors(x) \subseteq S

LEMMA ClosedHasClosure ==
  ASSUME LinkTypeOK, NEW S \in SUBSET (Mods \X Syms), Closed(S),
         NEW m \in Mods, NEW s \in Syms, <<m, s>> \in S
  PROVE  \A t \in Closure(m, s) : <<m, t>> \in S
<1>1. PICK T \in SUBSET Syms : T = {t \in Syms : <<m, t>> \in S}
  OBVIOUS
<1>2. ASSUME NEW t \in T PROVE Refs(m)[t] \subseteq T
  <2>1. t \in Syms /\ <<m, t>> \in S /\ Refs(m)[t] \subseteq Syms
    BY <1>1, RefsTyped
  <2>2. CASE ~Defined(m, t)
    BY <2>1, <2>2 DEF Refs
  <2>3. CASE Defined(m, t)
    <3>1. Successors(<<m, t>>) = {<<m, u>> : u \in Refs(m)[t]}
      BY <2>3 DEF Successors
    <3>2. Successors(<<m, t>>) \subseteq S
      BY <2>1 DEF Closed
    <3>3. QED
      BY <1>1, <2>1, <3>1, <3>2
  <2>4. QED
    BY <2>2, <2>3
<1>3. Closure(m, s) \subseteq T
  BY <1>1, <1>2, ReachedLeast DEF Closure
<1>4. QED
  BY <1>1, <1>3

LEMMA ClosedHasCall ==
  ASSUME LinkTypeOK, NEW S \in SUBSET (Mods \X Syms), Closed(S),
         NEW m \in Mods, NEW s \in Syms, <<m, s>> \in S, ValidIr(m, s),
         NEW n \in Mods, NEW t \in Syms, Calls(m, s, n, t)
  PROVE  <<n, t>> \in S
<1>1. <<m, t>> \in S /\ Declared(m, t)
  BY ClosedHasClosure DEF Calls, ValidIr
<1>2. Source(m, t) = n
  BY DEF Source, Calls
<1>3. n # Absent
  BY LinkingAssumption
<1>4. Successors(<<m, t>>) = {<<n, t>>}
  BY <1>1, <1>2, <1>3 DEF Successors, Calls
<1>5. QED
  BY <1>1, <1>4 DEF Closed

LEMMA ClosedHasCalls ==
  ASSUME LoadingSound, stack # <<>>, NEW S \in SUBSET (Mods \X Syms), Closed(S),
         <<stack[1].mod, stack[1].sym>> \in S
  PROVE  \A i \in DOMAIN stack : <<stack[i].mod, stack[i].sym>> \in S
<1>1. TypesOK /\ LinkTypeOK /\ LoadTypeOK
  BY DEF LoadingSound, LoadingApart, TypesOK
<1>2. DOMAIN stack = 1..Len(stack) /\ Len(stack) \in Nat
  BY <1>1, TopOfStack
<1>3. PICK Bad \in SUBSET Nat :
        Bad = {i \in DOMAIN stack : <<stack[i].mod, stack[i].sym>> \notin S}
  <2>1. DOMAIN stack \subseteq Nat
    BY <1>2
  <2>2. {i \in DOMAIN stack : <<stack[i].mod, stack[i].sym>> \notin S} \in SUBSET Nat
    BY <2>1
  <2>3. QED
    BY <2>2
<1>4. ASSUME Bad # {} PROVE FALSE
  <2>1. PICK i \in Bad : \A j \in Bad : i <= j
    BY <1>4, SmallestExists
  <2>2. i \in DOMAIN stack /\ i # 1
    BY <1>3, <2>1
  <2>3. PICK p \in Nat : p + 1 = i /\ p \in DOMAIN stack /\ p < Len(stack) /\ p < i
    <3>1. i \in 2..Len(stack)
      BY <1>2, <2>2
    <3>2. i - 1 \in Nat /\ (i - 1) + 1 = i /\ i - 1 \in 1..Len(stack)
          /\ i - 1 < Len(stack) /\ i - 1 < i
      BY <1>2, <3>1
    <3>3. QED
      BY <1>2, <3>2
  <2>4. p \notin Bad
    BY <1>3, <2>1, <2>3
  <2>5. <<stack[p].mod, stack[p].sym>> \in S
    BY <1>3, <2>3, <2>4
  <2>6. /\ stack[p].mod \in Mods /\ stack[p].sym \in Syms
        /\ stack[i].mod \in Mods /\ stack[i].sym \in Syms
    BY <1>1, <2>2, <2>3, FramesTypedNow DEF FramesTyped
  <2>7. /\ ValidIr(stack[p].mod, stack[p].sym)
        /\ Calls(stack[p].mod, stack[p].sym, stack[i].mod, stack[i].sym)
    BY <2>3 DEF LoadingSound, FramesHold, FrameSound, CallsHold
  <2>8. <<stack[i].mod, stack[i].sym>> \in S
    BY <1>1, <2>5, <2>6, <2>7, ClosedHasCall
  <2>9. QED
    BY <1>3, <2>1, <2>8
<1>5. QED
  BY <1>3, <1>4

(* So the symbol that a call visits has to be supplied.                      *)
LEMMA VisitSupplied ==
  ASSUME LoadingSound, NEW d \in Syms, Visits(d),
         NEW S \in SUBSET (Mods \X Syms), Closed(S),
         <<stack[1].mod, stack[1].sym>> \in S
  PROVE  /\ <<Top.mod, d>> \in S
         /\ Supplied(<<Top.mod, d>>)
         /\ Successors(<<Top.mod, d>>) \subseteq S
<1>1. TypesOK /\ LinkTypeOK /\ LoadTypeOK /\ stack # <<>>
  BY DEF LoadingSound, LoadingApart, TypesOK, Visits, Running
<1>2. Len(stack) \in DOMAIN stack /\ Top = stack[Len(stack)]
  BY <1>1, TopOfStack
<1>3. <<Top.mod, Top.sym>> \in S
  BY <1>1, <1>2, ClosedHasCalls
<1>4. Top.mod \in Mods /\ Top.sym \in Syms
  BY <1>1, VisitTyped
<1>5. d \in Closure(Top.mod, Top.sym)
  BY VisitDeclared
<1>6. <<Top.mod, d>> \in S
  BY <1>1, <1>3, <1>4, <1>5, ClosedHasClosure
<1>7. QED
  BY <1>6 DEF Closed

(* A call that visited everything does not fail by itself.                   *)
LEMMA FinishSucceeds ==
  ASSUME LoadingSound, TypesOK', Batched', LoadedFirst', LoadedKept, RefusedAfterFailure,
         [Next]_vars, Finish, ~failed, ~Reentered, ~LocalLoaded
  PROVE  Usable(dylib'[Top.mod], Top.sym)
<1>1. TypesOK /\ LinkTypeOK /\ LoadTypeOK /\ stack # <<>> /\ ~aborted /\ Top.todo = {}
  BY DEF LoadingSound, LoadingApart, TypesOK, Finish, Running
<1>2. Len(stack) \in DOMAIN stack /\ Top = stack[Len(stack)] /\ Len(stack) \in Nat
  BY <1>1, TopOfStack
<1>3. Top \in Frame /\ Top.mod \in Mods /\ dylib'[Top.mod] = JitAdd(Top.mod, Top)
  BY <1>1, FinishDefines
<1>4. Top.sym \in Syms
  BY <1>3 DEF Frame
<1>5. PICK m \in Mods, s \in Syms, R \in SUBSET Syms :
        m = Top.mod /\ s = Top.sym /\ R = rtLoaded[m]
  BY <1>1, <1>3, <1>4 DEF LoadTypeOK
<1>6. s \in R
  <2>1. FrameCovered(Top)
    BY <1>2 DEF LoadingSound, FramesHold
  <2>2. s \in Closure(m, s)
    BY <1>1, ClosureClosed
  <2>3. QED
    BY <1>1, <1>5, <2>1, <2>2 DEF FrameCovered
<1>7. ASSUME NEW t \in R PROVE dylib'[m][t] # Absent
  <2>1. t \in Syms /\ ~Local(m, t)
    BY <1>5 DEF LocalLoaded
  <2>2. Kept(m, t)
    BY <1>1, <1>5, <2>1 DEF LoadedKept
  <2>3. CASE dylib[m][t] # Absent
    BY <2>1, <2>3, StepKeeps DEF LoadingSound
  <2>4. ASSUME NEW i \in DOMAIN stack, stack[i].mod = m, t \in Claimed(i)
        PROVE  dylib'[m][t] # Absent
    <3>1. i = Len(stack)
      BY <1>2, <1>5, <2>4 DEF Reentered
    <3>2. t \in Owned(Top)
      BY <1>2, <2>4, <3>1 DEF Claimed, Awaited
    <3>3. QED
      BY <1>1, <1>3, <1>5, <2>1, <3>2, JitAddOwned
  <2>5. ~Refused(m, t)
    BY DEF Refused, RefusedAfterFailure
  <2>6. QED
    BY <2>2, <2>3, <2>4, <2>5 DEF Kept
<1>8. PICK table \in [Syms -> Entry \cup {Absent}] : table = dylib'[m]
  BY DEF TypesOK, LoadTypeOK
<1>9. ASSUME NEW t \in R PROVE Needs(table)[t] \subseteq R
  <2>1. table[t] # Absent
    BY <1>7, <1>8
  <2>2. rtLoaded' = rtLoaded
    BY DEF Finish
  <2>3. dylib'[m][t].needs \subseteq rtLoaded'[m]
    BY <1>7, <1>9 DEF Batched, EntryBatched
  <2>4. QED
    BY <1>5, <1>8, <2>1, <2>2, <2>3 DEF Needs
<1>10. Reached(Needs(table), s) \subseteq R
  BY <1>6, <1>9, ReachedLeast
<1>11. Usable(table, s)
  BY <1>7, <1>8, <1>10 DEF Usable
<1>12. QED
  BY <1>5, <1>8, <1>11

LEMMA FirstFailure ==
  ASSUME LoadingSound, TypesOK', Batched', LoadedFirst', LoadedKept, RefusedAfterFailure,
         [Next]_vars, ~failed, failed', ~Reentered, ~LocalLoaded,
         NEW k \in Root, NEW S \in SUBSET (Mods \X Syms), k \in S, Closed(S)
  PROVE  FALSE
<1>1. TypesOK /\ LinkTypeOK /\ LoadTypeOK
  BY DEF LoadingSound, LoadingApart, TypesOK
<1>2. ASSUME NEW d \in Syms, Fresh(d)
      PROVE  /\ <<Top.mod, d>> \in S /\ Supplied(<<Top.mod, d>>)
             /\ Successors(<<Top.mod, d>>) \subseteq S
             /\ Declared(Top.mod, d) /\ (IsExtern(d) <=> ~Defined(Top.mod, d))
             /\ Top.mod \in Mods
  <2>1. Visits(d) /\ stack # <<>>
    BY <1>2 DEF Fresh, Visits, Running
  <2>2. k = <<stack[1].mod, stack[1].sym>>
    BY <2>1 DEF Root
  <2>3. QED
    BY <1>1, <2>1, <2>2, VisitSupplied, VisitDeclared, VisitTyped
<1>3. ASSUME NEW m \in Mods, NEW s \in Syms, GetSymbolAddress(m, s) PROVE FALSE
  <2>1. /\ ~Declared(m, s) /\ stack = <<>>
        /\ answers' = [j \in Mods \X Syms |-> IF j \in {<<m, s>>} THEN Null ELSE answers[j]]
    <3>1. Asked(<<>>) \cup {<<m, s>>} = {<<m, s>>}
      BY DEF Asked
    <3>2. stack = <<>> /\ Enter(m, s, <<>>)
      BY <1>3 DEF GetSymbolAddress, Between
    <3>3. ~Declared(m, s) /\ Fail(Asked(<<>>) \cup {<<m, s>>})
      BY <3>2 DEF Enter
    <3>4. QED
      BY <3>1, <3>2, <3>3 DEF Fail
  <2>2. k \in Mods \X Syms /\ answers'[k] = Null
    BY <2>1 DEF Root
  <2>3. k = <<m, s>>
    BY <2>1, <2>2 DEF RefusedAfterFailure
  <2>4. QED
    BY <2>1, <2>3 DEF Closed, Supplied
<1>4. ASSUME NEW d \in Syms, ResolveNothing(d) PROVE FALSE
  BY <1>2, <1>4, LinkingAssumption DEF ResolveNothing, Supplied, Source, Provider
<1>5. ASSUME NEW d \in Syms, ResolveInModule(d) PROVE FALSE
  <2>1. PICK n \in Mods : n = linkedMods[Top.mod][Provider(d)]
    BY <1>1, <1>5, VisitTyped DEF ResolveInModule, Fresh, LinkTypeOK, Provider
  <2>2. ~Declared(n, d)
    BY <1>5, <2>1 DEF ResolveInModule, Enter
  <2>3. Source(Top.mod, d) = n /\ n # Absent
    BY <1>5, <2>1, LinkingAssumption DEF ResolveInModule, Source, Provider
  <2>4. ~Defined(Top.mod, d) /\ Declared(Top.mod, d)
    BY <1>2, <1>5 DEF ResolveInModule
  <2>5. Successors(<<Top.mod, d>>) = {<<n, d>>}
    BY <2>3, <2>4 DEF Successors
  <2>6. <<n, d>> \in S
    BY <1>2, <1>5, <2>5 DEF ResolveInModule
  <2>7. QED
    BY <2>2, <2>6 DEF Closed, Supplied
<1>6. ASSUME NEW d \in Syms, ResolveInLibrary(d) PROVE FALSE
  <2>1. <<TranslateLib(CompilerOf[Top.mod], Provider(d)), d>> \notin LibSyms
    BY <1>6 DEF ResolveInLibrary
  <2>2. Source(Top.mod, d) = Absent
    BY <1>6 DEF ResolveInLibrary, Source, Provider
  <2>3. ~Defined(Top.mod, d) /\ Supplied(<<Top.mod, d>>)
    BY <1>2, <1>6 DEF ResolveInLibrary
  <2>4. QED
    BY <2>1, <2>2, <2>3 DEF Supplied, Provider
<1>7. CASE Finish
  <2>1. Usable(dylib'[Top.mod], Top.sym)
    BY <1>7, FinishSucceeds
  <2>2. failed' = failed
    <3>1. dylib'[Top.mod] = JitAdd(Top.mod, Top) /\ Top \in Frame /\ Top.mod \in Mods
      BY <1>1, <1>7, FinishDefines
    <3>2. PICK table \in [Syms -> Entry \cup {Absent}] : table = JitAdd(Top.mod, Top)
      BY <1>1, <3>1, JitAddTyped
    <3>3. Top.sym \in Syms
      BY <3>1 DEF Frame
    <3>4. table[Top.sym] \in Entry /\ Usable(table, Top.sym)
      BY <2>1, <3>1, <3>2, <3>3, JitLookupTyped
    <3>5. JitLookup(table, Top.sym) # Null
      BY <3>4, LoadingAssumption DEF JitLookup, Entry
    <3>6. QED
      BY <1>7, <3>2, <3>5 DEF Finish
  <2>3. QED
    BY <2>2
<1>8. QED
  BY <1>3, <1>4, <1>5, <1>6, <1>7
     DEF Next, LoadStep, LinkStep, AddLibraryAlias, SkipLoaded, LoadDefinition, vars, loadVars

(* The first request to fail, if no call re-enters a module that is being    *)
(* loaded and no local symbol was loaded before, is one for a symbol that    *)
(* nothing can resolve: something it needs has no provider.                  *)
THEOREM FirstFailuresJustified == Spec => FirstFailureJustified
<1>1. ASSUME LoadingSound, TypesOK', Batched', LoadedFirst', LoadedKept, RefusedAfterFailure,
             [Next]_vars, ~failed, failed', ~Reentered, ~LocalLoaded, NEW k \in Root
      PROVE  ~Resolvable(k)
  BY <1>1, FirstFailure DEF Resolvable, Closed
<1>2. LoadingSound /\ TypesOK' /\ Batched' /\ LoadedFirst' /\ LoadedKept /\ RefusedAfterFailure
        /\ [Next]_vars
        => [~failed /\ failed' /\ ~Reentered /\ ~LocalLoaded
              => \A k \in Root : ~Resolvable(k)]_vars
  BY <1>1
<1>3. LoadingSound => TypesOK /\ LoadedFirst
  BY DEF LoadingSound, LoadingApart
<1>4. QED
  BY <1>2, <1>3, LoadingSoundInvariant, BatchInvariant, LoadedKeptInvariant,
     RefusalsInvariant, PTL DEF Spec, FirstFailureJustified
=============================================================================
