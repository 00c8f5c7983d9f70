---------------------------- MODULE ModuleLinking ----------------------------
(***************************************************************************)
(* Modules of a Nickl session and the way they are linked to each other    *)
(* (nkl_core2/src/nickl.c and nickl_impl.c over nkb2/src/ir.c).            *)
(*                                                                         *)
(* A module owns a list of IR symbols (definitions and externs), a map     *)
(* extern_syms from a symbol to the module or library that provides it, a  *)
(* map linked_mods from a module name to the module, and the list          *)
(* mods_linked_to of the modules it has been linked into.  Linking is      *)
(* incremental: nkl_linkModule binds the symbols the source exports so     *)
(* far, and every later definition of the source is pushed to all the      *)
(* modules it is linked into.                                              *)
(*                                                                         *)
(* A call of nkl_linkModule, or of nickl_defineSymbol on a symbol that is  *)
(* visible to others, is a loop of nickl_linkSymbol calls.  The calls that *)
(* remain are the variable `pending`; one step runs one of them.           *)
(***************************************************************************)
EXTENDS Naturals, Sequences

CONSTANTS
  Mods,       (* the modules of the session                                *)
  Compilers,  (* the compilers that create them                            *)
  Syms,       (* symbol names                                              *)
  Names,      (* names of modules and of libraries: one space of atoms     *)
  NoName,     (* the null atom: an extern without a library                *)
  Absent,     (* no entry in a map                                         *)
  NameOf,     (* the name each module was created with                     *)
  CompilerOf, (* the compiler each module was created by                   *)
  Decls,      (* the symbols the sources compiled into a module can hold   *)
  MaxSyms,    (* bound: symbols compiled into one module                   *)
  MaxLinks    (* bound: links made from one module                         *)

(***************************************************************************)
(* An IR symbol.  A procedure and a data object differ only in where their *)
(* references are kept (operands or relocations), so both are "def".  The  *)
(* parser gives an extern no visibility at all.                            *)
(***************************************************************************)
Symbol == [name : Syms,
           kind : {"def", "extern"},
           vis  : {"default", "hidden", "local", "unknown"},
           lib  : Names \cup {NoName},
           refs : SUBSET Syms]

ASSUME LinkingAssumption ==
  /\ NameOf \in [Mods -> Names]
  /\ CompilerOf \in [Mods -> Compilers]
  /\ NoName \notin Names
  /\ Absent \notin Names \cup {NoName} \cup Mods
  /\ Decls \in [Mods -> SUBSET Symbol]
  /\ \A m \in Mods : \A d \in Decls[m] : d.kind = "extern" <=> d.vis = "unknown"
  /\ MaxSyms \in Nat
  /\ MaxLinks \in Nat

VARIABLES
  syms,        (* NkIrModule.syms: the symbols of a module, oldest first    *)
  externSyms,  (* NklModule.extern_syms: the provider of a symbol           *)
  linkedMods,  (* NklModule.linked_mods: the module linked under a name     *)
  linkedTo,    (* NklModule.mods_linked_to                                  *)
  op,          (* the call in progress                                      *)
  pending,     (* its nickl_linkSymbol calls that have not run yet          *)
  errors,      (* NklState.error, as the set of what was reported           *)
  failedLinks  (* the <<dst, src>> for which nkl_linkModule returned false  *)

linkVars == <<syms, externSyms, linkedMods, linkedTo,
              op, pending, errors, failedLinks>>

LinkCall == [dst : Mods, src : Mods, sym : Symbol]
Report   == [kind : {"mixed", "conflict", "redefined"}, dst : Mods, src : Mods,
             sym : Syms \cup {NoName}]

-----------------------------------------------------------------------------
(* nkir_findSymbol: the first symbol of that name.                           *)
Places(m, s)  == {i \in DOMAIN syms[m] : syms[m][i].name = s}
Declared(m, s) == Places(m, s) # {}
Find(m, s) == syms[m][CHOOSE i \in Places(m, s) : \A j \in Places(m, s) : i <= j]
Defined(m, s) == Declared(m, s) /\ Find(m, s).kind = "def"

(* The insertion of the session's maps: an existing entry is kept.           *)
InsertNew(map, key, val) == IF map[key] = Absent THEN [map EXCEPT ![key] = val] ELSE map

-----------------------------------------------------------------------------
LinkInit ==
  /\ syms        = [m \in Mods |-> <<>>]
  /\ externSyms  = [m \in Mods |-> [s \in Syms |-> Absent]]
  /\ linkedMods  = [m \in Mods |-> [n \in Names |-> Absent]]
  /\ linkedTo    = [m \in Mods |-> <<>>]
  /\ op          = "idle"
  /\ pending     = <<>>
  /\ errors      = {}
  /\ failedLinks = {}

(* A call whose loop has nothing to run is over at once.                     *)
Begin(what, calls) ==
  /\ pending' = calls
  /\ op' = IF calls = <<>> THEN "idle" ELSE what

(* Mutant: the new symbol is not pushed to the modules linked to.            *)
DefineSymbolUnpushed(m, d) ==
  /\ op = "idle"
  /\ Len(syms[m]) < MaxSyms
  /\ syms' = [syms EXCEPT ![m] = Append(@, d)]
  /\ externSyms' = IF d.kind = "extern"
                   THEN [externSyms EXCEPT ![m] = InsertNew(@, d.name, d.lib)]
                   ELSE externSyms
  /\ UNCHANGED <<linkedMods, linkedTo, op, pending, errors, failedLinks>>

(* nickl_defineSymbol, called by the parser for each symbol it has read.     *)
DefineSymbol(m, d) ==
  /\ op = "idle"
  /\ Len(syms[m]) < MaxSyms
  /\ syms' = [syms EXCEPT ![m] = Append(@, d)]
  /\ externSyms' = IF d.kind = "extern"
                   THEN [externSyms EXCEPT ![m] = InsertNew(@, d.name, d.lib)]
                   ELSE externSyms
  /\ Begin("define",
           IF d.kind = "def" /\ d.vis = "default"
           THEN [i \in 1..Len(linkedTo[m]) |-> [dst |-> linkedTo[m][i], src |-> m, sym |-> d]]
           ELSE <<>>)
  /\ UNCHANGED <<linkedMods, linkedTo, errors, failedLinks>>

(* nkl_linkModule up to its loop.  Modules of different compilers are        *)
(* reported and linked all the same.                                         *)
LinkModule(dst, src) ==
  /\ op = "idle"
  /\ Len(linkedTo[src]) < MaxLinks
  /\ errors' = IF CompilerOf[dst] # CompilerOf[src]
               THEN errors \cup {[kind |-> "mixed", dst |-> dst, src |-> src, sym |-> NoName]}
               ELSE errors
  /\ linkedMods' = [linkedMods EXCEPT ![dst] = InsertNew(@, NameOf[src], src)]
  /\ linkedTo' = [linkedTo EXCEPT ![src] = Append(@, dst)]
  /\ Begin("link",
           [i \in 1..Len(syms[src]) |-> [dst |-> dst, src |-> src, sym |-> syms[src][i]]])
  /\ UNCHANGED <<syms, externSyms, failedLinks>>

-----------------------------------------------------------------------------
(* The outcomes of nickl_linkSymbol for the next call of the loop.           *)
Call == Head(pending)

(* Mutants: the visibility is not tested; another provider is overwritten.   *)
ExportedAlways(d) == TRUE
TakenNever(call) == FALSE

Exported(d) == d.vis = "default"
Taken(call) == externSyms[call.dst][call.sym.name] \in Names \ {NameOf[call.src]}

(* Mutant: the call is not over with its loop.                               *)
ContinueBusy ==
  /\ pending' = Tail(pending)
  /\ UNCHANGED <<op, failedLinks>>

(* It returned true: the loop goes on.                                       *)
Continue ==
  /\ pending' = Tail(pending)
  /\ op' = IF Tail(pending) = <<>> THEN "idle" ELSE op
  /\ UNCHANGED failedLinks

(* Mutant: nkl_linkModule ignores the result too.                            *)
RefuseIgnored(kind) ==
  /\ errors' = errors \cup {[kind |-> kind, dst |-> Call.dst, src |-> Call.src,
                             sym |-> Call.sym.name]}
  /\ Continue

(* It returned false: nkl_linkModule returns false at once and leaves what   *)
(* it has done; nickl_defineSymbol ignores it.                               *)
Refuse(kind) ==
  /\ errors' = errors \cup {[kind |-> kind, dst |-> Call.dst, src |-> Call.src,
                             sym |-> Call.sym.name]}
  /\ \/ /\ op = "link"
        /\ pending' = <<>>
        /\ op' = "idle"
        /\ failedLinks' = failedLinks \cup {<<Call.dst, Call.src>>}
     \/ op = "define" /\ Continue

(* The symbol is not visible to other modules.                               *)
LinkHidden ==
  /\ pending # <<>> /\ ~Exported(Call.sym)
  /\ Continue
  /\ UNCHANGED <<syms, externSyms, linkedMods, linkedTo, errors>>

(* The destination already takes the symbol from another provider.           *)
LinkConflict ==
  /\ pending # <<>> /\ Exported(Call.sym) /\ Taken(Call)
  /\ Refuse("conflict")
  /\ UNCHANGED <<syms, externSyms, linkedMods, linkedTo>>

Bind == externSyms' = [externSyms EXCEPT ![Call.dst][Call.sym.name] = NameOf[Call.src]]

(* The binding is made before the destination is searched for a definition   *)
(* of its own, and stays when there is one.                                  *)
LinkRedefined ==
  /\ pending # <<>> /\ Exported(Call.sym) /\ ~Taken(Call)
  /\ Defined(Call.dst, Call.sym.name)
  /\ Bind
  /\ Refuse("redefined")
  /\ UNCHANGED <<syms, linkedMods, linkedTo>>

LinkBind ==
  /\ pending # <<>> /\ Exported(Call.sym) /\ ~Taken(Call)
  /\ ~Defined(Call.dst, Call.sym.name)
  /\ Bind
  /\ Continue
  /\ UNCHANGED <<syms, linkedMods, linkedTo, errors>>

LinkNext ==
  \/ \E m \in Mods : \E d \in Decls[m] : DefineSymbol(m, d)
  \/ \E dst, src \in Mods : LinkModule(dst, src)
  \/ LinkHidden
  \/ LinkConflict
  \/ LinkRedefined
  \/ LinkBind

LinkSpec == LinkInit /\ [][LinkNext]_linkVars

-----------------------------------------------------------------------------
(* Every variable keeps to its type.                                         *)
LinkTypeOK ==
  /\ syms \in [Mods -> Seq(Symbol)]
  /\ externSyms \in [Mods -> [Syms -> Names \cup {NoName, Absent}]]
  /\ linkedMods \in [Mods -> [Names -> Mods \cup {Absent}]]
  /\ linkedTo \in [Mods -> Seq(Mods)]
  /\ op \in {"idle", "link", "define"}
  /\ pending \in Seq(LinkCall)
  /\ op = "idle" <=> pending = <<>>
  /\ errors \subseteq Report
  /\ failedLinks \subseteq Mods \X Mods

Holds(m, d) == \E i \in DOMAIN syms[m] : syms[m][i] = d
LinkedTo(src, dst) == \E i \in DOMAIN linkedTo[src] : linkedTo[src][i] = dst
Exports(src, s) ==
  \E i \in DOMAIN syms[src] : syms[src][i].name = s /\ syms[src][i].vis = "default"
ExternDecl(m, s, lib) ==
  \E i \in DOMAIN syms[m] : /\ syms[m][i].name = s
                            /\ syms[m][i].kind = "extern"
                            /\ syms[m][i].lib = lib

(* A provider recorded in extern_syms is one somebody asked for: either an   *)
(* extern of the module names it, or it is the name of a module that was     *)
(* linked in and exports the symbol.  (nickl_linkSymbol writes a binding     *)
(* from a loop over the symbols of one module into the map of another.)      *)
BindingJustified ==
  \A m \in Mods, s \in Syms :
    LET b == externSyms[m][s] IN
      /\ b = NoName => ExternDecl(m, s, NoName)
      /\ b \in Names =>
           \/ ExternDecl(m, s, b)
           \/ \E src \in Mods : /\ NameOf[src] = b
                                /\ LinkedTo(src, m)
                                /\ Exports(src, s)

Reported(kind, dst, src, s) ==
  [kind |-> kind, dst |-> dst, src |-> src, sym |-> s] \in errors

(* Whatever the order of linking and defining, between calls every symbol an *)
(* exporting module shows to a module it was linked into is bound there: to  *)
(* that module, or to the provider an earlier declaration or link gave it,   *)
(* and then the conflict was reported or the destination itself names that   *)
(* provider.  Only a link that returned false may leave symbols behind.      *)
ExportsBound ==
  op = "idle" =>
    \A src, dst \in Mods, s \in Syms :
      LinkedTo(src, dst) /\ Exports(src, s) /\ <<dst, src>> \notin failedLinks =>
        \/ externSyms[dst][s] = NameOf[src]
        \/ externSyms[dst][s] \in Names /\ Reported("conflict", dst, src, s)

(* Linking implements the abstract table of providers: a binding, once it is *)
(* a name, survives every later link, extern and definition.                 *)
Providers ==
  INSTANCE ProviderTable WITH
    Keys <- Mods \X Syms, Providers <- Names, Unset <- Absent, Reserved <- NoName,
    table <- [k \in Mods \X Syms |-> externSyms[k[1]][k[2]]]
BindingsWrittenOnce == Providers!Spec

(* nkl_linkModule may be refused after it bound some of the symbols; what it *)
(* must never do is succeed when the destination defines an exported symbol  *)
(* itself.  The definitions counted are those present when the loop runs, so *)
(* a later definition of the destination is not seen.                        *)
RefusedWhenDefined ==
  [][\A src, dst \in Mods, s \in Syms :
       /\ op = "link" /\ op' = "idle" /\ Call.src = src /\ Call.dst = dst
       /\ Exports(src, s) /\ Defined(dst, s)
       => <<dst, src>> \in failedLinks']_linkVars
=============================================================================
