--------------------------- MODULE MCSymbolLoading ---------------------------
(***************************************************************************)
(* Two modules, linked in any order, also both ways.  The constant         *)
(* Scenario is one of                                                      *)
(*   load: mod0 defines foo, which calls bar and printf; mod1 defines bar, *)
(*         which calls printf and a local foo of its own.  printf comes    *)
(*         from a library in mod0, and mod1 takes it from mod0: resolving  *)
(*         foo comes back to mod0;                                         *)
(*   mutual_link, link_cycle: the tests of these names in                  *)
(*         nkl_core2/test/run_ir_test.cpp: foo (mod0) calls bar (mod1),    *)
(*         which calls baz (mod0), or foo again.  Both sides call printf   *)
(*         (puts) from the C library.  As in the tests, the client         *)
(*         compiles and links first, in any order, and then asks for       *)
(*         addresses.                                                      *)
(***************************************************************************)
EXTENDS SymbolLoading

CONSTANTS mod0, mod1, c1, foo, bar, baz, printf, n0, n1, libc, libcso, Scenario

MCMods == {mod0, mod1}
MCNames == {n0, n1, libc} \cup IF Scenario = "load" THEN {libcso} ELSE {}
MCNameOf == [m \in MCMods |-> IF m = mod0 THEN n0 ELSE n1]
MCCompilerOf == [m \in MCMods |-> c1]

Extern(s, lib) ==
  [name |-> s, kind |-> "extern", vis |-> "unknown", lib |-> lib, refs |-> {}]
Def(s, vis, refs) ==
  [name |-> s, kind |-> "def", vis |-> vis, lib |-> NoName, refs |-> refs]
Pub(s, refs) == Def(s, "default", refs)

Sources ==
  [load        |-> <<<<Extern(bar, NoName), Extern(printf, libc), Pub(foo, {bar, printf})>>,
                     <<Extern(printf, n0), Def(foo, "local", {printf}), Pub(bar, {foo, printf})>>>>,
   mutual_link |-> <<<<Extern(printf, libc), Extern(bar, NoName), Pub(foo, {printf, bar}), Pub(baz, {printf})>>,
                     <<Extern(printf, libc), Extern(baz, NoName), Pub(bar, {printf, baz})>>>>,
   link_cycle  |-> <<<<Extern(printf, libc), Extern(bar, NoName), Pub(foo, {printf, bar})>>,
                     <<Extern(printf, libc), Extern(foo, NoName), Pub(bar, {printf, foo})>>>>]
MCSource == [m \in MCMods |-> Sources[Scenario][IF m = mod0 THEN 1 ELSE 2]]
MCDecls == [m \in MCMods |-> {MCSource[m][i] : i \in DOMAIN MCSource[m]}]
MCLibSyms == {<<libc, printf>>} \cup IF Scenario = "load" THEN {<<libcso, printf>>} ELSE {}
MCAliases == {<<libc, libcso>>}

(* Bound: a module is compiled from one source, in the order of its text.    *)
InSourceOrder ==
  \A m \in MCMods : \A i \in DOMAIN syms[m] :
    i \in DOMAIN MCSource[m] /\ syms[m][i] = MCSource[m][i]

(* Bound: no module is linked to itself (MCModuleLinking has such links).    *)
NoSelfLink == \A m \in MCMods : ~LinkedTo(m, m)

(* In the tests: requests come after everything was compiled and linked.     *)
Ready == \A m \in MCMods : syms[m] = MCSource[m] /\ linkedTo[m] # <<>>
RequestsWhenReady ==
  stack # <<>> \/ (\E k \in Mods \X Syms : answers[k] # Absent) => Ready

(* What ASSERT_TRUE(foo) of the mutual_link test expects, whatever the       *)
(* hashes of the names are: a request for a symbol that has all it needs is  *)
(* not refused, if none was refused before.                                  *)
MutualLinkResolves ==
  [][~failed /\ failed' => \A k \in Root : ~Resolvable(k)]_vars
=============================================================================
