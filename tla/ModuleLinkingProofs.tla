------------------------- MODULE ModuleLinkingProofs -------------------------
(***************************************************************************)
(* Proofs about ModuleLinking, for every set of modules, names, sources    *)
(* and bounds.                                                             *)
(***************************************************************************)
EXTENDS ModuleLinking, TLAPS

USE LinkingAssumption

-----------------------------------------------------------------------------
(* The calls of a loop are link calls, whatever the loop runs over.          *)
LEMMA LinkLoopTyped ==
  ASSUME LinkTypeOK, NEW dst \in Mods, NEW src \in Mods
  PROVE  [i \in 1..Len(syms[src]) |-> [dst |-> dst, src |-> src, sym |-> syms[src][i]]]
           \in Seq(LinkCall)
  BY DEF LinkTypeOK, LinkCall

LEMMA DefineLoopTyped ==
  ASSUME LinkTypeOK, NEW m \in Mods, NEW d \in Symbol
  PROVE  [i \in 1..Len(linkedTo[m]) |-> [dst |-> linkedTo[m][i], src |-> m, sym |-> d]]
           \in Seq(LinkCall)
  BY DEF LinkTypeOK, LinkCall

(* The next call of a loop is a link call, and so are the calls after it.    *)
LEMMA CallTyped ==
  ASSUME LinkTypeOK, pending # <<>>
  PROVE  /\ Call \in LinkCall
         /\ Call = pending[1]
         /\ 1 \in DOMAIN pending
         /\ Tail(pending) \in Seq(LinkCall)
         /\ op # "idle"
  BY DEF LinkTypeOK, Call

LEMMA InsertNewTyped ==
  ASSUME NEW K, NEW V, NEW map \in [K -> V], NEW key \in K, NEW val \in V
  PROVE  InsertNew(map, key, val) \in [K -> V]
  BY DEF InsertNew

(* What a step does to the loop, the errors and the refused links is typed.  *)
LEMMA ContinueTyped ==
  ASSUME LinkTypeOK, pending # <<>>, Continue
  PROVE  /\ pending' \in Seq(LinkCall)
         /\ op' \in {"idle", "link", "define"}
         /\ op' = "idle" <=> pending' = <<>>
         /\ failedLinks' \subseteq Mods \X Mods
<1>1. Tail(pending) \in Seq(LinkCall) /\ op # "idle"
  BY CallTyped
<1>2. pending' = Tail(pending) /\ failedLinks' = failedLinks
  BY DEF Continue
<1>3. op' = IF pending' = <<>> THEN "idle" ELSE op
  BY <1>2 DEF Continue
<1>4. QED
  BY <1>1, <1>2, <1>3 DEF LinkTypeOK

LEMMA RefuseTyped ==
  ASSUME LinkTypeOK, pending # <<>>,
         NEW kind \in {"conflict", "redefined"}, Refuse(kind)
  PROVE  /\ pending' \in Seq(LinkCall)
         /\ op' \in {"idle", "link", "define"}
         /\ op' = "idle" <=> pending' = <<>>
         /\ failedLinks' \subseteq Mods \X Mods
         /\ errors' \subseteq Report
<1>1. errors' \subseteq Report
  <2>1. [kind |-> kind, dst |-> Call.dst, src |-> Call.src, sym |-> Call.sym.name] \in Report
    BY CallTyped DEF Report, LinkCall, Symbol
  <2>2. errors' = errors \cup {[kind |-> kind, dst |-> Call.dst, src |-> Call.src,
                                sym |-> Call.sym.name]}
    BY DEF Refuse
  <2>3. QED
    BY <2>1, <2>2 DEF LinkTypeOK
<1>2. CASE op = "define" /\ Continue
  BY <1>1, <1>2, ContinueTyped
<1>3. CASE /\ op = "link"
           /\ pending' = <<>>
           /\ op' = "idle"
           /\ failedLinks' = failedLinks \cup {<<Call.dst, Call.src>>}
  <2>1. <<Call.dst, Call.src>> \in Mods \X Mods
    BY CallTyped DEF LinkCall
  <2>2. <<>> \in Seq(LinkCall)
    OBVIOUS
  <2>3. QED
    BY <1>1, <1>3, <2>1, <2>2 DEF LinkTypeOK
<1>4. QED
  BY <1>2, <1>3 DEF Refuse

(* Type correctness of linking, as an invariant of the specification.        *)
THEOREM LinkTypeInvariant == LinkSpec => []LinkTypeOK
<1>1. LinkInit => LinkTypeOK
  BY DEF LinkInit, LinkTypeOK
<1>2. LinkTypeOK /\ [LinkNext]_linkVars => LinkTypeOK'
  <2> SUFFICES ASSUME LinkTypeOK, [LinkNext]_linkVars PROVE LinkTypeOK'
    OBVIOUS
  <2>1. ASSUME NEW m \in Mods, NEW d \in Decls[m], DefineSymbol(m, d)
        PROVE  LinkTypeOK'
    <3>1. d \in Symbol
      OBVIOUS
    <3>2. syms' \in [Mods -> Seq(Symbol)]
      BY <2>1, <3>1 DEF LinkTypeOK, DefineSymbol
    <3>3. externSyms' \in [Mods -> [Syms -> Names \cup {NoName, Absent}]]
      <4>1. InsertNew(externSyms[m], d.name, d.lib) \in [Syms -> Names \cup {NoName, Absent}]
        BY <3>1, InsertNewTyped DEF LinkTypeOK, Symbol
      <4>2. QED
        BY <2>1, <4>1 DEF LinkTypeOK, DefineSymbol
    <3>4. pending' \in Seq(LinkCall) /\ op' \in {"idle", "link", "define"}
                                     /\ (op' = "idle" <=> pending' = <<>>)
      <4>1. <<>> \in Seq(LinkCall)
        OBVIOUS
      <4>2. QED
        BY <2>1, <3>1, <4>1, DefineLoopTyped DEF DefineSymbol, Begin
    <3>5. QED
      BY <2>1, <3>2, <3>3, <3>4 DEF LinkTypeOK, DefineSymbol
  <2>2. ASSUME NEW dst \in Mods, NEW src \in Mods, LinkModule(dst, src)
        PROVE  LinkTypeOK'
    <3>1. linkedMods' \in [Mods -> [Names -> Mods \cup {Absent}]]
      <4>1. InsertNew(linkedMods[dst], NameOf[src], src) \in [Names -> Mods \cup {Absent}]
        BY InsertNewTyped DEF LinkTypeOK
      <4>2. QED
        BY <2>2, <4>1 DEF LinkTypeOK, LinkModule
    <3>2. linkedTo' \in [Mods -> Seq(Mods)]
      BY <2>2 DEF LinkTypeOK, LinkModule
    <3>3. pending' \in Seq(LinkCall) /\ op' \in {"idle", "link", "define"}
                                     /\ (op' = "idle" <=> pending' = <<>>)
      BY <2>2, LinkLoopTyped DEF LinkModule, Begin
    <3>4. errors' \subseteq Report
      BY <2>2 DEF LinkTypeOK, LinkModule, Report
    <3>5. QED
      BY <2>2, <3>1, <3>2, <3>3, <3>4 DEF LinkTypeOK, LinkModule
  <2>3. CASE LinkHidden
    BY <2>3, ContinueTyped DEF LinkTypeOK, LinkHidden
  <2>4. CASE LinkConflict
    BY <2>4, RefuseTyped DEF LinkTypeOK, LinkConflict
  <2>5. ASSUME pending # <<>>, Bind
        PROVE  externSyms' \in [Mods -> [Syms -> Names \cup {NoName, Absent}]]
    BY <2>5, CallTyped DEF LinkTypeOK, Bind, LinkCall, Symbol
  <2>6. CASE LinkRedefined
    BY <2>5, <2>6, RefuseTyped DEF LinkTypeOK, LinkRedefined
  <2>7. CASE LinkBind
    BY <2>5, <2>7, ContinueTyped DEF LinkTypeOK, LinkBind
  <2>8. CASE UNCHANGED linkVars
    BY <2>8 DEF LinkTypeOK, linkVars
  <2>9. QED
    BY <2>1, <2>2, <2>3, <2>4, <2>6, <2>7, <2>8 DEF LinkNext
<1>3. QED
  BY <1>1, <1>2, PTL DEF LinkSpec

-----------------------------------------------------------------------------
(* Every call of a loop is for a link that was made and a symbol that its    *)
(* source holds, and a loop of nkl_linkModule stays with one pair.           *)
CallsJustified ==
  \A i \in DOMAIN pending :
    /\ LinkedTo(pending[i].src, pending[i].dst)
    /\ Holds(pending[i].src, pending[i].sym)
    /\ op = "link" => /\ pending[i].src = pending[1].src
                      /\ pending[i].dst = pending[1].dst

(* Lists of symbols and of links only grow.                                  *)
LEMMA Growth ==
  ASSUME LinkTypeOK, [LinkNext]_linkVars
  PROVE  /\ \A m \in Mods, d \in Symbol : Holds(m, d) => Holds(m, d)'
         /\ \A src, dst \in Mods : LinkedTo(src, dst) => LinkedTo(src, dst)'
         /\ \A src \in Mods, s \in Syms : Exports(src, s) => Exports(src, s)'
         /\ \A m \in Mods, s \in Syms, lib \in Names \cup {NoName} :
              ExternDecl(m, s, lib) => ExternDecl(m, s, lib)'
<1>1. \A m \in Mods : /\ Len(syms[m]) \in Nat
                      /\ DOMAIN syms[m] = 1..Len(syms[m])
                      /\ Len(linkedTo[m]) \in Nat
                      /\ DOMAIN linkedTo[m] = 1..Len(linkedTo[m])
  BY DEF LinkTypeOK
<1>2. \A m \in Mods : /\ DOMAIN syms[m] \subseteq DOMAIN syms'[m]
                      /\ \A i \in DOMAIN syms[m] : syms'[m][i] = syms[m][i]
  <2>1. ASSUME NEW n \in Mods, NEW d \in Decls[n], DefineSymbol(n, d), NEW m \in Mods
        PROVE  /\ DOMAIN syms[m] \subseteq DOMAIN syms'[m]
               /\ \A i \in DOMAIN syms[m] : syms'[m][i] = syms[m][i]
    BY <2>1, <1>1 DEF DefineSymbol, LinkTypeOK
  <2>2. QED
    BY <2>1 DEF LinkNext, linkVars, LinkModule, LinkHidden, LinkConflict, LinkRedefined, LinkBind
<1>3. \A m \in Mods : /\ DOMAIN linkedTo[m] \subseteq DOMAIN linkedTo'[m]
                      /\ \A i \in DOMAIN linkedTo[m] : linkedTo'[m][i] = linkedTo[m][i]
  <2>1. ASSUME NEW dst \in Mods, NEW src \in Mods, LinkModule(dst, src), NEW m \in Mods
        PROVE  /\ DOMAIN linkedTo[m] \subseteq DOMAIN linkedTo'[m]
               /\ \A i \in DOMAIN linkedTo[m] : linkedTo'[m][i] = linkedTo[m][i]
    <3>1. /\ linkedTo \in [Mods -> Seq(Mods)]
          /\ linkedTo' = [linkedTo EXCEPT ![src] = Append(linkedTo[src], dst)]
      BY <2>1, <1>1 DEF LinkModule, LinkTypeOK
    <3>2. linkedTo[src] \in Seq(Mods) /\ linkedTo[m] \in Seq(Mods)
      BY <3>1
    <3>3. CASE m = src
      <4>1. linkedTo'[m] = Append(linkedTo[src], dst)
        BY <3>1, <3>3
      <4>2. QED
        BY <3>2, <3>3, <4>1
    <3>4. CASE m # src
      BY <3>1, <3>4
    <3>5. QED
      BY <3>3, <3>4
  <2>2. QED
    BY <2>1 DEF LinkNext, linkVars, DefineSymbol, LinkHidden, LinkConflict, LinkRedefined, LinkBind
<1>4. QED
  BY <1>2, <1>3 DEF Holds, LinkedTo, Exports, ExternDecl

(* The calls that remain after one has run were there before it.             *)
LEMMA CallsShift ==
  ASSUME LinkTypeOK, pending # <<>>, Continue
  PROVE  \A i \in DOMAIN pending' :
           i + 1 \in DOMAIN pending /\ pending'[i] = pending[i + 1]
  BY CallTyped DEF Continue, LinkTypeOK

LEMMA CallsJustifiedStep ==
  ASSUME LinkTypeOK, LinkTypeOK', CallsJustified, [LinkNext]_linkVars
  PROVE  CallsJustified'
<1>1. ASSUME NEW m \in Mods, NEW d \in Decls[m], DefineSymbol(m, d)
      PROVE  CallsJustified'
  <2>1. d \in Symbol
    OBVIOUS
  <2>2. Holds(m, d)'
    <3>1. syms'[m][Len(syms[m]) + 1] = d /\ Len(syms[m]) + 1 \in DOMAIN syms'[m]
      BY <1>1, <2>1 DEF DefineSymbol, LinkTypeOK
    <3>2. QED
      BY <3>1 DEF Holds
  <2>3. CASE pending' = <<>>
    BY <2>3 DEF CallsJustified
  <2>4. CASE pending' # <<>>
    <3>1. /\ pending' = [i \in 1..Len(linkedTo[m]) |->
                           [dst |-> linkedTo[m][i], src |-> m, sym |-> d]]
          /\ op' = "define"
          /\ linkedTo' = linkedTo
      BY <1>1, <2>4 DEF DefineSymbol, Begin
    <3>2. ASSUME NEW i \in DOMAIN pending'
          PROVE  LinkedTo(pending[i].src, pending[i].dst)' /\ Holds(pending[i].src, pending[i].sym)'
      <4>1. i \in DOMAIN linkedTo[m] /\ pending'[i].src = m /\ pending'[i].sym = d
            /\ pending'[i].dst = linkedTo[m][i]
        BY <3>1, <3>2 DEF LinkTypeOK
      <4>2. QED
        BY <4>1, <3>1, <2>2 DEF LinkedTo
    <3>3. QED
      BY <3>1, <3>2 DEF CallsJustified
  <2>5. QED
    BY <2>3, <2>4
<1>2. ASSUME NEW dst \in Mods, NEW src \in Mods, LinkModule(dst, src)
      PROVE  CallsJustified'
  <2>1. /\ pending' = [i \in 1..Len(syms[src]) |->
                         [dst |-> dst, src |-> src, sym |-> syms[src][i]]]
        /\ syms' = syms
        /\ linkedTo' = [linkedTo EXCEPT ![src] = Append(@, dst)]
    BY <1>2 DEF LinkModule, Begin
  <2>2. LinkedTo(src, dst)'
    <3>1. linkedTo'[src][Len(linkedTo[src]) + 1] = dst
          /\ Len(linkedTo[src]) + 1 \in DOMAIN linkedTo'[src]
      BY <2>1 DEF LinkTypeOK
    <3>2. QED
      BY <3>1 DEF LinkedTo
  <2>3. ASSUME NEW i \in DOMAIN pending'
        PROVE  /\ pending'[i].src = src /\ pending'[i].dst = dst
               /\ Holds(pending[i].src, pending[i].sym)'
               /\ 1 \in DOMAIN pending'
    <3>1. Len(syms[src]) \in Nat /\ DOMAIN syms[src] = 1..Len(syms[src])
      BY DEF LinkTypeOK
    <3>2. i \in DOMAIN syms[src] /\ pending'[i].sym = syms[src][i]
          /\ pending'[i].src = src /\ pending'[i].dst = dst
      BY <2>1, <2>3, <3>1
    <3>3. 1 \in DOMAIN pending'
      BY <2>1, <3>1, <3>2
    <3>4. QED
      BY <2>1, <3>2, <3>3 DEF Holds
  <2>4. QED
    BY <2>2, <2>3 DEF CallsJustified
<1>3. ASSUME pending # <<>>, Continue
      PROVE  CallsJustified'
  <2>1. ASSUME NEW i \in DOMAIN pending'
        PROVE  /\ LinkedTo(pending[i].src, pending[i].dst)'
               /\ Holds(pending[i].src, pending[i].sym)'
    <3>1. i + 1 \in DOMAIN pending /\ pending'[i] = pending[i + 1]
      BY <1>3, <2>1, CallsShift
    <3>2. pending[i + 1] \in LinkCall
      BY <3>1 DEF LinkTypeOK
    <3>3. LinkedTo(pending[i + 1].src, pending[i + 1].dst)
          /\ Holds(pending[i + 1].src, pending[i + 1].sym)
      BY <3>1 DEF CallsJustified
    <3>4. (\E j \in DOMAIN linkedTo'[pending[i + 1].src] :
             linkedTo'[pending[i + 1].src][j] = pending[i + 1].dst)
          /\ (\E j \in DOMAIN syms'[pending[i + 1].src] :
                syms'[pending[i + 1].src][j] = pending[i + 1].sym)
      BY <3>2, <3>3, Growth DEF LinkedTo, Holds, LinkCall
    <3>5. QED
      BY <3>1, <3>4 DEF LinkedTo, Holds
  <2>2. CASE pending' = <<>>
    BY <2>2 DEF CallsJustified
  <2>3. CASE pending' # <<>>
    <3>1. op' = op /\ 1 \in DOMAIN pending'
      BY <1>3, <2>3 DEF Continue, LinkTypeOK
    <3>2. ASSUME NEW i \in DOMAIN pending', op = "link"
          PROVE  pending'[i].src = pending[1].src /\ pending'[i].dst = pending[1].dst
      BY <1>3, <3>2, CallsShift DEF CallsJustified
    <3>3. QED
      BY <2>1, <3>1, <3>2 DEF CallsJustified
  <2>4. QED
    BY <2>2, <2>3
<1>4. ASSUME pending # <<>>, NEW kind, Refuse(kind)
      PROVE  CallsJustified'
  <2>1. CASE pending' = <<>>
    BY <2>1 DEF CallsJustified
  <2>2. QED
    BY <1>3, <1>4, <2>1 DEF Refuse
<1>5. CASE UNCHANGED linkVars
  BY <1>5 DEF linkVars, CallsJustified, LinkedTo, Holds
<1>6. QED
  BY <1>1, <1>2, <1>3, <1>4, <1>5
     DEF LinkNext, LinkHidden, LinkConflict, LinkRedefined, LinkBind

-----------------------------------------------------------------------------
(* The symbol of a call that binds is exported by its source.                *)
LEMMA CallExports ==
  ASSUME LinkTypeOK, CallsJustified, pending # <<>>, Exported(Call.sym)
  PROVE  LinkedTo(Call.src, Call.dst) /\ Exports(Call.src, Call.sym.name)
<1>1. 1 \in DOMAIN pending /\ Call = pending[1] /\ Call \in LinkCall
  BY CallTyped
<1>2. LinkedTo(Call.src, Call.dst) /\ Holds(Call.src, Call.sym)
  BY <1>1 DEF CallsJustified
<1>3. QED
  BY <1>2 DEF Holds, Exports, Exported

(* The justification of a provider, which no later step takes away.          *)
Justified(m, s, b) ==
  /\ b = NoName => ExternDecl(m, s, NoName)
  /\ b \in Names => \/ ExternDecl(m, s, b)
                    \/ \E src \in Mods : /\ NameOf[src] = b
                                         /\ LinkedTo(src, m)
                                         /\ Exports(src, s)

LEMMA JustifiedKept ==
  ASSUME LinkTypeOK, [LinkNext]_linkVars,
         NEW m \in Mods, NEW s \in Syms, NEW b, Justified(m, s, b)
  PROVE  Justified(m, s, b)'
<1>1. CASE b = NoName
  BY <1>1, Growth DEF Justified
<1>2. CASE b \in Names
  <2>1. CASE ExternDecl(m, s, b)
    BY <1>2, <2>1, Growth DEF Justified
  <2>2. CASE \E src \in Mods : NameOf[src] = b /\ LinkedTo(src, m) /\ Exports(src, s)
    <3>1. \E src \in Mods : NameOf[src] = b /\ LinkedTo(src, m)' /\ Exports(src, s)'
      BY <2>2, Growth
    <3>2. QED
      BY <1>2, <3>1 DEF Justified
  <2>3. QED
    BY <1>2, <2>1, <2>2 DEF Justified
<1>3. QED
  BY <1>1, <1>2 DEF Justified

(* A step writes the provider of at most one symbol, and then it writes one  *)
(* that it can justify.                                                      *)
LEMMA WrittenJustified ==
  ASSUME LinkTypeOK, CallsJustified, [LinkNext]_linkVars,
         NEW m \in Mods, NEW s \in Syms, externSyms'[m][s] # externSyms[m][s]
  PROVE  Justified(m, s, externSyms[m][s])'
<1>1. ASSUME NEW n \in Mods, NEW d \in Decls[n], DefineSymbol(n, d)
      PROVE  Justified(m, s, externSyms[m][s])'
  <2>1. d \in Symbol
    OBVIOUS
  <2>2. d.kind = "extern" /\ n = m /\ d.name = s /\ externSyms'[m][s] = d.lib
    BY <1>1, <2>1 DEF DefineSymbol, InsertNew, LinkTypeOK, Symbol
  <2>3. syms'[m][Len(syms[m]) + 1] = d /\ Len(syms[m]) + 1 \in DOMAIN syms'[m]
    BY <1>1, <2>1, <2>2 DEF DefineSymbol, LinkTypeOK
  <2>4. \E i \in DOMAIN syms'[m] : /\ syms'[m][i].name = s
                                   /\ syms'[m][i].kind = "extern"
                                   /\ syms'[m][i].lib = d.lib
    BY <2>2, <2>3
  <2>5. QED
    BY <2>1, <2>2, <2>4 DEF Justified, ExternDecl
<1>2. ASSUME pending # <<>>, Exported(Call.sym), Bind,
             linkedTo' = linkedTo, syms' = syms
      PROVE  Justified(m, s, externSyms[m][s])'
  <2>1. m = Call.dst /\ s = Call.sym.name /\ externSyms'[m][s] = NameOf[Call.src]
    BY <1>2, CallTyped DEF Bind, LinkTypeOK, LinkCall, Symbol
  <2>2. LinkedTo(Call.src, m) /\ Exports(Call.src, s) /\ Call.src \in Mods
    BY <1>2, <2>1, CallExports, CallTyped DEF LinkCall
  <2>3. \E src \in Mods : NameOf[src] = externSyms'[m][s]
                         /\ LinkedTo(src, m) /\ Exports(src, s)
    BY <2>1, <2>2
  <2>4. \E src \in Mods : NameOf[src] = externSyms'[m][s]
                         /\ LinkedTo(src, m)' /\ Exports(src, s)'
    BY <2>3, Growth
  <2>5. QED
    BY <2>1, <2>2, <2>4 DEF Justified
<1>3. QED
  BY <1>1, <1>2 DEF LinkNext, linkVars, LinkModule, LinkHidden, LinkConflict,
                    LinkRedefined, LinkBind

(* A provider recorded in extern_syms is one that an extern of the module    *)
(* names, or a module that was linked in and exports the symbol.             *)
THEOREM BindingsJustified == LinkSpec => []BindingJustified
<1>1. LinkInit => CallsJustified /\ BindingJustified
  BY DEF LinkInit, CallsJustified, BindingJustified
<1>2. LinkTypeOK /\ LinkTypeOK' /\ CallsJustified /\ BindingJustified /\ [LinkNext]_linkVars
        => CallsJustified' /\ BindingJustified'
  <2> SUFFICES ASSUME LinkTypeOK, LinkTypeOK', CallsJustified, BindingJustified,
                      [LinkNext]_linkVars
               PROVE  CallsJustified' /\ BindingJustified'
    OBVIOUS
  <2>1. ASSUME NEW m \in Mods, NEW s \in Syms
        PROVE  Justified(m, s, externSyms[m][s])'
    <3>1. CASE externSyms'[m][s] = externSyms[m][s]
      <4>1. Justified(m, s, externSyms[m][s])
        BY DEF BindingJustified, Justified
      <4>2. ASSUME NEW b, Justified(m, s, b) PROVE Justified(m, s, b)'
        BY <4>2, JustifiedKept
      <4>3. QED
        BY <3>1, <4>1, <4>2 DEF Justified
    <3>2. CASE externSyms'[m][s] # externSyms[m][s]
      BY <3>2, WrittenJustified
    <3>3. QED
      BY <3>1, <3>2
  <2>2. QED
    BY <2>1, CallsJustifiedStep DEF BindingJustified, Justified
<1>3. QED
  BY <1>1, <1>2, LinkTypeInvariant, PTL DEF LinkSpec

-----------------------------------------------------------------------------
(* The table of providers as ProviderTable sees it.                          *)
Table == [k \in Mods \X Syms |-> externSyms[k[1]][k[2]]]

(* One entry of extern_syms is one entry of the table.                       *)
LEMMA TableWrite ==
  ASSUME NEW key \in Mods \X Syms, NEW p,
         \A k \in Mods \X Syms :
           externSyms'[k[1]][k[2]] = IF k = key THEN p ELSE externSyms[k[1]][k[2]]
  PROVE  Table' = [Table EXCEPT ![key] = p]
  BY DEF Table

(* Every binding the linker makes is one the abstract table allows: nobody   *)
(* takes a symbol away from the provider that has it.                        *)
LEMMA BindRefines ==
  ASSUME LinkTypeOK, pending # <<>>, ~Taken(Call), Bind
  PROVE  [Providers!Next]_Table
<1> DEFINE k == <<Call.dst, Call.sym.name>>
           p == NameOf[Call.src]
<1>1. /\ Call.dst \in Mods /\ Call.sym.name \in Syms
      /\ p \in Names /\ k \in Mods \X Syms
  BY CallTyped DEF LinkCall, Symbol
<1>2. Table[k] = externSyms[Call.dst][Call.sym.name]
  BY <1>1 DEF Table
<1>3. Table' = [Table EXCEPT ![k] = p]
  <2>1. \A x \in Mods \X Syms :
          externSyms'[x[1]][x[2]] = IF x = k THEN p ELSE externSyms[x[1]][x[2]]
    BY <1>1 DEF Bind, LinkTypeOK
  <2>2. QED
    BY <1>1, <2>1, TableWrite
<1>4. Table[k] \in {Absent, NoName, p}
  BY <1>1, <1>2 DEF Taken, LinkTypeOK
<1>5. CASE Table[k] = p
  BY <1>3, <1>5, Table' = Table DEF Table
<1>6. CASE Table[k] \in {Absent, NoName}
  <2>1. \E x \in Mods \X Syms : \E q \in Names :
          Table[x] \in {Absent, NoName} /\ Table' = [Table EXCEPT ![x] = q]
    BY <1>1, <1>3, <1>6, Zenon
  <2>2. QED
    BY <2>1 DEF Providers!Next, Providers!Bind, Table
<1>7. QED
  BY <1>4, <1>5, <1>6

(* Linking implements the write-once table of providers.                     *)
THEOREM LinkingRefinesProviderTable == LinkSpec => BindingsWrittenOnce
<1>1. LinkInit => Providers!Init
  BY DEF LinkInit, Providers!Init
<1>2. LinkTypeOK /\ [LinkNext]_linkVars => [Providers!Next]_Table
  <2> SUFFICES ASSUME LinkTypeOK, [LinkNext]_linkVars PROVE [Providers!Next]_Table
    OBVIOUS
  <2>1. ASSUME externSyms' = externSyms
        PROVE  Table' = Table
    BY <2>1 DEF Table
  <2>2. ASSUME NEW m \in Mods, NEW d \in Decls[m], DefineSymbol(m, d)
        PROVE  [Providers!Next]_Table
    <3>1. d \in Symbol
      OBVIOUS
    <3>2. d.name \in Syms /\ d.lib \in Names \cup {NoName}
      BY <3>1 DEF Symbol
    <3>3. CASE d.kind = "def" \/ externSyms[m][d.name] # Absent
      BY <2>1, <2>2, <3>1, <3>3 DEF DefineSymbol, InsertNew, LinkTypeOK, Symbol
    <3>4. CASE d.kind = "extern" /\ externSyms[m][d.name] = Absent
      <4>1. externSyms' = [externSyms EXCEPT ![m][d.name] = d.lib]
        BY <2>2, <3>2, <3>4 DEF DefineSymbol, InsertNew, LinkTypeOK
      <4>2. Table' = [Table EXCEPT ![<<m, d.name>>] = d.lib]
        <5>1. \A x \in Mods \X Syms :
                externSyms'[x[1]][x[2]] =
                  IF x = <<m, d.name>> THEN d.lib ELSE externSyms[x[1]][x[2]]
          BY <3>2, <4>1 DEF LinkTypeOK
        <5>2. <<m, d.name>> \in Mods \X Syms
          BY <3>2
        <5>3. QED
          BY <5>1, <5>2, TableWrite
      <4>3. <<m, d.name>> \in Mods \X Syms /\ Table[<<m, d.name>>] = Absent
        BY <3>2, <3>4 DEF Table
      <4>4. CASE d.lib = NoName
        BY <4>2, <4>3, <4>4 DEF Providers!Next, Providers!Reserve, Table
      <4>5. CASE d.lib \in Names
        BY <4>2, <4>3, <4>5 DEF Providers!Next, Providers!Bind, Table
      <4>6. QED
        BY <3>2, <4>4, <4>5
    <3>5. QED
      BY <3>1, <3>3, <3>4 DEF Symbol
  <2>3. CASE LinkRedefined \/ LinkBind
    BY <2>3, BindRefines DEF LinkRedefined, LinkBind
  <2>4. QED
    BY <2>1, <2>2, <2>3 DEF LinkNext, linkVars, LinkModule, LinkHidden, LinkConflict
<1>3. QED
  BY <1>1, <1>2, LinkTypeInvariant, PTL DEF LinkSpec, BindingsWrittenOnce, Providers!Spec, Table

-----------------------------------------------------------------------------
(* While a loop runs, an exported symbol is settled in the destination or    *)
(* its call is still to come.                                                *)
Settled(dst, src, s) ==
  \/ externSyms[dst][s] = NameOf[src]
  \/ externSyms[dst][s] \in Names /\ Reported("conflict", dst, src, s)
Coming(dst, src, s) ==
  \E i \in DOMAIN pending : /\ pending[i].dst = dst
                            /\ pending[i].src = src
                            /\ pending[i].sym.name = s
                            /\ Exported(pending[i].sym)
ExportsCovered ==
  \A src, dst \in Mods, s \in Syms :
    LinkedTo(src, dst) /\ Exports(src, s) /\ <<dst, src>> \notin failedLinks
      => Settled(dst, src, s) \/ Coming(dst, src, s)

(* What is settled stays settled.                                            *)
LEMMA SettledKept ==
  ASSUME LinkTypeOK, [LinkNext]_linkVars,
         NEW dst \in Mods, NEW src \in Mods, NEW s \in Syms, Settled(dst, src, s)
  PROVE  Settled(dst, src, s)'
<1>1. externSyms[dst][s] \in Names
  BY DEF Settled
<1>2. externSyms'[dst][s] = externSyms[dst][s]
  <2>1. ASSUME NEW m \in Mods, NEW d \in Decls[m], DefineSymbol(m, d)
        PROVE  externSyms'[dst][s] = externSyms[dst][s]
    <3>1. d \in Symbol
      OBVIOUS
    <3>2. QED
      BY <1>1, <2>1, <3>1 DEF DefineSymbol, InsertNew, LinkTypeOK, Symbol
  <2>2. ASSUME pending # <<>>, ~Taken(Call), Bind
        PROVE  externSyms'[dst][s] = externSyms[dst][s]
    BY <1>1, <2>2, CallTyped DEF Taken, Bind, LinkTypeOK, LinkCall, Symbol
  <2>3. QED
    BY <2>1, <2>2 DEF LinkNext, linkVars, LinkModule, LinkHidden, LinkConflict,
                      LinkRedefined, LinkBind
<1>3. errors \subseteq errors'
  BY DEF LinkNext, linkVars, DefineSymbol, LinkModule, LinkHidden, LinkConflict,
         LinkRedefined, LinkBind, Refuse
<1>4. QED
  BY <1>2, <1>3 DEF Settled, Reported

(* The calls after the next one are still to come when it has run.           *)
LEMMA ContinueCovers ==
  ASSUME LinkTypeOK, pending # <<>>, Continue,
         NEW dst \in Mods, NEW src \in Mods, NEW s \in Syms, Coming(dst, src, s),
         ~(/\ Exported(Call.sym) /\ Call.dst = dst
           /\ Call.src = src /\ Call.sym.name = s)
  PROVE  Coming(dst, src, s)'
<1>1. PICK i \in DOMAIN pending : /\ pending[i].dst = dst
                                 /\ pending[i].src = src
                                 /\ pending[i].sym.name = s
                                 /\ Exported(pending[i].sym)
  BY DEF Coming
<1>2. i # 1
  BY <1>1, CallTyped
<1>3. i - 1 \in DOMAIN pending' /\ pending'[i - 1] = pending[i]
  BY <1>1, <1>2 DEF Continue, LinkTypeOK
<1>4. QED
  BY <1>1, <1>3 DEF Coming, Exported

LEMMA ExportsCoveredStep ==
  ASSUME LinkTypeOK, CallsJustified, ExportsCovered, [LinkNext]_linkVars
  PROVE  ExportsCovered'
<1> SUFFICES ASSUME NEW src \in Mods, NEW dst \in Mods, NEW s \in Syms,
                    LinkedTo(src, dst)', Exports(src, s)', <<dst, src>> \notin failedLinks',
                    ~Settled(dst, src, s)'
             PROVE  Coming(dst, src, s)'
  BY DEF ExportsCovered
<1>1. ~Settled(dst, src, s)
  BY SettledKept
<1>2. ASSUME pending = <<>> PROVE ~Coming(dst, src, s)
  BY <1>2 DEF Coming
<1>3. ASSUME NEW m \in Mods, NEW d \in Decls[m], DefineSymbol(m, d)
      PROVE  Coming(dst, src, s)'
  <2>1. d \in Symbol /\ pending = <<>> /\ linkedTo' = linkedTo /\ failedLinks' = failedLinks
    BY <1>3 DEF DefineSymbol, LinkTypeOK
  <2>2. LinkedTo(src, dst)
    BY <2>1 DEF LinkedTo
  <2>3. ~Exports(src, s)
    BY <1>1, <1>2, <2>1, <2>2 DEF ExportsCovered
  <2>4. src = m /\ d.name = s /\ d.vis = "default" /\ d.kind = "def"
    <3>1. PICK j \in DOMAIN syms'[src] : syms'[src][j].name = s /\ syms'[src][j].vis = "default"
      BY DEF Exports
    <3>2. ~(j \in DOMAIN syms[src] /\ syms'[src][j] = syms[src][j])
      BY <2>3, <3>1 DEF Exports
    <3>3. src = m /\ syms'[src][j] = d
      BY <1>3, <2>1, <3>1, <3>2 DEF DefineSymbol, LinkTypeOK
    <3>4. QED
      BY <2>1, <3>1, <3>3 DEF Symbol
  <2>5. pending' = [i \in 1..Len(linkedTo[m]) |->
                     [dst |-> linkedTo[m][i], src |-> m, sym |-> d]]
    BY <1>3, <2>4 DEF DefineSymbol, Begin
  <2>6. PICK i \in 1..Len(linkedTo[m]) : linkedTo[m][i] = dst
    BY <2>2, <2>4 DEF LinkedTo, LinkTypeOK
  <2>7. i \in DOMAIN pending' /\ pending'[i] = [dst |-> dst, src |-> m, sym |-> d]
    BY <2>5, <2>6
  <2>8. QED
    BY <2>4, <2>7 DEF Coming, Exported
<1>4. ASSUME NEW to \in Mods, NEW from \in Mods, LinkModule(to, from)
      PROVE  Coming(dst, src, s)'
  <2>1. pending = <<>> /\ syms' = syms /\ failedLinks' = failedLinks
    BY <1>4 DEF LinkModule, LinkTypeOK
  <2>2. Exports(src, s)
    BY <2>1 DEF Exports
  <2>3. ~LinkedTo(src, dst)
    BY <1>1, <1>2, <2>1, <2>2 DEF ExportsCovered
  <2>4. src = from /\ dst = to
    <3>1. PICK j \in DOMAIN linkedTo'[src] : linkedTo'[src][j] = dst
      BY DEF LinkedTo
    <3>2. ~(j \in DOMAIN linkedTo[src] /\ linkedTo'[src][j] = linkedTo[src][j])
      BY <2>3, <3>1 DEF LinkedTo
    <3>3. QED
      BY <1>4, <3>1, <3>2 DEF LinkModule, LinkTypeOK
  <2>5. PICK i \in 1..Len(syms[src]) : syms[src][i].name = s /\ syms[src][i].vis = "default"
    BY <2>2 DEF Exports, LinkTypeOK
  <2>6. i \in DOMAIN pending' /\ pending'[i] = [dst |-> dst, src |-> src, sym |-> syms[src][i]]
    BY <1>4, <2>4, <2>5 DEF LinkModule, Begin
  <2>7. QED
    BY <2>5, <2>6 DEF Coming, Exported
<1>5. ASSUME syms' = syms, linkedTo' = linkedTo
      PROVE  <<dst, src>> \notin failedLinks => Coming(dst, src, s)
  BY <1>1, <1>5 DEF ExportsCovered, LinkedTo, Exports
<1>6. ASSUME pending # <<>>, syms' = syms, linkedTo' = linkedTo, Continue,
             ~(/\ Exported(Call.sym) /\ Call.dst = dst
               /\ Call.src = src /\ Call.sym.name = s)
      PROVE  Coming(dst, src, s)'
  BY <1>5, <1>6, ContinueCovers DEF Continue
<1>7. ASSUME pending # <<>>, syms' = syms, linkedTo' = linkedTo,
             NEW kind, Refuse(kind),
             ~(/\ Exported(Call.sym) /\ Call.dst = dst
               /\ Call.src = src /\ Call.sym.name = s)
      PROVE  Coming(dst, src, s)'
  <2>1. CASE op = "define" /\ Continue
    BY <1>6, <1>7, <2>1
  <2>2. CASE op = "link" /\ failedLinks' = failedLinks \cup {<<Call.dst, Call.src>>}
    <3>1. Coming(dst, src, s)
      BY <1>5, <1>7, <2>2
    <3>2. Call.dst = dst /\ Call.src = src
      BY <1>7, <2>2, <3>1, CallTyped DEF Coming, CallsJustified
    <3>3. QED
      BY <2>2, <3>2
  <2>3. QED
    BY <1>7, <2>1, <2>2 DEF Refuse
<1>8. CASE LinkHidden
  BY <1>6, <1>8 DEF LinkHidden
<1>9. CASE LinkConflict
  <2>1. ASSUME Call.dst = dst, Call.src = src, Call.sym.name = s
        PROVE  FALSE
    <3>1. externSyms'[dst][s] \in Names
      BY <1>9, <2>1 DEF LinkConflict, Taken
    <3>2. Reported("conflict", dst, src, s)'
      BY <1>9, <2>1 DEF LinkConflict, Refuse, Reported
    <3>3. QED
      BY <3>1, <3>2 DEF Settled
  <2>2. QED
    BY <1>7, <1>9, <2>1 DEF LinkConflict
<1>10. ASSUME pending # <<>>, Bind, Call.dst = dst, Call.src = src, Call.sym.name = s
       PROVE  FALSE
  BY <1>10 DEF Bind, Settled, LinkTypeOK
<1>11. CASE LinkRedefined
  BY <1>7, <1>10, <1>11 DEF LinkRedefined
<1>12. CASE LinkBind
  BY <1>6, <1>10, <1>12 DEF LinkBind
<1>13. CASE UNCHANGED linkVars
  BY <1>1, <1>13 DEF linkVars, ExportsCovered, LinkedTo, Exports, Coming, Settled
<1>14. QED
  BY <1>3, <1>4, <1>8, <1>9, <1>11, <1>12, <1>13 DEF LinkNext

(* Between calls every symbol a module exports is bound in every module it   *)
(* was linked into, or the conflict was reported, whatever the order of      *)
(* linking and defining; only a refused link leaves symbols behind.          *)
THEOREM ExportsAreBound == LinkSpec => []ExportsBound
<1>1. LinkInit => CallsJustified /\ ExportsCovered
  BY DEF LinkInit, CallsJustified, ExportsCovered, LinkedTo
<1>2. LinkTypeOK /\ LinkTypeOK' /\ CallsJustified /\ ExportsCovered /\ [LinkNext]_linkVars
        => CallsJustified' /\ ExportsCovered'
  BY CallsJustifiedStep, ExportsCoveredStep
<1>3. LinkTypeOK /\ ExportsCovered => ExportsBound
  BY DEF LinkTypeOK, ExportsCovered, ExportsBound, Settled, Coming
<1>4. QED
  BY <1>1, <1>2, <1>3, LinkTypeInvariant, PTL DEF LinkSpec
-----------------------------------------------------------------------------
(* In the loop of nkl_linkModule, the call that will be refused for a symbol *)
(* the destination defines has not run.                                      *)
RefusalComing ==
  op = "link" =>
    \A s \in Syms : Exports(Call.src, s) /\ Defined(Call.dst, s)
                     => Coming(Call.dst, Call.src, s)

(* A call that is not refused does not end the wait for another one.         *)
LEMMA RefusalStaysComing ==
  ASSUME LinkTypeOK, CallsJustified, RefusalComing, op = "link", LinkHidden \/ LinkBind,
         NEW dst \in Mods, NEW src \in Mods, NEW s \in Syms,
         Call.dst = dst, Call.src = src, Exports(src, s), Defined(dst, s)
  PROVE  Coming(dst, src, s)' /\ pending' # <<>>
<1>1. pending # <<>> /\ Continue
  BY DEF LinkHidden, LinkBind
<1>2. Coming(dst, src, s)
  BY DEF RefusalComing
<1>3. ~(Exported(Call.sym) /\ Call.sym.name = s)
  BY DEF LinkHidden, LinkBind
<1>4. PICK i \in DOMAIN pending : /\ pending[i].dst = dst
                                 /\ pending[i].src = src
                                 /\ pending[i].sym.name = s
                                 /\ Exported(pending[i].sym)
  BY <1>2 DEF Coming
<1>5. i # 1
  BY <1>1, <1>3, <1>4, CallTyped
<1>6. i - 1 \in DOMAIN pending' /\ pending'[i - 1] = pending[i]
  BY <1>1, <1>4, <1>5 DEF Continue, LinkTypeOK
<1>7. QED
  BY <1>4, <1>6 DEF Coming, Exported

LEMMA RefusalComingStep ==
  ASSUME LinkTypeOK, LinkTypeOK', CallsJustified, RefusalComing, [LinkNext]_linkVars
  PROVE  RefusalComing'
<1> SUFFICES ASSUME op' = "link" PROVE RefusalComing'
  BY DEF RefusalComing
<1>1. ASSUME NEW dst \in Mods, NEW src \in Mods, LinkModule(dst, src)
      PROVE  RefusalComing'
  <2> SUFFICES ASSUME NEW s \in Syms, Exports(Call.src, s)'
               PROVE  Coming(Call.dst, Call.src, s)'
    BY DEF RefusalComing
  <2>1. pending' = [i \in 1..Len(syms[src]) |-> [dst |-> dst, src |-> src, sym |-> syms[src][i]]]
    BY <1>1 DEF LinkModule, Begin
  <2>2. Call' = pending'[1] /\ 1 \in DOMAIN pending'
    BY DEF LinkTypeOK, Call
  <2>3. Call'.dst = dst /\ Call'.src = src
    BY <2>1, <2>2
  <2>4. PICK i \in DOMAIN syms[src] : syms[src][i].name = s /\ syms[src][i].vis = "default"
    BY <1>1, <2>3 DEF Exports, LinkModule
  <2>5. i \in DOMAIN pending' /\ pending'[i] = [dst |-> dst, src |-> src, sym |-> syms[src][i]]
    BY <2>1, <2>4 DEF LinkTypeOK
  <2>6. QED
    BY <2>3, <2>4, <2>5 DEF Coming, Exported
<1>2. CASE LinkHidden \/ LinkBind
  <2>1. pending # <<>> /\ pending' # <<>> /\ Continue /\ syms' = syms /\ op = "link"
    BY <1>2 DEF LinkHidden, LinkBind, Continue, LinkTypeOK
  <2>2. Call'.dst = Call.dst /\ Call'.src = Call.src
    <3>1. Call' = pending'[1] /\ 1 \in DOMAIN pending'
      BY <2>1 DEF LinkTypeOK, Call
    <3>2. 2 \in DOMAIN pending /\ Call' = pending[2]
      BY <2>1, <3>1, CallsShift
    <3>3. QED
      BY <2>1, <3>2, CallTyped DEF CallsJustified
  <2>3. ASSUME NEW s \in Syms, Exports(Call.src, s)', Defined(Call.dst, s)'
        PROVE  Coming(Call.dst, Call.src, s)'
    <3> PICK dst \in Mods, src \in Mods : dst = Call.dst /\ src = Call.src
      BY <2>1, CallTyped DEF LinkCall
    <3>1. Exports(src, s)
      BY <2>1, <2>2, <2>3 DEF Exports
    <3>2. Defined(dst, s)
      BY <2>1, <2>2, <2>3 DEF Defined, Declared, Find, Places
    <3>3. Coming(dst, src, s)'
      BY <1>2, <2>1, <3>1, <3>2, RefusalStaysComing
    <3>4. QED
      BY <2>2, <3>3 DEF Coming
  <2>4. QED
    BY <2>3 DEF RefusalComing
<1>3. CASE UNCHANGED linkVars
  <2>1. ASSUME NEW m \in Mods, NEW s \in Syms
        PROVE  Defined(m, s)' = Defined(m, s)
    BY <1>3 DEF linkVars, Defined, Declared, Find, Places
  <2>2. Call' = Call /\ pending' = pending /\ syms' = syms /\ op = "link" /\ pending # <<>>
    BY <1>3 DEF linkVars, Call, LinkTypeOK
  <2>3. QED
    BY <2>1, <2>2, CallTyped DEF RefusalComing, Exports, Coming, LinkCall
<1>4. ASSUME NEW m \in Mods, NEW d \in Decls[m], DefineSymbol(m, d)
      PROVE  FALSE
  BY <1>4 DEF DefineSymbol, Begin
<1>5. ASSUME NEW kind, pending # <<>>, Refuse(kind)
      PROVE  FALSE
  <2>1. op = "define" /\ Continue
    BY <1>5 DEF Refuse
  <2>2. QED
    BY <2>1 DEF Continue
<1>6. QED
  BY <1>1, <1>2, <1>3, <1>4, <1>5 DEF LinkNext, LinkConflict, LinkRedefined

(* nkl_linkModule never succeeds when the destination defines a symbol that  *)
(* the source exports, wherever the symbol is in the source's list.          *)
THEOREM LinksRefusedWhenDefined == LinkSpec => RefusedWhenDefined
<1>1. LinkInit => CallsJustified /\ RefusalComing
  BY DEF LinkInit, CallsJustified, RefusalComing
<1>2. LinkTypeOK /\ LinkTypeOK' /\ CallsJustified /\ RefusalComing /\ [LinkNext]_linkVars
        => CallsJustified' /\ RefusalComing'
  BY CallsJustifiedStep, RefusalComingStep
<1> DEFINE Refused ==
      \A src, dst \in Mods, s \in Syms :
        /\ op = "link" /\ op' = "idle" /\ Call.src = src /\ Call.dst = dst
        /\ Exports(src, s) /\ Defined(dst, s)
        => <<dst, src>> \in failedLinks'
<1>3. LinkTypeOK /\ CallsJustified /\ RefusalComing /\ [LinkNext]_linkVars => [Refused]_linkVars
  <2> SUFFICES ASSUME LinkTypeOK, CallsJustified, RefusalComing, LinkNext,
                      NEW src \in Mods, NEW dst \in Mods, NEW s \in Syms,
                      op = "link", op' = "idle", Call.src = src, Call.dst = dst,
                      Exports(src, s), Defined(dst, s)
               PROVE  <<dst, src>> \in failedLinks'
    OBVIOUS
  <2>1. ASSUME LinkHidden \/ LinkBind PROVE FALSE
    <3>1. pending' # <<>>
      BY <2>1, RefusalStaysComing
    <3>2. QED
      BY <2>1, <3>1 DEF LinkHidden, LinkBind, Continue
  <2>2. ASSUME NEW kind, Refuse(kind) PROVE <<dst, src>> \in failedLinks'
    BY <2>2 DEF Refuse
  <2>3. QED
    BY <2>1, <2>2 DEF LinkNext, DefineSymbol, LinkModule, LinkConflict, LinkRedefined
<1>4. QED
  BY <1>1, <1>2, <1>3, LinkTypeInvariant, PTL DEF LinkSpec, RefusedWhenDefined
=============================================================================
