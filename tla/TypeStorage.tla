----------------------------- MODULE TypeStorage -----------------------------
(***************************************************************************)
(* The types of nkl_core (nkl_core/src/types.c).  A type is asked for by   *)
(* what it is made of; the answer is one object for each distinct request, *)
(* found by a fingerprint.  Every object also holds the type of the        *)
(* intermediate representation, with its layout, which is found by a       *)
(* fingerprint of its own and is a copy of the first one like it: its      *)
(* elements point to the types the FIRST request was made with.            *)
(*                                                                         *)
(* Assumptions: one thread; no two fingerprints of one length have the     *)
(* same 64-bit hash (ByteArray_equal compares a key with itself); counts   *)
(* are below 2^32.                                                         *)
(***************************************************************************)
EXTENDS Naturals, Sequences, SequencesExt, TLC

CONSTANTS
  WordSize,    (* of a state: every caller passes the same                  *)
  Numerics,    (* bound: the numeric types, as [code, size]                 *)
  Counts,      (* bound: of array elements                                  *)
  FieldNames,  (* bound: the names of two fields, atoms                     *)
  MaxTypes     (* bound: requests of clients                                *)

ASSUME TypeSizes ==
  WordSize \in Nat \ {0} /\ Counts \subseteq Nat /\ \A num \in Numerics : num.size \in Nat \ {0}

VARIABLES
  storage,  (* NklTypeStorage: types by their address, the map, next_id     *)
  made      (* the requests clients made, in order, and what they got       *)

typeVars == <<storage, made>>

NoIr == [kind |-> "None", id |-> 0, size |-> 0, align |-> 1, elems |-> <<>>, num |-> 0, proc |-> <<>>]
Blank == [ir |-> NoIr, tclass |-> "None", id |-> 0, target |-> 0, isConst |-> FALSE, fields |-> <<>>,
          underlying |-> 0]
Bit(b) == IF b THEN 1 ELSE 0

(* A fingerprint: subset, kind or class, and numbers.                        *)
Fingerprint(subset, tag, parts) == [subset |-> subset, tag |-> tag, parts |-> parts]
Ids(s, ts) == [i \in DOMAIN ts |-> s.types[ts[i]].id]
FieldParts(s, fields) ==
  <<Len(fields)>> \o FlattenSeq([i \in DOMAIN fields |-> <<fields[i].name, s.types[fields[i].type].id>>])
FieldTypes(fields) == [i \in DOMAIN fields |-> fields[i].type]

(* getTypeByFingerprint: a new type is blank, or the one given as backing.   *)
WithEntry(map, fp, at) == [key \in DOMAIN map \cup {fp} |-> IF key = fp THEN at ELSE map[key]]
ByFingerprint(s, fp, backing) ==
  LET at == IF backing # 0 THEN backing ELSE Len(s.types) + 1
  IN IF fp \in DOMAIN s.map THEN [s |-> s, at |-> s.map[fp], inserted |-> FALSE, id |-> 0]
     ELSE [s |-> [types |-> IF backing # 0 THEN s.types ELSE Append(s.types, Blank),
                  map |-> WithEntry(s.map, fp, at), nextId |-> s.nextId + 1],
           at |-> at, inserted |-> TRUE, id |-> s.nextId]

-----------------------------------------------------------------------------
(* nkir_calcAggregateLayout.                                                 *)
RoundUp(n, align) == ((n + align - 1) \div align) * align
Ends(s, ts, counts) ==
  LET end[i \in 0..Len(ts)] ==
        IF i = 0 THEN 0
        ELSE LET ir == s.types[ts[i]].ir IN RoundUp(end[i - 1], ir.align) + ir.size * counts[i]
  IN end
Alignment(s, ts) == Max({1} \cup {s.types[ts[i]].ir.align : i \in DOMAIN ts})
(* Mutant: the size is where the last element ends.                          *)
SizeUnpadded(end, align) == end
SizePadded(end, align) == RoundUp(end, align)
Layout(s, ts, counts) ==
  [elems |-> [i \in DOMAIN ts |-> [type |-> ts[i], count |-> counts[i],
                                   offset |-> RoundUp(Ends(s, ts, counts)[i - 1], s.types[ts[i]].ir.align)]],
   size |-> SizePadded(Ends(s, ts, counts)[Len(ts)], Alignment(s, ts)), align |-> Alignment(s, ts)]

(* get_ir_...: the type of the intermediate representation of `backing`.     *)
AfterIr(r, s, backing, ir) ==
  [r.s EXCEPT !.types[backing].ir = IF r.inserted THEN [ir EXCEPT !.id = r.id] ELSE s.types[r.at].ir]
GetIr(s, backing, ir, parts) ==
  AfterIr(ByFingerprint(s, Fingerprint("Ir", ir.kind, parts), backing), s, backing, ir)

(* Mutant: the counts are left out of the fingerprint.                       *)
AggregatePartsNoCount(s, elems) ==
  <<Len(elems)>> \o FlattenSeq([i \in DOMAIN elems |-> <<s.types[elems[i].type].ir.id>>])
AggregateParts(s, elems) ==
  <<Len(elems)>> \o FlattenSeq([i \in DOMAIN elems |-> <<s.types[elems[i].type].ir.id, elems[i].count>>])
GetIrAggregate(s, backing, layout) ==
  GetIr(s, backing, [NoIr EXCEPT !.kind = "Aggregate", !.size = layout.size, !.align = layout.align,
                                 !.elems = layout.elems], AggregateParts(s, layout.elems))
GetIrNumeric(s, backing, num) ==
  GetIr(s, backing, [NoIr EXCEPT !.kind = "Numeric", !.size = num.size, !.align = num.size, !.num = num.code],
        <<num.code>>)
GetIrPtr(s, backing, target) ==
  GetIr(s, backing, [NoIr EXCEPT !.kind = "Pointer", !.size = WordSize, !.align = WordSize],
        <<s.types[target].ir.id>>)
ProcParts(s, params, ret) == <<Len(params)>> \o Ids(s, params) \o <<s.types[ret].id>>
GetIrProc(s, backing, params, ret) ==
  GetIr(s, backing, [NoIr EXCEPT !.kind = "Procedure", !.size = WordSize, !.align = WordSize,
                                 !.proc = [params |-> params, ret |-> ret]], ProcParts(s, params, ret))

-----------------------------------------------------------------------------
(* The constructors: each looks its fingerprint up; Make fills in a new type.*)
Got(s, at) == [s |-> s, at |-> at]
AndThen(got, Next(_)) == Next(got)
Interned(s, tclass, parts, Make(_)) ==
  AndThen(ByFingerprint(s, Fingerprint("Nkl", tclass, parts), 0),
          LAMBDA r : IF r.inserted THEN Make(r) ELSE Got(s, r.at))

Fill(s, r, tclass) == Got([s EXCEPT !.types[r.at].tclass = tclass, !.types[r.at].id = r.id], r.at)
(* A type that is another one underneath, wholly or but for its fields.      *)
FillFrom(u, r, tclass) ==
  Got([u.s EXCEPT !.types[r.at] = [u.s.types[u.at] EXCEPT !.tclass = tclass, !.id = r.id, !.underlying = u.at]], r.at)
FillFields(u, r, fields) ==
  Fill([u.s EXCEPT !.types[r.at].fields = fields, !.types[r.at].ir = u.s.types[u.at].ir,
                   !.types[r.at].underlying = u.at], r, "Struct")

GetNumeric(s, num) ==
  Interned(s, "Numeric", <<num.code>>, LAMBDA r : Fill(GetIrNumeric(r.s, r.at, num), r, "Numeric"))

GetArray(s, elem, count) ==
  Interned(s, "Array", <<s.types[elem].id, count>>,
           LAMBDA r : Fill(GetIrAggregate(r.s, r.at, Layout(r.s, <<elem>>, <<count>>)), r, "Array"))

GetTuple(s, ts) ==
  Interned(s, "Tuple", <<Len(ts)>> \o Ids(s, ts),
           LAMBDA r : Fill(GetIrAggregate(r.s, r.at, Layout(r.s, ts, [i \in DOMAIN ts |-> 1])), r, "Tuple"))
GetVoid(s) == GetTuple(s, <<>>)

FillPtr(s, r, target, const) ==
  Fill([s EXCEPT !.types[r.at].target = target, !.types[r.at].isConst = const], r, "Pointer")
GetPtr(s, target, const) ==
  Interned(s, "Pointer", <<s.types[target].id, Bit(const)>>,
           LAMBDA r : FillPtr(GetIrPtr(r.s, r.at, target), r, target, const))

GetProc(s, params, ret) ==
  Interned(s, "Procedure", ProcParts(s, params, ret),
           LAMBDA r : Fill(GetIrProc(r.s, r.at, params, ret), r, "Procedure"))

GetStruct(s, fields) ==
  Interned(s, "Struct", FieldParts(s, fields), LAMBDA r : FillFields(GetTuple(r.s, FieldTypes(fields)), r, fields))

(* The representation of a union is that of its first largest field, or of   *)
(* void.                                                                     *)
LargestIr(s, void, fields) ==
  LET largest[i \in 0..Len(fields)] ==
        IF i = 0 THEN s.types[void].ir
        ELSE LET ir == s.types[fields[i].type].ir IN IF ir.size > largest[i - 1].size THEN ir ELSE largest[i - 1]
  IN largest[Len(fields)]
FillUnion(v, r, fields) ==
  Fill([v.s EXCEPT !.types[r.at].fields = fields, !.types[r.at].ir = LargestIr(v.s, v.at, fields)], r, "Union")
GetUnion(s, fields) == Interned(s, "Union", FieldParts(s, fields), LAMBDA r : FillUnion(GetVoid(r.s), r, fields))

(* Atoms of "data", "type", "tag" and "size".                                *)
DataAtom == 1
TypeAtom == 2
TagAtom == 3
SizeAtom == 4
Uint64 == [code |-> 120, size |-> 8]
Int8 == [code |-> 1, size |-> 1]
Field(name, type) == [name |-> name, type |-> type]
Pair(s, name, type, name2, type2) == GetStruct(s, <<Field(name, type), Field(name2, type2)>>)

GetEnum(s, fields) ==
  Interned(s, "Enum", FieldParts(s, fields),
           LAMBDA r : AndThen(GetUnion(r.s, fields),
             LAMBDA data : AndThen(GetNumeric(data.s, Uint64),
               LAMBDA tag : FillFrom(Pair(tag.s, DataAtom, data.at, TagAtom, tag.at), r, "Enum"))))

(* Mutant: a constant slice is not told from another.                        *)
SlicePartsNoConst(s, target, const) == <<s.types[target].id>>
SliceParts(s, target, const) == <<s.types[target].id, Bit(const)>>
GetSlice(s, target, const) ==
  Interned(s, "Slice", SliceParts(s, target, const),
           LAMBDA r : AndThen(GetPtr(r.s, target, const),
             LAMBDA data : AndThen(GetNumeric(data.s, Uint64),
               LAMBDA size : FillFrom(Pair(size.s, DataAtom, data.at, SizeAtom, size.at), r, "Slice"))))

GetBool(s) == Interned(s, "Bool", <<>>, LAMBDA r : FillFrom(GetNumeric(r.s, Int8), r, "Bool"))

GetTyperef(s) ==
  Interned(s, "Typeref", <<>>,
           LAMBDA r : AndThen(GetVoid(r.s), LAMBDA void : FillFrom(GetPtr(void.s, void.at, TRUE), r, "Typeref")))

GetAny(s) ==
  Interned(s, "Any", <<>>,
           LAMBDA r : AndThen(GetVoid(r.s),
             LAMBDA void : AndThen(GetPtr(void.s, void.at, FALSE),
               LAMBDA data : AndThen(GetTyperef(data.s),
                 LAMBDA type : FillFrom(Pair(type.s, DataAtom, data.at, TypeAtom, type.at), r, "Any")))))

-----------------------------------------------------------------------------
(* Requests of clients, with types they already have.                        *)
Request(tclass, ts, n, const) == [tclass |-> tclass, types |-> ts, n |-> n, const |-> const]
Fields(ts) == [i \in DOMAIN ts |-> Field(FieldNames[i], ts[i])]
Answer(s, q) ==
  CASE q.tclass = "Numeric" -> GetNumeric(s, CHOOSE num \in Numerics : num.code = q.n)
    [] q.tclass = "Array" -> GetArray(s, q.types[1], q.n)
    [] q.tclass = "Tuple" -> GetTuple(s, q.types)
    [] q.tclass = "Pointer" -> GetPtr(s, q.types[1], q.const)
    [] q.tclass = "Procedure" -> GetProc(s, Tail(q.types), q.types[1])
    [] q.tclass = "Struct" -> GetStruct(s, Fields(q.types))
    [] q.tclass = "Union" -> GetUnion(s, Fields(q.types))
    [] q.tclass = "Enum" -> GetEnum(s, Fields(q.types))
    [] q.tclass = "Slice" -> GetSlice(s, q.types[1], q.const)
    [] q.tclass = "Bool" -> GetBool(s)
    [] q.tclass = "Typeref" -> GetTyperef(s)
    [] q.tclass = "Any" -> GetAny(s)

TypeInit == storage = [types |-> <<>>, map |-> [fp \in {} |-> 0], nextId |-> 1] /\ made = <<>>

Have == {made[i].at : i \in DOMAIN made}
Requests ==
  {Request("Numeric", <<>>, num.code, FALSE) : num \in Numerics}
  \cup {Request(c, <<>>, 0, FALSE) : c \in {"Bool", "Typeref", "Any", "Tuple"}}
  \cup {Request("Array", <<t>>, n, FALSE) : t \in Have, n \in Counts}
  \cup {Request(c, <<t>>, 0, const) : c \in {"Pointer", "Slice"}, t \in Have, const \in BOOLEAN}
  \cup {Request(c, <<t, u>>, 0, FALSE) : c \in {"Tuple", "Procedure", "Struct", "Union", "Enum"}, t \in Have, u \in Have}

Record(q, a) == storage' = a.s /\ made' = Append(made, [q |-> q, at |-> a.at])
TypeNext == Len(made) < MaxTypes /\ \E q \in Requests : Record(q, Answer(storage, q))

-----------------------------------------------------------------------------
(* Two requests get one type exactly if they are the same request, and types *)
(* have different ids (types.c:48-75 and the fingerprints of the nkl_get_). *)
TypesInterned ==
  /\ \A i, j \in DOMAIN made : made[i].q = made[j].q <=> made[i].at = made[j].at
  /\ \A t, u \in DOMAIN storage.types : t # u => storage.types[t].id # storage.types[u].id

(* The elements of a type lie at aligned places, one after the other, within *)
(* its size, so that arrays of it are aligned too; a union has room for each *)
(* field; and types with one id of the intermediate representation have one  *)
(* layout, whichever was made first (types.c:96-237, common.cpp:173-208).    *)
Ir(t) == storage.types[t].ir
Shape(ir) == [ir EXCEPT !.elems = [i \in DOMAIN @ |-> <<Ir(@[i].type).id, @[i].count, @[i].offset>>],
                        !.proc = <<>>]
LayoutsSound ==
  /\ \A t \in DOMAIN storage.types :
       LET e == Ir(t).elems
           end(i) == e[i].offset + Ir(e[i].type).size * e[i].count
       IN /\ Ir(t).size % Ir(t).align = 0
          /\ \A i \in DOMAIN e : e[i].offset % Ir(e[i].type).align = 0 /\ end(i) <= Ir(t).size
          /\ \A i \in 2..Len(e) : end(i - 1) <= e[i].offset
  /\ \A t, u \in DOMAIN storage.types : Ir(t).id = Ir(u).id => Shape(Ir(t)) = Shape(Ir(u))
  /\ \A i \in DOMAIN made : made[i].q.tclass = "Union" =>
       \A t \in Range(made[i].q.types) : Ir(t).size <= Ir(made[i].at).size

(* What a type is made of can be read back: targets, fields, parameters are  *)
(* the very types of the request; elements of arrays and tuples are types of *)
(* the same representation, as many as were asked for (types.h:102-230).     *)
SameIr(t, u) == Ir(t).id = Ir(u).id
ReadBack(q, at) ==
  LET t == storage.types[at]
      under == storage.types[t.underlying]
      e == t.ir.elems
      ofFields(fields) == FieldTypes(fields) = q.types
  IN CASE q.tclass = "Array" -> SameIr(e[1].type, q.types[1]) /\ e[1].count = q.n
       [] q.tclass = "Tuple" -> Len(e) = Len(q.types) /\ \A i \in DOMAIN e : SameIr(e[i].type, q.types[i])
       [] q.tclass = "Pointer" -> t.target = q.types[1] /\ t.isConst = q.const
       [] q.tclass = "Slice" -> LET data == storage.types[under.fields[1].type]
                                IN data.target = q.types[1] /\ data.isConst = q.const
       [] q.tclass = "Procedure" -> <<t.ir.proc.ret>> \o t.ir.proc.params = q.types
       [] q.tclass = "Struct" -> ofFields(t.fields) /\ \A i \in DOMAIN e : SameIr(e[i].type, q.types[i])
       [] q.tclass = "Union" -> ofFields(t.fields)
       [] q.tclass = "Enum" -> ofFields(storage.types[under.fields[1].type].fields)
       [] q.tclass = "Bool" -> under.ir.num = Int8.code
       [] OTHER -> TRUE
PartsReadBack == \A i \in DOMAIN made : ReadBack(made[i].q, made[i].at)
=============================================================================
