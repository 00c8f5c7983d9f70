-------------------------- MODULE TypeStorageProofs --------------------------
(***************************************************************************)
(* Proofs about the types of nkl_core, for every set of numeric types, all *)
(* counts, names and numbers of requests.                                  *)
(***************************************************************************)
EXTENDS TypeStorage, ProofFacts

-----------------------------------------------------------------------------
(* What the map and the ids of a storage are when a type may be begun and    *)
(* not yet filled in: it has the id 0.                                       *)
IsNkl(fp) == fp.subset = "Nkl"
IsStore(s) ==
  /\ s = [types |-> s.types, map |-> s.map, nextId |-> s.nextId]
  /\ IsSeq(s.types)
  /\ s.nextId \in Nat \ {0}
HasIds(s) ==
  \A t \in DOMAIN s.types : /\ "id" \in DOMAIN s.types[t]
                            /\ s.types[t].id \in Nat /\ s.types[t].id < s.nextId
DistinctIds(s) ==
  \A t, u \in DOMAIN s.types : t # u /\ s.types[t].id # 0 => s.types[t].id # s.types[u].id
MapsToTypes(s) == \A fp \in DOMAIN s.map : s.map[fp] \in DOMAIN s.types
OneFingerprint(s) ==
  \A fp, gp \in DOMAIN s.map : IsNkl(fp) /\ IsNkl(gp) /\ s.map[fp] = s.map[gp] => fp = gp
Sound(s) == IsStore(s) /\ HasIds(s) /\ DistinctIds(s) /\ MapsToTypes(s) /\ OneFingerprint(s)

(* No type of the class is begun and not filled in.                          *)
Closed(s, tclass) ==
  \A fp \in DOMAIN s.map : IsNkl(fp) /\ fp.tag = tclass => s.types[s.map[fp]].id # 0

(* What a constructor may do: add types that are filled in.                  *)
KeepsTypes(s, x) ==
  /\ Len(s.types) <= Len(x.types) /\ s.nextId <= x.nextId
  /\ \A t \in DOMAIN s.types : x.types[t].id = s.types[t].id
KeepsMap(s, x) ==
  /\ \A fp \in DOMAIN s.map : fp \in DOMAIN x.map /\ x.map[fp] = s.map[fp]
  /\ \A fp \in DOMAIN x.map : fp \notin DOMAIN s.map /\ IsNkl(fp) => x.map[fp] \notin DOMAIN s.types
Grows(s, x) ==
  /\ KeepsTypes(s, x) /\ KeepsMap(s, x)
  /\ \A t \in DOMAIN x.types : t \notin DOMAIN s.types => x.types[t].id >= s.nextId

(* What it answers: the type the fingerprint is mapped to.                   *)
Gives(s, fp, g) ==
  /\ Sound(g.s) /\ Grows(s, g.s)
  /\ fp \in DOMAIN g.s.map /\ g.s.map[fp] = g.at
  /\ g.at \in DOMAIN g.s.types /\ g.s.types[g.at].id # 0

(* A storage in which the type at `at` is begun.                             *)
Opened(s, x, at, fp) ==
  /\ Sound(x)
  /\ KeepsTypes(s, x) /\ KeepsMap(s, x)
  /\ s.nextId < x.nextId
  /\ at \in DOMAIN x.types /\ at \notin DOMAIN s.types /\ x.types[at].id = 0
  /\ \A t \in DOMAIN x.types : t \notin DOMAIN s.types /\ t # at => x.types[t].id > s.nextId
  /\ fp \in DOMAIN x.map /\ x.map[fp] = at

-----------------------------------------------------------------------------
LEMMA GrowsAtAll ==
  ASSUME NEW s, Sound(s)
  PROVE  Grows(s, s)
  BY DEF Grows, KeepsTypes, KeepsMap, Sound, IsStore

LEMMA GrowsOn ==
  ASSUME NEW s, NEW x, NEW y, Sound(s), Sound(x), Sound(y), Grows(s, x), Grows(x, y)
  PROVE  Grows(s, y)
<1>1. /\ Len(s.types) \in Nat /\ DOMAIN s.types = 1..Len(s.types)
      /\ Len(x.types) \in Nat /\ DOMAIN x.types = 1..Len(x.types)
      /\ Len(y.types) \in Nat /\ DOMAIN y.types = 1..Len(y.types)
  BY SeqParts DEF Sound, IsStore
<1>2. s.nextId \in Nat /\ x.nextId \in Nat /\ y.nextId \in Nat
  BY DEF Sound, IsStore
<1>3. DOMAIN s.types \subseteq DOMAIN x.types /\ DOMAIN x.types \subseteq DOMAIN y.types
  BY <1>1 DEF Grows, KeepsTypes
<1>4. KeepsTypes(s, y)
  BY <1>1, <1>2, <1>3 DEF Grows, KeepsTypes
<1>5. KeepsMap(s, y)
  BY <1>3 DEF Grows, KeepsMap
<1>6. ASSUME NEW t \in DOMAIN y.types, t \notin DOMAIN s.types PROVE y.types[t].id >= s.nextId
  <2>1. CASE t \in DOMAIN x.types
    BY <1>6, <2>1 DEF Grows, KeepsTypes
  <2>2. CASE t \notin DOMAIN x.types
    <3>1. y.types[t].id >= x.nextId /\ y.types[t].id \in Nat
      BY <1>6, <2>2 DEF Grows, Sound, HasIds
    <3>2. QED
      BY <1>2, <3>1 DEF Grows, KeepsTypes
  <2>3. QED
    BY <2>1, <2>2
<1>7. QED
  BY <1>4, <1>5, <1>6 DEF Grows

LEMMA OpenedOn ==
  ASSUME NEW s, NEW x, NEW y, NEW at, NEW fp,
         Sound(s), Opened(s, x, at, fp), Sound(y), Grows(x, y)
  PROVE  Opened(s, y, at, fp)
<1>1. /\ Len(s.types) \in Nat /\ DOMAIN s.types = 1..Len(s.types)
      /\ Len(x.types) \in Nat /\ DOMAIN x.types = 1..Len(x.types)
      /\ Len(y.types) \in Nat /\ DOMAIN y.types = 1..Len(y.types)
  BY SeqParts DEF Sound, IsStore, Opened
<1>2. s.nextId \in Nat /\ x.nextId \in Nat /\ y.nextId \in Nat
  BY DEF Sound, IsStore, Opened
<1>3. DOMAIN s.types \subseteq DOMAIN x.types /\ DOMAIN x.types \subseteq DOMAIN y.types
  BY <1>1 DEF Grows, Opened, KeepsTypes
<1>4. KeepsTypes(s, y)
  BY <1>1, <1>2, <1>3 DEF Grows, Opened, KeepsTypes
<1>5. KeepsMap(s, y)
  BY <1>3 DEF Grows, Opened, KeepsMap
<1>6. ASSUME NEW t \in DOMAIN y.types, t \notin DOMAIN s.types, t # at PROVE y.types[t].id > s.nextId
  <2>1. CASE t \in DOMAIN x.types
    BY <1>6, <2>1 DEF Grows, Opened, KeepsTypes
  <2>2. CASE t \notin DOMAIN x.types
    <3>1. y.types[t].id >= x.nextId /\ y.types[t].id \in Nat
      BY <1>6, <2>2 DEF Grows, Sound, HasIds
    <3>2. QED
      BY <1>2, <3>1 DEF Opened
  <2>3. QED
    BY <2>1, <2>2
<1>7. s.nextId < y.nextId
  BY <1>2 DEF Opened, Grows, KeepsTypes
<1>8. at \in DOMAIN y.types /\ at \notin DOMAIN s.types /\ y.types[at].id = 0
  BY <1>3 DEF Opened, Grows, KeepsTypes
<1>9. fp \in DOMAIN y.map /\ y.map[fp] = at
  BY DEF Opened, Grows, KeepsMap
<1>10. QED
  BY <1>4, <1>5, <1>6, <1>7, <1>8, <1>9 DEF Opened

(* Whoever has types filled in goes on having them.                          *)
LEMMA GrowsClosed ==
  ASSUME NEW s, NEW x, NEW c, Sound(s), Sound(x), Grows(s, x), Closed(s, c)
  PROVE  Closed(x, c)
<1> SUFFICES ASSUME NEW fp \in DOMAIN x.map, IsNkl(fp), fp.tag = c
             PROVE  x.types[x.map[fp]].id # 0
  BY DEF Closed
<1>1. CASE fp \in DOMAIN s.map
  BY <1>1 DEF Closed, Grows, KeepsMap, KeepsTypes, Sound, MapsToTypes
<1>2. CASE fp \notin DOMAIN s.map
  <2>1. x.map[fp] \in DOMAIN x.types /\ x.map[fp] \notin DOMAIN s.types
    BY <1>2 DEF Grows, KeepsMap, Sound, MapsToTypes
  <2>2. x.types[x.map[fp]].id >= s.nextId /\ s.nextId \in Nat \ {0}
    BY <2>1 DEF Grows, Sound, IsStore
  <2>3. x.types[x.map[fp]].id \in Nat
    BY <2>1 DEF Sound, HasIds
  <2>4. QED
    BY <2>2, <2>3
<1>3. QED
  BY <1>1, <1>2

LEMMA OpenedClosed ==
  ASSUME NEW s, NEW x, NEW at, NEW fp, NEW c,
         Sound(s), Opened(s, x, at, fp), IsNkl(fp), fp.tag # c, Closed(s, c)
  PROVE  Closed(x, c)
<1> SUFFICES ASSUME NEW gp \in DOMAIN x.map, IsNkl(gp), gp.tag = c
             PROVE  x.types[x.map[gp]].id # 0
  BY DEF Closed
<1>1. CASE gp \in DOMAIN s.map
  BY <1>1 DEF Closed, Opened, KeepsMap, KeepsTypes, Sound, MapsToTypes
<1>2. CASE gp \notin DOMAIN s.map
  <2>1. x.map[gp] \in DOMAIN x.types /\ x.map[gp] \notin DOMAIN s.types
    BY <1>2 DEF Opened, KeepsMap, Sound, MapsToTypes
  <2>2. x.map[gp] # at
    BY DEF Opened, Sound, OneFingerprint
  <2>3. x.types[x.map[gp]].id > s.nextId /\ s.nextId \in Nat
    BY <2>1, <2>2 DEF Opened, Sound, IsStore
  <2>4. x.types[x.map[gp]].id \in Nat
    BY <2>1 DEF Opened, Sound, HasIds
  <2>5. QED
    BY <2>3, <2>4
<1>3. QED
  BY <1>1, <1>2
-----------------------------------------------------------------------------
(* The steps of a constructor: it finds the fingerprint, or begins a type,   *)
(* fills in parts of types and at last gives the new type its id.            *)
SameIds(s, x) ==
  /\ IsStore(x)
  /\ x.map = s.map /\ x.nextId = s.nextId /\ Len(x.types) = Len(s.types)
  /\ \A t \in DOMAIN s.types : "id" \in DOMAIN x.types[t] /\ x.types[t].id = s.types[t].id

LEMMA SameIdsGrow ==
  ASSUME NEW s, NEW x, Sound(s), SameIds(s, x)
  PROVE  Sound(x) /\ Grows(s, x)
<1>1. /\ Len(s.types) \in Nat /\ DOMAIN s.types = 1..Len(s.types) /\ s.nextId \in Nat
      /\ DOMAIN x.types = DOMAIN s.types
  BY SeqParts DEF Sound, IsStore, SameIds
<1>2. HasIds(x)
  BY <1>1 DEF Sound, HasIds, SameIds
<1>3. DistinctIds(x)
  BY <1>1 DEF Sound, DistinctIds, SameIds
<1>4. MapsToTypes(x) /\ OneFingerprint(x)
  BY <1>1 DEF Sound, MapsToTypes, OneFingerprint, SameIds
<1>5. Grows(s, x)
  BY <1>1 DEF Grows, KeepsTypes, KeepsMap, SameIds
<1>6. QED
  BY <1>2, <1>3, <1>4, <1>5 DEF Sound, SameIds

LEMMA TypeReplaced ==
  ASSUME NEW s, Sound(s), NEW at \in DOMAIN s.types, NEW type,
         "id" \in DOMAIN type, type.id = s.types[at].id
  PROVE  SameIds(s, [s EXCEPT !.types = [@ EXCEPT ![at] = type]])
<1> DEFINE types == [s.types EXCEPT ![at] = type]
           x == [s EXCEPT !.types = types]
<1>1. at \in 1..Len(s.types) /\ IsSeq(s.types) /\ DOMAIN s.types = 1..Len(s.types)
  BY SeqParts DEF Sound, IsStore
<1>2. /\ IsSeq(types) /\ Len(types) = Len(s.types)
      /\ \A i \in 1..Len(s.types) : types[i] = IF i = at THEN type ELSE s.types[i]
  BY <1>1, SeqUpdate
<1> HIDE DEF types
<1>3. x = [types |-> types, map |-> s.map, nextId |-> s.nextId]
  BY DEF Sound, IsStore
<1>4. IsStore(x)
  BY <1>2, <1>3 DEF Sound, IsStore
<1>5. \A t \in DOMAIN s.types : "id" \in DOMAIN types[t] /\ types[t].id = s.types[t].id
  BY <1>1, <1>2 DEF Sound, HasIds
<1>6. SameIds(s, x)
  BY <1>2, <1>3, <1>4, <1>5 DEF SameIds
<1>7. QED
  BY <1>6 DEF types

LEMMA FoundGives ==
  ASSUME NEW s, Sound(s), NEW fp \in DOMAIN s.map, IsNkl(fp), Closed(s, fp.tag)
  PROVE  Gives(s, fp, Got(s, s.map[fp]))
  BY GrowsAtAll DEF Gives, Got, Closed, Sound, MapsToTypes

LEMMA BegunOpens ==
  ASSUME NEW s, Sound(s), NEW fp, fp \notin DOMAIN s.map, NEW r, r = ByFingerprint(s, fp, 0)
  PROVE  Opened(s, r.s, r.at, fp) /\ r.id = s.nextId /\ r.inserted
<1> DEFINE at == Len(s.types) + 1
           types == Append(s.types, Blank)
           map == WithEntry(s.map, fp, at)
           x == [types |-> types, map |-> map, nextId |-> s.nextId + 1]
<1>1. r = [s |-> x, at |-> at, inserted |-> TRUE, id |-> s.nextId]
  BY DEF ByFingerprint
<1>2. IsSeq(s.types) /\ Len(s.types) \in Nat /\ DOMAIN s.types = 1..Len(s.types) /\ s.nextId \in Nat \ {0}
  BY SeqParts DEF Sound, IsStore
<1>3. /\ IsSeq(types) /\ Len(types) = at /\ types[at] = Blank
      /\ \A i \in DOMAIN s.types : types[i] = s.types[i]
  BY <1>2, SeqAppend
<1>4. DOMAIN map = DOMAIN s.map \cup {fp} /\ map[fp] = at /\ \A gp \in DOMAIN s.map : map[gp] = s.map[gp]
  BY DEF WithEntry
<1>5. DOMAIN types = DOMAIN s.types \cup {at} /\ at \notin DOMAIN s.types
  BY <1>2, <1>3, SeqParts
<1> HIDE DEF types, map
<1>6. "id" \in DOMAIN Blank /\ Blank.id = 0
  BY DEF Blank
<1>7. HasIds(x)
  BY <1>2, <1>3, <1>5, <1>6 DEF Sound, HasIds
<1>8. DistinctIds(x)
  BY <1>2, <1>3, <1>5, <1>6 DEF Sound, DistinctIds
<1>9. MapsToTypes(x) /\ OneFingerprint(x)
  BY <1>4, <1>5 DEF Sound, MapsToTypes, OneFingerprint
<1>10. Sound(x)
  BY <1>2, <1>3, <1>7, <1>8, <1>9 DEF Sound, IsStore
<1>11. KeepsTypes(s, x) /\ KeepsMap(s, x)
  <2>1. KeepsTypes(s, x)
    <3>1. x.types = types /\ x.nextId = s.nextId + 1
      OBVIOUS
    <3>2. Len(s.types) <= Len(x.types) /\ s.nextId <= x.nextId
      BY <1>2, <1>3, <3>1
    <3>3. QED
      BY <1>3, <3>1, <3>2 DEF KeepsTypes
  <2>2. KeepsMap(s, x)
    BY <1>2, <1>4, <1>5 DEF KeepsMap
  <2>3. QED
    BY <2>1, <2>2
<1>12. Opened(s, x, at, fp)
  BY <1>2, <1>3, <1>4, <1>5, <1>6, <1>10, <1>11 DEF Opened
<1>13. QED
  BY <1>1, <1>12

(* The type that was begun gets its id.                                      *)
HasNewId(x, y, at, id) ==
  /\ IsStore(y)
  /\ y.map = x.map /\ y.nextId = x.nextId /\ Len(y.types) = Len(x.types)
  /\ \A t \in DOMAIN x.types :
       "id" \in DOMAIN y.types[t] /\ y.types[t].id = IF t = at THEN id ELSE x.types[t].id

LEMMA FilledGives ==
  ASSUME NEW s, NEW x, NEW y, NEW at, NEW fp,
         Sound(s), Opened(s, x, at, fp), HasNewId(x, y, at, s.nextId)
  PROVE  Gives(s, fp, Got(y, at))
<1>1. /\ Len(s.types) \in Nat /\ DOMAIN s.types = 1..Len(s.types) /\ s.nextId \in Nat \ {0}
      /\ Len(x.types) \in Nat /\ DOMAIN x.types = 1..Len(x.types) /\ x.nextId \in Nat
      /\ DOMAIN y.types = DOMAIN x.types /\ at \in DOMAIN x.types /\ at \notin DOMAIN s.types
      /\ s.nextId < x.nextId
  BY SeqParts DEF Sound, IsStore, Opened, HasNewId
<1>2. /\ y.types[at].id = s.nextId
      /\ \A t \in DOMAIN x.types : t # at => y.types[t].id = x.types[t].id
  BY <1>1 DEF HasNewId
<1>3. \A t \in DOMAIN x.types : t # at => /\ x.types[t].id \in Nat /\ x.types[t].id < x.nextId
                                          /\ x.types[t].id # s.nextId
  <2> SUFFICES ASSUME NEW t \in DOMAIN x.types, t # at
               PROVE  x.types[t].id \in Nat /\ x.types[t].id < x.nextId /\ x.types[t].id # s.nextId
    OBVIOUS
  <2>1. x.types[t].id \in Nat /\ x.types[t].id < x.nextId
    BY DEF Opened, Sound, HasIds
  <2>2. CASE t \in DOMAIN s.types
    BY <1>1, <2>1, <2>2 DEF Opened, KeepsTypes, Sound, HasIds
  <2>3. CASE t \notin DOMAIN s.types
    BY <1>1, <2>1, <2>3 DEF Opened
  <2>4. QED
    BY <2>1, <2>2, <2>3
<1>4. HasIds(y)
  <2> SUFFICES ASSUME NEW t \in DOMAIN y.types
               PROVE  "id" \in DOMAIN y.types[t] /\ y.types[t].id \in Nat /\ y.types[t].id < y.nextId
    BY DEF HasIds
  <2>1. "id" \in DOMAIN y.types[t] /\ y.nextId = x.nextId
    BY <1>1 DEF HasNewId
  <2>2. QED
    BY <1>1, <1>2, <1>3, <2>1
<1>5. DistinctIds(y)
  <2> SUFFICES ASSUME NEW t \in DOMAIN x.types, NEW u \in DOMAIN x.types, t # u, y.types[t].id # 0
               PROVE  y.types[t].id # y.types[u].id
    BY <1>1 DEF DistinctIds
  <2>1. CASE t = at \/ u = at
    BY <1>2, <1>3, <2>1
  <2>2. CASE t # at /\ u # at
    BY <1>2, <2>2 DEF Opened, Sound, DistinctIds
  <2>3. QED
    BY <2>1, <2>2
<1>6. MapsToTypes(y) /\ OneFingerprint(y)
  BY <1>1 DEF Opened, Sound, MapsToTypes, OneFingerprint, HasNewId
<1>7. Sound(y)
  BY <1>4, <1>5, <1>6 DEF Sound, HasNewId
<1>8. KeepsTypes(s, y)
  BY <1>1, <1>2 DEF Opened, KeepsTypes, HasNewId
<1>9. KeepsMap(s, y)
  BY DEF Opened, KeepsMap, HasNewId
<1>10. ASSUME NEW t \in DOMAIN y.types, t \notin DOMAIN s.types PROVE y.types[t].id >= s.nextId
  <2>1. CASE t = at
    BY <1>1, <1>2, <2>1
  <2>2. CASE t # at
    <3>1. x.types[t].id > s.nextId /\ x.types[t].id \in Nat /\ y.types[t].id = x.types[t].id
      BY <1>1, <1>2, <1>3, <1>10, <2>2 DEF Opened
    <3>2. QED
      BY <1>1, <3>1
  <2>3. QED
    BY <2>1, <2>2
<1>11. Grows(s, y)
  BY <1>8, <1>9, <1>10 DEF Grows
<1>12. fp \in DOMAIN y.map /\ y.map[fp] = at
  BY DEF Opened, HasNewId
<1>13. QED
  BY <1>1, <1>2, <1>7, <1>11, <1>12 DEF Gives, Got

LEMMA TypeNumbered ==
  ASSUME NEW x, Sound(x), NEW at \in DOMAIN x.types, NEW type, NEW id,
         "id" \in DOMAIN type, type.id = id
  PROVE  HasNewId(x, [x EXCEPT !.types = [@ EXCEPT ![at] = type]], at, id)
<1> DEFINE types == [x.types EXCEPT ![at] = type]
           y == [x EXCEPT !.types = types]
<1>1. at \in 1..Len(x.types) /\ IsSeq(x.types) /\ DOMAIN x.types = 1..Len(x.types)
  BY SeqParts DEF Sound, IsStore
<1>2. /\ IsSeq(types) /\ Len(types) = Len(x.types)
      /\ \A i \in 1..Len(x.types) : types[i] = IF i = at THEN type ELSE x.types[i]
  BY <1>1, SeqUpdate
<1> HIDE DEF types
<1>3. y = [types |-> types, map |-> x.map, nextId |-> x.nextId]
  BY DEF Sound, IsStore
<1>4. IsStore(y)
  BY <1>2, <1>3 DEF Sound, IsStore
<1>5. \A t \in DOMAIN x.types : "id" \in DOMAIN types[t] /\ types[t].id = IF t = at THEN id ELSE x.types[t].id
  BY <1>1, <1>2 DEF Sound, HasIds
<1>6. HasNewId(x, y, at, id)
  BY <1>2, <1>3, <1>4, <1>5 DEF HasNewId
<1>7. QED
  BY <1>6 DEF types

(* Types of the intermediate representation: the types keep their ids.       *)
LEMMA IrGrows ==
  ASSUME NEW s, Sound(s), NEW b \in DOMAIN s.types, NEW ir, NEW parts
  PROVE  Sound(GetIr(s, b, ir, parts)) /\ Grows(s, GetIr(s, b, ir, parts))
<1> DEFINE fp == Fingerprint("Ir", ir.kind, parts)
           r == ByFingerprint(s, fp, b)
           v == IF r.inserted THEN [ir EXCEPT !.id = r.id] ELSE s.types[r.at].ir
           y == [r.s EXCEPT !.types[b].ir = v]
<1>1. GetIr(s, b, ir, parts) = y
  BY DEF GetIr, AfterIr
<1>2. ~IsNkl(fp)
  BY DEF IsNkl, Fingerprint
<1> HIDE DEF fp
<1>3. b # 0
  BY SeqParts DEF Sound, IsStore
<1>4. Sound(r.s) /\ Grows(s, r.s) /\ b \in DOMAIN r.s.types
  <2>1. CASE fp \in DOMAIN s.map
    BY <2>1, GrowsAtAll DEF ByFingerprint
  <2>2. CASE fp \notin DOMAIN s.map
    <3> DEFINE map == WithEntry(s.map, fp, b)
               x == [types |-> s.types, map |-> map, nextId |-> s.nextId + 1]
    <3>1. r.s = x
      BY <1>3, <2>2 DEF ByFingerprint
    <3>2. DOMAIN map = DOMAIN s.map \cup {fp} /\ map[fp] = b /\ \A gp \in DOMAIN s.map : map[gp] = s.map[gp]
      BY <2>2 DEF WithEntry
    <3> HIDE DEF map
    <3>3. IsStore(x) /\ HasIds(x) /\ DistinctIds(x)
      BY DEF Sound, IsStore, HasIds, DistinctIds
    <3>4. MapsToTypes(x) /\ OneFingerprint(x)
      BY <1>2, <3>2 DEF Sound, MapsToTypes, OneFingerprint
    <3>5. Grows(s, x)
      BY <1>2, <3>2 DEF Grows, KeepsTypes, KeepsMap, Sound, IsStore
    <3>6. QED
      BY <3>1, <3>3, <3>4, <3>5 DEF Sound
  <2>3. QED
    BY <2>1, <2>2
<1> HIDE DEF r, v
<1> DEFINE type == [r.s.types[b] EXCEPT !.ir = v]
<1>5. "id" \in DOMAIN type /\ type.id = r.s.types[b].id
  BY <1>4 DEF Sound, HasIds
<1>6. y = [r.s EXCEPT !.types = [@ EXCEPT ![b] = type]]
  OBVIOUS
<1>7. Sound(y) /\ Grows(r.s, y)
  BY <1>4, <1>5, <1>6, TypeReplaced, SameIdsGrow
<1>8. QED
  BY <1>1, <1>4, <1>7, GrowsOn

-----------------------------------------------------------------------------
(* Ways for a constructor to end.                                            *)
LEMMA FoundAnswers ==
  ASSUME NEW s, Sound(s), NEW fp \in DOMAIN s.map, IsNkl(fp), Closed(s, fp.tag),
         NEW r, r = ByFingerprint(s, fp, 0)
  PROVE  ~r.inserted /\ Gives(s, fp, Got(s, r.at))
  BY FoundGives DEF ByFingerprint

LEMMA TypeChanged ==
  ASSUME NEW s, Sound(s), NEW x, NEW at, NEW fp, Opened(s, x, at, fp), NEW type,
         "id" \in DOMAIN type, type.id = x.types[at].id
  PROVE  Opened(s, [x EXCEPT !.types = [@ EXCEPT ![at] = type]], at, fp)
<1>1. Sound(x) /\ at \in DOMAIN x.types
  BY DEF Opened
<1>2. QED
  BY <1>1, TypeReplaced, SameIdsGrow, OpenedOn

LEMMA FillAnswers ==
  ASSUME NEW s, Sound(s), NEW fp, NEW r, r.id = s.nextId, NEW x, Opened(s, x, r.at, fp), NEW tclass
  PROVE  Gives(s, fp, Fill(x, r, tclass))
<1> DEFINE at == r.at
           first == [x.types[at] EXCEPT !.tclass = tclass]
           y == [x EXCEPT !.types = [@ EXCEPT ![at] = first]]
           last == [y.types[at] EXCEPT !.id = r.id]
           z == [y EXCEPT !.types = [@ EXCEPT ![at] = last]]
<1>1. Sound(x) /\ at \in DOMAIN x.types
  BY DEF Opened
<1>2. "id" \in DOMAIN first /\ first.id = x.types[at].id
  BY <1>1 DEF Sound, HasIds
<1>3. Opened(s, y, at, fp)
  BY <1>2, TypeChanged
<1>4. Fill(x, r, tclass) = Got(z, at)
  BY DEF Fill
<1> HIDE DEF y
<1>5. Sound(y) /\ at \in DOMAIN y.types
  BY <1>3 DEF Opened
<1>6. "id" \in DOMAIN last /\ last.id = r.id
  BY <1>5 DEF Sound, HasIds
<1>7. HasNewId(y, z, at, s.nextId)
  BY <1>5, <1>6, TypeNumbered
<1> HIDE DEF z, at
<1>8. QED
  BY <1>3, <1>4, <1>7, FilledGives

LEMMA FillFromAnswers ==
  ASSUME NEW s, Sound(s), NEW fp, NEW r, r.id = s.nextId,
         NEW u, u.at \in DOMAIN u.s.types, Opened(s, u.s, r.at, fp), NEW tclass
  PROVE  Gives(s, fp, FillFrom(u, r, tclass))
<1> DEFINE at == r.at
           type == [u.s.types[u.at] EXCEPT !.tclass = tclass, !.id = r.id, !.underlying = u.at]
           z == [u.s EXCEPT !.types = [@ EXCEPT ![at] = type]]
<1>1. Sound(u.s) /\ at \in DOMAIN u.s.types
  BY DEF Opened
<1>2. "id" \in DOMAIN type /\ type.id = r.id
  BY <1>1 DEF Sound, HasIds
<1>3. FillFrom(u, r, tclass) = Got(z, at)
  BY DEF FillFrom
<1>4. HasNewId(u.s, z, at, s.nextId)
  BY <1>1, <1>2, TypeNumbered
<1> HIDE DEF z, at
<1>5. QED
  BY <1>3, <1>4, FilledGives DEF at

LEMMA FillPtrAnswers ==
  ASSUME NEW s, Sound(s), NEW fp, NEW r, r.id = s.nextId, NEW x, Opened(s, x, r.at, fp),
         NEW target, NEW const
  PROVE  Gives(s, fp, FillPtr(x, r, target, const))
<1> DEFINE at == r.at
           first == [x.types[at] EXCEPT !.target = target]
           y == [x EXCEPT !.types = [@ EXCEPT ![at] = first]]
           last == [y.types[at] EXCEPT !.isConst = const]
           z == [y EXCEPT !.types = [@ EXCEPT ![at] = last]]
<1>1. Sound(x) /\ at \in DOMAIN x.types
  BY DEF Opened
<1>2. "id" \in DOMAIN first /\ first.id = x.types[at].id
  BY <1>1 DEF Sound, HasIds
<1>3. Opened(s, y, at, fp)
  BY <1>2, TypeChanged
<1>4. FillPtr(x, r, target, const) = Fill(z, r, "Pointer")
  BY DEF FillPtr
<1> HIDE DEF y
<1>5. Sound(y) /\ at \in DOMAIN y.types
  BY <1>3 DEF Opened
<1>6. "id" \in DOMAIN last /\ last.id = y.types[at].id
  BY <1>5 DEF Sound, HasIds
<1>7. Opened(s, z, at, fp)
  BY <1>3, <1>6, TypeChanged
<1> HIDE DEF z
<1>8. QED
  BY <1>4, <1>7, FillAnswers

(* Before Fill, structs and unions are given their fields and representation.*)
LEMMA FillFieldsAnswers ==
  ASSUME NEW s, Sound(s), NEW fp, NEW r, r.id = s.nextId, NEW u, Opened(s, u.s, r.at, fp), NEW fields
  PROVE  Gives(s, fp, FillFields(u, r, fields))
<1> DEFINE at == r.at
           x == u.s
           first == [x.types[at] EXCEPT !.fields = fields]
           y == [x EXCEPT !.types = [@ EXCEPT ![at] = first]]
           second == [y.types[at] EXCEPT !.ir = u.s.types[u.at].ir]
           z == [y EXCEPT !.types = [@ EXCEPT ![at] = second]]
           last == [z.types[at] EXCEPT !.underlying = u.at]
           w == [z EXCEPT !.types = [@ EXCEPT ![at] = last]]
<1>1. Sound(x) /\ at \in DOMAIN x.types
  BY DEF Opened
<1>2. "id" \in DOMAIN first /\ first.id = x.types[at].id
  BY <1>1 DEF Sound, HasIds
<1>3. Opened(s, y, at, fp)
  BY <1>2, TypeChanged
<1>4. FillFields(u, r, fields) = Fill(w, r, "Struct")
  BY DEF FillFields
<1> HIDE DEF y
<1>5. Sound(y) /\ at \in DOMAIN y.types
  BY <1>3 DEF Opened
<1>6. "id" \in DOMAIN second /\ second.id = y.types[at].id
  BY <1>5 DEF Sound, HasIds
<1>7. Opened(s, z, at, fp)
  BY <1>3, <1>6, TypeChanged
<1> HIDE DEF z
<1>8. Sound(z) /\ at \in DOMAIN z.types
  BY <1>7 DEF Opened
<1>9. "id" \in DOMAIN last /\ last.id = z.types[at].id
  BY <1>8 DEF Sound, HasIds
<1>10. Opened(s, w, at, fp)
  BY <1>7, <1>9, TypeChanged
<1> HIDE DEF w
<1>11. QED
  BY <1>4, <1>10, FillAnswers

LEMMA FillUnionAnswers ==
  ASSUME NEW s, Sound(s), NEW fp, NEW r, r.id = s.nextId, NEW u, Opened(s, u.s, r.at, fp), NEW fields
  PROVE  Gives(s, fp, FillUnion(u, r, fields))
<1> DEFINE at == r.at
           x == u.s
           first == [x.types[at] EXCEPT !.fields = fields]
           y == [x EXCEPT !.types = [@ EXCEPT ![at] = first]]
           ir == LargestIr(u.s, u.at, fields)
           last == [y.types[at] EXCEPT !.ir = ir]
           z == [y EXCEPT !.types = [@ EXCEPT ![at] = last]]
<1>1. Sound(x) /\ at \in DOMAIN x.types
  BY DEF Opened
<1>2. "id" \in DOMAIN first /\ first.id = x.types[at].id
  BY <1>1 DEF Sound, HasIds
<1>3. Opened(s, y, at, fp)
  BY <1>2, TypeChanged
<1>4. FillUnion(u, r, fields) = Fill(z, r, "Union")
  BY DEF FillUnion
<1> HIDE DEF y, ir
<1>5. Sound(y) /\ at \in DOMAIN y.types
  BY <1>3 DEF Opened
<1>6. "id" \in DOMAIN last /\ last.id = y.types[at].id
  BY <1>5 DEF Sound, HasIds
<1>7. Opened(s, z, at, fp)
  BY <1>3, <1>6, TypeChanged
<1> HIDE DEF z
<1>8. QED
  BY <1>4, <1>7, FillAnswers

-----------------------------------------------------------------------------
(* The constructors.                                                         *)
Nkl(tclass, parts) == Fingerprint("Nkl", tclass, parts)

LEMMA Answered ==
  ASSUME NEW s, Sound(s), NEW fp, IsNkl(fp), Closed(s, fp.tag), NEW r, r = ByFingerprint(s, fp, 0),
         NEW g, r.inserted => Gives(s, fp, g)
  PROVE  Gives(s, fp, IF r.inserted THEN g ELSE Got(s, r.at))
<1>1. CASE fp \in DOMAIN s.map
  BY <1>1, FoundAnswers
<1>2. CASE fp \notin DOMAIN s.map
  BY <1>2, BegunOpens
<1>3. QED
  BY <1>1, <1>2

LEMMA Begun ==
  ASSUME NEW s, Sound(s), NEW fp, NEW r, r = ByFingerprint(s, fp, 0), r.inserted
  PROVE  /\ Opened(s, r.s, r.at, fp) /\ r.id = s.nextId
         /\ Sound(r.s) /\ r.at \in DOMAIN r.s.types
<1>1. fp \notin DOMAIN s.map
  BY DEF ByFingerprint
<1>2. Opened(s, r.s, r.at, fp) /\ r.id = s.nextId
  BY <1>1, BegunOpens
<1>3. QED
  BY <1>2 DEF Opened

LEMMA NumericGiven ==
  ASSUME NEW s, Sound(s), Closed(s, "Numeric"), NEW num
  PROVE  Gives(s, Nkl("Numeric", <<num.code>>), GetNumeric(s, num))
<1> DEFINE fp == Nkl("Numeric", <<num.code>>)
           r == ByFingerprint(s, fp, 0)
           x == GetIrNumeric(r.s, r.at, num)
<1>1. GetNumeric(s, num) = IF r.inserted THEN Fill(x, r, "Numeric") ELSE Got(s, r.at)
  BY DEF GetNumeric, Interned, AndThen, Nkl
<1>2. IsNkl(fp) /\ fp.tag = "Numeric"
  BY DEF IsNkl, Fingerprint, Nkl
<1> SUFFICES Gives(s, fp, GetNumeric(s, num))
  OBVIOUS
<1> HIDE DEF fp, r
<1>3. ASSUME r.inserted PROVE Gives(s, fp, Fill(x, r, "Numeric"))
  <2>1. /\ Opened(s, r.s, r.at, fp) /\ r.id = s.nextId
        /\ Sound(r.s) /\ r.at \in DOMAIN r.s.types
    BY <1>3, Begun DEF r
  <2>2. Sound(x) /\ Grows(r.s, x)
    BY <2>1, IrGrows DEF GetIrNumeric
  <2> HIDE DEF x
  <2>3. Opened(s, x, r.at, fp)
    BY <2>1, <2>2, OpenedOn
  <2>4. QED
    BY <2>1, <2>3, FillAnswers
<1>4. QED
  BY <1>1, <1>2, <1>3, Answered DEF r

LEMMA ArrayGiven ==
  ASSUME NEW s, Sound(s), Closed(s, "Array"), NEW elem, NEW count
  PROVE  Gives(s, Nkl("Array", <<s.types[elem].id, count>>), GetArray(s, elem, count))
<1> DEFINE fp == Nkl("Array", <<s.types[elem].id, count>>)
           r == ByFingerprint(s, fp, 0)
           x == GetIrAggregate(r.s, r.at, Layout(r.s, <<elem>>, <<count>>))
<1>1. GetArray(s, elem, count) = IF r.inserted THEN Fill(x, r, "Array") ELSE Got(s, r.at)
  BY DEF GetArray, Interned, AndThen, Nkl
<1>2. IsNkl(fp) /\ fp.tag = "Array"
  BY DEF IsNkl, Fingerprint, Nkl
<1> SUFFICES Gives(s, fp, GetArray(s, elem, count))
  OBVIOUS
<1> HIDE DEF fp, r
<1>3. ASSUME r.inserted PROVE Gives(s, fp, Fill(x, r, "Array"))
  <2>1. /\ Opened(s, r.s, r.at, fp) /\ r.id = s.nextId
        /\ Sound(r.s) /\ r.at \in DOMAIN r.s.types
    BY <1>3, Begun DEF r
  <2>2. Sound(x) /\ Grows(r.s, x)
    BY <2>1, IrGrows DEF GetIrAggregate
  <2> HIDE DEF x
  <2>3. Opened(s, x, r.at, fp)
    BY <2>1, <2>2, OpenedOn
  <2>4. QED
    BY <2>1, <2>3, FillAnswers
<1>4. QED
  BY <1>1, <1>2, <1>3, Answered DEF r

LEMMA TupleGiven ==
  ASSUME NEW s, Sound(s), Closed(s, "Tuple"), NEW ts
  PROVE  Gives(s, Nkl("Tuple", <<Len(ts)>> \o Ids(s, ts)), GetTuple(s, ts))
<1> DEFINE fp == Nkl("Tuple", <<Len(ts)>> \o Ids(s, ts))
           r == ByFingerprint(s, fp, 0)
           x == GetIrAggregate(r.s, r.at, Layout(r.s, ts, [i \in DOMAIN ts |-> 1]))
<1>1. GetTuple(s, ts) = IF r.inserted THEN Fill(x, r, "Tuple") ELSE Got(s, r.at)
  BY DEF GetTuple, Interned, AndThen, Nkl
<1>2. IsNkl(fp) /\ fp.tag = "Tuple"
  BY DEF IsNkl, Fingerprint, Nkl
<1> SUFFICES Gives(s, fp, GetTuple(s, ts))
  OBVIOUS
<1> HIDE DEF fp, r
<1>3. ASSUME r.inserted PROVE Gives(s, fp, Fill(x, r, "Tuple"))
  <2>1. /\ Opened(s, r.s, r.at, fp) /\ r.id = s.nextId
        /\ Sound(r.s) /\ r.at \in DOMAIN r.s.types
    BY <1>3, Begun DEF r
  <2>2. Sound(x) /\ Grows(r.s, x)
    BY <2>1, IrGrows DEF GetIrAggregate
  <2> HIDE DEF x
  <2>3. Opened(s, x, r.at, fp)
    BY <2>1, <2>2, OpenedOn
  <2>4. QED
    BY <2>1, <2>3, FillAnswers
<1>4. QED
  BY <1>1, <1>2, <1>3, Answered DEF r

LEMMA PtrGiven ==
  ASSUME NEW s, Sound(s), Closed(s, "Pointer"), NEW target, NEW const
  PROVE  Gives(s, Nkl("Pointer", <<s.types[target].id, Bit(const)>>), GetPtr(s, target, const))
<1> DEFINE fp == Nkl("Pointer", <<s.types[target].id, Bit(const)>>)
           r == ByFingerprint(s, fp, 0)
           x == GetIrPtr(r.s, r.at, target)
<1>1. GetPtr(s, target, const) = IF r.inserted THEN FillPtr(x, r, target, const) ELSE Got(s, r.at)
  BY DEF GetPtr, Interned, AndThen, Nkl
<1>2. IsNkl(fp) /\ fp.tag = "Pointer"
  BY DEF IsNkl, Fingerprint, Nkl
<1> SUFFICES Gives(s, fp, GetPtr(s, target, const))
  OBVIOUS
<1> HIDE DEF fp, r
<1>3. ASSUME r.inserted PROVE Gives(s, fp, FillPtr(x, r, target, const))
  <2>1. /\ Opened(s, r.s, r.at, fp) /\ r.id = s.nextId
        /\ Sound(r.s) /\ r.at \in DOMAIN r.s.types
    BY <1>3, Begun DEF r
  <2>2. Sound(x) /\ Grows(r.s, x)
    BY <2>1, IrGrows DEF GetIrPtr
  <2> HIDE DEF x
  <2>3. Opened(s, x, r.at, fp)
    BY <2>1, <2>2, OpenedOn
  <2>4. QED
    BY <2>1, <2>3, FillPtrAnswers
<1>4. QED
  BY <1>1, <1>2, <1>3, Answered DEF r

LEMMA ProcGiven ==
  ASSUME NEW s, Sound(s), Closed(s, "Procedure"), NEW params, NEW ret
  PROVE  Gives(s, Nkl("Procedure", ProcParts(s, params, ret)), GetProc(s, params, ret))
<1> DEFINE fp == Nkl("Procedure", ProcParts(s, params, ret))
           r == ByFingerprint(s, fp, 0)
           x == GetIrProc(r.s, r.at, params, ret)
<1>1. GetProc(s, params, ret) = IF r.inserted THEN Fill(x, r, "Procedure") ELSE Got(s, r.at)
  BY DEF GetProc, Interned, AndThen, Nkl
<1>2. IsNkl(fp) /\ fp.tag = "Procedure"
  BY DEF IsNkl, Fingerprint, Nkl
<1> SUFFICES Gives(s, fp, GetProc(s, params, ret))
  OBVIOUS
<1> HIDE DEF fp, r
<1>3. ASSUME r.inserted PROVE Gives(s, fp, Fill(x, r, "Procedure"))
  <2>1. /\ Opened(s, r.s, r.at, fp) /\ r.id = s.nextId
        /\ Sound(r.s) /\ r.at \in DOMAIN r.s.types
    BY <1>3, Begun DEF r
  <2>2. Sound(x) /\ Grows(r.s, x)
    BY <2>1, IrGrows DEF GetIrProc
  <2> HIDE DEF x
  <2>3. Opened(s, x, r.at, fp)
    BY <2>1, <2>2, OpenedOn
  <2>4. QED
    BY <2>1, <2>3, FillAnswers
<1>4. QED
  BY <1>1, <1>2, <1>3, Answered DEF r

LEMMA NestedGiven ==
  ASSUME NEW s, Sound(s), NEW x, NEW at, NEW fp, Opened(s, x, at, fp), NEW gp, NEW g, Gives(x, gp, g)
  PROVE  Opened(s, g.s, at, fp) /\ g.at \in DOMAIN g.s.types
<1>1. Sound(g.s) /\ Grows(x, g.s) /\ g.at \in DOMAIN g.s.types
  BY DEF Gives
<1>2. QED
  BY <1>1, OpenedOn

LEMMA StillClosed ==
  ASSUME NEW x, Sound(x), NEW gp, NEW g, Gives(x, gp, g), NEW c, Closed(x, c)
  PROVE  Sound(g.s) /\ Closed(g.s, c)
  BY GrowsClosed DEF Gives

LEMMA StructGiven ==
  ASSUME NEW s, Sound(s), Closed(s, "Struct"), Closed(s, "Tuple"), NEW fields
  PROVE  Gives(s, Nkl("Struct", FieldParts(s, fields)), GetStruct(s, fields))
<1> DEFINE fp == Nkl("Struct", FieldParts(s, fields))
           r == ByFingerprint(s, fp, 0)
           tuple == GetTuple(r.s, FieldTypes(fields))
<1>1. GetStruct(s, fields) = IF r.inserted THEN FillFields(tuple, r, fields) ELSE Got(s, r.at)
  BY DEF GetStruct, Interned, AndThen, Nkl
<1>2. IsNkl(fp) /\ fp.tag = "Struct"
  BY DEF IsNkl, Fingerprint, Nkl
<1> SUFFICES Gives(s, fp, GetStruct(s, fields))
  OBVIOUS
<1> HIDE DEF fp, r, tuple
<1>3. ASSUME r.inserted PROVE Gives(s, fp, FillFields(tuple, r, fields))
  <2>1. /\ Opened(s, r.s, r.at, fp) /\ r.id = s.nextId
        /\ Sound(r.s) /\ r.at \in DOMAIN r.s.types
    BY <1>3, Begun DEF r
  <2>2. Closed(r.s, "Tuple")
    BY <1>2, <2>1, OpenedClosed
  <2>3. \E gp : Gives(r.s, gp, tuple)
    BY <2>1, <2>2, TupleGiven DEF tuple
  <2>4. Opened(s, tuple.s, r.at, fp) /\ tuple.at \in DOMAIN tuple.s.types
    BY <2>1, <2>3, NestedGiven
  <2>5. QED
    BY <2>1, <2>4, FillFieldsAnswers
<1>4. QED
  BY <1>1, <1>2, <1>3, Answered DEF r

LEMMA UnionGiven ==
  ASSUME NEW s, Sound(s), Closed(s, "Union"), Closed(s, "Tuple"), NEW fields
  PROVE  Gives(s, Nkl("Union", FieldParts(s, fields)), GetUnion(s, fields))
<1> DEFINE fp == Nkl("Union", FieldParts(s, fields))
           r == ByFingerprint(s, fp, 0)
           void == GetVoid(r.s)
<1>1. GetUnion(s, fields) = IF r.inserted THEN FillUnion(void, r, fields) ELSE Got(s, r.at)
  BY DEF GetUnion, Interned, AndThen, Nkl
<1>2. IsNkl(fp) /\ fp.tag = "Union"
  BY DEF IsNkl, Fingerprint, Nkl
<1> SUFFICES Gives(s, fp, GetUnion(s, fields))
  OBVIOUS
<1> HIDE DEF fp, r, void
<1>3. ASSUME r.inserted PROVE Gives(s, fp, FillUnion(void, r, fields))
  <2>1. /\ Opened(s, r.s, r.at, fp) /\ r.id = s.nextId
        /\ Sound(r.s) /\ r.at \in DOMAIN r.s.types
    BY <1>3, Begun DEF r
  <2>2. Closed(r.s, "Tuple")
    BY <1>2, <2>1, OpenedClosed
  <2>3. \E gp : Gives(r.s, gp, void)
    BY <2>1, <2>2, TupleGiven DEF void, GetVoid
  <2>4. Opened(s, void.s, r.at, fp) /\ void.at \in DOMAIN void.s.types
    BY <2>1, <2>3, NestedGiven
  <2>5. QED
    BY <2>1, <2>4, FillUnionAnswers
<1>4. QED
  BY <1>1, <1>2, <1>3, Answered DEF r

LEMMA EnumGiven ==
  ASSUME NEW s, Sound(s), Closed(s, "Enum"), Closed(s, "Union"), Closed(s, "Numeric"), Closed(s, "Struct"), Closed(s, "Tuple"), NEW fields
  PROVE  Gives(s, Nkl("Enum", FieldParts(s, fields)), GetEnum(s, fields))
<1> DEFINE fp == Nkl("Enum", FieldParts(s, fields))
           r == ByFingerprint(s, fp, 0)
           data == GetUnion(r.s, fields)
           tag == GetNumeric(data.s, Uint64)
           pair == Pair(tag.s, DataAtom, data.at, TagAtom, tag.at)
<1>1. GetEnum(s, fields) = IF r.inserted THEN FillFrom(pair, r, "Enum") ELSE Got(s, r.at)
  BY DEF GetEnum, Interned, AndThen, Nkl
<1>2. IsNkl(fp) /\ fp.tag = "Enum"
  BY DEF IsNkl, Fingerprint, Nkl
<1> SUFFICES Gives(s, fp, GetEnum(s, fields))
  OBVIOUS
<1> HIDE DEF fp, r, data, tag, pair
<1>3. ASSUME r.inserted PROVE Gives(s, fp, FillFrom(pair, r, "Enum"))
  <2>1. /\ Opened(s, r.s, r.at, fp) /\ r.id = s.nextId
        /\ Sound(r.s) /\ r.at \in DOMAIN r.s.types
    BY <1>3, Begun DEF r
  <2>2. Closed(r.s, "Union") /\ Closed(r.s, "Numeric") /\ Closed(r.s, "Struct") /\ Closed(r.s, "Tuple")
    BY <1>2, <2>1, OpenedClosed
  <2>3. \E gp : Gives(r.s, gp, data)
    BY <2>1, <2>2, UnionGiven DEF data
  <2>4. Opened(s, data.s, r.at, fp) /\ data.at \in DOMAIN data.s.types
    BY <2>1, <2>3, NestedGiven
  <2>5. Sound(data.s) /\ Closed(data.s, "Union") /\ Closed(data.s, "Numeric") /\ Closed(data.s, "Struct") /\ Closed(data.s, "Tuple")
    BY <2>1, <2>2, <2>3, StillClosed
  <2>6. \E gp : Gives(data.s, gp, tag)
    BY <2>5, <2>5, NumericGiven DEF tag
  <2>7. Opened(s, tag.s, r.at, fp) /\ tag.at \in DOMAIN tag.s.types
    BY <2>4, <2>6, NestedGiven
  <2>8. Sound(tag.s) /\ Closed(tag.s, "Union") /\ Closed(tag.s, "Numeric") /\ Closed(tag.s, "Struct") /\ Closed(tag.s, "Tuple")
    BY <2>5, <2>5, <2>6, StillClosed
  <2>9. \E gp : Gives(tag.s, gp, pair)
    BY <2>8, <2>8, StructGiven DEF pair, Pair
  <2>10. Opened(s, pair.s, r.at, fp) /\ pair.at \in DOMAIN pair.s.types
    BY <2>7, <2>9, NestedGiven
  <2>11. QED
    BY <2>1, <2>10, FillFromAnswers
<1>4. QED
  BY <1>1, <1>2, <1>3, Answered DEF r

LEMMA SliceGiven ==
  ASSUME NEW s, Sound(s), Closed(s, "Slice"), Closed(s, "Pointer"), Closed(s, "Numeric"), Closed(s, "Struct"), Closed(s, "Tuple"), NEW target, NEW const
  PROVE  Gives(s, Nkl("Slice", SliceParts(s, target, const)), GetSlice(s, target, const))
<1> DEFINE fp == Nkl("Slice", SliceParts(s, target, const))
           r == ByFingerprint(s, fp, 0)
           data == GetPtr(r.s, target, const)
           size == GetNumeric(data.s, Uint64)
           pair == Pair(size.s, DataAtom, data.at, SizeAtom, size.at)
<1>1. GetSlice(s, target, const) = IF r.inserted THEN FillFrom(pair, r, "Slice") ELSE Got(s, r.at)
  BY DEF GetSlice, Interned, AndThen, Nkl
<1>2. IsNkl(fp) /\ fp.tag = "Slice"
  BY DEF IsNkl, Fingerprint, Nkl
<1> SUFFICES Gives(s, fp, GetSlice(s, target, const))
  OBVIOUS
<1> HIDE DEF fp, r, data, size, pair
<1>3. ASSUME r.inserted PROVE Gives(s, fp, FillFrom(pair, r, "Slice"))
  <2>1. /\ Opened(s, r.s, r.at, fp) /\ r.id = s.nextId
        /\ Sound(r.s) /\ r.at \in DOMAIN r.s.types
    BY <1>3, Begun DEF r
  <2>2. Closed(r.s, "Pointer") /\ Closed(r.s, "Numeric") /\ Closed(r.s, "Struct") /\ Closed(r.s, "Tuple")
    BY <1>2, <2>1, OpenedClosed
  <2>3. \E gp : Gives(r.s, gp, data)
    BY <2>1, <2>2, PtrGiven DEF data
  <2>4. Opened(s, data.s, r.at, fp) /\ data.at \in DOMAIN data.s.types
    BY <2>1, <2>3, NestedGiven
  <2>5. Sound(data.s) /\ Closed(data.s, "Pointer") /\ Closed(data.s, "Numeric") /\ Closed(data.s, "Struct") /\ Closed(data.s, "Tuple")
    BY <2>1, <2>2, <2>3, StillClosed
  <2>6. \E gp : Gives(data.s, gp, size)
    BY <2>5, <2>5, NumericGiven DEF size
  <2>7. Opened(s, size.s, r.at, fp) /\ size.at \in DOMAIN size.s.types
    BY <2>4, <2>6, NestedGiven
  <2>8. Sound(size.s) /\ Closed(size.s, "Pointer") /\ Closed(size.s, "Numeric") /\ Closed(size.s, "Struct") /\ Closed(size.s, "Tuple")
    BY <2>5, <2>5, <2>6, StillClosed
  <2>9. \E gp : Gives(size.s, gp, pair)
    BY <2>8, <2>8, StructGiven DEF pair, Pair
  <2>10. Opened(s, pair.s, r.at, fp) /\ pair.at \in DOMAIN pair.s.types
    BY <2>7, <2>9, NestedGiven
  <2>11. QED
    BY <2>1, <2>10, FillFromAnswers
<1>4. QED
  BY <1>1, <1>2, <1>3, Answered DEF r

LEMMA BoolGiven ==
  ASSUME NEW s, Sound(s), Closed(s, "Bool"), Closed(s, "Numeric")
  PROVE  Gives(s, Nkl("Bool", <<>>), GetBool(s))
<1> DEFINE fp == Nkl("Bool", <<>>)
           r == ByFingerprint(s, fp, 0)
           num == GetNumeric(r.s, Int8)
<1>1. GetBool(s) = IF r.inserted THEN FillFrom(num, r, "Bool") ELSE Got(s, r.at)
  BY DEF GetBool, Interned, AndThen, Nkl
<1>2. IsNkl(fp) /\ fp.tag = "Bool"
  BY DEF IsNkl, Fingerprint, Nkl
<1> SUFFICES Gives(s, fp, GetBool(s))
  OBVIOUS
<1> HIDE DEF fp, r, num
<1>3. ASSUME r.inserted PROVE Gives(s, fp, FillFrom(num, r, "Bool"))
  <2>1. /\ Opened(s, r.s, r.at, fp) /\ r.id = s.nextId
        /\ Sound(r.s) /\ r.at \in DOMAIN r.s.types
    BY <1>3, Begun DEF r
  <2>2. Closed(r.s, "Numeric")
    BY <1>2, <2>1, OpenedClosed
  <2>3. \E gp : Gives(r.s, gp, num)
    BY <2>1, <2>2, NumericGiven DEF num
  <2>4. Opened(s, num.s, r.at, fp) /\ num.at \in DOMAIN num.s.types
    BY <2>1, <2>3, NestedGiven
  <2>5. QED
    BY <2>1, <2>4, FillFromAnswers
<1>4. QED
  BY <1>1, <1>2, <1>3, Answered DEF r

LEMMA TyperefGiven ==
  ASSUME NEW s, Sound(s), Closed(s, "Typeref"), Closed(s, "Tuple"), Closed(s, "Pointer")
  PROVE  Gives(s, Nkl("Typeref", <<>>), GetTyperef(s))
<1> DEFINE fp == Nkl("Typeref", <<>>)
           r == ByFingerprint(s, fp, 0)
           void == GetVoid(r.s)
           ptr == GetPtr(void.s, void.at, TRUE)
<1>1. GetTyperef(s) = IF r.inserted THEN FillFrom(ptr, r, "Typeref") ELSE Got(s, r.at)
  BY DEF GetTyperef, Interned, AndThen, Nkl
<1>2. IsNkl(fp) /\ fp.tag = "Typeref"
  BY DEF IsNkl, Fingerprint, Nkl
<1> SUFFICES Gives(s, fp, GetTyperef(s))
  OBVIOUS
<1> HIDE DEF fp, r, void, ptr
<1>3. ASSUME r.inserted PROVE Gives(s, fp, FillFrom(ptr, r, "Typeref"))
  <2>1. /\ Opened(s, r.s, r.at, fp) /\ r.id = s.nextId
        /\ Sound(r.s) /\ r.at \in DOMAIN r.s.types
    BY <1>3, Begun DEF r
  <2>2. Closed(r.s, "Tuple") /\ Closed(r.s, "Pointer")
    BY <1>2, <2>1, OpenedClosed
  <2>3. \E gp : Gives(r.s, gp, void)
    BY <2>1, <2>2, TupleGiven DEF void, GetVoid
  <2>4. Opened(s, void.s, r.at, fp) /\ void.at \in DOMAIN void.s.types
    BY <2>1, <2>3, NestedGiven
  <2>5. Sound(void.s) /\ Closed(void.s, "Tuple") /\ Closed(void.s, "Pointer")
    BY <2>1, <2>2, <2>3, StillClosed
  <2>6. \E gp : Gives(void.s, gp, ptr)
    BY <2>5, <2>5, PtrGiven DEF ptr
  <2>7. Opened(s, ptr.s, r.at, fp) /\ ptr.at \in DOMAIN ptr.s.types
    BY <2>4, <2>6, NestedGiven
  <2>8. QED
    BY <2>1, <2>7, FillFromAnswers
<1>4. QED
  BY <1>1, <1>2, <1>3, Answered DEF r

LEMMA AnyGiven ==
  ASSUME NEW s, Sound(s), Closed(s, "Any"), Closed(s, "Tuple"), Closed(s, "Pointer"), Closed(s, "Typeref"), Closed(s, "Struct")
  PROVE  Gives(s, Nkl("Any", <<>>), GetAny(s))
<1> DEFINE fp == Nkl("Any", <<>>)
           r == ByFingerprint(s, fp, 0)
           void == GetVoid(r.s)
           data == GetPtr(void.s, void.at, FALSE)
           type == GetTyperef(data.s)
           pair == Pair(type.s, DataAtom, data.at, TypeAtom, type.at)
<1>1. GetAny(s) = IF r.inserted THEN FillFrom(pair, r, "Any") ELSE Got(s, r.at)
  BY DEF GetAny, Interned, AndThen, Nkl
<1>2. IsNkl(fp) /\ fp.tag = "Any"
  BY DEF IsNkl, Fingerprint, Nkl
<1> SUFFICES Gives(s, fp, GetAny(s))
  OBVIOUS
<1> HIDE DEF fp, r, void, data, type, pair
<1>3. ASSUME r.inserted PROVE Gives(s, fp, FillFrom(pair, r, "Any"))
  <2>1. /\ Opened(s, r.s, r.at, fp) /\ r.id = s.nextId
        /\ Sound(r.s) /\ r.at \in DOMAIN r.s.types
    BY <1>3, Begun DEF r
  <2>2. Closed(r.s, "Tuple") /\ Closed(r.s, "Pointer") /\ Closed(r.s, "Typeref") /\ Closed(r.s, "Struct")
    BY <1>2, <2>1, OpenedClosed
  <2>3. \E gp : Gives(r.s, gp, void)
    BY <2>1, <2>2, TupleGiven DEF void, GetVoid
  <2>4. Opened(s, void.s, r.at, fp) /\ void.at \in DOMAIN void.s.types
    BY <2>1, <2>3, NestedGiven
  <2>5. Sound(void.s) /\ Closed(void.s, "Tuple") /\ Closed(void.s, "Pointer") /\ Closed(void.s, "Typeref") /\ Closed(void.s, "Struct")
    BY <2>1, <2>2, <2>3, StillClosed
  <2>6. \E gp : Gives(void.s, gp, data)
    BY <2>5, <2>5, PtrGiven DEF data
  <2>7. Opened(s, data.s, r.at, fp) /\ data.at \in DOMAIN data.s.types
    BY <2>4, <2>6, NestedGiven
  <2>8. Sound(data.s) /\ Closed(data.s, "Tuple") /\ Closed(data.s, "Pointer") /\ Closed(data.s, "Typeref") /\ Closed(data.s, "Struct")
    BY <2>5, <2>5, <2>6, StillClosed
  <2>9. \E gp : Gives(data.s, gp, type)
    BY <2>8, <2>8, TyperefGiven DEF type
  <2>10. Opened(s, type.s, r.at, fp) /\ type.at \in DOMAIN type.s.types
    BY <2>7, <2>9, NestedGiven
  <2>11. Sound(type.s) /\ Closed(type.s, "Tuple") /\ Closed(type.s, "Pointer") /\ Closed(type.s, "Typeref") /\ Closed(type.s, "Struct")
    BY <2>8, <2>8, <2>9, StillClosed
  <2>12. \E gp : Gives(type.s, gp, pair)
    BY <2>11, <2>11, StructGiven DEF pair, Pair
  <2>13. Opened(s, pair.s, r.at, fp) /\ pair.at \in DOMAIN pair.s.types
    BY <2>10, <2>12, NestedGiven
  <2>14. QED
    BY <2>1, <2>13, FillFromAnswers
<1>4. QED
  BY <1>1, <1>2, <1>3, Answered DEF r

-----------------------------------------------------------------------------
(* The parts of fingerprints, written out.                                   *)
LEMMA PairFlat ==
  ASSUME NEW p, NEW q
  PROVE  FlattenSeq(<<p, q>>) = p \o q
<1> DEFINE seqs == <<p, q>>
           Flat(f, i) == IF i = 1 THEN seqs[i] ELSE f[i - 1] \o seqs[i]
           g == [i \in 1..Len(seqs) |-> IF i = 1 THEN p ELSE p \o q]
           flatten == CHOOSE f : f = [i \in 1..Len(seqs) |-> Flat(f, i)]
<1>1. FlattenSeq(seqs) = flatten[2]
  BY DEF FlattenSeq
<1>2. g = [i \in 1..Len(seqs) |-> Flat(g, i)]
  OBVIOUS
<1>3. flatten = [i \in 1..Len(seqs) |-> Flat(flatten, i)]
  <2> HIDE DEF g, Flat, seqs
  <2>1. QED
  BY <1>2
<1> HIDE DEF flatten
<1>4. flatten[1] = p /\ flatten[2] = flatten[1] \o q
  BY <1>3
<1>5. QED
  BY <1>1, <1>4

LEMMA Concatenated ==
  ASSUME NEW S, NEW p \in Seq(S), NEW q \in Seq(S), NEW z \in Seq(S),
         Len(z) = Len(p) + Len(q),
         \A i \in 1..Len(p) : z[i] = p[i],
         \A i \in 1..Len(q) : z[Len(p) + i] = q[i]
  PROVE  p \o q = z
<1>1. Len(p) \in Nat /\ Len(q) \in Nat /\ p \o q \in Seq(S) /\ Len(p \o q) = Len(z)
  BY ConcatProperties
<1>2. ASSUME NEW i \in 1..Len(z) PROVE (p \o q)[i] = z[i]
  <2>1. CASE i <= Len(p)
    BY <1>1, <2>1, ConcatProperties
  <2>2. CASE ~(i <= Len(p))
    <3>1. i - Len(p) \in 1..Len(q) /\ Len(p) + (i - Len(p)) = i
      BY <1>1, <2>2
    <3>2. z[Len(p) + (i - Len(p))] = q[i - Len(p)]
      BY <3>1
    <3>3. (p \o q)[i] = q[i - Len(p)]
      BY <1>1, <2>2, ConcatProperties
    <3>4. QED
      BY <3>1, <3>2, <3>3
  <2>3. QED
    BY <2>1, <2>2
<1>3. QED
  BY <1>1, <1>2, SeqEqual

LEMMA Tuples ==
  ASSUME NEW a, NEW b, NEW c
  PROVE  /\ <<a>> \o <<b>> = <<a, b>>
         /\ <<a>> \o <<b, c>> = <<a, b, c>>
         /\ <<a, b>> \o <<c>> = <<a, b, c>>
<1> DEFINE S == {a, b, c}
<1>1. /\ <<a>> \in Seq(S) /\ Len(<<a>>) = 1
      /\ <<b>> \in Seq(S) /\ Len(<<b>>) = 1
      /\ <<c>> \in Seq(S) /\ Len(<<c>>) = 1
      /\ <<a, b>> \in Seq(S) /\ Len(<<a, b>>) = 2
      /\ <<b, c>> \in Seq(S) /\ Len(<<b, c>>) = 2
      /\ <<a, b, c>> \in Seq(S) /\ Len(<<a, b, c>>) = 3
  OBVIOUS
<1> HIDE DEF S
<1>2. <<a>> \o <<b>> = <<a, b>>
  <2> DEFINE p == <<a>>
             q == <<b>>
             z == <<a, b>>
  <2>1. p \in Seq(S) /\ q \in Seq(S) /\ z \in Seq(S) /\ Len(z) = Len(p) + Len(q)
    BY <1>1
  <2>2. Len(p) = 1 /\ \A i \in 1..1 : z[i] = p[i]
    OBVIOUS
  <2>3. Len(q) = 1 /\ \A i \in 1..1 : z[1 + i] = q[i]
    OBVIOUS
  <2> HIDE DEF p, q, z
  <2>4. p \o q = z
    <3>1. (\A i \in 1..Len(p) : z[i] = p[i]) /\ \A i \in 1..Len(q) : z[Len(p) + i] = q[i]
      BY <2>2, <2>3
    <3>2. QED
      BY <2>1, <3>1, Concatenated, Zenon
  <2>5. QED
    BY <2>4 DEF p, q, z
<1>3. <<a>> \o <<b, c>> = <<a, b, c>>
  <2> DEFINE p == <<a>>
             q == <<b, c>>
             z == <<a, b, c>>
  <2>1. p \in Seq(S) /\ q \in Seq(S) /\ z \in Seq(S) /\ Len(z) = Len(p) + Len(q)
    BY <1>1
  <2>2. Len(p) = 1 /\ \A i \in 1..1 : z[i] = p[i]
    OBVIOUS
  <2>3. Len(q) = 2 /\ \A i \in 1..2 : z[1 + i] = q[i]
    OBVIOUS
  <2> HIDE DEF p, q, z
  <2>4. p \o q = z
    <3>1. (\A i \in 1..Len(p) : z[i] = p[i]) /\ \A i \in 1..Len(q) : z[Len(p) + i] = q[i]
      BY <2>2, <2>3
    <3>2. QED
      BY <2>1, <3>1, Concatenated, Zenon
  <2>5. QED
    BY <2>4 DEF p, q, z
<1>4. <<a, b>> \o <<c>> = <<a, b, c>>
  <2> DEFINE p == <<a, b>>
             q == <<c>>
             z == <<a, b, c>>
  <2>1. p \in Seq(S) /\ q \in Seq(S) /\ z \in Seq(S) /\ Len(z) = Len(p) + Len(q)
    BY <1>1
  <2>2. Len(p) = 2 /\ \A i \in 1..2 : z[i] = p[i]
    OBVIOUS
  <2>3. Len(q) = 1 /\ \A i \in 1..1 : z[2 + i] = q[i]
    OBVIOUS
  <2> HIDE DEF p, q, z
  <2>4. p \o q = z
    <3>1. (\A i \in 1..Len(p) : z[i] = p[i]) /\ \A i \in 1..Len(q) : z[Len(p) + i] = q[i]
      BY <2>2, <2>3
    <3>2. QED
      BY <2>1, <3>1, Concatenated, Zenon
  <2>5. QED
    BY <2>4 DEF p, q, z
<1>5. QED
  BY <1>2, <1>3, <1>4

LEMMA PairsJoined ==
  ASSUME NEW a, NEW b, NEW c, NEW d
  PROVE  /\ <<a, b>> \o <<c, d>> = <<a, b, c, d>>
<1> DEFINE S == {a, b, c, d}
<1>1. /\ <<a, b>> \in Seq(S) /\ Len(<<a, b>>) = 2
      /\ <<c, d>> \in Seq(S) /\ Len(<<c, d>>) = 2
      /\ <<a, b, c, d>> \in Seq(S) /\ Len(<<a, b, c, d>>) = 4
  OBVIOUS
<1> HIDE DEF S
<1>2. <<a, b>> \o <<c, d>> = <<a, b, c, d>>
  <2> DEFINE p == <<a, b>>
             q == <<c, d>>
             z == <<a, b, c, d>>
  <2>1. p \in Seq(S) /\ q \in Seq(S) /\ z \in Seq(S) /\ Len(z) = Len(p) + Len(q)
    BY <1>1
  <2>2. Len(p) = 2 /\ \A i \in 1..2 : z[i] = p[i]
    OBVIOUS
  <2>3. Len(q) = 2 /\ \A i \in 1..2 : z[2 + i] = q[i]
    OBVIOUS
  <2> HIDE DEF p, q, z
  <2>4. p \o q = z
    <3>1. (\A i \in 1..Len(p) : z[i] = p[i]) /\ \A i \in 1..Len(q) : z[Len(p) + i] = q[i]
      BY <2>2, <2>3
    <3>2. QED
      BY <2>1, <3>1, Concatenated, Zenon
  <2>5. QED
    BY <2>4 DEF p, q, z
<1>3. QED
  BY <1>2

LEMMA FourAfterOne ==
  ASSUME NEW a, NEW b, NEW c, NEW d, NEW e
  PROVE  /\ <<a>> \o <<b, c, d, e>> = <<a, b, c, d, e>>
<1> DEFINE S == {a, b, c, d, e}
<1>1. /\ <<a>> \in Seq(S) /\ Len(<<a>>) = 1
      /\ <<b, c, d, e>> \in Seq(S) /\ Len(<<b, c, d, e>>) = 4
      /\ <<a, b, c, d, e>> \in Seq(S) /\ Len(<<a, b, c, d, e>>) = 5
  OBVIOUS
<1> HIDE DEF S
<1>2. <<a>> \o <<b, c, d, e>> = <<a, b, c, d, e>>
  <2> DEFINE p == <<a>>
             q == <<b, c, d, e>>
             z == <<a, b, c, d, e>>
  <2>1. p \in Seq(S) /\ q \in Seq(S) /\ z \in Seq(S) /\ Len(z) = Len(p) + Len(q)
    BY <1>1
  <2>2. Len(p) = 1 /\ \A i \in 1..1 : z[i] = p[i]
    OBVIOUS
  <2>3. Len(q) = 4 /\ \A i \in 1..4 : z[1 + i] = q[i]
    OBVIOUS
  <2> HIDE DEF p, q, z
  <2>4. p \o q = z
    <3>1. (\A i \in 1..Len(p) : z[i] = p[i]) /\ \A i \in 1..Len(q) : z[Len(p) + i] = q[i]
      BY <2>2, <2>3
    <3>2. QED
      BY <2>1, <3>1, Concatenated, Zenon
  <2>5. QED
    BY <2>4 DEF p, q, z
<1>3. QED
  BY <1>2

LEMMA TupleParts ==
  ASSUME NEW s, NEW t, NEW u
  PROVE  <<Len(<<t, u>>)>> \o Ids(s, <<t, u>>) = <<2, s.types[t].id, s.types[u].id>>
<1>1. Ids(s, <<t, u>>) = <<s.types[t].id, s.types[u].id>>
  BY DEF Ids
<1>2. Len(<<t, u>>) = 2
  OBVIOUS
<1> DEFINE a == s.types[t].id
           b == s.types[u].id
<1>3. <<2>> \o <<a, b>> = <<2, a, b>>
  BY Tuples, Zenon
<1>4. QED
  BY <1>1, <1>2, <1>3

LEMMA EmptyParts ==
  ASSUME NEW s
  PROVE  <<Len(<<>>)>> \o Ids(s, <<>>) = <<0>>
<1>1. Ids(s, <<>>) = <<>>
  BY DEF Ids
<1>2. <<0>> \in Seq({0})
  OBVIOUS
<1>3. Len(<<>>) = 0
  OBVIOUS
<1>4. <<0>> \o <<>> = <<0>>
  BY <1>2, ConcatEmptySeq
<1>5. QED
  BY <1>1, <1>3, <1>4

LEMMA ProcPartsOfPair ==
  ASSUME NEW s, NEW t, NEW u
  PROVE  ProcParts(s, Tail(<<t, u>>), t) = <<1, s.types[u].id, s.types[t].id>>
<1> DEFINE a == s.types[t].id
           b == s.types[u].id
<1>1. Tail(<<t, u>>) = <<u>> /\ Len(<<u>>) = 1
  OBVIOUS
<1>2. Ids(s, <<u>>) = <<b>>
  BY DEF Ids
<1>3. <<1>> \o <<b>> = <<1, b>> /\ <<1, b>> \o <<a>> = <<1, b, a>>
  BY Tuples, Zenon
<1>4. ProcParts(s, <<u>>, t) = (<<1>> \o <<b>>) \o <<a>>
  BY <1>1, <1>2 DEF ProcParts
<1>5. QED
  BY <1>1, <1>3, <1>4

LEMMA FieldPartsOfPair ==
  ASSUME NEW s, NEW t, NEW u
  PROVE  FieldParts(s, Fields(<<t, u>>)) = <<2, FieldNames[1], s.types[t].id, FieldNames[2], s.types[u].id>>
<1> DEFINE a == s.types[t].id
           b == s.types[u].id
           n == FieldNames[1]
           m == FieldNames[2]
           fields == <<Field(n, t), Field(m, u)>>
           parts == [i \in DOMAIN fields |-> <<fields[i].name, s.types[fields[i].type].id>>]
<1>1. Fields(<<t, u>>) = fields
  BY DEF Fields
<1>2. parts = <<<<n, a>>, <<m, b>>>>
  BY DEF Field
<1>3. Len(fields) = 2
  OBVIOUS
<1>4. FlattenSeq(parts) = <<n, a>> \o <<m, b>>
  BY <1>2, PairFlat, Zenon
<1>5. <<n, a>> \o <<m, b>> = <<n, a, m, b>> /\ <<2>> \o <<n, a, m, b>> = <<2, n, a, m, b>>
  <2> HIDE DEF n, m, a, b
  <2>1. <<n, a>> \o <<m, b>> = <<n, a, m, b>>
    BY PairsJoined, Zenon
  <2>2. <<2>> \o <<n, a, m, b>> = <<2, n, a, m, b>>
    BY FourAfterOne, Zenon
  <2>3. QED
    BY <2>1, <2>2
<1>6. FieldParts(s, fields) = <<Len(fields)>> \o FlattenSeq(parts)
  BY DEF FieldParts
<1> HIDE DEF parts, fields
<1>7. QED
  BY <1>1, <1>3, <1>4, <1>5, <1>6

-----------------------------------------------------------------------------
(* The fingerprint of a request.                                             *)
Id(s, t) == s.types[t].id
KeyParts(s, q) ==
  CASE q.tclass = "Numeric" -> <<q.n>>
    [] q.tclass = "Array" -> <<Id(s, q.types[1]), q.n>>
    [] q.tclass \in {"Pointer", "Slice"} -> <<Id(s, q.types[1]), Bit(q.const)>>
    [] q.tclass = "Tuple" /\ q.types = <<>> -> <<0>>
    [] q.tclass = "Tuple" /\ q.types # <<>> -> <<2, Id(s, q.types[1]), Id(s, q.types[2])>>
    [] q.tclass = "Procedure" -> <<1, Id(s, q.types[2]), Id(s, q.types[1])>>
    [] q.tclass \in {"Struct", "Union", "Enum"} ->
         <<2, FieldNames[1], Id(s, q.types[1]), FieldNames[2], Id(s, q.types[2])>>
    [] OTHER -> <<>>
Key(s, q) == Nkl(q.tclass, KeyParts(s, q))

AsksNumeric(q) == \E num \in Numerics : q = Request("Numeric", <<>>, num.code, FALSE)
AsksPlain(q) == \E c \in {"Bool", "Typeref", "Any", "Tuple"} : q = Request(c, <<>>, 0, FALSE)
AsksArray(q, D) == \E t \in D, n \in Counts : q = Request("Array", <<t>>, n, FALSE)
AsksRef(q, D) ==
  \E c \in {"Pointer", "Slice"}, t \in D, const \in BOOLEAN : q = Request(c, <<t>>, 0, const)
AsksPair(q, D) ==
  \E c \in {"Tuple", "Procedure", "Struct", "Union", "Enum"}, t \in D, u \in D : q = Request(c, <<t, u>>, 0, FALSE)
Asked(q, D) == AsksNumeric(q) \/ AsksPlain(q) \/ AsksArray(q, D) \/ AsksRef(q, D) \/ AsksPair(q, D)

Filled(s) == \A t \in DOMAIN s.types : s.types[t].id # 0

LEMMA FilledClosed ==
  ASSUME NEW s, Sound(s), Filled(s), NEW c
  PROVE  Closed(s, c)
  BY DEF Filled, Closed, Sound, MapsToTypes

LEMMA AnswerGiven ==
  ASSUME NEW s, Sound(s), Filled(s), NEW q, Asked(q, DOMAIN s.types)
  PROVE  Gives(s, Key(s, q), Answer(s, q))
<1>1. \A c : Closed(s, c)
  BY FilledClosed
<1>2. CASE AsksNumeric(q)
  <2>1. PICK num \in Numerics : q = Request("Numeric", <<>>, num.code, FALSE)
    BY <1>2 DEF AsksNumeric
  <2> DEFINE one == CHOOSE m \in Numerics : m.code = q.n
  <2>2. q.tclass = "Numeric" /\ q.n = num.code
    BY <2>1 DEF Request
  <2>3. one.code = q.n
    BY <2>2
  <2> HIDE DEF one
  <2>4. Answer(s, q) = GetNumeric(s, one)
    BY <2>2 DEF Answer, one
  <2>5. Key(s, q) = Nkl("Numeric", <<one.code>>)
    BY <2>2, <2>3 DEF Key, KeyParts
  <2>6. QED
    BY <1>1, <2>4, <2>5, NumericGiven
<1>3. CASE AsksPlain(q)
  <2>1. PICK c \in {"Bool", "Typeref", "Any", "Tuple"} : q = Request(c, <<>>, 0, FALSE)
    BY <1>3 DEF AsksPlain
  <2>2. q.tclass = c /\ q.types = <<>>
    BY <2>1 DEF Request
  <2>3. CASE c = "Bool"
    <3>1. Answer(s, q) = GetBool(s) /\ Key(s, q) = Nkl("Bool", <<>>)
      BY <2>2, <2>3 DEF Answer, Key, KeyParts
    <3>2. QED
      BY <1>1, <3>1, BoolGiven
  <2>4. CASE c = "Typeref"
    <3>1. Answer(s, q) = GetTyperef(s) /\ Key(s, q) = Nkl("Typeref", <<>>)
      BY <2>2, <2>4 DEF Answer, Key, KeyParts
    <3>2. QED
      BY <1>1, <3>1, TyperefGiven
  <2>5. CASE c = "Any"
    <3>1. Answer(s, q) = GetAny(s) /\ Key(s, q) = Nkl("Any", <<>>)
      BY <2>2, <2>5 DEF Answer, Key, KeyParts
    <3>2. QED
      BY <1>1, <3>1, AnyGiven
  <2>6. CASE c = "Tuple"
    <3>1. Answer(s, q) = GetTuple(s, <<>>) /\ Key(s, q) = Nkl("Tuple", <<0>>)
      BY <2>2, <2>6 DEF Answer, Key, KeyParts
    <3>2. Gives(s, Nkl("Tuple", <<Len(<<>>)>> \o Ids(s, <<>>)), GetTuple(s, <<>>))
      BY <1>1, TupleGiven
    <3>3. QED
      BY <3>1, <3>2, EmptyParts
  <2>7. QED
    BY <2>3, <2>4, <2>5, <2>6
<1>4. CASE AsksArray(q, DOMAIN s.types)
  <2>1. PICK t \in DOMAIN s.types, n \in Counts : q = Request("Array", <<t>>, n, FALSE)
    BY <1>4 DEF AsksArray
  <2>2. q.tclass = "Array" /\ q.types[1] = t /\ q.n = n
    BY <2>1 DEF Request
  <2>3. Answer(s, q) = GetArray(s, t, n)
    BY <2>2 DEF Answer
  <2>4. Key(s, q) = Nkl("Array", <<s.types[t].id, n>>)
    BY <2>2 DEF Key, KeyParts, Id
  <2>5. QED
    BY <1>1, <2>3, <2>4, ArrayGiven
<1>5. CASE AsksRef(q, DOMAIN s.types)
  <2>1. PICK c \in {"Pointer", "Slice"}, t \in DOMAIN s.types, const \in BOOLEAN : q = Request(c, <<t>>, 0, const)
    BY <1>5 DEF AsksRef
  <2>2. q.tclass = c /\ q.types[1] = t /\ q.const = const
    BY <2>1 DEF Request
  <2>3. CASE c = "Pointer"
    <3>1. Answer(s, q) = GetPtr(s, t, const)
      BY <2>2, <2>3 DEF Answer
    <3>2. Key(s, q) = Nkl("Pointer", <<s.types[t].id, Bit(const)>>)
      BY <2>2, <2>3 DEF Key, KeyParts, Id
    <3>3. QED
      BY <1>1, <3>1, <3>2, PtrGiven
  <2>4. CASE c = "Slice"
    <3>1. Answer(s, q) = GetSlice(s, t, const)
      BY <2>2, <2>4 DEF Answer
    <3>2. Key(s, q) = Nkl("Slice", SliceParts(s, t, const))
      BY <2>2, <2>4 DEF Key, KeyParts, Id, SliceParts
    <3>3. QED
      BY <1>1, <3>1, <3>2, SliceGiven
  <2>5. QED
    BY <2>3, <2>4
<1>6. CASE AsksPair(q, DOMAIN s.types)
  <2>1. PICK c \in {"Tuple", "Procedure", "Struct", "Union", "Enum"}, t \in DOMAIN s.types, u \in DOMAIN s.types :
             q = Request(c, <<t, u>>, 0, FALSE)
    BY <1>6 DEF AsksPair
  <2>2. /\ q.tclass = c /\ q.types = <<t, u>> /\ q.types[1] = t /\ q.types[2] = u
        /\ q.types # <<>>
    BY <2>1 DEF Request
  <2>3. CASE c = "Tuple"
    <3>1. Answer(s, q) = GetTuple(s, <<t, u>>)
      BY <2>2, <2>3 DEF Answer
    <3>2. Key(s, q) = Nkl("Tuple", <<2, s.types[t].id, s.types[u].id>>)
      BY <2>2, <2>3 DEF Key, KeyParts, Id
    <3>3. Gives(s, Nkl("Tuple", <<Len(<<t, u>>)>> \o Ids(s, <<t, u>>)), GetTuple(s, <<t, u>>))
      BY <1>1, TupleGiven
    <3>4. QED
      BY <3>1, <3>2, <3>3, TupleParts
  <2>4. CASE c = "Procedure"
    <3>1. Answer(s, q) = GetProc(s, Tail(<<t, u>>), t)
      BY <2>2, <2>4 DEF Answer
    <3>2. Key(s, q) = Nkl("Procedure", <<1, s.types[u].id, s.types[t].id>>)
      BY <2>2, <2>4 DEF Key, KeyParts, Id
    <3>3. QED
      BY <1>1, <3>1, <3>2, ProcGiven, ProcPartsOfPair
  <2> DEFINE fields == Fields(<<t, u>>)
  <2>5. CASE c \in {"Struct", "Union", "Enum"}
    <3>1. Key(s, q) = Nkl(c, FieldParts(s, fields))
      BY <2>2, <2>5, FieldPartsOfPair DEF Key, KeyParts, Id
    <3>2. Fields(q.types) = fields
      BY <2>2
    <3> HIDE DEF fields
    <3>3. CASE c = "Struct"
      <4>1. Answer(s, q) = GetStruct(s, fields)
        BY <2>2, <3>2, <3>3 DEF Answer
      <4>2. QED
        BY <1>1, <3>1, <3>3, <4>1, StructGiven
    <3>4. CASE c = "Union"
      <4>1. Answer(s, q) = GetUnion(s, fields)
        BY <2>2, <3>2, <3>4 DEF Answer
      <4>2. QED
        BY <1>1, <3>1, <3>4, <4>1, UnionGiven
    <3>5. CASE c = "Enum"
      <4>1. Answer(s, q) = GetEnum(s, fields)
        BY <2>2, <3>2, <3>5 DEF Answer
      <4>2. QED
        BY <1>1, <3>1, <3>5, <4>1, EnumGiven
    <3>6. QED
      BY <2>5, <3>3, <3>4, <3>5
  <2>6. QED
    BY <2>3, <2>4, <2>5
<1>7. QED
  BY <1>2, <1>3, <1>4, <1>5, <1>6 DEF Asked

(* A request keeps its fingerprint while the storage grows.                  *)
LEMMA KeyStays ==
  ASSUME NEW s, Sound(s), NEW x, Sound(x), Grows(s, x), NEW q, Asked(q, DOMAIN s.types)
  PROVE  Asked(q, DOMAIN x.types) /\ Key(x, q) = Key(s, q)
<1>1. DOMAIN s.types \subseteq DOMAIN x.types
  BY SeqParts DEF Sound, IsStore, Grows, KeepsTypes
<1>2. \A t \in DOMAIN s.types : Id(x, t) = Id(s, t)
  BY DEF Grows, KeepsTypes, Id
<1>3. Asked(q, DOMAIN x.types)
  <2>1. AsksArray(q, DOMAIN s.types) => AsksArray(q, DOMAIN x.types)
    BY <1>1 DEF AsksArray
  <2>2. AsksRef(q, DOMAIN s.types) => AsksRef(q, DOMAIN x.types)
    BY <1>1 DEF AsksRef
  <2>3. AsksPair(q, DOMAIN s.types) => AsksPair(q, DOMAIN x.types)
    BY <1>1 DEF AsksPair
  <2>4. QED
    BY <2>1, <2>2, <2>3 DEF Asked
<1>4. KeyParts(x, q) = KeyParts(s, q)
  <2>1. CASE AsksNumeric(q)
    BY <2>1 DEF AsksNumeric, KeyParts, Request
  <2>2. CASE AsksPlain(q)
    BY <2>2 DEF AsksPlain, KeyParts, Request
  <2>3. CASE AsksArray(q, DOMAIN s.types)
    BY <1>2, <2>3 DEF AsksArray, KeyParts, Request
  <2>4. CASE AsksRef(q, DOMAIN s.types)
    BY <1>2, <2>4 DEF AsksRef, KeyParts, Request
  <2>5. CASE AsksPair(q, DOMAIN s.types)
    <3>1. q.types # <<>> /\ q.types[1] \in DOMAIN s.types /\ q.types[2] \in DOMAIN s.types
      BY <2>5 DEF AsksPair, Request
    <3>2. Id(x, q.types[1]) = Id(s, q.types[1]) /\ Id(x, q.types[2]) = Id(s, q.types[2])
      BY <1>2, <3>1
    <3>3. QED
      BY <3>2 DEF KeyParts
  <2>6. QED
    BY <2>1, <2>2, <2>3, <2>4, <2>5 DEF Asked
<1>5. QED
  BY <1>3, <1>4 DEF Key

(* The forms of requests are told apart by their classes and types.          *)
LEMMA FormsOfRequests ==
  ASSUME NEW q, NEW D
  PROVE  /\ AsksNumeric(q) => q.tclass = "Numeric"
         /\ AsksPlain(q) => q.tclass \in {"Bool", "Typeref", "Any", "Tuple"} /\ q.types = <<>>
         /\ AsksArray(q, D) => q.tclass = "Array"
         /\ AsksRef(q, D) => q.tclass \in {"Pointer", "Slice"}
         /\ AsksPair(q, D) => /\ q.tclass \in {"Tuple", "Procedure", "Struct", "Union", "Enum"}
                              /\ q.types # <<>>
<1>1. AsksNumeric(q) => q.tclass = "Numeric"
  BY DEF AsksNumeric, Request
<1>2. AsksPlain(q) => q.tclass \in {"Bool", "Typeref", "Any", "Tuple"} /\ q.types = <<>>
  BY DEF AsksPlain, Request
<1>3. AsksArray(q, D) => q.tclass = "Array"
  BY DEF AsksArray, Request
<1>4. AsksRef(q, D) => q.tclass \in {"Pointer", "Slice"}
  BY DEF AsksRef, Request
<1>5. AsksPair(q, D) => /\ q.tclass \in {"Tuple", "Procedure", "Struct", "Union", "Enum"}
                        /\ q.types # <<>>
  BY DEF AsksPair, Request
<1>6. QED
  BY <1>1, <1>2, <1>3, <1>4, <1>5

(* Different requests have different fingerprints.                           *)
LEMMA KeyTells ==
  ASSUME NEW s, Sound(s), Filled(s), NEW p, Asked(p, DOMAIN s.types), NEW q, Asked(q, DOMAIN s.types),
         Key(s, p) = Key(s, q)
  PROVE  p = q
<1>1. \A t, u \in DOMAIN s.types : Id(s, t) = Id(s, u) => t = u
  BY DEF Sound, DistinctIds, Filled, Id
<1>2. p.tclass = q.tclass /\ KeyParts(s, p) = KeyParts(s, q)
  BY DEF Key, Nkl, Fingerprint
<1>3. CASE AsksNumeric(p)
  <2>1. AsksNumeric(q)
    BY <1>2, <1>3, FormsOfRequests DEF Asked
  <2>2. KeyParts(s, p) = <<p.n>> /\ KeyParts(s, q) = <<q.n>>
    BY <1>3, <2>1 DEF AsksNumeric, Request, KeyParts
  <2>3. <<p.n>> = <<q.n>>
    BY <1>2, <2>2
  <2>4. p.n = q.n
    BY <2>3
  <2>5. p = Request("Numeric", <<>>, p.n, FALSE) /\ q = Request("Numeric", <<>>, q.n, FALSE)
    BY <1>3, <2>1 DEF AsksNumeric, Request
  <2>6. QED
    BY <2>4, <2>5
<1>4. CASE AsksArray(p, DOMAIN s.types)
  <2>1. AsksArray(q, DOMAIN s.types)
    BY <1>2, <1>4, FormsOfRequests DEF Asked
  <2>2. PICK t \in DOMAIN s.types, n \in Counts : p = Request("Array", <<t>>, n, FALSE)
    BY <1>4 DEF AsksArray
  <2>3. PICK u \in DOMAIN s.types, m \in Counts : q = Request("Array", <<u>>, m, FALSE)
    BY <2>1 DEF AsksArray
  <2>4. KeyParts(s, p) = <<Id(s, t), n>> /\ KeyParts(s, q) = <<Id(s, u), m>>
    BY <2>2, <2>3 DEF Request, KeyParts
  <2>5. Id(s, t) = Id(s, u) /\ n = m
    <3>1. <<Id(s, t), n>> = <<Id(s, u), m>>
      BY <1>2, <2>4
    <3>2. QED
      BY <3>1
  <2>6. QED
    BY <1>1, <2>2, <2>3, <2>5
<1>5. CASE AsksRef(p, DOMAIN s.types)
  <2>1. AsksRef(q, DOMAIN s.types)
    BY <1>2, <1>5, FormsOfRequests DEF Asked
  <2>2. PICK c \in {"Pointer", "Slice"}, t \in DOMAIN s.types, const \in BOOLEAN : p = Request(c, <<t>>, 0, const)
    BY <1>5 DEF AsksRef
  <2>3. PICK d \in {"Pointer", "Slice"}, u \in DOMAIN s.types, other \in BOOLEAN : q = Request(d, <<u>>, 0, other)
    BY <2>1 DEF AsksRef
  <2>4. c = d
    BY <1>2, <2>2, <2>3 DEF Request
  <2>5. KeyParts(s, p) = <<Id(s, t), Bit(const)>> /\ KeyParts(s, q) = <<Id(s, u), Bit(other)>>
    BY <2>2, <2>3 DEF Request, KeyParts
  <2>6. Id(s, t) = Id(s, u) /\ Bit(const) = Bit(other)
    <3>1. <<Id(s, t), Bit(const)>> = <<Id(s, u), Bit(other)>>
      BY <1>2, <2>5
    <3>2. QED
      BY <3>1
  <2>7. const = other
    BY <2>6 DEF Bit
  <2>8. QED
    BY <1>1, <2>2, <2>3, <2>4, <2>6, <2>7
<1>6. CASE AsksPlain(p)
  <2>1. PICK c \in {"Bool", "Typeref", "Any", "Tuple"} : p = Request(c, <<>>, 0, FALSE)
    BY <1>6 DEF AsksPlain
  <2>2. p.tclass = c /\ p.types = <<>>
    BY <2>1 DEF Request
  <2>3. CASE AsksPlain(q)
    BY <1>2, <2>1, <2>3 DEF AsksPlain, Request
  <2>4. CASE ~AsksPlain(q)
    <3>1. AsksPair(q, DOMAIN s.types) /\ q.tclass = "Tuple" /\ q.types # <<>>
      BY <1>2, <2>2, <2>4, FormsOfRequests DEF Asked
    <3>2. KeyParts(s, q) = <<2, Id(s, q.types[1]), Id(s, q.types[2])>>
      BY <3>1 DEF KeyParts
    <3>3. KeyParts(s, p) = <<0>>
      BY <1>2, <2>2, <3>1 DEF KeyParts
    <3>4. <<2, Id(s, q.types[1]), Id(s, q.types[2])>> = <<0>>
      BY <1>2, <3>2, <3>3
    <3>5. QED
      BY <3>4
  <2>5. QED
    BY <2>3, <2>4
<1>7. CASE AsksPair(p, DOMAIN s.types)
  <2>1. PICK c \in {"Tuple", "Procedure", "Struct", "Union", "Enum"}, t \in DOMAIN s.types, u \in DOMAIN s.types :
             p = Request(c, <<t, u>>, 0, FALSE)
    BY <1>7 DEF AsksPair
  <2>2. /\ p.tclass = c /\ p.types = <<t, u>> /\ p.types[1] = t /\ p.types[2] = u /\ p.types # <<>>
    BY <2>1 DEF Request
  <2>3. CASE AsksPlain(q)
    <3>1. q.tclass = "Tuple" /\ q.types = <<>>
      BY <1>2, <2>2, <2>3, FormsOfRequests
    <3>2. KeyParts(s, p) = <<2, Id(s, t), Id(s, u)>>
      BY <1>2, <2>2, <3>1 DEF KeyParts
    <3>3. KeyParts(s, q) = <<0>>
      BY <3>1 DEF KeyParts
    <3>4. <<2, Id(s, t), Id(s, u)>> = <<0>>
      BY <1>2, <3>2, <3>3
    <3>5. QED
      BY <3>4
  <2>4. CASE ~AsksPlain(q)
    <3>1. AsksPair(q, DOMAIN s.types)
      BY <1>2, <2>2, <2>4, FormsOfRequests DEF Asked
    <3>2. PICK d \in {"Tuple", "Procedure", "Struct", "Union", "Enum"}, v \in DOMAIN s.types, w \in DOMAIN s.types :
               q = Request(d, <<v, w>>, 0, FALSE)
      BY <3>1 DEF AsksPair
    <3>3. /\ q.tclass = c /\ d = c /\ q.types = <<v, w>> /\ q.types[1] = v /\ q.types[2] = w /\ q.types # <<>>
      BY <1>2, <2>2, <3>2 DEF Request
    <3>4. Id(s, t) = Id(s, v) /\ Id(s, u) = Id(s, w)
      <4>1. CASE c = "Tuple"
        <5>1. KeyParts(s, p) = <<2, Id(s, t), Id(s, u)>> /\ KeyParts(s, q) = <<2, Id(s, v), Id(s, w)>>
          BY <2>2, <3>3, <4>1 DEF KeyParts
        <5>2. <<2, Id(s, t), Id(s, u)>> = <<2, Id(s, v), Id(s, w)>>
          BY <1>2, <5>1
        <5>3. QED
          BY <5>2
      <4>2. CASE c = "Procedure"
        <5>1. KeyParts(s, p) = <<1, Id(s, u), Id(s, t)>> /\ KeyParts(s, q) = <<1, Id(s, w), Id(s, v)>>
          BY <2>2, <3>3, <4>2 DEF KeyParts
        <5>2. <<1, Id(s, u), Id(s, t)>> = <<1, Id(s, w), Id(s, v)>>
          BY <1>2, <5>1
        <5>3. QED
          BY <5>2
      <4>3. CASE c \in {"Struct", "Union", "Enum"}
        <5>1. /\ KeyParts(s, p) = <<2, FieldNames[1], Id(s, t), FieldNames[2], Id(s, u)>>
              /\ KeyParts(s, q) = <<2, FieldNames[1], Id(s, v), FieldNames[2], Id(s, w)>>
          BY <2>2, <3>3, <4>3 DEF KeyParts
        <5>2. <<2, FieldNames[1], Id(s, t), FieldNames[2], Id(s, u)>> = <<2, FieldNames[1], Id(s, v), FieldNames[2], Id(s, w)>>
          BY <1>2, <5>1
        <5>3. QED
          BY <5>2
      <4>4. QED
        BY <4>1, <4>2, <4>3
    <3>5. QED
      BY <1>1, <2>1, <3>2, <3>3, <3>4
  <2>5. QED
    BY <2>3, <2>4
<1>8. QED
  BY <1>3, <1>4, <1>5, <1>6, <1>7 DEF Asked

-----------------------------------------------------------------------------
(* The inductive invariant: between requests every type is filled in, and    *)
(* the map still holds, under its fingerprint, what each request was given.  *)
MadeMapped ==
  \A i \in DOMAIN made :
    /\ Asked(made[i].q, DOMAIN storage.types)
    /\ Key(storage, made[i].q) \in DOMAIN storage.map
    /\ storage.map[Key(storage, made[i].q)] = made[i].at
TypeInv == Sound(storage) /\ Filled(storage) /\ IsSeq(made) /\ MadeMapped

LEMMA TypeInvHoldsFirst == TypeInit => TypeInv
<1> SUFFICES ASSUME TypeInit PROVE TypeInv
  OBVIOUS
<1>1. storage = [types |-> <<>>, map |-> [fp \in {} |-> 0], nextId |-> 1] /\ made = <<>>
  BY DEF TypeInit
<1>2. DOMAIN storage.types = {} /\ DOMAIN storage.map = {} /\ DOMAIN made = {}
  BY <1>1
<1>3. IsSeq(<<>>)
  BY DEF IsSeq
<1>4. IsStore(storage)
  BY <1>1, <1>3 DEF IsStore
<1>5. Sound(storage)
  BY <1>2, <1>4 DEF Sound, HasIds, DistinctIds, MapsToTypes, OneFingerprint
<1>6. QED
  BY <1>1, <1>2, <1>3, <1>5 DEF TypeInv, Filled, MadeMapped

LEMMA RequestsAsked ==
  ASSUME TypeInv, NEW q \in Requests
  PROVE  Asked(q, DOMAIN storage.types)
<1> DEFINE s == storage
<1>1. Have \subseteq DOMAIN s.types
  BY DEF Have, TypeInv, MadeMapped, Sound, MapsToTypes
<1> DEFINE Numeric == {Request("Numeric", <<>>, num.code, FALSE) : num \in Numerics}
           Plain == {Request(c, <<>>, 0, FALSE) : c \in {"Bool", "Typeref", "Any", "Tuple"}}
           Array == {Request("Array", <<t>>, n, FALSE) : t \in Have, n \in Counts}
           Ref == {Request(c, <<t>>, 0, const) : c \in {"Pointer", "Slice"}, t \in Have, const \in BOOLEAN}
           Two == {Request(c, <<t, u>>, 0, FALSE) :
                     c \in {"Tuple", "Procedure", "Struct", "Union", "Enum"}, t \in Have, u \in Have}
<1>2. Requests = Numeric \cup Plain \cup Array \cup Ref \cup Two
  BY DEF Requests
<1>3. q \in Numeric => AsksNumeric(q)
  BY DEF AsksNumeric
<1>4. q \in Plain => AsksPlain(q)
  BY DEF AsksPlain
<1>5. q \in Array => AsksArray(q, DOMAIN s.types)
  BY <1>1 DEF AsksArray, Request
<1>6. q \in Ref => AsksRef(q, DOMAIN s.types)
  BY <1>1 DEF AsksRef, Request
<1>7. q \in Two => AsksPair(q, DOMAIN s.types)
  BY <1>1 DEF AsksPair, Request
<1> HIDE DEF Numeric, Plain, Array, Ref, Two
<1>8. QED
  BY <1>2, <1>3, <1>4, <1>5, <1>6, <1>7 DEF Asked

LEMMA TypeInvKept == TypeInv /\ [TypeNext]_typeVars => TypeInv'
<1> SUFFICES ASSUME TypeInv, [TypeNext]_typeVars PROVE TypeInv'
  OBVIOUS
<1>1. CASE UNCHANGED typeVars
  BY <1>1 DEF typeVars, TypeInv, Sound, IsStore, HasIds, DistinctIds, MapsToTypes, OneFingerprint, Filled, MadeMapped
<1>2. CASE TypeNext
  <2>1. PICK q \in Requests : Record(q, Answer(storage, q))
    BY <1>2 DEF TypeNext
  <2> DEFINE s == storage
             a == Answer(s, q)
             key == Key(s, q)
  <2>3. Asked(q, DOMAIN s.types)
    BY RequestsAsked
  <2>4. Sound(s) /\ Filled(s) /\ IsSeq(made)
    BY DEF TypeInv
  <2>5. Gives(s, key, a)
    BY <2>3, <2>4, AnswerGiven
  <2>6. storage' = a.s /\ made' = Append(made, [q |-> q, at |-> a.at])
    BY <2>1 DEF Record
  <2> HIDE DEF a, key
  <2>7. /\ Sound(a.s) /\ Grows(s, a.s)
        /\ key \in DOMAIN a.s.map /\ a.s.map[key] = a.at
    BY <2>5 DEF Gives
  <2>8. Filled(a.s)
    <3> SUFFICES ASSUME NEW t \in DOMAIN a.s.types PROVE a.s.types[t].id # 0
      BY DEF Filled
    <3>1. CASE t \in DOMAIN s.types
      BY <2>4, <2>7, <3>1 DEF Filled, Grows, KeepsTypes
    <3>2. CASE t \notin DOMAIN s.types
      <4>1. a.s.types[t].id >= s.nextId /\ a.s.types[t].id \in Nat /\ s.nextId \in Nat \ {0}
        BY <2>4, <2>7, <3>2 DEF Grows, Sound, HasIds, IsStore
      <4>2. QED
        BY <4>1
    <3>3. QED
      BY <3>1, <3>2
  <2>9. /\ IsSeq(made') /\ Len(made') = Len(made) + 1 /\ Len(made) \in Nat
        /\ \A i \in 1..Len(made) : made'[i] = made[i]
        /\ made'[Len(made) + 1] = [q |-> q, at |-> a.at]
        /\ DOMAIN made = 1..Len(made) /\ DOMAIN made' = 1..(Len(made) + 1)
    BY <2>4, <2>6, SeqAppend, SeqParts
  <2>10. ASSUME NEW i \in DOMAIN made'
         PROVE  /\ Asked(made'[i].q, DOMAIN a.s.types)
                /\ Key(a.s, made'[i].q) \in DOMAIN a.s.map
                /\ a.s.map[Key(a.s, made'[i].q)] = made'[i].at
    <3>1. CASE i = Len(made) + 1
      <4>1. made'[i].q = q /\ made'[i].at = a.at
        BY <2>9, <3>1
      <4>2. Asked(q, DOMAIN a.s.types) /\ Key(a.s, q) = key
        BY <2>3, <2>4, <2>7, KeyStays DEF key
      <4>3. QED
        BY <2>7, <4>1, <4>2
    <3>2. CASE i # Len(made) + 1
      <4>1. i \in DOMAIN made /\ made'[i] = made[i]
        BY <2>9, <3>2
      <4> DEFINE k == Key(s, made[i].q)
      <4>2. Asked(made[i].q, DOMAIN s.types) /\ k \in DOMAIN s.map /\ s.map[k] = made[i].at
        BY <4>1 DEF TypeInv, MadeMapped
      <4>3. Asked(made[i].q, DOMAIN a.s.types) /\ Key(a.s, made[i].q) = k
        BY <2>4, <2>7, <4>2, KeyStays
      <4> HIDE DEF k
      <4>4. k \in DOMAIN a.s.map /\ a.s.map[k] = s.map[k]
        BY <2>7, <4>2 DEF Grows, KeepsMap
      <4>5. QED
        BY <4>1, <4>2, <4>3, <4>4
    <3>3. QED
      BY <3>1, <3>2
  <2>11. MadeMapped'
    BY <2>6, <2>10 DEF MadeMapped
  <2>12. Sound(storage)' /\ Filled(storage)'
    BY <2>6, <2>7, <2>8
  <2>13. QED
    BY <2>9, <2>11, <2>12 DEF TypeInv
<1>3. QED
  BY <1>1, <1>2

(* The requests of TypeInv are told apart by their fingerprints.             *)
LEMMA TypeInvInterns == TypeInv => TypesInterned
<1> SUFFICES ASSUME TypeInv PROVE TypesInterned
  OBVIOUS
<1>1. ASSUME NEW i \in DOMAIN made, NEW j \in DOMAIN made
      PROVE  made[i].q = made[j].q <=> made[i].at = made[j].at
  <2>1. ASSUME made[i].q = made[j].q PROVE made[i].at = made[j].at
    BY <2>1 DEF TypeInv, MadeMapped
  <2>2. ASSUME made[i].at = made[j].at PROVE made[i].q = made[j].q
    <3> DEFINE k == Key(storage, made[i].q)
               l == Key(storage, made[j].q)
    <3>1. /\ k \in DOMAIN storage.map /\ l \in DOMAIN storage.map
          /\ storage.map[k] = storage.map[l]
      BY <2>2 DEF TypeInv, MadeMapped
    <3>2. IsNkl(k) /\ IsNkl(l)
      BY DEF IsNkl, Key, Nkl, Fingerprint
    <3> HIDE DEF k, l
    <3>3. k = l
      BY <3>1, <3>2 DEF TypeInv, Sound, OneFingerprint
    <3>4. QED
      BY <3>3, KeyTells DEF TypeInv, MadeMapped, k, l
  <2>3. QED
    BY <2>1, <2>2
<1>2. \A t, u \in DOMAIN storage.types : t # u => storage.types[t].id # storage.types[u].id
  BY DEF TypeInv, Sound, DistinctIds, Filled
<1>3. QED
  BY <1>1, <1>2 DEF TypesInterned

(* Whatever clients ask for and in whatever order, two requests get one type *)
(* exactly if they are the same request, and no two types have one id, the   *)
(* types made on the way by nested constructors included (types.c:48-75).    *)
THEOREM TypesAlwaysInterned == TypeInit /\ [][TypeNext]_typeVars => []TypesInterned
<1>1. QED
  BY TypeInvHoldsFirst, TypeInvKept, TypeInvInterns, PTL

-----------------------------------------------------------------------------
(* What a storage tells of its types.  The types that are filled in:         *)
Full(s) == {t \in DOMAIN s.types : s.types[t].id # 0}
Keeps(s, x) == \A t \in DOMAIN s.types : t \in DOMAIN x.types /\ x.types[t] = s.types[t]
KeepsFull(s, x) == \A t \in Full(s) : t \in Full(x) /\ x.types[t] = s.types[t]

(* An aggregate of at most two elements, and the layout of a representation. *)
IrIn(s, t) == s.types[t].ir
ElemsIn(s, e) == IsSeq(e) /\ Len(e) <= 2 /\ \A i \in DOMAIN e : e[i].type \in Full(s)
End(s, a) == a.offset + IrIn(s, a.type).size * a.count
Laid(s, ir) ==
  /\ ir.align \in Nat \ {0} /\ ir.size \in Nat /\ ir.size % ir.align = 0
  /\ ElemsIn(s, ir.elems)
  /\ \A i \in DOMAIN ir.elems : /\ ir.elems[i].offset % IrIn(s, ir.elems[i].type).align = 0
                                /\ End(s, ir.elems[i]) <= ir.size
  /\ \A i \in 2..Len(ir.elems) : End(s, ir.elems[i - 1]) <= ir.elems[i].offset

(* What is told by the fingerprint of a representation.                      *)
IrSays(s, ir, parts) ==
  /\ ir.kind = "Numeric" => parts = <<ir.num>>
  /\ ir.kind = "Aggregate" => parts = AggregateParts(s, ir.elems)
  /\ ir.kind = "Procedure" =>
       \E t, u \in Full(s) : ir.proc = [params |-> <<u>>, ret |-> t] /\ parts = <<1, Id(s, u), Id(s, t)>>

IrMapped(s, fp) ==
  LET ir == IrIn(s, s.map[fp])
  IN /\ ir.id \in Nat \ {0} /\ ir.id < s.nextId
     /\ ir.kind = fp.tag /\ IrSays(s, ir, fp.parts) /\ Laid(s, ir)
IrOf(s, ir) == ir = NoIr \/ \E fp \in DOMAIN s.map : ~IsNkl(fp) /\ ir = IrIn(s, s.map[fp])
IrTold(s) ==
  /\ \A fp \in DOMAIN s.map : ~IsNkl(fp) => fp.subset = "Ir" /\ IrMapped(s, fp)
  /\ \A fp, gp \in DOMAIN s.map :
       ~IsNkl(fp) /\ ~IsNkl(gp) /\ IrIn(s, s.map[fp]).id = IrIn(s, s.map[gp]).id => fp = gp
  /\ \A t \in DOMAIN s.types : IrOf(s, IrIn(s, t))

(* What is told by the fingerprint of a type.                                *)
OneElement(s, ir, t, n) ==
  Len(ir.elems) = 1 /\ IrIn(s, ir.elems[1].type).id = IrIn(s, t).id /\ ir.elems[1].count = n
TwoElements(s, ir, t, u) ==
  Len(ir.elems) = 2 /\ IrIn(s, ir.elems[1].type).id = IrIn(s, t).id /\ IrIn(s, ir.elems[2].type).id = IrIn(s, u).id
HasFields(s, type, parts, t, u) ==
  \E n, m : parts = <<2, n, Id(s, t), m, Id(s, u)>> /\ type.fields = <<Field(n, t), Field(m, u)>>
HasRoom(s, ir, t) == IrIn(s, t).size <= ir.size

NumericTold(type, parts) == parts = <<type.ir.num>>
ArrayTold(s, type, parts) ==
  \E t \in Full(s) : \E n : parts = <<Id(s, t), n>> /\ OneElement(s, type.ir, t, n)
TupleTold(s, type, parts) ==
  \/ parts = <<0>> /\ Len(type.ir.elems) = 0
  \/ \E t, u \in Full(s) : parts = <<2, Id(s, t), Id(s, u)>> /\ TwoElements(s, type.ir, t, u)
PointerTold(s, type, parts) ==
  \E t \in Full(s), const \in BOOLEAN : parts = <<Id(s, t), Bit(const)>> /\ type.target = t /\ type.isConst = const
ProcedureTold(s, type, parts) ==
  \E t, u \in Full(s) : parts = <<1, Id(s, u), Id(s, t)>> /\ type.ir.proc = [params |-> <<u>>, ret |-> t]
StructTold(s, type, parts) ==
  \E t, u \in Full(s) : HasFields(s, type, parts, t, u) /\ TwoElements(s, type.ir, t, u)
UnionTold(s, type, parts) ==
  \E t, u \in Full(s) : HasFields(s, type, parts, t, u) /\ HasRoom(s, type.ir, t) /\ HasRoom(s, type.ir, u)
(* The first field of the type underneath.                                   *)
Data(s, type, data) == type.underlying \in Full(s) /\ s.types[type.underlying].fields[1].type = data
EnumTold(s, type, parts) ==
  \E t, u, data \in Full(s) : Data(s, type, data) /\ HasFields(s, s.types[data], parts, t, u)
SliceTold(s, type, parts) ==
  \E data \in Full(s) : Data(s, type, data) /\ PointerTold(s, s.types[data], parts)
BoolTold(s, type) == type.underlying \in Full(s) /\ IrIn(s, type.underlying).num = Int8.code
TypeTold(s, fp, type) ==
  /\ fp.tag = "Numeric" => NumericTold(type, fp.parts)
  /\ fp.tag = "Array" => ArrayTold(s, type, fp.parts)
  /\ fp.tag = "Tuple" => TupleTold(s, type, fp.parts)
  /\ fp.tag = "Pointer" => PointerTold(s, type, fp.parts)
  /\ fp.tag = "Procedure" => ProcedureTold(s, type, fp.parts)
  /\ fp.tag = "Struct" => StructTold(s, type, fp.parts)
  /\ fp.tag = "Union" => UnionTold(s, type, fp.parts)
  /\ fp.tag = "Enum" => EnumTold(s, type, fp.parts)
  /\ fp.tag = "Slice" => SliceTold(s, type, fp.parts)
  /\ fp.tag = "Bool" => BoolTold(s, type)

WholeTypes(s) == \A t \in DOMAIN s.types : DOMAIN s.types[t] = DOMAIN Blank
Told(s) ==
  /\ WholeTypes(s) /\ IrTold(s)
  /\ \A fp \in DOMAIN s.map : IsNkl(fp) /\ s.map[fp] \in Full(s) => TypeTold(s, fp, s.types[s.map[fp]])

-----------------------------------------------------------------------------
LEMMA AggregateStays ==
  ASSUME NEW s, NEW x, KeepsFull(s, x), NEW e, ElemsIn(s, e)
  PROVE  ElemsIn(x, e) /\ AggregateParts(x, e) = AggregateParts(s, e)
<1>1. \A i \in DOMAIN e : e[i].type \in Full(x) /\ x.types[e[i].type] = s.types[e[i].type]
  BY DEF ElemsIn, KeepsFull
<1>2. [i \in DOMAIN e |-> <<x.types[e[i].type].ir.id, e[i].count>>]
      = [i \in DOMAIN e |-> <<s.types[e[i].type].ir.id, e[i].count>>]
  BY <1>1
<1>3. ElemsIn(x, e)
  BY <1>1 DEF ElemsIn
<1>4. QED
  BY <1>2, <1>3 DEF AggregateParts

LEMMA IrStays ==
  ASSUME NEW s, NEW x, KeepsFull(s, x), NEW ir, Laid(s, ir)
  PROVE  Laid(x, ir) /\ \A parts : IrSays(s, ir, parts) => IrSays(x, ir, parts)
<1>1. ElemsIn(x, ir.elems) /\ AggregateParts(x, ir.elems) = AggregateParts(s, ir.elems)
  BY AggregateStays DEF Laid
<1>2. \A i \in DOMAIN ir.elems : x.types[ir.elems[i].type] = s.types[ir.elems[i].type]
  BY DEF Laid, ElemsIn, KeepsFull
<1>3. Laid(x, ir)
  <2>1. Len(ir.elems) \in Nat /\ DOMAIN ir.elems = 1..Len(ir.elems)
    BY SeqParts DEF Laid, ElemsIn
  <2>2. \A i \in DOMAIN ir.elems : IrIn(x, ir.elems[i].type) = IrIn(s, ir.elems[i].type)
    BY <1>2 DEF IrIn
  <2>3. \A i \in DOMAIN ir.elems : End(x, ir.elems[i]) = End(s, ir.elems[i])
    BY <2>2 DEF End
  <2>4. \A i \in 2..Len(ir.elems) : i - 1 \in DOMAIN ir.elems
    BY <2>1
  <2>5. ASSUME NEW i \in DOMAIN ir.elems
        PROVE  /\ ir.elems[i].offset % IrIn(x, ir.elems[i].type).align = 0
               /\ End(x, ir.elems[i]) <= ir.size
    BY <2>2, <2>3 DEF Laid
  <2>6. ASSUME NEW i \in 2..Len(ir.elems) PROVE End(x, ir.elems[i - 1]) <= ir.elems[i].offset
    <3>1. End(x, ir.elems[i - 1]) = End(s, ir.elems[i - 1])
      BY <2>3, <2>4
    <3>2. QED
      BY <3>1 DEF Laid
  <2>7. ir.align \in Nat \ {0} /\ ir.size \in Nat /\ ir.size % ir.align = 0
    BY DEF Laid
  <2> HIDE DEF End
  <2>8. QED
    BY <1>1, <2>5, <2>6, <2>7 DEF Laid
<1>4. ASSUME NEW parts, IrSays(s, ir, parts) PROVE IrSays(x, ir, parts)
  <2>1. ASSUME ir.kind = "Procedure"
        PROVE  \E t, u \in Full(x) : ir.proc = [params |-> <<u>>, ret |-> t] /\ parts = <<1, Id(x, u), Id(x, t)>>
    <3>1. PICK t \in Full(s), u \in Full(s) :
               ir.proc = [params |-> <<u>>, ret |-> t] /\ parts = <<1, Id(s, u), Id(s, t)>>
      BY <1>4, <2>1 DEF IrSays
    <3>2. t \in Full(x) /\ u \in Full(x) /\ Id(x, t) = Id(s, t) /\ Id(x, u) = Id(s, u)
      BY DEF KeepsFull, Id
    <3>3. QED
      BY <3>1, <3>2
  <2>2. QED
    BY <1>1, <1>4, <2>1 DEF IrSays
<1>5. QED
  BY <1>3, <1>4

LEMMA TypeStays ==
  ASSUME NEW s, NEW x, KeepsFull(s, x), NEW fp, NEW type, TypeTold(s, fp, type), ElemsIn(s, type.ir.elems)
  PROVE  TypeTold(x, fp, type)
<1>1. /\ Full(s) \subseteq Full(x)
      /\ \A t \in Full(s) : x.types[t] = s.types[t] /\ Id(x, t) = Id(s, t) /\ IrIn(x, t) = IrIn(s, t)
  BY DEF KeepsFull, Id, IrIn
<1>2. /\ Len(type.ir.elems) \in Nat /\ DOMAIN type.ir.elems = 1..Len(type.ir.elems)
      /\ \A i \in 1..Len(type.ir.elems) : type.ir.elems[i].type \in Full(s)
  BY SeqParts DEF ElemsIn
<1>3. \A t \in Full(s) : \A n : OneElement(s, type.ir, t, n) => OneElement(x, type.ir, t, n)
  BY <1>1, <1>2 DEF OneElement
<1>4. \A t, u \in Full(s) : TwoElements(s, type.ir, t, u) => TwoElements(x, type.ir, t, u)
  BY <1>1, <1>2 DEF TwoElements
<1>5. \A v, parts : \A t, u \in Full(s) : HasFields(s, v, parts, t, u) => HasFields(x, v, parts, t, u)
  BY <1>1 DEF HasFields
<1>6. \A data : Data(s, type, data) => Data(x, type, data)
  BY <1>1 DEF Data
<1>7. \A v, parts : PointerTold(s, v, parts) => PointerTold(x, v, parts)
  <2> SUFFICES ASSUME NEW v, NEW parts, PointerTold(s, v, parts) PROVE PointerTold(x, v, parts)
    OBVIOUS
  <2>1. PICK t \in Full(s), const \in BOOLEAN : parts = <<Id(s, t), Bit(const)>> /\ v.target = t /\ v.isConst = const
    BY DEF PointerTold
  <2>2. t \in Full(x) /\ parts = <<Id(x, t), Bit(const)>>
    BY <1>1, <2>1
  <2>3. QED
    BY <2>1, <2>2 DEF PointerTold
<1>8. fp.tag = "Array" => ArrayTold(x, type, fp.parts)
  BY <1>1, <1>3 DEF TypeTold, ArrayTold
<1>9. fp.tag = "Tuple" => TupleTold(x, type, fp.parts)
  BY <1>1, <1>4 DEF TypeTold, TupleTold
<1>10. fp.tag = "Procedure" => ProcedureTold(x, type, fp.parts)
  BY <1>1 DEF TypeTold, ProcedureTold
<1>11. fp.tag = "Struct" => StructTold(x, type, fp.parts)
  BY <1>1, <1>4, <1>5 DEF TypeTold, StructTold
<1>12. fp.tag = "Union" => UnionTold(x, type, fp.parts)
  <2>1. \A t \in Full(s) : HasRoom(s, type.ir, t) => HasRoom(x, type.ir, t)
    BY <1>1 DEF HasRoom
  <2>2. QED
    BY <1>1, <1>5, <2>1 DEF TypeTold, UnionTold
<1>13. fp.tag = "Enum" => EnumTold(x, type, fp.parts)
  BY <1>1, <1>5, <1>6 DEF TypeTold, EnumTold
<1>14. fp.tag = "Slice" => SliceTold(x, type, fp.parts)
  BY <1>1, <1>6, <1>7 DEF TypeTold, SliceTold
<1>15. fp.tag = "Bool" => BoolTold(x, type)
  BY <1>1 DEF TypeTold, BoolTold
<1>16. QED
  BY <1>7, <1>8, <1>9, <1>10, <1>11, <1>12, <1>13, <1>14, <1>15 DEF TypeTold

LEMMA KeepsAreFull ==
  ASSUME NEW s, NEW x, Keeps(s, x)
  PROVE  KeepsFull(s, x)
  BY DEF Keeps, KeepsFull, Full

LEMMA EmptyElems ==
  ASSUME NEW s
  PROVE  ElemsIn(s, <<>>) /\ Laid(s, NoIr)
<1>1. IsSeq(<<>>) /\ Len(<<>>) = 0 /\ DOMAIN <<>> = {}
  BY DEF IsSeq
<1>2. ElemsIn(s, <<>>)
  BY <1>1 DEF ElemsIn
<1>3. NoIr.align = 1 /\ NoIr.size = 0 /\ NoIr.elems = <<>>
  BY DEF NoIr
<1>4. 0 % 1 = 0
  OBVIOUS
<1>5. QED
  BY <1>1, <1>2, <1>3, <1>4 DEF Laid

LEMMA AllLaid ==
  ASSUME NEW s, IrTold(s), NEW t \in DOMAIN s.types
  PROVE  Laid(s, IrIn(s, t)) /\ ElemsIn(s, IrIn(s, t).elems)
<1>1. Laid(s, IrIn(s, t))
  BY EmptyElems DEF IrTold, IrOf, IrMapped
<1>2. QED
  BY <1>1 DEF Laid

(* All but one type stay as they are.                                        *)
Elsewhere(x, z, at) ==
  /\ z.map = x.map /\ z.nextId = x.nextId /\ DOMAIN z.types = DOMAIN x.types
  /\ \A t \in DOMAIN x.types : t # at => z.types[t] = x.types[t]

LEMMA TypePut ==
  ASSUME NEW x, IsStore(x), NEW at \in DOMAIN x.types, NEW type
  PROVE  LET z == [x EXCEPT !.types = [@ EXCEPT ![at] = type]]
         IN  IsStore(z) /\ Elsewhere(x, z, at) /\ z.types[at] = type
<1> DEFINE types == [x.types EXCEPT ![at] = type]
           z == [x EXCEPT !.types = types]
<1>1. at \in 1..Len(x.types) /\ IsSeq(x.types) /\ DOMAIN x.types = 1..Len(x.types)
  BY SeqParts DEF IsStore
<1>2. /\ IsSeq(types) /\ Len(types) = Len(x.types)
      /\ \A i \in 1..Len(x.types) : types[i] = IF i = at THEN type ELSE x.types[i]
  BY <1>1, SeqUpdate
<1>3. DOMAIN types = DOMAIN x.types
  OBVIOUS
<1> HIDE DEF types
<1>4. z = [types |-> types, map |-> x.map, nextId |-> x.nextId]
  BY DEF IsStore
<1>5. IsStore(z)
  BY <1>2, <1>4 DEF IsStore
<1>6. Elsewhere(x, z, at) /\ z.types[at] = type
  BY <1>1, <1>2, <1>3, <1>4 DEF Elsewhere
<1>7. QED
  BY <1>5, <1>6 DEF types

(* How a constructor ends: with the type at `r.at`.                          *)
Ended(x, g, r, type) ==
  g.at = r.at /\ IsStore(g.s) /\ Elsewhere(x, g.s, r.at) /\ g.s.types[r.at] = type
Marked(type, tclass, id) == [type EXCEPT !.tclass = tclass, !.id = id]

LEMMA FillEnds ==
  ASSUME NEW x, IsStore(x), NEW r, r.at \in DOMAIN x.types, NEW tclass
  PROVE  Ended(x, Fill(x, r, tclass), r, Marked(x.types[r.at], tclass, r.id))
<1> DEFINE first == [x.types[r.at] EXCEPT !.tclass = tclass]
           y == [x EXCEPT !.types = [@ EXCEPT ![r.at] = first]]
           last == [y.types[r.at] EXCEPT !.id = r.id]
           z == [y EXCEPT !.types = [@ EXCEPT ![r.at] = last]]
<1>1. IsStore(y) /\ Elsewhere(x, y, r.at) /\ y.types[r.at] = first
  BY TypePut
<1>2. Fill(x, r, tclass) = Got(z, r.at)
  BY DEF Fill
<1> HIDE DEF y
<1>3. IsStore(z) /\ Elsewhere(y, z, r.at) /\ z.types[r.at] = last
  BY <1>1, TypePut DEF Elsewhere
<1> HIDE DEF z
<1>4. Elsewhere(x, z, r.at)
  BY <1>1, <1>3 DEF Elsewhere
<1>5. z.types[r.at] = Marked(x.types[r.at], tclass, r.id)
  BY <1>1, <1>3 DEF Marked
<1>6. QED
  BY <1>2, <1>3, <1>4, <1>5 DEF Ended, Got

LEMMA FillFromEnds ==
  ASSUME NEW u, IsStore(u.s), NEW r, r.at \in DOMAIN u.s.types, NEW tclass
  PROVE  Ended(u.s, FillFrom(u, r, tclass), r,
               [u.s.types[u.at] EXCEPT !.tclass = tclass, !.id = r.id, !.underlying = u.at])
<1> DEFINE type == [u.s.types[u.at] EXCEPT !.tclass = tclass, !.id = r.id, !.underlying = u.at]
           z == [u.s EXCEPT !.types = [@ EXCEPT ![r.at] = type]]
<1>1. FillFrom(u, r, tclass) = Got(z, r.at)
  BY DEF FillFrom
<1>2. IsStore(z) /\ Elsewhere(u.s, z, r.at) /\ z.types[r.at] = type
  BY TypePut
<1> HIDE DEF z, type
<1>3. QED
  BY <1>1, <1>2 DEF Ended, Got, type

(* Parts are filled in before Fill.                                          *)
LEMMA FillAfter ==
  ASSUME NEW x, NEW z, IsStore(z), NEW r, r.at \in DOMAIN x.types, Elsewhere(x, z, r.at), NEW tclass,
         NEW g, g = Fill(z, r, tclass)
  PROVE  Ended(x, g, r, Marked(z.types[r.at], tclass, r.id))
<1>1. r.at \in DOMAIN z.types
  BY DEF Elsewhere
<1>2. Ended(z, Fill(z, r, tclass), r, Marked(z.types[r.at], tclass, r.id))
  BY <1>1, FillEnds
<1>3. QED
  BY <1>2 DEF Ended, Elsewhere

LEMMA FillPtrEnds ==
  ASSUME NEW x, IsStore(x), NEW r, r.at \in DOMAIN x.types, NEW target, NEW const
  PROVE  Ended(x, FillPtr(x, r, target, const), r,
               Marked([x.types[r.at] EXCEPT !.target = target, !.isConst = const], "Pointer", r.id))
<1> DEFINE first == [x.types[r.at] EXCEPT !.target = target]
           y == [x EXCEPT !.types = [@ EXCEPT ![r.at] = first]]
           last == [y.types[r.at] EXCEPT !.isConst = const]
           z == [y EXCEPT !.types = [@ EXCEPT ![r.at] = last]]
<1>1. IsStore(y) /\ Elsewhere(x, y, r.at) /\ y.types[r.at] = first
  BY TypePut
<1>2. FillPtr(x, r, target, const) = Fill(z, r, "Pointer")
  BY DEF FillPtr
<1> HIDE DEF y
<1>3. IsStore(z) /\ Elsewhere(y, z, r.at) /\ z.types[r.at] = last
  BY <1>1, TypePut DEF Elsewhere
<1> HIDE DEF z
<1>4. Elsewhere(x, z, r.at)
  BY <1>1, <1>3 DEF Elsewhere
<1>5. z.types[r.at] = [x.types[r.at] EXCEPT !.target = target, !.isConst = const]
  BY <1>1, <1>3
<1>6. Ended(x, FillPtr(x, r, target, const), r, Marked(z.types[r.at], "Pointer", r.id))
  BY <1>2, <1>3, <1>4, FillAfter
<1>7. QED
  BY <1>5, <1>6

LEMMA FillFieldsEnds ==
  ASSUME NEW u, IsStore(u.s), NEW r, r.at \in DOMAIN u.s.types, NEW fields
  PROVE  Ended(u.s, FillFields(u, r, fields), r,
               Marked([u.s.types[r.at] EXCEPT !.fields = fields, !.ir = IrIn(u.s, u.at), !.underlying = u.at],
                      "Struct", r.id))
<1> DEFINE x == u.s
           first == [x.types[r.at] EXCEPT !.fields = fields]
           y == [x EXCEPT !.types = [@ EXCEPT ![r.at] = first]]
           second == [y.types[r.at] EXCEPT !.ir = u.s.types[u.at].ir]
           z == [y EXCEPT !.types = [@ EXCEPT ![r.at] = second]]
           last == [z.types[r.at] EXCEPT !.underlying = u.at]
           w == [z EXCEPT !.types = [@ EXCEPT ![r.at] = last]]
<1>1. IsStore(y) /\ Elsewhere(x, y, r.at) /\ y.types[r.at] = first
  BY TypePut
<1>2. FillFields(u, r, fields) = Fill(w, r, "Struct")
  BY DEF FillFields
<1> HIDE DEF y
<1>3. IsStore(z) /\ Elsewhere(y, z, r.at) /\ z.types[r.at] = second
  BY <1>1, TypePut DEF Elsewhere
<1> HIDE DEF z
<1>4. Elsewhere(x, z, r.at) /\ r.at \in DOMAIN z.types
  BY <1>1, <1>3 DEF Elsewhere
<1>5. IsStore(w) /\ Elsewhere(z, w, r.at) /\ w.types[r.at] = last
  BY <1>3, <1>4, TypePut
<1> HIDE DEF w
<1>6. Elsewhere(x, w, r.at)
  BY <1>4, <1>5 DEF Elsewhere
<1>7. w.types[r.at] = [u.s.types[r.at] EXCEPT !.fields = fields, !.ir = IrIn(u.s, u.at), !.underlying = u.at]
  BY <1>1, <1>3, <1>5 DEF IrIn
<1>8. Ended(x, FillFields(u, r, fields), r, Marked(w.types[r.at], "Struct", r.id))
  BY <1>2, <1>5, <1>6, FillAfter
<1>9. QED
  BY <1>7, <1>8

LEMMA FillUnionEnds ==
  ASSUME NEW u, IsStore(u.s), NEW r, r.at \in DOMAIN u.s.types, NEW fields
  PROVE  Ended(u.s, FillUnion(u, r, fields), r,
               Marked([u.s.types[r.at] EXCEPT !.fields = fields, !.ir = LargestIr(u.s, u.at, fields)],
                      "Union", r.id))
<1> DEFINE x == u.s
           first == [x.types[r.at] EXCEPT !.fields = fields]
           y == [x EXCEPT !.types = [@ EXCEPT ![r.at] = first]]
           ir == LargestIr(u.s, u.at, fields)
           last == [y.types[r.at] EXCEPT !.ir = ir]
           z == [y EXCEPT !.types = [@ EXCEPT ![r.at] = last]]
<1>1. IsStore(y) /\ Elsewhere(x, y, r.at) /\ y.types[r.at] = first
  BY TypePut
<1>2. FillUnion(u, r, fields) = Fill(z, r, "Union")
  BY DEF FillUnion
<1> HIDE DEF y, ir
<1>3. IsStore(z) /\ Elsewhere(y, z, r.at) /\ z.types[r.at] = last
  BY <1>1, TypePut DEF Elsewhere
<1> HIDE DEF z
<1>4. Elsewhere(x, z, r.at)
  BY <1>1, <1>3 DEF Elsewhere
<1>5. z.types[r.at] = [u.s.types[r.at] EXCEPT !.fields = fields, !.ir = ir]
  BY <1>1, <1>3
<1>6. Ended(x, FillUnion(u, r, fields), r, Marked(z.types[r.at], "Union", r.id))
  BY <1>2, <1>3, <1>4, FillAfter
<1>7. QED
  BY <1>5, <1>6 DEF ir

-----------------------------------------------------------------------------
(* A storage goes on telling what it told.                                   *)
LEMMA IrToldOn ==
  ASSUME NEW s, Sound(s), IrTold(s), NEW x, Sound(x), KeepsFull(s, x), s.nextId <= x.nextId,
         \A fp \in DOMAIN x.map : ~IsNkl(fp) => fp \in DOMAIN s.map /\ IrIn(x, x.map[fp]) = IrIn(s, s.map[fp]),
         \A fp \in DOMAIN s.map : ~IsNkl(fp) => fp \in DOMAIN x.map,
         \A t \in DOMAIN x.types : IrOf(s, IrIn(x, t))
  PROVE  IrTold(x)
<1>1. s.nextId \in Nat /\ x.nextId \in Nat
  BY DEF Sound, IsStore
<1>2. ASSUME NEW fp \in DOMAIN x.map, ~IsNkl(fp) PROVE fp.subset = "Ir" /\ IrMapped(x, fp)
  <2> DEFINE ir == IrIn(x, x.map[fp])
  <2>1. fp \in DOMAIN s.map /\ ir = IrIn(s, s.map[fp])
    BY <1>2
  <2>2. fp.subset = "Ir" /\ IrMapped(s, fp)
    BY <1>2, <2>1 DEF IrTold
  <2> HIDE DEF ir
  <2>3. Laid(x, ir) /\ IrSays(x, ir, fp.parts)
    BY <2>1, <2>2, IrStays DEF IrMapped
  <2>4. ir.id \in Nat \ {0} /\ ir.id < x.nextId /\ ir.kind = fp.tag
    BY <1>1, <2>1, <2>2 DEF IrMapped
  <2>5. QED
    BY <2>2, <2>3, <2>4 DEF IrMapped, ir
<1>3. \A fp, gp \in DOMAIN x.map :
        ~IsNkl(fp) /\ ~IsNkl(gp) /\ IrIn(x, x.map[fp]).id = IrIn(x, x.map[gp]).id => fp = gp
  BY DEF IrTold
<1>4. ASSUME NEW t \in DOMAIN x.types PROVE IrOf(x, IrIn(x, t))
  BY DEF IrOf
<1>5. QED
  BY <1>2, <1>3, <1>4 DEF IrTold

LEMMA TypesToldOn ==
  ASSUME NEW s, Told(s), NEW x, KeepsFull(s, x),
         NEW fp \in DOMAIN s.map, IsNkl(fp), s.map[fp] \in Full(s)
  PROVE  TypeTold(x, fp, s.types[s.map[fp]])
<1>1. TypeTold(s, fp, s.types[s.map[fp]])
  BY DEF Told
<1>2. ElemsIn(s, s.types[s.map[fp]].ir.elems)
  BY AllLaid DEF Told, Full, IrIn
<1>3. QED
  BY <1>1, <1>2, TypeStays

LEMMA BegunTells ==
  ASSUME NEW s, Sound(s), Told(s), NEW fp, IsNkl(fp), NEW r, r = ByFingerprint(s, fp, 0), r.inserted
  PROVE  Told(r.s) /\ Keeps(s, r.s) /\ r.s.types[r.at] = Blank
<1> DEFINE at == Len(s.types) + 1
           types == Append(s.types, Blank)
           map == WithEntry(s.map, fp, at)
           x == [types |-> types, map |-> map, nextId |-> s.nextId + 1]
<1>1. fp \notin DOMAIN s.map /\ r.s = x /\ r.at = at
  BY DEF ByFingerprint
<1>2. IsSeq(s.types) /\ Len(s.types) \in Nat /\ DOMAIN s.types = 1..Len(s.types) /\ s.nextId \in Nat \ {0}
  BY SeqParts DEF Sound, IsStore
<1>3. /\ IsSeq(types) /\ Len(types) = at /\ types[at] = Blank
      /\ \A i \in DOMAIN s.types : types[i] = s.types[i]
  BY <1>2, SeqAppend
<1>4. DOMAIN map = DOMAIN s.map \cup {fp} /\ map[fp] = at /\ \A gp \in DOMAIN s.map : gp # fp => map[gp] = s.map[gp]
  BY DEF WithEntry
<1>5. DOMAIN types = DOMAIN s.types \cup {at} /\ at \notin DOMAIN s.types
  BY <1>2, <1>3, SeqParts
<1>6. Sound(x)
  BY <1>1, BegunOpens DEF Opened
<1> HIDE DEF types, map, at
<1>7. Keeps(s, x)
  BY <1>3, <1>5 DEF Keeps
<1>8. Blank.ir = NoIr /\ Blank.id = 0
  BY DEF Blank
<1>9. WholeTypes(x)
  BY <1>3, <1>5 DEF Told, WholeTypes
<1>10. \A gp \in DOMAIN s.map : gp \in DOMAIN x.map /\ x.map[gp] = s.map[gp] /\ s.map[gp] \in DOMAIN s.types
  BY <1>1, <1>4 DEF Sound, MapsToTypes
<1>11. IrTold(x)
  <2>1. \A gp \in DOMAIN x.map :
          ~IsNkl(gp) => gp \in DOMAIN s.map /\ IrIn(x, x.map[gp]) = IrIn(s, s.map[gp])
    BY <1>3, <1>4, <1>10 DEF IrIn
  <2>2. ASSUME NEW t \in DOMAIN x.types PROVE IrOf(s, IrIn(x, t))
    <3>1. CASE t \in DOMAIN s.types
      BY <1>3, <3>1 DEF IrIn, Told, IrTold
    <3>2. CASE t = at
      BY <1>3, <1>8, <3>2 DEF IrIn, IrOf
    <3>3. QED
      BY <1>5, <3>1, <3>2
  <2>3. KeepsFull(s, x) /\ s.nextId <= x.nextId
    BY <1>2, <1>7, KeepsAreFull
  <2>4. \A gp \in DOMAIN s.map : ~IsNkl(gp) => gp \in DOMAIN x.map
    BY <1>10
  <2>5. IrTold(s)
    BY DEF Told
  <2> HIDE DEF x
  <2>6. QED
    BY <1>6, <2>1, <2>2, <2>3, <2>4, <2>5, IrToldOn
<1>12. ASSUME NEW gp \in DOMAIN x.map, IsNkl(gp), x.map[gp] \in Full(x)
       PROVE  TypeTold(x, gp, x.types[x.map[gp]])
  <2>1. x.map[gp] # at
    BY <1>3, <1>8, <1>12 DEF Full
  <2>2. gp \in DOMAIN s.map /\ x.map[gp] = s.map[gp] /\ s.map[gp] \in DOMAIN s.types
    BY <1>4, <1>10, <2>1
  <2>3. x.types[x.map[gp]] = s.types[s.map[gp]] /\ s.map[gp] \in Full(s)
    BY <1>3, <1>12, <2>2 DEF Full
  <2>4. KeepsFull(s, x)
    BY <1>7, KeepsAreFull
  <2> HIDE DEF x
  <2>5. QED
    BY <1>12, <2>2, <2>3, <2>4, TypesToldOn
<1>13. QED
  BY <1>1, <1>3, <1>7, <1>9, <1>11, <1>12 DEF Told

(* The type that was begun gets its representation.                          *)
GotIr(x, y, b, kind, parts) ==
  /\ Told(y) /\ KeepsFull(x, y) /\ DOMAIN y.types = DOMAIN x.types
  /\ \A t \in DOMAIN x.types : t # b => y.types[t] = x.types[t]
  /\ \E v : y.types[b] = [Blank EXCEPT !.ir = v] /\ v.kind = kind /\ IrSays(y, v, parts)

LEMMA IrGot ==
  ASSUME NEW x, Sound(x), Told(x), NEW b \in DOMAIN x.types, x.types[b] = Blank,
         NEW ir, DOMAIN ir = DOMAIN NoIr, NEW parts, Laid(x, ir), IrSays(x, ir, parts)
  PROVE  GotIr(x, GetIr(x, b, ir, parts), b, ir.kind, parts)
<1> DEFINE fp == Fingerprint("Ir", ir.kind, parts)
           r == ByFingerprint(x, fp, b)
           v == IF r.inserted THEN [ir EXCEPT !.id = r.id] ELSE x.types[r.at].ir
           type == [r.s.types[b] EXCEPT !.ir = v]
           y == [r.s EXCEPT !.types = [@ EXCEPT ![b] = type]]
<1>1. GetIr(x, b, ir, parts) = y
  BY DEF GetIr, AfterIr
<1>2. ~IsNkl(fp) /\ fp.tag = ir.kind /\ fp.parts = parts /\ fp.subset = "Ir"
  BY DEF IsNkl, Fingerprint
<1> HIDE DEF fp
<1>3. b # 0
  BY SeqParts DEF Sound, IsStore
<1>4. Sound(y)
  BY <1>1, IrGrows
<1>5. x.nextId \in Nat \ {0} /\ IsStore(x)
  BY DEF Sound, IsStore
<1>6. Blank.ir = NoIr /\ Blank.id = 0 /\ NoIr.id = 0 /\ b \notin Full(x)
  BY DEF Blank, NoIr, Full
<1>7. \A gp \in DOMAIN x.map : ~IsNkl(gp) => x.map[gp] # b /\ IrIn(x, x.map[gp]).id < x.nextId /\ IrIn(x, x.map[gp]).id # 0
  BY <1>6 DEF Told, IrTold, IrMapped, IrIn
<1>8. /\ r.s.types = x.types /\ IsStore(r.s)
      /\ \A gp \in DOMAIN x.map : gp \in DOMAIN r.s.map /\ r.s.map[gp] = x.map[gp]
      /\ \A gp \in DOMAIN r.s.map : gp \in DOMAIN x.map \/ gp = fp
      /\ x.nextId <= r.s.nextId /\ fp \in DOMAIN r.s.map
      /\ ~r.inserted => fp \in DOMAIN x.map /\ r.at = x.map[fp] /\ r.s = x
      /\ r.inserted => fp \notin DOMAIN x.map /\ r.s.map[fp] = b /\ r.id = x.nextId /\ r.s.nextId = x.nextId + 1
  <2>1. CASE fp \in DOMAIN x.map
    BY <1>5, <2>1 DEF ByFingerprint
  <2>2. CASE fp \notin DOMAIN x.map
    <3>1. r = [s |-> [types |-> x.types, map |-> WithEntry(x.map, fp, b), nextId |-> x.nextId + 1],
               at |-> b, inserted |-> TRUE, id |-> x.nextId]
      BY <1>3, <2>2 DEF ByFingerprint
    <3>2. /\ DOMAIN WithEntry(x.map, fp, b) = DOMAIN x.map \cup {fp} /\ WithEntry(x.map, fp, b)[fp] = b
          /\ \A gp \in DOMAIN x.map : WithEntry(x.map, fp, b)[gp] = x.map[gp]
      BY <2>2 DEF WithEntry
    <3>3. IsStore(r.s)
      BY <1>5, <3>1 DEF IsStore
    <3>4. QED
      BY <1>5, <2>2, <3>1, <3>2, <3>3
  <2>3. QED
    BY <2>1, <2>2
<1> HIDE DEF r
<1>9. IsStore(y) /\ Elsewhere(r.s, y, b) /\ y.types[b] = type
  BY <1>8, TypePut
<1>10. type = [Blank EXCEPT !.ir = v]
  BY <1>8
<1> HIDE DEF y, v
<1>11. type.ir = v /\ type.id = 0 /\ DOMAIN type = DOMAIN Blank
  BY <1>10 DEF Blank
<1> HIDE DEF type
<1>12. /\ DOMAIN y.types = DOMAIN x.types /\ y.map = r.s.map /\ y.nextId = r.s.nextId
       /\ \A t \in DOMAIN x.types : t # b => y.types[t] = x.types[t]
  BY <1>8, <1>9 DEF Elsewhere
<1>13. KeepsFull(x, y)
  BY <1>6, <1>12 DEF KeepsFull, Full
<1>14. v.kind = ir.kind /\ IrSays(y, v, parts) /\ Laid(y, v) /\ v.id \in Nat \ {0} /\ v.id < y.nextId
  <2>1. CASE r.inserted
    <3>1. v = [ir EXCEPT !.id = x.nextId]
      BY <1>8, <2>1 DEF v
    <3>2. /\ v.id = x.nextId /\ v.kind = ir.kind /\ v.num = ir.num /\ v.elems = ir.elems /\ v.proc = ir.proc
          /\ v.size = ir.size /\ v.align = ir.align
      BY <3>1 DEF NoIr
    <3>3. Laid(x, v) /\ IrSays(x, v, parts)
      BY <3>2 DEF Laid, IrSays
    <3>4. QED
      BY <1>5, <1>8, <1>12, <1>13, <2>1, <3>2, <3>3, IrStays
  <2>2. CASE ~r.inserted
    <3>1. v = IrIn(x, x.map[fp]) /\ IrMapped(x, fp)
      BY <1>2, <1>8, <2>2 DEF v, Told, IrTold, IrIn
    <3>2. QED
      BY <1>2, <1>8, <1>12, <1>13, <2>2, <3>1, IrStays DEF IrMapped
  <2>3. QED
    BY <2>1, <2>2
<1>15. IrIn(y, y.map[fp]) = v
  <2>1. CASE r.inserted
    BY <1>8, <1>9, <1>11, <1>12, <2>1 DEF IrIn
  <2>2. CASE ~r.inserted
    <3>1. y.map[fp] = x.map[fp] /\ x.map[fp] # b /\ x.map[fp] \in DOMAIN x.types
      BY <1>2, <1>7, <1>8, <1>12, <2>2 DEF Sound, MapsToTypes
    <3>2. v = x.types[x.map[fp]].ir
      BY <1>8, <2>2 DEF v
    <3>3. QED
      BY <1>12, <3>1, <3>2 DEF IrIn
  <2>3. QED
    BY <2>1, <2>2
<1>16. \A gp \in DOMAIN x.map : ~IsNkl(gp) => y.map[gp] = x.map[gp] /\ IrIn(y, y.map[gp]) = IrIn(x, x.map[gp])
  BY <1>7, <1>8, <1>12 DEF IrIn, Sound, MapsToTypes
<1>17. ASSUME NEW gp \in DOMAIN y.map, ~IsNkl(gp) PROVE gp.subset = "Ir" /\ IrMapped(y, gp)
  <2>1. CASE gp = fp
    BY <1>2, <1>14, <1>15, <2>1 DEF IrMapped
  <2>2. CASE gp # fp
    <3> DEFINE w == IrIn(x, x.map[gp])
    <3>1. gp \in DOMAIN x.map /\ IrIn(y, y.map[gp]) = w
      BY <1>8, <1>12, <1>16, <1>17, <2>2
    <3>2. gp.subset = "Ir" /\ IrMapped(x, gp)
      BY <1>17, <3>1 DEF Told, IrTold
    <3>3. /\ w.id \in Nat \ {0} /\ w.id < x.nextId /\ w.kind = gp.tag
          /\ IrSays(x, w, gp.parts) /\ Laid(x, w)
      BY <3>2 DEF IrMapped
    <3> HIDE DEF w
    <3>4. Laid(y, w) /\ IrSays(y, w, gp.parts)
      BY <1>13, <3>3, IrStays
    <3>5. y.nextId \in Nat /\ w.id < y.nextId
      BY <1>4, <1>5, <1>8, <1>12, <3>3 DEF Sound, IsStore
    <3>6. QED
      BY <3>1, <3>2, <3>3, <3>4, <3>5 DEF IrMapped
  <2>3. QED
    BY <2>1, <2>2
<1>18. ASSUME NEW gp \in DOMAIN y.map, NEW hp \in DOMAIN y.map, ~IsNkl(gp), ~IsNkl(hp),
              IrIn(y, y.map[gp]).id = IrIn(y, y.map[hp]).id
       PROVE  gp = hp
  <2>1. CASE gp \in DOMAIN x.map /\ hp \in DOMAIN x.map
    BY <1>16, <1>18, <2>1 DEF Told, IrTold
  <2>2. ASSUME gp \notin DOMAIN x.map \/ hp \notin DOMAIN x.map PROVE r.inserted /\ v.id = x.nextId
    <3>1. r.inserted
      BY <1>8, <1>12, <2>2
    <3>2. QED
      BY <1>8, <3>1 DEF v, NoIr
  <2>3. CASE gp \notin DOMAIN x.map
    <3>1. gp = fp /\ IrIn(y, y.map[gp]).id = x.nextId
      BY <1>8, <1>12, <1>15, <2>2, <2>3
    <3>2. hp \in DOMAIN x.map => IrIn(y, y.map[hp]).id < x.nextId
      BY <1>7, <1>16, <1>18
    <3>3. hp \notin DOMAIN x.map
      BY <1>5, <1>18, <3>1, <3>2
    <3>4. QED
      BY <1>8, <1>12, <3>1, <3>3
  <2>4. CASE hp \notin DOMAIN x.map
    <3>1. hp = fp /\ IrIn(y, y.map[hp]).id = x.nextId
      BY <1>8, <1>12, <1>15, <2>2, <2>4
    <3>2. gp \in DOMAIN x.map => IrIn(y, y.map[gp]).id < x.nextId
      BY <1>7, <1>16, <1>18
    <3>3. gp \notin DOMAIN x.map
      BY <1>5, <1>18, <3>1, <3>2
    <3>4. QED
      BY <1>8, <1>12, <3>1, <3>3
  <2>5. QED
    BY <2>1, <2>3, <2>4
<1>19. ASSUME NEW t \in DOMAIN y.types PROVE IrOf(y, IrIn(y, t))
  <2>1. CASE t = b
    <3>1. IrIn(y, t) = IrIn(y, y.map[fp]) /\ fp \in DOMAIN y.map
      BY <1>8, <1>9, <1>11, <1>12, <1>15, <2>1 DEF IrIn
    <3>2. QED
      BY <1>2, <3>1 DEF IrOf
  <2>2. CASE t # b
    <3>1. t \in DOMAIN x.types /\ IrIn(y, t) = IrIn(x, t) /\ IrOf(x, IrIn(x, t))
      BY <1>12, <2>2 DEF IrIn, Told, IrTold
    <3>2. QED
      BY <1>8, <1>12, <1>16, <3>1 DEF IrOf
  <2>3. QED
    BY <2>1, <2>2
<1>20. IrTold(y)
  BY <1>17, <1>18, <1>19 DEF IrTold
<1>21. WholeTypes(y)
  BY <1>9, <1>11, <1>12 DEF WholeTypes, Told
<1>22. ASSUME NEW gp \in DOMAIN y.map, IsNkl(gp), y.map[gp] \in Full(y)
       PROVE  TypeTold(y, gp, y.types[y.map[gp]])
  <2>1. gp \in DOMAIN x.map /\ y.map[gp] = x.map[gp] /\ x.map[gp] \in DOMAIN x.types
    BY <1>2, <1>8, <1>12, <1>22 DEF Sound, MapsToTypes
  <2>2. y.map[gp] # b
    BY <1>9, <1>11, <1>22 DEF Full
  <2>3. x.map[gp] \in Full(x) /\ y.types[y.map[gp]] = x.types[x.map[gp]]
    BY <1>12, <1>22, <2>1, <2>2 DEF Full
  <2>4. QED
    BY <1>13, <1>22, <2>1, <2>3, TypesToldOn
<1>23. Told(y)
  BY <1>20, <1>21, <1>22 DEF Told
<1>24. \E w : y.types[b] = [Blank EXCEPT !.ir = w] /\ w.kind = ir.kind /\ IrSays(y, w, parts)
  BY <1>9, <1>10, <1>14
<1>25. QED
  BY <1>1, <1>12, <1>13, <1>23, <1>24 DEF GotIr

-----------------------------------------------------------------------------
(* A constructor is under way: the type at `at` is begun.                    *)
Going(s, x, at, fp) == Opened(s, x, at, fp) /\ Told(x) /\ Keeps(s, x)
Tells(s, g) == Told(g.s) /\ Keeps(s, g.s)
Untouched(x, at) == x.types[at] = Blank

LEMMA Finished ==
  ASSUME NEW s, Sound(s), NEW r, NEW x, NEW fp, IsNkl(fp), Going(s, x, r.at, fp), NEW g, Sound(g.s),
         NEW type, Ended(x, g, r, type), DOMAIN type = DOMAIN Blank,
         type.ir = x.types[r.at].ir \/ Untouched(x, r.at), IrOf(x, type.ir), TypeTold(x, fp, type)
  PROVE  Tells(s, g)
<1> DEFINE at == r.at
           y == g.s
<1>1. /\ Sound(x) /\ at \in DOMAIN x.types /\ at \notin DOMAIN s.types /\ x.types[at].id = 0
      /\ fp \in DOMAIN x.map /\ x.map[fp] = at
      /\ Told(x) /\ Keeps(s, x)
  BY DEF Going, Opened
<1>2. /\ y.map = x.map /\ y.nextId = x.nextId /\ DOMAIN y.types = DOMAIN x.types /\ y.types[at] = type
      /\ \A t \in DOMAIN x.types : t # at => y.types[t] = x.types[t]
  BY DEF Ended, Elsewhere
<1>3. Sound(y)
  OBVIOUS
<1> HIDE DEF y, at
<1>4. KeepsFull(x, y)
  BY <1>1, <1>2 DEF KeepsFull, Full
<1>5. Keeps(s, y)
  BY <1>1, <1>2 DEF Keeps
<1>6. ASSUME NEW gp \in DOMAIN x.map, ~IsNkl(gp) PROVE IrIn(y, y.map[gp]) = IrIn(x, x.map[gp])
  <2>1. x.map[gp] \in DOMAIN x.types /\ IrIn(x, x.map[gp]).id # 0
    BY <1>1, <1>6 DEF Told, IrTold, IrMapped, Sound, MapsToTypes
  <2>2. CASE x.map[gp] # at
    BY <1>2, <2>1, <2>2 DEF IrIn
  <2>3. CASE x.map[gp] = at
    <3>1. ~Untouched(x, at)
      BY <2>1, <2>3 DEF Untouched, IrIn, Blank, NoIr
    <3>2. type.ir = x.types[at].ir
      BY <3>1 DEF at
    <3>3. QED
      BY <1>2, <2>3, <3>2 DEF IrIn
  <2>4. QED
    BY <2>2, <2>3
<1>7. ASSUME NEW t \in DOMAIN y.types PROVE IrOf(x, IrIn(y, t))
  <2>1. CASE t = at
    BY <1>2, <2>1 DEF IrIn
  <2>2. CASE t # at
    <3>1. IrIn(y, t) = IrIn(x, t) /\ t \in DOMAIN x.types
      BY <1>2, <2>2 DEF IrIn
    <3>2. QED
      BY <1>1, <3>1 DEF Told, IrTold
  <2>3. QED
    BY <2>1, <2>2
<1>8. IrTold(y)
  <2>1. x.nextId <= y.nextId
    BY <1>1, <1>2 DEF Sound, IsStore
  <2>2. \A gp \in DOMAIN y.map : ~IsNkl(gp) => gp \in DOMAIN x.map /\ IrIn(y, y.map[gp]) = IrIn(x, x.map[gp])
    BY <1>2, <1>6
  <2>3. IrTold(x) /\ \A gp \in DOMAIN x.map : ~IsNkl(gp) => gp \in DOMAIN y.map
    BY <1>1, <1>2 DEF Told
  <2>4. QED
    BY <1>1, <1>3, <1>4, <1>7, <2>1, <2>2, <2>3, IrToldOn
<1>9. WholeTypes(y)
  BY <1>1, <1>2 DEF WholeTypes, Told
<1>10. TypeTold(y, fp, type)
  <2>1. ElemsIn(x, type.ir.elems)
    BY <1>1, EmptyElems DEF IrOf, Told, IrTold, IrMapped, Laid, NoIr
  <2>2. QED
    BY <1>4, <2>1, TypeStays
<1>11. ASSUME NEW gp \in DOMAIN y.map, IsNkl(gp), y.map[gp] \in Full(y)
       PROVE  TypeTold(y, gp, y.types[y.map[gp]])
  <2>1. CASE gp = fp
    BY <1>1, <1>2, <1>10, <2>1
  <2>2. CASE gp # fp
    <3>1. gp \in DOMAIN x.map /\ y.map[gp] = x.map[gp] /\ x.map[gp] # at /\ x.map[gp] \in DOMAIN x.types
      BY <1>1, <1>2, <1>11, <2>2 DEF Sound, OneFingerprint, MapsToTypes
    <3>2. y.types[y.map[gp]] = x.types[x.map[gp]] /\ x.map[gp] \in Full(x)
      BY <1>2, <1>11, <3>1 DEF Full
    <3>3. TypeTold(y, gp, x.types[x.map[gp]])
      BY <1>1, <1>4, <1>11, <3>1, <3>2, TypesToldOn
    <3>4. QED
      BY <3>2, <3>3
  <2>3. QED
    BY <2>1, <2>2
<1>12. Told(y)
  BY <1>8, <1>9, <1>11 DEF Told
<1>13. QED
  BY <1>5, <1>12 DEF Tells, y

LEMMA BegunGoes ==
  ASSUME NEW s, Sound(s), Told(s), NEW fp, IsNkl(fp), NEW r, r = ByFingerprint(s, fp, 0), r.inserted
  PROVE  Going(s, r.s, r.at, fp) /\ Untouched(r.s, r.at) /\ r.id = s.nextId
  BY Begun, BegunTells DEF Going, Untouched

LEMMA ToldOrFound ==
  ASSUME NEW s, Told(s), NEW r, NEW g, r.inserted => Tells(s, g)
  PROVE  Tells(s, IF r.inserted THEN g ELSE Got(s, r.at))
<1>1. Tells(s, Got(s, r.at))
  BY DEF Tells, Got, Keeps
<1>2. QED
  BY <1>1

(* The constructors that another one calls leave the type it began alone.    *)
LEMMA NestedGoes ==
  ASSUME NEW s, Sound(s), NEW x, NEW at, NEW fp, Going(s, x, at, fp), Untouched(x, at),
         NEW gp, NEW g, Gives(x, gp, g), Tells(x, g)
  PROVE  /\ Going(s, g.s, at, fp) /\ Untouched(g.s, at)
         /\ g.at \in Full(g.s)
<1>1. Opened(s, g.s, at, fp)
  BY NestedGiven DEF Going
<1>2. Keeps(s, g.s)
  BY DEF Going, Tells, Keeps
<1>3. Untouched(g.s, at)
  BY DEF Going, Opened, Tells, Keeps, Untouched
<1>4. g.at \in Full(g.s)
  BY DEF Gives, Full
<1>5. QED
  BY <1>1, <1>2, <1>3, <1>4 DEF Going, Tells

(* The type that was begun gets its representation.                          *)
LEMMA IrGoes ==
  ASSUME NEW s, Sound(s), NEW x, NEW at, NEW fp, Going(s, x, at, fp), Untouched(x, at),
         NEW ir, DOMAIN ir = DOMAIN NoIr, NEW parts, Laid(x, ir), IrSays(x, ir, parts),
         NEW y, y = GetIr(x, at, ir, parts)
  PROVE  /\ Going(s, y, at, fp) /\ KeepsFull(s, y) /\ KeepsFull(x, y)
         /\ DOMAIN y.types[at] = DOMAIN Blank /\ IrOf(y, y.types[at].ir)
         /\ y.types[at].ir.kind = ir.kind /\ IrSays(y, y.types[at].ir, parts) /\ Laid(y, y.types[at].ir)
<1>1. Sound(x) /\ at \in DOMAIN x.types /\ at \notin DOMAIN s.types /\ Told(x) /\ Keeps(s, x)
  BY DEF Going, Opened
<1>2. Sound(y) /\ Grows(x, y)
  BY <1>1, IrGrows
<1>3. Opened(s, y, at, fp)
  BY <1>2, OpenedOn DEF Going
<1>4. GotIr(x, y, at, ir.kind, parts)
  BY <1>1, IrGot DEF Untouched
<1>5. Keeps(s, y) /\ Told(y)
  BY <1>1, <1>4 DEF GotIr, Keeps
<1>6. PICK v : y.types[at] = [Blank EXCEPT !.ir = v] /\ v.kind = ir.kind /\ IrSays(y, v, parts)
  BY <1>4 DEF GotIr
<1>7. y.types[at].ir = v /\ DOMAIN y.types[at] = DOMAIN Blank
  BY <1>6 DEF Blank
<1>8. at \in DOMAIN y.types
  BY <1>3 DEF Opened
<1>9. Laid(y, v) /\ IrOf(y, v)
  BY <1>5, <1>7, <1>8, AllLaid DEF Told, IrTold, IrIn
<1>10. KeepsFull(s, y) /\ KeepsFull(x, y)
  BY <1>4, <1>5, KeepsAreFull DEF GotIr
<1>11. QED
  BY <1>3, <1>5, <1>6, <1>7, <1>9, <1>10 DEF Going

-----------------------------------------------------------------------------
(* The parts of an aggregate's fingerprint, written out.                     *)
LEMMA OneFlat ==
  ASSUME NEW p
  PROVE  FlattenSeq(<<p>>) = p
<1> DEFINE seqs == <<p>>
           Flat(f, i) == IF i = 1 THEN seqs[i] ELSE f[i - 1] \o seqs[i]
           g == [i \in 1..Len(seqs) |-> p]
           flatten == CHOOSE f : f = [i \in 1..Len(seqs) |-> Flat(f, i)]
<1>1. FlattenSeq(seqs) = flatten[1]
  BY DEF FlattenSeq
<1>2. g = [i \in 1..Len(seqs) |-> Flat(g, i)]
  OBVIOUS
<1>3. flatten = [i \in 1..Len(seqs) |-> Flat(flatten, i)]
  <2> HIDE DEF g, Flat, seqs
  <2>1. QED
    BY <1>2
<1> HIDE DEF flatten
<1>4. flatten[1] = p
  BY <1>3
<1>5. QED
  BY <1>1, <1>4

LEMMA NoneFlat == FlattenSeq(<<>>) = <<>>
<1>1. Len(<<>>) = 0
  OBVIOUS
<1>2. QED
  BY <1>1 DEF FlattenSeq

LEMMA PartsOfNone ==
  ASSUME NEW s, NEW e, e = <<>>
  PROVE  AggregateParts(s, e) = <<0>>
<1>1. [i \in DOMAIN e |-> <<s.types[e[i].type].ir.id, e[i].count>>] = <<>> /\ Len(e) = 0
  OBVIOUS
<1>2. <<0>> \in Seq({0})
  OBVIOUS
<1>3. <<0>> \o <<>> = <<0>>
  BY <1>2, ConcatEmptySeq
<1>4. QED
  BY <1>1, <1>3, NoneFlat DEF AggregateParts

LEMMA PartsOfOne ==
  ASSUME NEW s, NEW e, IsSeq(e), Len(e) = 1
  PROVE  AggregateParts(s, e) = <<1, IrIn(s, e[1].type).id, e[1].count>>
<1> DEFINE a == IrIn(s, e[1].type).id
           n == e[1].count
           parts == [i \in DOMAIN e |-> <<s.types[e[i].type].ir.id, e[i].count>>]
<1>1. DOMAIN e = 1..1
  BY SeqParts
<1>2. parts = <<<<a, n>>>>
  BY <1>1 DEF IrIn
<1>3. AggregateParts(s, e) = <<1>> \o FlattenSeq(parts)
  BY DEF AggregateParts
<1> HIDE DEF parts, a, n
<1>4. FlattenSeq(parts) = <<a, n>>
  BY <1>2, OneFlat, Zenon
<1>5. <<1>> \o <<a, n>> = <<1, a, n>>
  BY Tuples, Zenon
<1>6. QED
  BY <1>3, <1>4, <1>5 DEF a, n

LEMMA PartsOfTwo ==
  ASSUME NEW s, NEW e, IsSeq(e), Len(e) = 2
  PROVE  AggregateParts(s, e)
         = <<2, IrIn(s, e[1].type).id, e[1].count, IrIn(s, e[2].type).id, e[2].count>>
<1> DEFINE a == IrIn(s, e[1].type).id
           n == e[1].count
           b == IrIn(s, e[2].type).id
           m == e[2].count
           parts == [i \in DOMAIN e |-> <<s.types[e[i].type].ir.id, e[i].count>>]
<1>1. DOMAIN e = 1..2
  BY SeqParts
<1>2. parts = <<<<a, n>>, <<b, m>>>>
  BY <1>1, SMTT(20) DEF IrIn
<1>3. AggregateParts(s, e) = <<2>> \o FlattenSeq(parts)
  BY DEF AggregateParts
<1> HIDE DEF parts, a, n, b, m
<1>4. FlattenSeq(parts) = <<a, n>> \o <<b, m>>
  BY <1>2, PairFlat, Zenon
<1>5. <<a, n>> \o <<b, m>> = <<a, n, b, m>> /\ <<2>> \o <<a, n, b, m>> = <<2, a, n, b, m>>
  <2>1. <<a, n>> \o <<b, m>> = <<a, n, b, m>>
    BY PairsJoined, Zenon
  <2>2. <<2>> \o <<a, n, b, m>> = <<2, a, n, b, m>>
    BY FourAfterOne
  <2>3. QED
    BY <2>1, <2>2
<1>6. QED
  BY <1>3, <1>4, <1>5 DEF a, n, b, m

(* Aggregates with one fingerprint have elements of one representation.      *)
LEMMA PartsTell ==
  ASSUME NEW s, NEW d, ElemsIn(s, d), NEW e, ElemsIn(s, e), AggregateParts(s, d) = AggregateParts(s, e)
  PROVE  /\ Len(d) = Len(e)
         /\ \A i \in 1..Len(d) : IrIn(s, d[i].type).id = IrIn(s, e[i].type).id /\ d[i].count = e[i].count
<1> DEFINE Says(f) == \/ Len(f) = 0 /\ AggregateParts(s, f) = <<0>>
                      \/ Len(f) = 1 /\ AggregateParts(s, f) = <<1, IrIn(s, f[1].type).id, f[1].count>>
                      \/ Len(f) = 2 /\ AggregateParts(s, f) = <<2, IrIn(s, f[1].type).id, f[1].count,
                                                                IrIn(s, f[2].type).id, f[2].count>>
<1>1. ASSUME NEW f, ElemsIn(s, f) PROVE Says(f)
  <2>1. IsSeq(f) /\ Len(f) <= 2
    BY <1>1 DEF ElemsIn
  <2>2. Len(f) \in Nat
    BY <2>1, SeqParts
  <2>3. Len(f) = 0 => f = <<>>
    BY <2>1 DEF IsSeq
  <2>4. Len(f) = 0 \/ Len(f) = 1 \/ Len(f) = 2
    <3>1. \A n \in Nat : n <= 2 => n = 0 \/ n = 1 \/ n = 2
      OBVIOUS
    <3>2. QED
      BY <2>1, <2>2, <3>1, Zenon
  <2>5. QED
    BY <2>1, <2>3, <2>4, PartsOfNone, PartsOfOne, PartsOfTwo
<1>2. Says(d) /\ Says(e)
  BY <1>1
<1> DEFINE p == AggregateParts(s, d)
<1>3. p = AggregateParts(s, e)
  OBVIOUS
<1> HIDE DEF p
<1>4. CASE Len(d) = 0
  <2>1. p = <<0>>
    BY <1>2, <1>4 DEF p
  <2>2. Len(e) = 0
    BY <1>2, <1>3, <2>1
  <2>3. QED
    BY <1>4, <2>2
<1>5. CASE Len(d) = 1
  <2>1. p = <<1, IrIn(s, d[1].type).id, d[1].count>>
    BY <1>2, <1>5 DEF p
  <2>2. Len(e) = 1 /\ p = <<1, IrIn(s, e[1].type).id, e[1].count>>
    BY <1>2, <1>3, <2>1
  <2>3. QED
    BY <1>5, <2>1, <2>2
<1>6. CASE Len(d) = 2
  <2>1. p = <<2, IrIn(s, d[1].type).id, d[1].count, IrIn(s, d[2].type).id, d[2].count>>
    BY <1>2, <1>6 DEF p
  <2>2. Len(e) = 2 /\ p = <<2, IrIn(s, e[1].type).id, e[1].count, IrIn(s, e[2].type).id, e[2].count>>
    BY <1>2, <1>3, <2>1
  <2>3. QED
    BY <1>6, <2>1, <2>2
<1>7. QED
  BY <1>2, <1>4, <1>5, <1>6

-----------------------------------------------------------------------------
(* Layouts of at most two elements.                                          *)
LEMMA RoundsUp ==
  ASSUME NEW n \in Nat, NEW a \in Nat \ {0}
  PROVE  RoundUp(n, a) \in Nat /\ RoundUp(n, a) % a = 0 /\ n <= RoundUp(n, a)
<1> DEFINE m == n + a - 1
           q == m \div a
           k == m % a
<1>1. m \in Nat
  OBVIOUS
<1>2. q \in Nat /\ k \in Nat /\ m = q * a + k /\ k < a
  <2> HIDE DEF m
  <2>1. q \in Int /\ k \in 0..a-1 /\ m = a * q + k
    BY <1>1
  <2>2. q \in Nat
    BY <1>1
  <2>3. a * q = q * a
    BY <2>2
  <2>4. QED
    BY <2>1, <2>2, <2>3
<1> HIDE DEF q, k
<1>3. PICK p : p = q * a
  OBVIOUS
<1>4. p \in Nat
  BY <1>2, <1>3
<1>5. n <= p
  BY <1>2, <1>3, <1>4
<1>6. p % a = 0
  <2>1. \A i \in Nat : (i * a) % a = 0
    OBVIOUS
  <2>2. QED
    BY <1>2, <1>3, <2>1
<1>7. RoundUp(n, a) = p
  BY <1>3 DEF RoundUp, q
<1>8. QED
  BY <1>4, <1>5, <1>6, <1>7

(* Representations have sizes and alignments.                                *)
Sized(ir) == ir.align \in Nat \ {0} /\ ir.size \in Nat
(* Where the elements end.                                                   *)
EndAfter(end, ir, n) == RoundUp(end, ir.align) + ir.size * n

LEMMA EndsAfter ==
  ASSUME NEW end \in Nat, NEW ir, Sized(ir), NEW n \in Nat
  PROVE  /\ RoundUp(end, ir.align) \in Nat /\ RoundUp(end, ir.align) % ir.align = 0
         /\ end <= RoundUp(end, ir.align)
         /\ EndAfter(end, ir, n) \in Nat /\ RoundUp(end, ir.align) <= EndAfter(end, ir, n)
<1>1. /\ RoundUp(end, ir.align) \in Nat /\ RoundUp(end, ir.align) % ir.align = 0
      /\ end <= RoundUp(end, ir.align)
  BY RoundsUp DEF Sized
<1>2. PICK room \in Nat : room = ir.size * n
  BY DEF Sized
<1>3. EndAfter(end, ir, n) = RoundUp(end, ir.align) + room
  BY <1>2 DEF EndAfter
<1>4. QED
  BY <1>1, <1>3

LEMMA EndsOfFew ==
  ASSUME NEW s, NEW ts, NEW counts, Len(ts) \in {0, 1, 2}
  PROVE  LET e1 == EndAfter(0, IrIn(s, ts[1]), counts[1])
             e2 == EndAfter(e1, IrIn(s, ts[2]), counts[2])
         IN  \A i \in 0..Len(ts) : Ends(s, ts, counts)[i] = IF i = 0 THEN 0 ELSE IF i = 1 THEN e1 ELSE e2
<1> DEFINE n == Len(ts)
           e1 == EndAfter(0, IrIn(s, ts[1]), counts[1])
           e2 == EndAfter(e1, IrIn(s, ts[2]), counts[2])
           Next(f, i) == IF i = 0 THEN 0
                         ELSE LET ir == s.types[ts[i]].ir IN RoundUp(f[i - 1], ir.align) + ir.size * counts[i]
           g == [i \in 0..n |-> IF i = 0 THEN 0 ELSE IF i = 1 THEN e1 ELSE e2]
           end == CHOOSE f : f = [i \in 0..n |-> Next(f, i)]
<1>1. Ends(s, ts, counts) = end
  BY DEF Ends
<1>2. g = [i \in 0..n |-> Next(g, i)]
  <2>1. ASSUME NEW i \in 0..n PROVE g[i] = Next(g, i)
    <3>1. i = 0 \/ i = 1 \/ i = 2
      <4>1. \A m \in {0, 1, 2} : \A k \in 0..m : k = 0 \/ k = 1 \/ k = 2
        OBVIOUS
      <4>2. n \in {0, 1, 2}
        OBVIOUS
      <4> HIDE DEF n
      <4>3. QED
        BY <4>1, <4>2
    <3>2. CASE i = 0
      BY <3>2
    <3>3. CASE i = 1
      <4>1. g[0] = 0 /\ g[1] = e1
        BY <3>3
      <4> HIDE DEF g
      <4>2. QED
        BY <3>3, <4>1 DEF EndAfter, IrIn
    <3>4. CASE i = 2
      <4>1. g[1] = e1 /\ g[2] = e2
        BY <3>4
      <4> HIDE DEF g, e1
      <4>2. QED
        BY <3>4, <4>1 DEF EndAfter, IrIn
    <3>5. QED
      BY <3>1, <3>2, <3>3, <3>4
  <2> HIDE DEF n, e1, e2, Next
  <2>2. QED
    BY <2>1
<1>3. end = [i \in 0..n |-> Next(end, i)]
  <2> HIDE DEF g, Next, n
  <2>1. QED
    BY <1>2
<1> HIDE DEF end
<1>4. n >= 0 => end[0] = 0
  BY <1>3
<1>5. n >= 1 => end[1] = e1
  <2>1. ASSUME n >= 1 PROVE end[1] = Next(end, 1) /\ end[0] = 0
    BY <1>3, <2>1
  <2>2. QED
    BY <2>1 DEF EndAfter, IrIn
<1>6. n = 2 => end[2] = e2
  <2>1. ASSUME n = 2 PROVE end[2] = Next(end, 2) /\ end[1] = e1
    BY <1>3, <1>5, <2>1
  <2> HIDE DEF e1
  <2>2. QED
    BY <2>1 DEF EndAfter, IrIn
<1>7. n \in {0, 1, 2}
  OBVIOUS
<1> HIDE DEF n, e1, e2
<1>8. \A i \in 0..n : end[i] = IF i = 0 THEN 0 ELSE IF i = 1 THEN e1 ELSE e2
  BY <1>4, <1>5, <1>6, <1>7
<1>9. QED
  BY <1>1, <1>8 DEF n, e1, e2

LEMMA AlignmentOfFew ==
  ASSUME NEW s, NEW ts, IsSeq(ts), Len(ts) \in {0, 1, 2}, \A i \in 1..Len(ts) : Sized(IrIn(s, ts[i]))
  PROVE  Alignment(s, ts) \in Nat \ {0}
<1> DEFINE S == {1} \cup {s.types[ts[i]].ir.align : i \in DOMAIN ts}
<1>1. DOMAIN ts = 1..Len(ts)
  BY SeqParts
<1>2. S \subseteq Nat \ {0}
  BY <1>1 DEF Sized, IrIn
<1>3. \E m \in S : \A k \in S : m >= k
  <2>1. CASE Len(ts) = 0
    BY <1>1, <2>1
  <2>2. CASE Len(ts) = 1
    <3> DEFINE a == s.types[ts[1]].ir.align
    <3>1. S = {1, a} /\ a \in Nat \ {0}
      BY <1>1, <2>2 DEF Sized, IrIn
    <3> HIDE DEF S, a
    <3>2. QED
      BY <3>1
  <2>3. CASE Len(ts) = 2
    <3> DEFINE a == s.types[ts[1]].ir.align
               b == s.types[ts[2]].ir.align
    <3>1. S = {1, a, b} /\ a \in Nat \ {0} /\ b \in Nat \ {0}
      BY <1>1, <2>3 DEF Sized, IrIn
    <3> HIDE DEF S, a, b
    <3>2. \A k \in S : k = 1 \/ k = a \/ k = b
      BY <3>1
    <3>3. CASE a >= b
      BY <3>1, <3>2, <3>3
    <3>4. CASE b >= a
      BY <3>1, <3>2, <3>4
    <3>5. QED
      BY <3>1, <3>3, <3>4
  <2>4. QED
    BY <2>1, <2>2, <2>3
<1>4. Alignment(s, ts) = Max(S)
  BY DEF Alignment
<1> HIDE DEF S
<1>5. Max(S) \in S
  BY <1>3 DEF Max
<1>6. QED
  BY <1>2, <1>4, <1>5

(* The layout of an aggregate: its elements as asked for, aligned, apart and *)
(* within its size.                                                          *)
LaysOut(s, ts, counts, ir) ==
  LET l == Layout(s, ts, counts) IN ir.elems = l.elems /\ ir.size = l.size /\ ir.align = l.align

Placeable(s, ts, counts) ==
  /\ IsSeq(ts) /\ Len(ts) \in {0, 1, 2}
  /\ \A i \in 1..Len(ts) : ts[i] \in Full(s) /\ Sized(IrIn(s, ts[i])) /\ counts[i] \in Nat
HasPlaced(ir, ts, counts) ==
  /\ Len(ir.elems) = Len(ts)
  /\ \A i \in 1..Len(ts) : ir.elems[i].type = ts[i] /\ ir.elems[i].count = counts[i]

LEMMA LayoutLaid ==
  ASSUME NEW s, NEW ts, NEW counts, Placeable(s, ts, counts), NEW ir, LaysOut(s, ts, counts, ir)
  PROVE  Laid(s, ir) /\ HasPlaced(ir, ts, counts)
<1> DEFINE n == Len(ts)
           E(i) == Ends(s, ts, counts)[i]
           Of(i) == IrIn(s, ts[i])
           Offset(i) == RoundUp(E(i - 1), Of(i).align)
           e == [i \in 1..n |-> [type |-> ts[i], count |-> counts[i], offset |-> Offset(i)]]
           align == Alignment(s, ts)
<1>1. n \in {0, 1, 2} /\ IsSeq(ts) /\ DOMAIN ts = 1..n
  BY SeqParts DEF Placeable
<1>2. /\ ir.elems = e /\ ir.size = RoundUp(E(n), align) /\ ir.align = align
  BY <1>1 DEF LaysOut, Layout, SizePadded, IrIn
<1>3. align \in Nat \ {0}
  BY <1>1, AlignmentOfFew DEF Placeable
<1>4. \A i \in 1..n : Sized(Of(i)) /\ counts[i] \in Nat /\ ts[i] \in Full(s)
  BY DEF Placeable
<1>5. /\ E(0) = 0
      /\ \A i \in 1..n : E(i) = EndAfter(E(i - 1), Of(i), counts[i])
  <2> DEFINE e1 == EndAfter(0, Of(1), counts[1])
             e2 == EndAfter(e1, Of(2), counts[2])
  <2>1. \A i \in 0..n : E(i) = IF i = 0 THEN 0 ELSE IF i = 1 THEN e1 ELSE e2
    <3>1. Len(ts) \in {0, 1, 2}
      BY DEF Placeable
    <3>2. QED
      BY <3>1, EndsOfFew
  <2> HIDE DEF E, n
  <2>2. E(0) = 0 /\ (n >= 1 => E(1) = e1) /\ (n = 2 => E(2) = e2)
    BY <1>1, <2>1
  <2>3. \A i \in 1..n : (i = 1 /\ n >= 1) \/ (i = 2 /\ n = 2)
    BY <1>1
  <2>4. n >= 1 => E(1) = EndAfter(E(1 - 1), Of(1), counts[1])
    BY <2>2
  <2>5. n = 2 => E(2) = EndAfter(E(2 - 1), Of(2), counts[2])
    BY <2>2
  <2> HIDE DEF Of
  <2>6. QED
    BY <2>2, <2>3, <2>4, <2>5
<1> HIDE DEF E, Of, n
<1>6. /\ E(0) \in Nat
      /\ \A i \in 1..n : /\ E(i - 1) \in Nat /\ E(i) \in Nat
                         /\ Offset(i) \in Nat /\ Offset(i) % Of(i).align = 0
                         /\ E(i - 1) <= Offset(i) /\ Offset(i) <= E(i)
  <2>1. E(0) \in Nat
    BY <1>5
  <2>2. ASSUME NEW i \in 1..n, E(i - 1) \in Nat
        PROVE  /\ E(i) \in Nat /\ Offset(i) \in Nat /\ Offset(i) % Of(i).align = 0
               /\ E(i - 1) <= Offset(i) /\ Offset(i) <= E(i)
    <3>1. Sized(Of(i)) /\ counts[i] \in Nat
      BY <1>4
    <3>2. E(i) = EndAfter(E(i - 1), Of(i), counts[i])
      BY <1>5
    <3>3. \A ir2, n2 : Sized(ir2) /\ n2 \in Nat =>
             LET at == RoundUp(E(i - 1), ir2.align)
             IN  /\ at \in Nat /\ at % ir2.align = 0 /\ E(i - 1) <= at
                 /\ EndAfter(E(i - 1), ir2, n2) \in Nat /\ at <= EndAfter(E(i - 1), ir2, n2)
      BY <2>2, EndsAfter, Zenon
    <3>4. QED
      BY <3>1, <3>2, <3>3, Zenon
  <2>3. ASSUME n >= 1 PROVE 1 \in 1..n /\ E(1 - 1) \in Nat /\ E(1) \in Nat
    <3>1. 1 \in 1..n /\ E(1 - 1) = E(0)
      BY <1>1, <2>3
    <3>2. QED
      BY <2>1, <2>2, <3>1
  <2>4. ASSUME n = 2 PROVE 2 \in 1..n /\ E(2 - 1) \in Nat
    <3>1. 2 \in 1..n /\ n >= 1 /\ E(2 - 1) = E(1)
      BY <2>4
    <3>2. QED
      BY <2>3, <3>1
  <2>5. \A i \in 1..n : (i = 1 /\ n >= 1) \/ (i = 2 /\ n = 2)
    BY <1>1
  <2>6. \A i \in 1..n : E(i - 1) \in Nat
    BY <2>3, <2>4, <2>5
  <2> HIDE DEF Offset
  <2>7. QED
    BY <2>1, <2>2, <2>6
<1>7. /\ IsSeq(e) /\ Len(e) = n /\ DOMAIN e = 1..n
      /\ \A i \in 1..n : e[i].type = ts[i] /\ e[i].count = counts[i] /\ e[i].offset = Offset(i)
  <2> DEFINE S == {[type |-> ts[i], count |-> counts[i], offset |-> Offset(i)] : i \in 1..n}
  <2>1. n \in Nat /\ e \in [1..n -> S]
    BY <1>1
  <2>2. e \in Seq(S) /\ Len(e) = n
    <3> HIDE DEF S, e
    <3>1. QED
      BY <2>1, SeqDef, LenProperties
  <2>3. IsSeq(e)
    BY <2>2, SeqOfAnything
  <2>4. QED
    BY <2>2, <2>3
<1>8. \A i \in 1..n : End(s, e[i]) = E(i)
  <2> SUFFICES ASSUME NEW i \in 1..n PROVE End(s, e[i]) = E(i)
    OBVIOUS
  <2>1. End(s, e[i]) = Offset(i) + Of(i).size * counts[i]
    BY <1>7 DEF End, Of
  <2>2. E(i) = Offset(i) + Of(i).size * counts[i]
    BY <1>5 DEF EndAfter
  <2>3. QED
    BY <2>1, <2>2
<1> HIDE DEF e, Offset, align
<1>9. E(n) \in Nat /\ \A i \in 1..n : E(i) <= E(n)
  <2>1. \A i \in 1..n : i = n \/ (i = n - 1 /\ n \in 1..n)
    BY <1>1
  <2>2. n = 0 \/ n \in 1..n
    BY <1>1
  <2>3. E(n) \in Nat
    BY <1>6, <2>2
  <2>4. \A i \in 1..n : E(i) \in Nat
    BY <1>6
  <2>5. n \in 1..n => E(n - 1) \in Nat /\ Offset(n) \in Nat /\ E(n - 1) <= Offset(n) /\ Offset(n) <= E(n)
    BY <1>6
  <2>6. n \in 1..n => E(n - 1) <= E(n)
    BY <2>3, <2>5
  <2>7. QED
    BY <2>1, <2>3, <2>4, <2>6
<1>10. /\ ir.size \in Nat /\ ir.size % ir.align = 0 /\ E(n) <= ir.size
  BY <1>2, <1>3, <1>9, RoundsUp
<1>11. ElemsIn(s, ir.elems)
  BY <1>1, <1>2, <1>4, <1>7 DEF ElemsIn
<1>12. ASSUME NEW i \in DOMAIN ir.elems
       PROVE  ir.elems[i].offset % IrIn(s, ir.elems[i].type).align = 0 /\ End(s, ir.elems[i]) <= ir.size
  <2>1. i \in 1..n /\ ir.elems[i].offset = Offset(i) /\ ir.elems[i].type = ts[i] /\ End(s, ir.elems[i]) = E(i)
    BY <1>2, <1>7, <1>8, <1>12
  <2>2. Offset(i) % Of(i).align = 0 /\ E(i) \in Nat /\ E(i) <= E(n)
    BY <1>6, <1>9, <2>1
  <2>3. E(i) <= ir.size
    BY <1>9, <1>10, <2>2
  <2>4. QED
    BY <2>1, <2>2, <2>3 DEF Of
<1>13. ASSUME NEW i \in 2..Len(ir.elems) PROVE End(s, ir.elems[i - 1]) <= ir.elems[i].offset
  <2>1. n = 2 /\ i = 2
    BY <1>1, <1>2, <1>7, <1>13
  <2>2. ir.elems[2].offset = Offset(2) /\ End(s, ir.elems[1]) = E(1) /\ E(2 - 1) <= Offset(2)
    BY <1>2, <1>6, <1>7, <1>8, <2>1
  <2>3. QED
    BY <2>1, <2>2
<1>14. Laid(s, ir)
  <2> HIDE DEF End
  <2>1. ir.align \in Nat \ {0}
    BY <1>2, <1>3
  <2>2. QED
    BY <1>10, <1>11, <1>12, <1>13, <2>1 DEF Laid
<1>15. QED
  BY <1>2, <1>7, <1>14 DEF n, HasPlaced

-----------------------------------------------------------------------------
(* What is told of types that are filled in can be read.                     *)
LEMMA FullKept ==
  ASSUME NEW s, NEW x, KeepsFull(s, x), NEW t \in Full(s)
  PROVE  t \in Full(x) /\ Id(x, t) = Id(s, t) /\ IrIn(x, t) = IrIn(s, t) /\ x.types[t] = s.types[t]
  BY DEF KeepsFull, Id, IrIn

LEMMA OneId ==
  ASSUME NEW s, Sound(s), NEW t \in Full(s), NEW u \in Full(s), Id(s, t) = Id(s, u)
  PROVE  t = u
  BY DEF Sound, DistinctIds, Full, Id

LEMMA TupleReads ==
  ASSUME NEW s, Sound(s), NEW t \in Full(s), NEW u \in Full(s), NEW type,
         TupleTold(s, type, <<2, Id(s, t), Id(s, u)>>)
  PROVE  TwoElements(s, type.ir, t, u)
<1> DEFINE parts == <<2, Id(s, t), Id(s, u)>>
<1>1. parts # <<0>>
  OBVIOUS
<1>2. PICK v \in Full(s), w \in Full(s) : parts = <<2, Id(s, v), Id(s, w)>> /\ TwoElements(s, type.ir, v, w)
  BY <1>1 DEF TupleTold
<1>3. Id(s, t) = Id(s, v) /\ Id(s, u) = Id(s, w)
  BY <1>2
<1>4. t = v /\ u = w
  BY <1>3, OneId
<1>5. QED
  BY <1>2, <1>4

LEMMA FieldsRead ==
  ASSUME NEW s, Sound(s), NEW t \in Full(s), NEW u \in Full(s), NEW type, NEW n, NEW m,
         NEW v \in Full(s), NEW w \in Full(s), HasFields(s, type, <<2, n, Id(s, t), m, Id(s, u)>>, v, w)
  PROVE  v = t /\ w = u /\ type.fields = <<Field(n, t), Field(m, u)>>
<1> DEFINE parts == <<2, n, Id(s, t), m, Id(s, u)>>
<1>1. \E a, b : parts = <<2, a, Id(s, v), b, Id(s, w)>> /\ type.fields = <<Field(a, v), Field(b, w)>>
  BY DEF HasFields
<1>2. PICK a, b : parts = <<2, a, Id(s, v), b, Id(s, w)>> /\ type.fields = <<Field(a, v), Field(b, w)>>
  BY <1>1
<1>3. n = a /\ m = b /\ Id(s, t) = Id(s, v) /\ Id(s, u) = Id(s, w)
  BY <1>2
<1>4. t = v /\ u = w
  BY <1>3, OneId
<1>5. QED
  BY <1>2, <1>3, <1>4

LEMMA PointerReads ==
  ASSUME NEW s, Sound(s), NEW t \in Full(s), NEW const \in BOOLEAN, NEW type,
         PointerTold(s, type, <<Id(s, t), Bit(const)>>)
  PROVE  type.target = t /\ type.isConst = const
<1> DEFINE parts == <<Id(s, t), Bit(const)>>
<1>1. PICK u \in Full(s), other \in BOOLEAN :
           parts = <<Id(s, u), Bit(other)>> /\ type.target = u /\ type.isConst = other
  BY DEF PointerTold
<1>2. Id(s, t) = Id(s, u) /\ Bit(const) = Bit(other)
  BY <1>1
<1>3. t = u
  BY <1>2, OneId
<1>4. const = other
  BY <1>2 DEF Bit
<1>5. QED
  BY <1>1, <1>3, <1>4

(* What a constructor answered is told.                                      *)
LEMMA AnswerTold ==
  ASSUME NEW s, NEW c, NEW parts, NEW g, Gives(s, Nkl(c, parts), g), Tells(s, g)
  PROVE  /\ Sound(g.s) /\ Told(g.s) /\ g.at \in Full(g.s)
         /\ TypeTold(g.s, Nkl(c, parts), g.s.types[g.at])
  BY DEF Gives, Tells, Told, Full, IsNkl, Nkl, Fingerprint

LEMMA MarkedKeeps ==
  ASSUME NEW type, DOMAIN type = DOMAIN Blank, NEW c, NEW id
  PROVE  /\ DOMAIN Marked(type, c, id) = DOMAIN Blank
         /\ Marked(type, c, id).ir = type.ir /\ Marked(type, c, id).fields = type.fields
         /\ Marked(type, c, id).target = type.target /\ Marked(type, c, id).isConst = type.isConst
         /\ Marked(type, c, id).underlying = type.underlying
  BY DEF Marked, Blank

LEMMA GoingStore ==
  ASSUME NEW s, NEW x, NEW at, NEW fp, Going(s, x, at, fp)
  PROVE  /\ Sound(x) /\ IsStore(x) /\ at \in DOMAIN x.types /\ Told(x) /\ KeepsFull(s, x)
         /\ DOMAIN x.types[at] = DOMAIN Blank /\ IrOf(x, x.types[at].ir)
  BY KeepsAreFull DEF Going, Opened, Sound, Told, WholeTypes, IrTold, IrIn

LEMMA FillTells ==
  ASSUME NEW s, Sound(s), NEW r, r.id = s.nextId, NEW fp, IsNkl(fp), NEW x, Going(s, x, r.at, fp), NEW tclass,
         TypeTold(x, fp, Marked(x.types[r.at], tclass, r.id))
  PROVE  Tells(s, Fill(x, r, tclass))
<1> DEFINE type == Marked(x.types[r.at], tclass, r.id)
           g == Fill(x, r, tclass)
<1>1. /\ Sound(x) /\ IsStore(x) /\ r.at \in DOMAIN x.types
      /\ DOMAIN x.types[r.at] = DOMAIN Blank /\ IrOf(x, x.types[r.at].ir)
  BY GoingStore
<1>2. Ended(x, g, r, type)
  BY <1>1, FillEnds
<1>3. DOMAIN type = DOMAIN Blank /\ type.ir = x.types[r.at].ir
  BY <1>1, MarkedKeeps
<1>4. Sound(g.s)
  BY FillAnswers DEF Gives, Going
<1> HIDE DEF type, g
<1>5. TypeTold(x, fp, type)
  BY DEF type
<1>6. Tells(s, g)
  BY <1>1, <1>2, <1>3, <1>4, <1>5, Finished
<1>7. QED
  BY <1>6 DEF g

-----------------------------------------------------------------------------
(* The constructors go on telling.                                           *)
LEMMA NumericTells ==
  ASSUME NEW s, Sound(s), Told(s), NEW num, num.size \in Nat \ {0}
  PROVE  Tells(s, GetNumeric(s, num))
<1> DEFINE fp == Nkl("Numeric", <<num.code>>)
           r == ByFingerprint(s, fp, 0)
           x == GetIrNumeric(r.s, r.at, num)
<1>1. GetNumeric(s, num) = IF r.inserted THEN Fill(x, r, "Numeric") ELSE Got(s, r.at)
  BY DEF GetNumeric, Interned, AndThen, Nkl
<1>2. IsNkl(fp) /\ fp.tag = "Numeric" /\ fp.parts = <<num.code>>
  BY DEF IsNkl, Fingerprint, Nkl
<1> HIDE DEF fp
<1>3. ASSUME r.inserted PROVE Tells(s, Fill(x, r, "Numeric"))
  <2> DEFINE ir == [NoIr EXCEPT !.kind = "Numeric", !.size = num.size, !.align = num.size, !.num = num.code]
  <2>1. Going(s, r.s, r.at, fp) /\ Untouched(r.s, r.at) /\ r.id = s.nextId
    BY <1>2, <1>3, BegunGoes
  <2> HIDE DEF r
  <2>2. x = GetIr(r.s, r.at, ir, <<num.code>>)
    BY DEF GetIrNumeric
  <2>3. /\ DOMAIN ir = DOMAIN NoIr /\ ir.kind = "Numeric" /\ ir.num = num.code
        /\ ir.size = num.size /\ ir.align = num.size /\ ir.elems = <<>>
    BY DEF NoIr
  <2> HIDE DEF ir, x
  <2>4. Laid(r.s, ir)
    <3>1. ElemsIn(r.s, ir.elems) /\ DOMAIN ir.elems = {} /\ Len(ir.elems) = 0
      BY <2>3, EmptyElems
    <3>2. \A n \in Nat \ {0} : n % n = 0
      OBVIOUS
    <3>3. QED
      BY <2>3, <3>1, <3>2 DEF Laid
  <2>5. IrSays(r.s, ir, <<num.code>>)
    BY <2>3 DEF IrSays
  <2>6. Going(s, x, r.at, fp) /\ x.types[r.at].ir.kind = "Numeric" /\ IrSays(x, x.types[r.at].ir, <<num.code>>)
    BY <2>1, <2>2, <2>3, <2>4, <2>5, IrGoes
  <2>7. fp.parts = <<x.types[r.at].ir.num>>
    BY <1>2, <2>6 DEF IrSays
  <2>8. Marked(x.types[r.at], "Numeric", r.id).ir = x.types[r.at].ir
    BY <2>6, GoingStore, MarkedKeeps
  <2>9. TypeTold(x, fp, Marked(x.types[r.at], "Numeric", r.id))
    BY <1>2, <2>7, <2>8 DEF TypeTold, NumericTold
  <2>10. QED
    BY <1>2, <2>1, <2>6, <2>9, FillTells
<1>4. QED
  BY <1>1, <1>3, ToldOrFound

(* The elements of an aggregate are of the representations asked for.        *)
HasElements(x, ir, ts, counts) ==
  /\ Len(ir.elems) = Len(ts)
  /\ \A i \in 1..Len(ts) : IrIn(x, ir.elems[i].type).id = IrIn(x, ts[i]).id /\ ir.elems[i].count = counts[i]

LEMMA AggregateGoes ==
  ASSUME NEW s, Sound(s), NEW x, NEW at, NEW fp, Going(s, x, at, fp), Untouched(x, at),
         NEW ts, IsSeq(ts), Len(ts) \in {0, 1, 2}, NEW counts,
         \A i \in 1..Len(ts) : ts[i] \in Full(s) /\ counts[i] \in Nat,
         NEW y, y = GetIrAggregate(x, at, Layout(x, ts, counts))
  PROVE  Going(s, y, at, fp) /\ HasElements(y, y.types[at].ir, ts, counts)
<1> DEFINE layout == Layout(x, ts, counts)
           ir == [NoIr EXCEPT !.kind = "Aggregate", !.size = layout.size, !.align = layout.align,
                              !.elems = layout.elems]
           parts == AggregateParts(x, layout.elems)
           v == y.types[at].ir
<1>1. y = GetIr(x, at, ir, parts)
  BY DEF GetIrAggregate
<1>2. /\ DOMAIN ir = DOMAIN NoIr /\ ir.kind = "Aggregate"
      /\ ir.size = layout.size /\ ir.align = layout.align /\ ir.elems = layout.elems
  BY DEF NoIr
<1>3. parts = AggregateParts(x, ir.elems)
  BY <1>2
<1>4. LaysOut(x, ts, counts, ir)
  BY <1>2 DEF LaysOut
<1> HIDE DEF layout, ir, parts
<1>5. Told(x) /\ KeepsFull(s, x)
  BY GoingStore
<1>6. \A i \in 1..Len(ts) : ts[i] \in Full(x) /\ Sized(IrIn(x, ts[i])) /\ counts[i] \in Nat
  <2> SUFFICES ASSUME NEW i \in 1..Len(ts) PROVE ts[i] \in Full(x) /\ Sized(IrIn(x, ts[i])) /\ counts[i] \in Nat
    OBVIOUS
  <2>1. ts[i] \in Full(x) /\ counts[i] \in Nat
    BY <1>5, FullKept
  <2>2. Laid(x, IrIn(x, ts[i]))
    BY <1>5, <2>1, AllLaid DEF Told, Full
  <2>3. QED
    BY <2>1, <2>2 DEF Laid, Sized
<1>7. Laid(x, ir) /\ HasPlaced(ir, ts, counts)
  <2>1. Placeable(x, ts, counts)
    BY <1>6 DEF Placeable
  <2>2. QED
    BY <1>4, <2>1, LayoutLaid
<1>8. IrSays(x, ir, parts)
  BY <1>2, <1>3 DEF IrSays
<1>9. /\ Going(s, y, at, fp) /\ KeepsFull(x, y) /\ v.kind = "Aggregate"
      /\ IrSays(y, v, parts) /\ Laid(y, v)
  BY <1>1, <1>2, <1>7, <1>8, IrGoes
<1> HIDE DEF v
<1>10. ElemsIn(y, v.elems) /\ AggregateParts(y, v.elems) = parts
  BY <1>9 DEF Laid, IrSays
<1>11. ElemsIn(x, ir.elems)
  BY <1>7 DEF Laid
<1>12. ElemsIn(y, ir.elems) /\ AggregateParts(y, ir.elems) = parts
  BY <1>3, <1>9, <1>11, AggregateStays
<1>13. /\ Len(v.elems) = Len(ir.elems)
       /\ \A i \in 1..Len(v.elems) : /\ IrIn(y, v.elems[i].type).id = IrIn(y, ir.elems[i].type).id
                                     /\ v.elems[i].count = ir.elems[i].count
  BY <1>10, <1>12, PartsTell
<1>14. HasElements(y, v, ts, counts)
  BY <1>7, <1>13 DEF HasElements, HasPlaced
<1>15. QED
  BY <1>9, <1>14 DEF v

LEMMA SingleSeq ==
  ASSUME NEW t
  PROVE  IsSeq(<<t>>) /\ Len(<<t>>) = 1 /\ <<t>>[1] = t
<1>1. <<t>> \in Seq({t})
  OBVIOUS
<1>2. IsSeq(<<t>>)
  BY <1>1, SeqOfAnything
<1>3. QED
  BY <1>2

LEMMA PairSeq ==
  ASSUME NEW t, NEW u
  PROVE  IsSeq(<<t, u>>) /\ Len(<<t, u>>) = 2 /\ <<t, u>>[1] = t /\ <<t, u>>[2] = u
<1>1. <<t, u>> \in Seq({t, u})
  OBVIOUS
<1>2. IsSeq(<<t, u>>)
  BY <1>1, SeqOfAnything
<1>3. QED
  BY <1>2

LEMMA EmptySeqIs == IsSeq(<<>>) /\ Len(<<>>) = 0
  BY DEF IsSeq

LEMMA OneOfElements ==
  ASSUME NEW x, NEW ir, NEW ts, NEW counts, HasElements(x, ir, ts, counts), Len(ts) = 1
  PROVE  OneElement(x, ir, ts[1], counts[1])
<1>1. Len(ir.elems) = 1 /\ 1 \in 1..Len(ts)
  BY DEF HasElements
<1>2. IrIn(x, ir.elems[1].type).id = IrIn(x, ts[1]).id /\ ir.elems[1].count = counts[1]
  BY <1>1 DEF HasElements
<1>3. QED
  BY <1>1, <1>2 DEF OneElement

LEMMA ArrayTells ==
  ASSUME NEW s, Sound(s), Told(s), NEW elem \in Full(s), NEW count \in Nat
  PROVE  Tells(s, GetArray(s, elem, count))
<1> DEFINE fp == Nkl("Array", <<s.types[elem].id, count>>)
           r == ByFingerprint(s, fp, 0)
           ts == <<elem>>
           counts == <<count>>
           x == GetIrAggregate(r.s, r.at, Layout(r.s, ts, counts))
<1>1. GetArray(s, elem, count) = IF r.inserted THEN Fill(x, r, "Array") ELSE Got(s, r.at)
  BY DEF GetArray, Interned, AndThen, Nkl
<1>2. IsNkl(fp) /\ fp.tag = "Array" /\ fp.parts = <<Id(s, elem), count>>
  BY DEF IsNkl, Fingerprint, Nkl, Id
<1> HIDE DEF fp
<1>3. ASSUME r.inserted PROVE Tells(s, Fill(x, r, "Array"))
  <2>1. Going(s, r.s, r.at, fp) /\ Untouched(r.s, r.at) /\ r.id = s.nextId
    BY <1>2, <1>3, BegunGoes
  <2>2. /\ IsSeq(ts) /\ Len(ts) = 1 /\ ts[1] = elem /\ counts[1] = count
        /\ \A i \in 1..Len(ts) : ts[i] \in Full(s) /\ counts[i] \in Nat
    BY SingleSeq
  <2> HIDE DEF r, ts, counts
  <2>3. Going(s, x, r.at, fp) /\ HasElements(x, x.types[r.at].ir, ts, counts)
    BY <2>1, <2>2, AggregateGoes
  <2> HIDE DEF x
  <2>4. OneElement(x, x.types[r.at].ir, elem, count)
    BY <2>2, <2>3, OneOfElements
  <2>5. elem \in Full(x) /\ Id(x, elem) = Id(s, elem)
    BY <2>3, GoingStore, FullKept
  <2> DEFINE type == Marked(x.types[r.at], "Array", r.id)
  <2>6. type.ir = x.types[r.at].ir
    BY <2>3, GoingStore, MarkedKeeps
  <2> HIDE DEF type
  <2>7. ArrayTold(x, type, fp.parts)
    BY <1>2, <2>4, <2>5, <2>6 DEF ArrayTold
  <2>8. TypeTold(x, fp, type)
    BY <1>2, <2>7 DEF TypeTold
  <2>9. QED
    BY <1>2, <2>1, <2>3, <2>8, FillTells DEF type
<1>4. QED
  BY <1>1, <1>3, ToldOrFound

(* Of at most two types.                                                     *)
LEMMA TupleFilledTells ==
  ASSUME NEW s, Sound(s), Told(s), NEW ts, IsSeq(ts), Len(ts) \in {0, 1, 2},
         \A i \in 1..Len(ts) : ts[i] \in Full(s),
         NEW fp, IsNkl(fp), fp.tag = "Tuple",
         \A x, type : KeepsFull(s, x) /\ HasElements(x, type.ir, ts, [i \in DOMAIN ts |-> 1]) => TupleTold(x, type, fp.parts),
         NEW r, r = ByFingerprint(s, fp, 0), r.inserted
  PROVE  Tells(s, Fill(GetIrAggregate(r.s, r.at, Layout(r.s, ts, [i \in DOMAIN ts |-> 1])), r, "Tuple"))
<1> DEFINE counts == [i \in DOMAIN ts |-> 1]
           x == GetIrAggregate(r.s, r.at, Layout(r.s, ts, counts))
<1>1. Going(s, r.s, r.at, fp) /\ Untouched(r.s, r.at) /\ r.id = s.nextId
  BY BegunGoes
<1>2. \A i \in 1..Len(ts) : ts[i] \in Full(s) /\ counts[i] \in Nat
  BY SeqParts
<1>3. Going(s, x, r.at, fp) /\ HasElements(x, x.types[r.at].ir, ts, counts)
  BY <1>1, <1>2, AggregateGoes
<1> HIDE DEF x
<1> DEFINE type == Marked(x.types[r.at], "Tuple", r.id)
<1>4. type.ir = x.types[r.at].ir /\ KeepsFull(s, x)
  BY <1>3, GoingStore, MarkedKeeps
<1> HIDE DEF type
<1>5. TupleTold(x, type, fp.parts)
  BY <1>3, <1>4
<1>6. TypeTold(x, fp, type)
  BY <1>5 DEF TypeTold
<1>7. QED
  BY <1>1, <1>3, <1>6, FillTells DEF type, x

LEMMA TupleTells ==
  ASSUME NEW s, Sound(s), Told(s), NEW t \in Full(s), NEW u \in Full(s)
  PROVE  Tells(s, GetTuple(s, <<t, u>>))
<1> DEFINE ts == <<t, u>>
           fp == Nkl("Tuple", <<Len(ts)>> \o Ids(s, ts))
           r == ByFingerprint(s, fp, 0)
           x == GetIrAggregate(r.s, r.at, Layout(r.s, ts, [i \in DOMAIN ts |-> 1]))
<1>1. GetTuple(s, ts) = IF r.inserted THEN Fill(x, r, "Tuple") ELSE Got(s, r.at)
  BY DEF GetTuple, Interned, AndThen, Nkl
<1>2. fp = Nkl("Tuple", <<2, Id(s, t), Id(s, u)>>)
  BY TupleParts DEF Id
<1> HIDE DEF fp
<1>3. IsNkl(fp) /\ fp.tag = "Tuple" /\ fp.parts = <<2, Id(s, t), Id(s, u)>>
  BY <1>2 DEF IsNkl, Fingerprint, Nkl
<1>4. IsSeq(ts) /\ Len(ts) = 2 /\ ts[1] = t /\ ts[2] = u
  BY PairSeq
<1> HIDE DEF ts
<1>5. ASSUME NEW y, NEW type, KeepsFull(s, y), HasElements(y, type.ir, ts, [i \in DOMAIN ts |-> 1])
      PROVE  TupleTold(y, type, fp.parts)
  <2>1. TwoElements(y, type.ir, t, u)
    BY <1>4, <1>5 DEF HasElements, TwoElements
  <2>2. t \in Full(y) /\ u \in Full(y) /\ Id(y, t) = Id(s, t) /\ Id(y, u) = Id(s, u)
    BY <1>5, FullKept
  <2>3. QED
    BY <1>3, <2>1, <2>2 DEF TupleTold
<1>6. ASSUME r.inserted PROVE Tells(s, Fill(x, r, "Tuple"))
  <2>1. \A i \in 1..Len(ts) : ts[i] \in Full(s)
    BY <1>4
  <2>2. QED
    BY <1>3, <1>4, <1>5, <1>6, <2>1, TupleFilledTells
<1>7. QED
  BY <1>1, <1>6, ToldOrFound DEF ts

LEMMA VoidTells ==
  ASSUME NEW s, Sound(s), Told(s)
  PROVE  Tells(s, GetTuple(s, <<>>))
<1> DEFINE ts == <<>>
           fp == Nkl("Tuple", <<Len(ts)>> \o Ids(s, ts))
           r == ByFingerprint(s, fp, 0)
           x == GetIrAggregate(r.s, r.at, Layout(r.s, ts, [i \in DOMAIN ts |-> 1]))
<1>1. GetTuple(s, ts) = IF r.inserted THEN Fill(x, r, "Tuple") ELSE Got(s, r.at)
  BY DEF GetTuple, Interned, AndThen, Nkl
<1>2. fp = Nkl("Tuple", <<0>>)
  BY EmptyParts
<1> HIDE DEF fp
<1>3. IsNkl(fp) /\ fp.tag = "Tuple" /\ fp.parts = <<0>>
  BY <1>2 DEF IsNkl, Fingerprint, Nkl
<1>4. IsSeq(ts) /\ Len(ts) = 0
  BY EmptySeqIs
<1> HIDE DEF ts
<1>5. ASSUME NEW y, NEW type, KeepsFull(s, y), HasElements(y, type.ir, ts, [i \in DOMAIN ts |-> 1])
      PROVE  TupleTold(y, type, fp.parts)
  BY <1>3, <1>4, <1>5 DEF HasElements, TupleTold
<1>6. ASSUME r.inserted PROVE Tells(s, Fill(x, r, "Tuple"))
  <2>1. \A i \in 1..Len(ts) : ts[i] \in Full(s)
    BY <1>4
  <2>2. QED
    BY <1>3, <1>4, <1>5, <1>6, <2>1, TupleFilledTells
<1>7. QED
  BY <1>1, <1>6, ToldOrFound DEF ts

LEMMA PtrTells ==
  ASSUME NEW s, Sound(s), Told(s), NEW target \in Full(s), NEW const \in BOOLEAN
  PROVE  Tells(s, GetPtr(s, target, const))
<1> DEFINE fp == Nkl("Pointer", <<s.types[target].id, Bit(const)>>)
           r == ByFingerprint(s, fp, 0)
           x == GetIrPtr(r.s, r.at, target)
           g == FillPtr(x, r, target, const)
<1>1. GetPtr(s, target, const) = IF r.inserted THEN g ELSE Got(s, r.at)
  BY DEF GetPtr, Interned, AndThen, Nkl
<1>2. IsNkl(fp) /\ fp.tag = "Pointer" /\ fp.parts = <<Id(s, target), Bit(const)>>
  BY DEF IsNkl, Fingerprint, Nkl, Id
<1> HIDE DEF fp
<1>3. ASSUME r.inserted PROVE Tells(s, g)
  <2> DEFINE ir == [NoIr EXCEPT !.kind = "Pointer", !.size = WordSize, !.align = WordSize]
             parts == <<r.s.types[target].ir.id>>
  <2>1. Going(s, r.s, r.at, fp) /\ Untouched(r.s, r.at) /\ r.id = s.nextId
    BY <1>2, <1>3, BegunGoes
  <2> HIDE DEF r
  <2>2. x = GetIr(r.s, r.at, ir, parts)
    BY DEF GetIrPtr
  <2>3. /\ DOMAIN ir = DOMAIN NoIr /\ ir.kind = "Pointer"
        /\ ir.size = WordSize /\ ir.align = WordSize /\ ir.elems = <<>>
    BY DEF NoIr
  <2> HIDE DEF ir, x, parts
  <2>4. Laid(r.s, ir)
    <3>1. ElemsIn(r.s, ir.elems) /\ DOMAIN ir.elems = {} /\ Len(ir.elems) = 0
      BY <2>3, EmptyElems
    <3>2. \A n \in Nat \ {0} : n % n = 0
      OBVIOUS
    <3>3. QED
      BY <2>3, <3>1, <3>2, TypeSizes DEF Laid
  <2>5. IrSays(r.s, ir, parts)
    BY <2>3 DEF IrSays
  <2>6. Going(s, x, r.at, fp)
    BY <2>1, <2>2, <2>3, <2>4, <2>5, IrGoes
  <2>7. /\ Sound(x) /\ IsStore(x) /\ r.at \in DOMAIN x.types /\ DOMAIN x.types[r.at] = DOMAIN Blank
        /\ IrOf(x, x.types[r.at].ir) /\ target \in Full(x) /\ Id(x, target) = Id(s, target)
    BY <2>6, GoingStore, FullKept
  <2> DEFINE first == [x.types[r.at] EXCEPT !.target = target, !.isConst = const]
             type == Marked(first, "Pointer", r.id)
  <2>8. Ended(x, g, r, type)
    BY <2>7, FillPtrEnds
  <2>9. /\ DOMAIN first = DOMAIN Blank /\ first.ir = x.types[r.at].ir
        /\ first.target = target /\ first.isConst = const
    BY <2>7 DEF Blank
  <2> HIDE DEF first
  <2>10. /\ DOMAIN type = DOMAIN Blank /\ type.ir = x.types[r.at].ir
         /\ type.target = target /\ type.isConst = const
    BY <2>9, MarkedKeeps
  <2> HIDE DEF type
  <2>11. TypeTold(x, fp, type)
    BY <1>2, <2>7, <2>10 DEF TypeTold, PointerTold
  <2>12. Sound(g.s)
    BY <2>1, <2>6, FillPtrAnswers DEF Gives, Going
  <2> HIDE DEF g
  <2>13. QED
    BY <1>2, <2>6, <2>7, <2>8, <2>10, <2>11, <2>12, Finished
<1>4. QED
  BY <1>1, <1>3, ToldOrFound

LEMMA ProcTells ==
  ASSUME NEW s, Sound(s), Told(s), NEW t \in Full(s), NEW u \in Full(s)
  PROVE  Tells(s, GetProc(s, <<u>>, t))
<1> DEFINE fp == Nkl("Procedure", ProcParts(s, <<u>>, t))
           r == ByFingerprint(s, fp, 0)
           x == GetIrProc(r.s, r.at, <<u>>, t)
           g == Fill(x, r, "Procedure")
<1>1. GetProc(s, <<u>>, t) = IF r.inserted THEN g ELSE Got(s, r.at)
  BY DEF GetProc, Interned, AndThen, Nkl
<1>2. \A y : ProcParts(y, <<u>>, t) = <<1, Id(y, u), Id(y, t)>>
  <2> SUFFICES ASSUME NEW y PROVE ProcParts(y, <<u>>, t) = <<1, Id(y, u), Id(y, t)>>
    OBVIOUS
  <2>1. Tail(<<t, u>>) = <<u>>
    OBVIOUS
  <2>2. QED
    BY <2>1, ProcPartsOfPair DEF Id
<1>3. IsNkl(fp) /\ fp.tag = "Procedure" /\ fp.parts = <<1, Id(s, u), Id(s, t)>>
  BY <1>2 DEF IsNkl, Fingerprint, Nkl
<1> HIDE DEF fp
<1>4. ASSUME r.inserted PROVE Tells(s, g)
  <2> DEFINE proc == [params |-> <<u>>, ret |-> t]
             ir == [NoIr EXCEPT !.kind = "Procedure", !.size = WordSize, !.align = WordSize, !.proc = proc]
             parts == ProcParts(r.s, <<u>>, t)
  <2>1. Going(s, r.s, r.at, fp) /\ Untouched(r.s, r.at) /\ r.id = s.nextId
    BY <1>3, <1>4, BegunGoes
  <2> HIDE DEF r
  <2>2. x = GetIr(r.s, r.at, ir, parts)
    BY DEF GetIrProc
  <2>3. /\ DOMAIN ir = DOMAIN NoIr /\ ir.kind = "Procedure" /\ ir.proc = proc
        /\ ir.size = WordSize /\ ir.align = WordSize /\ ir.elems = <<>>
    BY DEF NoIr
  <2>4. parts = <<1, Id(r.s, u), Id(r.s, t)>>
    BY <1>2
  <2> HIDE DEF ir, x, parts
  <2>5. Laid(r.s, ir)
    <3>1. ElemsIn(r.s, ir.elems) /\ DOMAIN ir.elems = {} /\ Len(ir.elems) = 0
      BY <2>3, EmptyElems
    <3>2. \A n \in Nat \ {0} : n % n = 0
      OBVIOUS
    <3>3. QED
      BY <2>3, <3>1, <3>2, TypeSizes DEF Laid
  <2>6. t \in Full(r.s) /\ u \in Full(r.s) /\ Id(r.s, t) = Id(s, t) /\ Id(r.s, u) = Id(s, u)
    BY <2>1, GoingStore, FullKept
  <2>7. IrSays(r.s, ir, parts)
    BY <2>3, <2>4, <2>6 DEF IrSays
  <2>8. /\ Going(s, x, r.at, fp) /\ x.types[r.at].ir.kind = "Procedure"
        /\ IrSays(x, x.types[r.at].ir, parts)
    BY <2>1, <2>2, <2>3, <2>5, <2>7, IrGoes
  <2>9. \E v, w \in Full(x) : x.types[r.at].ir.proc = [params |-> <<w>>, ret |-> v] /\ parts = <<1, Id(x, w), Id(x, v)>>
    BY <2>8 DEF IrSays
  <2> DEFINE type == Marked(x.types[r.at], "Procedure", r.id)
  <2>10. type.ir = x.types[r.at].ir
    BY <2>8, GoingStore, MarkedKeeps
  <2> HIDE DEF type
  <2>11. parts = fp.parts
    BY <1>3, <2>4, <2>6
  <2>12. ProcedureTold(x, type, fp.parts)
    BY <2>9, <2>10, <2>11 DEF ProcedureTold
  <2>13. TypeTold(x, fp, type)
    BY <1>3, <2>12 DEF TypeTold
  <2>14. QED
    BY <1>3, <2>1, <2>8, <2>13, FillTells DEF type
<1>5. QED
  BY <1>1, <1>4, ToldOrFound

TwoFields(n, t, m, u) == <<Field(n, t), Field(m, u)>>

LEMMA TwoFieldsAre ==
  ASSUME NEW n, NEW t, NEW m, NEW u
  PROVE  /\ Len(TwoFields(n, t, m, u)) = 2 /\ DOMAIN TwoFields(n, t, m, u) = 1..2
         /\ TwoFields(n, t, m, u)[1].type = t /\ TwoFields(n, t, m, u)[2].type = u
         /\ FieldTypes(TwoFields(n, t, m, u)) = <<t, u>>
<1> DEFINE fields == TwoFields(n, t, m, u)
<1>1. /\ Len(fields) = 2 /\ DOMAIN fields = 1..2 /\ fields[1] = Field(n, t) /\ fields[2] = Field(m, u)
  BY DEF TwoFields
<1>2. Field(n, t).type = t /\ Field(m, u).type = u
  BY DEF Field
<1> HIDE DEF fields
<1>3. fields[1].type = t /\ fields[2].type = u
  BY <1>1, <1>2
<1>4. [i \in DOMAIN fields |-> fields[i].type] = <<t, u>>
  BY <1>1, <1>3
<1>5. QED
  BY <1>1, <1>3, <1>4 DEF fields, FieldTypes

LEMMA PartsOfTwoFields ==
  ASSUME NEW s, NEW n, NEW t, NEW m, NEW u
  PROVE  FieldParts(s, TwoFields(n, t, m, u)) = <<2, n, Id(s, t), m, Id(s, u)>>
<1> DEFINE a == Id(s, t)
           b == Id(s, u)
           fields == <<Field(n, t), Field(m, u)>>
           parts == [i \in DOMAIN fields |-> <<fields[i].name, s.types[fields[i].type].id>>]
<1>1. TwoFields(n, t, m, u) = fields
  BY DEF TwoFields
<1>2. parts = <<<<n, a>>, <<m, b>>>>
  BY DEF Field, Id
<1>3. Len(fields) = 2
  OBVIOUS
<1>4. FlattenSeq(parts) = <<n, a>> \o <<m, b>>
  BY <1>2, PairFlat, Zenon
<1>5. <<n, a>> \o <<m, b>> = <<n, a, m, b>> /\ <<2>> \o <<n, a, m, b>> = <<2, n, a, m, b>>
  <2> HIDE DEF a, b
  <2>1. <<n, a>> \o <<m, b>> = <<n, a, m, b>>
    BY PairsJoined, Zenon
  <2>2. <<2>> \o <<n, a, m, b>> = <<2, n, a, m, b>>
    BY FourAfterOne, Zenon
  <2>3. QED
    BY <2>1, <2>2
<1>6. FieldParts(s, fields) = <<Len(fields)>> \o FlattenSeq(parts)
  BY DEF FieldParts
<1> HIDE DEF parts, fields
<1>7. QED
  BY <1>1, <1>3, <1>4, <1>5, <1>6

LEMMA NestedTold ==
  ASSUME NEW s, Sound(s), NEW x, NEW at, NEW fp, Going(s, x, at, fp), Untouched(x, at),
         NEW c, NEW parts, NEW g, Gives(x, Nkl(c, parts), g), Tells(x, g)
  PROVE  /\ Going(s, g.s, at, fp) /\ Untouched(g.s, at) /\ Sound(g.s) /\ Told(g.s)
         /\ g.at \in Full(g.s) /\ g.at \in DOMAIN g.s.types /\ KeepsFull(x, g.s)
         /\ TypeTold(g.s, Nkl(c, parts), g.s.types[g.at])
<1>1. Going(s, g.s, at, fp) /\ Untouched(g.s, at)
  BY NestedGoes
<1>2. KeepsFull(x, g.s)
  BY KeepsAreFull DEF Tells
<1>3. QED
  BY <1>1, <1>2, AnswerTold DEF Full

LEMMA StructTells ==
  ASSUME NEW s, Sound(s), Told(s), Closed(s, "Tuple"), NEW n, NEW t \in Full(s), NEW m, NEW u \in Full(s)
  PROVE  Tells(s, GetStruct(s, TwoFields(n, t, m, u)))
<1> DEFINE fields == TwoFields(n, t, m, u)
           fp == Nkl("Struct", FieldParts(s, fields))
           r == ByFingerprint(s, fp, 0)
           tuple == GetTuple(r.s, FieldTypes(fields))
           g == FillFields(tuple, r, fields)
<1>1. GetStruct(s, fields) = IF r.inserted THEN g ELSE Got(s, r.at)
  BY DEF GetStruct, Interned, AndThen, Nkl
<1>2. FieldTypes(fields) = <<t, u>> /\ fields = <<Field(n, t), Field(m, u)>>
  BY TwoFieldsAre DEF TwoFields
<1>3. IsNkl(fp) /\ fp.tag = "Struct" /\ fp.parts = <<2, n, Id(s, t), m, Id(s, u)>>
  BY PartsOfTwoFields DEF IsNkl, Fingerprint, Nkl
<1> SUFFICES Tells(s, GetStruct(s, fields))
  OBVIOUS
<1> HIDE DEF fp, fields, r, tuple, g
<1>4. ASSUME r.inserted PROVE Tells(s, g)
  <2>1. Going(s, r.s, r.at, fp) /\ Untouched(r.s, r.at) /\ r.id = s.nextId
    BY <1>3, <1>4, BegunGoes DEF r
  <2>2. /\ Sound(r.s) /\ Told(r.s) /\ t \in Full(r.s) /\ u \in Full(r.s)
        /\ Id(r.s, t) = Id(s, t) /\ Id(r.s, u) = Id(s, u)
    BY <2>1, GoingStore, FullKept
  <2>3. Closed(r.s, "Tuple")
    BY <1>3, <2>1, OpenedClosed DEF Going
  <2> DEFINE parts == <<2, Id(r.s, t), Id(r.s, u)>>
             tfp == Nkl("Tuple", parts)
  <2>4. Gives(r.s, tfp, tuple)
    <3>1. tfp = Nkl("Tuple", <<Len(<<t, u>>)>> \o Ids(r.s, <<t, u>>))
      BY TupleParts DEF Id
    <3>2. QED
      BY <1>2, <2>2, <2>3, <3>1, TupleGiven DEF tuple
  <2>5. Tells(r.s, tuple)
    BY <1>2, <2>2, TupleTells DEF tuple
  <2> DEFINE x == tuple.s
             inner == x.types[tuple.at]
  <2>6. /\ Going(s, x, r.at, fp) /\ Untouched(x, r.at) /\ Sound(x) /\ Told(x)
        /\ tuple.at \in Full(x) /\ KeepsFull(r.s, x) /\ TypeTold(x, tfp, inner)
    BY <2>1, <2>4, <2>5, NestedTold
  <2>7. t \in Full(x) /\ u \in Full(x) /\ Id(x, t) = Id(r.s, t) /\ Id(x, u) = Id(r.s, u)
    BY <2>2, <2>6, FullKept
  <2>8. TupleTold(x, inner, parts)
    <3>1. tfp.tag = "Tuple" /\ tfp.parts = parts
      BY DEF Nkl, Fingerprint
    <3> HIDE DEF tfp, parts, inner, x
    <3>2. QED
      BY <2>6, <3>1 DEF TypeTold
  <2>9. TwoElements(x, inner.ir, t, u)
    <3>1. parts = <<2, Id(x, t), Id(x, u)>>
      BY <2>7
    <3> HIDE DEF parts, inner, x
    <3>2. QED
      BY <2>6, <2>7, <2>8, <3>1, TupleReads
  <2>10. /\ IsStore(x) /\ r.at \in DOMAIN x.types /\ DOMAIN x.types[r.at] = DOMAIN Blank
    BY <2>6, GoingStore
  <2> DEFINE first == [x.types[r.at] EXCEPT !.fields = fields, !.ir = IrIn(x, tuple.at), !.underlying = tuple.at]
             type == Marked(first, "Struct", r.id)
  <2>11. Ended(x, g, r, type)
    BY <2>10, FillFieldsEnds DEF g
  <2>12. /\ DOMAIN first = DOMAIN Blank /\ first.ir = inner.ir /\ first.fields = fields
    BY <2>10 DEF Blank, IrIn
  <2> HIDE DEF first
  <2>13. DOMAIN type = DOMAIN Blank /\ type.ir = inner.ir /\ type.fields = fields
    BY <2>12, MarkedKeeps
  <2>14. IrOf(x, inner.ir)
    BY <2>6 DEF Told, IrTold, IrIn, Full
  <2>15. Sound(g.s)
    BY <2>1, <2>6, FillFieldsAnswers DEF Gives, Going, g
  <2> HIDE DEF type, inner, x
  <2>16. TypeTold(x, fp, type)
    <3>1. HasFields(x, type, fp.parts, t, u)
      BY <1>2, <1>3, <2>2, <2>7, <2>13 DEF HasFields
    <3>2. StructTold(x, type, fp.parts)
      BY <2>7, <2>9, <2>13, <3>1 DEF StructTold
    <3>3. QED
      BY <1>3, <3>2 DEF TypeTold
  <2>17. QED
    BY <1>3, <2>6, <2>11, <2>13, <2>14, <2>15, <2>16, Finished
<1>5. QED
  BY <1>1, <1>4, ToldOrFound DEF r

LEMMA LargestOfTwo ==
  ASSUME NEW s, NEW void, NEW n, NEW t, NEW m, NEW u,
         Sized(IrIn(s, void)), Sized(IrIn(s, t)), Sized(IrIn(s, u)),
         NEW ir, ir = LargestIr(s, void, TwoFields(n, t, m, u))
  PROVE  /\ ir \in {IrIn(s, void), IrIn(s, t), IrIn(s, u)}
         /\ IrIn(s, t).size <= ir.size /\ IrIn(s, u).size <= ir.size
<1> DEFINE fields == TwoFields(n, t, m, u)
           Larger(one, other) == IF other.size > one.size THEN other ELSE one
           v0 == IrIn(s, void)
           v1 == Larger(v0, IrIn(s, t))
           v2 == Larger(v1, IrIn(s, u))
           Next(f, i) == IF i = 0 THEN v0
                         ELSE LET v == s.types[fields[i].type].ir
                              IN  IF v.size > f[i - 1].size THEN v ELSE f[i - 1]
           g == [i \in 0..2 |-> IF i = 0 THEN v0 ELSE IF i = 1 THEN v1 ELSE v2]
           largest == CHOOSE f : f = [i \in 0..2 |-> Next(f, i)]
<1>1. Len(fields) = 2 /\ fields[1].type = t /\ fields[2].type = u
  BY TwoFieldsAre
<1> HIDE DEF fields
<1>2. ir = largest[2]
  BY <1>1 DEF LargestIr, IrIn, fields
<1>3. g = [i \in 0..2 |-> Next(g, i)]
  <2>1. g[0] = v0 /\ g[1] = v1 /\ g[2] = v2
    OBVIOUS
  <2>2. Next(g, 0) = v0 /\ Next(g, 1) = v1 /\ Next(g, 2) = v2
    <3> HIDE DEF g
    <3>1. Next(g, 0) = v0
      OBVIOUS
    <3>2. Next(g, 1) = v1
      BY <1>1, <2>1 DEF IrIn
    <3> HIDE DEF v1
    <3>3. Next(g, 2) = v2
      BY <1>1, <2>1 DEF IrIn
    <3>4. QED
      BY <3>1, <3>2, <3>3
  <2>3. \A i \in 0..2 : i = 0 \/ i = 1 \/ i = 2
    OBVIOUS
  <2> HIDE DEF Next, v0, v1, v2
  <2>4. \A i \in 0..2 : g[i] = Next(g, i)
    BY <2>1, <2>2, <2>3
  <2>5. QED
    BY <2>4
<1>4. largest = [i \in 0..2 |-> Next(largest, i)]
  <2> HIDE DEF g, Next
  <2>1. QED
    BY <1>3
<1> HIDE DEF largest
<1>5. largest[0] = v0
  BY <1>4
<1>6. largest[1] = v1
  <2>1. largest[1] = Next(largest, 1)
    <3> HIDE DEF Next
    <3>1. QED
      BY <1>4
  <2>2. QED
    BY <1>1, <1>5, <2>1 DEF IrIn
<1>7. largest[2] = v2
  <2>1. largest[2] = Next(largest, 2)
    <3> HIDE DEF Next
    <3>1. QED
      BY <1>4
  <2> HIDE DEF v1
  <2>2. QED
    BY <1>1, <1>6, <2>1 DEF IrIn
<1>8. QED
  BY <1>2, <1>7 DEF Sized

LEMMA UnionTells ==
  ASSUME NEW s, Sound(s), Told(s), Closed(s, "Tuple"), NEW n, NEW t \in Full(s), NEW m, NEW u \in Full(s)
  PROVE  Tells(s, GetUnion(s, TwoFields(n, t, m, u)))
<1> DEFINE fields == TwoFields(n, t, m, u)
           fp == Nkl("Union", FieldParts(s, fields))
           r == ByFingerprint(s, fp, 0)
           void == GetVoid(r.s)
           g == FillUnion(void, r, fields)
<1>1. GetUnion(s, fields) = IF r.inserted THEN g ELSE Got(s, r.at)
  BY DEF GetUnion, Interned, AndThen, Nkl
<1>2. fields = <<Field(n, t), Field(m, u)>>
  BY DEF TwoFields
<1>3. IsNkl(fp) /\ fp.tag = "Union" /\ fp.parts = <<2, n, Id(s, t), m, Id(s, u)>>
  BY PartsOfTwoFields DEF IsNkl, Fingerprint, Nkl
<1> SUFFICES Tells(s, GetUnion(s, fields))
  OBVIOUS
<1> HIDE DEF fp, r, void, g
<1>4. ASSUME r.inserted PROVE Tells(s, g)
  <2>1. Going(s, r.s, r.at, fp) /\ Untouched(r.s, r.at) /\ r.id = s.nextId
    BY <1>3, <1>4, BegunGoes DEF r
  <2>2. /\ Sound(r.s) /\ Told(r.s) /\ t \in Full(r.s) /\ u \in Full(r.s)
        /\ Id(r.s, t) = Id(s, t) /\ Id(r.s, u) = Id(s, u)
    BY <2>1, GoingStore, FullKept
  <2>3. Closed(r.s, "Tuple")
    BY <1>3, <2>1, OpenedClosed DEF Going
  <2> DEFINE parts == <<Len(<<>>)>> \o Ids(r.s, <<>>)
  <2>4. Gives(r.s, Nkl("Tuple", parts), void)
    BY <2>2, <2>3, TupleGiven DEF void, GetVoid
  <2>5. Tells(r.s, void)
    BY <2>2, VoidTells DEF void, GetVoid
  <2> HIDE DEF parts
  <2> DEFINE x == void.s
  <2>6. /\ Going(s, x, r.at, fp) /\ Untouched(x, r.at) /\ Sound(x) /\ Told(x)
        /\ void.at \in Full(x) /\ KeepsFull(r.s, x)
    BY <2>1, <2>4, <2>5, NestedTold
  <2> HIDE DEF x
  <2>7. t \in Full(x) /\ u \in Full(x) /\ Id(x, t) = Id(r.s, t) /\ Id(x, u) = Id(r.s, u)
    BY <2>2, <2>6, FullKept
  <2>8. \A v \in Full(x) : Sized(IrIn(x, v)) /\ IrOf(x, IrIn(x, v))
    BY <2>6, AllLaid DEF Told, IrTold, Laid, Sized, Full
  <2> DEFINE ir == LargestIr(x, void.at, fields)
  <2>9. /\ ir \in {IrIn(x, void.at), IrIn(x, t), IrIn(x, u)}
        /\ HasRoom(x, ir, t) /\ HasRoom(x, ir, u)
    BY <2>6, <2>7, <2>8, LargestOfTwo DEF HasRoom
  <2> HIDE DEF ir
  <2>10. IrOf(x, ir)
    BY <2>6, <2>7, <2>8, <2>9
  <2>11. /\ IsStore(x) /\ r.at \in DOMAIN x.types /\ DOMAIN x.types[r.at] = DOMAIN Blank
    BY <2>6, GoingStore
  <2> HIDE DEF fields
  <2> DEFINE first == [x.types[r.at] EXCEPT !.fields = fields, !.ir = ir]
             type == Marked(first, "Union", r.id)
  <2>12. Ended(x, g, r, type)
    BY <2>11, FillUnionEnds DEF g, ir, x
  <2>13. DOMAIN first = DOMAIN Blank /\ first.ir = ir /\ first.fields = fields
    BY <2>11 DEF Blank
  <2> HIDE DEF first
  <2>14. DOMAIN type = DOMAIN Blank /\ type.ir = ir /\ type.fields = fields
    BY <2>13, MarkedKeeps
  <2>15. Sound(g.s)
    BY <2>1, <2>6, FillUnionAnswers DEF Gives, Going, g, x
  <2> HIDE DEF type
  <2>16. TypeTold(x, fp, type)
    <3>1. HasFields(x, type, fp.parts, t, u)
      BY <1>2, <1>3, <2>2, <2>7, <2>14 DEF HasFields
    <3>2. UnionTold(x, type, fp.parts)
      BY <2>7, <2>9, <2>14, <3>1 DEF UnionTold
    <3>3. QED
      BY <1>3, <3>2 DEF TypeTold
  <2>17. QED
    BY <1>3, <2>6, <2>10, <2>12, <2>14, <2>15, <2>16, Finished
<1>5. QED
  BY <1>1, <1>4, ToldOrFound DEF r

LEMMA FillFromTells ==
  ASSUME NEW s, Sound(s), NEW r, r.id = s.nextId, NEW fp, IsNkl(fp), NEW u, Going(s, u.s, r.at, fp),
         Untouched(u.s, r.at), u.at \in Full(u.s), NEW tclass,
         \A type : type.underlying = u.at => TypeTold(u.s, fp, type)
  PROVE  Tells(s, FillFrom(u, r, tclass))
<1> DEFINE x == u.s
           inner == x.types[u.at]
           type == [inner EXCEPT !.tclass = tclass, !.id = r.id, !.underlying = u.at]
           g == FillFrom(u, r, tclass)
<1>1. /\ Sound(x) /\ IsStore(x) /\ r.at \in DOMAIN x.types /\ Told(x) /\ u.at \in DOMAIN x.types
  BY GoingStore DEF Full
<1>2. DOMAIN inner = DOMAIN Blank /\ IrOf(x, inner.ir)
  BY <1>1 DEF Told, WholeTypes, IrTold, IrIn
<1>3. Ended(x, g, r, type)
  BY <1>1, FillFromEnds
<1> HIDE DEF inner
<1>4. DOMAIN type = DOMAIN Blank /\ type.ir = inner.ir /\ type.underlying = u.at
  BY <1>2 DEF Blank
<1>5. Sound(g.s)
  BY <1>1, FillFromAnswers DEF Gives, Going
<1> HIDE DEF g, type
<1>6. QED
  BY <1>2, <1>3, <1>4, <1>5, Finished DEF g

(* A pair of fields leads back to the first one's type.                      *)
LEMMA PairReads ==
  ASSUME NEW s, Sound(s), NEW g, g.s = s, g.at \in Full(s), NEW n, NEW t \in Full(s), NEW m, NEW u \in Full(s),
         TypeTold(s, Nkl("Struct", <<2, n, Id(s, t), m, Id(s, u)>>), s.types[g.at])
  PROVE  \A type : type.underlying = g.at => Data(s, type, t)
<1> DEFINE parts == <<2, n, Id(s, t), m, Id(s, u)>>
           fp == Nkl("Struct", parts)
           inner == s.types[g.at]
<1>1. fp.tag = "Struct" /\ fp.parts = parts
  BY DEF Nkl, Fingerprint
<1>2. TypeTold(s, fp, inner)
  OBVIOUS
<1> HIDE DEF parts, fp, inner
<1>3. StructTold(s, inner, parts)
  BY <1>1, <1>2 DEF TypeTold
<1>4. PICK v \in Full(s), w \in Full(s) : HasFields(s, inner, parts, v, w)
  BY <1>3 DEF StructTold
<1>5. inner.fields = <<Field(n, t), Field(m, u)>>
  BY <1>4, FieldsRead DEF parts
<1>6. inner.fields[1].type = t
  BY <1>5 DEF Field
<1>7. QED
  BY <1>6 DEF Data, inner

(* The pair of types that enums, slices and `any` are underneath.            *)
LEMMA PairGoes ==
  ASSUME NEW s, Sound(s), NEW x, NEW at, NEW fp, Going(s, x, at, fp), Untouched(x, at),
         Closed(x, "Struct"), Closed(x, "Tuple"), NEW n, NEW t \in Full(x), NEW m, NEW u \in Full(x),
         NEW g, g = Pair(x, n, t, m, u)
  PROVE  /\ Going(s, g.s, at, fp) /\ Untouched(g.s, at) /\ Sound(g.s) /\ g.at \in Full(g.s) /\ KeepsFull(x, g.s)
         /\ \A type : type.underlying = g.at => Data(g.s, type, t)
<1> DEFINE fields == TwoFields(n, t, m, u)
           parts == <<2, n, Id(x, t), m, Id(x, u)>>
           y == g.s
<1>1. g = GetStruct(x, fields)
  BY DEF Pair, TwoFields
<1>2. FieldParts(x, fields) = parts
  BY PartsOfTwoFields
<1>3. Sound(x) /\ Told(x)
  BY GoingStore
<1>4. Gives(x, Nkl("Struct", parts), g)
  BY <1>1, <1>2, <1>3, StructGiven
<1>5. Tells(x, g)
  BY <1>1, <1>3, StructTells
<1> HIDE DEF fields
<1>6. /\ Going(s, y, at, fp) /\ Untouched(y, at) /\ Sound(y) /\ g.at \in Full(y) /\ KeepsFull(x, y)
      /\ TypeTold(y, Nkl("Struct", parts), y.types[g.at])
  BY <1>4, <1>5, NestedTold
<1>7. t \in Full(y) /\ u \in Full(y) /\ Id(y, t) = Id(x, t) /\ Id(y, u) = Id(x, u)
  BY <1>6, FullKept
<1>8. parts = <<2, n, Id(y, t), m, Id(y, u)>>
  BY <1>7
<1> HIDE DEF parts
<1>9. \A type : type.underlying = g.at => Data(y, type, t)
  BY <1>6, <1>7, <1>8, PairReads
<1>10. QED
  BY <1>6, <1>9

LEMMA ByteSizes == Uint64.size \in Nat \ {0} /\ Int8.size \in Nat \ {0}
  BY DEF Uint64, Int8

LEMMA EnumTells ==
  ASSUME NEW s, Sound(s), Told(s), Closed(s, "Union"), Closed(s, "Numeric"), Closed(s, "Struct"), Closed(s, "Tuple"),
         NEW n, NEW t \in Full(s), NEW m, NEW u \in Full(s)
  PROVE  Tells(s, GetEnum(s, TwoFields(n, t, m, u)))
<1> DEFINE fields == TwoFields(n, t, m, u)
           fp == Nkl("Enum", FieldParts(s, fields))
           r == ByFingerprint(s, fp, 0)
           data == GetUnion(r.s, fields)
           tag == GetNumeric(data.s, Uint64)
           pair == Pair(tag.s, DataAtom, data.at, TagAtom, tag.at)
           g == FillFrom(pair, r, "Enum")
<1>1. GetEnum(s, fields) = IF r.inserted THEN g ELSE Got(s, r.at)
  BY DEF GetEnum, Interned, AndThen, Nkl
<1>2. IsNkl(fp) /\ fp.tag = "Enum" /\ fp.parts = <<2, n, Id(s, t), m, Id(s, u)>>
  BY PartsOfTwoFields DEF IsNkl, Fingerprint, Nkl
<1> SUFFICES Tells(s, GetEnum(s, fields))
  OBVIOUS
<1> HIDE DEF fp, r, data, tag, pair, g
<1>3. ASSUME r.inserted PROVE Tells(s, g)
  <2>1. Going(s, r.s, r.at, fp) /\ Untouched(r.s, r.at) /\ r.id = s.nextId
    BY <1>2, <1>3, BegunGoes DEF r
  <2>2. /\ Sound(r.s) /\ Told(r.s) /\ t \in Full(r.s) /\ u \in Full(r.s)
        /\ Id(r.s, t) = Id(s, t) /\ Id(r.s, u) = Id(s, u)
    BY <2>1, GoingStore, FullKept
  <2>3. Closed(r.s, "Union") /\ Closed(r.s, "Numeric") /\ Closed(r.s, "Struct") /\ Closed(r.s, "Tuple")
    BY <1>2, <2>1, OpenedClosed DEF Going
  <2> DEFINE parts == <<2, n, Id(r.s, t), m, Id(r.s, u)>>
             ufp == Nkl("Union", parts)
  <2>4. Gives(r.s, ufp, data)
    BY <2>2, <2>3, UnionGiven, PartsOfTwoFields DEF data
  <2>5. Tells(r.s, data)
    BY <2>2, <2>3, UnionTells DEF data
  <2> HIDE DEF fields
  <2>6. /\ Going(s, data.s, r.at, fp) /\ Untouched(data.s, r.at) /\ Sound(data.s) /\ Told(data.s)
        /\ data.at \in Full(data.s) /\ KeepsFull(r.s, data.s)
        /\ TypeTold(data.s, ufp, data.s.types[data.at])
    BY <2>1, <2>4, <2>5, NestedTold
  <2>7. Closed(data.s, "Numeric") /\ Closed(data.s, "Struct") /\ Closed(data.s, "Tuple")
    BY <2>2, <2>3, <2>4, StillClosed
  <2>8. Gives(data.s, Nkl("Numeric", <<Uint64.code>>), tag)
    BY <2>6, <2>7, NumericGiven DEF tag
  <2>9. Tells(data.s, tag)
    BY <2>6, NumericTells, ByteSizes DEF tag
  <2>10. /\ Going(s, tag.s, r.at, fp) /\ Untouched(tag.s, r.at)
         /\ tag.at \in Full(tag.s) /\ KeepsFull(data.s, tag.s)
    BY <2>1, <2>6, <2>8, <2>9, NestedTold
  <2>11. Closed(tag.s, "Struct") /\ Closed(tag.s, "Tuple")
    BY <2>6, <2>7, <2>8, StillClosed
  <2>12. data.at \in Full(tag.s)
    BY <2>6, <2>10, FullKept
  <2> DEFINE x == pair.s
  <2>13. /\ Going(s, x, r.at, fp) /\ Untouched(x, r.at) /\ pair.at \in Full(x) /\ KeepsFull(tag.s, x)
         /\ \A type : type.underlying = pair.at => Data(x, type, data.at)
    BY <2>10, <2>11, <2>12, PairGoes DEF pair
  <2> HIDE DEF x
  <2>14. /\ data.at \in Full(x) /\ x.types[data.at] = data.s.types[data.at]
         /\ t \in Full(x) /\ u \in Full(x) /\ Id(x, t) = Id(data.s, t) /\ Id(x, u) = Id(data.s, u)
         /\ t \in Full(data.s) /\ u \in Full(data.s) /\ Id(data.s, t) = Id(r.s, t) /\ Id(data.s, u) = Id(r.s, u)
    BY <2>2, <2>6, <2>10, <2>12, <2>13, FullKept
  <2> DEFINE union == data.s.types[data.at]
  <2>15. union.fields = <<Field(n, t), Field(m, u)>>
    <3>1. ufp.tag = "Union" /\ ufp.parts = parts
      BY DEF Nkl, Fingerprint
    <3>2. parts = <<2, n, Id(data.s, t), m, Id(data.s, u)>>
      BY <2>14
    <3> HIDE DEF ufp, parts, union
    <3>3. UnionTold(data.s, union, parts)
      BY <2>6, <3>1 DEF TypeTold, union
    <3>4. PICK v \in Full(data.s), w \in Full(data.s) : HasFields(data.s, union, parts, v, w)
      BY <3>3 DEF UnionTold
    <3>5. HasFields(data.s, union, <<2, n, Id(data.s, t), m, Id(data.s, u)>>, v, w)
      BY <3>2, <3>4
    <3>6. Sound(data.s) /\ t \in Full(data.s) /\ u \in Full(data.s)
      BY <2>6, <2>14
    <3>7. QED
      BY <3>5, <3>6, FieldsRead
  <2>16. HasFields(x, x.types[data.at], fp.parts, t, u)
    <3>1. fp.parts = <<2, n, Id(x, t), m, Id(x, u)>>
      BY <1>2, <2>2, <2>14
    <3> HIDE DEF union
    <3>2. x.types[data.at].fields = <<Field(n, t), Field(m, u)>>
      BY <2>14, <2>15 DEF union
    <3>3. QED
      BY <3>1, <3>2 DEF HasFields
  <2>17. ASSUME NEW type, type.underlying = pair.at PROVE TypeTold(x, fp, type)
    <3>1. Data(x, type, data.at)
      BY <2>13, <2>17
    <3>2. EnumTold(x, type, fp.parts)
      BY <2>14, <2>16, <3>1 DEF EnumTold
    <3>3. QED
      BY <1>2, <3>2 DEF TypeTold
  <2>18. QED
    BY <1>2, <2>1, <2>13, <2>17, FillFromTells DEF g, x
<1>4. QED
  BY <1>1, <1>3, ToldOrFound DEF r

LEMMA SliceTells ==
  ASSUME NEW s, Sound(s), Told(s), Closed(s, "Pointer"), Closed(s, "Numeric"), Closed(s, "Struct"), Closed(s, "Tuple"),
         NEW target \in Full(s), NEW const \in BOOLEAN
  PROVE  Tells(s, GetSlice(s, target, const))
<1> DEFINE fp == Nkl("Slice", SliceParts(s, target, const))
           r == ByFingerprint(s, fp, 0)
           data == GetPtr(r.s, target, const)
           size == GetNumeric(data.s, Uint64)
           pair == Pair(size.s, DataAtom, data.at, SizeAtom, size.at)
           g == FillFrom(pair, r, "Slice")
<1>1. GetSlice(s, target, const) = IF r.inserted THEN g ELSE Got(s, r.at)
  BY DEF GetSlice, Interned, AndThen, Nkl
<1>2. IsNkl(fp) /\ fp.tag = "Slice" /\ fp.parts = <<Id(s, target), Bit(const)>>
  BY DEF IsNkl, Fingerprint, Nkl, SliceParts, Id
<1> HIDE DEF fp, r, data, size, pair, g
<1>3. ASSUME r.inserted PROVE Tells(s, g)
  <2>1. Going(s, r.s, r.at, fp) /\ Untouched(r.s, r.at) /\ r.id = s.nextId
    BY <1>2, <1>3, BegunGoes DEF r
  <2>2. Sound(r.s) /\ Told(r.s) /\ target \in Full(r.s) /\ Id(r.s, target) = Id(s, target)
    BY <2>1, GoingStore, FullKept
  <2>3. Closed(r.s, "Pointer") /\ Closed(r.s, "Numeric") /\ Closed(r.s, "Struct") /\ Closed(r.s, "Tuple")
    BY <1>2, <2>1, OpenedClosed DEF Going
  <2> DEFINE parts == <<Id(r.s, target), Bit(const)>>
             pfp == Nkl("Pointer", parts)
  <2>4. Gives(r.s, pfp, data)
    BY <2>2, <2>3, PtrGiven DEF data, Id
  <2>5. Tells(r.s, data)
    BY <2>2, PtrTells DEF data
  <2>6. /\ Going(s, data.s, r.at, fp) /\ Untouched(data.s, r.at) /\ Sound(data.s) /\ Told(data.s)
        /\ data.at \in Full(data.s) /\ KeepsFull(r.s, data.s)
        /\ TypeTold(data.s, pfp, data.s.types[data.at])
    BY <2>1, <2>4, <2>5, NestedTold
  <2>7. Closed(data.s, "Numeric") /\ Closed(data.s, "Struct") /\ Closed(data.s, "Tuple")
    BY <2>2, <2>3, <2>4, StillClosed
  <2>8. Gives(data.s, Nkl("Numeric", <<Uint64.code>>), size)
    BY <2>6, <2>7, NumericGiven DEF size
  <2>9. Tells(data.s, size)
    BY <2>6, NumericTells, ByteSizes DEF size
  <2>10. /\ Going(s, size.s, r.at, fp) /\ Untouched(size.s, r.at)
         /\ size.at \in Full(size.s) /\ KeepsFull(data.s, size.s)
    BY <2>1, <2>6, <2>8, <2>9, NestedTold
  <2>11. Closed(size.s, "Struct") /\ Closed(size.s, "Tuple")
    BY <2>6, <2>7, <2>8, StillClosed
  <2>12. data.at \in Full(size.s)
    BY <2>6, <2>10, FullKept
  <2> DEFINE x == pair.s
  <2>13. /\ Going(s, x, r.at, fp) /\ Untouched(x, r.at) /\ pair.at \in Full(x) /\ KeepsFull(size.s, x)
         /\ \A type : type.underlying = pair.at => Data(x, type, data.at)
    BY <2>10, <2>11, <2>12, PairGoes DEF pair
  <2> HIDE DEF x
  <2>14. /\ data.at \in Full(x) /\ x.types[data.at] = data.s.types[data.at]
         /\ target \in Full(x) /\ Id(x, target) = Id(data.s, target)
         /\ target \in Full(data.s) /\ Id(data.s, target) = Id(r.s, target)
    BY <2>2, <2>6, <2>10, <2>12, <2>13, FullKept
  <2> DEFINE pointer == data.s.types[data.at]
  <2>15. pointer.target = target /\ pointer.isConst = const
    <3>1. pfp.tag = "Pointer" /\ pfp.parts = parts
      BY DEF Nkl, Fingerprint
    <3>2. parts = <<Id(data.s, target), Bit(const)>>
      BY <2>14
    <3> HIDE DEF pfp, parts, pointer
    <3>3. PointerTold(data.s, pointer, parts)
      BY <2>6, <3>1 DEF TypeTold, pointer
    <3>4. QED
      BY <2>6, <2>14, <3>2, <3>3, PointerReads
  <2>16. PointerTold(x, x.types[data.at], fp.parts)
    <3>1. fp.parts = <<Id(x, target), Bit(const)>>
      BY <1>2, <2>2, <2>14
    <3>2. x.types[data.at].target = target /\ x.types[data.at].isConst = const
      BY <2>14, <2>15
    <3> HIDE DEF pointer
    <3>3. QED
      BY <2>14, <3>1, <3>2 DEF PointerTold
  <2>17. ASSUME NEW type, type.underlying = pair.at PROVE TypeTold(x, fp, type)
    <3>1. Data(x, type, data.at)
      BY <2>13, <2>17
    <3>2. SliceTold(x, type, fp.parts)
      BY <2>14, <2>16, <3>1 DEF SliceTold
    <3>3. QED
      BY <1>2, <3>2 DEF TypeTold
  <2>18. QED
    BY <1>2, <2>1, <2>13, <2>17, FillFromTells DEF g, x
<1>4. QED
  BY <1>1, <1>3, ToldOrFound DEF r

LEMMA BoolTells ==
  ASSUME NEW s, Sound(s), Told(s), Closed(s, "Numeric")
  PROVE  Tells(s, GetBool(s))
<1> DEFINE fp == Nkl("Bool", <<>>)
           r == ByFingerprint(s, fp, 0)
           num == GetNumeric(r.s, Int8)
           g == FillFrom(num, r, "Bool")
<1>1. GetBool(s) = IF r.inserted THEN g ELSE Got(s, r.at)
  BY DEF GetBool, Interned, AndThen, Nkl
<1>2. IsNkl(fp) /\ fp.tag = "Bool"
  BY DEF IsNkl, Fingerprint, Nkl
<1> HIDE DEF fp, r, num, g
<1>3. ASSUME r.inserted PROVE Tells(s, g)
  <2>1. Going(s, r.s, r.at, fp) /\ Untouched(r.s, r.at) /\ r.id = s.nextId
    BY <1>2, <1>3, BegunGoes DEF r
  <2>2. Sound(r.s) /\ Told(r.s) /\ Closed(r.s, "Numeric")
    BY <1>2, <2>1, GoingStore, OpenedClosed DEF Going
  <2> DEFINE parts == <<Int8.code>>
             nfp == Nkl("Numeric", parts)
             x == num.s
  <2>3. Gives(r.s, nfp, num)
    BY <2>2, NumericGiven DEF num
  <2>4. Tells(r.s, num)
    BY <2>2, NumericTells, ByteSizes DEF num
  <2>5. /\ Going(s, x, r.at, fp) /\ Untouched(x, r.at) /\ num.at \in Full(x)
        /\ TypeTold(x, nfp, x.types[num.at])
    BY <2>1, <2>3, <2>4, NestedTold
  <2>6. IrIn(x, num.at).num = Int8.code
    <3>1. nfp.tag = "Numeric" /\ nfp.parts = parts
      BY DEF Nkl, Fingerprint
    <3> HIDE DEF nfp, x
    <3>2. parts = <<x.types[num.at].ir.num>>
      BY <2>5, <3>1 DEF TypeTold, NumericTold
    <3>3. QED
      BY <3>2 DEF IrIn
  <2>7. ASSUME NEW type, type.underlying = num.at PROVE TypeTold(x, fp, type)
    BY <1>2, <2>5, <2>6, <2>7 DEF TypeTold, BoolTold
  <2>8. QED
    BY <1>2, <2>1, <2>5, <2>7, FillFromTells DEF g
<1>4. QED
  BY <1>1, <1>3, ToldOrFound DEF r

LEMMA TyperefTells ==
  ASSUME NEW s, Sound(s), Told(s), Closed(s, "Tuple"), Closed(s, "Pointer")
  PROVE  Tells(s, GetTyperef(s))
<1> DEFINE fp == Nkl("Typeref", <<>>)
           r == ByFingerprint(s, fp, 0)
           void == GetVoid(r.s)
           ptr == GetPtr(void.s, void.at, TRUE)
           g == FillFrom(ptr, r, "Typeref")
<1>1. GetTyperef(s) = IF r.inserted THEN g ELSE Got(s, r.at)
  BY DEF GetTyperef, Interned, AndThen, Nkl
<1>2. IsNkl(fp) /\ fp.tag = "Typeref"
  BY DEF IsNkl, Fingerprint, Nkl
<1> HIDE DEF fp, r, void, ptr, g
<1>3. ASSUME r.inserted PROVE Tells(s, g)
  <2>1. Going(s, r.s, r.at, fp) /\ Untouched(r.s, r.at) /\ r.id = s.nextId
    BY <1>2, <1>3, BegunGoes DEF r
  <2>2. Sound(r.s) /\ Told(r.s) /\ Closed(r.s, "Tuple") /\ Closed(r.s, "Pointer")
    BY <1>2, <2>1, GoingStore, OpenedClosed DEF Going
  <2>3. Gives(r.s, Nkl("Tuple", <<Len(<<>>)>> \o Ids(r.s, <<>>)), void)
    BY <2>2, TupleGiven DEF void, GetVoid
  <2>4. Tells(r.s, void)
    BY <2>2, VoidTells DEF void, GetVoid
  <2>5. /\ Going(s, void.s, r.at, fp) /\ Untouched(void.s, r.at) /\ Sound(void.s) /\ Told(void.s)
        /\ void.at \in Full(void.s)
    BY <2>1, <2>3, <2>4, NestedTold
  <2>6. Closed(void.s, "Pointer")
    BY <2>2, <2>3, StillClosed
  <2>7. Gives(void.s, Nkl("Pointer", <<void.s.types[void.at].id, Bit(TRUE)>>), ptr)
    BY <2>5, <2>6, PtrGiven DEF ptr
  <2>8. Tells(void.s, ptr)
    BY <2>5, PtrTells DEF ptr
  <2>9. Going(s, ptr.s, r.at, fp) /\ Untouched(ptr.s, r.at) /\ ptr.at \in Full(ptr.s)
    BY <2>1, <2>5, <2>7, <2>8, NestedTold
  <2>10. \A type : TypeTold(ptr.s, fp, type)
    BY <1>2 DEF TypeTold
  <2>11. QED
    BY <1>2, <2>1, <2>9, <2>10, FillFromTells DEF g
<1>4. QED
  BY <1>1, <1>3, ToldOrFound DEF r

LEMMA AnyTells ==
  ASSUME NEW s, Sound(s), Told(s), Closed(s, "Tuple"), Closed(s, "Pointer"), Closed(s, "Typeref"), Closed(s, "Struct")
  PROVE  Tells(s, GetAny(s))
<1> DEFINE fp == Nkl("Any", <<>>)
           r == ByFingerprint(s, fp, 0)
           void == GetVoid(r.s)
           data == GetPtr(void.s, void.at, FALSE)
           ref == GetTyperef(data.s)
           pair == Pair(ref.s, DataAtom, data.at, TypeAtom, ref.at)
           g == FillFrom(pair, r, "Any")
<1>1. GetAny(s) = IF r.inserted THEN g ELSE Got(s, r.at)
  BY DEF GetAny, Interned, AndThen, Nkl
<1>2. IsNkl(fp) /\ fp.tag = "Any"
  BY DEF IsNkl, Fingerprint, Nkl
<1> HIDE DEF fp, r, void, data, ref, pair, g
<1>3. ASSUME r.inserted PROVE Tells(s, g)
  <2>1. Going(s, r.s, r.at, fp) /\ Untouched(r.s, r.at) /\ r.id = s.nextId
    BY <1>2, <1>3, BegunGoes DEF r
  <2>2. /\ Sound(r.s) /\ Told(r.s)
        /\ Closed(r.s, "Tuple") /\ Closed(r.s, "Pointer") /\ Closed(r.s, "Typeref") /\ Closed(r.s, "Struct")
    BY <1>2, <2>1, GoingStore, OpenedClosed DEF Going
  <2>3. Gives(r.s, Nkl("Tuple", <<Len(<<>>)>> \o Ids(r.s, <<>>)), void)
    BY <2>2, TupleGiven DEF void, GetVoid
  <2>4. Tells(r.s, void)
    BY <2>2, VoidTells DEF void, GetVoid
  <2>5. /\ Going(s, void.s, r.at, fp) /\ Untouched(void.s, r.at) /\ Sound(void.s) /\ Told(void.s)
        /\ void.at \in Full(void.s)
    BY <2>1, <2>3, <2>4, NestedTold
  <2>6. Closed(void.s, "Tuple") /\ Closed(void.s, "Pointer") /\ Closed(void.s, "Typeref") /\ Closed(void.s, "Struct")
    BY <2>2, <2>3, StillClosed
  <2>7. Gives(void.s, Nkl("Pointer", <<void.s.types[void.at].id, Bit(FALSE)>>), data)
    BY <2>5, <2>6, PtrGiven DEF data
  <2>8. Tells(void.s, data)
    BY <2>5, PtrTells DEF data
  <2>9. /\ Going(s, data.s, r.at, fp) /\ Untouched(data.s, r.at) /\ Sound(data.s) /\ Told(data.s)
        /\ data.at \in Full(data.s)
    BY <2>1, <2>5, <2>7, <2>8, NestedTold
  <2>10. Closed(data.s, "Tuple") /\ Closed(data.s, "Pointer") /\ Closed(data.s, "Typeref") /\ Closed(data.s, "Struct")
    BY <2>5, <2>6, <2>7, StillClosed
  <2>11. Gives(data.s, Nkl("Typeref", <<>>), ref)
    BY <2>9, <2>10, TyperefGiven DEF ref
  <2>12. Tells(data.s, ref)
    BY <2>9, <2>10, TyperefTells DEF ref
  <2>13. /\ Going(s, ref.s, r.at, fp) /\ Untouched(ref.s, r.at)
         /\ ref.at \in Full(ref.s) /\ KeepsFull(data.s, ref.s)
    BY <2>1, <2>9, <2>11, <2>12, NestedTold
  <2>14. Closed(ref.s, "Tuple") /\ Closed(ref.s, "Struct") /\ data.at \in Full(ref.s)
    BY <2>9, <2>10, <2>11, <2>13, StillClosed, FullKept
  <2>15. Going(s, pair.s, r.at, fp) /\ Untouched(pair.s, r.at) /\ pair.at \in Full(pair.s)
    BY <2>13, <2>14, PairGoes DEF pair
  <2>16. \A type : TypeTold(pair.s, fp, type)
    BY <1>2 DEF TypeTold
  <2>17. QED
    BY <1>2, <2>1, <2>15, <2>16, FillFromTells DEF g
<1>4. QED
  BY <1>1, <1>3, ToldOrFound DEF r

LEMMA AnswerTells ==
  ASSUME NEW s, Sound(s), Filled(s), Told(s), NEW q, Asked(q, DOMAIN s.types)
  PROVE  Tells(s, Answer(s, q))
<1>1. \A c : Closed(s, c)
  BY FilledClosed
<1>2. Full(s) = DOMAIN s.types
  BY DEF Full, Filled
<1>3. CASE AsksNumeric(q)
  <2>1. PICK num \in Numerics : q = Request("Numeric", <<>>, num.code, FALSE)
    BY <1>3 DEF AsksNumeric
  <2> DEFINE one == CHOOSE m \in Numerics : m.code = q.n
  <2>2. q.tclass = "Numeric" /\ q.n = num.code
    BY <2>1 DEF Request
  <2>3. one \in Numerics
    BY <2>2
  <2> HIDE DEF one
  <2>4. Answer(s, q) = GetNumeric(s, one)
    BY <2>2 DEF Answer, one
  <2>5. QED
    BY <2>3, <2>4, NumericTells, TypeSizes
<1>4. CASE AsksPlain(q)
  <2>1. PICK c \in {"Bool", "Typeref", "Any", "Tuple"} : q = Request(c, <<>>, 0, FALSE)
    BY <1>4 DEF AsksPlain
  <2>2. q.tclass = c /\ q.types = <<>>
    BY <2>1 DEF Request
  <2>3. CASE c = "Bool"
    <3>1. Answer(s, q) = GetBool(s)
      BY <2>2, <2>3 DEF Answer
    <3>2. QED
      BY <1>1, <3>1, BoolTells
  <2>4. CASE c = "Typeref"
    <3>1. Answer(s, q) = GetTyperef(s)
      BY <2>2, <2>4 DEF Answer
    <3>2. QED
      BY <1>1, <3>1, TyperefTells
  <2>5. CASE c = "Any"
    <3>1. Answer(s, q) = GetAny(s)
      BY <2>2, <2>5 DEF Answer
    <3>2. QED
      BY <1>1, <3>1, AnyTells
  <2>6. CASE c = "Tuple"
    <3>1. Answer(s, q) = GetTuple(s, <<>>)
      BY <2>2, <2>6 DEF Answer
    <3>2. QED
      BY <3>1, VoidTells
  <2>7. QED
    BY <2>3, <2>4, <2>5, <2>6
<1>5. CASE AsksArray(q, DOMAIN s.types)
  <2>1. PICK t \in DOMAIN s.types, n \in Counts : q = Request("Array", <<t>>, n, FALSE)
    BY <1>5 DEF AsksArray
  <2>2. q.tclass = "Array" /\ q.types[1] = t /\ q.n = n
    BY <2>1 DEF Request
  <2>3. Answer(s, q) = GetArray(s, t, n)
    BY <2>2 DEF Answer
  <2>4. t \in Full(s) /\ n \in Nat
    BY <1>2, TypeSizes
  <2>5. QED
    BY <2>3, <2>4, ArrayTells
<1>6. CASE AsksRef(q, DOMAIN s.types)
  <2>1. PICK c \in {"Pointer", "Slice"}, t \in DOMAIN s.types, const \in BOOLEAN : q = Request(c, <<t>>, 0, const)
    BY <1>6 DEF AsksRef
  <2>2. q.tclass = c /\ q.types[1] = t /\ q.const = const /\ t \in Full(s)
    BY <1>2, <2>1 DEF Request
  <2>3. CASE c = "Pointer"
    <3>1. Answer(s, q) = GetPtr(s, t, const)
      BY <2>2, <2>3 DEF Answer
    <3>2. QED
      BY <2>2, <3>1, PtrTells
  <2>4. CASE c = "Slice"
    <3>1. Answer(s, q) = GetSlice(s, t, const)
      BY <2>2, <2>4 DEF Answer
    <3>2. QED
      BY <1>1, <2>2, <3>1, SliceTells
  <2>5. QED
    BY <2>3, <2>4
<1>7. CASE AsksPair(q, DOMAIN s.types)
  <2>1. PICK c \in {"Tuple", "Procedure", "Struct", "Union", "Enum"}, t \in DOMAIN s.types, u \in DOMAIN s.types :
             q = Request(c, <<t, u>>, 0, FALSE)
    BY <1>7 DEF AsksPair
  <2>2. q.tclass = c /\ q.types = <<t, u>> /\ q.types[1] = t /\ t \in Full(s) /\ u \in Full(s)
    BY <1>2, <2>1 DEF Request
  <2>3. CASE c = "Tuple"
    <3>1. Answer(s, q) = GetTuple(s, <<t, u>>)
      BY <2>2, <2>3 DEF Answer
    <3>2. QED
      BY <2>2, <3>1, TupleTells
  <2>4. CASE c = "Procedure"
    <3>1. Tail(<<t, u>>) = <<u>>
      OBVIOUS
    <3>2. Answer(s, q) = GetProc(s, <<u>>, t)
      BY <2>2, <2>4, <3>1 DEF Answer
    <3>3. QED
      BY <2>2, <3>2, ProcTells
  <2> DEFINE fields == TwoFields(FieldNames[1], t, FieldNames[2], u)
  <2>5. CASE c \in {"Struct", "Union", "Enum"}
    <3>1. Fields(q.types) = fields
      BY <2>2 DEF Fields, TwoFields
    <3>2. Tells(s, GetStruct(s, fields)) /\ Tells(s, GetUnion(s, fields)) /\ Tells(s, GetEnum(s, fields))
      BY <1>1, <2>2, StructTells, UnionTells, EnumTells
    <3> HIDE DEF fields
    <3>3. CASE c = "Struct"
      BY <2>2, <3>1, <3>2, <3>3 DEF Answer
    <3>4. CASE c = "Union"
      BY <2>2, <3>1, <3>2, <3>4 DEF Answer
    <3>5. CASE c = "Enum"
      BY <2>2, <3>1, <3>2, <3>5 DEF Answer
    <3>6. QED
      BY <2>5, <3>3, <3>4, <3>5
  <2>6. QED
    BY <2>1, <2>3, <2>4, <2>5
<1>8. QED
  BY <1>3, <1>4, <1>5, <1>6, <1>7 DEF Asked

-----------------------------------------------------------------------------
(* The inductive invariant: what every fingerprint says of its type is true. *)
ToldInv == TypeInv /\ Told(storage)

LEMMA ToldInvHoldsFirst == TypeInit => ToldInv
<1> SUFFICES ASSUME TypeInit PROVE ToldInv
  OBVIOUS
<1>1. DOMAIN storage.types = {} /\ DOMAIN storage.map = {}
  BY DEF TypeInit
<1>2. Told(storage)
  BY <1>1 DEF Told, WholeTypes, IrTold
<1>3. QED
  BY <1>2, TypeInvHoldsFirst DEF ToldInv

LEMMA ToldInvKept == ToldInv /\ [TypeNext]_typeVars => ToldInv'
<1> SUFFICES ASSUME ToldInv, [TypeNext]_typeVars PROVE ToldInv'
  OBVIOUS
<1>1. TypeInv'
  BY TypeInvKept DEF ToldInv
<1>2. Told(storage)'
  <2>1. CASE UNCHANGED typeVars
    <3>1. storage' = storage
      BY <2>1 DEF typeVars
    <3>2. Told(storage')
      BY <3>1 DEF ToldInv
    <3>3. QED
      BY <3>2
  <2>2. CASE TypeNext
    <3>1. PICK q \in Requests : Record(q, Answer(storage, q))
      BY <2>2 DEF TypeNext
    <3>2. storage' = Answer(storage, q).s
      BY <3>1 DEF Record
    <3>3. Asked(q, DOMAIN storage.types)
      BY RequestsAsked DEF ToldInv
    <3>4. Tells(storage, Answer(storage, q))
      BY <3>3, AnswerTells DEF ToldInv, TypeInv
    <3>5. Told(storage')
      BY <3>2, <3>4 DEF Tells
    <3>6. QED
      BY <3>5
  <2>3. QED
    BY <2>1, <2>2
<1>3. QED
  BY <1>1, <1>2 DEF ToldInv

(* What a client was given is what its fingerprint says.                     *)
LEMMA MadeTold ==
  ASSUME ToldInv, NEW i \in DOMAIN made
  PROVE  /\ Asked(made[i].q, DOMAIN storage.types) /\ made[i].at \in Full(storage)
         /\ TypeTold(storage, Key(storage, made[i].q), storage.types[made[i].at])
         /\ Key(storage, made[i].q).tag = made[i].q.tclass
         /\ Key(storage, made[i].q).parts = KeyParts(storage, made[i].q)
<1> DEFINE q == made[i].q
           k == Key(storage, q)
<1>1. Asked(q, DOMAIN storage.types) /\ k \in DOMAIN storage.map /\ storage.map[k] = made[i].at
  BY DEF ToldInv, TypeInv, MadeMapped
<1>2. IsNkl(k) /\ k.tag = q.tclass /\ k.parts = KeyParts(storage, q)
  BY DEF IsNkl, Key, Nkl, Fingerprint
<1> HIDE DEF k
<1>3. made[i].at \in Full(storage)
  BY <1>1 DEF ToldInv, TypeInv, Sound, MapsToTypes, Filled, Full
<1>4. TypeTold(storage, k, storage.types[made[i].at])
  BY <1>1, <1>2, <1>3 DEF ToldInv, Told
<1>5. QED
  BY <1>1, <1>2, <1>3, <1>4 DEF k

-----------------------------------------------------------------------------
(* Parts are read back because the fingerprint of a request names them.      *)
ReadsBack(q, at) == Asked(q, DOMAIN storage.types) /\ at \in Full(storage)
                    /\ TypeTold(storage, Key(storage, q), storage.types[at])
                    /\ Key(storage, q).tag = q.tclass
                    /\ Key(storage, q).parts = KeyParts(storage, q)

LEMMA PlainReadsBack ==
  ASSUME NEW q, NEW at, ReadsBack(q, at), AsksNumeric(q) \/ AsksPlain(q), ToldInv
  PROVE  ReadBack(q, at)
<1> DEFINE type == storage.types[at]
<1>1. CASE AsksNumeric(q)
  <2>1. q.tclass = "Numeric"
    BY <1>1 DEF AsksNumeric, Request
  <2>2. QED
    BY <2>1 DEF ReadBack
<1>2. CASE AsksPlain(q)
  <2>1. q.types = <<>> /\ q.tclass \in {"Bool", "Typeref", "Any", "Tuple"}
    BY <1>2 DEF AsksPlain, Request
  <2>2. CASE q.tclass = "Bool"
    <3>1. BoolTold(storage, type)
      BY <2>2 DEF ReadsBack, TypeTold
    <3>2. QED
      BY <2>2, <3>1 DEF ReadBack, BoolTold, IrIn
  <2>3. CASE q.tclass = "Tuple"
    <3>1. KeyParts(storage, q) = <<0>>
      BY <2>1, <2>3 DEF KeyParts
    <3>2. TupleTold(storage, type, <<0>>)
      BY <2>3, <3>1 DEF ReadsBack, TypeTold
    <3>3. Len(type.ir.elems) = 0
      <4>1. \A a, b : <<0>> # <<2, a, b>>
        OBVIOUS
      <4>2. QED
        BY <3>2, <4>1 DEF TupleTold
    <3>4. type.ir.elems = IrIn(storage, at).elems /\ at \in DOMAIN storage.types
      BY DEF IrIn, ReadsBack, Full
    <3>5. ElemsIn(storage, type.ir.elems)
      BY <3>4, AllLaid DEF ToldInv, Told
    <3>6. DOMAIN type.ir.elems = 1..Len(type.ir.elems)
      BY <3>5, SeqParts DEF ElemsIn
    <3>7. DOMAIN type.ir.elems = {}
      BY <3>3, <3>6
    <3>8. Len(q.types) = 0
      BY <2>1
    <3>9. QED
      BY <2>3, <3>3, <3>7, <3>8 DEF ReadBack
  <2>4. CASE q.tclass \in {"Typeref", "Any"}
    BY <2>4 DEF ReadBack
  <2>5. QED
    BY <2>1, <2>2, <2>3, <2>4
<1>3. QED
  BY <1>1, <1>2

LEMMA RefReadsBack ==
  ASSUME NEW q, NEW at, ReadsBack(q, at), ToldInv,
         AsksArray(q, DOMAIN storage.types) \/ AsksRef(q, DOMAIN storage.types)
  PROVE  ReadBack(q, at)
<1> DEFINE type == storage.types[at]
<1>1. Full(storage) = DOMAIN storage.types /\ Sound(storage)
  BY DEF Full, ToldInv, TypeInv, Filled
<1>2. CASE AsksArray(q, DOMAIN storage.types)
  <2>1. PICK t \in DOMAIN storage.types, n \in Counts : q = Request("Array", <<t>>, n, FALSE)
    BY <1>2 DEF AsksArray
  <2>2. q.tclass = "Array" /\ q.types[1] = t /\ q.n = n /\ t \in Full(storage)
    BY <1>1, <2>1 DEF Request
  <2>3. KeyParts(storage, q) = <<Id(storage, t), n>>
    BY <2>2 DEF KeyParts
  <2>4. ArrayTold(storage, type, <<Id(storage, t), n>>)
    BY <2>2, <2>3 DEF ReadsBack, TypeTold
  <2>5. PICK u \in Full(storage) : \E m : <<Id(storage, t), n>> = <<Id(storage, u), m>>
                                          /\ OneElement(storage, type.ir, u, m)
    BY <2>4 DEF ArrayTold
  <2>6. PICK m : <<Id(storage, t), n>> = <<Id(storage, u), m>> /\ OneElement(storage, type.ir, u, m)
    BY <2>5
  <2>7. Id(storage, t) = Id(storage, u) /\ n = m
    BY <2>6
  <2>8. t = u
    BY <1>1, <2>2, <2>7, OneId
  <2>9. OneElement(storage, type.ir, t, n)
    BY <2>6, <2>7, <2>8
  <2>10. QED
    BY <2>2, <2>9 DEF ReadBack, OneElement, SameIr, Ir, IrIn
<1>3. CASE AsksRef(q, DOMAIN storage.types)
  <2>1. PICK c \in {"Pointer", "Slice"}, t \in DOMAIN storage.types, const \in BOOLEAN :
             q = Request(c, <<t>>, 0, const)
    BY <1>3 DEF AsksRef
  <2>2. q.tclass = c /\ q.types[1] = t /\ q.const = const /\ t \in Full(storage)
    BY <1>1, <2>1 DEF Request
  <2> DEFINE parts == <<Id(storage, t), Bit(const)>>
  <2>3. KeyParts(storage, q) = parts
    BY <2>1, <2>2 DEF KeyParts
  <2> HIDE DEF parts
  <2>4. CASE c = "Pointer"
    <3>1. PointerTold(storage, type, parts)
      BY <2>2, <2>3, <2>4 DEF ReadsBack, TypeTold
    <3>2. type.target = t /\ type.isConst = const
      BY <1>1, <2>2, <3>1, PointerReads DEF parts
    <3>3. QED
      BY <2>2, <2>4, <3>2 DEF ReadBack
  <2>5. CASE c = "Slice"
    <3>1. SliceTold(storage, type, parts)
      BY <2>2, <2>3, <2>5 DEF ReadsBack, TypeTold
    <3>2. PICK data \in Full(storage) :
               Data(storage, type, data) /\ PointerTold(storage, storage.types[data], parts)
      BY <3>1 DEF SliceTold
    <3>3. storage.types[data].target = t /\ storage.types[data].isConst = const
      BY <1>1, <2>2, <3>2, PointerReads DEF parts
    <3>4. storage.types[type.underlying].fields[1].type = data
      BY <3>2 DEF Data
    <3>5. QED
      BY <2>2, <2>5, <3>3, <3>4 DEF ReadBack
  <2>6. QED
    BY <2>1, <2>4, <2>5
<1>4. QED
  BY <1>2, <1>3

(* The elements of a representation that has two are of those two.           *)
LEMMA TwoElementsAre ==
  ASSUME ToldInv, NEW at \in DOMAIN storage.types, NEW t, NEW u, TwoElements(storage, Ir(at), t, u)
  PROVE  /\ Len(Ir(at).elems) = 2
         /\ \A i \in DOMAIN Ir(at).elems : SameIr(Ir(at).elems[i].type, <<t, u>>[i])
<1> DEFINE e == Ir(at).elems
<1>1. Len(e) = 2 /\ SameIr(e[1].type, t) /\ SameIr(e[2].type, u)
  BY DEF TwoElements, SameIr, Ir, IrIn
<1>2. ElemsIn(storage, e)
  BY AllLaid DEF ToldInv, Told, Ir, IrIn
<1> HIDE DEF e
<1>3. DOMAIN e = 1..2
  BY <1>1, <1>2, SeqParts DEF ElemsIn
<1>4. \A i \in 1..2 : i = 1 \/ i = 2
  OBVIOUS
<1>5. <<t, u>>[1] = t /\ <<t, u>>[2] = u
  OBVIOUS
<1>6. \A i \in DOMAIN e : SameIr(e[i].type, <<t, u>>[i])
  BY <1>1, <1>3, <1>4, <1>5
<1>7. QED
  BY <1>1, <1>6 DEF e

LEMMA PairReadsBack ==
  ASSUME NEW q, NEW at, ReadsBack(q, at), ToldInv, AsksPair(q, DOMAIN storage.types)
  PROVE  /\ ReadBack(q, at)
         /\ q.tclass = "Union" => \A t \in Range(q.types) : Ir(t).size <= Ir(at).size
<1> DEFINE type == storage.types[at]
           n == FieldNames[1]
           m == FieldNames[2]
<1>1. Full(storage) = DOMAIN storage.types /\ Sound(storage)
  BY DEF Full, ToldInv, TypeInv, Filled
<1>2. PICK c \in {"Tuple", "Procedure", "Struct", "Union", "Enum"},
           t \in DOMAIN storage.types, u \in DOMAIN storage.types : q = Request(c, <<t, u>>, 0, FALSE)
  BY DEF AsksPair
<1>3. /\ q.tclass = c /\ q.types = <<t, u>> /\ q.types[1] = t /\ q.types[2] = u
      /\ t \in Full(storage) /\ u \in Full(storage)
  BY <1>1, <1>2 DEF Request
<1>4. type.ir = Ir(at) /\ at \in DOMAIN storage.types
  BY DEF Ir, ReadsBack, Full
<1>5. Len(<<t, u>>) = 2 /\ <<t, u>> # <<>>
  OBVIOUS
<1> HIDE DEF n, m
<1>6. ASSUME TwoElements(storage, type.ir, t, u)
      PROVE  Len(type.ir.elems) = 2 /\ \A i \in DOMAIN type.ir.elems : SameIr(type.ir.elems[i].type, q.types[i])
  BY <1>3, <1>4, <1>6, TwoElementsAre
<1>7. CASE c = "Tuple"
  <2>1. KeyParts(storage, q) = <<2, Id(storage, t), Id(storage, u)>>
    BY <1>3, <1>5, <1>7 DEF KeyParts
  <2>2. TupleTold(storage, type, <<2, Id(storage, t), Id(storage, u)>>)
    BY <1>3, <1>7, <2>1 DEF ReadsBack, TypeTold
  <2>3. TwoElements(storage, type.ir, t, u)
    BY <1>1, <1>3, <2>2, TupleReads
  <2>4. Len(type.ir.elems) = Len(q.types) /\ \A i \in DOMAIN type.ir.elems : SameIr(type.ir.elems[i].type, q.types[i])
    BY <1>3, <1>5, <1>6, <2>3
  <2>5. QED
    BY <1>3, <1>7, <2>4 DEF ReadBack
<1>8. CASE c = "Procedure"
  <2> DEFINE parts == <<1, Id(storage, u), Id(storage, t)>>
  <2>1. KeyParts(storage, q) = parts
    BY <1>3, <1>8 DEF KeyParts
  <2>2. ProcedureTold(storage, type, parts)
    BY <1>3, <1>8, <2>1 DEF ReadsBack, TypeTold
  <2>3. PICK v \in Full(storage), w \in Full(storage) :
             parts = <<1, Id(storage, w), Id(storage, v)>> /\ type.ir.proc = [params |-> <<w>>, ret |-> v]
    BY <2>2 DEF ProcedureTold
  <2>4. Id(storage, u) = Id(storage, w) /\ Id(storage, t) = Id(storage, v)
    BY <2>3
  <2>5. u = w /\ t = v
    BY <1>1, <1>3, <2>4, OneId
  <2>6. type.ir.proc.params = <<u>> /\ type.ir.proc.ret = t
    BY <2>3, <2>5
  <2>7. <<t>> \o <<u>> = <<t, u>>
    BY Tuples, Zenon
  <2>8. <<type.ir.proc.ret>> \o type.ir.proc.params = q.types
    BY <1>3, <2>6, <2>7
  <2>9. QED
    BY <1>3, <1>8, <2>8 DEF ReadBack
<1> DEFINE parts == <<2, n, Id(storage, t), m, Id(storage, u)>>
           fields == TwoFields(n, t, m, u)
<1>9. c \in {"Struct", "Union", "Enum"} => KeyParts(storage, q) = parts
  BY <1>3 DEF KeyParts, n, m
<1>10. FieldTypes(fields) = q.types
  BY <1>3, TwoFieldsAre
<1>11. ASSUME NEW other, NEW v \in Full(storage), NEW w \in Full(storage), HasFields(storage, other, parts, v, w)
       PROVE  v = t /\ w = u /\ FieldTypes(other.fields) = q.types
  <2>1. v = t /\ w = u /\ other.fields = <<Field(n, t), Field(m, u)>>
    BY <1>1, <1>3, <1>11, FieldsRead
  <2>2. QED
    BY <1>10, <2>1 DEF TwoFields
<1> HIDE DEF parts, fields
<1>12. CASE c = "Struct"
  <2>1. StructTold(storage, type, parts)
    BY <1>3, <1>9, <1>12 DEF ReadsBack, TypeTold
  <2>2. PICK v \in Full(storage), w \in Full(storage) :
             HasFields(storage, type, parts, v, w) /\ TwoElements(storage, type.ir, v, w)
    BY <2>1 DEF StructTold
  <2>3. FieldTypes(type.fields) = q.types /\ TwoElements(storage, type.ir, t, u)
    BY <1>11, <2>2
  <2>4. \A i \in DOMAIN type.ir.elems : SameIr(type.ir.elems[i].type, q.types[i])
    BY <1>6, <2>3
  <2>5. QED
    BY <1>3, <1>12, <2>3, <2>4 DEF ReadBack
<1>13. CASE c = "Union"
  <2>1. UnionTold(storage, type, parts)
    BY <1>3, <1>9, <1>13 DEF ReadsBack, TypeTold
  <2>2. PICK v \in Full(storage), w \in Full(storage) :
             HasFields(storage, type, parts, v, w) /\ HasRoom(storage, type.ir, v) /\ HasRoom(storage, type.ir, w)
    BY <2>1 DEF UnionTold
  <2>3. FieldTypes(type.fields) = q.types /\ HasRoom(storage, type.ir, t) /\ HasRoom(storage, type.ir, u)
    BY <1>11, <2>2
  <2>4. Ir(t).size <= Ir(at).size /\ Ir(u).size <= Ir(at).size
    BY <1>4, <2>3 DEF HasRoom, IrIn, Ir
  <2>5. Range(<<t, u>>) = {t, u}
    BY DEF Range
  <2>6. QED
    BY <1>3, <1>13, <2>3, <2>4, <2>5 DEF ReadBack
<1>14. CASE c = "Enum"
  <2>1. EnumTold(storage, type, parts)
    BY <1>3, <1>9, <1>14 DEF ReadsBack, TypeTold
  <2>2. PICK v \in Full(storage), w \in Full(storage), data \in Full(storage) :
             Data(storage, type, data) /\ HasFields(storage, storage.types[data], parts, v, w)
    BY <2>1 DEF EnumTold
  <2>3. FieldTypes(storage.types[data].fields) = q.types
    BY <1>11, <2>2
  <2>4. storage.types[type.underlying].fields[1].type = data
    BY <2>2 DEF Data
  <2>5. QED
    BY <1>3, <1>14, <2>3, <2>4 DEF ReadBack
<1>15. c = "Union" \/ q.tclass # "Union"
  BY <1>3
<1>16. QED
  BY <1>2, <1>7, <1>8, <1>12, <1>13, <1>14, <1>15

LEMMA ToldReadsBack == ToldInv => PartsReadBack
<1> SUFFICES ASSUME ToldInv, NEW i \in DOMAIN made PROVE ReadBack(made[i].q, made[i].at)
  BY DEF PartsReadBack
<1>1. ReadsBack(made[i].q, made[i].at)
  BY MadeTold DEF ReadsBack
<1>2. Asked(made[i].q, DOMAIN storage.types)
  BY <1>1 DEF ReadsBack
<1>3. QED
  BY <1>1, <1>2, PlainReadsBack, RefReadsBack, PairReadsBack DEF Asked

-----------------------------------------------------------------------------
(* Layouts are sound because each type's is one that was laid out.           *)
LEMMA ElementsLie ==
  ASSUME ToldInv, NEW t \in DOMAIN storage.types
  PROVE  LET e == Ir(t).elems
             end(i) == e[i].offset + Ir(e[i].type).size * e[i].count
         IN /\ Ir(t).size % Ir(t).align = 0
            /\ \A i \in DOMAIN e : e[i].offset % Ir(e[i].type).align = 0 /\ end(i) <= Ir(t).size
            /\ \A i \in 2..Len(e) : end(i - 1) <= e[i].offset
<1>1. Laid(storage, Ir(t))
  BY AllLaid DEF ToldInv, Told, Ir, IrIn
<1>2. QED
  BY <1>1 DEF Laid, End, Ir, IrIn

LEMMA OneShape ==
  ASSUME ToldInv, NEW t \in DOMAIN storage.types, NEW u \in DOMAIN storage.types, Ir(t).id = Ir(u).id
  PROVE  Ir(t) = Ir(u)
<1>1. IrOf(storage, Ir(t)) /\ IrOf(storage, Ir(u)) /\ IrTold(storage)
  BY DEF ToldInv, Told, IrTold, Ir, IrIn
<1>2. NoIr.id = 0
  BY DEF NoIr
<1>3. \A fp \in DOMAIN storage.map : ~IsNkl(fp) => IrIn(storage, storage.map[fp]).id # 0
  BY <1>1 DEF IrTold, IrMapped
<1>4. CASE Ir(t) = NoIr
  BY <1>1, <1>2, <1>3, <1>4 DEF IrOf
<1>5. CASE Ir(t) # NoIr
  <2>1. PICK fp \in DOMAIN storage.map : ~IsNkl(fp) /\ Ir(t) = IrIn(storage, storage.map[fp])
    BY <1>1, <1>5 DEF IrOf
  <2>2. Ir(u) # NoIr
    BY <1>2, <1>3, <2>1
  <2>3. PICK gp \in DOMAIN storage.map : ~IsNkl(gp) /\ Ir(u) = IrIn(storage, storage.map[gp])
    BY <1>1, <2>2 DEF IrOf
  <2>4. fp = gp
    BY <1>1, <2>1, <2>3 DEF IrTold
  <2>5. QED
    BY <2>1, <2>3, <2>4
<1>6. QED
  BY <1>4, <1>5

LEMMA ToldLaysOut == ToldInv => LayoutsSound
<1> SUFFICES ASSUME ToldInv PROVE LayoutsSound
  OBVIOUS
<1>1. ASSUME NEW t \in DOMAIN storage.types, NEW u \in DOMAIN storage.types, Ir(t).id = Ir(u).id
      PROVE  Shape(Ir(t)) = Shape(Ir(u))
  <2>1. Ir(t) = Ir(u)
    BY <1>1, OneShape
  <2>2. QED
    BY <2>1
<1>2. ASSUME NEW i \in DOMAIN made, made[i].q.tclass = "Union", NEW t \in Range(made[i].q.types)
      PROVE  Ir(t).size <= Ir(made[i].at).size
  <2> DEFINE q == made[i].q
  <2>1. ReadsBack(q, made[i].at) /\ Asked(q, DOMAIN storage.types)
    BY MadeTold DEF ReadsBack
  <2>2. ASSUME NEW c, NEW ts, NEW n, NEW const, q = Request(c, ts, n, const) PROVE c = "Union"
    BY <1>2, <2>2 DEF Request
  <2> HIDE DEF q
  <2>3. ~AsksNumeric(q) /\ ~AsksPlain(q)
    BY <2>2 DEF AsksNumeric, AsksPlain
  <2>4. ~AsksArray(q, DOMAIN storage.types)
    BY <2>2 DEF AsksArray
  <2>5. ~AsksRef(q, DOMAIN storage.types)
    BY <2>2 DEF AsksRef
  <2>6. AsksPair(q, DOMAIN storage.types)
    BY <2>1, <2>3, <2>4, <2>5 DEF Asked
  <2>7. QED
    BY <1>2, <2>1, <2>6, PairReadsBack DEF q
<1>3. QED
  BY <1>1, <1>2, ElementsLie DEF LayoutsSound

(* Whatever was asked for before, what a type was made of is read back from  *)
(* it: also of a type whose representation is the copy of an earlier one,    *)
(* and through the types that slices and enums are made of                   *)
(* (types.c:96-237 and the accessors of types.h:102-230).                    *)
THEOREM PartsAlwaysReadBack == TypeInit /\ [][TypeNext]_typeVars => []PartsReadBack
<1>1. QED
  BY ToldInvHoldsFirst, ToldInvKept, ToldReadsBack, PTL

(* However types are nested, elements lie aligned, in order and within their *)
(* type, unions have room for each field, and one id of the intermediate     *)
(* representation is one layout (types.c:96-237, common.cpp:173-208).        *)
THEOREM LayoutsAlwaysSound == TypeInit /\ [][TypeNext]_typeVars => []LayoutsSound
<1>1. QED
  BY ToldInvHoldsFirst, ToldInvKept, ToldLaysOut, PTL
=============================================================================
