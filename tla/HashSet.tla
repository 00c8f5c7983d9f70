------------------------------- MODULE HashSet -------------------------------
(***************************************************************************)
(* The hash set of ntk (ntk/include/ntk/hash_set.hpp), which is the table  *)
(* of hash_map.hpp too: open addressing with triangular probing, deleted   *)
(* entries that stay as they are, a bound on the length of a search.  A set*)
(* is reserved only before anything is in it.                              *)
(***************************************************************************)
EXTENDS Naturals, FiniteSets

CONSTANTS
  Keys,         (* the keys of a client                                     *)
  HashFunctions,(* the hash functions keys may have: [Keys -> 1..]          *)
  Values,       (* what is stored with a key                                *)
  MaxCapacity,  (* bound: a client stops at this capacity                   *)
  Empty         (* an entry with hash 0; no value                           *)

ASSUME SetAssumptions ==
  /\ HashFunctions \subseteq [Keys -> Nat \ {0}]
  /\ MaxCapacity \in Nat /\ MaxCapacity >= 4
  /\ Empty \notin Values /\ Empty \notin [key : Keys, val : Values, deleted : BOOLEAN]

VARIABLES
  hashOf,    (* Context::hash                                               *)
  entries,   (* m_entries, over 0..m_capacity - 1                           *)
  size,      (* m_size                                                      *)
  maxProbe,  (* m_max_probe_dist                                            *)
  stored     (* what the client has put into the set                        *)

setVars == <<hashOf, entries, size, maxProbe, stored>>

LoadFactorPercent == 90

Capacity(es) == Cardinality(DOMAIN es)
NoEntries(cap) == [i \in 0..cap - 1 |-> Empty]
IsValid(entry) == entry # Empty /\ ~entry.deleted

(* _elemIndex.                                                               *)
ElemIndex(es, hash, i) == (hash + (i + i * i) \div 2) % Capacity(es)

(* _find: the index of the entry of key k, MaxCapacity if there is none.     *)
Find(es, probe, k) ==
  LET at(i) == es[ElemIndex(es, hashOf[k], i)]
      ends(i) == at(i) = Empty \/ i > probe
      found(i) == IsValid(at(i)) /\ at(i).key = k
      stop == {i \in DOMAIN es : ends(i) \/ found(i)}
      first == CHOOSE i \in stop : \A j \in stop : i <= j
  IN IF stop = {} \/ (stop # {} /\ ends(first)) THEN MaxCapacity ELSE ElemIndex(es, hashOf[k], first)

(* _insert into a table with room: where the entry goes, and how far the     *)
(* search for it may have to look.  The second probe is number 1, so the     *)
(* distance is one more than that of the entry's probe.                      *)
FreeProbe(es, k) ==
  LET free == {i \in DOMAIN es : ~IsValid(es[ElemIndex(es, hashOf[k], i)])}
  IN CHOOSE i \in free : \A j \in free : i <= j
ProbeDist(probe, i) == IF probe < i + 1 THEN i + 1 ELSE probe

Entry(k, v) == [key |-> k, val |-> v, deleted |-> FALSE]
Put(t, k, v) ==
  LET i == FreeProbe(t.es, k)
  IN [es |-> [t.es EXCEPT ![ElemIndex(t.es, hashOf[k], i)] = Entry(k, v)],
      n |-> t.n + 1, probe |-> ProbeDist(t.probe, i)]

(* _rehash: what is valid is put into a table of twice the capacity, in the  *)
(* order of the old one.                                                     *)
Rehash(t) ==
  LET cap == IF Capacity(t.es) = 0 THEN 1 ELSE 2 * Capacity(t.es)
      moved[i \in 0..Capacity(t.es)] ==
        IF i = 0 THEN [es |-> NoEntries(cap), n |-> 0, probe |-> 0]
        ELSE IF IsValid(t.es[i - 1]) THEN Put(moved[i - 1], t.es[i - 1].key, t.es[i - 1].val)
        ELSE moved[i - 1]
  IN moved[Capacity(t.es)]

(* remove: the entry is marked.  Mutant: it is emptied.                      *)
Emptied(entry) == Empty
Deleted(entry) == [entry EXCEPT !.deleted = TRUE]

Table == [es |-> entries, n |-> size, probe |-> maxProbe]
Becomes(t) == entries' = t.es /\ size' = t.n /\ maxProbe' = t.probe
Found(k) == Find(entries, maxProbe, k)

-----------------------------------------------------------------------------
SetInit ==
  /\ hashOf \in HashFunctions
  /\ entries = NoEntries(0)
  /\ size = 0 /\ maxProbe = 0
  /\ stored = [k \in Keys |-> Empty]

(* reserve, in a set that is empty.                                          *)
Reserve(cap) ==
  /\ Capacity(entries) = 0
  /\ entries' = NoEntries(cap)
  /\ UNCHANGED <<hashOf, size, maxProbe, stored>>

(* insert: the value of a key that is there is replaced.                     *)
Insert(k, v) ==
  LET full == (size * 100) \div LoadFactorPercent >= Capacity(entries)
      room == IF full THEN Rehash(Table) ELSE Table
  IN /\ IF Found(k) # MaxCapacity
        THEN entries' = [entries EXCEPT ![Found(k)].val = v] /\ UNCHANGED <<size, maxProbe>>
        ELSE Capacity(room.es) <= MaxCapacity /\ Becomes(Put(room, k, v))
     /\ stored' = [stored EXCEPT ![k] = v]
     /\ UNCHANGED hashOf

RemoveKey(k) ==
  /\ IF Found(k) # MaxCapacity
     THEN entries' = [entries EXCEPT ![Found(k)] = Deleted(@)] /\ size' = size - 1
     ELSE UNCHANGED <<entries, size>>
  /\ stored' = [stored EXCEPT ![k] = Empty]
  /\ UNCHANGED <<hashOf, maxProbe>>

SetNext ==
  \/ \E cap \in {1, 2, 4} : Reserve(cap)
  \/ \E k \in Keys : RemoveKey(k) \/ \E v \in Values : Insert(k, v)

SetSpec == SetInit /\ [][SetNext]_setVars

-----------------------------------------------------------------------------
(* The set answers what was stored last: a key is found with its value if and*)
(* only if it was inserted and not removed since, its size is their number,  *)
(* and an iteration meets each of them once, however keys collide and        *)
(* whatever was removed in between (hash_set.hpp:107-134, 180-238).          *)
SetAgrees ==
  LET present == {k \in Keys : stored[k] # Empty}
      valid == {i \in DOMAIN entries : IsValid(entries[i])}
  IN /\ \A k \in Keys : IF stored[k] = Empty THEN Found(k) = MaxCapacity
                        ELSE Found(k) # MaxCapacity /\ entries[Found(k)].val = stored[k]
     /\ size = Cardinality(present)
     /\ Cardinality(valid) = size
     /\ {entries[i].key : i \in valid} = present
=============================================================================
