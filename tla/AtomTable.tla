------------------------------ MODULE AtomTable ------------------------------
(***************************************************************************)
(* Atoms (ntk/src/atom.c): numbers that stand for strings, in two hash     *)
(* trees (ntk/include/ntk/hash_tree.h), one from strings to atoms and one  *)
(* from atoms to strings.  A hash tree is a binary tree of hashes without  *)
(* balancing; it never moves or replaces what it holds.                    *)
(***************************************************************************)
EXTENDS Naturals, Sequences

CONSTANTS
  Strings,      (* the strings of clients                                   *)
  StringHashes, (* the functions nks_hash may be                            *)
  AtomHashes,   (* the functions nk_atom_hash may be                        *)
  Reserved,     (* what initialisation defines: a sequence of [atom, str]   *)
  FirstAtom,    (* g_next_atom at the start                                 *)
  MaxAtom,      (* bound: the last atom that is made                        *)
  Unknown       (* nothing is found                                         *)

(* The atoms that are made come after the reserved ones, which are all       *)
(* different and so are their strings (nodes.inl); nks_hash and nk_atom_hash *)
(* may be any functions.                                                     *)
ASSUME AtomAssumptions ==
  /\ FirstAtom \in Nat /\ MaxAtom \in Nat /\ FirstAtom <= MaxAtom + 1
  /\ StringHashes \subseteq [Strings -> Nat] /\ AtomHashes \subseteq [0..MaxAtom -> Nat]
  /\ Reserved \in Seq([atom : 0..FirstAtom - 1, str : Strings])
  /\ \A i, j \in DOMAIN Reserved :
       i # j => Reserved[i].atom # Reserved[j].atom /\ Reserved[i].str # Reserved[j].str
  /\ Unknown \notin Strings /\ Unknown \notin 0..MaxAtom

VARIABLES
  hash,      (* the two hash functions                                      *)
  trees,     (* g_str2atom and g_atom2str                                   *)
  nextAtom,  (* g_next_atom                                                 *)
  given      (* what clients have been given: [atom, str, unique]           *)

atomVars == <<hash, trees, nextAtom, given>>

(* A tree is the sequence of its nodes, in the order they were made.         *)
Node(k, v, h) == [key |-> k, val |-> v, hash |-> h, child |-> <<0, 0>>]

(* findNode: equal hashes of different keys lead to the left.  The answer is *)
(* the node, or the parent and the side where it would be.  Mutant: equal    *)
(* hashes are taken for equal keys.                                          *)
IsHash(n, k, h) == h = n.hash
IsKey(n, k, h) == h = n.hash /\ n.key = k
FindNode(tree, k, h) ==
  LET from[i \in DOMAIN tree] ==
        LET n == tree[i]
            side == IF h > n.hash THEN 2 ELSE 1
        IN IF IsKey(n, k, h) THEN [at |-> i, parent |-> 0, side |-> 0]
           ELSE IF n.child[side] = 0 THEN [at |-> 0, parent |-> i, side |-> side]
           ELSE from[n.child[side]]
  IN IF tree = <<>> THEN [at |-> 0, parent |-> 0, side |-> 0] ELSE from[1]

FindItem(tree, k, h) ==
  LET found == FindNode(tree, k, h) IN IF found.at = 0 THEN Unknown ELSE tree[found.at].val

(* insertItem: an item that is there already stays as it is.                 *)
InsertItem(tree, k, v, h) ==
  LET found == FindNode(tree, k, h)
      grown == Append(tree, Node(k, v, h))
  IN IF found.at # 0 THEN tree
     ELSE IF found.parent = 0 THEN grown
     ELSE [grown EXCEPT ![found.parent].child[found.side] = Len(grown)]

(* nk_s2atom's search, and nk_atom2s.                                        *)
AtomOf(s) == FindItem(trees.str, s, hash.str[s])
StringOf(a) == FindItem(trees.atom, a, hash.atom[a])

(* nk_atom_define.                                                           *)
Define(t, h, a, s) ==
  [str |-> InsertItem(t.str, s, a, h.str[s]), atom |-> InsertItem(t.atom, a, s, h.atom[a])]

-----------------------------------------------------------------------------
(* The reserved atoms are defined first (nkl_state_create).                  *)
Initial(h) ==
  LET after[i \in 0..Len(Reserved)] ==
        IF i = 0 THEN [str |-> <<>>, atom |-> <<>>]
        ELSE Define(after[i - 1], h, Reserved[i].atom, Reserved[i].str)
  IN after[Len(Reserved)]

AtomInit ==
  /\ hash \in [str : StringHashes, atom : AtomHashes]
  /\ trees = Initial(hash)
  /\ nextAtom = FirstAtom
  /\ given = {[atom |-> Reserved[i].atom, str |-> Reserved[i].str, unique |-> FALSE] : i \in DOMAIN Reserved}

(* nk_s2atom.                                                                *)
StringToAtom(s) ==
  LET known == AtomOf(s)
      atom == IF known = Unknown THEN nextAtom ELSE known
  IN /\ atom <= MaxAtom
     /\ IF known = Unknown
        THEN trees' = Define(trees, hash, atom, s) /\ nextAtom' = nextAtom + 1
        ELSE UNCHANGED <<trees, nextAtom>>
     /\ given' = given \cup {[atom |-> atom, str |-> s, unique |-> FALSE]}
     /\ UNCHANGED hash

(* nk_atom_unique: the atom has a string, the string does not lead to it.    *)
UniqueAtom(s) ==
  /\ nextAtom <= MaxAtom
  /\ trees' = [trees EXCEPT !.atom = InsertItem(@, nextAtom, s, hash.atom[nextAtom])]
  /\ nextAtom' = nextAtom + 1
  /\ given' = given \cup {[atom |-> nextAtom, str |-> s, unique |-> TRUE]}
  /\ UNCHANGED hash

AtomNext == \E s \in Strings : StringToAtom(s) \/ UniqueAtom(s)

AtomSpec == AtomInit /\ [][AtomNext]_atomVars

-----------------------------------------------------------------------------
(* An atom has the string it was made from for good, a string leads to one   *)
(* atom, different strings to different ones, and never to one that was made *)
(* as unique, however the hashes collide (atom.c:25-75, hash_tree.h:58-98).  *)
AtomsAgree ==
  /\ \A g \in given : StringOf(g.atom) = g.str /\ (~g.unique => AtomOf(g.str) = g.atom)
  /\ \A g, h \in given : g.atom = h.atom => g = h
  /\ \A s \in Strings : AtomOf(s) # Unknown => [atom |-> AtomOf(s), str |-> s, unique |-> FALSE] \in given
=============================================================================
