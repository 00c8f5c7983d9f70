------------------------------ MODULE MCLibrary ------------------------------
(***************************************************************************)
(* The data structures of ntk, the types that nkl_core keeps in them and   *)
(* the syntax trees it reads, one of them at a time: `unit` says which.    *)
(* The hash functions send several keys to one hash and others to hashes   *)
(* that meet in the probing or on the way down a tree.                     *)
(***************************************************************************)
EXTENDS ArenaMemory, HashSet, AtomTable, TypeStorage, SyntaxTexts

CONSTANTS b1, b2, q1, q2, q3, q4, q5, s1, s2, s3, s4

VARIABLE unit

MCHashFunctions ==
  {[k \in Keys |-> 1]} \cup
  {[k \in Keys |-> CASE k = q1 -> 1 [] k = q2 -> x [] k = q3 -> y [] k = q4 -> 2 [] k = q5 -> 5] : x \in 1..2, y \in {4}}
MCStringHashes == {[s \in Strings |-> IF s = s4 THEN 2 ELSE f[s]] : f \in [{s1, s2, s3} -> 1..3]}
MCAtomHashes == {[a \in 0..MaxAtom |-> (a * m) % 4] : m \in {1, 2, 3}}
MCNumerics == {Int8, Uint64}
MCFieldNames == <<5, 6>>
MCReserved == <<[atom |-> 2, str |-> s4], [atom |-> 1, str |-> s1]>>

Token(id, v) == [id |-> id, v |-> v]
MCWords == {Token(id, NoName) : id \in {"(", ")", "[", "]", "Newline"}}
           \cup {Token("Id", "f"), Token("String", "g"), Token("EscapedString", "h")}

Others(u) ==
  /\ u # "arena" => UNCHANGED arenaVars
  /\ u # "set" => UNCHANGED setVars
  /\ u # "atom" => UNCHANGED atomVars
  /\ u # "type" => UNCHANGED typeVars
  /\ u # "tree" => UNCHANGED syntaxVars

Init ==
  /\ unit \in {"arena", "set", "atom", "type", "tree"}
  /\ ArenaInit
  /\ SetInit /\ (unit # "set" => hashOf = [k \in Keys |-> 1])
  /\ AtomInit /\ (unit # "atom" => hash = [str |-> [s \in Strings |-> IF s = s4 THEN 2 ELSE 1],
                                           atom |-> [a \in 0..MaxAtom |-> (a * 1) % 4]])
  /\ TypeInit
  /\ SyntaxInit

Next ==
  /\ UNCHANGED unit
  /\ Others(unit)
  /\ \/ unit = "arena" /\ ArenaNext
     \/ unit = "set" /\ SetNext
     \/ unit = "atom" /\ AtomNext
     \/ unit = "type" /\ TypeNext
     \/ unit = "tree" /\ AddWord

Spec == Init /\ [][Next]_<<unit, arenaVars, setVars, atomVars, typeVars, syntaxVars>>
=============================================================================
