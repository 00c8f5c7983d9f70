----------------------------- MODULE ProofFacts -----------------------------
(***************************************************************************)
(* Facts about numbers and sequences that the proofs of several modules    *)
(* need and the library does not have in a form the provers can use.       *)
(***************************************************************************)
EXTENDS FiniteSetTheorems, SequenceTheorems, TLAPS

(* A set of numbers has a smallest one, and, if bounded, a greatest one.     *)
LEMMA SmallestExists ==
  ASSUME NEW S \in SUBSET Nat, S # {}
  PROVE  \E i \in S : \A j \in S : i <= j
<1>1. PICK i \in S : \A j \in S : ~(<<j, i>> \in OpToRel(<, Nat))
  BY NatLessThanWellFounded, WFMin
<1>2. \A x, y \in Nat : x < y => <<x, y>> \in OpToRel(<, Nat)
  BY Zenon DEF OpToRel
<1>3. \A j \in S : ~(j < i)
  BY <1>1, <1>2, Zenon
<1>4. QED
  BY <1>3

LEMMA GreatestExists ==
  ASSUME NEW n \in Nat, NEW S \in SUBSET (0..n), S # {}
  PROVE  \E i \in S : \A j \in S : j <= i
<1> DEFINE T == {n - i : i \in S}
<1>1. T \in SUBSET Nat /\ T # {}
  <2>1. \A i \in S : n - i \in Nat
    OBVIOUS
  <2>2. QED
    BY <2>1
<1>2. PICK t \in T : \A u \in T : t <= u
  BY <1>1, SmallestExists
<1>3. PICK i \in S : t = n - i
  OBVIOUS
<1>4. \A j \in S : n - i <= n - j
  BY <1>2, <1>3
<1>5. QED
  BY <1>4

(* Induction: a set that holds 0 and with each number the next one up to n.  *)
LEMMA CountingUp ==
  ASSUME NEW n \in Nat, NEW S, 0 \in S, \A i \in 0..n-1 : i \in S => i + 1 \in S
  PROVE  0..n \subseteq S
<1> DEFINE Out == {i \in 0..n : i \notin S}
<1>1. SUFFICES ASSUME Out # {} PROVE FALSE
  OBVIOUS
<1>2. Out \in SUBSET Nat
  OBVIOUS
<1>3. PICK i \in Out : \A j \in Out : i <= j
  BY <1>1, <1>2, SmallestExists
<1>4. i # 0 /\ i - 1 \in 0..n-1 /\ i - 1 \notin Out
  BY <1>3
<1>5. QED
  BY <1>3, <1>4

-----------------------------------------------------------------------------
(* Sequences of anything.                                                    *)
IsSeq(s) == s \in Seq(Range(s))
LEMMA SeqParts ==
  ASSUME NEW s, IsSeq(s)
  PROVE  Len(s) \in Nat /\ DOMAIN s = 1..Len(s)
BY DEF IsSeq

LEMMA SeqOfAnything ==
  ASSUME NEW S, NEW s \in Seq(S)
  PROVE  IsSeq(s)
<1>1. Len(s) \in Nat /\ DOMAIN s = 1..Len(s) /\ s \in [1..Len(s) -> S]
  BY LenProperties
<1>2. s \in [1..Len(s) -> Range(s)]
  BY <1>1 DEF Range
<1>3. QED
  BY <1>1, <1>2, SeqDef DEF IsSeq

LEMMA SeqAppend ==
  ASSUME NEW s, IsSeq(s), NEW x
  PROVE  /\ IsSeq(Append(s, x))
         /\ Len(Append(s, x)) = Len(s) + 1
         /\ \A i \in 1..Len(s) : Append(s, x)[i] = s[i]
         /\ Append(s, x)[Len(s) + 1] = x
<1> DEFINE S == Range(s) \cup {x}
<1>1. s \in Seq(S) /\ x \in S
  BY SeqMonotonic DEF IsSeq
<1> HIDE DEF S
<1>2. /\ Append(s, x) \in Seq(S) /\ Len(Append(s, x)) = Len(s) + 1
      /\ \A i \in 1..Len(s) : Append(s, x)[i] = s[i]
      /\ Append(s, x)[Len(s) + 1] = x
  BY <1>1
<1>3. QED
  BY <1>2, SeqOfAnything

LEMMA SeqButLast ==
  ASSUME NEW s, IsSeq(s), s # <<>>, NEW t, t = SubSeq(s, 1, Len(s) - 1)
  PROVE  /\ Len(s) \in Nat \ {0}
         /\ IsSeq(t)
         /\ Len(t) = Len(s) - 1
         /\ \A i \in 1..Len(s)-1 : t[i] = s[i]
<1> DEFINE S == Range(s)
<1>1. s \in Seq(S)
  BY DEF IsSeq
<1> HIDE DEF S
<1>2. Len(s) \in Nat \ {0} /\ \A i \in 1..Len(s)-1 : s[i] \in S
  BY <1>1
<1>3. 1 \in Int /\ Len(s) - 1 \in Int
  BY <1>2
<1>4. /\ t \in Seq(S)
      /\ Len(t) = IF 1 <= Len(s)-1 THEN Len(s)-1-1+1 ELSE 0
      /\ \A i \in 1..Len(s)-1-1+1 : t[i] = s[1+i-1]
  BY <1>2, <1>3, SubSeqProperties
<1>5. /\ Len(s)-1-1+1 = Len(s)-1 /\ \A i \in 1..Len(s)-1 : 1+i-1 = i
      /\ (IF 1 <= Len(s)-1 THEN Len(s)-1-1+1 ELSE 0) = Len(s)-1
  <2>1. \A n \in Nat \ {0} : /\ n-1-1+1 = n-1 /\ \A i \in 1..n-1 : 1+i-1 = i
                            /\ (IF 1 <= n-1 THEN n-1-1+1 ELSE 0) = n-1
    OBVIOUS
  <2>2. QED
    BY <1>2, <2>1, Zenon
<1>6. Len(t) = Len(s) - 1 /\ \A i \in 1..Len(s)-1 : t[i] = s[i]
  BY <1>4, <1>5
<1>7. QED
  BY <1>2, <1>4, <1>6, SeqOfAnything

LEMMA SeqUpdate ==
  ASSUME NEW s, IsSeq(s), NEW k \in 1..Len(s), NEW x
  PROVE  /\ IsSeq([s EXCEPT ![k] = x])
         /\ Len([s EXCEPT ![k] = x]) = Len(s)
         /\ \A i \in 1..Len(s) : [s EXCEPT ![k] = x][i] = IF i = k THEN x ELSE s[i]
<1> DEFINE S == Range(s) \cup {x}
<1>1. s \in Seq(S) /\ x \in S
  BY SeqMonotonic DEF IsSeq
<1> HIDE DEF S
<1>2. /\ [s EXCEPT ![k] = x] \in Seq(S)
      /\ Len([s EXCEPT ![k] = x]) = Len(s)
      /\ \A i \in 1..Len(s) : [s EXCEPT ![k] = x][i] = IF i = k THEN x ELSE s[i]
  BY <1>1, ExceptSeq
<1>3. QED
  BY <1>2, SeqOfAnything

(* Concatenation, in a form that the provers do not rewrite.                 *)
Joined(x, y) == x \o y
=============================================================================
