-------------------------- MODULE ContainerProofs ---------------------------
(***************************************************************************)
(* Proofs about the containers of ntk, for an arena of any size, any       *)
(* number of blocks and frames and items of any sizes; for every set of    *)
(* strings, every pair of hash functions and every list of reserved atoms; *)
(* and for every set of keys, all hash functions and values and every      *)
(* bound on the capacity of a hash set.                                    *)
(***************************************************************************)
EXTENDS ArenaMemory, AtomTable, HashSet, ProofFacts

Array == [at : Nat, cap : Nat, used : Nat, item : Items, frame : Nat]

(* Where a block ends, and how many of its bytes are used.                   *)
Stop(a) == a.at + a.cap * a.item
Filled(a) == a.used * a.item

-----------------------------------------------------------------------------
(* What is needed of products, remainders and powers of two.                 *)
LEMMA Products ==
  ASSUME NEW u \in Nat, NEW c \in Nat, NEW m \in Nat \ {0}, u <= c
  PROVE  /\ u * m \in Nat /\ c * m \in Nat
         /\ u * m <= c * m
         /\ c = 0 => c * m = 0
         /\ c > 0 => c * m > 0
<1>1. u * m \in Nat /\ c * m \in Nat
  OBVIOUS
<1>2. PICK d \in Nat : c = u + d
  <2>1. c - u \in Nat /\ c = u + (c - u)
    OBVIOUS
  <2>2. QED
    BY <2>1
<1>3. c * m = u * m + d * m /\ d * m \in Nat
  BY <1>2
<1>4. QED
  BY <1>1, <1>3

LEMMA AlignedUp ==
  ASSUME NEW t \in Nat, NEW m \in Nat \ {0}
  PROVE  Aligned(t, m) \in Nat /\ t <= Aligned(t, m) /\ Aligned(t, m) % m = 0
<1>1. PICK q \in Nat, r \in Nat : t = q * m + r /\ r < m /\ t % m = r
  <2>1. t \div m \in Nat /\ t % m \in Nat /\ t = (t \div m) * m + (t % m) /\ t % m < m
    OBVIOUS
  <2>2. QED
    BY <2>1
<1>2. m % m = 0 /\ (q * m) % m = 0 /\ ((q + 1) * m) % m = 0
  OBVIOUS
<1>3. CASE r = 0
  BY <1>1, <1>2, <1>3 DEF Aligned
<1>4. CASE r # 0
  <2>1. m - r \in Nat /\ (m - r) % m = m - r
    BY <1>1, <1>4
  <2>2. Aligned(t, m) = t + (m - r)
    BY <1>1, <2>1 DEF Aligned
  <2>3. t + (m - r) = (q + 1) * m
    BY <1>1
  <2>4. QED
    BY <1>1, <1>2, <2>1, <2>2, <2>3
<1>5. QED
  BY <1>3, <1>4

LEMMA PowerIsNumber ==
  ASSUME NEW n \in Nat
  PROVE  CeilToPowerOf2(n) \in Nat
<1> DEFINE powers == {p \in n..2 * n : \E k \in 0..p : p = 2^k}
<1>1. powers \in SUBSET Nat
  OBVIOUS
<1>2. CASE powers = {}
  BY <1>2 DEF CeilToPowerOf2
<1>3. CASE powers # {}
  <2>1. \E p \in powers : \A q \in powers : p <= q
    BY <1>1, <1>3, SmallestExists
  <2> HIDE DEF powers
  <2>2. (CHOOSE p \in powers : \A q \in powers : p <= q) \in powers
    BY <2>1, Zenon
  <2>3. CeilToPowerOf2(n) = CHOOSE p \in powers : \A q \in powers : p <= q
    BY <1>3, Zenon DEF CeilToPowerOf2, powers
  <2>4. QED
    BY <1>1, <2>2, <2>3
<1>4. QED
  BY <1>2, <1>3

-----------------------------------------------------------------------------
(* The inductive invariant.  A block ends below the start of the next frame, *)
(* starts above the start of its own, and blocks that have memory lie apart. *)
Live == {b \in Blocks : blocks[b] # Free}
Sits(a, t, fr) ==
  /\ a.used <= a.cap /\ (a.used = 0 => a.cap = 0) /\ (a.cap = 0 => a.at = 0)
  /\ a.at % a.item = 0
  /\ Stop(a) <= t
  /\ a.frame <= Len(fr)
  /\ a.frame < Len(fr) => Stop(a) <= fr[a.frame + 1]
  /\ a.cap > 0 /\ a.frame > 0 => fr[a.frame] <= a.at
Apart(a, c) == a.cap > 0 /\ c.cap > 0 => Stop(a) <= c.at \/ Stop(c) <= a.at
Marked(b, a, mem) == \A i \in 0..Filled(a) - 1 : mem[a.at + i] = <<b, i>>

Rising(fr, t) ==
  /\ fr \in Seq(Nat)
  /\ \A i \in 1..Len(fr) : fr[i] <= t /\ \A j \in i..Len(fr) : fr[i] <= fr[j]

ArenaInv ==
  /\ top \in 0..Size
  /\ DOMAIN bytes = 0..Size - 1
  /\ blocks \in [Blocks -> Array \cup {Free}]
  /\ Rising(frames, top)
  /\ \A b \in Live : Sits(blocks[b], top, frames) /\ Marked(b, blocks[b], bytes)
  /\ \A b, c \in Live : b # c => Apart(blocks[b], blocks[c])

LEMMA BlockParts ==
  ASSUME NEW a \in Array, NEW t, NEW fr, Sits(a, t, fr)
  PROVE  /\ a.at \in Nat /\ a.cap \in Nat /\ a.used \in Nat /\ a.item \in Nat \ {0} /\ a.frame \in Nat
         /\ a.item \in Items /\ Stop(a) \in Nat /\ Filled(a) \in Nat
         /\ a.at + Filled(a) <= Stop(a) /\ a.cap * a.item \in Nat
         /\ a.cap = 0 => a.at = 0 /\ Stop(a) = 0 /\ Filled(a) = 0
         /\ a.cap > 0 => a.at < Stop(a)
<1>1. a.at \in Nat /\ a.cap \in Nat /\ a.used \in Nat /\ a.item \in Items /\ a.frame \in Nat
  BY DEF Array
<1>2. a.item \in Nat \ {0}
  BY <1>1, ArenaAssumptions
<1>3. a.used <= a.cap /\ (a.cap = 0 => a.at = 0)
  BY DEF Sits
<1>4. PICK u, s : u = a.used * a.item /\ s = a.cap * a.item
  OBVIOUS
<1>5. u \in Nat /\ s \in Nat /\ u <= s /\ (a.cap = 0 => s = 0) /\ (a.cap > 0 => s > 0)
  BY <1>1, <1>2, <1>3, <1>4, Products
<1>6. Stop(a) = a.at + s /\ Filled(a) = u
  BY <1>4 DEF Stop, Filled
<1>7. QED
  BY <1>1, <1>2, <1>3, <1>4, <1>5, <1>6

LEMMA LiveBlock ==
  ASSUME ArenaInv, NEW b \in Live
  PROVE  /\ b \in Blocks /\ blocks[b] \in Array /\ blocks[b] # Free
         /\ Sits(blocks[b], top, frames) /\ Marked(b, blocks[b], bytes)
BY DEF ArenaInv, Live

(* Other blocks lie below the last one.                                      *)
LEMMA LastBlock ==
  ASSUME ArenaInv, NEW b \in Live, blocks[b].cap > 0, Stop(blocks[b]) = top, NEW c \in Live \ {b}
  PROVE  Stop(blocks[c]) <= blocks[b].at
<1>1. PICK a, d : a = blocks[b] /\ d = blocks[c]
  OBVIOUS
<1>2. a \in Array /\ Sits(a, top, frames) /\ d \in Array /\ Sits(d, top, frames) /\ Apart(a, d)
  BY <1>1, LiveBlock DEF ArenaInv
<1>3. Stop(d) <= top
  BY <1>2 DEF Sits
<1>4. QED
  BY <1>1, <1>2, <1>3, BlockParts DEF Apart

(* A step that changes one block, the top and bytes of no other block.       *)
LEMMA OthersKept ==
  ASSUME ArenaInv, NEW b \in Blocks, NEW a,
         blocks' = [blocks EXCEPT ![b] = a], frames' = frames,
         top' \in 0..Size, \A i \in 1..Len(frames) : frames[i] <= top',
         DOMAIN bytes' = 0..Size - 1,
         \A c \in Live \ {b} : /\ Stop(blocks[c]) <= top'
                               /\ \A i \in blocks[c].at..Stop(blocks[c]) - 1 : bytes'[i] = bytes[i],
         \/ a = Free
         \/ /\ a \in Array /\ Sits(a, top', frames) /\ Marked(b, a, bytes')
            /\ \A c \in Live \ {b} : Apart(a, blocks[c])
  PROVE  ArenaInv'
<1>1. blocks' \in [Blocks -> Array \cup {Free}]
  BY DEF ArenaInv
<1>2. \A c \in Blocks : blocks'[c] = IF c = b THEN a ELSE blocks[c]
  BY DEF ArenaInv
<1>3. Live' \subseteq Live \cup {b} /\ (b \in Live' => a # Free)
  BY <1>2 DEF Live
<1>4. Rising(frames', top')
  BY DEF ArenaInv, Rising
<1>5. ASSUME NEW c \in Live' PROVE Sits(blocks'[c], top', frames')
  <2>1. CASE c = b
    BY <1>2, <1>3, <1>5, <2>1
  <2>2. CASE c # b
    <3>1. c \in Live \ {b} /\ blocks'[c] = blocks[c]
      BY <1>2, <1>3, <1>5, <2>2 DEF Live
    <3>2. Sits(blocks[c], top, frames)
      BY <3>1, LiveBlock
    <3>3. QED
      BY <3>1, <3>2 DEF Sits
  <2>3. QED
    BY <2>1, <2>2
<1>6. ASSUME NEW c \in Live' PROVE Marked(c, blocks'[c], bytes')
  <2>1. CASE c = b
    BY <1>2, <1>3, <1>6, <2>1
  <2>2. CASE c # b
    <3>1. c \in Live \ {b} /\ blocks'[c] = blocks[c]
      BY <1>2, <1>3, <1>6, <2>2 DEF Live
    <3>2. PICK d : d = blocks[c]
      OBVIOUS
    <3>3. d \in Array /\ Sits(d, top, frames) /\ Marked(c, d, bytes)
      BY <3>1, <3>2, LiveBlock
    <3>4. d.at \in Nat /\ Filled(d) \in Nat /\ Stop(d) \in Nat /\ d.at + Filled(d) <= Stop(d)
      BY <3>3, BlockParts
    <3>5. \A i \in 0..Filled(d) - 1 : d.at + i \in d.at..Stop(d) - 1
      BY <3>4
    <3>6. QED
      BY <3>1, <3>2, <3>3, <3>5 DEF Marked
  <2>3. QED
    BY <2>1, <2>2
<1>7. ASSUME NEW c \in Live', NEW d \in Live', c # d PROVE Apart(blocks'[c], blocks'[d])
  <2>1. \A x \in Live' : x # b => x \in Live \ {b} /\ blocks'[x] = blocks[x]
    BY <1>2, <1>3 DEF Live
  <2>2. CASE c # b /\ d # b
    BY <1>7, <2>1, <2>2 DEF ArenaInv
  <2>3. CASE c = b
    BY <1>2, <1>3, <1>7, <2>1, <2>3
  <2>4. CASE d = b
    BY <1>2, <1>3, <1>7, <2>1, <2>4 DEF Apart
  <2>5. QED
    BY <2>2, <2>3, <2>4
<1>8. QED
  BY <1>1, <1>4, <1>5, <1>6, <1>7 DEF ArenaInv

-----------------------------------------------------------------------------
(* The steps that change one block.                                          *)
LEMMA FramesBelow ==
  ASSUME ArenaInv, NEW b \in Live, blocks[b].frame = Len(frames), blocks[b].cap > 0
  PROVE  \A i \in 1..Len(frames) : frames[i] <= blocks[b].at
<1>1. PICK a, n : a = blocks[b] /\ n = Len(frames)
  OBVIOUS
<1>2. Sits(a, top, frames) /\ a.cap > 0 /\ a.frame = n /\ a.at \in Nat
  BY <1>1, LiveBlock, BlockParts
<1>3. n \in Nat /\ \A i \in 1..n : frames[i] \in Nat /\ \A j \in i..n : frames[i] <= frames[j]
  BY <1>1 DEF ArenaInv, Rising
<1>4. n > 0 => frames[n] <= a.at
  BY <1>2 DEF Sits
<1>5. ASSUME NEW i \in 1..n PROVE frames[i] <= a.at
  <2>1. n \in i..n /\ n > 0 /\ n \in 1..n
    BY <1>3
  <2>2. frames[i] <= frames[n] /\ frames[n] <= a.at /\ frames[i] \in Nat /\ frames[n] \in Nat
    BY <1>3, <1>4, <2>1
  <2>3. QED
    BY <1>2, <2>2
<1>6. QED
  BY <1>1, <1>5

LEMMA NewArrayStep ==
  ASSUME ArenaInv, NEW b \in Blocks, NEW item \in Items, NewArray(b, item)
  PROVE  ArenaInv'
<1>1. PICK a : a = [at |-> 0, cap |-> 0, used |-> 0, item |-> item, frame |-> Len(frames)]
  OBVIOUS
<1>2. blocks' = [blocks EXCEPT ![b] = a] /\ frames' = frames /\ top' = top /\ bytes' = bytes
  BY <1>1 DEF NewArray
<1>3. Len(frames) \in Nat /\ item \in Nat \ {0} /\ top \in Nat
  BY ArenaAssumptions DEF ArenaInv, Rising
<1>4. a \in Array
  BY <1>1, <1>3 DEF Array
<1>5. Stop(a) = 0 /\ Filled(a) = 0
  BY <1>1, <1>3 DEF Stop, Filled
<1>6. 0 % item = 0
  BY <1>3
<1>7. Sits(a, top, frames) /\ Marked(b, a, bytes)
  BY <1>1, <1>3, <1>5, <1>6 DEF Sits, Marked
<1>8. \A c \in Live : Apart(a, blocks[c])
  BY <1>1 DEF Apart
<1>9. \A c \in Live : Stop(blocks[c]) <= top
  BY LiveBlock DEF Sits
<1>10. top' \in 0..Size /\ DOMAIN bytes' = 0..Size - 1 /\ \A i \in 1..Len(frames) : frames[i] <= top'
  BY <1>2 DEF ArenaInv, Rising
<1>11. QED
  BY <1>2, <1>4, <1>7, <1>8, <1>9, <1>10, OthersKept

(* The top comes down to t, and b is smaller or gone.                        *)
LEMMA ComesDown ==
  ASSUME ArenaInv, NEW b \in Live, NEW a, NEW t \in 0..Size, t <= top,
         blocks' = [blocks EXCEPT ![b] = a], frames' = frames, top' = t, bytes' = Poison(bytes, t),
         \A i \in 1..Len(frames) : frames[i] <= t,
         \A c \in Live \ {b} : Stop(blocks[c]) <= t,
         \/ a = Free
         \/ /\ a \in Array /\ Sits(a, t, frames)
            /\ a.at = blocks[b].at /\ Filled(a) = Filled(blocks[b]) /\ Stop(a) <= Stop(blocks[b])
            /\ a.cap > 0 /\ blocks[b].cap > 0
  PROVE  ArenaInv'
<1>1. DOMAIN bytes' = 0..Size - 1 /\ \A i \in 0..Size - 1 : i < t => bytes'[i] = bytes[i]
  BY DEF ArenaInv, Poison
<1>2. Size \in Nat /\ t \in Nat /\ t <= Size
  BY ArenaAssumptions
<1>3. ASSUME NEW c \in Live, Stop(blocks[c]) <= t, NEW i \in blocks[c].at..Stop(blocks[c]) - 1
      PROVE  bytes'[i] = bytes[i]
  <2>1. blocks[c].at \in Nat /\ Stop(blocks[c]) \in Nat
    BY LiveBlock, BlockParts
  <2>2. i \in 0..Size - 1 /\ i < t
    BY <1>2, <1>3, <2>1
  <2>3. QED
    BY <1>1, <2>2
<1>4. CASE a = Free
  BY <1>1, <1>3, <1>4, OthersKept, b \in Blocks DEF Live
<1>5. CASE a # Free
  <2>1. PICK d : d = blocks[b]
    OBVIOUS
  <2>2. /\ a \in Array /\ Sits(a, t, frames) /\ a.at = d.at /\ Filled(a) = Filled(d)
        /\ Stop(a) <= Stop(d) /\ a.cap > 0 /\ d.cap > 0
    BY <1>5, <2>1
  <2>3. d \in Array /\ Sits(d, top, frames) /\ Marked(b, d, bytes)
    BY <2>1, LiveBlock
  <2>4. Stop(a) <= t /\ a.at \in Nat /\ Filled(a) \in Nat /\ Stop(a) \in Nat /\ a.at + Filled(a) <= Stop(a)
    BY <2>2, BlockParts DEF Sits
  <2>5. Marked(b, a, bytes')
    <3>1. ASSUME NEW i \in 0..Filled(a) - 1 PROVE bytes'[a.at + i] = <<b, i>>
      <4>1. a.at + i \in 0..Size - 1 /\ a.at + i < t
        BY <1>2, <2>4
      <4>2. bytes[a.at + i] = <<b, i>>
        BY <2>2, <2>3 DEF Marked
      <4>3. QED
        BY <1>1, <4>1, <4>2
    <3>2. QED
      BY <3>1 DEF Marked
  <2>6. ASSUME NEW c \in Live \ {b} PROVE Apart(a, blocks[c])
    <3>1. Apart(d, blocks[c]) /\ blocks[c].at \in Nat /\ Stop(blocks[c]) \in Nat
      BY <2>1, LiveBlock, BlockParts DEF ArenaInv
    <3>2. Stop(d) \in Nat
      BY <2>3, BlockParts
    <3>3. QED
      BY <2>2, <2>4, <3>1, <3>2 DEF Apart
  <2>7. QED
    BY <1>1, <1>3, <2>2, <2>5, <2>6, OthersKept, b \in Blocks DEF Live
<1>6. QED
  BY <1>4, <1>5

LEMMA FreeArrayStep ==
  ASSUME ArenaInv, NEW b \in Blocks, FreeArray(b)
  PROVE  ArenaInv'
<1>1. PICK a : a = blocks[b]
  OBVIOUS
<1>2. b \in Live /\ a.frame = Len(frames)
  BY <1>1 DEF FreeArray, Usable, Live
<1>3. a \in Array /\ Sits(a, top, frames) /\ a.at \in Nat /\ Stop(a) \in Nat /\ a.cap * a.item \in Nat /\ a.cap \in Nat
  BY <1>1, <1>2, LiveBlock, BlockParts
<1>4. /\ blocks' = [blocks EXCEPT ![b] = Free] /\ frames' = frames /\ bytes' = Poison(bytes, top')
      /\ top' = IF a.cap > 0 /\ IsLast(a.at, a.cap * a.item) THEN top - a.cap * a.item ELSE top
  BY <1>1 DEF FreeArray
<1>5. top \in Nat /\ Size \in Nat /\ top <= Size
  BY ArenaAssumptions DEF ArenaInv
<1>6. CASE a.cap > 0 /\ IsLast(a.at, a.cap * a.item)
  <2>1. Stop(a) = top
    BY <1>6 DEF Stop, IsLast
  <2>2. top' = a.at
    BY <1>3, <1>4, <1>5, <1>6 DEF IsLast
  <2>3. top' <= top /\ top' \in 0..Size
    BY <1>3, <1>5, <1>6, <2>2 DEF IsLast
  <2>4. \A c \in Live \ {b} : Stop(blocks[c]) <= top'
    BY <1>1, <1>2, <1>6, <2>1, <2>2, LastBlock
  <2>5. \A i \in 1..Len(frames) : frames[i] <= top'
    BY <1>1, <1>2, <1>6, <2>2, FramesBelow
  <2>6. QED
    BY <1>2, <1>4, <2>3, <2>4, <2>5, ComesDown
<1>7. CASE ~(a.cap > 0 /\ IsLast(a.at, a.cap * a.item))
  <2>1. top' = top
    BY <1>4, <1>7
  <2>2. \A c \in Live \ {b} : Stop(blocks[c]) <= top
    BY LiveBlock DEF Sits
  <2>3. \A i \in 1..Len(frames) : frames[i] <= top
    BY DEF ArenaInv, Rising
  <2>4. top \in 0..Size /\ top <= top
    BY <1>5
  <2>5. QED
    BY <1>2, <1>4, <2>1, <2>2, <2>3, <2>4, ComesDown
<1>8. QED
  BY <1>6, <1>7

LEMMA TrimStep ==
  ASSUME ArenaInv, NEW b \in Blocks, Trim(b)
  PROVE  ArenaInv'
<1>1. PICK d : d = blocks[b]
  OBVIOUS
<1>2. b \in Live /\ d.frame = Len(frames) /\ d.item = 1 /\ d.cap > d.used /\ d.at + d.cap = top
  BY <1>1 DEF Trim, Usable, Live, IsLast
<1>3. /\ d \in Array /\ Sits(d, top, frames)
      /\ d.at \in Nat /\ d.cap \in Nat /\ d.used \in Nat /\ d.frame \in Nat /\ 1 \in Items
  BY <1>1, <1>2, LiveBlock, BlockParts
<1>4. PICK a : a = [d EXCEPT !.cap = d.used]
  OBVIOUS
<1>5. /\ a \in Array
      /\ a.at = d.at /\ a.cap = d.used /\ a.used = d.used /\ a.item = 1 /\ a.frame = d.frame
  BY <1>2, <1>3, <1>4 DEF Array
<1>6. Stop(a) = d.at + d.used /\ Filled(a) = d.used /\ Stop(d) = top /\ Filled(d) = d.used
  BY <1>2, <1>3, <1>5 DEF Stop, Filled
<1>7. top \in Nat /\ Size \in Nat /\ top <= Size
  BY ArenaAssumptions DEF ArenaInv
<1>8. d.used > 0 /\ d.cap > 0
  BY <1>2, <1>3 DEF Sits
<1>9. /\ blocks' = [blocks EXCEPT ![b] = a] /\ frames' = frames /\ top' = d.at + d.used
      /\ bytes' = Poison(bytes, d.at + d.used)
  <2>1. top' = top - (d.cap - d.used) /\ blocks' = [blocks EXCEPT ![b].cap = d.used]
        /\ bytes' = Poison(bytes, top') /\ frames' = frames
    BY <1>1 DEF Trim
  <2>2. top - (d.cap - d.used) = d.at + d.used
    BY <1>2, <1>3, <1>7
  <2>3. [blocks EXCEPT ![b].cap = d.used] = [blocks EXCEPT ![b] = a]
    BY <1>1, <1>4, Zenon
  <2>4. QED
    BY <2>1, <2>2, <2>3
<1>10. d.at + d.used \in 0..Size /\ d.at + d.used <= top
  BY <1>2, <1>3, <1>7
<1>11. \A c \in Live \ {b} : Stop(blocks[c]) <= d.at + d.used
  <2>1. \A c \in Live \ {b} : Stop(blocks[c]) <= d.at /\ Stop(blocks[c]) \in Nat
    BY <1>1, <1>2, <1>6, <1>8, LastBlock, LiveBlock, BlockParts
  <2>2. QED
    BY <1>3, <2>1
<1>12. PICK n : n = Len(frames)
  OBVIOUS
<1>13. n \in Nat /\ \A i \in 1..n : frames[i] \in Nat /\ frames[i] <= d.at
  BY <1>1, <1>2, <1>8, <1>12, FramesBelow DEF ArenaInv, Rising
<1>14. \A i \in 1..n : frames[i] <= d.at + d.used
  BY <1>3, <1>13
<1>15. Sits(a, d.at + d.used, frames)
  <2>1. a.at % a.item = 0
    BY <1>3, <1>5
  <2>2. n > 0 => frames[n] <= a.at
    BY <1>5, <1>13
  <2>3. Stop(a) <= d.at + d.used
    BY <1>3, <1>6
  <2>4. a.used <= a.cap /\ (a.used = 0 => a.cap = 0) /\ (a.cap = 0 => a.at = 0)
    BY <1>3, <1>5, <1>8
  <2>5. a.frame <= Len(frames) /\ ~(a.frame < Len(frames))
    BY <1>2, <1>3, <1>5
  <2>6. a.cap > 0 /\ a.frame > 0 => frames[a.frame] <= a.at
    BY <1>2, <1>5, <1>12, <2>2
  <2>7. QED
    BY <2>1, <2>3, <2>4, <2>5, <2>6, Zenon DEF Sits
<1>16. PICK t \in 0..Size : t = d.at + d.used /\ t <= top
  BY <1>10
<1>17. blocks' = [blocks EXCEPT ![b] = a] /\ frames' = frames /\ top' = t /\ bytes' = Poison(bytes, t)
  BY <1>9, <1>16, Zenon
<1>18. /\ \A i \in 1..Len(frames) : frames[i] <= t
       /\ \A c \in Live \ {b} : Stop(blocks[c]) <= t
  BY <1>11, <1>12, <1>14, <1>16, Zenon
<1>19. /\ a \in Array /\ Sits(a, t, frames)
       /\ a.at = blocks[b].at /\ Filled(a) = Filled(blocks[b])
       /\ a.cap > 0 /\ blocks[b].cap > 0
  BY <1>1, <1>5, <1>6, <1>8, <1>15, <1>16
<1>20. Stop(a) <= Stop(blocks[b])
  BY <1>1, <1>6, <1>10
<1>21. QED
  BY <1>2, <1>16, <1>17, <1>18, <1>19, <1>20, ComesDown

LEMMA CapacityKept ==
  ASSUME NEW a \in Array, NEW n \in 1..2, top \in 0..Size
  PROVE  NewCapacity(a, n) \in Nat /\ a.cap <= NewCapacity(a, n)
<1>1. a.used \in Nat /\ a.cap \in Nat /\ a.used + n \in Nat /\ Size - top \in Nat
  BY ArenaAssumptions DEF Array
<1>2. Most(a.used + n, InitialCapacity) \in Nat
  BY <1>1, ArenaAssumptions DEF Most
<1>3. PICK want \in Nat : want = CeilToPowerOf2(Most(a.used + n, InitialCapacity))
  BY <1>2, PowerIsNumber
<1>4. Least(want, a.cap + (Size - top)) \in Nat
  BY <1>1, <1>3 DEF Least
<1>5. NewCapacity(a, n) = IF a.used + n <= a.cap THEN a.cap ELSE Most(a.cap, Least(want, a.cap + (Size - top)))
  BY <1>3, Zenon DEF NewCapacity
<1>6. QED
  BY <1>1, <1>4, <1>5 DEF Most

(* Where the array lies after it has grown; `moved` says that it was copied. *)
Moved(a, cap) == cap > a.cap /\ ~(a.cap > 0 /\ IsLast(a.at, a.cap * a.item))
PlaceOf(a, cap) == IF Moved(a, cap) THEN Aligned(top, a.item) ELSE a.at
Copied(a, cap) == IF Moved(a, cap) THEN Copy(bytes, a.at, PlaceOf(a, cap), a.cap * a.item) ELSE bytes

GrowsTo(b, a, cap, at, placed) ==
  /\ ~(at + cap * a.item > Size) /\ ~(cap - a.used < placed)
  /\ top' = IF cap > a.cap THEN at + cap * a.item ELSE top
  /\ bytes' = Write(Copied(a, cap), b, at, a.used * a.item, (a.used + placed) * a.item)
  /\ blocks' = [blocks EXCEPT ![b] = [a EXCEPT !.at = at, !.cap = cap, !.used = a.used + placed]]
  /\ frames' = frames

LEMMA GrownParts ==
  ASSUME NEW b \in Blocks, NEW n, NEW placed, Grown(b, n, placed),
         NEW a, a = blocks[b], NEW cap, cap = NewCapacity(a, n), NEW at, at = PlaceOf(a, cap)
  PROVE  Trap \/ GrowsTo(b, a, cap, at, placed)
<1>1. at = IF ~(cap > a.cap) THEN a.at ELSE IF a.cap > 0 /\ IsLast(a.at, a.cap * a.item) THEN a.at ELSE Aligned(top, a.item)
  BY Zenon DEF PlaceOf, Moved
<1>2. Copied(a, cap) = IF cap > a.cap /\ ~(a.cap > 0 /\ IsLast(a.at, a.cap * a.item))
                       THEN Copy(bytes, a.at, at, a.cap * a.item) ELSE bytes
  BY Zenon DEF Copied, Moved
<1>3. QED
  BY <1>1, <1>2, Zenon DEF Grown, GrowsTo

(* The bytes of a block stay where they are, or are copied to a place above. *)
LEMMA GrownStep ==
  ASSUME ArenaInv, NEW b \in Live, blocks[b].frame = Len(frames), NEW n \in 1..2,
         NEW cap, cap = NewCapacity(blocks[b], n), NEW placed \in Nat,
         placed = n \/ placed = Least(n, cap - blocks[b].used),
         Grown(b, n, placed)
  PROVE  ArenaInv'
<1>1. PICK d, m, at : d = blocks[b] /\ m = d.item /\ at = PlaceOf(d, cap)
  OBVIOUS
<1>2. top \in Nat /\ Size \in Nat /\ top <= Size /\ top \in 0..Size
  BY ArenaAssumptions DEF ArenaInv
<1>3. d \in Array /\ Sits(d, top, frames) /\ Marked(b, d, bytes) /\ d.frame = Len(frames) /\ b \in Blocks
  BY <1>1, LiveBlock
<1>4. /\ d.at \in Nat /\ d.cap \in Nat /\ d.used \in Nat /\ m \in Nat \ {0} /\ m \in Items
      /\ d.frame \in Nat /\ Stop(d) \in Nat /\ Filled(d) \in Nat
      /\ d.at + Filled(d) <= Stop(d) /\ Stop(d) <= top
      /\ d.cap = 0 => d.at = 0 /\ Stop(d) = 0 /\ Filled(d) = 0
      /\ d.cap > 0 => d.at < Stop(d)
  BY <1>1, <1>3, BlockParts DEF Sits
<1>5. cap \in Nat /\ d.cap <= cap
  BY <1>1, <1>2, <1>3, CapacityKept
<1>6. d.used <= d.cap /\ (d.used = 0 => d.cap = 0) /\ d.at % m = 0
  BY <1>1, <1>3 DEF Sits
<1>7. Trap \/ GrowsTo(b, d, cap, at, placed)
  BY <1>1, <1>3, GrownParts
<1>8. CASE Trap
  BY <1>8 DEF Trap, ArenaInv, Live
<1>9. CASE ~Trap
  <2>1. PICK u \in Nat : u = d.used + placed
    BY <1>4
  <2>2. PICK a : a = [d EXCEPT !.at = at, !.cap = cap, !.used = u]
    OBVIOUS
  <2>3. /\ ~(at + cap * m > Size) /\ ~(cap - d.used < placed)
        /\ top' = IF cap > d.cap THEN at + cap * m ELSE top
        /\ bytes' = Write(Copied(d, cap), b, at, d.used * m, u * m)
        /\ blocks' = [blocks EXCEPT ![b] = a]
        /\ frames' = frames
    <3>1. GrowsTo(b, d, cap, at, placed)
      BY <1>7, <1>9
    <3>2. m = d.item
      BY <1>1
    <3>3. QED
      BY <2>1, <2>2, <3>1, <3>2, Zenon DEF GrowsTo
  <2>4. at \in Nat /\ at % m = 0 /\ (Moved(d, cap) => top <= at) /\ (~Moved(d, cap) => at = d.at)
    BY <1>1, <1>2, <1>4, <1>6, AlignedUp DEF PlaceOf
  <2>5. u <= cap
    <3>1. \A v, w, c \in Nat : ~(c - v < w) => v + w <= c
      OBVIOUS
    <3>2. d.used \in Nat /\ cap \in Nat /\ ~(cap - d.used < placed)
      BY <1>4, <1>5, <2>3
    <3>3. QED
      BY <2>1, <3>1, <3>2, Zenon
  <2>6. PICK full \in Nat, fill \in Nat, old \in Nat, have \in Nat :
          full = cap * m /\ fill = u * m /\ old = d.used * m /\ have = d.cap * m
    <3>1. \A x, y \in Nat : x * y \in Nat
      OBVIOUS
    <3>2. cap * m \in Nat /\ u * m \in Nat /\ d.used * m \in Nat /\ d.cap * m \in Nat
      BY <1>4, <1>5, <3>1, Zenon
    <3>3. QED
      BY <3>2
  <2>7. fill <= full /\ old <= fill /\ have <= full /\ old <= have /\ (cap = 0 => full = 0)
    <3>1. d.used <= u
      BY <1>4, <2>1
    <3>2. fill <= full
      BY <1>4, <1>5, <2>5, <2>6, Products
    <3>3. cap = 0 => full = 0
      BY <1>4, <2>6
    <3>4. old <= fill
      BY <1>4, <2>6, <3>1, Products
    <3>5. have <= full
      BY <1>4, <1>5, <2>6, Products
    <3>6. old <= have
      BY <1>4, <1>6, <2>6, Products
    <3>7. QED
      BY <3>2, <3>3, <3>4, <3>5, <3>6
  <2>8. /\ a \in Array
        /\ a.at = at /\ a.cap = cap /\ a.used = u /\ a.item = m /\ a.frame = Len(frames)
    BY <1>1, <1>3, <1>4, <1>5, <2>2, <2>4 DEF Array
  <2>9. Stop(a) = at + full /\ Filled(a) = fill /\ Stop(d) = d.at + have /\ Filled(d) = old
    BY <1>1, <2>6, <2>8 DEF Stop, Filled
  <2>10. at + full <= Size
    BY <1>2, <2>3, <2>4, <2>6
  <2>11. IsLast(d.at, d.cap * d.item) <=> Stop(d) = top
    BY DEF IsLast, Stop
  <2>12. top' \in 0..Size /\ top <= top' /\ Stop(a) <= top'
    <3>1. CASE cap > d.cap
      <4>1. top' = at + full
        BY <2>3, <2>6, <3>1
      <4>2. CASE Moved(d, cap)
        BY <1>2, <2>4, <2>9, <2>10, <4>1, <4>2
      <4>3. CASE ~Moved(d, cap)
        <5>1. Stop(d) = top /\ at = d.at
          BY <2>4, <2>11, <3>1, <4>3 DEF Moved
        <5>2. QED
          <6>1. top = at + have
            BY <2>9, <5>1
          <6>2. QED
            BY <1>2, <2>4, <2>7, <2>9, <2>10, <4>1, <6>1
      <4>4. QED
        BY <4>2, <4>3
    <3>2. CASE ~(cap > d.cap)
      <4>1. cap = d.cap
        BY <1>4, <1>5, <3>2
      <4>2. at = d.at /\ top' = top
        BY <2>3, <2>4, <3>2 DEF Moved
      <4>3. full = have
        BY <2>6, <4>1
      <4>4. QED
        BY <1>2, <1>4, <2>9, <4>2, <4>3
    <3>3. QED
      BY <3>1, <3>2
  <2>13. PICK k : k = Len(frames)
    OBVIOUS
  <2>14. k \in Nat /\ \A i \in 1..k : frames[i] \in Nat /\ frames[i] <= top
    BY <2>13 DEF ArenaInv, Rising
  <2>15. \A i \in 1..k : frames[i] <= top'
    BY <1>2, <2>12, <2>14
  <2>16. Sits(a, top', frames)
    <3>1. u = 0 => cap = 0
      <4>1. CASE placed = n
        BY <1>4, <2>1, <4>1
      <4>2. CASE placed = Least(n, cap - d.used)
        BY <1>1, <1>4, <1>5, <1>6, <2>1, <4>2 DEF Least
      <4>3. QED
        BY <1>1, <4>1, <4>2
    <3>2. cap = 0 => at = 0
      BY <1>4, <1>5, <2>4 DEF Moved
    <3>3. cap > 0 /\ k > 0 => frames[k] <= at
      <4>1. ASSUME cap > 0, k > 0 PROVE frames[k] <= at
        <5>1. CASE Moved(d, cap)
          BY <1>2, <2>4, <2>14, <4>1, <5>1
        <5>2. CASE ~Moved(d, cap)
          <6>1. d.cap > 0
            BY <1>4, <1>5, <4>1, <5>2 DEF Moved
          <6>2. QED
            BY <1>1, <1>3, <2>4, <2>13, <4>1, <5>2, <6>1 DEF Sits
        <5>3. QED
          BY <5>1, <5>2
      <4>2. QED
        BY <4>1
    <3>4. a.frame = k /\ k <= k /\ ~(k < k)
      BY <2>8, <2>13, <2>14
    <3>5. QED
      BY <2>4, <2>5, <2>8, <2>12, <2>13, <3>1, <3>2, <3>3, <3>4 DEF Sits
  <2>17. ASSUME NEW c \in Live \ {b}
         PROVE  Stop(blocks[c]) <= at \/ cap = 0 \/ (blocks[c].cap = 0 /\ Stop(blocks[c]) = 0) \/ (Stop(a) <= blocks[c].at)
    <3>1. PICK e : e = blocks[c]
      OBVIOUS
    <3>2. e \in Array /\ Sits(e, top, frames) /\ Apart(d, e) /\ e.at \in Nat /\ e.cap \in Nat /\ Stop(e) \in Nat
          /\ (e.cap = 0 => Stop(e) = 0) /\ Stop(e) <= top
      BY <1>1, <3>1, LiveBlock, BlockParts DEF ArenaInv, Sits
    <3>3. CASE Moved(d, cap)
      BY <1>2, <2>4, <3>1, <3>2, <3>3
    <3>4. CASE ~Moved(d, cap) /\ cap > d.cap
      <4>1. d.cap > 0 /\ Stop(d) = top /\ at = d.at
        BY <2>4, <2>11, <3>4 DEF Moved
      <4>2. QED
        BY <1>1, <3>1, <4>1, LastBlock
    <3>5. CASE ~(cap > d.cap)
      <4>1. cap = d.cap /\ at = d.at /\ full = have
        <5>1. \A v, w \in Nat : ~(v > w) /\ w <= v => v = w
          OBVIOUS
        <5>2. d.cap \in Nat
          BY <1>4
        <5>3. cap = d.cap
          BY <1>5, <3>5, <5>1, <5>2, Zenon
        <5>4. ~Moved(d, cap)
          BY <3>5, Zenon DEF Moved
        <5>5. QED
          BY <2>4, <2>6, <5>3, <5>4, Zenon
      <4>2. Stop(a) = Stop(d)
        BY <2>9, <4>1
      <4>3. d.cap > 0 /\ e.cap > 0 => Stop(d) <= e.at \/ Stop(e) <= d.at
        BY <3>2 DEF Apart
      <4>4. QED
        BY <1>4, <3>1, <3>2, <4>1, <4>2, <4>3
    <3>6. QED
      BY <3>3, <3>4, <3>5
  <2>18. \A c \in Live \ {b} : Apart(a, blocks[c])
    <3>1. ASSUME NEW c \in Live \ {b} PROVE Apart(a, blocks[c])
      <4>1. blocks[c].cap \in Nat
        BY LiveBlock, BlockParts
      <4>2. QED
        BY <1>5, <2>8, <2>17, <4>1 DEF Apart
    <3>2. QED
      BY <3>1
  <2>19. DOMAIN bytes' = 0..Size - 1 /\ DOMAIN bytes = 0..Size - 1
    <3>1. DOMAIN Copied(d, cap) = DOMAIN bytes
      BY DEF Copied, Copy
    <3>2. QED
      BY <2>3, <3>1 DEF Write, ArenaInv
  <2>20. ASSUME NEW i \in 0..Size - 1
         PROVE  /\ at + old <= i /\ i < at + fill => bytes'[i] = <<b, i - at>>
                /\ ~(at + old <= i /\ i < at + fill) => bytes'[i] = Copied(d, cap)[i]
    <3>1. DOMAIN Copied(d, cap) = 0..Size - 1
      BY <2>19 DEF Copied, Copy
    <3>2. QED
      BY <2>3, <2>6, <3>1 DEF Write
  <2>21. ASSUME NEW i \in 0..Size - 1
         PROVE  /\ Moved(d, cap) /\ at <= i /\ i < at + have => Copied(d, cap)[i] = bytes[d.at + (i - at)]
                /\ ~(Moved(d, cap) /\ at <= i /\ i < at + have) => Copied(d, cap)[i] = bytes[i]
    <3>1. CASE Moved(d, cap)
      BY <1>1, <2>6, <2>19, <3>1 DEF Copied, Copy
    <3>2. CASE ~Moved(d, cap)
      BY <3>2 DEF Copied
    <3>3. QED
      BY <3>1, <3>2
  <2>22. Marked(b, a, bytes')
    <3>1. ASSUME NEW i \in 0..fill - 1 PROVE bytes'[at + i] = <<b, i>>
      <4>1. at + i \in 0..Size - 1 /\ at + i < at + fill /\ (at + i) - at = i /\ i \in Nat
        BY <1>2, <2>4, <2>7, <2>10
      <4>2. CASE old <= i
        BY <2>4, <2>20, <4>1, <4>2
      <4>3. CASE i < old
        <5>1. bytes'[at + i] = Copied(d, cap)[at + i]
          BY <2>4, <2>20, <4>1, <4>3
        <5>2. bytes[d.at + i] = <<b, i>>
          <6>1. i \in 0..Filled(d) - 1
            BY <2>9, <4>1, <4>3
          <6>2. QED
            BY <1>3, <6>1 DEF Marked
        <5>3. CASE Moved(d, cap)
          <6>1. at <= at + i /\ at + i < at + have
            BY <2>4, <2>7, <4>1, <4>3
          <6>2. Copied(d, cap)[at + i] = bytes[d.at + ((at + i) - at)]
            BY <2>21, <4>1, <5>3, <6>1
          <6>3. QED
            BY <4>1, <5>1, <5>2, <6>2
        <5>4. CASE ~Moved(d, cap)
          <6>1. Copied(d, cap)[at + i] = bytes[at + i] /\ at = d.at
            BY <2>4, <2>21, <4>1, <5>4
          <6>2. QED
            BY <5>1, <5>2, <6>1
        <5>5. QED
          BY <5>3, <5>4
      <4>4. QED
        BY <4>1, <4>2, <4>3
    <3>2. QED
      BY <2>8, <2>9, <3>1 DEF Marked
  <2>23. ASSUME NEW c \in Live \ {b} PROVE Stop(blocks[c]) <= top'
    <3>1. Stop(blocks[c]) <= top /\ Stop(blocks[c]) \in Nat
      BY LiveBlock, BlockParts DEF Sits
    <3>2. QED
      BY <1>2, <2>12, <3>1
  <2>24. ASSUME NEW c \in Live \ {b}, NEW i \in blocks[c].at..Stop(blocks[c]) - 1
         PROVE  bytes'[i] = bytes[i]
    <3>1. PICK e : e = blocks[c]
      OBVIOUS
    <3>2. e.at \in Nat /\ Stop(e) \in Nat /\ Stop(e) <= top /\ i \in e.at..Stop(e) - 1
      BY <3>1, LiveBlock, BlockParts DEF Sits
    <3>3. i \in 0..Size - 1 /\ i < top
      BY <1>2, <3>2
    <3>4. ~(at + old <= i /\ i < at + fill)
      <4>1. CASE cap = 0
        BY <2>4, <2>7, <3>3, <4>1
      <4>2. CASE cap # 0
        BY <2>4, <2>7, <2>9, <2>17, <3>1, <3>2, <3>3, <4>2
      <4>3. QED
        BY <4>1, <4>2
    <3>5. ~(Moved(d, cap) /\ at <= i /\ i < at + have)
      BY <1>2, <2>4, <3>3
    <3>6. QED
      BY <2>20, <2>21, <3>3, <3>4, <3>5
  <2>25. QED
    BY <1>3, <2>3, <2>8, <2>12, <2>13, <2>15, <2>16, <2>18, <2>19, <2>22, <2>23, <2>24, OthersKept
<1>10. QED
  BY <1>8, <1>9

-----------------------------------------------------------------------------
(* The steps that open and close a frame.                                    *)
LEMMA GrabStep ==
  ASSUME ArenaInv, Grab
  PROVE  ArenaInv'
<1>1. frames' = Append(frames, top) /\ UNCHANGED <<top, bytes, blocks>>
  BY DEF Grab
<1>2. PICK k : k = Len(frames)
  OBVIOUS
<1>3. k \in Nat /\ frames \in Seq(Nat) /\ top \in Nat
  BY <1>2, ArenaAssumptions DEF ArenaInv, Rising
<1>4. /\ frames' \in Seq(Nat) /\ Len(frames') = k + 1 /\ frames'[k + 1] = top
      /\ \A i \in 1..k : frames'[i] = frames[i]
  BY <1>1, <1>2, <1>3
<1>5. \A i \in 1..k : frames[i] \in Nat /\ frames[i] <= top /\ \A j \in i..k : frames[i] <= frames[j]
  BY <1>2 DEF ArenaInv, Rising
<1>6. Rising(frames', top')
  <2>1. ASSUME NEW i \in 1..k+1 PROVE frames'[i] <= top /\ \A j \in i..k+1 : frames'[i] <= frames'[j]
    <3>1. CASE i = k + 1
      BY <1>3, <1>4, <3>1
    <3>2. CASE i # k + 1
      <4>1. i \in 1..k
        BY <1>3, <3>2
      <4>2. \A j \in i..k+1 : j = k + 1 \/ (j \in i..k /\ j \in 1..k)
        BY <1>3, <4>1
      <4>3. QED
        BY <1>4, <1>5, <4>1, <4>2
    <3>3. QED
      BY <3>1, <3>2
  <2>2. QED
    BY <1>1, <1>4, <2>1 DEF Rising
<1>7. ASSUME NEW b \in Live PROVE Sits(blocks[b], top, frames')
  <2>1. PICK a : a = blocks[b]
    OBVIOUS
  <2>2. a \in Array /\ Sits(a, top, frames) /\ a.frame \in Nat
    BY <2>1, LiveBlock, BlockParts
  <2>3. a.frame <= k /\ Stop(a) <= top
    BY <1>2, <2>2 DEF Sits
  <2>4. a.frame <= k + 1
    BY <1>3, <2>2, <2>3
  <2>5. Stop(a) <= frames'[a.frame + 1]
    <3>1. CASE a.frame = k
      BY <1>4, <2>3, <3>1
    <3>2. CASE a.frame # k
      <4>1. a.frame < k /\ a.frame + 1 \in 1..k
        BY <1>3, <2>2, <2>3, <3>2
      <4>2. QED
        BY <1>2, <1>4, <2>2, <4>1 DEF Sits
    <3>3. QED
      BY <3>1, <3>2
  <2>6. a.cap > 0 /\ a.frame > 0 => frames'[a.frame] <= a.at
    <3>1. a.frame > 0 => a.frame \in 1..k
      BY <1>3, <2>2, <2>3
    <3>2. QED
      BY <1>4, <2>2, <3>1 DEF Sits
  <2>7. QED
    BY <1>4, <2>1, <2>2, <2>4, <2>5, <2>6 DEF Sits
<1>8. Live' = Live
  BY <1>1 DEF Live
<1>9. QED
  BY <1>1, <1>6, <1>7, <1>8 DEF ArenaInv

LEMMA PopFrameStep ==
  ASSUME ArenaInv, PopFrame
  PROVE  ArenaInv'
<1>1. PICK k, t : k = Len(frames) /\ t = frames[k]
  OBVIOUS
<1>2. frames \in Seq(Nat) /\ frames # <<>> /\ top \in 0..Size /\ Size \in Nat
  BY ArenaAssumptions DEF ArenaInv, Rising, PopFrame
<1>3. k \in Nat \ {0}
  BY <1>1, <1>2
<1>4. \A i \in 1..k : frames[i] \in Nat /\ frames[i] <= top /\ \A j \in i..k : frames[i] <= frames[j]
  BY <1>1 DEF ArenaInv, Rising
<1>5. t \in Nat /\ t <= top /\ t \in 0..Size
  <2>1. k \in 1..k
    BY <1>3
  <2>2. t \in Nat /\ t <= top
    BY <1>1, <1>4, <2>1
  <2>3. QED
    BY <1>2, <2>2
<1>6. top' = t /\ bytes' = Poison(bytes, t) /\ frames' = SubSeq(frames, 1, k - 1)
      /\ blocks' = [b \in Blocks |-> IF blocks[b] # Free /\ blocks[b].frame = k THEN Free ELSE blocks[b]]
  BY <1>1 DEF PopFrame
<1>7. frames' \in Seq(Nat) /\ Len(frames') = k - 1 /\ \A i \in 1..k-1 : frames'[i] = frames[i]
  BY <1>1, <1>2, <1>3, <1>6
<1>8. Rising(frames', t)
  <2>1. ASSUME NEW i \in 1..k-1 PROVE frames'[i] <= t /\ \A j \in i..k-1 : frames'[i] <= frames'[j]
    <3>1. i \in 1..k /\ k \in i..k /\ \A j \in i..k-1 : j \in i..k /\ j \in 1..k-1
      BY <1>3
    <3>2. frames[i] <= t /\ \A j \in i..k-1 : frames[i] <= frames[j]
      BY <1>1, <1>4, <3>1
    <3>3. QED
      BY <1>7, <3>1, <3>2
  <2>2. QED
    BY <1>7, <2>1 DEF Rising
<1>9. blocks' \in [Blocks -> Array \cup {Free}]
  BY <1>6 DEF ArenaInv
<1>10. ASSUME NEW b \in Live' PROVE b \in Live /\ blocks'[b] = blocks[b] /\ blocks[b].frame # k
  BY <1>6, <1>10 DEF Live
<1>11. DOMAIN bytes' = 0..Size - 1 /\ \A i \in 0..Size - 1 : i < t => bytes'[i] = bytes[i]
  BY <1>6 DEF ArenaInv, Poison
<1>12. ASSUME NEW b \in Live' PROVE Sits(blocks[b], t, frames') /\ Marked(b, blocks[b], bytes')
  <2>1. PICK a : a = blocks[b]
    OBVIOUS
  <2>2. a \in Array /\ Sits(a, top, frames) /\ Marked(b, a, bytes) /\ a.frame # k
    BY <1>10, <2>1, LiveBlock
  <2>3. /\ a.at \in Nat /\ a.frame \in Nat /\ Stop(a) \in Nat /\ Filled(a) \in Nat
        /\ a.at + Filled(a) <= Stop(a)
    BY <2>2, BlockParts
  <2>4. a.frame <= k - 1 /\ a.frame + 1 \in 1..k /\ a.frame < k
    BY <1>1, <1>3, <2>2, <2>3 DEF Sits
  <2>5. Stop(a) <= frames[a.frame + 1]
    BY <1>1, <2>2, <2>4 DEF Sits
  <2>6. frames[a.frame + 1] <= t /\ frames[a.frame + 1] \in Nat
    <3>1. k \in a.frame + 1..k
      BY <1>3, <2>3, <2>4
    <3>2. QED
      BY <1>1, <1>4, <2>4, <3>1
  <2>7. Stop(a) <= t
    BY <1>5, <2>3, <2>5, <2>6
  <2>8. a.frame < k - 1 => Stop(a) <= frames'[a.frame + 1]
    <3>1. a.frame < k - 1 => a.frame + 1 \in 1..k-1
      BY <1>3, <2>3
    <3>2. QED
      BY <1>7, <2>5, <3>1
  <2>9. a.cap > 0 /\ a.frame > 0 => frames'[a.frame] <= a.at
    <3>1. a.frame > 0 => a.frame \in 1..k-1
      BY <1>3, <2>3, <2>4
    <3>2. QED
      BY <1>7, <2>2, <3>1 DEF Sits
  <2>10. Sits(a, t, frames')
    <3>1. /\ a.used <= a.cap /\ (a.used = 0 => a.cap = 0) /\ (a.cap = 0 => a.at = 0)
          /\ a.at % a.item = 0
      BY <2>2, Zenon DEF Sits
    <3>2. a.frame <= Len(frames') /\ (a.frame < Len(frames') => Stop(a) <= frames'[a.frame + 1])
      BY <1>7, <2>4, <2>8
    <3>3. QED
      BY <2>7, <2>9, <3>1, <3>2, Zenon DEF Sits
  <2>11. ASSUME NEW i \in 0..Filled(a) - 1 PROVE bytes'[a.at + i] = <<b, i>>
    <3>1. a.at + i \in 0..Size - 1 /\ a.at + i < t
      <4>1. a.at + i \in Nat /\ a.at + i < a.at + Filled(a)
        BY <2>3
      <4>2. a.at + i < t
        BY <1>5, <2>3, <2>7, <4>1
      <4>3. QED
        BY <1>2, <1>5, <4>1, <4>2
    <3>2. QED
      BY <1>11, <2>2, <3>1 DEF Marked
  <2>12. QED
    BY <2>1, <2>10, <2>11 DEF Marked
<1>13. ASSUME NEW b \in Live', NEW c \in Live', b # c PROVE Apart(blocks'[b], blocks'[c])
  BY <1>10, <1>13 DEF ArenaInv
<1>14. QED
  BY <1>5, <1>6, <1>8, <1>9, <1>10, <1>11, <1>12, <1>13 DEF ArenaInv

-----------------------------------------------------------------------------
(* The invariant holds in every state: blocks with memory lie apart, above   *)
(* the start of their frame and below the start of the next, and hold what   *)
(* their owners wrote.                                                       *)
THEOREM ArenaInvariant == ArenaSpec => []ArenaInv
<1>1. ArenaInit => ArenaInv
  <2>1. SUFFICES ASSUME ArenaInit PROVE ArenaInv
    OBVIOUS
  <2>2. top \in 0..Size /\ DOMAIN bytes = 0..Size - 1
    BY <2>1, ArenaAssumptions DEF ArenaInit
  <2>3. blocks \in [Blocks -> Array \cup {Free}] /\ Live = {}
    BY <2>1 DEF ArenaInit, Live
  <2>4. Rising(frames, top)
    BY <2>1 DEF ArenaInit, Rising
  <2>5. QED
    BY <2>2, <2>3, <2>4 DEF ArenaInv
<1>2. ArenaInv /\ [ArenaNext]_arenaVars => ArenaInv'
  <2>1. SUFFICES ASSUME ArenaInv, [ArenaNext]_arenaVars PROVE ArenaInv'
    OBVIOUS
  <2>2. CASE UNCHANGED arenaVars
    BY <2>1, <2>2 DEF arenaVars, ArenaInv, Live
  <2>3. CASE Grab
    BY <2>1, <2>3, GrabStep
  <2>4. CASE PopFrame
    BY <2>1, <2>4, PopFrameStep
  <2>5. ASSUME NEW b \in Blocks, NEW item \in Items, NewArray(b, item) PROVE ArenaInv'
    BY <2>1, <2>5, NewArrayStep
  <2>6. ASSUME NEW b \in Blocks, Trim(b) PROVE ArenaInv'
    BY <2>1, <2>6, TrimStep
  <2>7. ASSUME NEW b \in Blocks, FreeArray(b) PROVE ArenaInv'
    BY <2>1, <2>7, FreeArrayStep
  <2>8. ASSUME NEW b \in Blocks, NEW n \in 1..2, AppendMany(b, n) PROVE ArenaInv'
    <3>1. b \in Live /\ blocks[b].frame = Len(frames) /\ Grown(b, n, n) /\ n \in Nat
      BY <2>8 DEF AppendMany, Usable, Live
    <3>2. QED
      BY <2>1, <3>1, GrownStep
  <2>9. ASSUME NEW b \in Blocks, NEW n \in 1..2, TryAppendMany(b, n) PROVE ArenaInv'
    <3>1. PICK cap, placed : cap = NewCapacity(blocks[b], n) /\ placed = Least(n, cap - blocks[b].used)
      OBVIOUS
    <3>2. b \in Live /\ blocks[b].frame = Len(frames) /\ Grown(b, n, placed)
      BY <2>9, <3>1 DEF TryAppendMany, Usable, Live
    <3>3. blocks[b] \in Array /\ Sits(blocks[b], top, frames) /\ blocks[b].cap \in Nat /\ blocks[b].used \in Nat
      BY <2>1, <3>2, LiveBlock, BlockParts
    <3>4. cap \in Nat /\ blocks[b].cap <= cap /\ blocks[b].used <= blocks[b].cap
      BY <2>1, <3>1, <3>3, CapacityKept DEF Sits, ArenaInv
    <3>5. placed \in Nat
      BY <3>1, <3>3, <3>4 DEF Least
    <3>6. QED
      BY <2>1, <3>1, <3>2, <3>5, GrownStep
  <2>10. QED
    BY <2>1, <2>2, <2>3, <2>4, <2>5, <2>6, <2>7, <2>8, <2>9 DEF ArenaNext
<1>3. QED
  BY <1>1, <1>2, PTL DEF ArenaSpec

(* Whatever other blocks do, a block is aligned, lies below the top and holds*)
(* what its owner wrote, in an arena of any size with frames of any depth    *)
(* (arena.c:21-87, dyn_array.h:25-81).                                       *)
THEOREM BlocksAlwaysHold == ArenaSpec => []BlocksHold
<1>1. ArenaInv => BlocksHold
  BY LiveBlock DEF BlocksHold, Live, Sits, Marked, Stop, Filled
<1>2. QED
  BY <1>1, ArenaInvariant, PTL

(* Two blocks never share a byte (arena.c:21-87).                            *)
NothingShared ==
  \A b, c \in Live : b # c => \A i \in 0..Size - 1 :
    ~(blocks[b].at <= i /\ i < Stop(blocks[b]) /\ blocks[c].at <= i /\ i < Stop(blocks[c]))

THEOREM BlocksShareNothing == ArenaSpec => []NothingShared
<1>1. ArenaInv => NothingShared
  <2>1. SUFFICES ASSUME ArenaInv, NEW b \in Live, NEW c \in Live, b # c, NEW i \in 0..Size - 1,
                        blocks[b].at <= i, i < Stop(blocks[b]), blocks[c].at <= i, i < Stop(blocks[c])
                 PROVE  FALSE
    BY DEF NothingShared
  <2>2. PICK a, d : a = blocks[b] /\ d = blocks[c]
    OBVIOUS
  <2>3. a \in Array /\ Sits(a, top, frames) /\ d \in Array /\ Sits(d, top, frames) /\ Apart(a, d)
    BY <2>1, <2>2, LiveBlock DEF ArenaInv
  <2>4. a.at \in Nat /\ Stop(a) \in Nat /\ d.at \in Nat /\ Stop(d) \in Nat /\ a.cap \in Nat /\ d.cap \in Nat
        /\ (a.cap = 0 => Stop(a) = 0) /\ (d.cap = 0 => Stop(d) = 0)
    BY <2>3, BlockParts
  <2>5. i \in Nat
    BY ArenaAssumptions
  <2>6. QED
    BY <2>1, <2>2, <2>3, <2>4, <2>5 DEF Apart
<1>2. QED
  BY <1>1, ArenaInvariant, PTL

-----------------------------------------------------------------------------
(* A hash tree of keys K and values V: children were made after their parent.*)
Nodes(K, V) == [key : K, val : V, hash : Nat, child : [1..2 -> Nat]]
IsTree(t, K, V) ==
  /\ t \in Seq(Nodes(K, V))
  /\ \A i \in 1..Len(t), d \in 1..2 : t[i].child[d] # 0 => t[i].child[d] \in i+1..Len(t)

(* The search of FindNode from node i on, and its steps.                     *)
Search(tree, k, h) ==
  LET from[i \in DOMAIN tree] ==
        LET n == tree[i]
            side == IF h > n.hash THEN 2 ELSE 1
        IN IF IsKey(n, k, h) THEN [at |-> i, parent |-> 0, side |-> 0]
           ELSE IF n.child[side] = 0 THEN [at |-> 0, parent |-> i, side |-> side]
           ELSE from[n.child[side]]
  IN from

Turn(n, h) == IF h > n.hash THEN 2 ELSE 1
Hit(i) == [at |-> i, parent |-> 0, side |-> 0]
Miss(p, d) == [at |-> 0, parent |-> p, side |-> d]
Onward(from, t, i, k, h) ==
  IF IsKey(t[i], k, h) THEN Hit(i)
  ELSE IF t[i].child[Turn(t[i], h)] = 0 THEN Miss(i, Turn(t[i], h))
  ELSE from[t[i].child[Turn(t[i], h)]]

LEMMA TreeParts ==
  ASSUME NEW K, NEW V, NEW t, IsTree(t, K, V)
  PROVE  /\ Len(t) \in Nat /\ DOMAIN t = 1..Len(t)
         /\ \A i \in 1..Len(t) : /\ t[i] \in Nodes(K, V)
                                 /\ t[i].key \in K /\ t[i].val \in V /\ t[i].hash \in Nat
                                 /\ t[i].child \in [1..2 -> Nat]
         /\ \A i \in 1..Len(t), h \in Nat :
              /\ Turn(t[i], h) \in 1..2
              /\ t[i].child[Turn(t[i], h)] \in Nat
              /\ t[i].child[Turn(t[i], h)] # 0 => t[i].child[Turn(t[i], h)] \in i+1..Len(t)
<1>1. Len(t) \in Nat /\ DOMAIN t = 1..Len(t) /\ \A i \in 1..Len(t) : t[i] \in Nodes(K, V)
  BY DEF IsTree
<1>2. \A i \in 1..Len(t) : /\ t[i].key \in K /\ t[i].val \in V /\ t[i].hash \in Nat
                           /\ t[i].child \in [1..2 -> Nat]
  BY <1>1 DEF Nodes
<1>3. \A i \in 1..Len(t), h \in Nat : Turn(t[i], h) \in 1..2
  BY DEF Turn
<1>4. QED
  BY <1>1, <1>2, <1>3 DEF IsTree

(* The search ends, since it goes to later nodes only.                       *)
LEMMA SearchSteps ==
  ASSUME NEW K, NEW V, NEW t, IsTree(t, K, V), NEW k, NEW h \in Nat
  PROVE  Search(t, k, h) = [i \in 1..Len(t) |-> Onward(Search(t, k, h), t, i, k, h)]
<1> DEFINE Step(f, i) == Onward(f, t, i, k, h)
<1>1. PICK n \in Nat : n = Len(t) /\ DOMAIN t = 1..n
  BY TreeParts
<1>2. ASSUME NEW i \in 1..n, NEW f, NEW g, \A j \in i+1..n : f[j] = g[j]
      PROVE  Step(f, i) = Step(g, i)
  BY <1>1, <1>2, TreeParts DEF Onward
<1>3. \E f : f = [i \in 1..n |-> Step(f, i)]
  <2> HIDE DEF Step
  <2> DEFINE T == {m \in 0..n : \E f : f = [i \in (n-m)+1..n |-> Step(f, i)]}
  <2>1. 0 \in T
    <3>1. PICK f : f = [i \in (n-0)+1..n |-> 0]
      OBVIOUS
    <3>2. f = [i \in (n-0)+1..n |-> Step(f, i)]
      BY <3>1
    <3>3. QED
      BY <3>2
  <2>2. ASSUME NEW m \in 0..n-1, m \in T PROVE m + 1 \in T
    <3>1. PICK f : f = [i \in (n-m)+1..n |-> Step(f, i)]
      BY <2>2
    <3>2. PICK p \in 1..n : p = n - m
      OBVIOUS
    <3>3. PICK g : g = [i \in p..n |-> IF i = p THEN Step(f, p) ELSE f[i]]
      OBVIOUS
    <3>4. \A i \in p+1..n : g[i] = f[i] /\ f[i] = Step(f, i)
      <4>1. \A i \in p+1..n : i \in p..n /\ i # p
        OBVIOUS
      <4>2. \A i \in p+1..n : g[i] = f[i]
        BY <3>3, <4>1, Zenon
      <4>3. f = [i \in p+1..n |-> Step(f, i)]
        BY <3>1, <3>2, Zenon
      <4>4. QED
        BY <4>2, <4>3, Zenon
    <3>5. g[p] = Step(f, p)
      BY <3>3
    <3>6. \A i \in p..n : g[i] = Step(g, i)
      <4>1. ASSUME NEW i \in p..n PROVE Step(f, i) = Step(g, i)
        <5>1. \A j \in i+1..n : f[j] = g[j]
          BY <3>4
        <5>2. QED
          BY <1>2, <5>1
      <4>2. QED
        BY <3>4, <3>5, <4>1
    <3>7. g = [i \in p..n |-> Step(g, i)]
      BY <3>3, <3>6
    <3>8. p = (n - (m + 1)) + 1
      BY <3>2
    <3>9. QED
      BY <3>7, <3>8
  <2>3. 0..n \subseteq T
    <3> HIDE DEF T
    <3>1. QED
      BY <2>1, <2>2, CountingUp
  <2>4. n \in T /\ (n - n) + 1 = 1
    BY <2>3
  <2>5. QED
    BY <2>4
<1>4. Search(t, k, h) = CHOOSE f : f = [i \in 1..n |-> Step(f, i)]
  BY <1>1, Zenon DEF Search, Onward, Turn, Hit, Miss
<1> HIDE DEF Step
<1>5. Search(t, k, h) = [i \in 1..n |-> Step(Search(t, k, h), i)]
  BY <1>3, <1>4, Zenon
<1>6. QED
  BY <1>1, <1>5, Zenon DEF Step

(* What a search ends with.                                                  *)
Ends(t, k, h, i, r) ==
  \/ \E j \in i..Len(t) : r = Hit(j) /\ IsKey(t[j], k, h)
  \/ \E j \in i..Len(t), d \in 1..2 : r = Miss(j, d) /\ t[j].child[d] = 0

LEMMA SearchEnds ==
  ASSUME NEW K, NEW V, NEW t, IsTree(t, K, V), NEW k, NEW h \in Nat
  PROVE  \A i \in 1..Len(t) : Ends(t, k, h, i, Search(t, k, h)[i])
<1>1. PICK n \in Nat : n = Len(t)
  BY TreeParts
<1>2. PICK s : s = Search(t, k, h)
  OBVIOUS
<1>3. \A i \in 1..n : s[i] = Onward(s, t, i, k, h)
  <2>1. Search(t, k, h) = [i \in 1..Len(t) |-> Onward(Search(t, k, h), t, i, k, h)]
    BY SearchSteps
  <2>2. s = [i \in 1..n |-> Onward(s, t, i, k, h)]
    BY <1>1, <1>2, <2>1, Zenon
  <2>3. QED
    BY <2>2, Zenon
<1> DEFINE T == {m \in 0..n : \A i \in (n-m)+1..n : Ends(t, k, h, i, s[i])}
<1>4. 0 \in T
  OBVIOUS
<1>5. ASSUME NEW m \in 0..n-1, m \in T PROVE m + 1 \in T
  <2>1. PICK p \in 1..n : p = n - m /\ p = (n - (m + 1)) + 1
    OBVIOUS
  <2>2. \A i \in p+1..n : Ends(t, k, h, i, s[i])
    BY <1>5, <2>1
  <2>3. Ends(t, k, h, p, s[p])
    <3>1. CASE IsKey(t[p], k, h)
      <4>1. s[p] = Hit(p)
        BY <1>3, <3>1, Zenon DEF Onward
      <4>2. QED
        BY <1>1, <3>1, <4>1 DEF Ends
    <3>2. CASE ~IsKey(t[p], k, h)
      <4>1. PICK d \in 1..2 : d = Turn(t[p], h)
        BY <1>1, TreeParts
      <4>2. CASE t[p].child[d] = 0
        <5>1. s[p] = Miss(p, d)
          BY <1>3, <3>2, <4>1, <4>2, Zenon DEF Onward
        <5>2. QED
          BY <1>1, <4>2, <5>1 DEF Ends
      <4>3. CASE t[p].child[d] # 0
        <5>1. PICK c \in p+1..n : c = t[p].child[d]
          BY <1>1, <4>1, <4>3, TreeParts
        <5>2. s[p] = s[c]
          BY <1>3, <3>2, <4>1, <4>3, <5>1, Zenon DEF Onward
        <5>3. Ends(t, k, h, c, s[c])
          BY <2>2, <5>1
        <5>4. \A j \in c..Len(t) : j \in p..Len(t)
          BY <1>1, <5>1
        <5>5. QED
          BY <5>2, <5>3, <5>4 DEF Ends
      <4>4. QED
        BY <4>2, <4>3
    <3>3. QED
      BY <3>1, <3>2
  <2>4. \A i \in p..n : Ends(t, k, h, i, s[i])
    BY <2>2, <2>3
  <2>5. QED
    BY <2>1, <2>4
<1>6. 0..n \subseteq T
  <2> HIDE DEF T
  <2>1. QED
    BY <1>4, <1>5, CountingUp
<1>7. n \in T /\ (n - n) + 1 = 1
  BY <1>6
<1>8. QED
  BY <1>1, <1>2, <1>7

(* A new node under the place where the search for its key ends leads every  *)
(* search that ended there to itself, and no other.                          *)
Hung(t, p, d, new) == [Append(t, new) EXCEPT ![p].child[d] = Len(t) + 1]
WithChild(node, d, c) == [node EXCEPT !.child = [@ EXCEPT ![d] = c]]

HungRight(t, p, d, k, v, h, u, n) ==
  /\ Len(u) = n + 1
  /\ u[n+1] = Node(k, v, h)
  /\ \A i \in 1..n : /\ u[i].key = t[i].key /\ u[i].val = t[i].val /\ u[i].hash = t[i].hash
                     /\ \A e \in 1..2 : u[i].child[e] = IF i = p /\ e = d THEN n + 1 ELSE t[i].child[e]

LEMMA TreeHung ==
  ASSUME NEW K, NEW V, NEW t, IsTree(t, K, V), NEW k \in K, NEW v \in V, NEW h \in Nat,
         NEW p \in 1..Len(t), NEW d \in 1..2, t[p].child[d] = 0,
         NEW u, u = Hung(t, p, d, Node(k, v, h)), NEW n, n = Len(t)
  PROVE  /\ IsTree(u, K, V)
         /\ HungRight(t, p, d, k, v, h, u, n)
<1>1. n \in Nat /\ n = Len(t) /\ p \in 1..n
  BY TreeParts
<1>2. \A i \in 1..n : t[i] \in Nodes(K, V) /\ t[i].child \in [1..2 -> Nat]
  BY <1>1, TreeParts
<1>3. PICK new : new = Node(k, v, h)
  OBVIOUS
<1>4. new \in Nodes(K, V) /\ new.child = <<0, 0>> /\ new.child[1] = 0 /\ new.child[2] = 0
  BY <1>3 DEF Node, Nodes
<1>5. PICK g : g = Append(t, new)
  OBVIOUS
<1>6. /\ g \in Seq(Nodes(K, V)) /\ Len(g) = n + 1 /\ g[n+1] = new
      /\ \A i \in 1..n : g[i] = t[i]
  BY <1>1, <1>4, <1>5 DEF IsTree
<1>7. PICK w : w = WithChild(t[p], d, n + 1)
  OBVIOUS
<1>8. /\ w \in Nodes(K, V) /\ w.key = t[p].key /\ w.val = t[p].val /\ w.hash = t[p].hash
      /\ \A e \in 1..2 : w.child[e] = IF e = d THEN n + 1 ELSE t[p].child[e]
  <2>1. t[p] \in [key : K, val : V, hash : Nat, child : [1..2 -> Nat]]
    BY <1>1, <1>2 DEF Nodes
  <2>2. QED
    BY <1>7, <2>1 DEF WithChild, Nodes
<1>9. u = [g EXCEPT ![p] = w]
  BY <1>1, <1>3, <1>5, <1>6, <1>7 DEF Hung, WithChild
<1>10. /\ u \in Seq(Nodes(K, V)) /\ Len(u) = n + 1
       /\ \A i \in 1..n+1 : u[i] = IF i = p THEN w ELSE g[i]
  BY <1>1, <1>6, <1>8, <1>9
<1>12. u[n+1] = new
  BY <1>1, <1>6, <1>10
<1>13. ASSUME NEW i \in 1..n
       PROVE  /\ u[i].key = t[i].key /\ u[i].val = t[i].val /\ u[i].hash = t[i].hash
              /\ \A e \in 1..2 : u[i].child[e] = IF i = p /\ e = d THEN n + 1 ELSE t[i].child[e]
  BY <1>6, <1>8, <1>10
<1>14. ASSUME NEW i \in 1..n+1, NEW e \in 1..2, u[i].child[e] # 0
       PROVE  u[i].child[e] \in i+1..n+1
  <2>1. CASE i = n + 1
    BY <1>4, <1>12, <1>14, <2>1
  <2>2. CASE i \in 1..n
    <3>1. t[i].child[e] # 0 => t[i].child[e] \in i+1..n
      BY <1>1, <2>2 DEF IsTree
    <3>2. \A x \in i+1..n : x \in i+1..n+1
      BY <2>2
    <3>3. n + 1 \in i+1..n+1
      BY <2>2
    <3>4. u[i].child[e] = IF i = p /\ e = d THEN n + 1 ELSE t[i].child[e]
      BY <1>13, <2>2
    <3>5. QED
      BY <1>14, <3>1, <3>2, <3>3, <3>4, Zenon
  <2>3. QED
    BY <2>1, <2>2
<1>15. IsTree(u, K, V)
  BY <1>10, <1>14 DEF IsTree
<1>16. QED
  BY <1>1, <1>3, <1>10, <1>12, <1>13, <1>15 DEF HungRight

Rerouted(s, w, p, d, k, h, j, g, n) ==
  /\ \A i \in 1..n : w[i] = IF s[i] = Miss(p, d) THEN w[n+1] ELSE s[i]
  /\ j = k /\ g = h => w[n+1] = Hit(n+1)
  /\ j # k => \E e \in 1..2 : w[n+1] = Miss(n+1, e)

LEMMA SearchHung ==
  ASSUME NEW K, NEW V, NEW t, IsTree(t, K, V), NEW k \in K, NEW v \in V, NEW h \in Nat,
         NEW p \in 1..Len(t), NEW d \in 1..2, t[p].child[d] = 0,
         NEW u, u = Hung(t, p, d, Node(k, v, h)), NEW j, NEW g \in Nat,
         NEW s, s = Search(t, j, g), NEW w, w = Search(u, j, g)
  PROVE  Rerouted(s, w, p, d, k, h, j, g, Len(t))
<1>1. PICK n \in Nat : n = Len(t) /\ p \in 1..n
  BY TreeParts
<1>2. /\ IsTree(u, K, V) /\ Len(u) = n + 1 /\ u[n+1] = Node(k, v, h)
      /\ \A i \in 1..n : /\ u[i].key = t[i].key /\ u[i].val = t[i].val /\ u[i].hash = t[i].hash
                         /\ \A e \in 1..2 : u[i].child[e] = IF i = p /\ e = d THEN n + 1 ELSE t[i].child[e]
  <2>1. IsTree(u, K, V) /\ HungRight(t, p, d, k, v, h, u, n)
    BY <1>1, TreeHung, Zenon
  <2>2. QED
    BY <2>1, Zenon DEF HungRight
<1>3. \A i \in 1..n : s[i] = Onward(s, t, i, j, g)
  <2>1. Search(t, j, g) = [i \in 1..Len(t) |-> Onward(Search(t, j, g), t, i, j, g)]
    BY SearchSteps
  <2>2. s = [i \in 1..n |-> Onward(s, t, i, j, g)]
    BY <1>1, <2>1, Zenon
  <2>3. QED
    BY <2>2, Zenon
<1>4. \A i \in 1..n+1 : w[i] = Onward(w, u, i, j, g)
  <2>1. Search(u, j, g) = [i \in 1..Len(u) |-> Onward(Search(u, j, g), u, i, j, g)]
    BY <1>2, SearchSteps
  <2>2. w = [i \in 1..n+1 |-> Onward(w, u, i, j, g)]
    BY <1>2, <2>1, Zenon
  <2>3. QED
    BY <2>2, Zenon
<1>5. j = k /\ g = h => w[n+1] = Hit(n+1)
  <2>1. j = k /\ g = h => IsKey(u[n+1], j, g)
    BY <1>2 DEF IsKey, Node
  <2>2. w[n+1] = Onward(w, u, n + 1, j, g)
    BY <1>4
  <2>3. QED
    BY <2>1, <2>2, Zenon DEF Onward
<1>6. j # k => \E e \in 1..2 : w[n+1] = Miss(n+1, e)
  <2>1. SUFFICES ASSUME j # k PROVE \E e \in 1..2 : w[n+1] = Miss(n+1, e)
    OBVIOUS
  <2>2. ~IsKey(u[n+1], j, g) /\ \A e \in 1..2 : u[n+1].child[e] = 0
    BY <1>2, <2>1 DEF IsKey, Node
  <2>3. w[n+1] = Onward(w, u, n + 1, j, g)
    BY <1>4
  <2>4. Turn(u[n+1], g) \in 1..2
    BY DEF Turn
  <2>5. QED
    BY <2>2, <2>3, <2>4, Zenon DEF Onward
<1> DEFINE Follows(i) == w[i] = IF s[i] = Miss(p, d) THEN w[n+1] ELSE s[i]
           T == {m \in 0..n : \A i \in (n-m)+1..n : Follows(i)}
<1>7. 0 \in T
  OBVIOUS
<1>8. ASSUME NEW m \in 0..n-1, m \in T PROVE m + 1 \in T
  <2>1. PICK q \in 1..n : q = n - m /\ q = (n - (m + 1)) + 1
    OBVIOUS
  <2>2. \A i \in q+1..n : Follows(i)
    BY <1>8, <2>1
  <2>3. Follows(q)
    <3>1. w[q] = Onward(w, u, q, j, g) /\ s[q] = Onward(s, t, q, j, g)
      BY <1>3, <1>4
    <3>2. (IsKey(u[q], j, g) <=> IsKey(t[q], j, g)) /\ Turn(u[q], g) = Turn(t[q], g)
      BY <1>2 DEF IsKey, Turn
    <3>3. CASE IsKey(t[q], j, g)
      <4>1. w[q] = Hit(q) /\ s[q] = Hit(q)
        BY <3>1, <3>2, <3>3, Zenon DEF Onward
      <4>2. Hit(q) # Miss(p, d)
        BY DEF Hit, Miss
      <4>3. QED
        BY <4>1, <4>2
    <3>4. CASE ~IsKey(t[q], j, g)
      <4>1. PICK e \in 1..2 : e = Turn(t[q], g)
        BY <1>1, TreeParts
      <4>2. u[q].child[e] = IF q = p /\ e = d THEN n + 1 ELSE t[q].child[e]
        BY <1>2
      <4>3. CASE t[q].child[e] = 0
        <5>1. s[q] = Miss(q, e)
          BY <3>1, <3>4, <4>1, <4>3, Zenon DEF Onward
        <5>2. CASE q = p /\ e = d
          <6>1. u[q].child[e] = n + 1 /\ n + 1 # 0
            BY <4>2, <5>2
          <6>2. w[q] = w[n+1]
            BY <3>1, <3>2, <3>4, <4>1, <6>1, Zenon DEF Onward
          <6>3. QED
            BY <5>1, <5>2, <6>2
        <5>3. CASE ~(q = p /\ e = d)
          <6>1. u[q].child[e] = 0
            BY <4>2, <4>3, <5>3
          <6>2. w[q] = Miss(q, e)
            BY <3>1, <3>2, <3>4, <4>1, <6>1, Zenon DEF Onward
          <6>3. Miss(q, e) # Miss(p, d)
            BY <5>3 DEF Miss
          <6>4. QED
            BY <5>1, <6>2, <6>3
        <5>4. QED
          BY <5>2, <5>3
      <4>4. CASE t[q].child[e] # 0
        <5>1. PICK c \in q+1..n : c = t[q].child[e]
          BY <1>1, <4>1, <4>4, TreeParts
        <5>2. u[q].child[e] = c
          BY <4>2, <4>4, <5>1
        <5>3. s[q] = s[c]
          BY <3>1, <3>4, <4>1, <4>4, <5>1, Zenon DEF Onward
        <5>4. w[q] = w[c]
          BY <3>1, <3>2, <3>4, <4>1, <4>4, <5>1, <5>2, Zenon DEF Onward
        <5>5. QED
          BY <2>2, <5>3, <5>4
      <4>5. QED
        BY <4>3, <4>4
    <3>5. QED
      BY <3>3, <3>4
  <2>4. \A i \in q..n : Follows(i)
    <3>1. \A i \in q..n : i = q \/ i \in q+1..n
      OBVIOUS
    <3> HIDE DEF Follows
    <3>2. QED
      BY <2>2, <2>3, <3>1, Zenon
  <2>5. QED
    BY <2>1, <2>4
<1>9. 0..n \subseteq T
  <2> HIDE DEF T
  <2>1. QED
    BY <1>7, <1>8, CountingUp
<1>10. n \in T /\ (n - n) + 1 = 1
  <2> HIDE DEF T
  <2>1. QED
    BY <1>9
<1>11. \A i \in 1..n : w[i] = IF s[i] = Miss(p, d) THEN w[n+1] ELSE s[i]
  BY <1>10
<1>12. Len(t) = n
  BY <1>1
<1> HIDE DEF T
<1>13. QED
  BY <1>5, <1>6, <1>11, <1>12 DEF Rerouted

-----------------------------------------------------------------------------
(* FindNode and FindItem.                                                    *)
LEMMA FindSearches ==
  ASSUME NEW K, NEW V, NEW t, IsTree(t, K, V), NEW k, NEW h \in Nat
  PROVE  /\ t = <<>> => FindNode(t, k, h) = Miss(0, 0)
         /\ t # <<>> => /\ 1 \in 1..Len(t)
                        /\ FindNode(t, k, h) = Search(t, k, h)[1]
                        /\ Ends(t, k, h, 1, FindNode(t, k, h))
<1>1. t = <<>> => FindNode(t, k, h) = Miss(0, 0)
  BY Zenon DEF FindNode, Miss
<1>2. ASSUME t # <<>> PROVE FindNode(t, k, h) = Search(t, k, h)[1]
  BY <1>2, Zenon DEF FindNode, Search
<1>3. ASSUME t # <<>> PROVE 1 \in 1..Len(t)
  BY <1>3 DEF IsTree
<1>4. \A i \in 1..Len(t) : Ends(t, k, h, i, Search(t, k, h)[i])
  BY SearchEnds
<1>5. QED
  BY <1>1, <1>2, <1>3, <1>4, Zenon

LEMMA ItemFound ==
  ASSUME NEW K, NEW V, Unknown \notin V, NEW t, IsTree(t, K, V), NEW k, NEW h \in Nat
  PROVE  \/ /\ FindNode(t, k, h).at = 0
            /\ FindItem(t, k, h) = Unknown
         \/ \E i \in 1..Len(t) : /\ FindNode(t, k, h) = Hit(i)
                                 /\ FindItem(t, k, h) = t[i].val /\ t[i].val \in V
                                 /\ FindItem(t, k, h) # Unknown
<1>1. PICK f : f = FindNode(t, k, h)
  OBVIOUS
<1>2. FindItem(t, k, h) = IF f.at = 0 THEN Unknown ELSE t[f.at].val
  BY <1>1, Zenon DEF FindItem
<1>3. \A p, d : Miss(p, d).at = 0
  BY DEF Miss
<1>4. CASE t = <<>>
  <2>1. f.at = 0
    BY <1>1, <1>3, <1>4, FindSearches
  <2>2. QED
    BY <1>1, <1>2, <2>1
<1>5. CASE t # <<>>
  <2>1. Ends(t, k, h, 1, f)
    BY <1>1, <1>5, FindSearches
  <2>2. CASE \E i \in 1..Len(t) : f = Hit(i)
    <3>1. PICK i \in 1..Len(t) : f = Hit(i)
      BY <2>2
    <3>2. f.at = i /\ i # 0
      BY <3>1, TreeParts DEF Hit
    <3>3. t[i].val \in V
      BY TreeParts
    <3>4. QED
      BY <1>1, <1>2, <3>1, <3>2, <3>3
  <2>3. CASE \E j \in 1..Len(t), d \in 1..2 : f = Miss(j, d)
    <3>1. f.at = 0
      BY <1>3, <2>3
    <3>2. QED
      BY <1>1, <1>2, <3>1
  <2>4. QED
    BY <2>1, <2>2, <2>3 DEF Ends
<1>6. QED
  BY <1>4, <1>5

(* A tree of one node.                                                       *)
LEMMA TreeOfOne ==
  ASSUME NEW K, NEW V, NEW k \in K, NEW v \in V, NEW h \in Nat,
         NEW u, u = Append(<<>>, Node(k, v, h))
  PROVE  /\ IsTree(u, K, V)
         /\ FindItem(u, k, h) = v
         /\ \A j, g : g \in Nat /\ j # k => FindItem(u, j, g) = Unknown
<1>1. PICK new : new = Node(k, v, h)
  OBVIOUS
<1>2. /\ new \in Nodes(K, V) /\ new.key = k /\ new.val = v /\ new.hash = h
      /\ \A e \in 1..2 : new.child[e] = 0
  BY <1>1 DEF Node, Nodes
<1>3. u \in Seq(Nodes(K, V)) /\ Len(u) = 1 /\ u[1] = new /\ u # <<>>
  BY <1>1, <1>2
<1>4. IsTree(u, K, V)
  BY <1>2, <1>3 DEF IsTree
<1>5. FindItem(u, k, h) = v
  <2>1. PICK s : s = Search(u, k, h)
    OBVIOUS
  <2>2. s = [i \in 1..Len(u) |-> Onward(s, u, i, k, h)]
    BY <1>4, <2>1, SearchSteps
  <2>3. s[1] = Onward(s, u, 1, k, h)
    BY <1>3, <2>2
  <2>4. IsKey(u[1], k, h)
    BY <1>2, <1>3 DEF IsKey
  <2>5. s[1] = Hit(1)
    BY <2>3, <2>4, Zenon DEF Onward
  <2>6. FindNode(u, k, h) = Hit(1)
    BY <1>3, <1>4, <2>1, <2>5, FindSearches
  <2>7. Hit(1).at = 1
    BY DEF Hit
  <2>8. QED
    BY <1>2, <1>3, <2>6, <2>7 DEF FindItem
<1>6. ASSUME NEW j, NEW g \in Nat, j # k PROVE FindItem(u, j, g) = Unknown
  <2>1. PICK s : s = Search(u, j, g)
    OBVIOUS
  <2>2. s = [i \in 1..Len(u) |-> Onward(s, u, i, j, g)]
    BY <1>4, <2>1, SearchSteps
  <2>3. s[1] = Onward(s, u, 1, j, g)
    BY <1>3, <2>2
  <2>4. ~IsKey(u[1], j, g)
    BY <1>2, <1>3, <1>6 DEF IsKey
  <2>5. Turn(u[1], g) \in 1..2
    BY DEF Turn
  <2>6. s[1] = Miss(1, Turn(u[1], g))
    BY <1>2, <1>3, <2>3, <2>4, <2>5, Zenon DEF Onward
  <2>7. FindNode(u, j, g) = Miss(1, Turn(u[1], g))
    BY <1>3, <1>4, <2>1, <2>6, FindSearches
  <2>8. FindNode(u, j, g).at = 0
    BY <2>7 DEF Miss
  <2>9. QED
    BY <2>8 DEF FindItem
<1>7. QED
  BY <1>4, <1>5, <1>6

(* InsertItem: the item that was found before, or the new one, is found by   *)
(* its key; and all other keys find what they found, whatever their hashes.  *)
Keeps(t, u, k, v, h) ==
  /\ FindItem(u, k, h) = IF FindItem(t, k, h) = Unknown THEN v ELSE FindItem(t, k, h)
  /\ \A j, g : g \in Nat /\ j # k => FindItem(u, j, g) = FindItem(t, j, g)

LEMMA ItemInserted ==
  ASSUME NEW K, NEW V, Unknown \notin V, NEW t, IsTree(t, K, V),
         NEW k \in K, NEW v \in V, NEW h \in Nat, NEW u, u = InsertItem(t, k, v, h)
  PROVE  IsTree(u, K, V) /\ Keeps(t, u, k, v, h)
<1>1. PICK f : f = FindNode(t, k, h)
  OBVIOUS
<1>2. CASE f.at # 0
  <2>1. u = t
    BY <1>1, <1>2 DEF InsertItem
  <2>2. FindItem(t, k, h) # Unknown
    BY <1>1, <1>2, ItemFound
  <2>3. QED
    BY <2>1, <2>2 DEF Keeps
<1>3. CASE f.at = 0 /\ t = <<>>
  <2>1. f = Miss(0, 0)
    BY <1>1, <1>3, FindSearches
  <2>2. f.at = 0 /\ f.parent = 0
    BY <2>1 DEF Miss
  <2>3. u = Append(<<>>, Node(k, v, h))
    BY <1>1, <1>3, <2>2 DEF InsertItem
  <2>4. \A j, g : g \in Nat => FindItem(t, j, g) = Unknown
    <3>1. ASSUME NEW j, NEW g \in Nat PROVE FindItem(t, j, g) = Unknown
      <4>1. FindNode(t, j, g) = Miss(0, 0)
        BY <1>3, FindSearches
      <4>2. FindNode(t, j, g).at = 0
        BY <4>1 DEF Miss
      <4>3. QED
        BY <4>2 DEF FindItem
    <3>2. QED
      BY <3>1
  <2>5. /\ IsTree(u, K, V)
        /\ FindItem(u, k, h) = v
        /\ \A j, g : g \in Nat /\ j # k => FindItem(u, j, g) = Unknown
    BY <2>3, TreeOfOne
  <2>6. QED
    BY <2>4, <2>5 DEF Keeps
<1>4. CASE f.at = 0 /\ t # <<>>
  <2>1. PICK p \in 1..Len(t), d \in 1..2 : f = Miss(p, d) /\ t[p].child[d] = 0
    <3>1. Ends(t, k, h, 1, f)
      BY <1>1, <1>4, FindSearches
    <3>2. \A j \in 1..Len(t) : Hit(j).at # 0
      BY TreeParts DEF Hit
    <3>3. QED
      BY <1>4, <3>1, <3>2, Zenon DEF Ends
  <2>2. f.at = 0 /\ f.parent = p /\ f.side = d /\ p # 0
    BY <2>1, TreeParts DEF Miss
  <2>3. PICK n \in Nat : n = Len(t) /\ 1 \in 1..n /\ p \in 1..n
    BY <1>4, FindSearches, TreeParts
  <2>4. u = Hung(t, p, d, Node(k, v, h))
    <3>1. PICK new : new = Node(k, v, h)
      OBVIOUS
    <3>2. Len(Append(t, new)) = Len(t) + 1
      BY DEF IsTree
    <3>3. QED
      BY <1>1, <2>2, <3>1, <3>2 DEF InsertItem, Hung
  <2>5. IsTree(u, K, V) /\ HungRight(t, p, d, k, v, h, u, n)
    BY <2>1, <2>3, <2>4, TreeHung, Zenon
  <2>6. /\ Len(u) = n + 1 /\ u # <<>> /\ u[n+1] = Node(k, v, h)
        /\ \A i \in 1..n : u[i].val = t[i].val
    <3>1. Len(u) = n + 1 /\ u[n+1] = Node(k, v, h) /\ \A i \in 1..n : u[i].val = t[i].val
      BY <2>5, Zenon DEF HungRight
    <3>2. QED
      BY <2>3, <3>1
  <2>7. ASSUME NEW j, NEW g \in Nat, NEW s, s = Search(t, j, g), NEW w, w = Search(u, j, g)
        PROVE  /\ FindNode(t, j, g) = s[1] /\ FindNode(u, j, g) = w[1]
               /\ w[1] = IF s[1] = Miss(p, d) THEN w[n+1] ELSE s[1]
               /\ j = k /\ g = h => w[n+1] = Hit(n+1)
               /\ j # k => \E e \in 1..2 : w[n+1] = Miss(n+1, e)
    <3>1. FindNode(t, j, g) = s[1] /\ FindNode(u, j, g) = w[1]
      BY <1>4, <2>5, <2>6, <2>7, FindSearches
    <3>2. Rerouted(s, w, p, d, k, h, j, g, Len(t))
      BY <2>1, <2>4, <2>7, SearchHung, Zenon
    <3>3. QED
      BY <2>3, <3>1, <3>2, Zenon DEF Rerouted
  <2>8. FindItem(u, k, h) = v /\ FindItem(t, k, h) = Unknown
    <3>1. FindNode(t, k, h) = Miss(p, d) /\ FindNode(u, k, h) = Hit(n+1)
      <4>1. PICK s, w : s = Search(t, k, h) /\ w = Search(u, k, h)
        OBVIOUS
      <4>2. /\ FindNode(t, k, h) = s[1] /\ FindNode(u, k, h) = w[1]
            /\ w[1] = IF s[1] = Miss(p, d) THEN w[n+1] ELSE s[1]
            /\ w[n+1] = Hit(n+1)
        BY <2>7, <4>1
      <4>3. QED
        BY <1>1, <2>1, <4>2
    <3>2. Hit(n+1).at = n + 1 /\ n + 1 # 0 /\ Node(k, v, h).val = v
      BY <2>3 DEF Hit, Node
    <3>3. FindItem(u, k, h) = v
      BY <2>6, <3>1, <3>2 DEF FindItem
    <3>4. QED
      BY <1>1, <1>4, <3>3 DEF FindItem
  <2>9. ASSUME NEW j, NEW g \in Nat, j # k PROVE FindItem(u, j, g) = FindItem(t, j, g)
    <3>1. PICK s, w : s = Search(t, j, g) /\ w = Search(u, j, g)
      OBVIOUS
    <3>2. /\ FindNode(t, j, g) = s[1] /\ FindNode(u, j, g) = w[1]
          /\ w[1] = IF s[1] = Miss(p, d) THEN w[n+1] ELSE s[1]
          /\ \E e \in 1..2 : w[n+1] = Miss(n+1, e)
      BY <2>7, <2>9, <3>1
    <3>3. \A q, e : Miss(q, e).at = 0
      BY DEF Miss
    <3>4. CASE s[1] = Miss(p, d)
      <4>1. FindNode(t, j, g).at = 0 /\ FindNode(u, j, g).at = 0
        BY <3>2, <3>3, <3>4
      <4>2. QED
        BY <4>1 DEF FindItem
    <3>5. CASE s[1] # Miss(p, d)
      <4>1. FindNode(u, j, g) = FindNode(t, j, g)
        BY <3>2, <3>5
      <4>2. CASE FindNode(t, j, g).at = 0
        BY <4>1, <4>2 DEF FindItem
      <4>3. CASE FindNode(t, j, g).at # 0
        <5>1. PICK i \in 1..n : FindNode(t, j, g) = Hit(i)
          BY <2>3, <4>3, ItemFound
        <5>2. Hit(i).at = i /\ i # 0
          BY <2>3 DEF Hit
        <5>3. u[i].val = t[i].val
          BY <2>6
        <5>4. QED
          BY <4>1, <5>1, <5>2, <5>3 DEF FindItem
      <4>4. QED
        BY <4>2, <4>3
    <3>6. QED
      BY <3>4, <3>5
  <2>10. QED
    BY <2>5, <2>8, <2>9 DEF Keeps
<1>5. QED
  BY <1>2, <1>3, <1>4

-----------------------------------------------------------------------------
(* The two trees and the set of what clients were given.                     *)
Atoms == 0..MaxAtom
Records == [atom : Atoms, str : Strings, unique : BOOLEAN]
StrItem(x, hs, s) == FindItem(x, s, hs[s])
AtomItem(y, ha, a) == FindItem(y, a, ha[a])
Gift(a, s, b) == [atom |-> a, str |-> s, unique |-> b]

LEMMA GiftParts ==
  ASSUME NEW a \in Atoms, NEW s \in Strings, NEW b \in BOOLEAN
  PROVE  /\ Gift(a, s, b) \in Records
         /\ Gift(a, s, b).atom = a /\ Gift(a, s, b).str = s /\ Gift(a, s, b).unique = b
BY DEF Gift, Records

Trees(x, y) == IsTree(x, Strings, Atoms) /\ IsTree(y, Atoms, Strings)
Holds(x, y, hs, ha, S) ==
  /\ \A g \in S : AtomItem(y, ha, g.atom) = g.str /\ (~g.unique => StrItem(x, hs, g.str) = g.atom)
  /\ \A g, f \in S : g.atom = f.atom => g = f
  /\ \A a \in Atoms : AtomItem(y, ha, a) # Unknown => \E g \in S : g.atom = a
  /\ \A s \in Strings : StrItem(x, hs, s) # Unknown => Gift(StrItem(x, hs, s), s, FALSE) \in S

LEMMA NoTrees ==
  ASSUME NEW hs \in [Strings -> Nat], NEW ha \in [Atoms -> Nat]
  PROVE  Trees(<<>>, <<>>) /\ Holds(<<>>, <<>>, hs, ha, {})
<1>1. Trees(<<>>, <<>>)
  BY DEF Trees, IsTree
<1>2. ASSUME NEW k, NEW h PROVE FindItem(<<>>, k, h) = Unknown
  <2>1. FindNode(<<>>, k, h).at = 0
    BY DEF FindNode
  <2>2. QED
    BY <2>1 DEF FindItem
<1>3. QED
  BY <1>1, <1>2 DEF Holds, AtomItem, StrItem

(* nk_atom_define and nk_atom_unique of a new atom; a new string for the one.*)
AtomsGain(y, z, ha, a, s) ==
  \A b \in Atoms : AtomItem(z, ha, b) = IF b = a THEN s ELSE AtomItem(y, ha, b)
StringsGain(x, z, hs, s, a) ==
  \A r \in Strings : StrItem(z, hs, r) = IF r = s THEN a ELSE StrItem(x, hs, r)

LEMMA AtomAdded ==
  ASSUME NEW ha \in [Atoms -> Nat], NEW y, IsTree(y, Atoms, Strings),
         NEW a \in Atoms, NEW s \in Strings, AtomItem(y, ha, a) = Unknown,
         NEW z, z = InsertItem(y, a, s, ha[a])
  PROVE  IsTree(z, Atoms, Strings) /\ AtomsGain(y, z, ha, a, s)
<1>1. Unknown \notin Strings /\ ha[a] \in Nat
  BY AtomAssumptions
<1>2. IsTree(z, Atoms, Strings) /\ Keeps(y, z, a, s, ha[a])
  BY <1>1, ItemInserted
<1>3. \A b \in Atoms : ha[b] \in Nat
  OBVIOUS
<1>4. QED
  BY <1>2, <1>3 DEF AtomItem, AtomsGain, Keeps

LEMMA StringAdded ==
  ASSUME NEW hs \in [Strings -> Nat], NEW x, IsTree(x, Strings, Atoms),
         NEW s \in Strings, NEW a \in Atoms, StrItem(x, hs, s) = Unknown,
         NEW z, z = InsertItem(x, s, a, hs[s])
  PROVE  IsTree(z, Strings, Atoms) /\ StringsGain(x, z, hs, s, a)
<1>1. Unknown \notin Atoms /\ hs[s] \in Nat
  BY AtomAssumptions DEF Atoms
<1>2. IsTree(z, Strings, Atoms) /\ Keeps(x, z, s, a, hs[s])
  BY <1>1, ItemInserted
<1>3. \A r \in Strings : hs[r] \in Nat
  OBVIOUS
<1>4. QED
  BY <1>2, <1>3 DEF StrItem, StringsGain, Keeps

(* The two trees are trees, and answer what was given.                       *)
Answering(x, y, hs, ha, S) == Trees(x, y) /\ Holds(x, y, hs, ha, S)

LEMMA Defined ==
  ASSUME NEW hs \in [Strings -> Nat], NEW ha \in [Atoms -> Nat], NEW S \in SUBSET Records,
         NEW x, NEW y, Trees(x, y), Holds(x, y, hs, ha, S),
         NEW a \in Atoms, NEW s \in Strings, \A g \in S : g.atom # a, StrItem(x, hs, s) = Unknown,
         NEW v, v = InsertItem(x, s, a, hs[s]), NEW z, z = InsertItem(y, a, s, ha[a])
  PROVE  Answering(v, z, hs, ha, S \cup {Gift(a, s, FALSE)})
<1>1. /\ IsTree(z, Atoms, Strings)
      /\ \A b \in Atoms : AtomItem(z, ha, b) = IF b = a THEN s ELSE AtomItem(y, ha, b)
  <2>1. IsTree(y, Atoms, Strings) /\ AtomItem(y, ha, a) = Unknown
    BY DEF Trees, Holds
  <2>2. IsTree(z, Atoms, Strings) /\ AtomsGain(y, z, ha, a, s)
    BY <2>1, AtomAdded
  <2>3. QED
    BY <2>2 DEF AtomsGain
<1>2. /\ IsTree(v, Strings, Atoms)
      /\ \A r \in Strings : StrItem(v, hs, r) = IF r = s THEN a ELSE StrItem(x, hs, r)
  <2>1. IsTree(x, Strings, Atoms)
    BY DEF Trees
  <2>2. IsTree(v, Strings, Atoms) /\ StringsGain(x, v, hs, s, a)
    BY <2>1, StringAdded
  <2>3. QED
    BY <2>2 DEF StringsGain
<1>3. PICK n : n = Gift(a, s, FALSE)
  OBVIOUS
<1>4. n.atom = a /\ n.str = s /\ n.unique = FALSE
  BY <1>3 DEF Gift
<1>5. \A g \in S : g.atom \in Atoms /\ g.str \in Strings /\ g.unique \in BOOLEAN
  BY DEF Records
<1>6. Unknown \notin Atoms
  BY AtomAssumptions DEF Atoms
<1>7. ASSUME NEW g \in S \cup {n}
      PROVE  AtomItem(z, ha, g.atom) = g.str /\ (~g.unique => StrItem(v, hs, g.str) = g.atom)
  <2>1. CASE g = n
    BY <1>1, <1>2, <1>4, <2>1
  <2>2. CASE g \in S
    <3>1. AtomItem(y, ha, g.atom) = g.str /\ g.atom # a /\ g.atom \in Atoms
      BY <1>5, <2>2 DEF Holds
    <3>2. ~g.unique => StrItem(x, hs, g.str) = g.atom /\ g.str # s
      BY <1>5, <1>6, <2>2 DEF Holds
    <3>3. QED
      BY <1>1, <1>2, <1>5, <2>2, <3>1, <3>2
  <2>3. QED
    BY <2>1, <2>2
<1>8. \A g, f \in S \cup {n} : g.atom = f.atom => g = f
  BY <1>4 DEF Holds
<1>9. \A b \in Atoms : AtomItem(z, ha, b) # Unknown => \E g \in S \cup {n} : g.atom = b
  BY <1>1, <1>4 DEF Holds
<1>10. ASSUME NEW r \in Strings, StrItem(v, hs, r) # Unknown
       PROVE  Gift(StrItem(v, hs, r), r, FALSE) \in S \cup {n}
  <2>1. CASE r = s
    BY <1>2, <1>3, <2>1
  <2>2. CASE r # s
    BY <1>2, <1>10, <2>2 DEF Holds
  <2>3. QED
    BY <2>1, <2>2
<1>11. Holds(v, z, hs, ha, S \cup {n})
  BY <1>7, <1>8, <1>9, <1>10 DEF Holds
<1>12. QED
  BY <1>1, <1>2, <1>3, <1>11 DEF Trees, Answering

LEMMA UniqueDefined ==
  ASSUME NEW hs \in [Strings -> Nat], NEW ha \in [Atoms -> Nat], NEW S \in SUBSET Records,
         NEW x, NEW y, Trees(x, y), Holds(x, y, hs, ha, S),
         NEW a \in Atoms, NEW s \in Strings, \A g \in S : g.atom # a,
         NEW z, z = InsertItem(y, a, s, ha[a])
  PROVE  Trees(x, z) /\ Holds(x, z, hs, ha, S \cup {Gift(a, s, TRUE)})
<1>1. /\ IsTree(z, Atoms, Strings)
      /\ \A b \in Atoms : AtomItem(z, ha, b) = IF b = a THEN s ELSE AtomItem(y, ha, b)
  <2>1. IsTree(y, Atoms, Strings) /\ AtomItem(y, ha, a) = Unknown
    BY DEF Trees, Holds
  <2>2. IsTree(z, Atoms, Strings) /\ AtomsGain(y, z, ha, a, s)
    BY <2>1, AtomAdded
  <2>3. QED
    BY <2>2 DEF AtomsGain
<1>2. PICK n : n = Gift(a, s, TRUE)
  OBVIOUS
<1>3. n.atom = a /\ n.str = s /\ n.unique = TRUE
  BY <1>2 DEF Gift
<1>4. \A g \in S : g.atom \in Atoms /\ g.str \in Strings /\ g.unique \in BOOLEAN
  BY DEF Records
<1>5. ASSUME NEW g \in S \cup {n}
      PROVE  AtomItem(z, ha, g.atom) = g.str /\ (~g.unique => StrItem(x, hs, g.str) = g.atom)
  <2>1. CASE g = n
    BY <1>1, <1>3, <2>1
  <2>2. CASE g \in S
    BY <1>1, <1>4, <2>2 DEF Holds
  <2>3. QED
    BY <2>1, <2>2
<1>6. \A g, f \in S \cup {n} : g.atom = f.atom => g = f
  BY <1>3 DEF Holds
<1>7. \A b \in Atoms : AtomItem(z, ha, b) # Unknown => \E g \in S \cup {n} : g.atom = b
  BY <1>1, <1>3 DEF Holds
<1>8. \A r \in Strings : StrItem(x, hs, r) # Unknown => Gift(StrItem(x, hs, r), r, FALSE) \in S \cup {n}
  BY DEF Holds
<1>9. Holds(x, z, hs, ha, S \cup {n})
  BY <1>5, <1>6, <1>7, <1>8 DEF Holds
<1>10. QED
  BY <1>1, <1>2, <1>9 DEF Trees

-----------------------------------------------------------------------------
(* The reserved atoms.                                                       *)
ReservedGifts(i) == {Gift(Reserved[j].atom, Reserved[j].str, FALSE) : j \in 1..i}
Defining(t, h, i) == Trees(t.str, t.atom) /\ Holds(t.str, t.atom, h.str, h.atom, ReservedGifts(i))
IsTable(t) == t = [str |-> t.str, atom |-> t.atom]

LEMMA ReservedDefined ==
  ASSUME NEW h \in [str : [Strings -> Nat], atom : [Atoms -> Nat]]
  PROVE  IsTable(Initial(h)) /\ Defining(Initial(h), h, Len(Reserved))
<1> DEFINE Step(f, i) == IF i = 0 THEN [str |-> <<>>, atom |-> <<>>]
                         ELSE Define(f[i-1], h, Reserved[i].atom, Reserved[i].str)
           after[i \in 0..Len(Reserved)] ==
             IF i = 0 THEN [str |-> <<>>, atom |-> <<>>]
             ELSE Define(after[i-1], h, Reserved[i].atom, Reserved[i].str)
<1>1. PICK n \in Nat : n = Len(Reserved) /\ DOMAIN Reserved = 1..n
  BY AtomAssumptions
<1>2. \A i \in 1..n : Reserved[i].atom \in Atoms /\ Reserved[i].str \in Strings
  <2>1. \A i \in 1..n : Reserved[i] \in [atom : 0..FirstAtom-1, str : Strings]
    <3>1. PICK X : X = [atom : 0..FirstAtom-1, str : Strings]
      OBVIOUS
    <3>2. Reserved \in Seq(X)
      BY <3>1, AtomAssumptions
    <3>3. \A i \in 1..n : Reserved[i] \in X
      BY <1>1, <3>2
    <3>4. QED
      BY <3>1, <3>3, Zenon
  <2>2. \A i \in 0..FirstAtom-1 : i \in Atoms
    BY AtomAssumptions DEF Atoms
  <2>3. QED
    BY <2>1, <2>2
<1>3. h.str \in [Strings -> Nat] /\ h.atom \in [Atoms -> Nat]
  OBVIOUS
<1>4. ASSUME NEW i \in 1..n, NEW f, NEW g, i # 0 => f[i-1] = g[i-1]
      PROVE  Step(f, i) = Step(g, i)
  BY <1>4
<1>5. \E f : f = [i \in 0..n |-> Step(f, i)]
  <2> HIDE DEF Step
  <2> DEFINE T == {m \in 0..n : \E f : f = [i \in 0..m |-> Step(f, i)]}
  <2>1. 0 \in T
    <3>1. PICK f : f = [i \in 0..0 |-> [str |-> <<>>, atom |-> <<>>]]
      OBVIOUS
    <3>2. \A i \in 0..0 : Step(f, i) = [str |-> <<>>, atom |-> <<>>]
      BY DEF Step
    <3>3. f = [i \in 0..0 |-> Step(f, i)]
      BY <3>1, <3>2
    <3>4. QED
      BY <3>3
  <2>2. ASSUME NEW m \in 0..n-1, m \in T PROVE m + 1 \in T
    <3>1. PICK f : f = [i \in 0..m |-> Step(f, i)]
      BY <2>2
    <3>2. PICK p \in 1..n : p = m + 1 /\ m = p - 1
      OBVIOUS
    <3>3. PICK g : g = [i \in 0..p |-> IF i = p THEN Step(f, p) ELSE f[i]]
      OBVIOUS
    <3>4. \A i \in 0..p-1 : g[i] = f[i] /\ f[i] = Step(f, i)
      <4>1. \A i \in 0..p-1 : i \in 0..p /\ i # p
        OBVIOUS
      <4>2. f = [i \in 0..p-1 |-> Step(f, i)]
        BY <3>1, <3>2, Zenon
      <4>3. QED
        BY <3>3, <4>1, <4>2, Zenon
    <3>5. g[p] = Step(f, p) /\ f[p-1] = g[p-1]
      BY <3>3, <3>4
    <3>6. \A i \in 0..p : g[i] = Step(g, i)
      <4>1. ASSUME NEW i \in 1..p PROVE Step(f, i) = Step(g, i)
        <5>1. i - 1 \in 0..p-1 /\ i \in 1..n
          OBVIOUS
        <5>2. f[i-1] = g[i-1]
          BY <3>4, <5>1
        <5>3. QED
          BY <1>4, <5>1, <5>2
      <4>2. Step(f, 0) = Step(g, 0)
        BY DEF Step
      <4>3. \A i \in 0..p : i = 0 \/ i \in 1..p
        OBVIOUS
      <4>4. \A i \in 0..p : i = p \/ i \in 0..p-1
        OBVIOUS
      <4>5. QED
        BY <3>4, <3>5, <4>1, <4>2, <4>3, <4>4, Zenon
    <3>7. g = [i \in 0..p |-> Step(g, i)]
      BY <3>3, <3>6
    <3>8. QED
      BY <3>2, <3>7
  <2>3. 0..n \subseteq T
    <3> HIDE DEF T
    <3>1. QED
      BY <2>1, <2>2, CountingUp
  <2>4. n \in T
    <3> HIDE DEF T
    <3>1. QED
      BY <2>3
  <2>5. QED
    BY <2>4
<1>6. after = CHOOSE f : f = [i \in 0..n |-> Step(f, i)]
  BY <1>1, Zenon
<1>7. Initial(h) = after[n]
  BY <1>1, Zenon DEF Initial
<1> HIDE DEF Step, after
<1>8. after = [i \in 0..n |-> Step(after, i)]
  BY <1>5, <1>6, Zenon
<1>9. after[0] = [str |-> <<>>, atom |-> <<>>]
  BY <1>8 DEF Step
<1>10. \A i \in 1..n : after[i] = Define(after[i-1], h, Reserved[i].atom, Reserved[i].str)
  BY <1>8 DEF Step
<1> DEFINE T == {m \in 0..n : IsTable(after[m]) /\ Defining(after[m], h, m)}
<1>11. 0 \in T
  <2>1. ReservedGifts(0) = {}
    BY DEF ReservedGifts
  <2>2. IsTable(after[0]) /\ after[0].str = <<>> /\ after[0].atom = <<>>
    BY <1>9 DEF IsTable
  <2>3. Trees(<<>>, <<>>) /\ Holds(<<>>, <<>>, h.str, h.atom, {})
    BY <1>3, NoTrees
  <2>4. Defining(after[0], h, 0)
    BY <2>1, <2>2, <2>3 DEF Defining
  <2>5. QED
    BY <2>2, <2>4
<1>12. ASSUME NEW m \in 0..n-1, m \in T PROVE m + 1 \in T
  <2>1. PICK p \in 1..n : p = m + 1 /\ m = p - 1
    OBVIOUS
  <2>2. PICK t, S : t = after[m] /\ S = ReservedGifts(m)
    OBVIOUS
  <2>3. Trees(t.str, t.atom) /\ Holds(t.str, t.atom, h.str, h.atom, S)
    BY <1>12, <2>2 DEF Defining
  <2>4. PICK a \in Atoms, s \in Strings : a = Reserved[p].atom /\ s = Reserved[p].str
    BY <1>2
  <2>5. \A j \in 1..m : /\ j \in 1..n /\ j # p
                        /\ Reserved[j].atom # a /\ Reserved[j].str # s
    <3>1. \A j \in 1..m : j \in 1..n /\ j # p
      BY <2>1
    <3>2. QED
      BY <1>1, <2>4, <3>1, AtomAssumptions, Zenon
  <2>6. \A g \in S : /\ g \in Records /\ g.atom # a /\ g.str # s
    <3>1. ASSUME NEW j \in 1..m, NEW g, g = Gift(Reserved[j].atom, Reserved[j].str, FALSE)
          PROVE  g \in Records /\ g.atom # a /\ g.str # s
      <4>1. Reserved[j].atom \in Atoms /\ Reserved[j].str \in Strings
        BY <1>2, <2>5
      <4>2. g.atom = Reserved[j].atom /\ g.str = Reserved[j].str /\ g \in Records
        BY <3>1, <4>1 DEF Gift, Records
      <4>3. QED
        BY <2>5, <4>2
    <3>2. QED
      BY <2>2, <3>1, Zenon DEF ReservedGifts
  <2>7. StrItem(t.str, h.str, s) = Unknown
    BY <2>3, <2>6 DEF Holds, Gift
  <2>8. after[p] = Define(t, h, a, s)
    BY <1>10, <2>1, <2>2, <2>4
  <2>9. PICK x, y : x = InsertItem(t.str, s, a, h.str[s]) /\ y = InsertItem(t.atom, a, s, h.atom[a])
    OBVIOUS
  <2>10. after[p] = [str |-> x, atom |-> y]
    BY <2>8, <2>9 DEF Define
  <2>11. IsTable(after[p]) /\ after[p].str = x /\ after[p].atom = y
    BY <2>10 DEF IsTable
  <2>12. S \in SUBSET Records
    BY <2>6
  <2>13. Trees(x, y) /\ Holds(x, y, h.str, h.atom, S \cup {Gift(a, s, FALSE)})
    <3>1. \A g \in S : g.atom # a /\ g.str # s
      BY <2>6, Zenon
    <3>2. QED
      <4>1. PICK hs, ha, u, w : hs = h.str /\ ha = h.atom /\ u = t.str /\ w = t.atom
        OBVIOUS
      <4>2. hs \in [Strings -> Nat] /\ ha \in [Atoms -> Nat]
        BY <1>3, <4>1
      <4>3. S \in SUBSET Records /\ Trees(u, w) /\ Holds(u, w, hs, ha, S)
        BY <2>3, <2>12, <4>1, Zenon
      <4>4. StrItem(u, hs, s) = Unknown /\ \A g \in S : g.atom # a
        BY <2>7, <3>1, <4>1, Zenon
      <4>5. x = InsertItem(u, s, a, hs[s]) /\ y = InsertItem(w, a, s, ha[a])
        BY <2>9, <4>1, Zenon
      <4>6. Answering(x, y, hs, ha, S \cup {Gift(a, s, FALSE)})
        BY <4>2, <4>3, <4>4, <4>5, Defined, Zenon
      <4>7. QED
        BY <4>1, <4>6, Zenon DEF Answering
  <2>14. ReservedGifts(p) = S \cup {Gift(a, s, FALSE)}
    <3>1. 1..p = (1..m) \cup {p}
      BY <2>1
    <3>2. QED
      BY <2>2, <2>4, <3>1, Zenon DEF ReservedGifts
  <2>15. IsTable(after[p]) /\ Defining(after[p], h, p)
    BY <2>11, <2>13, <2>14 DEF Defining
  <2>16. QED
    BY <2>1, <2>15
<1>13. 0..n \subseteq T
  <2> HIDE DEF T
  <2>1. QED
    BY <1>11, <1>12, CountingUp
<1>14. n \in T
  <2> HIDE DEF T
  <2>1. QED
    BY <1>13
<1>15. QED
  BY <1>1, <1>7, <1>14

-----------------------------------------------------------------------------
(* The inductive invariant: the trees are trees and hold what was given, and *)
(* nothing was given with an atom that is still to be made.                  *)
AtomInv ==
  /\ hash \in [str : [Strings -> Nat], atom : [Atoms -> Nat]]
  /\ nextAtom \in FirstAtom..MaxAtom+1
  /\ given \in SUBSET Records
  /\ \A g \in given : g.atom < nextAtom
  /\ IsTable(trees)
  /\ Trees(trees.str, trees.atom)
  /\ Holds(trees.str, trees.atom, hash.str, hash.atom, given)

LEMMA AtomStart == AtomInit => AtomInv
<1>1. SUFFICES ASSUME AtomInit PROVE AtomInv
  OBVIOUS
<1>2. hash \in [str : [Strings -> Nat], atom : [Atoms -> Nat]]
  BY <1>1, AtomAssumptions DEF AtomInit, Atoms
<1>3. IsTable(trees) /\ Defining(trees, hash, Len(Reserved))
  BY <1>1, <1>2, ReservedDefined DEF AtomInit
<1>4. PICK n \in Nat : n = Len(Reserved) /\ DOMAIN Reserved = 1..n
  BY AtomAssumptions
<1>5. given = ReservedGifts(n)
  BY <1>1, <1>4, Zenon DEF AtomInit, ReservedGifts, Gift
<1>6. nextAtom = FirstAtom /\ FirstAtom \in FirstAtom..MaxAtom+1
  BY <1>1, AtomAssumptions DEF AtomInit
<1>7. ASSUME NEW g \in given PROVE g \in Records /\ g.atom < nextAtom
  <2>1. PICK j \in 1..n : g = Gift(Reserved[j].atom, Reserved[j].str, FALSE)
    BY <1>5 DEF ReservedGifts
  <2>2. PICK X : X = [atom : 0..FirstAtom-1, str : Strings]
    OBVIOUS
  <2>3. Reserved \in Seq(X)
    BY <2>2, AtomAssumptions
  <2>4. Reserved[j] \in X
    BY <1>4, <2>3
  <2>5. Reserved[j].atom \in 0..FirstAtom-1 /\ Reserved[j].str \in Strings
    BY <2>2, <2>4
  <2>6. Reserved[j].atom \in Atoms /\ Reserved[j].atom < FirstAtom
    BY <2>5, AtomAssumptions DEF Atoms
  <2>7. g.atom = Reserved[j].atom /\ g \in Records
    BY <2>1, <2>5, <2>6 DEF Gift, Records
  <2>8. QED
    BY <1>6, <2>6, <2>7
<1>8. QED
  BY <1>2, <1>3, <1>4, <1>5, <1>6, <1>7 DEF AtomInv, Defining

LEMMA StringToAtomStep ==
  ASSUME AtomInv, NEW s \in Strings, StringToAtom(s)
  PROVE  AtomInv'
<1>1. hash' = hash /\ hash.str \in [Strings -> Nat] /\ hash.atom \in [Atoms -> Nat]
  BY DEF AtomInv, StringToAtom
<1>2. PICK k : k = StrItem(trees.str, hash.str, s)
  OBVIOUS
<1>3. AtomOf(s) = k
  BY <1>2 DEF AtomOf, StrItem
<1>4. PICK a : a = IF k = Unknown THEN nextAtom ELSE k
  OBVIOUS
<1>5. /\ a <= MaxAtom
      /\ k = Unknown => trees' = Define(trees, hash, a, s) /\ nextAtom' = nextAtom + 1
      /\ k # Unknown => UNCHANGED <<trees, nextAtom>>
      /\ given' = given \cup {Gift(a, s, FALSE)}
  BY <1>3, <1>4 DEF StringToAtom, Gift
<1>6. CASE k # Unknown
  <2>1. Gift(a, s, FALSE) \in given
    BY <1>2, <1>4, <1>6 DEF AtomInv, Holds
  <2>2. given' = given
    BY <1>5, <2>1
  <2>3. QED
    BY <1>1, <1>5, <1>6, <2>2 DEF AtomInv
<1>7. CASE k = Unknown
  <2>1. a = nextAtom /\ a \in Atoms /\ nextAtom \in Nat /\ nextAtom' = nextAtom + 1
        /\ nextAtom' \in FirstAtom..MaxAtom+1
    BY <1>4, <1>5, <1>7, AtomAssumptions DEF AtomInv, Atoms
  <2>2. \A g \in given : g.atom # a /\ g.atom \in Nat /\ g.atom < nextAtom
    BY <2>1 DEF AtomInv, Records, Atoms
  <2>3. PICK x, y : x = InsertItem(trees.str, s, a, hash.str[s]) /\ y = InsertItem(trees.atom, a, s, hash.atom[a])
    OBVIOUS
  <2>4. trees' = [str |-> x, atom |-> y]
    BY <1>5, <1>7, <2>3 DEF Define
  <2>5. IsTable(trees') /\ trees'.str = x /\ trees'.atom = y
    BY <2>4 DEF IsTable
  <2>6. /\ Trees(trees.str, trees.atom) /\ given \in SUBSET Records
        /\ Holds(trees.str, trees.atom, hash.str, hash.atom, given)
    BY DEF AtomInv
  <2>7. Trees(x, y) /\ Holds(x, y, hash.str, hash.atom, given')
    <3>1. StrItem(trees.str, hash.str, s) = Unknown /\ \A g \in given : g.atom # a
      BY <1>2, <1>7, <2>2
    <3>2. a \in Atoms
      BY <2>1
    <3>3. Answering(x, y, hash.str, hash.atom, given \cup {Gift(a, s, FALSE)})
      BY <1>1, <2>3, <2>6, <3>1, <3>2, Defined, Zenon
    <3>4. QED
      BY <1>5, <3>3, Zenon DEF Answering
  <2>8. PICK f : f = Gift(a, s, FALSE) /\ f \in Records /\ f.atom = a
    <3>1. FALSE \in BOOLEAN /\ a \in Atoms
      BY <2>1
    <3>2. Gift(a, s, FALSE) \in Records /\ Gift(a, s, FALSE).atom = a
      BY <3>1, GiftParts, Zenon
    <3>3. QED
      BY <3>2, Zenon
  <2>9. given' \in SUBSET Records /\ \A g \in given' : g.atom < nextAtom'
    <3>1. \A g \in given' : g \in given \/ g = f
      BY <1>5, <2>8
    <3>2. f.atom < nextAtom'
      <4>1. a < nextAtom'
        BY <2>1
      <4>2. QED
        BY <2>8, <4>1, Zenon
    <3>3. \A g \in given : g.atom < nextAtom'
      BY <2>1, <2>2
    <3>4. QED
      BY <2>6, <2>8, <3>1, <3>2, <3>3, Zenon
  <2>10. QED
    BY <1>1, <2>1, <2>5, <2>7, <2>9 DEF AtomInv
<1>8. QED
  BY <1>6, <1>7

LEMMA UniqueAtomStep ==
  ASSUME AtomInv, NEW s \in Strings, UniqueAtom(s)
  PROVE  AtomInv'
<1>1. hash' = hash /\ hash.str \in [Strings -> Nat] /\ hash.atom \in [Atoms -> Nat]
  BY DEF AtomInv, UniqueAtom
<1>2. PICK a : a = nextAtom
  OBVIOUS
<1>3. /\ a \in Atoms /\ nextAtom \in Nat /\ nextAtom' = nextAtom + 1
      /\ nextAtom' \in FirstAtom..MaxAtom+1
      /\ given' = given \cup {Gift(a, s, TRUE)}
  BY <1>2, AtomAssumptions DEF AtomInv, UniqueAtom, Atoms, Gift
<1>4. \A g \in given : g.atom # a /\ g.atom \in Nat /\ g.atom < nextAtom
  BY <1>2 DEF AtomInv, Records, Atoms
<1>5. PICK x, y : x = trees.str /\ y = InsertItem(trees.atom, a, s, hash.atom[a])
  OBVIOUS
<1>6. trees' = [trees EXCEPT !.atom = y] /\ IsTable(trees)
  BY <1>2, <1>5 DEF UniqueAtom, AtomInv
<1>7. IsTable(trees') /\ trees'.str = x /\ trees'.atom = y
  <2>1. trees' = [str |-> x, atom |-> y]
    BY <1>5, <1>6 DEF IsTable
  <2>2. QED
    BY <2>1 DEF IsTable
<1>8. /\ Trees(trees.str, trees.atom) /\ given \in SUBSET Records
      /\ Holds(trees.str, trees.atom, hash.str, hash.atom, given)
  BY DEF AtomInv
<1>9. Trees(x, y) /\ Holds(x, y, hash.str, hash.atom, given')
  BY <1>1, <1>3, <1>4, <1>5, <1>8, UniqueDefined, Zenon
<1>10. PICK f : f = Gift(a, s, TRUE) /\ f \in Records /\ f.atom = a
  <2>1. TRUE \in BOOLEAN /\ a \in Atoms
    BY <1>3
  <2>2. Gift(a, s, TRUE) \in Records /\ Gift(a, s, TRUE).atom = a
    BY <2>1, GiftParts, Zenon
  <2>3. QED
    BY <2>2, Zenon
<1>11. given' \in SUBSET Records /\ \A g \in given' : g.atom < nextAtom'
  <2>1. \A g \in given' : g \in given \/ g = f
    BY <1>3, <1>10
  <2>2. f.atom < nextAtom'
    <3>1. a < nextAtom'
      BY <1>2, <1>3
    <3>2. QED
      BY <1>10, <3>1, Zenon
  <2>3. \A g \in given : g.atom < nextAtom'
    BY <1>3, <1>4
  <2>4. QED
    BY <1>8, <1>10, <2>1, <2>2, <2>3, Zenon
<1>12. QED
  BY <1>1, <1>3, <1>7, <1>9, <1>11 DEF AtomInv

(* The trees hold exactly what clients were given, and new atoms are new.    *)
THEOREM AtomInvariant == AtomSpec => []AtomInv
<1>1. AtomInit => AtomInv
  BY AtomStart
<1>2. AtomInv /\ [AtomNext]_atomVars => AtomInv'
  <2>1. SUFFICES ASSUME AtomInv, [AtomNext]_atomVars PROVE AtomInv'
    OBVIOUS
  <2>2. CASE UNCHANGED atomVars
    BY <2>1, <2>2 DEF atomVars, AtomInv
  <2>3. ASSUME NEW s \in Strings, StringToAtom(s) PROVE AtomInv'
    BY <2>1, <2>3, StringToAtomStep
  <2>4. ASSUME NEW s \in Strings, UniqueAtom(s) PROVE AtomInv'
    BY <2>1, <2>4, UniqueAtomStep
  <2>5. QED
    BY <2>1, <2>2, <2>3, <2>4 DEF AtomNext
<1>3. QED
  BY <1>1, <1>2, PTL DEF AtomSpec

(* An atom has the string it was made from for good, a string leads to one   *)
(* atom and never to one that was made as unique, for every pair of hash     *)
(* functions, however many keys collide (atom.c:25-75, hash_tree.h:58-98).   *)
THEOREM AtomsAlwaysAgree == AtomSpec => []AtomsAgree
<1>1. AtomInv => AtomsAgree
  BY DEF AtomInv, Holds, AtomsAgree, StringOf, AtomOf, AtomItem, StrItem, Gift
<1>2. QED
  BY <1>1, AtomInvariant, PTL

(* What an atom stands for never changes, nor does the atom that a string    *)
(* was given: a step only adds to the trees (atom.c:43-75).                  *)
AtomsStable ==
  [][\A g \in given : /\ StringOf(g.atom)' = StringOf(g.atom)
                      /\ ~g.unique => AtomOf(g.str)' = AtomOf(g.str)]_atomVars

THEOREM AtomsAreStable == AtomSpec => AtomsStable
<1>1. AtomInv /\ AtomInv' /\ [AtomNext]_atomVars =>
        [\A g \in given : /\ StringOf(g.atom)' = StringOf(g.atom)
                          /\ ~g.unique => AtomOf(g.str)' = AtomOf(g.str)]_atomVars
  <2>1. SUFFICES ASSUME AtomInv, AtomInv', AtomNext, NEW g \in given
                 PROVE  /\ StringOf(g.atom)' = StringOf(g.atom)
                        /\ ~g.unique => AtomOf(g.str)' = AtomOf(g.str)
    OBVIOUS
  <2>2. g \in given'
    BY <2>1 DEF AtomNext, StringToAtom, UniqueAtom
  <2>3. StringOf(g.atom) = g.str /\ (~g.unique => AtomOf(g.str) = g.atom)
    BY <2>1 DEF AtomInv, Holds, StringOf, AtomOf, AtomItem, StrItem
  <2>4. StringOf(g.atom)' = g.str /\ (~g.unique => AtomOf(g.str)' = g.atom)
    BY <2>1, <2>2 DEF AtomInv, Holds, StringOf, AtomOf, AtomItem, StrItem
  <2>5. QED
    BY <2>3, <2>4
<1>2. QED
  BY <1>1, AtomInvariant, PTL DEF AtomSpec, AtomsStable

-----------------------------------------------------------------------------
(* What makes a capacity good for triangular probing is that it shares no    *)
(* factor with an odd number: powers of 2 do not.                            *)
OddCancels(c) ==
  \A a, b, m \in Nat : (2 * a + 1) * b = c * m => \E k \in Nat : b = c * k

LEMMA OneCancels == OddCancels(1)
<1>1. ASSUME NEW b \in Nat PROVE \E k \in Nat : b = 1 * k
  OBVIOUS
<1>2. QED
  BY <1>1 DEF OddCancels

LEMMA DoubleCancels ==
  ASSUME NEW c \in Nat \ {0}, OddCancels(c)
  PROVE  OddCancels(2 * c)
<1>1. ASSUME NEW a \in Nat, NEW b \in Nat, NEW m \in Nat, (2 * a + 1) * b = (2 * c) * m
      PROVE  \E k \in Nat : b = (2 * c) * k
  <2>1. (2 * a + 1) * b = c * (2 * m) /\ 2 * m \in Nat
    <3>1. (2 * c) * m = c * (2 * m) /\ 2 * m \in Nat
      OBVIOUS
    <3>2. QED
      BY <1>1, <3>1
  <2>2. PICK k \in Nat : b = c * k
    <3>1. \A n \in Nat : (2 * a + 1) * b = c * n => \E k \in Nat : b = c * k
      BY DEF OddCancels
    <3>2. QED
      BY <2>1, <3>1
  <2>3. c * ((2 * a + 1) * k) = c * (2 * m)
    <3>1. (2 * a + 1) * (c * k) = c * ((2 * a + 1) * k)
      OBVIOUS
    <3>2. QED
      BY <2>1, <2>2, <3>1
  <2>4. (2 * a + 1) * k = 2 * m
    <3>1. \A x, y \in Nat : c * x = c * y => x = y
      OBVIOUS
    <3>2. (2 * a + 1) * k \in Nat
      OBVIOUS
    <3>3. QED
      BY <2>1, <2>3, <3>1, <3>2
  <2>5. PICK n \in Nat : n = a * k /\ (2 * a + 1) * k = 2 * n + k
    <3>1. (2 * a + 1) * k = 2 * (a * k) + k /\ a * k \in Nat
      OBVIOUS
    <3>2. QED
      BY <3>1
  <2>6. k = 2 * (m - n) /\ m - n \in Nat
    BY <2>4, <2>5
  <2>7. (2 * c) * (m - n) = c * (2 * (m - n))
    BY <2>6
  <2>8. QED
    BY <2>2, <2>6, <2>7
<1>2. QED
  BY <1>1 DEF OddCancels

LEMMA Division ==
  ASSUME NEW c \in Nat \ {0}, NEW x \in Nat
  PROVE  \E q, r \in Nat : x = c * q + r /\ r < c /\ r = x % c
<1>1. x \div c \in Nat /\ x % c \in Nat /\ x = (x \div c) * c + (x % c) /\ x % c < c
  OBVIOUS
<1>2. PICK q, r \in Nat : q = x \div c /\ r = x % c
  BY <1>1
<1>3. x = q * c + r /\ r < c
  BY <1>1, <1>2
<1>4. q * c = c * q
  OBVIOUS
<1>5. QED
  BY <1>2, <1>3, <1>4

LEMMA SameRemainder ==
  ASSUME NEW c \in Nat \ {0}, NEW x \in Nat, NEW y \in Nat, x <= y, x % c = y % c
  PROVE  \E m \in Nat : y - x = c * m
<1>1. PICK q, r \in Nat : x = c * q + r /\ r < c /\ r = x % c
  BY Division
<1>2. PICK s, t \in Nat : y = c * s + t /\ t < c /\ t = y % c
  BY Division
<1>3. r = t
  BY <1>1, <1>2
<1>4. q <= s
  <2>1. SUFFICES ASSUME s < q PROVE FALSE
    OBVIOUS
  <2>2. PICK d \in Nat : q = s + (d + 1)
    <3>1. q - s - 1 \in Nat /\ q = s + ((q - s - 1) + 1)
      BY <2>1
    <3>2. QED
      BY <3>1
  <2>3. c * (s + (d + 1)) = c * s + (c * d + c) /\ c * d \in Nat /\ c * s \in Nat
    OBVIOUS
  <2>4. PICK u, v \in Nat : u = c * s /\ v = c * d
    BY <2>3
  <2>5. x = u + (v + c) + r /\ y = u + r
    BY <1>1, <1>2, <1>3, <2>2, <2>3, <2>4
  <2>6. QED
    BY <2>5
<1>5. PICK m \in Nat : s = q + m
  <2>1. s - q \in Nat /\ s = q + (s - q)
    BY <1>4
  <2>2. QED
    BY <2>1
<1>6. c * (q + m) = c * q + c * m /\ c * q \in Nat /\ c * m \in Nat
  OBVIOUS
<1>7. PICK u, v \in Nat : u = c * q /\ v = c * m
  BY <1>6
<1>8. x = u + r /\ y = u + v + r
  BY <1>1, <1>2, <1>3, <1>5, <1>6, <1>7
<1>9. y - x = v
  BY <1>8
<1>10. QED
  BY <1>7, <1>9

-----------------------------------------------------------------------------
(* The probes of a search in a table of capacity c, and where they are.      *)
Triangle(i) == (i + i * i) \div 2
Probe(c, h, i) == (h + Triangle(i)) % c

LEMMA TriangleIsHalf ==
  ASSUME NEW i \in Nat
  PROVE  Triangle(i) \in Nat /\ 2 * Triangle(i) = i + i * i
<1>1. PICK n \in Nat : n = i + i * i
  BY i * i \in Nat
<1>2. \E k \in Nat : n = 2 * k
  <2>1. CASE i % 2 = 0
    <3>1. PICK j \in Nat : i = 2 * j
      BY <2>1
    <3>2. i + i * i = 2 * (j + j * i) /\ j + j * i \in Nat
      BY <3>1
    <3>3. QED
      BY <1>1, <3>2
  <2>2. CASE i % 2 = 1
    <3>1. PICK j \in Nat : i = 2 * j + 1
      BY <2>2
    <3>2. i + i * i = i * (1 + i) /\ 1 + i = 2 * (j + 1)
      BY <3>1
    <3>3. i * (2 * (j + 1)) = 2 * (i * (j + 1)) /\ i * (j + 1) \in Nat
      OBVIOUS
    <3>4. QED
      BY <1>1, <3>2, <3>3
  <2>3. QED
    BY <2>1, <2>2
<1>3. PICK k \in Nat : n = 2 * k
  BY <1>2
<1>4. n \div 2 = k
  BY <1>3
<1>5. Triangle(i) = k
  BY <1>1, <1>4 DEF Triangle
<1>6. QED
  BY <1>1, <1>3, <1>5

LEMMA TrianglesGrow ==
  ASSUME NEW i \in Nat, NEW d \in Nat
  PROVE  2 * Triangle(i + d) = 2 * Triangle(i) + d * (i + d + i + 1)
<1>1. i + d \in Nat
  OBVIOUS
<1>2. 2 * Triangle(i) = i + i * i /\ 2 * Triangle(i + d) = (i + d) + (i + d) * (i + d)
  BY <1>1, TriangleIsHalf
<1>3. (i + d) + (i + d) * (i + d) = (i + i * i) + d * (i + d + i + 1)
  OBVIOUS
<1>4. QED
  BY <1>2, <1>3

(* When c divides a product, its factors that are not odd are 0 or at least c.*)
LEMMA OddFactor ==
  ASSUME NEW c \in Nat \ {0}, OddCancels(c), NEW x \in Nat, NEW y \in Nat, NEW m \in Nat,
         x * y = c * m, x % 2 = 1, y > 0
  PROVE  y >= c
<1>1. PICK a \in Nat : x = 2 * a + 1
  <2>1. PICK q, r \in Nat : x = 2 * q + r /\ r < 2 /\ r = x % 2
    BY Division
  <2>2. QED
    BY <2>1
<1>2. (2 * a + 1) * y = c * m
  BY <1>1
<1>3. PICK k \in Nat : y = c * k
  <2>1. \A b, n \in Nat : (2 * a + 1) * b = c * n => \E k \in Nat : b = c * k
    BY DEF OddCancels
  <2>2. QED
    BY <1>2, <2>1
<1>4. k # 0
  <2>1. SUFFICES ASSUME k = 0 PROVE FALSE
    OBVIOUS
  <2>2. c * 0 = 0
    OBVIOUS
  <2>3. QED
    BY <1>3, <2>1, <2>2
<1>5. PICK j \in Nat : k = j + 1
  <2>1. k - 1 \in Nat /\ k = (k - 1) + 1
    BY <1>4
  <2>2. QED
    BY <2>1
<1>6. c * (j + 1) = c * j + c /\ c * j \in Nat
  OBVIOUS
<1>7. QED
  BY <1>3, <1>5, <1>6

(* Up to the capacity, no two probes of a key are the same.                  *)
LEMMA ProbesDiffer ==
  ASSUME NEW c \in Nat \ {0}, OddCancels(c), NEW h \in Nat, NEW i \in 0..c-1, NEW j \in 0..c-1, i < j
  PROVE  Probe(c, h, i) # Probe(c, h, j)
<1> SUFFICES ASSUME Probe(c, h, i) = Probe(c, h, j) PROVE FALSE
  OBVIOUS
<1>1. PICK d \in Nat \ {0} : j = i + d
  <2>1. j - i \in Nat \ {0} /\ j = i + (j - i)
    OBVIOUS
  <2>2. QED
    BY <2>1
<1>2. PICK s \in Nat : s = i + d + i + 1
  OBVIOUS
<1>3. PICK t, u, e \in Nat : /\ t = Triangle(i) /\ u = Triangle(j)
                            /\ e = d * s /\ 2 * u = 2 * t + e
  <2>1. Triangle(i) \in Nat /\ Triangle(j) \in Nat
    BY TriangleIsHalf
  <2>2. 2 * Triangle(j) = 2 * Triangle(i) + d * s
    BY <1>1, <1>2, TrianglesGrow
  <2>3. d * s \in Nat
    OBVIOUS
  <2>4. QED
    BY <2>1, <2>2, <2>3
<1>4. h + t \in Nat /\ h + u \in Nat /\ h + t <= h + u
  BY <1>3
<1>5. (h + t) % c = (h + u) % c
  BY <1>3 DEF Probe
<1>6. PICK m \in Nat : (h + u) - (h + t) = c * m
  BY <1>4, <1>5, SameRemainder
<1>7. e = 2 * (c * m) /\ c * m \in Nat
  BY <1>3, <1>6
<1>8. PICK n \in Nat \ {0} : n = 2 * c
  OBVIOUS
<1>9. d * s = n * m /\ s * d = n * m
  <2>1. 2 * (c * m) = (2 * c) * m /\ d * s = s * d
    OBVIOUS
  <2>2. QED
    BY <1>3, <1>7, <1>8, <2>1
<1>10. OddCancels(n)
  BY <1>8, DoubleCancels
<1>11. d < n /\ s < n /\ d > 0 /\ s > 0
  BY <1>1, <1>2, <1>8
<1>12. d % 2 = 1 \/ s % 2 = 1
  BY <1>1, <1>2
<1>13. CASE d % 2 = 1
  <2>1. s >= n
    BY <1>9, <1>10, <1>11, <1>13, OddFactor
  <2>2. QED
    BY <1>11, <2>1
<1>14. CASE s % 2 = 1
  <2>1. d >= n
    BY <1>9, <1>10, <1>11, <1>14, OddFactor
  <2>2. QED
    BY <1>11, <2>1
<1>15. QED
  BY <1>12, <1>13, <1>14

-----------------------------------------------------------------------------
(* Tables.  An entry that counts can be reached from its key: no empty entry *)
(* is met before it, within the distance that searches are bounded by.       *)
TableEntry == [key : Keys, val : Values, deleted : BOOLEAN]
ValidAt(es) == {i \in DOMAIN es : IsValid(es[i])}
Reached(es, c, probe, h, i) ==
  \E p \in 0..c-1 : /\ p < probe /\ Probe(c, h, p) = i
                    /\ \A q \in 0..p-1 : es[Probe(c, h, q)] # Empty
GoodTable(es, c, probe, hs) ==
  /\ c > 0 => OddCancels(c)
  /\ es \in [0..c-1 -> TableEntry \cup {Empty}]
  /\ probe \in Nat
  /\ \A i \in ValidAt(es) : Reached(es, c, probe, hs[es[i].key], i)
  /\ \A i, j \in ValidAt(es) : es[i].key = es[j].key => i = j

LEMMA ProbeInTable ==
  ASSUME NEW c \in Nat \ {0}, NEW h \in Nat, NEW i \in Nat
  PROVE  Probe(c, h, i) \in 0..c-1
<1>1. PICK t \in Nat : t = Triangle(i)
  BY TriangleIsHalf
<1>2. PICK q, r \in Nat : r < c /\ r = (h + t) % c
  <2>1. h + t \in Nat
    OBVIOUS
  <2>2. QED
    BY <2>1, Division
<1>3. QED
  BY <1>1, <1>2 DEF Probe

LEMMA TableParts ==
  ASSUME NEW c \in Nat, NEW es \in [0..c-1 -> TableEntry \cup {Empty}]
  PROVE  /\ DOMAIN es = 0..c-1 /\ Capacity(es) = c
         /\ \A h, i : ElemIndex(es, h, i) = Probe(c, h, i)
         /\ IsFiniteSet(ValidAt(es)) /\ Cardinality(ValidAt(es)) \in 0..c
         /\ \A i \in ValidAt(es) : /\ i \in 0..c-1 /\ es[i] \in TableEntry
                                   /\ es[i].key \in Keys /\ es[i].val \in Values
<1>1. DOMAIN es = 0..c-1
  OBVIOUS
<1>2. IsFiniteSet(0..c-1) /\ Cardinality(0..c-1) = c
  <2>1. 0 \in Int /\ c - 1 \in Int /\ (IF 0 > c - 1 THEN 0 ELSE c - 1 - 0 + 1) = c
    OBVIOUS
  <2>2. IsFiniteSet(0..c-1) /\ Cardinality(0..c-1) = IF 0 > c - 1 THEN 0 ELSE c - 1 - 0 + 1
    BY <2>1, FS_Interval
  <2>3. QED
    BY <2>1, <2>2
<1>3. Capacity(es) = c
  BY <1>1, <1>2 DEF Capacity
<1>4. \A h, i : ElemIndex(es, h, i) = Probe(c, h, i)
  BY <1>3, Zenon DEF ElemIndex, Probe, Triangle
<1>5. ValidAt(es) \in SUBSET (0..c-1)
  BY <1>1, Zenon DEF ValidAt
<1>6. /\ IsFiniteSet(ValidAt(es)) /\ Cardinality(ValidAt(es)) \in Nat
      /\ Cardinality(ValidAt(es)) <= c
  <2>1. IsFiniteSet(ValidAt(es)) /\ Cardinality(ValidAt(es)) <= Cardinality(0..c-1)
    BY <1>2, <1>5, FS_Subset
  <2>2. QED
    BY <1>2, <2>1, FS_CardinalityType
<1>7. ASSUME NEW i \in ValidAt(es)
      PROVE  /\ i \in 0..c-1 /\ es[i] \in TableEntry
             /\ es[i].key \in Keys /\ es[i].val \in Values
  <2>1. i \in 0..c-1 /\ es[i] # Empty
    BY <1>1, Zenon DEF ValidAt, IsValid
  <2>2. es[i] \in TableEntry
    BY <2>1
  <2>3. QED
    BY <2>1, <2>2 DEF TableEntry
<1>8. QED
  BY <1>1, <1>3, <1>4, <1>6, <1>7

(* A search for a place ends, however many entries were removed before: the  *)
(* probes come to every index of the table, and one of them is free.         *)
LEMMA RoomFound ==
  ASSUME NEW c \in Nat \ {0}, OddCancels(c), NEW es \in [0..c-1 -> TableEntry \cup {Empty}],
         Cardinality(ValidAt(es)) < c, NEW h \in Nat
  PROVE  \E i \in 0..c-1 : Probe(c, h, i) \notin ValidAt(es)
<1> SUFFICES ASSUME \A i \in 0..c-1 : Probe(c, h, i) \in ValidAt(es) PROVE FALSE
  OBVIOUS
<1> DEFINE f == [i \in 0..c-1 |-> Probe(c, h, i)]
<1>1. f \in [0..c-1 -> ValidAt(es)]
  OBVIOUS
<1>2. IsFiniteSet(0..c-1) /\ Cardinality(0..c-1) = c
  <2>1. 0 \in Int /\ c - 1 \in Int /\ ~(0 > c - 1) /\ c - 1 - 0 + 1 = c
    OBVIOUS
  <2>2. QED
    BY <2>1, FS_Interval
<1>3. IsFiniteSet(ValidAt(es)) /\ Cardinality(ValidAt(es)) < Cardinality(0..c-1)
  BY <1>2, TableParts
<1> HIDE DEF f
<1>4. PICK i, j \in 0..c-1 : i # j /\ f[i] = f[j]
  BY <1>1, <1>2, <1>3, FS_PigeonHole
<1>5. Probe(c, h, i) = Probe(c, h, j)
  BY <1>4, Zenon DEF f
<1>6. i < j \/ j < i
  BY <1>4
<1>7. QED
  BY <1>5, <1>6, ProbesDiffer

-----------------------------------------------------------------------------
(* _find.                                                                    *)
Met(es, k, i) == es[ElemIndex(es, hashOf[k], i)]
ProbeEnds(es, probe, k, i) == Met(es, k, i) = Empty \/ i > probe
Hits(es, k, i) == IsValid(Met(es, k, i)) /\ Met(es, k, i).key = k
Stops(es, probe, k) == {i \in DOMAIN es : ProbeEnds(es, probe, k, i) \/ Hits(es, k, i)}
FirstOf(S) == CHOOSE i \in S : \A j \in S : i <= j

LEMMA FindUnfolded ==
  ASSUME NEW es, NEW probe, NEW k, NEW first, first = FirstOf(Stops(es, probe, k))
  PROVE  Find(es, probe, k) =
           IF Stops(es, probe, k) = {} \/ (Stops(es, probe, k) # {} /\ ProbeEnds(es, probe, k, first))
           THEN MaxCapacity ELSE ElemIndex(es, hashOf[k], first)
<1>1. Find(es, probe, k) =
        IF Stops(es, probe, k) = {} \/ (Stops(es, probe, k) # {} /\ ProbeEnds(es, probe, k, FirstOf(Stops(es, probe, k))))
        THEN MaxCapacity ELSE ElemIndex(es, hashOf[k], FirstOf(Stops(es, probe, k)))
  BY DEF Find, FirstOf, Stops, ProbeEnds, Hits, Met
<1>2. QED
  BY <1>1, Zenon

LEMMA FirstIsSmallest ==
  ASSUME NEW S \in SUBSET Nat, S # {}
  PROVE  FirstOf(S) \in S /\ \A j \in S : FirstOf(S) <= j
<1>1. \E i \in S : \A j \in S : i <= j
  BY SmallestExists
<1>2. QED
  BY <1>1, Zenon DEF FirstOf

(* A search finds the entry of its key, if there is one.                     *)
LEMMA KeyFound ==
  ASSUME NEW c \in Nat, NEW es, NEW probe, GoodTable(es, c, probe, hashOf),
         hashOf \in [Keys -> Nat \ {0}], NEW k \in Keys,
         NEW i \in ValidAt(es), es[i].key = k
  PROVE  Find(es, probe, k) = i
<1>1. /\ es \in [0..c-1 -> TableEntry \cup {Empty}] /\ probe \in Nat
      /\ Reached(es, c, probe, hashOf[es[i].key], i)
      /\ \A j \in ValidAt(es) : es[j].key = es[i].key => j = i
  BY Zenon DEF GoodTable
<1>2. /\ DOMAIN es = 0..c-1 /\ \A h, j : ElemIndex(es, h, j) = Probe(c, h, j)
      /\ i \in 0..c-1 /\ hashOf[k] \in Nat
  BY <1>1, TableParts
<1>3. PICK p \in 0..c-1 : /\ p < probe /\ Probe(c, hashOf[k], p) = i
                          /\ \A q \in 0..p-1 : es[Probe(c, hashOf[k], q)] # Empty
  BY <1>1, Zenon DEF Reached
<1>4. IsValid(es[i]) /\ es[i] # Empty
  BY Zenon DEF ValidAt, IsValid
<1>5. \A j : Met(es, k, j) = es[Probe(c, hashOf[k], j)]
  BY <1>2, Zenon DEF Met
<1>6. p \in Stops(es, probe, k)
  <2>1. Hits(es, k, p)
    BY <1>3, <1>4, <1>5, Zenon DEF Hits
  <2>2. QED
    BY <1>2, <2>1, Zenon DEF Stops
<1>7. PICK first : first = FirstOf(Stops(es, probe, k))
  OBVIOUS
<1>8. first \in Stops(es, probe, k) /\ first <= p /\ first \in 0..c-1
  <2>1. Stops(es, probe, k) \in SUBSET (0..c-1)
    BY <1>2, Zenon DEF Stops
  <2>2. Stops(es, probe, k) \in SUBSET Nat /\ Stops(es, probe, k) # {}
    BY <1>6, <2>1
  <2>3. QED
    BY <1>6, <1>7, <2>1, <2>2, FirstIsSmallest
<1>9. ~ProbeEnds(es, probe, k, first)
  <2>1. ~(first > probe)
    BY <1>1, <1>3, <1>8
  <2>2. Met(es, k, first) # Empty
    <3>1. CASE first = p
      BY <1>3, <1>4, <1>5, <3>1, Zenon
    <3>2. CASE first # p
      <4>1. first \in 0..p-1
        BY <1>8, <3>2
      <4>2. QED
        BY <1>3, <1>5, <4>1, Zenon
    <3>3. QED
      BY <3>1, <3>2
  <2>3. QED
    BY <2>1, <2>2, Zenon DEF ProbeEnds
<1>10. Hits(es, k, first)
  BY <1>8, <1>9, Zenon DEF Stops
<1>11. Probe(c, hashOf[k], first) = i
  <2>1. Probe(c, hashOf[k], first) \in 0..c-1
    <3>1. first \in Nat /\ c \in Nat \ {0}
      BY <1>8
    <3>2. QED
      BY <1>2, <3>1, ProbeInTable
  <2>2. IsValid(es[Probe(c, hashOf[k], first)]) /\ es[Probe(c, hashOf[k], first)].key = k
    BY <1>5, <1>10, Zenon DEF Hits
  <2>3. Probe(c, hashOf[k], first) \in ValidAt(es)
    BY <1>2, <2>1, <2>2, Zenon DEF ValidAt
  <2>4. QED
    BY <1>1, <2>2, <2>3, Zenon
<1>12. Find(es, probe, k) = ElemIndex(es, hashOf[k], first)
  BY <1>6, <1>7, <1>9, FindUnfolded, Zenon
<1>13. QED
  BY <1>2, <1>11, <1>12, Zenon

LEMMA KeyNotFound ==
  ASSUME NEW c \in Nat, NEW es, NEW probe, GoodTable(es, c, probe, hashOf),
         hashOf \in [Keys -> Nat \ {0}], NEW k \in Keys,
         \A i \in ValidAt(es) : es[i].key # k
  PROVE  Find(es, probe, k) = MaxCapacity
<1>1. es \in [0..c-1 -> TableEntry \cup {Empty}]
  BY Zenon DEF GoodTable
<1>2. /\ DOMAIN es = 0..c-1 /\ \A h, j : ElemIndex(es, h, j) = Probe(c, h, j)
      /\ hashOf[k] \in Nat
  BY <1>1, TableParts
<1>3. PICK first : first = FirstOf(Stops(es, probe, k))
  OBVIOUS
<1>4. ASSUME Stops(es, probe, k) # {} PROVE ProbeEnds(es, probe, k, first)
  <2>1. Stops(es, probe, k) \in SUBSET (0..c-1)
    BY <1>2, Zenon DEF Stops
  <2>2. Stops(es, probe, k) \in SUBSET Nat
    BY <2>1
  <2>3. first \in Stops(es, probe, k) /\ first \in 0..c-1
    BY <1>3, <1>4, <2>1, <2>2, FirstIsSmallest
  <2>4. ProbeEnds(es, probe, k, first) \/ Hits(es, k, first)
    BY <2>3, Zenon DEF Stops
  <2>5. ~Hits(es, k, first)
    <3>1. SUFFICES ASSUME Hits(es, k, first) PROVE FALSE
      OBVIOUS
    <3>2. Probe(c, hashOf[k], first) \in 0..c-1
      <4>1. first \in Nat /\ c \in Nat \ {0}
        BY <2>3
      <4>2. QED
        BY <1>2, <4>1, ProbeInTable
    <3>3. IsValid(es[Probe(c, hashOf[k], first)]) /\ es[Probe(c, hashOf[k], first)].key = k
      BY <1>2, <3>1, Zenon DEF Hits, Met
    <3>4. Probe(c, hashOf[k], first) \in ValidAt(es)
      BY <1>2, <3>2, <3>3, Zenon DEF ValidAt
    <3>5. QED
      BY <3>3, <3>4, Zenon
  <2>6. QED
    BY <2>4, <2>5
<1>5. QED
  BY <1>3, <1>4, FindUnfolded, Zenon

-----------------------------------------------------------------------------
(* _insert.                                                                  *)
WithEntry(es, i, k, v) == [es EXCEPT ![i] = Entry(k, v)]

HasEntry(c, es, e2, i, k, v) ==
  /\ e2 \in [0..c-1 -> TableEntry \cup {Empty}]
  /\ e2[i] = Entry(k, v) /\ IsValid(e2[i]) /\ e2[i].key = k /\ e2[i].val = v
  /\ \A j \in 0..c-1 : j # i => e2[j] = es[j]
  /\ ValidAt(e2) = ValidAt(es) \cup {i}

LEMMA EntryPut ==
  ASSUME NEW c \in Nat, NEW es \in [0..c-1 -> TableEntry \cup {Empty}],
         NEW i \in 0..c-1, NEW k \in Keys, NEW v \in Values
  PROVE  HasEntry(c, es, WithEntry(es, i, k, v), i, k, v)
<1> DEFINE e2 == WithEntry(es, i, k, v)
<1>1. Entry(k, v) \in TableEntry /\ Entry(k, v) # Empty
  <2>1. Entry(k, v) \in TableEntry
    BY DEF Entry, TableEntry
  <2>2. QED
    BY <2>1, SetAssumptions, Zenon DEF TableEntry
<1>2. e2 \in [0..c-1 -> TableEntry \cup {Empty}] /\ DOMAIN e2 = 0..c-1 /\ DOMAIN es = 0..c-1
  BY <1>1 DEF WithEntry
<1>3. e2[i] = Entry(k, v) /\ \A j \in 0..c-1 : j # i => e2[j] = es[j]
  BY DEF WithEntry
<1>4. IsValid(Entry(k, v)) /\ Entry(k, v).key = k /\ Entry(k, v).val = v
  <2>1. ~Entry(k, v).deleted /\ Entry(k, v).key = k /\ Entry(k, v).val = v
    BY DEF Entry
  <2>2. QED
    BY <1>1, <2>1, Zenon DEF IsValid
<1> HIDE DEF e2
<1>5. ASSUME NEW j PROVE j \in ValidAt(e2) <=> j \in ValidAt(es) \cup {i}
  BY <1>2, <1>3, <1>4, Zenon DEF ValidAt
<1>6. ValidAt(e2) = ValidAt(es) \cup {i}
  BY <1>5, Zenon
<1>7. HasEntry(c, es, e2, i, k, v)
  BY <1>2, <1>3, <1>4, <1>6, Zenon DEF HasEntry
<1>8. QED
  BY <1>7, Zenon DEF e2

WasPut(c, es, probe, n, k, v, i, u) ==
  /\ i \notin ValidAt(es)
  /\ Put([es |-> es, n |-> n, probe |-> probe], k, v) = [es |-> WithEntry(es, i, k, v), n |-> n + 1, probe |-> u]
  /\ GoodTable(WithEntry(es, i, k, v), c, u, hashOf)
FreeProbes(es, k) == {i \in DOMAIN es : ~IsValid(es[ElemIndex(es, hashOf[k], i)])}

(* An entry is put where nothing that counts is lost, and can be reached.    *)
LEMMA PutGood ==
  ASSUME NEW c \in Nat \ {0}, NEW es, NEW probe, NEW n, GoodTable(es, c, probe, hashOf),
         hashOf \in [Keys -> Nat \ {0}],
         n = Cardinality(ValidAt(es)), n < c,
         NEW k \in Keys, NEW v \in Values, \A i \in ValidAt(es) : es[i].key # k
  PROVE  \E i \in 0..c-1, u \in Nat : WasPut(c, es, probe, n, k, v, i, u)
<1>1. /\ OddCancels(c) /\ es \in [0..c-1 -> TableEntry \cup {Empty}] /\ probe \in Nat
      /\ \A i \in ValidAt(es) : Reached(es, c, probe, hashOf[es[i].key], i)
      /\ \A i, j \in ValidAt(es) : es[i].key = es[j].key => i = j
  <2>1. c > 0
    OBVIOUS
  <2>2. QED
    BY <2>1, Zenon DEF GoodTable
<1>2. /\ DOMAIN es = 0..c-1 /\ \A h, j : ElemIndex(es, h, j) = Probe(c, h, j)
      /\ \A i \in ValidAt(es) : i \in 0..c-1
  BY <1>1, TableParts
<1>3. PICK h \in Nat : h = hashOf[k]
  OBVIOUS
<1>4. PICK p : p = FirstOf(FreeProbes(es, k))
  OBVIOUS
<1>5. /\ p \in 0..c-1 /\ Probe(c, h, p) \notin ValidAt(es)
      /\ \A q \in 0..p-1 : Probe(c, h, q) \in ValidAt(es)
  <2>1. ASSUME NEW q \in 0..c-1
        PROVE  Probe(c, h, q) \in 0..c-1
    <3>1. q \in Nat
      OBVIOUS
    <3>2. QED
      BY <3>1, ProbeInTable, Zenon
  <2>2. ASSUME NEW q
        PROVE  q \in FreeProbes(es, k) <=> q \in 0..c-1 /\ Probe(c, h, q) \notin ValidAt(es)
    BY <1>2, <1>3, <2>1, Zenon DEF FreeProbes, ValidAt
  <2>3. \E q \in 0..c-1 : Probe(c, h, q) \notin ValidAt(es)
    BY <1>1, RoomFound
  <2>4. FreeProbes(es, k) # {} /\ FreeProbes(es, k) \in SUBSET Nat
    BY <2>2, <2>3
  <2>5. p \in FreeProbes(es, k) /\ \A q \in FreeProbes(es, k) : p <= q
    BY <1>4, <2>4, FirstIsSmallest
  <2>6. p \in 0..c-1
    BY <2>2, <2>5
  <2>7. \A q \in 0..p-1 : q \in 0..c-1 /\ ~(p <= q)
    BY <2>6
  <2>8. QED
    BY <2>2, <2>5, <2>6, <2>7, Zenon
<1>6. PICK i \in 0..c-1 : i = Probe(c, h, p)
  BY <1>5, ProbeInTable
<1>7. PICK e2 : e2 = WithEntry(es, i, k, v)
  OBVIOUS
<1>8. PICK u \in Nat : u = ProbeDist(probe, p) /\ probe <= u /\ p < u
  BY <1>1, <1>5 DEF ProbeDist
<1>9. Put([es |-> es, n |-> n, probe |-> probe], k, v) = [es |-> e2, n |-> n + 1, probe |-> u]
  <2>1. FreeProbe(es, k) = p
    BY <1>4, Zenon DEF FreeProbe, FreeProbes, FirstOf
  <2>2. ElemIndex(es, hashOf[k], p) = i
    BY <1>2, <1>3, <1>6, Zenon
  <2>3. PICK t : t = [es |-> es, n |-> n, probe |-> probe]
    OBVIOUS
  <2>4. t.es = es /\ t.n = n /\ t.probe = probe
    BY <2>3
  <2>5. Put(t, k, v) = [es |-> WithEntry(t.es, ElemIndex(t.es, hashOf[k], FreeProbe(t.es, k)), k, v),
                        n |-> t.n + 1, probe |-> ProbeDist(t.probe, FreeProbe(t.es, k))]
    BY Zenon DEF Put, WithEntry
  <2>6. QED
    BY <1>7, <1>8, <2>1, <2>2, <2>3, <2>4, <2>5, Zenon
<1>10. /\ e2 \in [0..c-1 -> TableEntry \cup {Empty}]
       /\ e2[i] = Entry(k, v) /\ e2[i].key = k /\ IsValid(e2[i])
       /\ \A j \in 0..c-1 : j # i => e2[j] = es[j]
       /\ ValidAt(e2) = ValidAt(es) \cup {i}
  <2>1. HasEntry(c, es, e2, i, k, v)
    BY <1>1, <1>7, EntryPut
  <2>2. QED
    BY <2>1, Zenon DEF HasEntry
<1>11. ASSUME NEW j \in 0..c-1, es[j] # Empty PROVE e2[j] # Empty
  BY <1>10, <1>11, Zenon DEF IsValid
<1>12. ASSUME NEW j \in ValidAt(e2) PROVE Reached(e2, c, u, hashOf[e2[j].key], j)
  <2>1. CASE j = i
    <3>1. ASSUME NEW q \in 0..p-1 PROVE e2[Probe(c, h, q)] # Empty
      <4>1. Probe(c, h, q) \in ValidAt(es)
        BY <1>5
      <4>2. es[Probe(c, h, q)] # Empty /\ Probe(c, h, q) \in 0..c-1
        BY <1>2, <4>1, Zenon DEF ValidAt, IsValid
      <4>3. QED
        BY <1>11, <4>2
    <3>2. hashOf[e2[j].key] = h
      BY <1>3, <1>10, <2>1
    <3>3. QED
      BY <1>5, <1>6, <1>8, <2>1, <3>1, <3>2, Zenon DEF Reached
  <2>2. CASE j # i
    <3>1. j \in ValidAt(es) /\ e2[j] = es[j]
      BY <1>2, <1>10, <2>2
    <3>2. PICK g \in Nat : g = hashOf[es[j].key]
      <4>1. es[j].key \in Keys
        BY <1>1, <3>1, TableParts
      <4>2. QED
        BY <4>1
    <3>3. PICK r \in 0..c-1 : /\ r < probe /\ Probe(c, g, r) = j
                              /\ \A q \in 0..r-1 : es[Probe(c, g, q)] # Empty
      BY <1>1, <3>1, <3>2, Zenon DEF Reached
    <3>4. r < u
      BY <1>1, <1>8, <3>3
    <3>5. ASSUME NEW q \in 0..r-1 PROVE e2[Probe(c, g, q)] # Empty
      <4>1. Probe(c, g, q) \in 0..c-1
        <5>1. q \in Nat
          OBVIOUS
        <5>2. QED
          BY <5>1, ProbeInTable, Zenon
      <4>2. QED
        BY <1>11, <3>3, <4>1
    <3>6. hashOf[e2[j].key] = g
      BY <3>1, <3>2
    <3>7. QED
      BY <3>3, <3>4, <3>5, <3>6, Zenon DEF Reached
  <2>3. QED
    BY <2>1, <2>2
<1>13. ASSUME NEW j \in ValidAt(e2), NEW m \in ValidAt(e2), e2[j].key = e2[m].key PROVE j = m
  <2>1. \A x \in ValidAt(es) : x # i /\ x \in 0..c-1 /\ e2[x] = es[x] /\ es[x].key # k
    BY <1>2, <1>5, <1>6, <1>10, Zenon
  <2>2. QED
    BY <1>1, <1>10, <1>13, <2>1, Zenon
<1>14. GoodTable(e2, c, u, hashOf)
  BY <1>1, <1>10, <1>12, <1>13, Zenon DEF GoodTable
<1>15. WasPut(c, es, probe, n, k, v, i, u)
  BY <1>5, <1>6, <1>7, <1>9, <1>14, Zenon DEF WasPut
<1>16. QED
  BY <1>15, Zenon

-----------------------------------------------------------------------------
(* _rehash: what is moved one entry after another.                           *)
LEMMA NothingIn ==
  ASSUME NEW c \in Nat, c > 0 => OddCancels(c), NEW hs, NEW probe \in Nat
  PROVE  GoodTable(NoEntries(c), c, probe, hs) /\ ValidAt(NoEntries(c)) = {}
<1>1. NoEntries(c) \in [0..c-1 -> TableEntry \cup {Empty}]
  BY DEF NoEntries
<1>2. \A i \in DOMAIN NoEntries(c) : NoEntries(c)[i] = Empty
  BY DEF NoEntries
<1>3. ValidAt(NoEntries(c)) = {}
  BY <1>2, Zenon DEF ValidAt, IsValid
<1>4. QED
  BY <1>1, <1>3, Zenon DEF GoodTable

Grows(c) == IF c = 0 THEN 1 ELSE 2 * c
Before(f, i) == f[i - 1]
Moving(es, f, i) ==
  IF i = 0 THEN [es |-> NoEntries(Grows(Capacity(es))), n |-> 0, probe |-> 0]
  ELSE IF IsValid(es[i - 1]) THEN Put(Before(f, i), es[i - 1].key, es[i - 1].val)
  ELSE Before(f, i)

Moves(es, n, f) == f = [i \in 0..n |-> Moving(es, f, i)]

LEMMA MovesExist ==
  ASSUME NEW es, NEW n \in Nat
  PROVE  \E f : Moves(es, n, f)
<1> DEFINE T == {m \in 0..n : \E f : f = [i \in 0..m |-> Moving(es, f, i)]}
<1>1. \A i, f, g : Before(f, i) = Before(g, i) => Moving(es, f, i) = Moving(es, g, i)
  BY Zenon DEF Moving
<1>2. \A f, g : Moving(es, f, 0) = Moving(es, g, 0)
  BY Zenon DEF Moving
<1>3. 0 \in T
  <2>1. PICK f : f = [i \in 0..0 |-> Moving(es, <<>>, 0)]
    OBVIOUS
  <2>2. \A i \in 0..0 : Moving(es, f, i) = Moving(es, <<>>, 0)
    <3>1. \A i \in 0..0 : i = 0
      OBVIOUS
    <3>2. QED
      BY <1>2, <3>1, Zenon
  <2>3. f = [i \in 0..0 |-> Moving(es, f, i)]
    BY <2>1, <2>2
  <2>4. QED
    BY <2>3
<1>4. ASSUME NEW m \in 0..n-1, m \in T PROVE m + 1 \in T
  <2>1. PICK f : f = [i \in 0..m |-> Moving(es, f, i)]
    BY <1>4
  <2>2. PICK p \in 1..n : p = m + 1 /\ m = p - 1
    OBVIOUS
  <2>3. PICK g : g = [i \in 0..p |-> IF i = p THEN Moving(es, f, p) ELSE f[i]]
    OBVIOUS
  <2>4. \A i \in 0..p-1 : g[i] = f[i] /\ f[i] = Moving(es, f, i)
    <3>1. \A i \in 0..p-1 : i \in 0..p /\ i # p
      OBVIOUS
    <3>2. f = [i \in 0..p-1 |-> Moving(es, f, i)]
      BY <2>1, <2>2, Zenon
    <3>3. QED
      BY <2>3, <3>1, <3>2, Zenon
  <2>5. g[p] = Moving(es, f, p)
    BY <2>3
  <2>6. \A i \in 0..p : g[i] = Moving(es, g, i)
    <3>1. ASSUME NEW i \in 1..p PROVE Moving(es, f, i) = Moving(es, g, i)
      <4>1. i - 1 \in 0..p-1
        OBVIOUS
      <4>2. Before(f, i) = Before(g, i)
        BY <2>4, <4>1 DEF Before
      <4>3. QED
        BY <1>1, <4>2
    <3>2. \A i \in 0..p : i = 0 \/ i \in 1..p
      OBVIOUS
    <3>3. \A i \in 0..p : i = p \/ i \in 0..p-1
      OBVIOUS
    <3>4. QED
      BY <1>2, <2>4, <2>5, <3>1, <3>2, <3>3, Zenon
  <2>7. g = [i \in 0..p |-> Moving(es, g, i)]
    BY <2>3, <2>6
  <2>8. QED
    BY <2>2, <2>7
<1>5. 0..n \subseteq T
  <2> HIDE DEF T
  <2>1. QED
    BY <1>3, <1>4, CountingUp
<1>6. n \in T
  <2> HIDE DEF T
  <2>1. QED
    BY <1>5
<1>7. QED
  BY <1>6 DEF Moves

LEMMA RehashMoves ==
  ASSUME NEW es, NEW c \in Nat, Capacity(es) = c, NEW t, t.es = es
  PROVE  \E f : /\ Rehash(t) = f[c]
                /\ f[0] = [es |-> NoEntries(Grows(c)), n |-> 0, probe |-> 0]
                /\ \A i \in 1..c : f[i] = IF IsValid(es[i - 1]) THEN Put(f[i - 1], es[i - 1].key, es[i - 1].val)
                                          ELSE f[i - 1]
<1>1. PICK f : f = CHOOSE g : g = [i \in 0..c |-> Moving(es, g, i)]
  OBVIOUS
<1>2. f = [i \in 0..c |-> Moving(es, f, i)]
  <2>1. \E g : Moves(es, c, g)
    BY MovesExist
  <2>2. QED
    BY <1>1, <2>1, Zenon DEF Moves
<1>3. Rehash(t) = f[c]
  <2>1. Rehash(t) = (CHOOSE g : g = [i \in 0..Capacity(t.es) |-> Moving(t.es, g, i)])[Capacity(t.es)]
    BY Zenon DEF Rehash, Moving, Before, Grows
  <2>2. QED
    BY <1>1, <2>1
<1>4. f[0] = Moving(es, f, 0) /\ \A i \in 1..c : f[i] = Moving(es, f, i)
  <2>1. 0 \in 0..c /\ \A i \in 1..c : i \in 0..c
    OBVIOUS
  <2>2. QED
    BY <1>2, <2>1, Zenon
<1>5. f[0] = [es |-> NoEntries(Grows(c)), n |-> 0, probe |-> 0]
  BY <1>4, Zenon DEF Moving
<1>6. ASSUME NEW i \in 1..c
      PROVE  f[i] = IF IsValid(es[i - 1]) THEN Put(f[i - 1], es[i - 1].key, es[i - 1].val) ELSE f[i - 1]
  <2>1. i # 0
    OBVIOUS
  <2>2. QED
    BY <1>4, <2>1, Zenon DEF Moving, Before
<1>7. QED
  BY <1>3, <1>5, <1>6, Zenon

(* What a set of entries says: keys with their values.                       *)
Contents(es, S) == {<<es[i].key, es[i].val>> : i \in S}
MovedAt(es, m) == {i \in ValidAt(es) : i < m}

(* The table is t, and holds the first m entries of es.                      *)
Holding(t, d, es, m, e2, n, u) ==
  /\ t = [es |-> e2, n |-> n, probe |-> u]
  /\ GoodTable(e2, d, u, hashOf)
  /\ n = Cardinality(ValidAt(e2)) /\ n = Cardinality(MovedAt(es, m)) /\ n <= m
  /\ Contents(e2, ValidAt(e2)) = Contents(es, MovedAt(es, m))

LEMMA EntryMoved ==
  ASSUME NEW c \in Nat, NEW es, NEW probe, GoodTable(es, c, probe, hashOf),
         hashOf \in [Keys -> Nat \ {0}],
         NEW d \in Nat, c < d, NEW m \in 0..c-1,
         NEW t, NEW e2, NEW n, NEW u, Holding(t, d, es, m, e2, n, u), IsValid(es[m])
  PROVE  \E e3, w, x : Holding(Put(t, es[m].key, es[m].val), d, es, m + 1, e3, w, x)
<1>1. /\ es \in [0..c-1 -> TableEntry \cup {Empty}]
      /\ \A i, j \in ValidAt(es) : es[i].key = es[j].key => i = j
  BY Zenon DEF GoodTable
<1>2. /\ DOMAIN es = 0..c-1 /\ IsFiniteSet(ValidAt(es))
      /\ \A i \in ValidAt(es) : i \in 0..c-1 /\ es[i].key \in Keys /\ es[i].val \in Values
  BY <1>1, TableParts
<1>3. PICK k \in Keys, v \in Values : k = es[m].key /\ v = es[m].val /\ m \in ValidAt(es)
  <2>1. m \in ValidAt(es)
    BY <1>2, Zenon DEF ValidAt
  <2>2. QED
    BY <1>2, <2>1
<1>4. /\ GoodTable(e2, d, u, hashOf) /\ t = [es |-> e2, n |-> n, probe |-> u]
      /\ n = Cardinality(ValidAt(e2)) /\ n = Cardinality(MovedAt(es, m)) /\ n <= m
      /\ Contents(e2, ValidAt(e2)) = Contents(es, MovedAt(es, m))
  BY Zenon DEF Holding
<1>5. /\ e2 \in [0..d-1 -> TableEntry \cup {Empty}] /\ IsFiniteSet(ValidAt(e2))
      /\ n \in Nat /\ \A i \in ValidAt(e2) : i \in 0..d-1
  <2>1. e2 \in [0..d-1 -> TableEntry \cup {Empty}]
    BY <1>4, Zenon DEF GoodTable
  <2>2. /\ IsFiniteSet(ValidAt(e2)) /\ Cardinality(ValidAt(e2)) \in 0..d
        /\ \A i \in ValidAt(e2) : i \in 0..d-1
    BY <2>1, TableParts
  <2>3. n \in Nat
    BY <1>4, <2>2
  <2>4. QED
    BY <2>1, <2>2, <2>3, Zenon
<1>6. \A i \in ValidAt(e2) : e2[i].key # k
  <2>1. SUFFICES ASSUME NEW i \in ValidAt(e2), e2[i].key = k PROVE FALSE
    OBVIOUS
  <2>2. <<e2[i].key, e2[i].val>> \in Contents(es, MovedAt(es, m))
    BY <1>4, Zenon DEF Contents
  <2>3. PICK j \in MovedAt(es, m) : <<e2[i].key, e2[i].val>> = <<es[j].key, es[j].val>>
    BY <2>2, Zenon DEF Contents
  <2>4. es[j].key = k
    BY <2>1, <2>3
  <2>5. j \in ValidAt(es) /\ j < m
    BY Zenon DEF MovedAt
  <2>6. j = m
    BY <1>1, <1>3, <2>4, <2>5, Zenon
  <2>7. QED
    BY <2>5, <2>6
<1>7. d \in Nat \ {0} /\ n < d
  <2>1. n <= m
    BY <1>4, Zenon
  <2>2. QED
    BY <1>5, <2>1
<1>8. PICK i \in 0..d-1, x \in Nat : WasPut(d, e2, u, n, k, v, i, x)
  <2>1. GoodTable(e2, d, u, hashOf) /\ n = Cardinality(ValidAt(e2))
    BY <1>4, Zenon
  <2>2. QED
    BY <1>6, <1>7, <2>1, PutGood
<1>9. PICK e3 : e3 = WithEntry(e2, i, k, v)
  OBVIOUS
<1>10. /\ e3[i].key = k /\ e3[i].val = v
       /\ \A j \in 0..d-1 : j # i => e3[j] = e2[j]
       /\ ValidAt(e3) = ValidAt(e2) \cup {i}
  <2>1. HasEntry(d, e2, e3, i, k, v)
    BY <1>5, <1>9, EntryPut
  <2>2. QED
    BY <2>1, Zenon DEF HasEntry
<1>11. MovedAt(es, m + 1) = MovedAt(es, m) \cup {m} /\ m \notin MovedAt(es, m)
  <2>1. \A j \in 0..c-1 : j < m + 1 <=> j < m \/ j = m
    OBVIOUS
  <2>2. ~(m < m)
    OBVIOUS
  <2>3. ASSUME NEW j PROVE j \in MovedAt(es, m + 1) <=> j \in MovedAt(es, m) \cup {m}
    BY <1>2, <1>3, <2>1, Zenon DEF MovedAt
  <2>4. QED
    BY <2>2, <2>3, Zenon DEF MovedAt
<1>12. n + 1 = Cardinality(ValidAt(e3)) /\ n + 1 = Cardinality(MovedAt(es, m + 1))
  <2>1. MovedAt(es, m) \in SUBSET ValidAt(es)
    BY Zenon DEF MovedAt
  <2>2. IsFiniteSet(MovedAt(es, m))
    BY <1>2, <2>1, FS_Subset
  <2>3. Cardinality(ValidAt(e2) \cup {i}) = n + 1
    <3>1. i \notin ValidAt(e2)
      BY <1>8, Zenon DEF WasPut
    <3>2. IsFiniteSet(ValidAt(e2)) /\ Cardinality(ValidAt(e2)) = n
      BY <1>4, <1>5, Zenon
    <3>3. Cardinality(ValidAt(e2) \cup {i}) = Cardinality(ValidAt(e2)) + 1
      BY <3>1, <3>2, FS_AddElement
    <3>4. QED
      BY <3>2, <3>3
  <2>4. Cardinality(MovedAt(es, m) \cup {m}) = n + 1
    <3>1. Cardinality(MovedAt(es, m) \cup {m}) = Cardinality(MovedAt(es, m)) + 1
      BY <1>11, <2>2, FS_AddElement
    <3>2. QED
      BY <1>4, <3>1
  <2>5. QED
    BY <1>10, <1>11, <2>3, <2>4
<1>13. Contents(e3, ValidAt(e3)) = Contents(es, MovedAt(es, m + 1))
  <2>1. Contents(e3, ValidAt(e3)) = Contents(e2, ValidAt(e2)) \cup {<<k, v>>}
    <3>1. \A j \in ValidAt(e2) : e3[j] = e2[j]
      BY <1>5, <1>8, <1>10, Zenon DEF WasPut
    <3>2. ASSUME NEW y
          PROVE  y \in Contents(e3, ValidAt(e3)) <=> y \in Contents(e2, ValidAt(e2)) \cup {<<k, v>>}
      BY <1>10, <3>1, Zenon DEF Contents
    <3>3. QED
      BY <3>2, Zenon
  <2>2. Contents(es, MovedAt(es, m + 1)) = Contents(es, MovedAt(es, m)) \cup {<<k, v>>}
    <3>1. ASSUME NEW y
          PROVE  y \in Contents(es, MovedAt(es, m + 1)) <=> y \in Contents(es, MovedAt(es, m)) \cup {<<k, v>>}
      BY <1>3, <1>11, Zenon DEF Contents
    <3>2. QED
      BY <3>1, Zenon
  <2>3. QED
    BY <1>4, <2>1, <2>2, Zenon
<1>14. n + 1 <= m + 1
  <2>1. n <= m /\ n \in Nat
    BY <1>4, <1>5, Zenon
  <2>2. QED
    BY <2>1
<1>15. Put(t, es[m].key, es[m].val) = [es |-> e3, n |-> n + 1, probe |-> x]
  BY <1>3, <1>4, <1>8, <1>9, Zenon DEF WasPut
<1>16. Holding(Put(t, es[m].key, es[m].val), d, es, m + 1, e3, n + 1, x)
  BY <1>8, <1>9, <1>12, <1>13, <1>14, <1>15, Zenon DEF Holding, WasPut
<1>17. QED
  BY <1>16, Zenon

Rehashed(t, d, e2, n, u, said) ==
  /\ t = [es |-> e2, n |-> n, probe |-> u]
  /\ GoodTable(e2, d, u, hashOf)
  /\ n = Cardinality(ValidAt(e2)) /\ Contents(e2, ValidAt(e2)) = said

(* A larger table holds what the old one held.                               *)
LEMMA RehashGood ==
  ASSUME NEW c \in Nat, NEW es, NEW probe, NEW n, GoodTable(es, c, probe, hashOf),
         hashOf \in [Keys -> Nat \ {0}], n = Cardinality(ValidAt(es)),
         NEW t, t.es = es
  PROVE  /\ Grows(c) \in Nat /\ c < Grows(c)
         /\ \E e2, u : Rehashed(Rehash(t), Grows(c), e2, n, u, Contents(es, ValidAt(es)))
<1>1. es \in [0..c-1 -> TableEntry \cup {Empty}] /\ (c > 0 => OddCancels(c))
  BY Zenon DEF GoodTable
<1>2. /\ DOMAIN es = 0..c-1 /\ Capacity(es) = c
      /\ \A i \in ValidAt(es) : i \in 0..c-1
  BY <1>1, TableParts
<1>3. PICK d \in Nat : d = Grows(c) /\ c < d /\ OddCancels(d)
  <2>1. CASE c = 0
    BY <2>1, OneCancels DEF Grows
  <2>2. CASE c # 0
    <3>1. OddCancels(2 * c)
      BY <1>1, <2>2, DoubleCancels
    <3>2. Grows(c) = 2 * c
      BY <2>2 DEF Grows
    <3>3. 2 * c \in Nat /\ c < 2 * c
      BY <2>2
    <3>4. QED
      BY <3>1, <3>2, <3>3, Zenon
  <2>3. QED
    BY <2>1, <2>2
<1>4. PICK f : /\ Rehash(t) = f[c]
               /\ f[0] = [es |-> NoEntries(d), n |-> 0, probe |-> 0]
               /\ \A i \in 1..c : f[i] = IF IsValid(es[i - 1]) THEN Put(f[i - 1], es[i - 1].key, es[i - 1].val)
                                         ELSE f[i - 1]
  BY <1>2, <1>3, RehashMoves
<1> DEFINE T == {m \in 0..c : \E e2, w, u : Holding(f[m], d, es, m, e2, w, u)}
<1>5. 0 \in T
  <2>1. GoodTable(NoEntries(d), d, 0, hashOf) /\ ValidAt(NoEntries(d)) = {}
    BY <1>3, NothingIn
  <2>2. MovedAt(es, 0) = {}
    <3>1. \A i \in 0..c-1 : ~(i < 0)
      OBVIOUS
    <3>2. QED
      BY <1>2, <3>1, Zenon DEF MovedAt
  <2>3. Cardinality({}) = 0
    BY FS_EmptySet
  <2>4. \A e : Contents(e, {}) = {}
    BY DEF Contents
  <2>5. 0 <= 0
    OBVIOUS
  <2>6. Holding(f[0], d, es, 0, NoEntries(d), 0, 0)
    BY <1>4, <2>1, <2>2, <2>3, <2>4, <2>5, Zenon DEF Holding
  <2>7. 0 \in 0..c
    OBVIOUS
  <2>8. QED
    BY <2>6, <2>7, Zenon
<1>6. ASSUME NEW m \in 0..c-1, m \in T PROVE m + 1 \in T
  <2>1. PICK e2, w, u : Holding(f[m], d, es, m, e2, w, u)
    BY <1>6, Zenon
  <2>2. m + 1 \in 1..c /\ m + 1 - 1 = m /\ m + 1 \in 0..c
    OBVIOUS
  <2>3. f[m + 1] = IF IsValid(es[m]) THEN Put(f[m], es[m].key, es[m].val) ELSE f[m]
    BY <1>4, <2>2
  <2>4. CASE IsValid(es[m])
    <3>1. \E e3, x, y : Holding(Put(f[m], es[m].key, es[m].val), d, es, m + 1, e3, x, y)
      BY <1>3, <2>1, <2>4, EntryMoved
    <3>2. QED
      BY <2>2, <2>3, <2>4, <3>1, Zenon
  <2>5. CASE ~IsValid(es[m])
    <3>1. MovedAt(es, m + 1) = MovedAt(es, m)
      <4>1. \A j \in 0..c-1 : j < m + 1 <=> j < m \/ j = m
        OBVIOUS
      <4>2. m \notin ValidAt(es)
        BY <2>5, Zenon DEF ValidAt
      <4>3. ASSUME NEW j PROVE j \in MovedAt(es, m + 1) <=> j \in MovedAt(es, m)
        BY <1>2, <4>1, <4>2, Zenon DEF MovedAt
      <4>4. QED
        BY <4>3, Zenon
    <3>2. w <= m + 1
      <4>1. w \in Nat /\ w <= m
        <5>1. w = Cardinality(ValidAt(e2)) /\ w <= m /\ GoodTable(e2, d, u, hashOf)
          BY <2>1, Zenon DEF Holding
        <5>2. e2 \in [0..d-1 -> TableEntry \cup {Empty}]
          BY <5>1, Zenon DEF GoodTable
        <5>3. Cardinality(ValidAt(e2)) \in 0..d
          BY <5>2, TableParts
        <5>4. QED
          BY <5>1, <5>3
      <4>2. QED
        BY <4>1
    <3>3. Holding(f[m + 1], d, es, m + 1, e2, w, u)
      BY <2>1, <2>3, <2>5, <3>1, <3>2, Zenon DEF Holding
    <3>4. QED
      BY <2>2, <3>3, Zenon
  <2>6. QED
    BY <2>4, <2>5
<1>7. c \in T
  <2> HIDE DEF T
  <2>1. 0..c \subseteq T
    BY <1>5, <1>6, CountingUp
  <2>2. QED
    BY <2>1
<1>8. PICK e2, w, u : Holding(f[c], d, es, c, e2, w, u)
  BY <1>7, Zenon
<1>9. MovedAt(es, c) = ValidAt(es)
  <2>1. \A i \in 0..c-1 : i < c
    OBVIOUS
  <2>2. QED
    BY <1>2, <2>1, Zenon DEF MovedAt
<1>10. Rehashed(Rehash(t), d, e2, n, u, Contents(es, ValidAt(es)))
  BY <1>4, <1>8, <1>9, Zenon DEF Holding, Rehashed
<1>11. QED
  BY <1>3, <1>10, Zenon

-----------------------------------------------------------------------------
(* The inductive invariant: the table is good, and says what was stored.     *)
Agrees(es, st) ==
  /\ \A k \in Keys : st[k] # Empty <=> \E i \in ValidAt(es) : es[i].key = k
  /\ \A i \in ValidAt(es) : es[i].val = st[es[i].key]
SetInv ==
  /\ hashOf \in [Keys -> Nat \ {0}] /\ stored \in [Keys -> Values \cup {Empty}]
  /\ \E c \in 0..MaxCapacity : GoodTable(entries, c, maxProbe, hashOf)
  /\ size = Cardinality(ValidAt(entries))
  /\ Agrees(entries, stored)

LEMMA InvAfter ==
  ASSUME SetInv, hashOf' = hashOf,
         NEW c \in 0..MaxCapacity, NEW es, NEW n, NEW u, NEW st,
         entries' = es, size' = n, maxProbe' = u, stored' = st,
         GoodTable(es, c, u, hashOf), n = Cardinality(ValidAt(es)),
         st \in [Keys -> Values \cup {Empty}], Agrees(es, st)
  PROVE  SetInv'
<1>1. hashOf' \in [Keys -> Nat \ {0}]
  BY Zenon DEF SetInv
<1>2. GoodTable(entries', c, maxProbe', hashOf')
  OBVIOUS
<1>3. size' = Cardinality(ValidAt(entries')) /\ Agrees(entries', stored') /\ stored' \in [Keys -> Values \cup {Empty}]
  OBVIOUS
<1>4. QED
  BY <1>1, <1>2, <1>3, Zenon DEF SetInv

LEMMA Said ==
  ASSUME NEW es, NEW e2, Contents(e2, ValidAt(e2)) = Contents(es, ValidAt(es)), NEW i \in ValidAt(e2)
  PROVE  \E j \in ValidAt(es) : es[j].key = e2[i].key /\ es[j].val = e2[i].val
<1>1. <<e2[i].key, e2[i].val>> \in Contents(es, ValidAt(es))
  <2>1. <<e2[i].key, e2[i].val>> \in Contents(e2, ValidAt(e2))
    BY Zenon DEF Contents
  <2>2. QED
    BY <2>1, Zenon
<1>2. PICK j \in ValidAt(es) : <<e2[i].key, e2[i].val>> = <<es[j].key, es[j].val>>
  BY <1>1, Zenon DEF Contents
<1>3. es[j].key = e2[i].key /\ es[j].val = e2[i].val
  BY <1>2
<1>4. QED
  BY <1>3, Zenon

LEMMA SameContents ==
  ASSUME NEW es, NEW e2, NEW st, Agrees(es, st), Contents(e2, ValidAt(e2)) = Contents(es, ValidAt(es))
  PROVE  Agrees(e2, st)
<1>1. \A i \in ValidAt(e2) : \E j \in ValidAt(es) : es[j].key = e2[i].key /\ es[j].val = e2[i].val
  BY Said
<1>2. \A i \in ValidAt(es) : \E j \in ValidAt(e2) : e2[j].key = es[i].key /\ e2[j].val = es[i].val
  BY Said
<1>3. ASSUME NEW k \in Keys
      PROVE  st[k] # Empty <=> \E i \in ValidAt(e2) : e2[i].key = k
  <2>1. st[k] # Empty <=> \E i \in ValidAt(es) : es[i].key = k
    BY Zenon DEF Agrees
  <2>2. ASSUME NEW i \in ValidAt(es), es[i].key = k PROVE \E j \in ValidAt(e2) : e2[j].key = k
    BY <1>2, <2>2
  <2>3. ASSUME NEW i \in ValidAt(e2), e2[i].key = k PROVE \E j \in ValidAt(es) : es[j].key = k
    BY <1>1, <2>3
  <2>4. QED
    BY <2>1, <2>2, <2>3, Zenon
<1>4. ASSUME NEW i \in ValidAt(e2)
      PROVE  e2[i].val = st[e2[i].key]
  <2>1. PICK j \in ValidAt(es) : es[j].key = e2[i].key /\ es[j].val = e2[i].val
    BY <1>1
  <2>2. es[j].val = st[es[j].key]
    BY Zenon DEF Agrees
  <2>3. QED
    BY <2>1, <2>2
<1>5. QED
  BY <1>3, <1>4, Zenon DEF Agrees

-----------------------------------------------------------------------------
(* The operations.                                                           *)
LEMMA SetStart == SetInit => SetInv
<1> SUFFICES ASSUME SetInit PROVE SetInv
  OBVIOUS
<1>1. hashOf \in [Keys -> Nat \ {0}]
  BY SetAssumptions DEF SetInit
<1>2. GoodTable(NoEntries(0), 0, 0, hashOf) /\ ValidAt(NoEntries(0)) = {}
  <2>1. ~(0 > 0)
    OBVIOUS
  <2>2. QED
    BY <2>1, NothingIn
<1>3. stored \in [Keys -> Values \cup {Empty}] /\ \A k \in Keys : stored[k] = Empty
  BY DEF SetInit
<1>4. Agrees(NoEntries(0), stored)
  BY <1>2, <1>3, Zenon DEF Agrees
<1>5. Cardinality({}) = 0 /\ 0 \in 0..MaxCapacity
  BY SetAssumptions, FS_EmptySet
<1>6. entries = NoEntries(0) /\ size = 0 /\ maxProbe = 0
  BY DEF SetInit
<1>7. QED
  BY <1>1, <1>2, <1>3, <1>4, <1>5, <1>6, Zenon DEF SetInv

LEMMA ReserveStep ==
  ASSUME SetInv, NEW cap \in {1, 2, 4}, Reserve(cap)
  PROVE  SetInv'
<1>1. OddCancels(cap)
  <2>1. OddCancels(1) /\ 1 \in Nat \ {0} /\ 2 \in Nat \ {0}
    BY OneCancels
  <2>2. OddCancels(2 * 1)
    BY <2>1, DoubleCancels
  <2>3. OddCancels(2)
    BY <2>2
  <2>4. OddCancels(2 * 2)
    BY <2>1, <2>3, DoubleCancels
  <2>5. OddCancels(4)
    BY <2>4
  <2>6. QED
    BY <2>1, <2>3, <2>5
<1>2. cap \in Nat /\ cap \in 0..MaxCapacity
  BY SetAssumptions
<1>3. /\ Capacity(entries) = 0 /\ entries' = NoEntries(cap)
      /\ hashOf' = hashOf /\ size' = size /\ maxProbe' = maxProbe /\ stored' = stored
  BY Zenon DEF Reserve
<1>4. PICK c \in 0..MaxCapacity : GoodTable(entries, c, maxProbe, hashOf)
  BY Zenon DEF SetInv
<1>5. entries \in [0..c-1 -> TableEntry \cup {Empty}] /\ maxProbe \in Nat
  BY <1>4, Zenon DEF GoodTable
<1>6. ValidAt(entries) = {}
  <2>1. c \in Nat
    BY SetAssumptions
  <2>2. Capacity(entries) = c /\ DOMAIN entries = 0..c-1
    BY <1>5, <2>1, TableParts
  <2>3. DOMAIN entries = {}
    BY <1>3, <2>2
  <2>4. QED
    BY <2>3, Zenon DEF ValidAt
<1>7. GoodTable(NoEntries(cap), cap, maxProbe, hashOf) /\ ValidAt(NoEntries(cap)) = {}
  BY <1>1, <1>2, <1>5, NothingIn
<1>8. Agrees(NoEntries(cap), stored)
  BY <1>6, <1>7, Zenon DEF SetInv, Agrees
<1>9. size = Cardinality(ValidAt(NoEntries(cap))) /\ stored \in [Keys -> Values \cup {Empty}]
  BY <1>6, <1>7, Zenon DEF SetInv
<1>10. QED
  BY <1>2, <1>3, <1>7, <1>8, <1>9, InvAfter, Zenon

(* What insert does to a table in which the key is not found.                *)
PutAfter(c, t, k, v, st, n, e2, u) ==
  /\ Put(t, k, v) = [es |-> e2, n |-> n, probe |-> u]
  /\ GoodTable(e2, c, u, hashOf) /\ n = Cardinality(ValidAt(e2))
  /\ Agrees(e2, [st EXCEPT ![k] = v])

LEMMA NewEntry ==
  ASSUME NEW c \in Nat \ {0}, NEW es, NEW probe, NEW n, GoodTable(es, c, probe, hashOf),
         hashOf \in [Keys -> Nat \ {0}], n = Cardinality(ValidAt(es)), n < c,
         NEW st \in [Keys -> Values \cup {Empty}], Agrees(es, st),
         NEW k \in Keys, NEW v \in Values, st[k] = Empty
  PROVE  \E e2, u : PutAfter(c, [es |-> es, n |-> n, probe |-> probe], k, v, st, n + 1, e2, u)
<1>1. es \in [0..c-1 -> TableEntry \cup {Empty}]
  BY Zenon DEF GoodTable
<1>2. c \in Nat
  OBVIOUS
<1>3. \A i \in ValidAt(es) : es[i].key # k
  BY Zenon DEF Agrees
<1>4. PICK i \in 0..c-1, u \in Nat : WasPut(c, es, probe, n, k, v, i, u)
  BY <1>3, PutGood
<1>5. PICK e2 : e2 = WithEntry(es, i, k, v)
  OBVIOUS
<1>6. HasEntry(c, es, e2, i, k, v)
  BY <1>1, <1>2, <1>5, EntryPut
<1>7. i \notin ValidAt(es) /\ ValidAt(e2) = ValidAt(es) \cup {i}
  BY <1>4, <1>6, Zenon DEF WasPut, HasEntry
<1>8. n + 1 = Cardinality(ValidAt(e2))
  <2>1. IsFiniteSet(ValidAt(es))
    BY <1>1, <1>2, TableParts
  <2>2. Cardinality(ValidAt(es) \cup {i}) = n + 1
    BY <1>7, <2>1, FS_AddElement
  <2>3. QED
    BY <1>7, <2>2, Zenon
<1>9. PICK s2 : s2 = [st EXCEPT ![k] = v]
  OBVIOUS
<1>10. s2[k] = v /\ v # Empty /\ \A j \in Keys : j # k => s2[j] = st[j]
  BY <1>9, SetAssumptions
<1>11. \A j \in ValidAt(es) : e2[j] = es[j] /\ es[j].key \in Keys
  <2>1. \A j \in ValidAt(es) : j \in 0..c-1 /\ es[j].key \in Keys
    BY <1>1, <1>2, TableParts
  <2>2. QED
    BY <1>6, <1>7, <2>1, Zenon DEF HasEntry
<1>12. e2[i].key = k /\ e2[i].val = v
  BY <1>6, Zenon DEF HasEntry
<1>13. Agrees(e2, s2)
  <2>1. ASSUME NEW j \in Keys
        PROVE  s2[j] # Empty <=> \E m \in ValidAt(e2) : e2[m].key = j
    <3>1. st[j] # Empty <=> \E m \in ValidAt(es) : es[m].key = j
      BY Zenon DEF Agrees
    <3>2. CASE j = k
      BY <1>7, <1>10, <1>12, <3>2, Zenon
    <3>3. CASE j # k
      <4>1. ASSUME NEW m \in ValidAt(es), es[m].key = j PROVE m \in ValidAt(e2) /\ e2[m].key = j
        BY <1>7, <1>11, <4>1, Zenon
      <4>2. ASSUME NEW m \in ValidAt(e2), e2[m].key = j PROVE m \in ValidAt(es) /\ es[m].key = j
        BY <1>7, <1>11, <1>12, <3>3, <4>2, Zenon
      <4>3. s2[j] = st[j]
        BY <1>10, <3>3
      <4>4. QED
        BY <3>1, <4>1, <4>2, <4>3, Zenon
    <3>4. QED
      BY <3>2, <3>3
  <2>2. ASSUME NEW m \in ValidAt(e2)
        PROVE  e2[m].val = s2[e2[m].key]
    <3>1. CASE m = i
      BY <1>10, <1>12, <3>1, Zenon
    <3>2. CASE m # i
      <4>1. m \in ValidAt(es) /\ es[m].key # k /\ e2[m] = es[m] /\ es[m].key \in Keys
        BY <1>3, <1>7, <1>11, <3>2, Zenon
      <4>2. es[m].val = st[es[m].key]
        BY <4>1, Zenon DEF Agrees
      <4>3. QED
        BY <1>10, <4>1, <4>2, Zenon
    <3>3. QED
      BY <3>1, <3>2
  <2>3. QED
    BY <2>1, <2>2, Zenon DEF Agrees
<1>14. PutAfter(c, [es |-> es, n |-> n, probe |-> probe], k, v, st, n + 1, e2, u)
  BY <1>4, <1>5, <1>8, <1>9, <1>13, Zenon DEF PutAfter, WasPut
<1>15. QED
  BY <1>14, Zenon

(* An entry that stays where it is, with its key, is found as before.        *)
SameKeys(c, es, e2, i, s) ==
  /\ e2 \in [0..c-1 -> TableEntry \cup {Empty}]
  /\ \A j \in 0..c-1 : es[j] # Empty => e2[j] # Empty
  /\ \A j \in 0..c-1 : j # i => e2[j] = es[j]
  /\ e2[i].key = es[i].key
  /\ s = ValidAt(e2) /\ s \subseteq ValidAt(es)

LEMMA StaysGood ==
  ASSUME NEW c \in Nat, NEW es, NEW probe, GoodTable(es, c, probe, hashOf),
         hashOf \in [Keys -> Nat \ {0}],
         NEW i \in ValidAt(es), NEW e2, NEW s, SameKeys(c, es, e2, i, s)
  PROVE  GoodTable(e2, c, probe, hashOf)
<1>1. /\ (c > 0 => OddCancels(c)) /\ es \in [0..c-1 -> TableEntry \cup {Empty}] /\ probe \in Nat
      /\ \A j \in ValidAt(es) : Reached(es, c, probe, hashOf[es[j].key], j)
      /\ \A j, m \in ValidAt(es) : es[j].key = es[m].key => j = m
  BY Zenon DEF GoodTable
<1>2. \A j \in ValidAt(es) : j \in 0..c-1 /\ es[j].key \in Keys
  BY <1>1, TableParts
<1>3. \A j \in ValidAt(e2) : j \in ValidAt(es) /\ e2[j].key = es[j].key
  BY <1>2, Zenon DEF SameKeys
<1>4. ASSUME NEW j \in ValidAt(e2) PROVE Reached(e2, c, probe, hashOf[e2[j].key], j)
  <2>1. PICK g \in Nat : g = hashOf[es[j].key]
    BY <1>2, <1>3
  <2>2. PICK r \in 0..c-1 : /\ r < probe /\ Probe(c, g, r) = j
                            /\ \A q \in 0..r-1 : es[Probe(c, g, q)] # Empty
    BY <1>1, <1>3, <2>1, Zenon DEF Reached
  <2>3. ASSUME NEW q \in 0..r-1 PROVE e2[Probe(c, g, q)] # Empty
    <3>1. q \in Nat /\ c \in Nat \ {0}
      OBVIOUS
    <3>2. Probe(c, g, q) \in 0..c-1
      BY <3>1, ProbeInTable, Zenon
    <3>3. QED
      BY <2>2, <3>2, Zenon DEF SameKeys
  <2>4. hashOf[e2[j].key] = g
    BY <1>3, <2>1
  <2>5. QED
    BY <2>2, <2>3, <2>4, Zenon DEF Reached
<1>5. ASSUME NEW j \in ValidAt(e2), NEW m \in ValidAt(e2), e2[j].key = e2[m].key PROVE j = m
  BY <1>1, <1>3, <1>5, Zenon
<1>6. e2 \in [0..c-1 -> TableEntry \cup {Empty}]
  BY Zenon DEF SameKeys
<1>7. QED
  BY <1>1, <1>4, <1>5, <1>6, Zenon DEF GoodTable

WithValue(es, i, v) == [es EXCEPT ![i].val = v]
LEMMA ValueReplaced ==
  ASSUME NEW c \in Nat, NEW es, NEW probe, GoodTable(es, c, probe, hashOf),
         hashOf \in [Keys -> Nat \ {0}],
         NEW i \in ValidAt(es), NEW v \in Values, NEW e2, e2 = WithValue(es, i, v)
  PROVE  /\ SameKeys(c, es, e2, i, ValidAt(es)) /\ e2[i].val = v
<1>1. es \in [0..c-1 -> TableEntry \cup {Empty}]
  BY Zenon DEF GoodTable
<1>2. DOMAIN es = 0..c-1 /\ i \in 0..c-1 /\ es[i] \in TableEntry
  BY <1>1, TableParts
<1>3. PICK y : y = [es[i] EXCEPT !.val = v]
  OBVIOUS
<1>4. y \in TableEntry /\ y.key = es[i].key /\ y.deleted = es[i].deleted /\ y.val = v
  BY <1>2, <1>3 DEF TableEntry
<1>5. y # Empty
  BY <1>4, SetAssumptions, Zenon DEF TableEntry
<1>6. e2 = [es EXCEPT ![i] = y]
  BY <1>3 DEF WithValue
<1>7. /\ e2 \in [0..c-1 -> TableEntry \cup {Empty}] /\ DOMAIN e2 = 0..c-1
      /\ e2[i] = y /\ \A j \in 0..c-1 : j # i => e2[j] = es[j]
  BY <1>1, <1>2, <1>4, <1>6
<1>8. IsValid(es[i])
  BY Zenon DEF ValidAt
<1>9. IsValid(e2[i])
  BY <1>4, <1>5, <1>7, <1>8, Zenon DEF IsValid
<1>10. ASSUME NEW j PROVE j \in ValidAt(e2) <=> j \in ValidAt(es)
  BY <1>2, <1>7, <1>9, Zenon DEF ValidAt
<1>11. ValidAt(es) = ValidAt(e2)
  BY <1>10, Zenon
<1>12. QED
  BY <1>4, <1>5, <1>7, <1>11, Zenon DEF SameKeys

WithDeleted(es, i) == [es EXCEPT ![i] = Deleted(@)]
LEMMA EntryDeleted ==
  ASSUME NEW c \in Nat, NEW es, NEW probe, GoodTable(es, c, probe, hashOf),
         hashOf \in [Keys -> Nat \ {0}],
         NEW i \in ValidAt(es), NEW e2, e2 = WithDeleted(es, i)
  PROVE  SameKeys(c, es, e2, i, ValidAt(es) \ {i})
<1>1. es \in [0..c-1 -> TableEntry \cup {Empty}]
  BY Zenon DEF GoodTable
<1>2. DOMAIN es = 0..c-1 /\ i \in 0..c-1 /\ es[i] \in TableEntry
  BY <1>1, TableParts
<1>3. PICK y : y = Deleted(es[i])
  OBVIOUS
<1>4. y \in TableEntry /\ y.key = es[i].key /\ y.deleted
  BY <1>2, <1>3 DEF TableEntry, Deleted
<1>5. y # Empty
  BY <1>4, SetAssumptions, Zenon DEF TableEntry
<1>6. e2 = [es EXCEPT ![i] = y]
  BY <1>3, Zenon DEF WithDeleted
<1>7. /\ e2 \in [0..c-1 -> TableEntry \cup {Empty}] /\ DOMAIN e2 = 0..c-1
      /\ e2[i] = y /\ \A j \in 0..c-1 : j # i => e2[j] = es[j]
  BY <1>1, <1>2, <1>4, <1>6
<1>8. ~IsValid(e2[i])
  BY <1>4, <1>7, Zenon DEF IsValid
<1>9. ASSUME NEW j PROVE j \in ValidAt(e2) <=> j \in ValidAt(es) \ {i}
  BY <1>2, <1>7, <1>8, Zenon DEF ValidAt
<1>10. ValidAt(es) \ {i} = ValidAt(e2)
  BY <1>9, Zenon
<1>11. ValidAt(es) \ {i} \subseteq ValidAt(es)
  OBVIOUS
<1>12. QED
  BY <1>4, <1>5, <1>7, <1>10, <1>11, Zenon DEF SameKeys

(* What is in the table of a state that satisfies the invariant, and what    *)
(* the search for a key says of it.                                          *)
LEMMA SearchSays ==
  ASSUME SetInv, NEW k \in Keys
  PROVE  /\ Found(k) = MaxCapacity => stored[k] = Empty
         /\ Found(k) # MaxCapacity => /\ Found(k) \in ValidAt(entries) /\ entries[Found(k)].key = k
                                      /\ entries[Found(k)].val = stored[k] /\ stored[k] # Empty
<1>1. PICK c \in 0..MaxCapacity : GoodTable(entries, c, maxProbe, hashOf)
  BY Zenon DEF SetInv
<1>2. hashOf \in [Keys -> Nat \ {0}] /\ Agrees(entries, stored)
  BY Zenon DEF SetInv
<1>3. c \in Nat /\ c <= MaxCapacity /\ MaxCapacity \in Nat
  BY SetAssumptions
<1>4. ASSUME NEW i \in ValidAt(entries), entries[i].key = k
      PROVE  Found(k) = i /\ i # MaxCapacity
  <2>1. Found(k) = i
    <3>1. Find(entries, maxProbe, k) = i
      BY <1>1, <1>2, <1>3, <1>4, KeyFound
    <3>2. QED
      BY <3>1 DEF Found
  <2>2. i \in 0..c-1
    <3>1. entries \in [0..c-1 -> TableEntry \cup {Empty}]
      BY <1>1, Zenon DEF GoodTable
    <3>2. QED
      BY <1>3, <3>1, TableParts
  <2>3. i # MaxCapacity
    BY <1>3, <2>2
  <2>4. QED
    BY <2>1, <2>3
<1>5. ASSUME \A i \in ValidAt(entries) : entries[i].key # k
      PROVE  Found(k) = MaxCapacity
  <2>1. Find(entries, maxProbe, k) = MaxCapacity
    BY <1>1, <1>2, <1>3, <1>5, KeyNotFound
  <2>2. QED
    BY <2>1 DEF Found
<1>6. stored[k] # Empty <=> \E i \in ValidAt(entries) : entries[i].key = k
  BY <1>2, Zenon DEF Agrees
<1>7. \A i \in ValidAt(entries) : entries[i].val = stored[entries[i].key]
  BY <1>2, Zenon DEF Agrees
<1>8. QED
  BY <1>4, <1>5, <1>6, <1>7, Zenon

(* Where insert puts an entry: into the table, or the one it is moved to when*)
(* it is full by the load factor.                                            *)
Room == IF (size * 100) \div LoadFactorPercent >= Capacity(entries) THEN Rehash(Table) ELSE Table
Roomy(room, d, e1, w) ==
  /\ room = [es |-> e1, n |-> size, probe |-> w]
  /\ GoodTable(e1, d, w, hashOf) /\ size = Cardinality(ValidAt(e1)) /\ size < d
  /\ Agrees(e1, stored)

LEMMA RoomMade ==
  ASSUME SetInv
  PROVE  \E d \in Nat \ {0} : \E e1, w : Roomy(Room, d, e1, w)
<1>1. PICK c \in 0..MaxCapacity : GoodTable(entries, c, maxProbe, hashOf)
  BY Zenon DEF SetInv
<1>2. /\ hashOf \in [Keys -> Nat \ {0}] /\ Agrees(entries, stored)
      /\ size = Cardinality(ValidAt(entries))
  BY Zenon DEF SetInv
<1>3. c \in Nat /\ entries \in [0..c-1 -> TableEntry \cup {Empty}]
  <2>1. c \in Nat
    BY SetAssumptions
  <2>2. QED
    BY <1>1, <2>1, Zenon DEF GoodTable
<1>4. Capacity(entries) = c /\ size \in 0..c
  BY <1>2, <1>3, TableParts
<1>5. PICK full : full = ((size * 100) \div LoadFactorPercent >= c)
  OBVIOUS
<1>6. Room = IF full THEN Rehash(Table) ELSE Table
  BY <1>4, <1>5, Zenon DEF Room
<1>7. Table = [es |-> entries, n |-> size, probe |-> maxProbe] /\ Table.es = entries
  BY DEF Table
<1>8. CASE full
  <2>1. /\ Grows(c) \in Nat /\ c < Grows(c)
        /\ \E e1, w : Rehashed(Rehash(Table), Grows(c), e1, size, w, Contents(entries, ValidAt(entries)))
    BY <1>1, <1>2, <1>3, <1>7, RehashGood
  <2>2. PICK e1, w : Rehashed(Rehash(Table), Grows(c), e1, size, w, Contents(entries, ValidAt(entries)))
    BY <2>1
  <2>3. PICK d \in Nat \ {0} : d = Grows(c) /\ size < d
    BY <1>3, <1>4, <2>1
  <2>4. Agrees(e1, stored)
    <3>1. Contents(e1, ValidAt(e1)) = Contents(entries, ValidAt(entries))
      BY <2>2, Zenon DEF Rehashed
    <3>2. QED
      BY <1>2, <3>1, SameContents
  <2>5. Roomy(Room, d, e1, w)
    BY <1>6, <1>8, <2>2, <2>3, <2>4, Zenon DEF Rehashed, Roomy
  <2>6. QED
    BY <2>5, Zenon
<1>9. CASE ~full
  <2>1. size < c /\ c \in Nat \ {0}
    <3>1. ~((size * 100) \div 90 >= c)
      BY <1>5, <1>9, Zenon DEF LoadFactorPercent
    <3>2. QED
      BY <1>3, <1>4, <3>1
  <2>2. Roomy(Room, c, entries, maxProbe)
    BY <1>1, <1>2, <1>6, <1>7, <1>9, <2>1, Zenon DEF Roomy
  <2>3. QED
    BY <2>1, <2>2, Zenon
<1>10. QED
  BY <1>8, <1>9

LEMMA InsertStep ==
  ASSUME SetInv, NEW k \in Keys, NEW v \in Values, Insert(k, v)
  PROVE  SetInv'
<1>1. PICK c \in 0..MaxCapacity : GoodTable(entries, c, maxProbe, hashOf)
  BY Zenon DEF SetInv
<1>2. /\ hashOf \in [Keys -> Nat \ {0}] /\ Agrees(entries, stored)
      /\ stored \in [Keys -> Values \cup {Empty}] /\ size = Cardinality(ValidAt(entries))
  BY Zenon DEF SetInv
<1>3. c \in Nat /\ entries \in [0..c-1 -> TableEntry \cup {Empty}]
  <2>1. c \in Nat
    BY SetAssumptions
  <2>2. QED
    BY <1>1, <2>1, Zenon DEF GoodTable
<1>4. PICK es, n, u, st : es = entries /\ n = size /\ u = maxProbe /\ st = stored
  OBVIOUS
<1>5. PICK s2 : s2 = [st EXCEPT ![k] = v]
  OBVIOUS
<1>6. /\ s2 \in [Keys -> Values \cup {Empty}] /\ v # Empty
      /\ s2[k] = v /\ \A j \in Keys : j # k => s2[j] = st[j]
  BY <1>2, <1>4, <1>5, SetAssumptions
<1>7. hashOf' = hashOf /\ stored' = s2
  BY <1>4, <1>5, Zenon DEF Insert
<1>8. CASE Found(k) # MaxCapacity
  <2>1. PICK i : i = Found(k)
    OBVIOUS
  <2>2. i \in ValidAt(es) /\ es[i].key = k /\ st[k] # Empty
    BY <1>4, <1>8, <2>1, SearchSays
  <2>3. PICK e2 : e2 = WithValue(es, i, v)
    OBVIOUS
  <2>4. entries' = e2 /\ size' = n /\ maxProbe' = u
    BY <1>4, <1>8, <2>1, <2>3, Zenon DEF Insert, WithValue
  <2>5. GoodTable(e2, c, u, hashOf) /\ ValidAt(e2) = ValidAt(es)
        /\ (\A j \in ValidAt(es) : e2[j].key = es[j].key)
        /\ e2[i].val = v /\ (\A j \in ValidAt(es) : j # i => e2[j].val = es[j].val)
    <3>1. GoodTable(es, c, u, hashOf)
      BY <1>1, <1>4
    <3>2. SameKeys(c, es, e2, i, ValidAt(es)) /\ e2[i].val = v
      BY <1>2, <1>3, <2>2, <2>3, <3>1, ValueReplaced
    <3>3. GoodTable(e2, c, u, hashOf)
      BY <1>2, <1>3, <2>2, <3>1, <3>2, StaysGood
    <3>4. \A j \in ValidAt(es) : j \in 0..c-1
      BY <1>3, <1>4, TableParts
    <3>5. QED
      BY <3>2, <3>3, <3>4, Zenon DEF SameKeys
  <2>6. \A j, m \in ValidAt(es) : es[j].key = es[m].key => j = m
    BY <1>1, <1>4, Zenon DEF GoodTable
  <2>7. Agrees(e2, s2)
    <3>1. ASSUME NEW j \in Keys
          PROVE  s2[j] # Empty <=> \E m \in ValidAt(e2) : e2[m].key = j
      <4>1. st[j] # Empty <=> \E m \in ValidAt(es) : es[m].key = j
        BY <1>2, <1>4, Zenon DEF Agrees
      <4>2. s2[j] # Empty <=> st[j] # Empty
        BY <1>6, <2>2, Zenon
      <4>3. QED
        BY <2>5, <4>1, <4>2, Zenon
    <3>2. ASSUME NEW m \in ValidAt(e2)
          PROVE  e2[m].val = s2[e2[m].key]
      <4>1. m \in ValidAt(es) /\ e2[m].key = es[m].key
        BY <2>5, Zenon
      <4>2. CASE m = i
        BY <1>6, <2>2, <2>5, <4>1, <4>2, Zenon
      <4>3. CASE m # i
        <5>1. es[m].key # k /\ e2[m].val = es[m].val
          BY <2>2, <2>5, <2>6, <4>1, <4>3, Zenon
        <5>2. es[m].key \in Keys
          BY <1>3, <1>4, <4>1, TableParts
        <5>3. es[m].val = st[es[m].key]
          BY <1>2, <1>4, <4>1, Zenon DEF Agrees
        <5>4. QED
          BY <1>6, <4>1, <5>1, <5>2, <5>3, Zenon
      <4>4. QED
        BY <4>2, <4>3
    <3>3. QED
      BY <3>1, <3>2, Zenon DEF Agrees
  <2>8. n = Cardinality(ValidAt(e2))
    BY <1>2, <1>4, <2>5, Zenon
  <2>9. QED
    BY <1>6, <1>7, <2>4, <2>5, <2>7, <2>8, InvAfter, Zenon
<1>9. CASE Found(k) = MaxCapacity
  <2>1. st[k] = Empty
    BY <1>4, <1>9, SearchSays
  <2>2. PICK room : room = Room
    OBVIOUS
  <2>3. Capacity(room.es) <= MaxCapacity /\ Becomes(Put(room, k, v))
    BY <1>9, <2>2, Zenon DEF Insert, Room
  <2>3b. PICK d \in Nat \ {0} : \E e1, w : Roomy(room, d, e1, w)
    BY <2>2, RoomMade, Zenon
  <2>4. PICK e1, w : Roomy(room, d, e1, w)
    BY <2>3b, Zenon
  <2>5. /\ room = [es |-> e1, n |-> n, probe |-> w]
        /\ GoodTable(e1, d, w, hashOf) /\ n = Cardinality(ValidAt(e1)) /\ n < d
        /\ Agrees(e1, st)
    BY <1>4, <2>4, Zenon DEF Roomy
  <2>6. st \in [Keys -> Values \cup {Empty}]
    BY <1>2, <1>4
  <2>7. PICK e2, x : PutAfter(d, room, k, v, st, n + 1, e2, x)
    BY <1>2, <2>1, <2>5, <2>6, NewEntry
  <2>8. d \in 0..MaxCapacity
    <3>1. e1 \in [0..d-1 -> TableEntry \cup {Empty}]
      BY <2>5, Zenon DEF GoodTable
    <3>2. Capacity(e1) = d
      <4>1. d \in Nat
        OBVIOUS
      <4>2. QED
        BY <3>1, <4>1, TableParts
    <3>3. room.es = e1
      BY <2>5
    <3>4. d <= MaxCapacity
      BY <2>3, <3>2, <3>3
    <3>5. QED
      BY <3>4, SetAssumptions
  <2>9. entries' = e2 /\ size' = n + 1 /\ maxProbe' = x
    <3>1. PICK r : r = [es |-> e2, n |-> n + 1, probe |-> x]
      OBVIOUS
    <3>2. r.es = e2 /\ r.n = n + 1 /\ r.probe = x
      BY <3>1
    <3>3. Becomes(r)
      BY <2>3, <2>7, <3>1, Zenon DEF PutAfter
    <3>4. QED
      BY <3>2, <3>3 DEF Becomes
  <2>10. GoodTable(e2, d, x, hashOf) /\ n + 1 = Cardinality(ValidAt(e2)) /\ Agrees(e2, s2)
    BY <1>5, <2>7, Zenon DEF PutAfter
  <2>11. QED
    BY <1>6, <1>7, <2>8, <2>9, <2>10, InvAfter, Zenon
<1>10. QED
  BY <1>8, <1>9

LEMMA RemoveStep ==
  ASSUME SetInv, NEW k \in Keys, RemoveKey(k)
  PROVE  SetInv'
<1>1. PICK c \in 0..MaxCapacity : GoodTable(entries, c, maxProbe, hashOf)
  BY Zenon DEF SetInv
<1>2. /\ hashOf \in [Keys -> Nat \ {0}] /\ Agrees(entries, stored)
      /\ stored \in [Keys -> Values \cup {Empty}] /\ size = Cardinality(ValidAt(entries))
  BY Zenon DEF SetInv
<1>3. c \in Nat /\ entries \in [0..c-1 -> TableEntry \cup {Empty}]
  <2>1. c \in Nat
    BY SetAssumptions
  <2>2. QED
    BY <1>1, <2>1, Zenon DEF GoodTable
<1>4. PICK es, n, u, st : es = entries /\ n = size /\ u = maxProbe /\ st = stored
  OBVIOUS
<1>5. PICK s2 : s2 = [st EXCEPT ![k] = Empty]
  OBVIOUS
<1>6. /\ s2 \in [Keys -> Values \cup {Empty}]
      /\ s2[k] = Empty /\ \A j \in Keys : j # k => s2[j] = st[j]
  BY <1>2, <1>4, <1>5
<1>7. hashOf' = hashOf /\ stored' = s2 /\ maxProbe' = u
  BY <1>4, <1>5, Zenon DEF RemoveKey
<1>8. CASE Found(k) # MaxCapacity
  <2>1. PICK i : i = Found(k)
    OBVIOUS
  <2>2. i \in ValidAt(es) /\ es[i].key = k
    BY <1>4, <1>8, <2>1, SearchSays
  <2>3. PICK e2 : e2 = WithDeleted(es, i)
    OBVIOUS
  <2>4. entries' = e2 /\ size' = n - 1
    BY <1>4, <1>8, <2>1, <2>3, Zenon DEF RemoveKey, WithDeleted
  <2>5. GoodTable(e2, c, u, hashOf) /\ ValidAt(e2) = ValidAt(es) \ {i}
        /\ (\A j \in ValidAt(es) : j # i => e2[j] = es[j])
    <3>1. GoodTable(es, c, u, hashOf)
      BY <1>1, <1>4
    <3>2. SameKeys(c, es, e2, i, ValidAt(es) \ {i})
      BY <1>2, <1>3, <2>2, <2>3, <3>1, EntryDeleted
    <3>3. GoodTable(e2, c, u, hashOf)
      BY <1>2, <1>3, <2>2, <3>1, <3>2, StaysGood
    <3>4. \A j \in ValidAt(es) : j \in 0..c-1
      BY <1>3, <1>4, TableParts
    <3>5. QED
      BY <3>2, <3>3, <3>4, Zenon DEF SameKeys
  <2>6. \A j, m \in ValidAt(es) : es[j].key = es[m].key => j = m
    BY <1>1, <1>4, Zenon DEF GoodTable
  <2>7. Agrees(e2, s2)
    <3>1. ASSUME NEW j \in Keys
          PROVE  s2[j] # Empty <=> \E m \in ValidAt(e2) : e2[m].key = j
      <4>1. st[j] # Empty <=> \E m \in ValidAt(es) : es[m].key = j
        BY <1>2, <1>4, Zenon DEF Agrees
      <4>2. ASSUME NEW m \in ValidAt(e2), e2[m].key = j
            PROVE  m \in ValidAt(es) /\ es[m].key = j /\ j # k
        <5>1. m \in ValidAt(es) /\ m # i /\ e2[m] = es[m]
          BY <2>5
        <5>2. QED
          BY <2>2, <2>6, <4>2, <5>1, Zenon
      <4>3. ASSUME NEW m \in ValidAt(es), es[m].key = j, j # k
            PROVE  m \in ValidAt(e2) /\ e2[m].key = j
        <5>1. m # i
          BY <2>2, <4>3
        <5>2. QED
          BY <2>5, <4>3, <5>1
      <4>4. CASE j = k
        BY <1>6, <4>2, <4>4, Zenon
      <4>5. CASE j # k
        <5>1. s2[j] = st[j]
          BY <1>6, <4>5
        <5>2. QED
          BY <4>1, <4>2, <4>3, <4>5, <5>1, Zenon
      <4>6. QED
        BY <4>4, <4>5
    <3>2. ASSUME NEW m \in ValidAt(e2)
          PROVE  e2[m].val = s2[e2[m].key]
      <4>1. m \in ValidAt(es) /\ m # i /\ e2[m] = es[m]
        BY <2>5
      <4>2. es[m].key # k /\ es[m].val = st[es[m].key]
        BY <1>2, <1>4, <2>2, <2>6, <4>1, Zenon DEF Agrees
      <4>3. es[m].key \in Keys
        BY <1>3, <1>4, <4>1, TableParts
      <4>4. QED
        BY <1>6, <4>1, <4>2, <4>3, Zenon
    <3>3. QED
      BY <3>1, <3>2, Zenon DEF Agrees
  <2>8. n - 1 = Cardinality(ValidAt(e2))
    <3>1. IsFiniteSet(ValidAt(es))
      BY <1>3, <1>4, TableParts
    <3>2. Cardinality(ValidAt(es) \ {i}) = n - 1
      BY <1>2, <1>4, <2>2, <3>1, FS_RemoveElement
    <3>3. QED
      BY <2>5, <3>2, Zenon
  <2>9. QED
    BY <1>6, <1>7, <2>4, <2>5, <2>7, <2>8, InvAfter, Zenon
<1>9. CASE Found(k) = MaxCapacity
  <2>1. st[k] = Empty
    BY <1>4, <1>9, SearchSays
  <2>2. s2 = st
    <3>1. \A j \in Keys : s2[j] = st[j]
      BY <1>6, <2>1
    <3>2. st \in [Keys -> Values \cup {Empty}]
      BY <1>2, <1>4
    <3>3. QED
      BY <1>6, <3>1, <3>2
  <2>3. entries' = es /\ size' = n
    BY <1>4, <1>9, Zenon DEF RemoveKey
  <2>4. GoodTable(es, c, u, hashOf) /\ n = Cardinality(ValidAt(es)) /\ Agrees(es, s2)
    BY <1>1, <1>2, <1>4, <2>2, Zenon
  <2>5. QED
    BY <1>6, <1>7, <2>3, <2>4, InvAfter, Zenon
<1>10. QED
  BY <1>8, <1>9

(* The invariant holds of every set, however its keys collide.               *)
THEOREM SetInvariant == SetSpec => []SetInv
<1>1. SetInit => SetInv
  BY SetStart
<1>2. SetInv /\ [SetNext]_setVars => SetInv'
  <2> SUFFICES ASSUME SetInv, [SetNext]_setVars PROVE SetInv'
    OBVIOUS
  <2>1. ASSUME NEW cap \in {1, 2, 4}, Reserve(cap) PROVE SetInv'
    BY <2>1, ReserveStep
  <2>2. ASSUME NEW k \in Keys, RemoveKey(k) PROVE SetInv'
    BY <2>2, RemoveStep
  <2>3. ASSUME NEW k \in Keys, NEW v \in Values, Insert(k, v) PROVE SetInv'
    BY <2>3, InsertStep
  <2>4. CASE UNCHANGED setVars
    <3>1. /\ hashOf' = hashOf /\ entries' = entries /\ size' = size
          /\ maxProbe' = maxProbe /\ stored' = stored
      BY <2>4 DEF setVars
    <3>2. PICK c \in 0..MaxCapacity : GoodTable(entries, c, maxProbe, hashOf)
      BY Zenon DEF SetInv
    <3>3. QED
      BY <3>1, <3>2, Zenon DEF SetInv
  <2>5. QED
    BY <2>1, <2>2, <2>3, <2>4, Zenon DEF SetNext
<1>3. QED
  BY <1>1, <1>2, PTL DEF SetSpec

LEMMA KeysCounted ==
  ASSUME NEW es, NEW S, IsFiniteSet(S), NEW P, P = {es[i].key : i \in S},
         \A i, j \in S : es[i].key = es[j].key => i = j
  PROVE  Cardinality(P) = Cardinality(S)
<1> DEFINE g == [i \in S |-> es[i].key]
<1>1. g \in [S -> P] /\ \A i \in S : g[i] = es[i].key
  OBVIOUS
<1> HIDE DEF g
<1>2. \A y \in P : \E i \in S : g[i] = y
  BY <1>1
<1>3. g \in Bijection(S, P)
  <2>1. g \in Surjection(S, P)
    BY <1>1, <1>2 DEF Surjection
  <2>2. g \in Injection(S, P)
    BY <1>1 DEF Injection, IsInjective
  <2>3. QED
    BY <2>1, <2>2 DEF Bijection
<1>4. ExistsBijection(S, P)
  BY <1>3 DEF ExistsBijection
<1>5. QED
  BY <1>4, FS_Bijection

(* However keys collide, whatever was removed and however often the table    *)
(* grew: a key is found with the value stored last, a removed one is not,    *)
(* the size is their number, and an iteration meets each of them once.       *)
THEOREM SetAlwaysAgrees == SetSpec => []SetAgrees
<1>1. SetInv => SetAgrees
  <2> SUFFICES ASSUME SetInv PROVE SetAgrees
    OBVIOUS
  <2>1. PICK c \in 0..MaxCapacity : GoodTable(entries, c, maxProbe, hashOf)
    BY Zenon DEF SetInv
  <2>2. Agrees(entries, stored) /\ size = Cardinality(ValidAt(entries))
    BY Zenon DEF SetInv
  <2>3. PICK valid, present : valid = ValidAt(entries) /\ present = {k \in Keys : stored[k] # Empty}
    OBVIOUS
  <2>4. IsFiniteSet(valid) /\ \A i \in valid : entries[i].key \in Keys
    <3>1. c \in Nat
      BY SetAssumptions
    <3>2. entries \in [0..c-1 -> TableEntry \cup {Empty}]
      BY <2>1, Zenon DEF GoodTable
    <3>3. QED
      BY <2>3, <3>1, <3>2, TableParts
  <2>5. {entries[i].key : i \in valid} = present
    <3>1. ASSUME NEW k PROVE k \in {entries[i].key : i \in valid} <=> k \in present
      BY <2>2, <2>3, <2>4, Zenon DEF Agrees
    <3>2. QED
      BY <3>1, Zenon
  <2>6. Cardinality(present) = Cardinality(valid)
    <3>1. \A i, j \in valid : entries[i].key = entries[j].key => i = j
      BY <2>1, <2>3, Zenon DEF GoodTable
    <3>2. QED
      BY <2>4, <2>5, <3>1, KeysCounted
  <2>7. ASSUME NEW k \in Keys
        PROVE  IF stored[k] = Empty THEN Found(k) = MaxCapacity
               ELSE Found(k) # MaxCapacity /\ entries[Found(k)].val = stored[k]
    BY SearchSays
  <2>8. valid = {i \in DOMAIN entries : IsValid(entries[i])}
    BY <2>3, Zenon DEF ValidAt
  <2>9. size = Cardinality(present) /\ Cardinality(valid) = size
    BY <2>2, <2>3, <2>6
  <2>10. QED
    BY <2>3, <2>5, <2>7, <2>8, <2>9, Zenon DEF SetAgrees
<1>2. QED
  BY <1>1, SetInvariant, PTL

(* The search of insert for a place ends: among as many probes as the table  *)
(* has entries one is free, also when all of them were used once             *)
(* (hash_set.hpp:152 asks for a capacity that is a power of 2, 180-238).     *)
PlaceForAll == \A k \in Keys : FreeProbes(Room.es, k) # {}

THEOREM InsertEnds == SetSpec => []PlaceForAll
<1>1. SetInv => PlaceForAll
  <2> SUFFICES ASSUME SetInv, NEW k \in Keys PROVE FreeProbes(Room.es, k) # {}
    BY Zenon DEF PlaceForAll
  <2>0. PICK d \in Nat \ {0} : \E e1, w : Roomy(Room, d, e1, w)
    BY RoomMade, Zenon
  <2>1. PICK e1, w : Roomy(Room, d, e1, w)
    BY <2>0, Zenon
  <2>2. /\ Room.es = e1 /\ GoodTable(e1, d, w, hashOf)
        /\ Cardinality(ValidAt(e1)) < d
    <3>1. /\ Room = [es |-> e1, n |-> size, probe |-> w]
          /\ GoodTable(e1, d, w, hashOf) /\ Cardinality(ValidAt(e1)) < d
      BY <2>1, Zenon DEF Roomy
    <3>2. QED
      BY <3>1
  <2>3. OddCancels(d) /\ e1 \in [0..d-1 -> TableEntry \cup {Empty}]
    <3>1. d > 0
      OBVIOUS
    <3>2. QED
      BY <2>2, <3>1, Zenon DEF GoodTable
  <2>4. hashOf[k] \in Nat
    BY DEF SetInv
  <2>5. PICK i \in 0..d-1 : Probe(d, hashOf[k], i) \notin ValidAt(e1)
    BY <2>2, <2>3, <2>4, RoomFound
  <2>6. /\ DOMAIN e1 = 0..d-1 /\ ElemIndex(e1, hashOf[k], i) = Probe(d, hashOf[k], i)
        /\ Probe(d, hashOf[k], i) \in 0..d-1
    <3>1. d \in Nat /\ i \in Nat
      OBVIOUS
    <3>2. Probe(d, hashOf[k], i) \in 0..d-1
      BY <2>4, <3>1, ProbeInTable
    <3>3. QED
      BY <2>3, <3>1, <3>2, TableParts
  <2>7. i \in FreeProbes(e1, k)
    BY <2>5, <2>6, Zenon DEF FreeProbes, ValidAt
  <2>8. QED
    BY <2>2, <2>7, Zenon
<1>2. QED
  BY <1>1, SetInvariant, PTL
=============================================================================
