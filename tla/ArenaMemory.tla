----------------------------- MODULE ArenaMemory -----------------------------
(***************************************************************************)
(* Arenas and the growing arrays in them (ntk/src/arena.c,                 *)
(* ntk/include/ntk/arena.h, dyn_array.h, string_builder.h).                *)
(*                                                                         *)
(* An arena gives out memory from the bottom up.  Only its last block can  *)
(* grow in place or be given back; every other one is copied when it grows,*)
(* and stays where it is when it is freed.  A frame remembers the top, and *)
(* popping it takes back all that was given out since.                     *)
(*                                                                         *)
(* A client writes its own mark into every byte it uses: the i-th byte of  *)
(* block b is <<b, i>>.  It uses a block in the frame it was made in, and  *)
(* asks of a block only to grow.  Running out of memory ends the program.  *)
(***************************************************************************)
EXTENDS Naturals, Sequences

CONSTANTS
  Blocks,          (* names of a client's blocks                            *)
  Size,            (* bytes of the arena                                    *)
  Items,           (* sizes of an item, which are its alignment too         *)
  InitialCapacity, (* NKDA_INITIAL_CAPACITY                                 *)
  MaxFrames,       (* bound: frames inside of each other                    *)
  Free             (* no block; a byte that nobody wrote                    *)

ASSUME ArenaAssumptions ==
  Size \in Nat /\ Items \subseteq Nat \ {0} /\ InitialCapacity \in Nat /\ MaxFrames \in Nat

VARIABLES
  top,     (* NkArena.size                                                  *)
  bytes,   (* the contents of the arena                                     *)
  blocks,  (* the array of a name: data, capacity and size, in items        *)
  frames,  (* the frames that are open: the tops at their start             *)
  trapped  (* nk_trap: there was not enough memory                          *)

arenaVars == <<top, bytes, blocks, frames, trapped>>

Least(x, y) == IF x < y THEN x ELSE y
Most(x, y) == IF x < y THEN y ELSE x

(* nk_ceilToPowerOf2, which makes 0 of 0.                                    *)
CeilToPowerOf2(n) ==
  LET powers == {p \in n..2 * n : \E k \in 0..p : p = 2^k}
  IN IF powers = {} THEN 0 ELSE CHOOSE p \in powers : \A q \in powers : p <= q

(* allocAlignedRaw: where a padded block goes when t is the top.             *)
Aligned(t, align) == t + ((align - (t % align)) % align)

(* NkAllocatorMode_Realloc: whether the block is the last one, and the copy. *)
(* Mutant: the copy is forgotten.                                            *)
IsLast(at, len) == at + len = top
CopyNothing(mem, from, to, len) == mem
Copy(mem, from, to, len) ==
  [i \in DOMAIN mem |-> IF to <= i /\ i < to + len THEN mem[from + (i - to)] ELSE mem[i]]

Write(mem, b, at, first, last) ==
  [i \in DOMAIN mem |-> IF at + first <= i /\ i < at + last THEN <<b, i - at>> ELSE mem[i]]

(* nk_arena_pop: what is above the top is nobody's (poisoned).               *)
Poison(mem, t) == [i \in DOMAIN mem |-> IF i < t THEN mem[i] ELSE Free]

-----------------------------------------------------------------------------
ArenaInit ==
  /\ top = 0
  /\ bytes = [i \in 0..Size - 1 |-> Free]
  /\ blocks = [b \in Blocks |-> Free]
  /\ frames = <<>>
  /\ trapped = FALSE

(* A block the client may use now.                                           *)
Usable(b) == ~trapped /\ blocks[b] # Free /\ blocks[b].frame = Len(frames)

Trap == trapped' = TRUE /\ UNCHANGED <<top, bytes, blocks, frames>>

(* An array without memory, as NKDA_INIT makes it.                           *)
NewArray(b, item) ==
  /\ ~trapped /\ blocks[b] = Free
  /\ blocks' = [blocks EXCEPT ![b] = [at |-> 0, cap |-> 0, used |-> 0, item |-> item, frame |-> Len(frames)]]
  /\ UNCHANGED <<top, bytes, frames, trapped>>

(* _nkda_maybeGrow: the capacity asked for, cut to what the allocator says.  *)
NewCapacity(a, n) ==
  LET want == CeilToPowerOf2(Most(a.used + n, InitialCapacity))
  IN IF a.used + n <= a.cap THEN a.cap ELSE Most(a.cap, Least(want, a.cap + (Size - top)))

(* nkda_appendMany: grow, and write n items behind the others.  The array    *)
(* without memory is at no address of the arena.                             *)
Grown(b, n, placed) ==
  LET a == blocks[b]
      cap == NewCapacity(a, n)
      grows == cap > a.cap
      inPlace == a.cap > 0 /\ IsLast(a.at, a.cap * a.item)
      at == IF ~grows THEN a.at ELSE IF inPlace THEN a.at ELSE Aligned(top, a.item)
      mem == IF grows /\ ~inPlace THEN Copy(bytes, a.at, at, a.cap * a.item) ELSE bytes
  IN IF at + cap * a.item > Size \/ cap - a.used < placed THEN Trap
     ELSE /\ top' = IF grows THEN at + cap * a.item ELSE top
          /\ bytes' = Write(mem, b, at, a.used * a.item, (a.used + placed) * a.item)
          /\ blocks' = [blocks EXCEPT ![b] = [a EXCEPT !.at = at, !.cap = cap, !.used = @ + placed]]
          /\ UNCHANGED <<frames, trapped>>

AppendMany(b, n) == Usable(b) /\ Grown(b, n, n)

(* nkda_tryAppendMany: as many items as there is room for.                   *)
TryAppendMany(b, n) ==
  /\ Usable(b)
  /\ Grown(b, n, Least(n, NewCapacity(blocks[b], n) - blocks[b].used))

(* nk_vtsprintf: the finished string gives back what it does not use.        *)
Trim(b) ==
  LET a == blocks[b] IN
  /\ Usable(b) /\ a.item = 1 /\ a.cap > a.used /\ IsLast(a.at, a.cap)
  /\ top' = top - (a.cap - a.used)
  /\ blocks' = [blocks EXCEPT ![b].cap = a.used]
  /\ bytes' = Poison(bytes, top')
  /\ UNCHANGED <<frames, trapped>>

(* nkda_free, NkAllocatorMode_Free.                                          *)
FreeArray(b) ==
  LET a == blocks[b] IN
  /\ Usable(b)
  /\ top' = IF a.cap > 0 /\ IsLast(a.at, a.cap * a.item) THEN top - a.cap * a.item ELSE top
  /\ blocks' = [blocks EXCEPT ![b] = Free]
  /\ bytes' = Poison(bytes, top')
  /\ UNCHANGED <<frames, trapped>>

(* nk_arena_grab and nk_arena_popFrame.                                      *)
Grab ==
  /\ ~trapped /\ Len(frames) < MaxFrames
  /\ frames' = Append(frames, top)
  /\ UNCHANGED <<top, bytes, blocks, trapped>>

PopFrame ==
  /\ ~trapped /\ frames # <<>>
  /\ top' = frames[Len(frames)]
  /\ frames' = SubSeq(frames, 1, Len(frames) - 1)
  /\ blocks' = [b \in Blocks |-> IF blocks[b] # Free /\ blocks[b].frame = Len(frames) THEN Free ELSE blocks[b]]
  /\ bytes' = Poison(bytes, top')
  /\ UNCHANGED trapped

ArenaNext ==
  \/ Grab \/ PopFrame
  \/ \E b \in Blocks, item \in Items : NewArray(b, item)
  \/ \E b \in Blocks : Trim(b) \/ FreeArray(b)
  \/ \E b \in Blocks, n \in 1..2 : AppendMany(b, n) \/ TryAppendMany(b, n)

ArenaSpec == ArenaInit /\ [][ArenaNext]_arenaVars

-----------------------------------------------------------------------------
(* Whatever other blocks do, a block is aligned, lies below the top and holds*)
(* what its owner wrote (arena.c:21-87, dyn_array.h:25-81).                  *)
BlocksHold ==
  \A b \in Blocks : blocks[b] # Free =>
    LET a == blocks[b] IN
    /\ a.at % a.item = 0
    /\ a.at + a.cap * a.item <= top
    /\ \A i \in 0..a.used * a.item - 1 : bytes[a.at + i] = <<b, i>>
=============================================================================
