-------------------------- MODULE InterpreterProofs --------------------------
(***************************************************************************)
(* That the interpreter's stack is balanced, its addresses are live, and   *)
(* it does what a stack of calls does, whatever the programs, the          *)
(* translation and the nesting of runs.                                    *)
(*                                                                         *)
(* The host alternates entries (nkir_interp_invoke) and native calls.  A   *)
(* procedure that an entry began has its control frame where the stack     *)
(* ended then, after the argument of the native call below; a procedure    *)
(* called by another has the frame of its caller, the argument and its     *)
(* control frame in a row.                                                 *)
(*                                                                         *)
(* The second half relates these two stacks to the calls of CallStack:     *)
(* where each activation of the host and each frame is among the calls,    *)
(* what of them a step leaves as it was, and which step of CallStack each  *)
(* step of the interpreter is.                                             *)
(***************************************************************************)
EXTENDS Interpreter, ProofFacts

(* The heights of the two stacks, and where an instruction can be.           *)
N == Len(host)
T == Len(stack)
Pcs == [proc : Procs, n : Nat \ {0}]

IsEntry(k) == host[k].kind = "entry"

(* Where the control frame of the run of entry k is.                         *)
BaseOf(k) == IF k = 1 THEN 1 ELSE host[k - 1].frame + 2
IsBase(c) == c \in 1..T /\ stack[c].kind = "ctrl" /\ stack[c].saved.pc = NoPc

IsRegs(r) == r = [frame |-> r.frame, arg |-> r.arg, ret |-> r.ret, pc |-> r.pc, sf |-> r.sf]

(* Registers of a procedure whose control frame is at c.                     *)
RegsOk(r, c) ==
  /\ IsRegs(r)
  /\ r.pc \in Pcs \cup {NoPc}
  /\ c = 0 => r.frame = 0 /\ r.sf = 0 /\ r.arg = NoAddr /\ r.ret = NoAddr
  /\ c # 0 => /\ c \in 1..T /\ stack[c].kind = "ctrl"
              /\ r.frame = c + 1 /\ r.arg = r.ret
              /\ stack[c].saved.pc = NoPc =>
                   /\ r.sf = c - 1
                   /\ \E k \in 1..N : r.ret = OnHost(k) /\ IsEntry(k) /\ BaseOf(k) = c
              /\ stack[c].saved.pc # NoPc => r.sf = c - 2 /\ r.ret = OnStack(c - 1)

CurrentOk == \A r, c : r = reg /\ c = ctrl => RegsOk(r, c)
SavedOk(i) == \A r, c : r = stack[i].saved /\ c = stack[i].next => RegsOk(r, c)

IsBlock(b) == b = Block(b.kind, b.refs, b.saved, b.next, b.var)

BlockOk(i) ==
  /\ IsBlock(stack[i])
  /\ stack[i].kind \in {"ctrl", "frame", "argv"}
  /\ stack[i].kind = "ctrl" =>
       /\ i + 1 \in 1..T /\ stack[i + 1].kind = "frame"
       /\ i = 1 => stack[i].next = 0 /\ stack[i].saved.pc = NoPc
       /\ i # 1 => i >= 4 /\ stack[i - 1].kind = "argv" /\ stack[i].next = i - 3
       /\ SavedOk(i)
  /\ stack[i].kind = "frame" => i >= 2 /\ stack[i - 1].kind = "ctrl"
  /\ stack[i].kind = "argv" => i >= 3 /\ stack[i - 1].kind = "frame" /\ stack[i].refs = OnStack(i - 1)

IsCall(a) ==
  a = [kind |-> a.kind, proc |-> a.proc, var |-> a.var, ret |-> a.ret, frame |-> a.frame,
       pc |-> a.pc, ffi |-> a.ffi, called |-> a.called]

HostOk(k) ==
  /\ IsCall(host[k])
  /\ host[k].proc \in Procs
  /\ IsEntry(k) =>
       /\ k = 1 => host[k].pc = NoPc /\ host[k].ffi = None
       /\ k # 1 => host[k].pc \in Pcs /\ ~IsEntry(k - 1)
       /\ k < N \/ reg.pc # NoPc => IsBase(BaseOf(k))
  /\ ~IsEntry(k) =>
       /\ k # 1 /\ IsEntry(k - 1)
       /\ host[k].frame \in Nat /\ BaseOf(k - 1) < host[k].frame
       /\ host[k].ret = OnStack(host[k].frame)
       /\ \A l \in 1..N : k < l /\ ~IsEntry(l) => host[k].frame + 3 <= host[l].frame

TopOk ==
  /\ CurrentOk /\ ctrl \in Nat
  /\ N = 0 => T = 0 /\ ctrl = 0 /\ reg.pc = NoPc /\ ffi = None
  /\ N # 0 /\ IsEntry(N) /\ reg.pc # NoPc => ctrl # 0 /\ T = ctrl + 1
  /\ N # 0 /\ IsEntry(N) /\ reg.pc = NoPc =>
       /\ N = 1 => T = 0 /\ ctrl = 0
       /\ N # 1 => T = ctrl + 2 /\ ctrl # 0 /\ T = host[N - 1].frame + 1
  /\ N # 0 /\ ~IsEntry(N) => reg.pc # NoPc /\ ctrl # 0 /\ T = ctrl + 2 /\ T = host[N].frame + 1

BalanceInv ==
  /\ IsSeq(stack) /\ IsSeq(host) /\ ir \in Programs
  /\ \A i \in 1..T : BlockOk(i)
  /\ \A k \in 1..N : HostOk(k)
  /\ TopOk

-----------------------------------------------------------------------------
(* Sequences.                                                                *)
LEMMA PopParts ==
  ASSUME NEW s, IsSeq(s), NEW n \in 0..Len(s), NEW t, t = PopTo(s, n)
  PROVE  /\ IsSeq(t)
         /\ Len(t) = n
         /\ \A i \in 1..n : t[i] = s[i]
<1> DEFINE S == Range(s)
<1>1. s \in Seq(S) /\ n \in Nat /\ n <= Len(s)
  BY SeqParts DEF IsSeq
<1> HIDE DEF S
<1>2. \A i \in 1..n : s[i] \in S
  BY <1>1
<1>3. /\ t \in Seq(S)
      /\ Len(t) = IF 1 <= n THEN n - 1 + 1 ELSE 0
      /\ \A i \in 1..n-1+1 : t[i] = s[1 + i - 1]
  BY <1>1, <1>2, SubSeqProperties DEF PopTo
<1>4. n - 1 + 1 = n /\ \A i \in 1..n : 1 + i - 1 = i
  BY <1>1
<1>5. Len(t) = n /\ \A i \in 1..n : t[i] = s[i]
  <2>1. ~(1 <= n) => n = 0
    BY <1>1
  <2>2. \A i \in 1..n : t[1 + i - 1] = t[i] /\ s[1 + i - 1] = s[i]
    BY <1>4
  <2>3. QED
    BY <1>3, <1>4, <2>1, <2>2
<1>6. QED
  BY <1>3, <1>5, SeqOfAnything

JoinedTwo(s, x, y) == s \o <<x, y>>

LEMMA SeqJoinTwo ==
  ASSUME NEW s, IsSeq(s), NEW x, NEW y, NEW t, t = JoinedTwo(s, x, y)
  PROVE  /\ IsSeq(t)
         /\ Len(t) = Len(s) + 2
         /\ \A i \in 1..Len(s) : t[i] = s[i]
         /\ t[Len(s) + 1] = x /\ t[Len(s) + 2] = y
<1> DEFINE S == Range(s) \cup {x, y}
<1>1. s \in Seq(S) /\ x \in S /\ y \in S
  BY SeqMonotonic DEF IsSeq
<1> HIDE DEF S
<1>2. /\ t \in Seq(S) /\ Len(t) = Len(s) + 2
      /\ \A i \in 1..Len(s) : t[i] = s[i]
      /\ t[Len(s) + 1] = x /\ t[Len(s) + 2] = y
  BY <1>1 DEF JoinedTwo
<1>3. QED
  BY <1>2, SeqOfAnything

-----------------------------------------------------------------------------
(* What the invariant says of the order of things on the two stacks.         *)
LEMMA Sizes ==
  ASSUME BalanceInv
  PROVE  T \in Nat /\ N \in Nat /\ DOMAIN stack = 1..T /\ DOMAIN host = 1..N
BY SeqParts DEF BalanceInv, T, N

LEMMA BaseIsNumber ==
  ASSUME BalanceInv, NEW k \in 1..N, IsEntry(k)
  PROVE  /\ BaseOf(k) \in Nat \ {0}
         /\ k # 1 => k - 1 \in 1..N /\ ~IsEntry(k - 1) /\ BaseOf(k) = host[k - 1].frame + 2
<1>1. N \in Nat
  BY Sizes
<1>2. CASE k = 1
  BY <1>2 DEF BaseOf
<1>3. CASE k # 1
  <2>1. k - 1 \in 1..N /\ ~IsEntry(k - 1)
    <3>1. HostOk(k)
      BY DEF BalanceInv
    <3>2. QED
      BY <1>1, <1>3, <3>1 DEF HostOk
  <2>2. host[k - 1].frame \in Nat
    <3>1. HostOk(k - 1)
      BY <2>1 DEF BalanceInv
    <3>2. QED
      BY <2>1, <3>1 DEF HostOk
  <2>3. QED
    BY <1>3, <2>1, <2>2 DEF BaseOf
<1>4. QED
  BY <1>2, <1>3

(* The native call after an entry is above the base of its run.              *)
LEMMA BaseBelowNative ==
  ASSUME BalanceInv, NEW k \in 1..N, IsEntry(k), NEW l \in 1..N, ~IsEntry(l), k < l
  PROVE  /\ host[l].frame \in Nat
         /\ BaseOf(k) < host[l].frame
<1>1. N \in Nat
  BY Sizes
<1>2. k + 1 \in 1..N
  BY <1>1
<1>3. ~IsEntry(k + 1)
  <2>1. SUFFICES ASSUME IsEntry(k + 1) PROVE FALSE
    OBVIOUS
  <2>2. ~IsEntry(k + 1 - 1)
    BY <1>1, <1>2, <2>1, BaseIsNumber
  <2>3. QED
    BY <1>1, <2>2
<1>4. HostOk(k + 1) /\ HostOk(l)
  BY <1>2 DEF BalanceInv
<1>5. host[k + 1].frame \in Nat /\ BaseOf(k) < host[k + 1].frame /\ host[l].frame \in Nat
  <2>1. k + 1 - 1 = k
    BY <1>1
  <2>2. QED
    BY <1>3, <1>4, <2>1 DEF HostOk
<1>6. k + 1 < l => host[k + 1].frame + 3 <= host[l].frame
  BY <1>3, <1>4 DEF HostOk
<1>7. BaseOf(k) \in Nat
  BY BaseIsNumber
<1>8. k + 1 = l \/ k + 1 < l
  BY <1>1
<1>9. QED
  BY <1>5, <1>6, <1>7, <1>8

LEMMA BaseOrder ==
  ASSUME BalanceInv, NEW k \in 1..N, IsEntry(k), NEW l \in 1..N, IsEntry(l), k < l
  PROVE  BaseOf(k) + 3 <= BaseOf(l)
<1>1. N \in Nat /\ BaseOf(k) \in Nat /\ BaseOf(l) \in Nat
  BY Sizes, BaseIsNumber
<1>2. l - 1 \in 1..N /\ ~IsEntry(l - 1) /\ BaseOf(l) = host[l - 1].frame + 2
  BY <1>1, BaseIsNumber
<1>3. k < l - 1
  BY <1>1, <1>2
<1>4. host[l - 1].frame \in Nat /\ BaseOf(k) < host[l - 1].frame
  BY <1>2, <1>3, BaseBelowNative
<1>5. QED
  BY <1>1, <1>2, <1>4

(* The block that was pushed last.                                           *)
LEMMA LastBlock ==
  ASSUME BalanceInv
  PROVE  /\ T # 0 => stack[T].kind # "ctrl"
         /\ ctrl # 0 => ctrl \in 1..T /\ stack[ctrl].kind = "ctrl" /\ ctrl + 1 \in 1..T
                        /\ stack[ctrl + 1].kind = "frame"
         /\ ctrl # 0 /\ T = ctrl + 2 => stack[T].kind = "argv"
<1>1. T \in Nat /\ ctrl \in Nat
  BY Sizes DEF BalanceInv, TopOk
<1>2. \A i \in 1..T : stack[i].kind = "ctrl" => i + 1 \in 1..T /\ stack[i + 1].kind = "frame"
  BY DEF BalanceInv, BlockOk
<1>3. T # 0 => stack[T].kind # "ctrl"
  BY <1>1, <1>2
<1>4. ctrl # 0 => ctrl \in 1..T /\ stack[ctrl].kind = "ctrl"
  BY DEF BalanceInv, TopOk, CurrentOk, RegsOk
<1>5. ASSUME ctrl # 0, T = ctrl + 2 PROVE stack[T].kind = "argv"
  <2>1. T \in 1..T /\ T - 1 = ctrl + 1 /\ stack[ctrl + 1].kind = "frame"
    BY <1>1, <1>2, <1>4, <1>5
  <2>2. stack[T].kind \in {"ctrl", "frame", "argv"} /\ (stack[T].kind = "frame" => stack[T - 1].kind = "ctrl")
    BY <2>1 DEF BalanceInv, BlockOk
  <2>3. QED
    BY <1>1, <1>3, <1>5, <2>1, <2>2
<1>6. QED
  BY <1>2, <1>3, <1>4, <1>5

-----------------------------------------------------------------------------
(* What a step keeps: the first m blocks but for variables, the first h      *)
(* calls of the host but for variables and whether closures were called.     *)
BlockLike(b, c) ==
  IsBlock(b) /\ b.kind = c.kind /\ b.refs = c.refs /\ b.saved = c.saved /\ b.next = c.next
CallLike(a, b) ==
  /\ IsCall(a) /\ a.kind = b.kind /\ a.proc = b.proc /\ a.ret = b.ret
  /\ a.frame = b.frame /\ a.pc = b.pc /\ a.ffi = b.ffi

KeptBlock(i) == BlockLike(stack'[i], stack[i])
KeptCall(k) == CallLike(host'[k], host[k])
Kept(m, h) ==
  /\ IsSeq(stack') /\ IsSeq(host')
  /\ m \in 0..T /\ m \in 0..T' /\ h \in 0..N /\ h \in 0..N'
  /\ \A i \in 1..m : KeptBlock(i)
  /\ \A k \in 1..h : KeptCall(k)

(* Every run whose control frame is kept is one of an entry that is kept.    *)
Covered(m, h) == \A k \in 1..N : IsEntry(k) /\ BaseOf(k) <= m => k <= h

LEMMA KeptEntry ==
  ASSUME BalanceInv, NEW m, NEW h, Kept(m, h), NEW k \in 1..h
  PROVE  /\ k \in 1..N /\ k \in 1..N' /\ IsEntry(k)' = IsEntry(k) /\ BaseOf(k)' = BaseOf(k)
         /\ k # 1 => k - 1 \in 1..h /\ IsEntry(k - 1)' = IsEntry(k - 1)
         /\ host'[k].frame = host[k].frame
<1>1. N \in Nat /\ h \in Nat /\ h <= N /\ h \in 0..N'
  BY Sizes DEF Kept
<1>2. N' \in Nat
  BY SeqParts DEF Kept, N
<1>3. \A l \in 1..h : host'[l].kind = host[l].kind /\ host'[l].frame = host[l].frame
  BY DEF Kept, KeptCall, CallLike
<1>4. \A l \in 1..h : IsEntry(l)' = IsEntry(l)
  BY <1>3 DEF IsEntry
<1>5. k # 1 => k - 1 \in 1..h
  BY <1>1
<1>6. BaseOf(k)' = BaseOf(k)
  BY <1>3, <1>5 DEF BaseOf
<1>7. QED
  BY <1>1, <1>2, <1>3, <1>4, <1>5, <1>6

LEMMA KeptRegs ==
  ASSUME BalanceInv, NEW m, NEW h, Kept(m, h), Covered(m, h), NEW r, NEW c \in 0..m, RegsOk(r, c)
  PROVE  RegsOk(r, c)'
<1>1. m \in Nat /\ m \in 0..T' /\ T' \in Nat
  BY SeqParts DEF Kept, T
<1>2. CASE c = 0
  BY <1>2 DEF RegsOk
<1>3. CASE c # 0
  <2>1. c \in 1..m /\ c \in 1..T'
    BY <1>1, <1>3
  <2>2. stack'[c].kind = stack[c].kind /\ stack'[c].saved = stack[c].saved
    BY <2>1 DEF Kept, KeptBlock, BlockLike
  <2>3. ASSUME stack[c].saved.pc = NoPc
        PROVE  \E k \in 1..N' : r.ret = OnHost(k) /\ IsEntry(k)' /\ BaseOf(k)' = c
    <3>1. PICK k \in 1..N : r.ret = OnHost(k) /\ IsEntry(k) /\ BaseOf(k) = c
      BY <1>3, <2>3 DEF RegsOk
    <3>2. k \in 1..h
      <4>1. BaseOf(k) <= m
        BY <1>1, <2>1, <3>1
      <4>2. k <= h /\ h \in Nat
        BY <3>1, <4>1 DEF Covered, Kept
      <4>3. QED
        BY <4>2
    <3>3. QED
      BY <3>1, <3>2, KeptEntry
  <2>4. /\ IsRegs(r) /\ r.pc \in Pcs \cup {NoPc}
        /\ stack[c].kind = "ctrl" /\ r.frame = c + 1 /\ r.arg = r.ret
        /\ stack[c].saved.pc = NoPc => r.sf = c - 1
        /\ stack[c].saved.pc # NoPc => r.sf = c - 2 /\ r.ret = OnStack(c - 1)
    BY <1>3 DEF RegsOk
  <2>5. QED
    BY <1>3, <2>1, <2>2, <2>3, <2>4 DEF RegsOk
<1>4. QED
  BY <1>2, <1>3

LEMMA KeptBlocks ==
  ASSUME BalanceInv, NEW m, NEW h, Kept(m, h), Covered(m, h), m # 0 => stack[m].kind # "ctrl"
  PROVE  \A i \in 1..m : BlockOk(i)'
<1>1. m \in Nat /\ m \in 0..T' /\ T' \in Nat /\ m \in 0..T /\ T \in Nat
  BY Sizes, SeqParts DEF Kept, T
<1> SUFFICES ASSUME NEW i \in 1..m PROVE BlockOk(i)'
  OBVIOUS
<1>2. BlockOk(i) /\ i \in 1..T /\ i \in 1..T'
  BY <1>1 DEF BalanceInv
<1>3. \A j \in 1..m : /\ stack'[j].kind = stack[j].kind /\ stack'[j].refs = stack[j].refs
                      /\ stack'[j].saved = stack[j].saved /\ stack'[j].next = stack[j].next
  BY DEF Kept, KeptBlock, BlockLike
<1>4. i # 1 => i - 1 \in 1..m
  BY <1>1
<1>5. IsBlock(stack'[i])
  BY DEF Kept, KeptBlock, BlockLike
<1>6. ASSUME stack[i].kind = "ctrl"
      PROVE  /\ i + 1 \in 1..T' /\ stack'[i + 1].kind = "frame"
             /\ i = 1 => stack'[i].next = 0 /\ stack'[i].saved.pc = NoPc
             /\ i # 1 => i >= 4 /\ stack'[i - 1].kind = "argv" /\ stack'[i].next = i - 3
             /\ SavedOk(i)'
  <2>1. i + 1 \in 1..m
    BY <1>1, <1>6
  <2>2. /\ stack[i + 1].kind = "frame"
        /\ i = 1 => stack[i].next = 0 /\ stack[i].saved.pc = NoPc
        /\ i # 1 => i >= 4 /\ stack[i - 1].kind = "argv" /\ stack[i].next = i - 3
        /\ SavedOk(i)
    BY <1>2, <1>6 DEF BlockOk
  <2>3. stack[i].next \in 0..m
    BY <1>1, <2>2
  <2>4. SavedOk(i)'
    <3>1. SUFFICES ASSUME NEW r, NEW c, r = stack'[i].saved, c = stack'[i].next PROVE RegsOk(r, c)'
      BY DEF SavedOk
    <3>2. RegsOk(r, c) /\ c \in 0..m
      BY <1>3, <2>2, <2>3, <3>1 DEF SavedOk
    <3>3. QED
      BY <3>2, KeptRegs
  <2>5. /\ i + 1 \in 1..T' /\ stack'[i + 1].kind = "frame"
        /\ i = 1 => stack'[i].next = 0 /\ stack'[i].saved.pc = NoPc
    BY <1>1, <1>3, <2>1, <2>2
  <2>6. i # 1 => i >= 4 /\ stack'[i - 1].kind = "argv" /\ stack'[i].next = i - 3
    BY <1>3, <1>4, <2>2
  <2>7. QED
    BY <2>4, <2>5, <2>6
<1>7. /\ stack[i].kind = "frame" => i >= 2 /\ stack[i - 1].kind = "ctrl"
      /\ stack[i].kind = "argv" => i >= 3 /\ stack[i - 1].kind = "frame" /\ stack[i].refs = OnStack(i - 1)
      /\ stack[i].kind \in {"ctrl", "frame", "argv"}
  BY <1>2 DEF BlockOk
<1>8. /\ stack'[i].kind = "frame" => i >= 2 /\ stack'[i - 1].kind = "ctrl"
      /\ stack'[i].kind = "argv" => i >= 3 /\ stack'[i - 1].kind = "frame" /\ stack'[i].refs = OnStack(i - 1)
      /\ stack'[i].kind \in {"ctrl", "frame", "argv"}
  BY <1>3, <1>4, <1>7
<1>9. stack'[i].kind = stack[i].kind
  BY <1>3
<1>10. QED
  BY <1>5, <1>6, <1>8, <1>9 DEF BlockOk

LEMMA KeptCalls ==
  ASSUME BalanceInv, NEW m, NEW h, Kept(m, h),
         \A k \in 1..h : IsEntry(k) /\ (k < N' \/ reg'.pc # NoPc)
                           => (k < N \/ reg.pc # NoPc) /\ BaseOf(k) <= m,
         \A k \in 1..h, l \in h+1..N' : ~IsEntry(k) /\ ~IsEntry(l)' => host[k].frame + 3 <= host'[l].frame
  PROVE  \A k \in 1..h : HostOk(k)'
<1>1. m \in Nat /\ m \in 0..T' /\ T' \in Nat /\ m \in 0..T /\ h \in Nat /\ N' \in Nat
  BY Sizes, SeqParts DEF Kept, T, N
<1> SUFFICES ASSUME NEW k \in 1..h PROVE HostOk(k)'
  OBVIOUS
<1>2. HostOk(k) /\ k \in 1..N
  BY KeptEntry DEF BalanceInv
<1>3. \A l \in 1..h : l \in 1..N /\ IsEntry(l)' = IsEntry(l) /\ BaseOf(l)' = BaseOf(l)
                      /\ host'[l].frame = host[l].frame
  BY KeptEntry
<1>4. k # 1 => k - 1 \in 1..h
  BY KeptEntry
<1>5. /\ IsCall(host'[k]) /\ host'[k].proc = host[k].proc /\ host'[k].ret = host[k].ret
      /\ host'[k].pc = host[k].pc /\ host'[k].ffi = host[k].ffi
  BY DEF Kept, KeptCall, CallLike
<1>6. ASSUME IsEntry(k), k < N' \/ reg'.pc # NoPc PROVE IsBase(BaseOf(k))'
  <2>1. IsBase(BaseOf(k)) /\ BaseOf(k) <= m
    BY <1>2, <1>6 DEF HostOk
  <2>2. PICK c : c = BaseOf(k) /\ c = BaseOf(k)'
    BY <1>3
  <2>3. c \in 1..m /\ c \in 1..T' /\ stack[c].kind = "ctrl" /\ stack[c].saved.pc = NoPc
    BY <1>1, <2>1, <2>2 DEF IsBase
  <2>4. stack'[c].kind = "ctrl" /\ stack'[c].saved.pc = NoPc
    BY <2>3 DEF Kept, KeptBlock, BlockLike
  <2>5. QED
    BY <2>2, <2>3, <2>4 DEF IsBase
<1>7. IsEntry(k) => /\ k = 1 => host'[k].pc = NoPc /\ host'[k].ffi = None
                    /\ k # 1 => host'[k].pc \in Pcs /\ ~IsEntry(k - 1)'
  BY <1>2, <1>3, <1>4, <1>5 DEF HostOk
<1>8. ASSUME ~IsEntry(k)
      PROVE  /\ k # 1 /\ IsEntry(k - 1)'
             /\ host'[k].frame \in Nat /\ BaseOf(k - 1)' < host'[k].frame
             /\ host'[k].ret = OnStack(host'[k].frame)
             /\ \A l \in 1..N' : k < l /\ ~IsEntry(l)' => host'[k].frame + 3 <= host'[l].frame
  <2>1. /\ k # 1 /\ IsEntry(k - 1)
        /\ host[k].frame \in Nat /\ BaseOf(k - 1) < host[k].frame
        /\ host[k].ret = OnStack(host[k].frame)
        /\ \A l \in 1..N : k < l /\ ~IsEntry(l) => host[k].frame + 3 <= host[l].frame
    BY <1>2, <1>8 DEF HostOk
  <2>2. ASSUME NEW l \in 1..N', k < l, ~IsEntry(l)' PROVE host'[k].frame + 3 <= host'[l].frame
    <3>1. CASE l \in 1..h
      BY <1>3, <2>1, <2>2, <3>1
    <3>2. CASE l \notin 1..h
      <4>1. l \in h+1..N'
        BY <1>1, <3>2
      <4>2. QED
        BY <1>3, <1>8, <2>2, <4>1
    <3>3. QED
      BY <3>1, <3>2
  <2>3. QED
    BY <1>3, <1>4, <1>5, <2>1, <2>2
<1>9. host'[k].proc \in Procs
  BY <1>2, <1>5 DEF HostOk
<1>10. IsEntry(k)' = IsEntry(k)
  BY <1>3
<1>11. CASE IsEntry(k)
  BY <1>5, <1>6, <1>7, <1>9, <1>10, <1>11 DEF HostOk
<1>12. CASE ~IsEntry(k)
  BY <1>5, <1>8, <1>9, <1>10, <1>12 DEF HostOk
<1>13. QED
  BY <1>11, <1>12

-----------------------------------------------------------------------------
(* Where the host is, and what is behind the addresses in the registers.     *)
LEMMA TopOfHost ==
  ASSUME BalanceInv
  PROVE  /\ Idle <=> N = 0
         /\ N # 0 => N \in 1..N /\ Last(host) = host[N]
         /\ InLoop <=> N # 0 /\ IsEntry(N)
<1>1. IsSeq(host) /\ N \in Nat
  BY Sizes DEF BalanceInv
<1>2. host = <<>> <=> N = 0
  BY <1>1, EmptySeq DEF IsSeq, N
<1>3. Last(host) = host[N]
  BY DEF Last, N
<1>4. QED
  BY <1>1, <1>2, <1>3 DEF Idle, InLoop, IsEntry

AddressOk(a) == /\ a.at = "stack" => a.i \in 1..T
                /\ a.at = "host" => a.i \in 1..N

LEMMA Addresses ==
  ASSUME BalanceInv, ctrl # 0
  PROVE  AddressOk(Local) /\ reg.arg = reg.ret /\ AddressOk(Cell(reg.ret))
<1>1. ctrl \in 1..T /\ ctrl + 1 \in 1..T /\ T \in Nat /\ stack[ctrl].kind = "ctrl"
  BY LastBlock, Sizes
<1>2. RegsOk(reg, ctrl)
  BY DEF BalanceInv, TopOk, CurrentOk
<1>3. AddressOk(Local)
  BY <1>1, <1>2 DEF RegsOk, AddressOk, Local, OnStack
<1>4. ASSUME stack[ctrl].saved.pc = NoPc PROVE AddressOk(Cell(reg.ret))
  <2>1. PICK k \in 1..N : reg.ret = OnHost(k)
    BY <1>1, <1>2, <1>4 DEF RegsOk
  <2>2. QED
    BY <2>1 DEF AddressOk, Cell, OnHost
<1>5. ASSUME stack[ctrl].saved.pc # NoPc PROVE AddressOk(Cell(reg.ret))
  <2>1. reg.ret = OnStack(ctrl - 1)
    BY <1>1, <1>2, <1>5 DEF RegsOk
  <2>2. ctrl # 1 /\ ctrl >= 4 /\ stack[ctrl - 1].kind = "argv"
    BY <1>1, <1>5 DEF BalanceInv, BlockOk
  <2>3. ctrl - 1 \in 1..T /\ ctrl - 2 \in 1..T /\ ctrl - 1 - 1 = ctrl - 2
    BY <1>1, <2>2
  <2>4. stack[ctrl - 1].refs = OnStack(ctrl - 2)
    BY <2>2, <2>3 DEF BalanceInv, BlockOk
  <2>5. QED
    BY <2>1, <2>3, <2>4 DEF AddressOk, Cell, OnStack
<1>6. reg.arg = reg.ret
  BY <1>1, <1>2 DEF RegsOk
<1>7. QED
  BY <1>3, <1>4, <1>5, <1>6

(* A store changes a variable.                                               *)
LEMMA StoreInBlock ==
  ASSUME NEW b, IsBlock(b), NEW v
  PROVE  BlockLike([b EXCEPT !.var = v], b) /\ [b EXCEPT !.var = v].var = v
<1>1. ASSUME NEW k, NEW r, NEW s, NEW n, NEW w
      PROVE  /\ [Block(k, r, s, n, w) EXCEPT !.var = v] = Block(k, r, s, n, v)
             /\ Block(k, r, s, n, v).kind = k /\ Block(k, r, s, n, v).refs = r
             /\ Block(k, r, s, n, v).saved = s /\ Block(k, r, s, n, v).next = n
             /\ Block(k, r, s, n, v).var = v
  BY DEF Block
<1>2. [b EXCEPT !.var = v] = Block(b.kind, b.refs, b.saved, b.next, v)
  BY <1>1 DEF IsBlock
<1>3. QED
  BY <1>1, <1>2 DEF BlockLike, IsBlock

LEMMA StoreInCall ==
  ASSUME NEW a, IsCall(a), NEW v
  PROVE  /\ CallLike([a EXCEPT !.var = v], a) /\ [a EXCEPT !.var = v].var = v
         /\ CallLike([a EXCEPT !.called = v], a) /\ [a EXCEPT !.called = v].var = a.var
<1> DEFINE C(k, p, w, r, f, c, x, d) ==
             [kind |-> k, proc |-> p, var |-> w, ret |-> r, frame |-> f, pc |-> c, ffi |-> x, called |-> d]
<1>1. ASSUME NEW k, NEW p, NEW w, NEW r, NEW f, NEW c, NEW x, NEW d
      PROVE  /\ [C(k, p, w, r, f, c, x, d) EXCEPT !.var = v] = C(k, p, v, r, f, c, x, d)
             /\ [C(k, p, w, r, f, c, x, d) EXCEPT !.called = v] = C(k, p, w, r, f, c, x, v)
             /\ C(k, p, w, r, f, c, x, d).kind = k /\ C(k, p, w, r, f, c, x, d).proc = p
             /\ C(k, p, w, r, f, c, x, d).var = w /\ C(k, p, w, r, f, c, x, d).ret = r
             /\ C(k, p, w, r, f, c, x, d).frame = f /\ C(k, p, w, r, f, c, x, d).pc = c
             /\ C(k, p, w, r, f, c, x, d).ffi = x /\ C(k, p, w, r, f, c, x, d).called = d
  OBVIOUS
<1>2. a = C(a.kind, a.proc, a.var, a.ret, a.frame, a.pc, a.ffi, a.called)
  BY DEF IsCall
<1>3. \A b : IsCall(b) <=> b = C(b.kind, b.proc, b.var, b.ret, b.frame, b.pc, b.ffi, b.called)
  BY DEF IsCall
<1> HIDE DEF C
<1>4. /\ [a EXCEPT !.var = v] = C(a.kind, a.proc, v, a.ret, a.frame, a.pc, a.ffi, a.called)
      /\ [a EXCEPT !.called = v] = C(a.kind, a.proc, a.var, a.ret, a.frame, a.pc, a.ffi, v)
  BY <1>1, <1>2
<1>5. ASSUME NEW w, NEW d, NEW b, b = C(a.kind, a.proc, w, a.ret, a.frame, a.pc, a.ffi, d)
      PROVE  CallLike(b, a) /\ b.var = w
  <2>1. /\ b.kind = a.kind /\ b.proc = a.proc /\ b.var = w /\ b.ret = a.ret
        /\ b.frame = a.frame /\ b.pc = a.pc /\ b.ffi = a.ffi /\ b.called = d
    BY <1>5 DEF C
  <2>2. IsCall(b)
    BY <1>3, <1>5, <2>1
  <2>3. QED
    BY <2>1, <2>2 DEF CallLike
<1>6. QED
  BY <1>4, <1>5

LEMMA BlocksAfter ==
  ASSUME BalanceInv, NEW a, AddressOk(a), NEW v, NEW s, s = StackAfter(a, v)
  PROVE  IsSeq(s) /\ Len(s) = T /\ \A i \in 1..T : BlockLike(s[i], stack[i])
<1>1. IsSeq(stack) /\ \A i \in 1..T : IsBlock(stack[i])
  BY DEF BalanceInv, BlockOk
<1>2. CASE a.at = "stack"
  <2>1. PICK j : j = a.i /\ j \in 1..T
    BY <1>2 DEF AddressOk
  <2>2. PICK b : b = [stack[j] EXCEPT !.var = v]
    OBVIOUS
  <2>3. s = [stack EXCEPT ![j] = b]
    BY <1>2, <2>1, <2>2 DEF StackAfter
  <2>4. BlockLike(b, stack[j])
    BY <1>1, <2>1, <2>2, StoreInBlock
  <2>5. \A i \in 1..T : BlockLike(stack[i], stack[i])
    BY <1>1 DEF BlockLike
  <2>6. /\ IsSeq(s) /\ Len(s) = T
        /\ \A i \in 1..T : s[i] = IF i = j THEN b ELSE stack[i]
    <3>1. j \in 1..Len(stack) /\ IsSeq(stack)
      BY <1>1, <2>1 DEF T
    <3>2. /\ IsSeq([stack EXCEPT ![j] = b])
          /\ Len([stack EXCEPT ![j] = b]) = Len(stack)
          /\ \A i \in 1..Len(stack) : [stack EXCEPT ![j] = b][i] = IF i = j THEN b ELSE stack[i]
      BY <3>1, SeqUpdate
    <3>3. QED
      BY <2>3, <3>2 DEF T
  <2>7. QED
    BY <2>4, <2>5, <2>6
<1>3. CASE a.at # "stack"
  BY <1>1, <1>3 DEF StackAfter, BlockLike, T
<1>4. QED
  BY <1>2, <1>3

LEMMA CallReplaced ==
  ASSUME BalanceInv, NEW j \in 1..N, NEW b, CallLike(b, host[j])
  PROVE  \A s : s = [host EXCEPT ![j] = b]
                  => IsSeq(s) /\ Len(s) = N /\ \A i \in 1..N : CallLike(s[i], host[i])
<1>1. j \in 1..Len(host) /\ IsSeq(host)
  BY DEF N, BalanceInv
<1>2. /\ IsSeq([host EXCEPT ![j] = b])
      /\ Len([host EXCEPT ![j] = b]) = Len(host)
      /\ \A i \in 1..Len(host) : [host EXCEPT ![j] = b][i] = IF i = j THEN b ELSE host[i]
  BY <1>1, SeqUpdate
<1>3. \A i \in 1..N : CallLike(host[i], host[i])
  BY DEF CallLike, BalanceInv, HostOk
<1>4. QED
  BY <1>2, <1>3 DEF N

LEMMA CallsAfter ==
  ASSUME BalanceInv, NEW a, AddressOk(a), NEW v, NEW s, s = HostAfter(a, v)
  PROVE  IsSeq(s) /\ Len(s) = N /\ \A i \in 1..N : CallLike(s[i], host[i])
<1>1. IsSeq(host) /\ \A i \in 1..N : IsCall(host[i])
  BY DEF BalanceInv, HostOk
<1>2. CASE a.at = "host"
  <2>1. PICK j : j = a.i /\ j \in 1..N
    BY <1>2 DEF AddressOk
  <2>2. PICK b : b = [host[j] EXCEPT !.var = v]
    OBVIOUS
  <2>3. s = [host EXCEPT ![j] = b]
    BY <1>2, <2>1, <2>2 DEF HostAfter
  <2>4. CallLike(b, host[j])
    BY <1>1, <2>1, <2>2, StoreInCall
  <2>5. QED
    BY <2>1, <2>3, <2>4, CallReplaced
<1>3. CASE a.at # "host"
  BY <1>1, <1>3 DEF HostAfter, CallLike, N
<1>4. QED
  BY <1>2, <1>3

LEMMA CallMarked ==
  ASSUME BalanceInv, NEW j \in 1..N, NEW s, s = [host EXCEPT ![j].called = TRUE]
  PROVE  IsSeq(s) /\ Len(s) = N /\ \A i \in 1..N : CallLike(s[i], host[i])
<1>1. PICK b : b = [host[j] EXCEPT !.called = TRUE]
  OBVIOUS
<1>2. s = [host EXCEPT ![j] = b]
  BY <1>1
<1>3. CallLike(b, host[j])
  BY <1>1, StoreInCall DEF BalanceInv, HostOk
<1>4. QED
  BY <1>2, <1>3, CallReplaced

(* The variables of the first m blocks and the first h calls after a store.   *)
Stored(a, v, m, h) ==
  /\ \A i \in 1..m : stack'[i].var = IF a.at = "stack" /\ a.i = i THEN v ELSE stack[i].var
  /\ \A k \in 1..h : host'[k].var = IF a.at = "host" /\ a.i = k THEN v ELSE host[k].var

(* What a store changes.                                                     *)
LEMMA StoresStored ==
  ASSUME BalanceInv, NEW a, AddressOk(a), NEW v, NEW s, s = StackAfter(a, v), NEW t, t = HostAfter(a, v)
  PROVE  /\ \A i \in 1..T : s[i].var = IF a.at = "stack" /\ a.i = i THEN v ELSE stack[i].var
         /\ \A k \in 1..N : t[k].var = IF a.at = "host" /\ a.i = k THEN v ELSE host[k].var
<1>1. CASE a.at = "stack"
  <2>1. PICK j : j = a.i /\ j \in 1..T /\ j \in 1..Len(stack)
    BY <1>1 DEF AddressOk, T
  <2>2. PICK b : b = [stack[j] EXCEPT !.var = v] /\ b.var = v
    <3>1. IsBlock(stack[j])
      BY <2>1 DEF BalanceInv, BlockOk
    <3>2. [stack[j] EXCEPT !.var = v].var = v
      BY <3>1, StoreInBlock
    <3>3. QED
      BY <3>2
  <2>3. s = [stack EXCEPT ![j] = b] /\ t = host
    BY <1>1, <2>1, <2>2 DEF StackAfter, HostAfter
  <2>4. \A i \in 1..Len(stack) : [stack EXCEPT ![j] = b][i] = IF i = j THEN b ELSE stack[i]
    BY <2>1, SeqUpdate DEF BalanceInv
  <2>5. QED
    BY <1>1, <2>1, <2>2, <2>3, <2>4 DEF T
<1>2. CASE a.at = "host"
  <2>1. PICK j : j = a.i /\ j \in 1..N /\ j \in 1..Len(host)
    BY <1>2 DEF AddressOk, N
  <2>2. PICK b : b = [host[j] EXCEPT !.var = v] /\ b.var = v
    <3>1. IsCall(host[j])
      BY <2>1 DEF BalanceInv, HostOk
    <3>2. [host[j] EXCEPT !.var = v].var = v
      BY <3>1, StoreInCall
    <3>3. QED
      BY <3>2
  <2>3. t = [host EXCEPT ![j] = b] /\ s = stack
    BY <1>2, <2>1, <2>2 DEF StackAfter, HostAfter
  <2>4. \A i \in 1..Len(host) : [host EXCEPT ![j] = b][i] = IF i = j THEN b ELSE host[i]
    BY <2>1, SeqUpdate DEF BalanceInv
  <2>5. QED
    BY <1>2, <2>1, <2>2, <2>3, <2>4 DEF N
<1>3. CASE a.at # "stack" /\ a.at # "host"
  BY <1>3 DEF StackAfter, HostAfter
<1>4. QED
  BY <1>1, <1>2, <1>3

(* A procedure is running: the frame of the last control frame is the top.   *)
LEMMA Running ==
  ASSUME BalanceInv, InLoop, reg.pc # NoPc
  PROVE  /\ N \in Nat /\ N \in 1..N /\ IsEntry(N) /\ HostOk(N)
         /\ T \in Nat /\ T \in 1..T /\ ctrl \in 1..T /\ T = ctrl + 1 /\ ctrl # 0
         /\ stack[T].kind = "frame" /\ stack[ctrl].kind = "ctrl" /\ BlockOk(ctrl)
         /\ reg.pc \in Pcs /\ RegsOk(reg, ctrl) /\ Local = OnStack(T)
<1>1. N # 0 /\ N \in 1..N /\ IsEntry(N) /\ N \in Nat /\ T \in Nat
  BY TopOfHost, Sizes
<1>2. ctrl # 0 /\ T = ctrl + 1 /\ RegsOk(reg, ctrl)
  BY <1>1 DEF BalanceInv, TopOk, CurrentOk
<1>3. ctrl \in 1..T /\ stack[ctrl].kind = "ctrl" /\ stack[T].kind = "frame" /\ T \in 1..T
  BY <1>2, LastBlock
<1>4. HostOk(N) /\ BlockOk(ctrl)
  BY <1>1, <1>3 DEF BalanceInv
<1>5. reg.pc \in Pcs /\ Local = OnStack(T)
  BY <1>2 DEF RegsOk, Local
<1>6. QED
  BY <1>1, <1>2, <1>3, <1>4, <1>5

LEMMA PcIsNotNoPc ==
  ASSUME NEW pc \in Pcs
  PROVE  pc # NoPc /\ pc.n \in Nat \ {0} /\ pc.proc \in Procs
         /\ \A n \in Nat \ {0} : [pc EXCEPT !.n = n] \in Pcs
BY DEF Pcs, NoPc

LEMMA RegsWithPc ==
  ASSUME NEW r, NEW c, RegsOk(r, c), NEW pc \in Pcs \cup {NoPc}
  PROVE  RegsOk([r EXCEPT !.pc = pc], c) /\ [r EXCEPT !.pc = pc].pc = pc
<1> DEFINE R(f, a, t, p, s) == [frame |-> f, arg |-> a, ret |-> t, pc |-> p, sf |-> s]
<1>1. r = R(r.frame, r.arg, r.ret, r.pc, r.sf)
  BY DEF RegsOk, IsRegs
<1>2. ASSUME NEW f, NEW a, NEW t, NEW p, NEW s
      PROVE  [R(f, a, t, p, s) EXCEPT !.pc = pc] = R(f, a, t, pc, s)
  OBVIOUS
<1> HIDE DEF R
<1>3. PICK q : q = [r EXCEPT !.pc = pc] /\ q = R(r.frame, r.arg, r.ret, pc, r.sf)
  BY <1>1, <1>2
<1>4. q.frame = r.frame /\ q.arg = r.arg /\ q.ret = r.ret /\ q.pc = pc /\ q.sf = r.sf /\ IsRegs(q)
  BY <1>3 DEF R, IsRegs
<1>5. RegsOk(q, c)
  BY <1>4 DEF RegsOk
<1>6. QED
  BY <1>3, <1>4, <1>5

(* While nothing is popped, what was right stays right.                      *)
LEMMA GrowthKeeps ==
  ASSUME BalanceInv, Kept(T, N), N = 0 \/ reg.pc # NoPc,
         \A k \in 1..N, l \in N+1..N' : ~IsEntry(k) /\ ~IsEntry(l)' => host[k].frame + 3 <= host'[l].frame
  PROVE  /\ \A i \in 1..T : BlockOk(i)'
         /\ \A k \in 1..N : HostOk(k)'
         /\ \A r, c : c \in 0..T /\ RegsOk(r, c) => RegsOk(r, c)'
<1>1. T \in Nat /\ N \in Nat
  BY Sizes
<1>2. Covered(T, N)
  BY <1>1 DEF Covered
<1>3. \A i \in 1..T : BlockOk(i)'
  BY <1>2, KeptBlocks, LastBlock
<1>4. ASSUME NEW k \in 1..N, IsEntry(k) PROVE (k < N \/ reg.pc # NoPc) /\ BaseOf(k) <= T
  <2>1. reg.pc # NoPc
    BY <1>1
  <2>2. IsBase(BaseOf(k))
    BY <1>4, <2>1 DEF BalanceInv, HostOk
  <2>3. QED
    BY <1>1, <2>1, <2>2 DEF IsBase
<1>5. \A k \in 1..N : HostOk(k)'
  BY <1>4, KeptCalls
<1>6. \A r, c : c \in 0..T /\ RegsOk(r, c) => RegsOk(r, c)'
  BY <1>2, KeptRegs
<1>7. QED
  BY <1>3, <1>5, <1>6

-----------------------------------------------------------------------------
(* Instructions that only move values.                                       *)
LEMMA InPlace ==
  ASSUME BalanceInv, InLoop, reg.pc # NoPc, NEW a, AddressOk(a), NEW v, NEW b, AddressOk(b), NEW w,
         stack' = StackAfter(a, v), host' = HostAfter(b, w), NEW pc \in Pcs,
         reg' = [reg EXCEPT !.pc = pc], ctrl' = ctrl, ffi' = ffi, ir' = ir
  PROVE  BalanceInv'
<1>1. /\ N \in Nat /\ N \in 1..N /\ IsEntry(N)
      /\ T \in Nat /\ ctrl \in 1..T /\ T = ctrl + 1 /\ ctrl # 0 /\ RegsOk(reg, ctrl)
  BY Running
<1>2. IsSeq(stack') /\ Len(stack') = T /\ \A i \in 1..T : BlockLike(stack'[i], stack[i])
  BY BlocksAfter
<1>3. IsSeq(host') /\ Len(host') = N /\ \A k \in 1..N : CallLike(host'[k], host[k])
  BY CallsAfter
<1>4. T' = T /\ N' = N
  BY <1>2, <1>3 DEF T, N
<1>5. Kept(T, N)
  BY <1>1, <1>2, <1>3, <1>4 DEF Kept, KeptBlock, KeptCall
<1>6. \A l \in N+1..N' : FALSE
  BY <1>1, <1>4
<1>7. /\ \A i \in 1..T : BlockOk(i)'
      /\ \A k \in 1..N : HostOk(k)'
      /\ \A r, c : c \in 0..T /\ RegsOk(r, c) => RegsOk(r, c)'
  BY <1>5, <1>6, GrowthKeeps
<1>8. CurrentOk'
  <2>1. RegsOk(reg', ctrl) /\ ctrl \in 0..T
    BY <1>1, RegsWithPc
  <2>2. QED
    BY <1>7, <2>1 DEF CurrentOk
<1>9. IsEntry(N)'
  <2>1. host'[N].kind = "entry"
    BY <1>1, <1>3 DEF IsEntry, CallLike
  <2>2. QED
    BY <1>4, <2>1 DEF IsEntry
<1>10. reg'.pc # NoPc
  <2>1. reg'.pc = pc
    BY <1>1, RegsWithPc
  <2>2. QED
    BY <2>1, PcIsNotNoPc
<1>11. TopOk'
  BY <1>1, <1>4, <1>8, <1>9, <1>10 DEF TopOk, BalanceInv
<1>12. QED
  BY <1>2, <1>3, <1>4, <1>7, <1>11 DEF BalanceInv

LEMMA MovesKeep ==
  ASSUME BalanceInv, Get \/ Put \/ Lea \/ Jmpz
  PROVE  BalanceInv'
<1>1. InLoop /\ reg.pc # NoPc
  BY DEF Get, Put, Lea, Jmpz, Executes
<1>2. reg.pc \in Pcs /\ ctrl # 0
  BY <1>1, Running
<1>3. NextPc \in Pcs
  BY <1>2, PcIsNotNoPc DEF NextPc
<1>4. AddressOk(Local) /\ AddressOk(Cell(reg.arg)) /\ AddressOk(NoAddr)
  BY <1>2, Addresses DEF AddressOk, NoAddr
<1>5. \A v : StackAfter(NoAddr, v) = stack /\ HostAfter(NoAddr, v) = host
  BY DEF StackAfter, HostAfter, NoAddr
<1>6. CASE Get
  BY <1>1, <1>3, <1>4, <1>5, <1>6, InPlace DEF Get
<1>7. CASE Put
  BY <1>1, <1>3, <1>4, <1>7, InPlace DEF Put
<1>8. CASE Lea
  BY <1>1, <1>3, <1>4, <1>5, <1>8, InPlace DEF Lea
<1>9. CASE Jmpz
  <2> DEFINE target == Len(ir[reg.pc.proc]) + 1
             pc == IF Load(Local) = 0 THEN [reg.pc EXCEPT !.n = target] ELSE NextPc
  <2>1. reg.pc.proc \in Procs /\ ir \in Programs
    BY <1>2, PcIsNotNoPc DEF BalanceInv
  <2>2. ir[reg.pc.proc] \in Seq(Instructions)
    BY <2>1, ProgramAssumption
  <2>3. target \in Nat \ {0}
    BY <2>2
  <2>4. [reg.pc EXCEPT !.n = target] \in Pcs
    BY <1>2, <2>3, PcIsNotNoPc
  <2>5. pc \in Pcs
    BY <1>3, <2>4
  <2>6. /\ reg' = [reg EXCEPT !.pc = pc]
        /\ stack' = StackAfter(NoAddr, 0) /\ host' = HostAfter(NoAddr, 0)
        /\ ctrl' = ctrl /\ ffi' = ffi /\ ir' = ir
    BY <1>5, <1>9 DEF Jmpz
  <2>7. QED
    BY <1>1, <1>4, <2>5, <2>6, InPlace
<1>10. QED
  BY <1>6, <1>7, <1>8, <1>9

-----------------------------------------------------------------------------
(* Calls.                                                                    *)
LEMMA BlockParts ==
  ASSUME NEW k, NEW r, NEW s, NEW n, NEW w, NEW b, b = Block(k, r, s, n, w)
  PROVE  IsBlock(b) /\ b.kind = k /\ b.refs = r /\ b.saved = s /\ b.next = n /\ b.var = w
BY DEF Block, IsBlock

LEMMA LikeItself ==
  ASSUME BalanceInv
  PROVE  /\ \A i \in 1..T : BlockLike(stack[i], stack[i])
         /\ \A k \in 1..N : CallLike(host[k], host[k])
BY DEF BalanceInv, BlockOk, HostOk, BlockLike, CallLike

LEMMA JumpCallParts ==
  ASSUME NEW mem, IsSeq(mem), NEW saved, NEW p, NEW a, NEW r, NEW sf, JumpCall(mem, saved, p, a, r, sf),
         NEW len, len = Len(mem)
  PROVE  /\ len \in Nat /\ IsSeq(stack') /\ Len(stack') = len + 2
         /\ \A i \in 1..len : stack'[i] = mem[i]
         /\ IsBlock(stack'[len + 1]) /\ stack'[len + 1].kind = "ctrl"
         /\ stack'[len + 1].saved = saved /\ stack'[len + 1].next = ctrl
         /\ IsBlock(stack'[len + 2]) /\ stack'[len + 2].kind = "frame" /\ stack'[len + 2].var = 0
         /\ ctrl' = len + 1
         /\ reg' = [frame |-> len + 2, arg |-> a, ret |-> r, pc |-> [proc |-> p, n |-> 1], sf |-> sf]
<1>1. PICK y : y = Block("ctrl", NoAddr, saved, ctrl, 0)
  OBVIOUS
<1>2. PICK z : z = Block("frame", NoAddr, NoRegs, 0, 0)
  OBVIOUS
<1>3. stack' = JoinedTwo(mem, y, z)
  BY <1>1, <1>2 DEF JumpCall, JoinedTwo
<1>4. /\ IsSeq(stack') /\ Len(stack') = Len(mem) + 2 /\ \A i \in 1..Len(mem) : stack'[i] = mem[i]
      /\ stack'[Len(mem) + 1] = y /\ stack'[Len(mem) + 2] = z
  BY <1>3, SeqJoinTwo
<1>5. /\ IsBlock(y) /\ y.kind = "ctrl" /\ y.saved = saved /\ y.next = ctrl
      /\ IsBlock(z) /\ z.kind = "frame" /\ z.var = 0
  BY <1>1, <1>2, BlockParts
<1>6. ctrl' = len + 1 /\ len \in Nat
      /\ reg' = [frame |-> len + 2, arg |-> a, ret |-> r, pc |-> [proc |-> p, n |-> 1], sf |-> sf]
  BY SeqParts DEF JumpCall
<1>7. QED
  BY <1>4, <1>5, <1>6

(* The registers of a procedure that begins, and its two blocks.             *)
LEMMA CallBlocks ==
  ASSUME BalanceInv, NEW c \in Nat \ {0}, c + 1 \in 1..T',
         IsBlock(stack'[c]), stack'[c].kind = "ctrl",
         IsBlock(stack'[c + 1]), stack'[c + 1].kind = "frame",
         c = 1 => stack'[c].next = 0 /\ stack'[c].saved.pc = NoPc,
         c # 1 => c >= 4 /\ stack'[c - 1].kind = "argv" /\ stack'[c].next = c - 3,
         \A r, d : r = stack'[c].saved /\ d = stack'[c].next => RegsOk(r, d)'
  PROVE  BlockOk(c)' /\ BlockOk(c + 1)'
<1>1. SavedOk(c)'
  BY DEF SavedOk
<1>2. c + 1 - 1 = c
  OBVIOUS
<1>3. BlockOk(c)'
  BY <1>1 DEF BlockOk
<1>4. BlockOk(c + 1)'
  BY <1>2 DEF BlockOk
<1>5. QED
  BY <1>3, <1>4

LEMMA ArgvBlock ==
  ASSUME NEW c \in Nat, c >= 3, IsBlock(stack'[c]), stack'[c].kind = "argv",
         stack'[c].refs = OnStack(c - 1), stack'[c - 1].kind = "frame"
  PROVE  BlockOk(c)'
BY DEF BlockOk

(* A procedure calls another.                                                *)
LEMMA CallJmpParts ==
  ASSUME BalanceInv, NEW p \in Procs, CallJmp(p), NEW t, t = T,
         NEW saved, saved = Saved(NextPc), NEW x, x = Block("argv", OnStack(t), NoRegs, 0, 0)
  PROVE  /\ host' = host /\ ffi' = ffi /\ ir' = ir
         /\ IsSeq(stack') /\ Len(stack') = t + 3 /\ (\A i \in 1..t : stack'[i] = stack[i]) /\ stack'[t + 1] = x
         /\ IsBlock(stack'[t + 2]) /\ stack'[t + 2].kind = "ctrl"
         /\ stack'[t + 2].saved = saved /\ stack'[t + 2].next = ctrl
         /\ IsBlock(stack'[t + 3]) /\ stack'[t + 3].kind = "frame" /\ stack'[t + 3].var = 0
         /\ ctrl' = t + 2
         /\ reg' = [frame |-> t + 3, arg |-> OnStack(t + 1), ret |-> OnStack(t + 1),
                    pc |-> [proc |-> p, n |-> 1], sf |-> t]
<1>1. InLoop /\ reg.pc # NoPc
  BY DEF CallJmp, Executes
<1>2. T \in Nat /\ Local = OnStack(T)
  BY <1>1, Running
<1>3. PICK mem : mem = Append(stack, x)
  OBVIOUS
<1>4. /\ JumpCall(mem, saved, p, OnStack(t + 1), OnStack(t + 1), t)
      /\ host' = host /\ ffi' = ffi /\ ir' = ir
  BY <1>2, <1>3, Zenon DEF CallJmp, T
<1>5. IsSeq(mem) /\ Len(mem) = t + 1 /\ (\A i \in 1..t : mem[i] = stack[i]) /\ mem[t + 1] = x
  BY <1>3, SeqAppend DEF BalanceInv, T
<1>6. PICK len : len = Len(mem) /\ len = t + 1 /\ len + 1 = t + 2 /\ len + 2 = t + 3
  BY <1>2, <1>5
<1>7. /\ IsSeq(stack') /\ Len(stack') = len + 2
      /\ \A i \in 1..len : stack'[i] = mem[i]
      /\ IsBlock(stack'[len + 1]) /\ stack'[len + 1].kind = "ctrl"
      /\ stack'[len + 1].saved = saved /\ stack'[len + 1].next = ctrl
      /\ IsBlock(stack'[len + 2]) /\ stack'[len + 2].kind = "frame" /\ stack'[len + 2].var = 0
      /\ ctrl' = len + 1
      /\ reg' = [frame |-> len + 2, arg |-> OnStack(t + 1), ret |-> OnStack(t + 1),
                 pc |-> [proc |-> p, n |-> 1], sf |-> t]
  BY <1>4, <1>5, <1>6, JumpCallParts
<1>8. t + 1 \in 1..len /\ \A i \in 1..t : i \in 1..len
  BY <1>2, <1>6
<1>9. QED
  BY <1>4, <1>5, <1>6, <1>7, <1>8

LEMMA CallJmpKeeps ==
  ASSUME BalanceInv, NEW p \in Procs, CallJmp(p)
  PROVE  BalanceInv'
<1>1. InLoop /\ reg.pc # NoPc
  BY DEF CallJmp, Executes
<1>2. /\ N \in Nat /\ N \in 1..N /\ IsEntry(N)
      /\ T \in Nat /\ T \in 1..T /\ ctrl \in 1..T /\ T = ctrl + 1 /\ ctrl # 0
      /\ stack[T].kind = "frame" /\ reg.pc \in Pcs /\ RegsOk(reg, ctrl) /\ Local = OnStack(T)
  BY <1>1, Running
<1>3. NextPc \in Pcs /\ NextPc # NoPc
  BY <1>2, PcIsNotNoPc DEF NextPc
<1>4. PICK t : t = T
  OBVIOUS
<1>5. PICK saved : saved = Saved(NextPc)
  OBVIOUS
<1>6. PICK x : x = Block("argv", OnStack(t), NoRegs, 0, 0)
  OBVIOUS
<1>10. /\ host' = host /\ ffi' = ffi /\ ir' = ir
       /\ IsSeq(stack') /\ Len(stack') = t + 3 /\ (\A i \in 1..t : stack'[i] = stack[i]) /\ stack'[t + 1] = x
       /\ IsBlock(stack'[t + 2]) /\ stack'[t + 2].kind = "ctrl"
       /\ stack'[t + 2].saved = saved /\ stack'[t + 2].next = ctrl
       /\ IsBlock(stack'[t + 3]) /\ stack'[t + 3].kind = "frame" /\ stack'[t + 3].var = 0
       /\ ctrl' = t + 2
       /\ reg' = [frame |-> t + 3, arg |-> OnStack(t + 1), ret |-> OnStack(t + 1),
                  pc |-> [proc |-> p, n |-> 1], sf |-> t]
  BY <1>4, <1>5, <1>6, CallJmpParts
<1>11. T' = t + 3 /\ N' = N /\ t \in Nat /\ t = ctrl + 1
  BY <1>2, <1>4, <1>10 DEF T, N
<1>12. Kept(T, N)
  <2>1. IsSeq(host') /\ T \in 0..T' /\ T \in 0..T /\ N \in 0..N /\ N \in 0..N'
    BY <1>2, <1>4, <1>10, <1>11 DEF BalanceInv
  <2>2. QED
    BY <1>4, <1>10, <2>1, LikeItself DEF Kept, KeptBlock, KeptCall
<1>13. \A l \in N+1..N' : FALSE
  BY <1>2, <1>11
<1>14. /\ \A i \in 1..T : BlockOk(i)'
       /\ \A k \in 1..N : HostOk(k)'
       /\ \A r, c : c \in 0..T /\ RegsOk(r, c) => RegsOk(r, c)'
  BY <1>1, <1>12, <1>13, GrowthKeeps
<1>15. saved.pc = NextPc /\ \A r, d : r = saved /\ d = ctrl => RegsOk(r, d)'
  <2>1. RegsOk(saved, ctrl) /\ saved.pc = NextPc
    BY <1>2, <1>3, <1>5, RegsWithPc DEF Saved
  <2>2. ctrl \in 0..T
    BY <1>2
  <2>3. QED
    BY <1>14, <2>1, <2>2
<1>16. BlockOk(t + 1)'
  <2>1. PICK c : c = t + 1 /\ c \in Nat /\ c >= 3 /\ c - 1 = t /\ t \in 1..t
    BY <1>2, <1>4, <1>11
  <2>2. stack'[c - 1].kind = "frame"
    BY <1>2, <1>4, <1>10, <2>1
  <2>3. IsBlock(stack'[c]) /\ stack'[c].kind = "argv" /\ stack'[c].refs = OnStack(c - 1)
    BY <1>6, <1>10, <2>1, BlockParts
  <2>4. QED
    BY <2>1, <2>2, <2>3, ArgvBlock
<1>17. BlockOk(t + 2)' /\ BlockOk(t + 3)'
  <2>1. PICK c : c = t + 2 /\ c \in Nat \ {0} /\ c + 1 = t + 3 /\ c + 1 \in 1..T' /\ c - 1 = t + 1
                 /\ c >= 4 /\ ctrl = c - 3
    BY <1>2, <1>11
  <2>2. stack'[c - 1].kind = "argv"
    BY <1>6, <1>10, <2>1, BlockParts
  <2>3. /\ IsBlock(stack'[c]) /\ stack'[c].kind = "ctrl" /\ stack'[c].next = c - 3 /\ c # 1
        /\ IsBlock(stack'[c + 1]) /\ stack'[c + 1].kind = "frame"
        /\ \A r, d : r = stack'[c].saved /\ d = stack'[c].next => RegsOk(r, d)'
    BY <1>10, <1>15, <2>1
  <2>4. BlockOk(c)' /\ BlockOk(c + 1)'
    BY <2>1, <2>2, <2>3, CallBlocks
  <2>5. QED
    BY <2>1, <2>4
<1>18. \A i \in 1..T' : BlockOk(i)'
  <2>1. \A i \in 1..t+3 : i \in 1..t \/ i = t + 1 \/ i = t + 2 \/ i = t + 3
    BY <1>11
  <2>2. QED
    BY <1>4, <1>11, <1>14, <1>16, <1>17, <2>1
<1>19. reg'.pc \in Pcs /\ reg'.pc # NoPc
  <2>1. reg'.pc = [proc |-> p, n |-> 1]
    BY <1>10
  <2>2. reg'.pc \in Pcs
    BY <2>1 DEF Pcs
  <2>3. QED
    BY <2>2, PcIsNotNoPc
<1>20. CurrentOk'
  <2>1. SUFFICES ASSUME NEW r, NEW c, r = reg', c = ctrl' PROVE RegsOk(r, c)'
    BY DEF CurrentOk
  <2>2. /\ IsRegs(r) /\ r.frame = t + 3 /\ r.arg = r.ret /\ r.ret = OnStack(t + 1) /\ r.sf = t
    BY <1>10, <2>1 DEF IsRegs
  <2>3. c = t + 2 /\ c # 0 /\ c \in 1..T' /\ t + 3 = c + 1 /\ t + 1 = c - 1 /\ t = c - 2
    BY <1>10, <1>11, <2>1
  <2>4. stack'[c].kind = "ctrl" /\ stack'[c].saved.pc # NoPc
    BY <1>3, <1>10, <1>15, <2>3
  <2>5. QED
    BY <1>19, <2>1, <2>2, <2>3, <2>4 DEF RegsOk
<1>21. IsEntry(N)' /\ \A k \in 1..N' : HostOk(k)'
  BY <1>2, <1>10, <1>11, <1>14 DEF IsEntry
<1>22. TopOk'
  <2>1. ctrl' \in Nat /\ ctrl' # 0 /\ T' = ctrl' + 1
    BY <1>10, <1>11
  <2>2. N' # 0 /\ IsEntry(N)' /\ reg'.pc # NoPc
    BY <1>2, <1>11, <1>19, <1>21
  <2>3. QED
    BY <1>20, <2>1, <2>2 DEF TopOk
<1>23. QED
  BY <1>10, <1>18, <1>21, <1>22 DEF BalanceInv

(* A procedure calls native code.                                            *)
LEMMA CallExtParts ==
  ASSUME BalanceInv, NEW p \in Procs, CallExt(p), NEW t, t = T,
         NEW x, x = Block("argv", OnStack(t), NoRegs, 0, 0),
         NEW a, a = Activation(IF Fetch.native THEN "native" ELSE "thunk", p, Load(Local), OnStack(t), t, NoPc, ffi)
  PROVE  /\ reg' = [reg EXCEPT !.pc = NextPc] /\ ctrl' = ctrl /\ ffi' = ffi /\ ir' = ir
         /\ IsSeq(stack') /\ Len(stack') = t + 1 /\ (\A i \in 1..t : stack'[i] = stack[i])
         /\ stack'[t + 1] = x
         /\ IsSeq(host') /\ Len(host') = N + 1 /\ (\A k \in 1..N : host'[k] = host[k])
         /\ host'[N + 1] = a
<1>1. Local = OnStack(T)
  <2>1. InLoop /\ reg.pc # NoPc
    BY DEF CallExt, Executes
  <2>2. QED
    BY <2>1, Running
<1>2. /\ stack' = Append(stack, x) /\ host' = Append(host, a)
      /\ reg' = [reg EXCEPT !.pc = NextPc] /\ ctrl' = ctrl /\ ffi' = ffi /\ ir' = ir
  BY <1>1, Zenon DEF CallExt, T
<1>3. /\ IsSeq(stack') /\ Len(stack') = t + 1 /\ (\A i \in 1..t : stack'[i] = stack[i])
      /\ stack'[t + 1] = x
  BY <1>2, SeqAppend DEF BalanceInv, T
<1>4. /\ IsSeq(host') /\ Len(host') = N + 1 /\ (\A k \in 1..N : host'[k] = host[k])
      /\ host'[N + 1] = a
  BY <1>2, SeqAppend DEF BalanceInv, N
<1>5. QED
  BY <1>2, <1>3, <1>4

LEMMA CallExtKeeps ==
  ASSUME BalanceInv, NEW p \in Procs, CallExt(p)
  PROVE  BalanceInv'
<1>1. InLoop /\ reg.pc # NoPc
  BY DEF CallExt, Executes
<1>2. /\ N \in Nat /\ N \in 1..N /\ IsEntry(N) /\ HostOk(N)
      /\ T \in Nat /\ T \in 1..T /\ ctrl \in 1..T /\ T = ctrl + 1 /\ ctrl # 0
      /\ stack[T].kind = "frame" /\ reg.pc \in Pcs /\ RegsOk(reg, ctrl) /\ Local = OnStack(T)
  BY <1>1, Running
<1>3. NextPc \in Pcs
  BY <1>2, PcIsNotNoPc DEF NextPc
<1>4. PICK t, n : t = T /\ n = N
  OBVIOUS
<1>5. PICK x : x = Block("argv", OnStack(t), NoRegs, 0, 0)
  OBVIOUS
<1>6. PICK a : a = Activation(IF Fetch.native THEN "native" ELSE "thunk", p, Load(Local),
                              OnStack(t), t, NoPc, ffi)
  OBVIOUS
<1>7. /\ reg' = [reg EXCEPT !.pc = NextPc] /\ ctrl' = ctrl /\ ffi' = ffi /\ ir' = ir
      /\ IsSeq(stack') /\ Len(stack') = t + 1 /\ (\A i \in 1..t : stack'[i] = stack[i])
      /\ stack'[t + 1] = x
      /\ IsSeq(host') /\ Len(host') = N + 1 /\ (\A k \in 1..N : host'[k] = host[k])
      /\ host'[N + 1] = a
  BY <1>4, <1>5, <1>6, CallExtParts
<1>10. T' = t + 1 /\ N' = N + 1 /\ t \in Nat /\ t = ctrl + 1
  BY <1>2, <1>4, <1>7 DEF T, N
<1>11. IsCall(a) /\ a.kind # "entry" /\ a.proc = p /\ a.ret = OnStack(t) /\ a.frame = t
  BY <1>6 DEF Activation, IsCall
<1>12. BaseOf(N) \in Nat \ {0} /\ BaseOf(N) < t
  <2>1. BaseOf(N) \in Nat \ {0} /\ IsBase(BaseOf(N))
    BY <1>1, <1>2, BaseIsNumber DEF HostOk
  <2>2. BaseOf(N) # T
    BY <1>2, <2>1 DEF IsBase
  <2>3. BaseOf(N) \in 1..T
    BY <2>1 DEF IsBase
  <2>4. QED
    BY <1>2, <1>4, <2>1, <2>2, <2>3
<1>13. ASSUME NEW k \in 1..N, ~IsEntry(k) PROVE host[k].frame + 3 <= t
  <2>1. k < N /\ HostOk(k) /\ host[k].frame \in Nat
    BY <1>2, <1>13 DEF BalanceInv, HostOk
  <2>2. N - 1 \in 1..N /\ ~IsEntry(N - 1) /\ BaseOf(N) = host[N - 1].frame + 2
    BY <1>2, <2>1, BaseIsNumber
  <2>3. HostOk(N - 1) /\ host[N - 1].frame \in Nat
    BY <2>2 DEF BalanceInv, HostOk
  <2>4. k = N - 1 \/ (k < N - 1 /\ host[k].frame + 3 <= host[N - 1].frame)
    BY <1>2, <1>13, <2>1, <2>2 DEF HostOk
  <2>5. QED
    BY <1>10, <1>12, <2>1, <2>2, <2>3, <2>4
<1>14. Kept(T, N)
  <2>1. T \in 0..T' /\ T \in 0..T /\ N \in 0..N /\ N \in 0..N'
    BY <1>2, <1>4, <1>10
  <2>2. QED
    BY <1>4, <1>7, <2>1, LikeItself DEF Kept, KeptBlock, KeptCall
<1>15. /\ \A i \in 1..T : BlockOk(i)'
       /\ \A k \in 1..N : HostOk(k)'
       /\ \A r, c : c \in 0..T /\ RegsOk(r, c) => RegsOk(r, c)'
  <2>1. \A k \in 1..N, l \in N+1..N' : ~IsEntry(k) /\ ~IsEntry(l)' => host[k].frame + 3 <= host'[l].frame
    <3>1. \A l \in N+1..N' : l = N + 1
      BY <1>2, <1>10
    <3>2. host'[N + 1].frame = t
      BY <1>7, <1>11
    <3>3. QED
      BY <1>13, <3>1, <3>2
  <2>2. QED
    BY <1>1, <1>14, <2>1, GrowthKeeps
<1>16. BlockOk(t + 1)'
  <2>1. PICK c : c = t + 1 /\ c \in Nat /\ c >= 3 /\ c - 1 = t /\ t \in 1..t
    BY <1>2, <1>4, <1>10
  <2>2. stack'[c - 1].kind = "frame"
    BY <1>2, <1>4, <1>7, <2>1
  <2>3. IsBlock(stack'[c]) /\ stack'[c].kind = "argv" /\ stack'[c].refs = OnStack(c - 1)
    BY <1>5, <1>7, <2>1, BlockParts
  <2>4. QED
    BY <2>1, <2>2, <2>3, ArgvBlock
<1>17. \A i \in 1..T' : BlockOk(i)'
  <2>1. \A i \in 1..t+1 : i \in 1..t \/ i = t + 1
    BY <1>10
  <2>2. QED
    BY <1>4, <1>10, <1>15, <1>16, <2>1
<1>18. n \in Nat \ {0} /\ n \in 1..N /\ IsEntry(n)' /\ ~IsEntry(n + 1)' /\ BaseOf(n)' < t
  <2>1. n \in Nat \ {0} /\ n \in 1..N /\ IsEntry(n) /\ BaseOf(n) < t
    BY <1>2, <1>4, <1>12
  <2>2. IsEntry(n)' = IsEntry(n) /\ BaseOf(n)' = BaseOf(n)
    BY <1>14, <2>1, KeptEntry
  <2>3. ~IsEntry(n + 1)'
    BY <1>4, <1>7, <1>11 DEF IsEntry
  <2>4. QED
    BY <2>1, <2>2, <2>3
<1>19. HostOk(n + 1)'
  <2>1. PICK k : k = n + 1 /\ k \in Nat /\ k # 1 /\ k - 1 = n /\ N' = k
    BY <1>4, <1>10, <1>18
  <2>2. host'[k] = a /\ ~IsEntry(k)' /\ IsEntry(k - 1)' /\ BaseOf(k - 1)' < t
    BY <1>4, <1>7, <1>18, <2>1
  <2>3. \A l \in 1..N' : ~(k < l)
    BY <2>1
  <2>4. QED
    BY <1>10, <1>11, <2>1, <2>2, <2>3 DEF HostOk
<1>20. \A k \in 1..N' : HostOk(k)'
  <2>1. \A k \in 1..N' : k \in 1..N \/ k = n + 1
    BY <1>2, <1>4, <1>10
  <2>2. QED
    BY <1>15, <1>19, <2>1
<1>21. reg'.pc \in Pcs /\ reg'.pc # NoPc /\ CurrentOk'
  <2>1. RegsOk(reg', ctrl) /\ ctrl \in 0..T /\ reg'.pc = NextPc
    BY <1>2, <1>3, <1>7, RegsWithPc
  <2>2. CurrentOk'
    BY <1>7, <1>15, <2>1 DEF CurrentOk
  <2>3. QED
    BY <1>3, <2>1, <2>2, PcIsNotNoPc
<1>22. TopOk'
  <2>1. ctrl' \in Nat /\ ctrl' # 0 /\ T' = ctrl' + 2
    BY <1>2, <1>7, <1>10
  <2>2. N' = n + 1 /\ N' # 0 /\ T' = host'[n + 1].frame + 1
    BY <1>2, <1>4, <1>7, <1>10, <1>11
  <2>3. ~IsEntry(N)' /\ T' = host'[N'].frame + 1
    BY <1>18, <2>2 DEF IsEntry
  <2>4. QED
    BY <1>21, <2>1, <2>2, <2>3 DEF TopOk
<1>23. QED
  BY <1>7, <1>7, <1>17, <1>20, <1>22 DEF BalanceInv

(* A run begins.                                                             *)
LEMMA EnteringParts ==
  ASSUME BalanceInv, NEW p, NEW v, NEW callers, IsSeq(callers), Len(callers) = N,
         \A k \in 1..N : CallLike(callers[k], host[k]), InterpInvoke(callers, p, v),
         NEW t, t = T, NEW n, n = N, NEW saved, saved = Saved(NoPc),
         NEW a, a = Activation("entry", p, v, NoAddr, 0, reg.pc, ffi)
  PROVE  /\ IsSeq(stack') /\ Len(stack') = t + 2 /\ (\A i \in 1..t : stack'[i] = stack[i])
         /\ IsBlock(stack'[t + 1]) /\ stack'[t + 1].kind = "ctrl"
         /\ stack'[t + 1].saved = saved /\ stack'[t + 1].next = ctrl
         /\ IsBlock(stack'[t + 2]) /\ stack'[t + 2].kind = "frame" /\ stack'[t + 2].var = 0
         /\ ctrl' = t + 1
         /\ reg' = [frame |-> t + 2, arg |-> OnHost(n + 1), ret |-> OnHost(n + 1),
                    pc |-> [proc |-> p, n |-> 1], sf |-> t]
         /\ IsSeq(host') /\ Len(host') = n + 1 /\ (\A k \in 1..n : CallLike(host'[k], host[k]))
         /\ \A k \in 1..n : host'[k] = callers[k]
         /\ host'[n + 1] = a
<1>1. /\ JumpCall(stack, saved, p, OnHost(n + 1), OnHost(n + 1), t)
      /\ host' = Append(callers, a)
  BY Zenon DEF InterpInvoke, T, N
<1>2. PICK mem, len, cell : mem = stack /\ len = t /\ cell = OnHost(n + 1)
  OBVIOUS
<1>3. IsSeq(mem) /\ len = Len(mem)
  BY <1>2 DEF BalanceInv, T
<1>4. JumpCall(mem, saved, p, cell, cell, len)
  BY <1>1, <1>2
<1>5. /\ IsSeq(stack') /\ Len(stack') = len + 2 /\ (\A i \in 1..len : stack'[i] = mem[i])
      /\ IsBlock(stack'[len + 1]) /\ stack'[len + 1].kind = "ctrl"
      /\ stack'[len + 1].saved = saved /\ stack'[len + 1].next = ctrl
      /\ IsBlock(stack'[len + 2]) /\ stack'[len + 2].kind = "frame" /\ stack'[len + 2].var = 0
      /\ ctrl' = len + 1
      /\ reg' = [frame |-> len + 2, arg |-> cell, ret |-> cell,
                 pc |-> [proc |-> p, n |-> 1], sf |-> len]
  BY <1>3, <1>4, JumpCallParts
<1>6. /\ IsSeq(host') /\ Len(host') = n + 1 /\ (\A k \in 1..n : host'[k] = callers[k])
      /\ host'[n + 1] = a
  BY <1>1, SeqAppend
<1>7. QED
  BY <1>2, <1>5, <1>6

LEMMA EnteringKeeps ==
  ASSUME BalanceInv, N = 0 \/ ~IsEntry(N), NEW p \in Procs, NEW v,
         NEW callers, IsSeq(callers), Len(callers) = N, \A k \in 1..N : CallLike(callers[k], host[k]),
         InterpInvoke(callers, p, v), ir' = ir
  PROVE  BalanceInv'
<1>1. PICK t, n : t = T /\ n = N
  OBVIOUS
<1>2. /\ t \in Nat /\ n \in Nat /\ ctrl \in Nat /\ RegsOk(reg, ctrl)
      /\ n = 0 => t = 0 /\ ctrl = 0 /\ reg.pc = NoPc /\ ffi = None
      /\ n # 0 => /\ n \in 1..N /\ ~IsEntry(n) /\ HostOk(n) /\ reg.pc # NoPc /\ ctrl # 0
                  /\ t = ctrl + 2 /\ t = host[n].frame + 1 /\ t \in 1..T /\ stack[t].kind = "argv"
  <2>1. n # 0 => n \in 1..N /\ t \in Nat /\ n \in Nat
    BY <1>1, Sizes
  <2>2. n # 0 => HostOk(n)
    BY <2>1 DEF BalanceInv
  <2>3. n # 0 => ~IsEntry(n) /\ reg.pc # NoPc /\ ctrl # 0 /\ t = ctrl + 2 /\ t = host[n].frame + 1
    BY <1>1 DEF BalanceInv, TopOk
  <2>4. t \in Nat /\ n \in Nat /\ ctrl \in Nat /\ RegsOk(reg, ctrl)
    BY <1>1, Sizes DEF BalanceInv, TopOk, CurrentOk
  <2>5. n # 0 => t \in 1..T /\ stack[t].kind = "argv"
    BY <1>1, <2>3, <2>4, LastBlock
  <2>6. n = 0 => t = 0 /\ ctrl = 0 /\ reg.pc = NoPc /\ ffi = None
    BY <1>1 DEF BalanceInv, TopOk
  <2>7. QED
    BY <2>1, <2>2, <2>3, <2>4, <2>5, <2>6
<1>3. reg.pc \in Pcs \cup {NoPc}
  BY <1>2 DEF RegsOk
<1>4. PICK saved : saved = Saved(NoPc)
  OBVIOUS
<1>5. PICK a : a = Activation("entry", p, v, NoAddr, 0, reg.pc, ffi)
  OBVIOUS
<1>6. /\ IsSeq(stack') /\ Len(stack') = t + 2 /\ (\A i \in 1..t : stack'[i] = stack[i])
      /\ IsBlock(stack'[t + 1]) /\ stack'[t + 1].kind = "ctrl"
      /\ stack'[t + 1].saved = saved /\ stack'[t + 1].next = ctrl
      /\ IsBlock(stack'[t + 2]) /\ stack'[t + 2].kind = "frame" /\ stack'[t + 2].var = 0
      /\ ctrl' = t + 1
      /\ reg' = [frame |-> t + 2, arg |-> OnHost(n + 1), ret |-> OnHost(n + 1),
                 pc |-> [proc |-> p, n |-> 1], sf |-> t]
      /\ IsSeq(host') /\ Len(host') = n + 1 /\ (\A k \in 1..n : CallLike(host'[k], host[k]))
      /\ host'[n + 1] = a
  BY <1>1, <1>4, <1>5, EnteringParts
<1>9. T' = t + 2 /\ N' = n + 1
  BY <1>6 DEF T, N
<1>10. IsCall(a) /\ a.kind = "entry" /\ a.proc = p /\ a.pc = reg.pc /\ a.ffi = ffi
  BY <1>5 DEF Activation, IsCall
<1>11. Kept(T, N)
  <2>1. T \in 0..T' /\ T \in 0..T /\ N \in 0..N /\ N \in 0..N'
    BY <1>1, <1>2, <1>9
  <2>2. QED
    BY <1>1, <1>6, <2>1, LikeItself DEF Kept, KeptBlock, KeptCall
<1>12. /\ \A i \in 1..T : BlockOk(i)'
       /\ \A k \in 1..N : HostOk(k)'
       /\ \A r, c : c \in 0..T /\ RegsOk(r, c) => RegsOk(r, c)'
  <2>1. \A l \in N+1..N' : IsEntry(l)'
    <3>1. \A l \in N+1..N' : l = n + 1
      BY <1>1, <1>2, <1>9
    <3>2. QED
      BY <1>6, <1>10, <3>1 DEF IsEntry
  <2>2. N = 0 \/ reg.pc # NoPc
    BY <1>1, <1>2
  <2>3. QED
    BY <1>11, <2>1, <2>2, GrowthKeeps
<1>13. saved.pc = NoPc /\ \A r, d : r = saved /\ d = ctrl => RegsOk(r, d)'
  <2>1. RegsOk(saved, ctrl) /\ saved.pc = NoPc
    BY <1>2, <1>4, RegsWithPc DEF Saved
  <2>2. ctrl \in 0..T
    BY <1>1, <1>2
  <2>3. QED
    BY <1>12, <2>1, <2>2
<1>14. BlockOk(t + 1)' /\ BlockOk(t + 2)'
  <2>1. PICK c : c = t + 1 /\ c \in Nat \ {0} /\ c + 1 = t + 2 /\ c + 1 \in 1..T' /\ c - 1 = t
    BY <1>2, <1>9
  <2>2. c = 1 => ctrl = 0
    BY <1>2, <2>1
  <2>3. c # 1 => c >= 4 /\ stack'[c - 1].kind = "argv" /\ ctrl = c - 3
    <3>1. ASSUME c # 1 PROVE c >= 4 /\ ctrl = c - 3 /\ stack[t].kind = "argv" /\ t \in 1..t
      BY <1>2, <2>1, <3>1
    <3>2. QED
      BY <1>6, <2>1, <3>1
  <2>4. BlockOk(c)' /\ BlockOk(c + 1)'
    BY <1>6, <1>13, <2>1, <2>2, <2>3, CallBlocks
  <2>5. QED
    BY <2>1, <2>4
<1>15. \A i \in 1..T' : BlockOk(i)'
  <2>1. \A i \in 1..t+2 : i \in 1..t \/ i = t + 1 \/ i = t + 2
    BY <1>2
  <2>2. QED
    BY <1>1, <1>9, <1>12, <1>14, <2>1
<1>16. reg'.pc \in Pcs /\ reg'.pc # NoPc
  <2>1. reg'.pc = [proc |-> p, n |-> 1]
    BY <1>6
  <2>2. reg'.pc \in Pcs
    BY <2>1 DEF Pcs
  <2>3. QED
    BY <2>2, PcIsNotNoPc
<1>17. IsEntry(n + 1)' /\ BaseOf(n + 1)' = t + 1 /\ (n # 0 => ~IsEntry(n)')
  <2>1. n # 0 => n \in 1..N /\ n \in 1..n
    BY <1>1, <1>2
  <2>2. n # 0 => ~IsEntry(n)' /\ host'[n].frame = host[n].frame
    BY <1>2, <1>11, <2>1, KeptEntry
  <2>3. IsEntry(n + 1)'
    BY <1>6, <1>10 DEF IsEntry
  <2>4. n # 0 => n + 1 # 1 /\ n + 1 - 1 = n /\ host[n].frame + 2 = t + 1
    <3>1. n # 0 => host[n].frame \in Nat
      BY <1>2 DEF HostOk
    <3>2. QED
      BY <1>2, <3>1
  <2>5. BaseOf(n + 1)' = t + 1
    BY <1>2, <2>2, <2>4 DEF BaseOf
  <2>6. QED
    BY <2>2, <2>3, <2>5
<1>18. HostOk(n + 1)'
  <2>1. PICK k : k = n + 1 /\ k \in Nat /\ N' = k /\ (k = 1 <=> n = 0) /\ k - 1 = n
    BY <1>2, <1>9
  <2>2. host'[k] = a /\ IsEntry(k)' /\ BaseOf(k)' = t + 1
    BY <1>6, <1>17, <2>1
  <2>3. k = 1 => host'[k].pc = NoPc /\ host'[k].ffi = None
    BY <1>2, <1>10, <2>1, <2>2
  <2>4. k # 1 => host'[k].pc \in Pcs /\ ~IsEntry(k - 1)'
    BY <1>2, <1>3, <1>10, <1>17, <2>1, <2>2
  <2>5. IsBase(BaseOf(k))'
    <3>1. PICK c : c = t + 1 /\ c \in 1..T'
      BY <1>2, <1>9
    <3>2. stack'[c].kind = "ctrl" /\ stack'[c].saved.pc = NoPc
      BY <1>6, <1>13, <3>1
    <3>3. BaseOf(k)' = c
      BY <2>2, <3>1
    <3>4. QED
      BY <3>1, <3>2, <3>3 DEF IsBase
  <2>6. HostOk(k)'
    BY <1>10, <2>2, <2>3, <2>4, <2>5 DEF HostOk
  <2>7. QED
    BY <2>1, <2>6
<1>19. \A k \in 1..N' : HostOk(k)'
  <2>1. \A k \in 1..N' : k \in 1..N \/ k = n + 1
    BY <1>1, <1>2, <1>9
  <2>2. QED
    BY <1>12, <1>18, <2>1
<1>20. CurrentOk'
  <2>1. SUFFICES ASSUME NEW r, NEW c, r = reg', c = ctrl' PROVE RegsOk(r, c)'
    BY DEF CurrentOk
  <2>2. /\ IsRegs(r) /\ r.frame = t + 2 /\ r.arg = r.ret /\ r.ret = OnHost(n + 1) /\ r.sf = t
    BY <1>6, <2>1 DEF IsRegs
  <2>3. c = t + 1 /\ c # 0 /\ c \in 1..T' /\ t + 2 = c + 1 /\ t = c - 1
    BY <1>2, <1>6, <1>9, <2>1
  <2>4. stack'[c].kind = "ctrl" /\ stack'[c].saved.pc = NoPc
    BY <1>6, <1>13, <2>3
  <2>5. \E k \in 1..N' : r.ret = OnHost(k) /\ IsEntry(k)' /\ BaseOf(k)' = c
    <3>1. n + 1 \in 1..N'
      BY <1>2, <1>9
    <3>2. QED
      BY <1>17, <2>2, <2>3, <3>1
  <2>6. QED
    BY <1>16, <2>1, <2>2, <2>3, <2>4, <2>5 DEF RegsOk
<1>21. TopOk'
  <2>1. ctrl' \in Nat /\ ctrl' # 0 /\ T' = ctrl' + 1 /\ N' # 0
    <3>1. ctrl' = t + 1
      BY <1>6
    <3>2. QED
      BY <1>2, <1>9, <3>1
  <2>2. IsEntry(N)'
    BY <1>9, <1>17 DEF IsEntry
  <2>3. QED
    BY <1>16, <1>20, <2>1, <2>2 DEF TopOk
<1>22. QED
  BY <1>6, <1>15, <1>19, <1>21 DEF BalanceInv

-----------------------------------------------------------------------------
(* Returns.  The run of the innermost entry has its base at or below ctrl.   *)
LEMMA BasesBelow ==
  ASSUME BalanceInv, InLoop, reg.pc # NoPc, NEW k \in 1..N, IsEntry(k)
  PROVE  /\ BaseOf(k) \in 1..ctrl /\ IsBase(BaseOf(k))
         /\ k # N => BaseOf(k) + 3 <= BaseOf(N)
<1>1. N \in 1..N /\ IsEntry(N) /\ T \in Nat /\ T = ctrl + 1 /\ stack[T].kind = "frame"
      /\ N \in Nat /\ ctrl \in 1..T
  BY Running
<1>2. IsBase(BaseOf(k))
  BY DEF BalanceInv, HostOk
<1>3. BaseOf(k) \in 1..T /\ BaseOf(k) # T
  BY <1>1, <1>2 DEF IsBase
<1>4. k # N => k < N
  BY <1>1
<1>5. k # N => BaseOf(k) + 3 <= BaseOf(N)
  BY <1>1, <1>4, BaseOrder
<1>6. BaseOf(k) \in 1..ctrl
  BY <1>1, <1>3
<1>7. QED
  BY <1>2, <1>5, <1>6

(* What `ret` leaves: the blocks below sf and the host as it was.            *)
LEMMA RetParts ==
  ASSUME BalanceInv, Ret, NEW m, m = reg.sf, m \in 0..T
  PROVE  /\ IsSeq(stack') /\ T' = m /\ N' = N /\ IsSeq(host')
         /\ Kept(m, N) /\ Stored(Cell(reg.ret), Load(Local), m, N)
         /\ reg' = stack[ctrl].saved /\ ctrl' = stack[ctrl].next /\ ffi' = ffi /\ ir' = ir
<1>1. InLoop /\ reg.pc # NoPc
  BY DEF Ret, Executes
<1>2. ctrl # 0 /\ N \in Nat /\ T \in Nat
  BY <1>1, Running
<1>3. PICK to, v : to = Cell(reg.ret) /\ v = Load(Local)
  OBVIOUS
<1>4. PICK s : s = StackAfter(to, v)
  OBVIOUS
<1>5. /\ stack' = PopTo(s, m) /\ host' = HostAfter(to, v)
      /\ reg' = stack[ctrl].saved /\ ctrl' = stack[ctrl].next /\ ffi' = ffi /\ ir' = ir
  BY <1>3, <1>4, Zenon DEF Ret
<1>6. AddressOk(to)
  BY <1>2, <1>3, Addresses
<1>7. IsSeq(s) /\ Len(s) = T /\ \A i \in 1..T : BlockLike(s[i], stack[i])
  BY <1>4, <1>6, BlocksAfter
<1>8. IsSeq(host') /\ Len(host') = N /\ \A k \in 1..N : CallLike(host'[k], host[k])
  BY <1>5, <1>6, CallsAfter
<1>9. IsSeq(stack') /\ Len(stack') = m /\ \A i \in 1..m : stack'[i] = s[i]
  <2>1. m \in 0..Len(s)
    BY <1>7
  <2>2. QED
    BY <1>5, <1>7, <2>1, PopParts
<1>10. T' = m /\ N' = N
  BY <1>8, <1>9 DEF T, N
<1>11. Kept(m, N)
  <2>1. m \in 0..T' /\ N \in 0..N /\ N \in 0..N' /\ \A i \in 1..m : i \in 1..T
    BY <1>2, <1>10
  <2>2. QED
    BY <1>7, <1>8, <1>9, <2>1 DEF Kept, KeptBlock, KeptCall
<1>12. Stored(Cell(reg.ret), Load(Local), m, N)
  <2>1. \A i \in 1..m : i \in 1..T
    BY <1>2
  <2>2. PICK z : z = HostAfter(to, v) /\ host' = z
    BY <1>5
  <2>3. /\ \A i \in 1..T : s[i].var = IF to.at = "stack" /\ to.i = i THEN v ELSE stack[i].var
        /\ \A k \in 1..N : z[k].var = IF to.at = "host" /\ to.i = k THEN v ELSE host[k].var
    BY <1>4, <1>6, <2>2, StoresStored
  <2>4. Stored(to, v, m, N)
    BY <1>9, <2>1, <2>2, <2>3 DEF Stored
  <2>5. QED
    BY <1>3, <2>4
<1>13. QED
  BY <1>5, <1>8, <1>9, <1>10, <1>11, <1>12

LEMMA RetKeeps ==
  ASSUME BalanceInv, Ret
  PROVE  BalanceInv'
<1>1. InLoop /\ reg.pc # NoPc
  BY DEF Ret, Executes
<1>2. PICK n, c : n = N /\ c = ctrl
  OBVIOUS
<1>3. /\ n \in Nat /\ n \in 1..N /\ IsEntry(n) /\ n # 0
      /\ T \in Nat /\ c \in 1..T /\ T = c + 1 /\ c # 0 /\ c \in Nat
      /\ stack[T].kind = "frame" /\ stack[c].kind = "ctrl" /\ BlockOk(c)
      /\ reg.pc \in Pcs /\ RegsOk(reg, c)
  BY <1>1, <1>2, Running
<1>4. /\ c = 1 => stack[c].next = 0 /\ stack[c].saved.pc = NoPc
      /\ c # 1 => c >= 4 /\ stack[c - 1].kind = "argv" /\ stack[c].next = c - 3
      /\ \A r, d : r = stack[c].saved /\ d = stack[c].next => RegsOk(r, d)
  BY <1>3 DEF BlockOk, SavedOk
<1>5. PICK m : m = reg.sf
  OBVIOUS
<1>6. PICK r, d : r = stack[c].saved /\ d = stack[c].next
  OBVIOUS
<1>7. RegsOk(r, d) /\ (r.pc \in Pcs \/ r.pc = NoPc)
  BY <1>4, <1>6 DEF RegsOk
<1>8. ASSUME m \in 0..T, d \in 0..m, m # 0 => stack[m].kind # "ctrl",
             \A k \in 1..N : IsEntry(k) /\ (k < N \/ r.pc # NoPc) => BaseOf(k) <= m
      PROVE  /\ \A i \in 1..T' : BlockOk(i)'
             /\ \A k \in 1..N' : HostOk(k)'
             /\ CurrentOk' /\ T' = m /\ N' = N /\ reg' = r /\ ctrl' = d
             /\ IsSeq(stack') /\ IsSeq(host') /\ ir' = ir
             /\ IsEntry(n)' /\ (n # 1 => host'[n - 1].frame = host[n - 1].frame)
  <2>1. /\ IsSeq(stack') /\ T' = m /\ N' = N /\ IsSeq(host') /\ Kept(m, N)
        /\ reg' = r /\ ctrl' = d /\ ir' = ir
    BY <1>2, <1>5, <1>6, <1>8, RetParts
  <2>2. Covered(m, N)
    BY <1>2, <1>3 DEF Covered
  <2>3. \A i \in 1..m : BlockOk(i)'
    BY <1>8, <2>1, <2>2, KeptBlocks
  <2>4. \A k \in 1..N : HostOk(k)'
    <3>1. \A l \in N+1..N' : FALSE
      BY <1>2, <1>3, <2>1
    <3>2. \A k \in 1..N : IsEntry(k) /\ (k < N' \/ reg'.pc # NoPc)
                            => (k < N \/ reg.pc # NoPc) /\ BaseOf(k) <= m
      BY <1>1, <1>8, <2>1
    <3>3. QED
      BY <2>1, <3>1, <3>2, KeptCalls
  <2>5. CurrentOk'
    <3>1. RegsOk(r, d)'
      BY <1>7, <1>8, <2>1, <2>2, KeptRegs
    <3>2. QED
      BY <2>1, <3>1 DEF CurrentOk
  <2>6. IsEntry(n)' /\ (n # 1 => host'[n - 1].frame = host[n - 1].frame)
    <3>1. n \in 1..N
      BY <1>3
    <3>2. n # 1 => n - 1 \in 1..N
      BY <1>2, <1>3
    <3>3. QED
      BY <1>3, <2>1, <3>1, <3>2, KeptEntry
  <2>7. QED
    BY <2>1, <2>3, <2>4, <2>5, <2>6
<1>9. CASE stack[c].saved.pc # NoPc
  <2>1. c >= 4 /\ m = c - 2 /\ d = c - 3 /\ stack[c - 1].kind = "argv"
    BY <1>3, <1>4, <1>5, <1>6, <1>9 DEF RegsOk
  <2>2. m \in 0..T /\ d \in 0..m /\ c - 1 \in 1..T /\ m \in 1..T /\ c - 1 - 1 = m
    BY <1>3, <2>1
  <2>3. stack[m].kind = "frame"
    <3>1. BlockOk(c - 1)
      BY <2>2 DEF BalanceInv
    <3>2. QED
      BY <2>1, <2>2, <3>1 DEF BlockOk
  <2>4. \A k \in 1..N : IsEntry(k) => BaseOf(k) <= m
    <3>1. SUFFICES ASSUME NEW k \in 1..N, IsEntry(k) PROVE BaseOf(k) <= m
      OBVIOUS
    <3>2. BaseOf(k) \in 1..c /\ IsBase(BaseOf(k))
      BY <1>1, <1>2, <3>1, BasesBelow
    <3>3. BaseOf(k) # c /\ BaseOf(k) # c - 1
      BY <1>9, <2>1, <3>2 DEF IsBase
    <3>4. QED
      BY <1>3, <2>1, <3>2, <3>3
  <2>5. /\ \A i \in 1..T' : BlockOk(i)'
        /\ \A k \in 1..N' : HostOk(k)'
        /\ CurrentOk' /\ T' = m /\ N' = N /\ reg' = r /\ ctrl' = d
        /\ IsSeq(stack') /\ IsSeq(host') /\ ir' = ir /\ IsEntry(n)'
    BY <1>8, <2>2, <2>3, <2>4
  <2>6. IsEntry(N)' /\ N' # 0 /\ ctrl' # 0 /\ ctrl' \in Nat /\ T' = ctrl' + 1 /\ reg'.pc # NoPc
    BY <1>2, <1>3, <1>6, <1>9, <2>1, <2>5 DEF IsEntry
  <2>7. TopOk'
    BY <2>5, <2>6 DEF TopOk
  <2>8. QED
    BY <2>5, <2>7 DEF BalanceInv
<1>10. CASE stack[c].saved.pc = NoPc
  <2>1. m = c - 1 /\ d \in 0..m /\ m \in 0..T /\ (m # 0 => c # 1 /\ stack[m].kind = "argv")
    BY <1>3, <1>4, <1>5, <1>6, <1>10 DEF RegsOk
  <2>2. BaseOf(n) = c
    <3>1. PICK k \in 1..N : IsEntry(k) /\ BaseOf(k) = c
      BY <1>3, <1>10 DEF RegsOk
    <3>2. k # n => BaseOf(k) + 3 <= BaseOf(n)
      BY <1>1, <1>2, <3>1, BasesBelow
    <3>3. BaseOf(n) \in 1..c
      BY <1>1, <1>2, <1>3, BasesBelow
    <3>4. QED
      BY <1>3, <3>1, <3>2, <3>3
  <2>3. \A k \in 1..N : IsEntry(k) /\ (k < N \/ r.pc # NoPc) => BaseOf(k) <= m
    <3>1. SUFFICES ASSUME NEW k \in 1..N, IsEntry(k), k < N PROVE BaseOf(k) <= m
      BY <1>6, <1>10
    <3>2. k # N
      BY <1>2, <1>3, <3>1
    <3>3. BaseOf(k) \in 1..c /\ BaseOf(k) + 3 <= c
      BY <1>1, <1>2, <2>2, <3>1, <3>2, BasesBelow
    <3>4. QED
      BY <1>3, <2>1, <3>3
  <2>4. /\ \A i \in 1..T' : BlockOk(i)'
        /\ \A k \in 1..N' : HostOk(k)'
        /\ CurrentOk' /\ T' = m /\ N' = N /\ reg' = r /\ ctrl' = d
        /\ IsSeq(stack') /\ IsSeq(host') /\ ir' = ir
        /\ IsEntry(n)' /\ (n # 1 => host'[n - 1].frame = host[n - 1].frame)
    BY <1>8, <2>1, <2>3
  <2>5. n = 1 => c = 1 /\ T' = 0 /\ ctrl' = 0
    BY <1>3, <1>4, <1>6, <2>1, <2>2, <2>4 DEF BaseOf
  <2>6. ASSUME n # 1 PROVE T' = ctrl' + 2 /\ ctrl' # 0 /\ T' = host'[n - 1].frame + 1
    <3>1. c = host[n - 1].frame + 2 /\ host[n - 1].frame \in Nat
      <4>1. n - 1 \in 1..N /\ ~IsEntry(n - 1)
        BY <1>2, <1>3, <2>6, BaseIsNumber
      <4>2. HostOk(n - 1)
        BY <4>1 DEF BalanceInv
      <4>3. QED
        BY <2>2, <2>6, <4>1, <4>2 DEF BaseOf, HostOk
    <3>2. c # 1 /\ c >= 4 /\ d = c - 3
      BY <1>4, <1>6, <3>1
    <3>3. QED
      BY <1>3, <2>1, <2>4, <2>6, <3>1, <3>2
  <2>7. N' = n /\ IsEntry(N)' /\ N' # 0 /\ ctrl' \in Nat /\ reg'.pc = NoPc
    BY <1>2, <1>3, <1>6, <1>10, <2>1, <2>4 DEF IsEntry
  <2>8. TopOk'
    BY <2>4, <2>5, <2>6, <2>7 DEF TopOk
  <2>9. QED
    BY <2>4, <2>8 DEF BalanceInv
<1>11. QED
  BY <1>9, <1>10

(* A run ends, and native code or the client goes on.                        *)
LEMMA InvokeReturnsParts ==
  ASSUME BalanceInv, InvokeReturns, NEW n, n = N
  PROVE  /\ n \in Nat /\ n # 0 /\ n \in 1..N /\ IsEntry(n) /\ HostOk(n)
         /\ T \in Nat /\ reg.pc = NoPc /\ RegsOk(reg, ctrl) /\ ctrl \in Nat
         /\ reg' = [reg EXCEPT !.pc = host[n].pc] /\ ffi' = host[n].ffi
         /\ stack' = stack /\ ctrl' = ctrl /\ ir' = ir
         /\ IsSeq(host') /\ T' = T /\ N' = n - 1 /\ Kept(T, n - 1)
         /\ n # 1 => Stored(OnHost(n - 1), host[n].var, T, n - 1)
<1>1. n = N
  OBVIOUS
<1>2. /\ n \in Nat /\ n # 0 /\ n \in 1..N /\ IsEntry(n) /\ HostOk(n) /\ Last(host) = host[n] /\ host # <<>>
      /\ T \in Nat /\ reg.pc = NoPc /\ RegsOk(reg, ctrl) /\ ctrl \in Nat
  BY <1>1, TopOfHost, Sizes DEF InvokeReturns, BalanceInv, TopOk, CurrentOk, Idle
<1>3. PICK under : under = SubSeq(host, 1, n - 1)
  OBVIOUS
<1>4. /\ host' = IF n = 1 THEN <<>> ELSE [under EXCEPT ![n - 1].var = host[n].var]
      /\ reg' = [reg EXCEPT !.pc = host[n].pc] /\ ffi' = host[n].ffi
      /\ stack' = stack /\ ctrl' = ctrl /\ ir' = ir
  BY <1>1, <1>2, <1>3, Zenon DEF InvokeReturns, N
<1>5. IsSeq(under) /\ Len(under) = n - 1 /\ \A k \in 1..n-1 : under[k] = host[k]
  <2>1. IsSeq(host)
    BY DEF BalanceInv
  <2>2. n = Len(host)
    BY <1>1 DEF N
  <2>3. under = SubSeq(host, 1, Len(host) - 1)
    BY <1>3, <2>2
  <2>4. IsSeq(under) /\ Len(under) = Len(host) - 1 /\ \A k \in 1..Len(host)-1 : under[k] = host[k]
    BY <1>2, <2>1, <2>3, SeqButLast
  <2>5. QED
    BY <2>2, <2>4
<1>6. /\ IsSeq(host') /\ Len(host') = n - 1 /\ \A k \in 1..n-1 : CallLike(host'[k], host[k])
      /\ \A k \in 1..n-1 : host'[k].var = IF k = n - 1 THEN host[n].var ELSE host[k].var
  <2>1. CASE n = 1
    <3>1. host' = <<>>
      BY <1>4, <2>1
    <3>2. IsSeq(<<>>) /\ Len(<<>>) = 0
      BY EmptySeq DEF IsSeq
    <3>3. QED
      BY <2>1, <3>1, <3>2
  <2>2. CASE n # 1
    <3>1. PICK j : j = n - 1 /\ j \in 1..Len(under) /\ j \in 1..N
      BY <1>1, <1>2, <1>5, <2>2
    <3>2. PICK a : a = [under[j] EXCEPT !.var = host[n].var]
      OBVIOUS
    <3>3. host' = [under EXCEPT ![j] = a]
      BY <1>4, <2>2, <3>1, <3>2
    <3>4. CallLike(a, host[j]) /\ a.var = host[n].var
      <4>1. IsCall(under[j]) /\ under[j] = host[j]
        BY <1>5, <3>1 DEF BalanceInv, HostOk
      <4>2. PICK b, v : b = host[j] /\ v = host[n].var
        OBVIOUS
      <4>3. IsCall(b) /\ a = [b EXCEPT !.var = v]
        BY <3>2, <4>1, <4>2
      <4>4. CallLike(a, b) /\ a.var = v
        BY <4>3, StoreInCall
      <4>5. QED
        BY <4>2, <4>4
    <3>5. IsSeq(under) /\ j \in 1..Len(under)
      BY <1>5, <3>1
    <3>6. IsSeq([under EXCEPT ![j] = a])
      BY <3>5, SeqUpdate
    <3>7. Len([under EXCEPT ![j] = a]) = Len(under)
      BY <3>5, SeqUpdate
    <3>8. \A k \in 1..Len(under) : [under EXCEPT ![j] = a][k] = IF k = j THEN a ELSE under[k]
      BY <3>5, SeqUpdate
    <3>9. \A k \in 1..n-1 : host'[k] = IF k = j THEN a ELSE host[k]
      BY <1>5, <3>3, <3>8
    <3>10. \A k \in 1..n-1 : CallLike(host'[k], host[k])
      <4>1. \A k \in 1..n-1 : k \in 1..N
        BY <1>1, <1>2
      <4>2. QED
        BY <3>4, <3>9, <4>1, LikeItself
    <3>11. \A k \in 1..n-1 : host'[k].var = IF k = n - 1 THEN host[n].var ELSE host[k].var
      BY <3>1, <3>4, <3>9
    <3>12. QED
      BY <1>5, <3>3, <3>6, <3>7, <3>10, <3>11
  <2>3. QED
    BY <2>1, <2>2
<1>7. T' = T /\ N' = n - 1
  BY <1>4, <1>6 DEF T, N
<1>8. Kept(T, n - 1)
  <2>1. T \in 0..T' /\ T \in 0..T /\ n - 1 \in 0..N /\ n - 1 \in 0..N'
    BY <1>1, <1>2, <1>7
  <2>2. IsSeq(stack') /\ \A i \in 1..T : BlockLike(stack'[i], stack[i])
    BY <1>4, LikeItself DEF BalanceInv
  <2>3. QED
    BY <1>6, <2>1, <2>2 DEF Kept, KeptBlock, KeptCall
<1>9. ASSUME n # 1 PROVE Stored(OnHost(n - 1), host[n].var, T, n - 1)
  BY <1>4, <1>6 DEF Stored, OnHost
<1>10. QED
  BY <1>2, <1>4, <1>6, <1>7, <1>8, <1>9

LEMMA InvokeReturnsKeeps ==
  ASSUME BalanceInv, InvokeReturns
  PROVE  BalanceInv'
<1>1. PICK n : n = N
  OBVIOUS
<1>2. /\ n \in Nat /\ n # 0 /\ n \in 1..N /\ IsEntry(n) /\ HostOk(n)
      /\ T \in Nat /\ reg.pc = NoPc /\ RegsOk(reg, ctrl) /\ ctrl \in Nat
  BY <1>1, InvokeReturnsParts
<1>3. /\ n = 1 => T = 0 /\ ctrl = 0
      /\ n # 1 => T = ctrl + 2 /\ ctrl # 0 /\ T = host[n - 1].frame + 1
  BY <1>1, <1>2 DEF BalanceInv, TopOk
<1>4. /\ reg' = [reg EXCEPT !.pc = host[n].pc] /\ ffi' = host[n].ffi
      /\ stack' = stack /\ ctrl' = ctrl /\ ir' = ir
      /\ IsSeq(host') /\ T' = T /\ N' = n - 1 /\ Kept(T, n - 1)
  BY <1>1, InvokeReturnsParts
<1>10. Covered(T, n - 1)
  <2>1. ~(BaseOf(n) <= T)
    <3>1. CASE n = 1
      BY <1>3, <3>1 DEF BaseOf
    <3>2. CASE n # 1
      <4>1. BaseOf(n) = host[n - 1].frame + 2 /\ BaseOf(n) \in Nat
        BY <1>2, <3>2, BaseIsNumber
      <4>2. HostOk(n - 1) /\ ~IsEntry(n - 1)
        BY <1>2, <3>2, BaseIsNumber DEF BalanceInv
      <4>3. host[n - 1].frame \in Nat
        BY <4>2 DEF HostOk
      <4>4. QED
        BY <1>2, <1>3, <3>2, <4>1, <4>3
    <3>3. QED
      BY <3>1, <3>2
  <2>2. \A k \in 1..N : k # n => k <= n - 1
    BY <1>1, <1>2
  <2>3. QED
    BY <2>1, <2>2 DEF Covered
<1>11. \A i \in 1..T' : BlockOk(i)'
  BY <1>4, <1>10, KeptBlocks, LastBlock
<1>12. \A k \in 1..N' : HostOk(k)'
  <2>1. \A l \in n..N' : FALSE
    BY <1>2, <1>4
  <2>2. ASSUME NEW k \in 1..n-1, IsEntry(k) PROVE k < N /\ BaseOf(k) <= T
    <3>1. k < N /\ k \in 1..N
      BY <1>1, <1>2
    <3>2. IsBase(BaseOf(k))
      BY <2>2, <3>1 DEF BalanceInv, HostOk
    <3>3. QED
      BY <1>2, <3>1, <3>2 DEF IsBase
  <2>3. n - 1 + 1 = n
    BY <1>2
  <2>4. QED
    BY <1>4, <2>1, <2>2, <2>3, KeptCalls
<1>13. reg'.pc = host[n].pc /\ CurrentOk'
  <2>1. host[n].pc \in Pcs \cup {NoPc}
    BY <1>2 DEF HostOk
  <2>2. RegsOk(reg', ctrl) /\ reg'.pc = host[n].pc
    BY <1>2, <1>4, <2>1, RegsWithPc
  <2>3. ctrl \in 0..T
    BY <1>2, <1>3
  <2>4. ASSUME NEW r, NEW c, r = reg', c = ctrl' PROVE RegsOk(r, c)'
    <3>1. RegsOk(r, c) /\ c \in 0..T
      BY <1>4, <2>2, <2>3, <2>4
    <3>2. QED
      BY <1>4, <1>10, <3>1, KeptRegs
  <2>5. QED
    BY <2>2, <2>4 DEF CurrentOk
<1>14. TopOk'
  <2>1. ctrl' \in Nat /\ ctrl' = ctrl
    BY <1>2, <1>4
  <2>2. CASE n = 1
    <3>1. N' = 0 /\ T' = 0 /\ ctrl' = 0
      BY <1>3, <1>4, <2>2
    <3>2. reg'.pc = NoPc /\ ffi' = None
      BY <1>2, <1>4, <1>13, <2>2 DEF HostOk
    <3>3. QED
      BY <1>13, <2>1, <3>1, <3>2 DEF TopOk
  <2>3. CASE n # 1
    <3>1. PICK k : k = n - 1 /\ k \in 1..N /\ k \in 1..n-1 /\ k # 0 /\ ~IsEntry(k)
      <4>1. n - 1 \in 1..N /\ ~IsEntry(n - 1)
        BY <1>2, <2>3, BaseIsNumber
      <4>2. n - 1 \in 1..n-1 /\ n - 1 # 0
        BY <1>2, <2>3
      <4>3. QED
        BY <4>1, <4>2
    <3>2. ~IsEntry(k)' /\ host'[k].frame = host[k].frame
      BY <1>4, <3>1 DEF IsEntry, Kept, KeptCall, CallLike
    <3>3. reg'.pc \in Pcs
      BY <1>2, <1>13, <2>3 DEF HostOk
    <3>4. ~IsEntry(N)' /\ N' # 0 /\ reg'.pc # NoPc
      BY <1>4, <3>1, <3>2, <3>3, PcIsNotNoPc DEF IsEntry
    <3>5. T' = ctrl' + 2 /\ ctrl' # 0 /\ T' = host'[N'].frame + 1
      BY <1>3, <1>4, <2>1, <2>3, <3>1, <3>2
    <3>6. QED
      BY <1>13, <2>1, <3>4, <3>5 DEF TopOk
  <2>4. QED
    BY <2>2, <2>3
<1>15. QED
  BY <1>4, <1>11, <1>12, <1>14 DEF BalanceInv

(* Native code returns.                                                      *)
LEMMA NativeReturnsParts ==
  ASSUME BalanceInv, NativeReturns, NEW n, n = N, NEW f, f = host[n].frame
  PROVE  /\ n \in Nat /\ n # 0 /\ n \in 1..N /\ ~IsEntry(n) /\ HostOk(n) /\ n - 1 \in 1..N /\ IsEntry(n - 1)
         /\ reg.pc # NoPc /\ ctrl # 0 /\ T = ctrl + 2 /\ T = f + 1 /\ f = ctrl + 1 /\ f \in Nat
         /\ RegsOk(reg, ctrl) /\ ctrl \in Nat
         /\ reg' = reg /\ ctrl' = ctrl /\ ffi' = ffi /\ ir' = ir
         /\ IsSeq(stack') /\ IsSeq(host') /\ T' = f /\ N' = n - 1 /\ Kept(f, n - 1)
         /\ Stored(OnStack(f), host[n].var, f, n - 1)
<1>1. n = N
  OBVIOUS
<1>2. /\ n \in Nat /\ n # 0 /\ n \in 1..N /\ ~IsEntry(n) /\ HostOk(n) /\ Last(host) = host[n]
      /\ T \in Nat /\ host # <<>>
  <2>1. n # 0 /\ Last(host) = host[n] /\ n \in 1..N /\ n \in Nat /\ T \in Nat /\ host # <<>>
    BY <1>1, TopOfHost, Sizes DEF NativeReturns, Idle
  <2>2. ~IsEntry(n)
    BY <2>1 DEF NativeReturns, IsEntry
  <2>3. QED
    BY <2>1, <2>2 DEF BalanceInv
<1>3. /\ reg.pc # NoPc /\ ctrl # 0 /\ T = ctrl + 2 /\ T = host[n].frame + 1
      /\ RegsOk(reg, ctrl) /\ ctrl \in Nat /\ host[n].frame \in Nat
  BY <1>1, <1>2 DEF BalanceInv, TopOk, CurrentOk, HostOk
<1>4. f = host[n].frame /\ f \in Nat /\ f = ctrl + 1 /\ T = f + 1
  BY <1>3
<1>5. n - 1 \in 1..N /\ IsEntry(n - 1) /\ host[n].ret = OnStack(f)
  BY <1>1, <1>2, <1>4 DEF HostOk
<1>6. PICK v : v = host[n].var
  OBVIOUS
<1>7. PICK s : s = StackAfter(OnStack(f), v)
  OBVIOUS
<1>8. /\ stack' = PopTo(s, f) /\ host' = SubSeq(host, 1, Len(host) - 1)
      /\ reg' = reg /\ ctrl' = ctrl /\ ffi' = ffi /\ ir' = ir
  BY <1>2, <1>4, <1>5, <1>6, <1>7, Zenon DEF NativeReturns
<1>9. AddressOk(OnStack(f))
  BY <1>3, <1>4 DEF AddressOk, OnStack
<1>10. IsSeq(s) /\ Len(s) = T /\ \A i \in 1..T : BlockLike(s[i], stack[i])
  BY <1>7, <1>9, BlocksAfter
<1>11. IsSeq(stack') /\ Len(stack') = f /\ \A i \in 1..f : stack'[i] = s[i]
  <2>1. f \in 0..Len(s)
    BY <1>3, <1>4, <1>10
  <2>2. QED
    BY <1>8, <1>10, <2>1, PopParts
<1>12. IsSeq(host') /\ Len(host') = n - 1 /\ \A k \in 1..n-1 : host'[k] = host[k]
  BY <1>1, <1>2, <1>8, SeqButLast DEF BalanceInv, N
<1>13. T' = f /\ N' = n - 1
  BY <1>11, <1>12 DEF T, N
<1>14. Kept(f, n - 1)
  <2>1. /\ f \in 0..T' /\ f \in 0..T /\ n - 1 \in 0..N /\ n - 1 \in 0..N'
        /\ (\A i \in 1..f : i \in 1..T) /\ (\A k \in 1..n-1 : k \in 1..N)
    BY <1>1, <1>2, <1>4, <1>13
  <2>2. QED
    BY <1>10, <1>11, <1>12, <2>1, LikeItself DEF Kept, KeptBlock, KeptCall
<1>15. Stored(OnStack(f), v, f, n - 1)
  <2>1. \A i \in 1..f : i \in 1..T
    BY <1>3, <1>4
  <2>2. PICK a, z : a = OnStack(f) /\ z = HostAfter(a, v)
    OBVIOUS
  <2>3. \A i \in 1..T : s[i].var = IF a.at = "stack" /\ a.i = i THEN v ELSE stack[i].var
    BY <1>7, <1>9, <2>2, StoresStored
  <2>4. a.at # "host"
    BY <2>2 DEF OnStack
  <2>5. Stored(a, v, f, n - 1)
    BY <1>11, <1>12, <2>1, <2>3, <2>4 DEF Stored
  <2>6. QED
    BY <2>2, <2>5
<1>16. QED
  BY <1>2, <1>3, <1>4, <1>5, <1>6, <1>8, <1>11, <1>12, <1>13, <1>14, <1>15

LEMMA NativeReturnsKeeps ==
  ASSUME BalanceInv, NativeReturns
  PROVE  BalanceInv'
<1>1. PICK n, f : n = N /\ f = host[n].frame
  OBVIOUS
<1>2. /\ n \in Nat /\ n # 0 /\ n \in 1..N /\ ~IsEntry(n) /\ HostOk(n) /\ n - 1 \in 1..N /\ IsEntry(n - 1)
      /\ reg.pc # NoPc /\ ctrl # 0 /\ T = ctrl + 2 /\ T = f + 1 /\ f = ctrl + 1 /\ f \in Nat
      /\ RegsOk(reg, ctrl) /\ ctrl \in Nat
      /\ reg' = reg /\ ctrl' = ctrl /\ ffi' = ffi /\ ir' = ir
      /\ IsSeq(stack') /\ IsSeq(host') /\ T' = f /\ N' = n - 1 /\ Kept(f, n - 1)
  BY <1>1, NativeReturnsParts
<1>15. Covered(f, n - 1)
  <2>1. \A k \in 1..N : k # n => k <= n - 1
    BY <1>1, <1>2
  <2>2. QED
    BY <1>2, <2>1 DEF Covered
<1>16. \A i \in 1..T' : BlockOk(i)'
  <2>1. stack[f].kind = "frame"
    BY <1>2, LastBlock
  <2>2. QED
    BY <1>2, <1>15, <2>1, KeptBlocks
<1>17. \A k \in 1..N' : HostOk(k)'
  <2>1. \A l \in n..N' : FALSE
    BY <1>2
  <2>2. ASSUME NEW k \in 1..n-1, IsEntry(k) PROVE BaseOf(k) <= f
    <3>1. k < n /\ k \in 1..N
      BY <1>1, <1>2
    <3>2. BaseOf(k) < f /\ BaseOf(k) \in Nat
      BY <1>1, <1>2, <2>2, <3>1, BaseBelowNative, BaseIsNumber
    <3>3. QED
      BY <1>2, <3>2
  <2>3. n - 1 + 1 = n
    BY <1>2
  <2>4. QED
    BY <1>2, <2>1, <2>2, <2>3, KeptCalls
<1>18. CurrentOk'
  <2>1. SUFFICES ASSUME NEW r, NEW c, r = reg', c = ctrl' PROVE RegsOk(r, c)'
    BY DEF CurrentOk
  <2>2. RegsOk(r, c) /\ c \in 0..f
    BY <1>2, <2>1
  <2>3. QED
    BY <1>2, <1>15, <2>2, KeptRegs
<1>19. TopOk'
  <2>1. IsEntry(N)' /\ N' # 0
    <3>1. PICK k : k = n - 1 /\ k \in 1..n-1 /\ k # 0 /\ IsEntry(k)
      BY <1>1, <1>2
    <3>2. QED
      BY <1>2, <3>1 DEF IsEntry, Kept, KeptCall, CallLike
  <2>2. ctrl' \in Nat /\ ctrl' # 0 /\ T' = ctrl' + 1 /\ reg'.pc # NoPc
    BY <1>2
  <2>3. QED
    BY <1>18, <2>1, <2>2 DEF TopOk
<1>20. QED
  BY <1>2, <1>16, <1>17, <1>19 DEF BalanceInv

-----------------------------------------------------------------------------
(* From every state of the interpreter every step leads to another such.     *)
LEMMA InitBalanced ==
  ASSUME Init
  PROVE  BalanceInv
<1>1. stack = <<>> /\ host = <<>> /\ ctrl = 0 /\ reg = NoRegs /\ ffi = None /\ ir \in Programs
  BY DEF Init
<1>2. IsSeq(<<>>) /\ Len(<<>>) = 0
  BY EmptySeq DEF IsSeq
<1>3. T = 0 /\ N = 0
  BY <1>1, <1>2 DEF T, N
<1>4. RegsOk(NoRegs, 0)
  BY DEF RegsOk, IsRegs, NoRegs
<1>5. TopOk
  BY <1>1, <1>3, <1>4 DEF TopOk, CurrentOk, NoRegs
<1>6. \A i \in 1..0 : FALSE
  OBVIOUS
<1>7. QED
  BY <1>1, <1>2, <1>3, <1>5, <1>6 DEF BalanceInv

LEMMA StepBalanced ==
  ASSUME BalanceInv, [Next]_vars
  PROVE  BalanceInv'
<1>1. ASSUME UNCHANGED <<ir, interpVars>> PROVE BalanceInv'
  <2>1. /\ stack' = stack /\ ctrl' = ctrl /\ reg' = reg /\ ffi' = ffi /\ host' = host /\ ir' = ir
        /\ N' = N /\ T' = T
    BY <1>1 DEF interpVars, N, T
  <2>2. \A k : /\ IsEntry(k)' = IsEntry(k)
              /\ BaseOf(k)' = BaseOf(k)
              /\ IsBase(k)' = IsBase(k)
    BY <2>1 DEF IsEntry, BaseOf, IsBase
  <2>3. \A k : IsBase(BaseOf(k))' <=> IsBase(BaseOf(k))
    BY <2>1, <2>2 DEF IsBase
  <2>4. \A r, c : RegsOk(r, c)' <=> RegsOk(r, c)
    BY <2>1, <2>2 DEF RegsOk
  <2>5. \A i : SavedOk(i)' <=> SavedOk(i)
    BY <2>1, <2>4 DEF SavedOk
  <2>6. \A i : BlockOk(i)' <=> BlockOk(i)
    BY <2>1, <2>5 DEF BlockOk
  <2>7. \A k : HostOk(k)' <=> HostOk(k)
    BY <2>1, <2>2, <2>3 DEF HostOk
  <2>8. TopOk'
    <3>1. CurrentOk' /\ (IsEntry(N)' <=> IsEntry(N))
      BY <2>1, <2>4 DEF CurrentOk, IsEntry, BalanceInv, TopOk
    <3>2. QED
      BY <2>1, <3>1 DEF TopOk, BalanceInv
  <2>9. QED
    BY <2>1, <2>6, <2>7, <2>8 DEF BalanceInv
<1>2. CASE UNCHANGED vars
  BY <1>1, <1>2 DEF vars
<1>3. CASE SetExternSymAddr
  BY <1>1, <1>3 DEF SetExternSymAddr
<1>4. ASSUME NEW p \in Procs, NEW v \in {0, 1}, Invoke(p, v) PROVE BalanceInv'
  <2>1. (UNCHANGED interpVars \/ InterpInvoke(host, p, v)) /\ ir' = ir
    BY <1>4 DEF Invoke
  <2>2. CASE UNCHANGED interpVars
    BY <1>1, <2>1, <2>2
  <2>3. CASE InterpInvoke(host, p, v)
    <3>1. N = 0 \/ ~IsEntry(N)
      BY <1>4, TopOfHost DEF Invoke, InNative, IsEntry
    <3>2. PICK callers : callers = host
      OBVIOUS
    <3>3. /\ IsSeq(callers) /\ Len(callers) = N /\ \A k \in 1..N : CallLike(callers[k], host[k])
          /\ InterpInvoke(callers, p, v)
      BY <2>3, <3>2, LikeItself DEF BalanceInv, N
    <3>4. QED
      BY <2>1, <3>1, <3>3, EnteringKeeps
  <2>4. QED
    BY <2>1, <2>2, <2>3
<1>5. CASE InvokeReturns
  BY <1>5, InvokeReturnsKeeps
<1>6. CASE Get \/ Put \/ Lea \/ Jmpz
  BY <1>6, MovesKeep
<1>7. ASSUME NEW p \in Procs, CallJmp(p) \/ CallExt(p) PROVE BalanceInv'
  BY <1>7, CallJmpKeeps, CallExtKeeps
<1>8. CASE Ret
  BY <1>8, RetKeeps
<1>9. CASE CallClosure
  <2>1. PICK n : n = N /\ n \in 1..N /\ ~IsEntry(n)
    BY <1>9, TopOfHost DEF CallClosure, IsEntry, N
  <2>2. PICK p, v : p = host[n].proc /\ v = host[n].var
    OBVIOUS
  <2>3. PICK callers : callers = [host EXCEPT ![n].called = TRUE]
    OBVIOUS
  <2>4. HostOk(n)
    BY <2>1 DEF BalanceInv
  <2>5. InterpInvoke(callers, p, v) /\ ir' = ir /\ p \in Procs
    BY <1>9, <2>1, <2>2, <2>3, <2>4 DEF CallClosure, N, HostOk
  <2>6. IsSeq(callers) /\ Len(callers) = N /\ \A k \in 1..N : CallLike(callers[k], host[k])
    BY <2>1, <2>3, CallMarked
  <2>7. QED
    BY <2>1, <2>5, <2>6, EnteringKeeps
<1>10. CASE NativeReturns
  BY <1>10, NativeReturnsKeeps
<1>11. QED
  BY <1>2, <1>3, <1>4, <1>5, <1>6, <1>7, <1>8, <1>9, <1>10 DEF Next

(* What every reachable state of the interpreter looks like.                 *)
THEOREM BalanceInvariant == Spec => []BalanceInv
<1>1. Init => BalanceInv
  BY InitBalanced
<1>2. BalanceInv /\ [Next]_vars => BalanceInv'
  BY StepBalanced
<1>3. QED
  BY <1>1, <1>2, PTL DEF Spec

(* Between runs the interpreter is as it was before the first one, however   *)
(* deep native code and runs were nested.                                    *)
THEOREM RunsAreBalanced == Spec => []BalancedExit
<1>1. BalanceInv => BalancedExit
  <2>1. SUFFICES ASSUME BalanceInv, Idle PROVE stack = <<>> /\ ctrl = 0 /\ reg = NoRegs /\ ffi = None
    BY DEF BalancedExit
  <2>2. T = 0 /\ ctrl = 0 /\ reg.pc = NoPc /\ ffi = None /\ RegsOk(reg, ctrl)
    BY <2>1, TopOfHost DEF BalanceInv, TopOk, CurrentOk
  <2>3. stack = <<>>
    BY <2>1, <2>2, EmptySeq DEF BalanceInv, IsSeq, T
  <2>4. reg = NoRegs
    BY <2>2 DEF RegsOk, IsRegs, NoRegs
  <2>5. QED
    BY <2>2, <2>3, <2>4
<1>2. QED
  BY <1>1, BalanceInvariant, PTL

(* Registers that fit their control frame are live below it.                 *)
LEMMA RegsAreLive ==
  ASSUME BalanceInv, NEW r, NEW c \in Nat, RegsOk(r, c), NEW top \in 0..T, c # 0 => c + 1 <= top
  PROVE  LiveRegs(r, top)
<1>1. T \in Nat /\ top \in Nat
  BY Sizes
<1>2. CASE c = 0
  <2>1. r.frame = 0 /\ r.sf = 0 /\ r.arg = NoAddr /\ r.ret = NoAddr
    BY <1>2 DEF RegsOk
  <2>2. QED
    BY <1>1, <2>1 DEF LiveRegs, LiveAddr, NoAddr
<1>3. CASE c # 0
  <2>1. /\ c \in 1..T /\ c + 1 \in 1..T /\ c - 1 \in 0..top /\ c \in 1..top /\ c + 1 \in 0..top
    BY <1>1, <1>3
  <2>2. stack[c].kind = "ctrl" /\ r.frame = c + 1 /\ r.arg = r.ret
    BY <1>3 DEF RegsOk
  <2>3. BlockOk(c)
    BY <2>1 DEF BalanceInv
  <2>4. stack[c + 1].kind = "frame"
    BY <2>2, <2>3 DEF BlockOk
  <2>5. CASE stack[c].saved.pc = NoPc
    <3>1. r.sf = c - 1
      BY <1>3, <2>5 DEF RegsOk
    <3>2. PICK k \in 1..N : r.ret = OnHost(k)
      BY <1>3, <2>5 DEF RegsOk
    <3>3. LiveAddr(r.ret, top) /\ r.ret.at # "stack"
      BY <3>2, Sizes DEF LiveAddr, OnHost
    <3>4. QED
      BY <2>1, <2>2, <2>4, <3>1, <3>3 DEF LiveRegs
  <2>6. CASE stack[c].saved.pc # NoPc
    <3>1. r.sf = c - 2 /\ r.ret = OnStack(c - 1)
      BY <1>3, <2>6 DEF RegsOk
    <3>2. c # 1 /\ c >= 4 /\ stack[c - 1].kind = "argv"
      BY <2>2, <2>3, <2>6 DEF BlockOk
    <3>3. c - 1 \in 1..T /\ c - 1 \in 1..top /\ c - 2 \in 0..top /\ c - 1 - 1 = c - 2 /\ c - 2 \in 1..c-2
      BY <1>1, <2>1, <3>2
    <3>4. stack[c - 1].refs = OnStack(c - 2)
      BY <3>2, <3>3 DEF BalanceInv, BlockOk
    <3>5. LiveAddr(r.ret, top)
      BY <3>1, <3>3 DEF LiveAddr, OnStack
    <3>6. Cell(r.ret) = OnStack(c - 2) /\ r.ret.i = c - 1
      BY <3>1, <3>4 DEF Cell, OnStack
    <3>7. LiveAddr(Cell(r.ret), r.ret.i - 1)
      BY <3>3, <3>6 DEF LiveAddr, OnStack
    <3>8. QED
      BY <2>1, <2>2, <2>4, <3>1, <3>3, <3>5, <3>7 DEF LiveRegs
  <2>7. QED
    BY <2>5, <2>6
<1>4. QED
  BY <1>2, <1>3

(* Whatever is popped, nobody holds an address of it.                        *)
THEOREM AddressesAreLive == Spec => []AddressesLive
<1>1. BalanceInv => AddressesLive
  <2>1. SUFFICES ASSUME BalanceInv PROVE AddressesLive
    OBVIOUS
  <2>2. T \in Nat /\ DOMAIN stack = 1..T
    BY <2>1, Sizes
  <2>3. LiveRegs(reg, T)
    <3>1. RegsOk(reg, ctrl) /\ ctrl \in Nat
      BY <2>1 DEF BalanceInv, TopOk, CurrentOk
    <3>2. ctrl # 0 => ctrl + 1 \in 1..T
      BY <2>1, LastBlock
    <3>3. QED
      BY <2>1, <2>2, <3>1, <3>2, RegsAreLive
  <2>4. ASSUME NEW i \in 1..T, stack[i].kind = "ctrl" PROVE LiveRegs(stack[i].saved, i - 1)
    <3>1. BlockOk(i)
      BY <2>1 DEF BalanceInv
    <3>2. PICK r, c : r = stack[i].saved /\ c = stack[i].next
      OBVIOUS
    <3>3. RegsOk(r, c) /\ c \in Nat /\ (c # 0 => c + 1 <= i - 1)
      BY <2>2, <2>4, <3>1, <3>2 DEF BlockOk, SavedOk
    <3>4. LiveRegs(r, i - 1)
      BY <2>1, <2>2, <3>3, RegsAreLive
    <3>5. QED
      BY <3>2, <3>4
  <2>5. QED
    BY <2>2, <2>3, <2>4 DEF AddressesLive, T
<1>2. QED
  BY <1>1, BalanceInvariant, PTL

-----------------------------------------------------------------------------
(* The blocks of the stack come in threes: a control frame, the frame of a   *)
(* procedure, and the argument of what it calls.                             *)
Kind(i) == stack[i].kind

LEMMA NextKind ==
  ASSUME BalanceInv, NEW i \in Nat, i + 1 \in 1..T
  PROVE  /\ i = 0 => Kind(i + 1) = "ctrl"
         /\ i # 0 => /\ Kind(i) = "ctrl" => Kind(i + 1) = "frame"
                     /\ Kind(i) = "frame" => Kind(i + 1) = "argv"
                     /\ Kind(i) = "argv" => Kind(i + 1) = "ctrl"
<1>1. T \in Nat
  BY Sizes
<1>2. PICK l : l = i + 1 /\ l \in 1..T /\ l - 1 = i
  BY <1>1
<1>3. /\ Kind(l) \in {"ctrl", "frame", "argv"}
      /\ Kind(l) = "ctrl" => l = 1 \/ Kind(l - 1) = "argv"
      /\ Kind(l) = "frame" => l >= 2 /\ Kind(l - 1) = "ctrl"
      /\ Kind(l) = "argv" => l >= 3 /\ Kind(l - 1) = "frame"
  BY <1>2, Zenon DEF BalanceInv, BlockOk, Kind
<1>4. CASE i = 0
  BY <1>2, <1>3, <1>4
<1>5. CASE i # 0
  <2>1. i \in 1..T /\ l # 1
    BY <1>1, <1>2, <1>5
  <2>2. Kind(i) = "ctrl" => Kind(l) = "frame"
    BY <2>1, <1>2, Zenon DEF BalanceInv, BlockOk, Kind
  <2>3. QED
    BY <1>2, <1>3, <1>5, <2>1, <2>2
<1>6. QED
  BY <1>4, <1>5

Threes(j) == /\ 3 * j + 1 \in 1..T => Kind(3 * j + 1) = "ctrl"
             /\ 3 * j + 2 \in 1..T => Kind(3 * j + 2) = "frame"
             /\ 3 * j + 3 \in 1..T => Kind(3 * j + 3) = "argv"

LEMMA ThreesFollow ==
  ASSUME BalanceInv, NEW j \in Nat,
         3 * j \in 1..T => Kind(3 * j) = "argv"
  PROVE  Threes(j)
<1>1. T \in Nat
  BY Sizes
<1>2. PICK i : i = 3 * j
  OBVIOUS
<1>3. i \in Nat
  BY <1>2
<1>4. i + 1 \in 1..T => Kind(i + 1) = "ctrl"
  <2>1. i # 0 /\ i + 1 \in 1..T => i \in 1..T
    BY <1>1, <1>3
  <2>2. QED
    BY <1>2, <1>3, <2>1, NextKind
<1>5. i + 2 \in 1..T => Kind(i + 2) = "frame"
  <2>1. PICK l : l = i + 1 /\ l \in Nat /\ l # 0 /\ l + 1 = i + 2
    BY <1>3
  <2>2. l + 1 \in 1..T => l \in 1..T
    BY <1>1, <2>1
  <2>3. QED
    BY <1>4, <2>1, <2>2, NextKind
<1>6. i + 3 \in 1..T => Kind(i + 3) = "argv"
  <2>1. PICK l : l = i + 2 /\ l \in Nat /\ l # 0 /\ l + 1 = i + 3
    BY <1>3
  <2>2. l + 1 \in 1..T => l \in 1..T
    BY <1>1, <2>1
  <2>3. QED
    BY <1>5, <2>1, <2>2, NextKind
<1>7. QED
  BY <1>2, <1>4, <1>5, <1>6 DEF Threes

LEMMA AllThrees ==
  ASSUME BalanceInv
  PROVE  \A j \in 0..T : Threes(j)
<1> DEFINE S == {j \in Nat : Threes(j)}
<1>1. T \in Nat
  BY Sizes
<1>2. 0 \in S
  BY <1>1, ThreesFollow
<1>3. ASSUME NEW j \in 0..T-1, j \in S PROVE j + 1 \in S
  <2>1. PICK k : k = j + 1 /\ k \in Nat /\ 3 * k = 3 * j + 3
    BY <1>1
  <2>2. 3 * k \in 1..T => Kind(3 * k) = "argv"
    BY <1>3, <2>1 DEF Threes
  <2>3. Threes(k)
    BY <2>1, <2>2, ThreesFollow
  <2>4. QED
    BY <2>1, <2>3
<1>4. 0..T \subseteq S
  BY <1>1, <1>2, <1>3, CountingUp
<1>5. QED
  BY <1>4

LEMMA Thirds ==
  ASSUME NEW n \in Nat
  PROVE  \E j \in 0..n : n = 3 * j \/ n = 3 * j + 1 \/ n = 3 * j + 2
<1> DEFINE S == {i \in 0..n : \E j \in 0..i : i = 3 * j \/ i = 3 * j + 1 \/ i = 3 * j + 2}
<1>1. 0 \in S
  OBVIOUS
<1>2. ASSUME NEW i \in 0..n-1, i \in S PROVE i + 1 \in S
  <2>1. PICK j \in 0..i : i = 3 * j \/ i = 3 * j + 1 \/ i = 3 * j + 2
    BY <1>2
  <2>2. i + 1 \in 0..n /\ j \in 0..i+1 /\ j + 1 \in 0..i+1 /\ 3 * (j + 1) = 3 * j + 3
    OBVIOUS
  <2>3. i + 1 = 3 * j + 1 \/ i + 1 = 3 * j + 2 \/ i + 1 = 3 * (j + 1)
    BY <2>1, <2>2
  <2>4. QED
    BY <2>2, <2>3
<1>3. 0..n \subseteq S
  BY <1>1, <1>2, CountingUp
<1>4. QED
  BY <1>3

(* Where the frames are, and how many there are.                             *)
LEMMA FrameAtThird ==
  ASSUME BalanceInv, NEW i \in 1..T
  PROVE  Kind(i) = "frame" <=> \E j \in 1..i : i = 3 * j - 1
<1>1. T \in Nat
  BY Sizes
<1>2. PICK q \in 0..i-1 : i - 1 = 3 * q \/ i - 1 = 3 * q + 1 \/ i - 1 = 3 * q + 2
  <2>1. PICK n \in Nat : n = i - 1
    BY <1>1
  <2>2. QED
    BY <2>1, Thirds
<1>3. q \in 0..T /\ Threes(q)
  BY <1>1, AllThrees
<1>4. CASE i - 1 = 3 * q
  <2>1. i = 3 * q + 1 /\ \A j \in 1..i : i # 3 * j - 1
    BY <1>4
  <2>2. QED
    BY <1>3, <2>1 DEF Threes
<1>5. CASE i - 1 = 3 * q + 1
  <2>1. i = 3 * q + 2 /\ q + 1 \in 1..i /\ i = 3 * (q + 1) - 1
    BY <1>5
  <2>2. QED
    BY <1>3, <2>1 DEF Threes
<1>6. CASE i - 1 = 3 * q + 2
  <2>1. i = 3 * q + 3 /\ \A j \in 1..i : i # 3 * j - 1
    BY <1>6
  <2>2. QED
    BY <1>3, <2>1 DEF Threes
<1>7. QED
  BY <1>2, <1>4, <1>5, <1>6

(* A height of the stack with f frames below.                                *)
Height(t, f) == t = 3 * f \/ (f # 0 /\ t = 3 * f - 1)

LEMMA CountFrames ==
  ASSUME BalanceInv, NEW f \in Nat, NEW t \in 0..T, Height(t, f)
  PROVE  Frames(t) = f
<1>1. T \in Nat /\ t \in Nat /\ \A i \in 1..t : i \in 1..T
  BY Sizes
<1> DEFINE S == {i \in 1..t : stack[i].kind = "frame"}
           third == [j \in 1..f |-> 3 * j - 1]
<1>2. ASSUME NEW i PROVE i \in S <=> \E j \in 1..f : i = 3 * j - 1
  <2>1. ASSUME i \in S PROVE \E j \in 1..f : i = 3 * j - 1
    <3>1. PICK j \in 1..i : i = 3 * j - 1
      BY <1>1, <2>1, FrameAtThird DEF Kind
    <3>2. i \in 1..t
      BY <2>1
    <3>3. j \in 1..f
      BY <1>1, <3>1, <3>2 DEF Height
    <3>4. QED
      BY <3>1, <3>3
  <2>2. ASSUME NEW j \in 1..f, i = 3 * j - 1 PROVE i \in S
    <3>1. i \in 1..t /\ j \in 1..i
      BY <1>1, <2>2 DEF Height
    <3>2. Kind(i) = "frame"
      BY <1>1, <2>2, <3>1, FrameAtThird
    <3>3. QED
      BY <3>1, <3>2 DEF Kind
  <2>3. QED
    BY <2>1, <2>2
<1>3. third \in Bijection(1..f, S)
  <2>1. \A j \in 1..f : third[j] \in S
    BY <1>2
  <2>2. third \in Injection(1..f, S)
    BY <2>1 DEF Injection, IsInjective
  <2>3. \A i \in S : \E j \in 1..f : third[j] = i
    BY <1>2
  <2>4. third \in Surjection(1..f, S)
    BY <2>1, <2>3 DEF Surjection
  <2>5. QED
    BY <2>2, <2>4 DEF Bijection
<1>4. ExistsBijection(1..f, S)
  BY <1>3, Zenon DEF ExistsBijection
<1>5. Cardinality(S) = f
  BY <1>4, FS_CountingElements
<1>6. QED
  BY <1>5 DEF Frames

LEMMA HeightOfStack ==
  ASSUME BalanceInv
  PROVE  \E f \in Nat : Height(T, f) /\ Frames(T) = f /\ Depth = N + f
<1>1. T \in Nat /\ DOMAIN stack = 1..T /\ (T # 0 => Kind(T) # "ctrl")
  BY Sizes, LastBlock DEF Kind
<1>2. PICK j \in 0..T : T = 3 * j \/ T = 3 * j + 1 \/ T = 3 * j + 2
  BY <1>1, Thirds
<1>3. T # 3 * j + 1
  <2>1. Threes(j)
    BY AllThrees
  <2>2. QED
    BY <1>1, <2>1 DEF Threes
<1>4. PICK f \in Nat : Height(T, f)
  <2>1. CASE T = 3 * j
    BY <1>1, <2>1 DEF Height
  <2>2. CASE T = 3 * j + 2
    <3>1. j + 1 \in Nat /\ j + 1 # 0 /\ T = 3 * (j + 1) - 1
      BY <1>1, <2>2
    <3>2. QED
      BY <3>1 DEF Height
  <2>3. QED
    BY <1>2, <1>3, <2>1, <2>2
<1>5. Frames(T) = f
  BY <1>1, <1>4, CountFrames
<1>6. Depth = N + Frames(T)
  BY <1>1 DEF Depth, Frames, N
<1>7. QED
  BY <1>4, <1>5, <1>6

-----------------------------------------------------------------------------
(* The frames under the calls of the host: the higher the call, the more.    *)
LEMMA NativeOnFrame ==
  ASSUME BalanceInv, NEW k \in 1..N, ~IsEntry(k)
  PROVE  host[k].frame \in 1..T /\ Kind(host[k].frame) = "frame"
<1>1. T \in Nat /\ N \in Nat /\ HostOk(k)
  BY Sizes DEF BalanceInv
<1>2. PICK f \in Nat : f = host[k].frame
  BY <1>1 DEF HostOk
<1>3. ASSUME ctrl # 0, T = ctrl + 2, T = f + 1 PROVE f \in 1..T /\ Kind(f) = "frame"
  <2>1. ctrl + 1 \in 1..T /\ Kind(ctrl + 1) = "frame" /\ ctrl \in 1..T
    BY <1>3, LastBlock DEF Kind
  <2>2. f = ctrl + 1
    BY <1>1, <1>2, <1>3, <2>1
  <2>3. QED
    BY <2>1, <2>2
<1>4. CASE k = N
  <2>1. N # 0 /\ ~IsEntry(N) /\ T = ctrl + 2 /\ ctrl # 0 /\ T = f + 1
    BY <1>1, <1>2, <1>4 DEF BalanceInv, TopOk
  <2>2. QED
    BY <1>2, <1>3, <2>1
<1>5. CASE k # N
  <2>1. PICK l : l = k + 1 /\ l \in 1..N /\ l - 1 = k /\ l # 1
    BY <1>1, <1>5
  <2>2. HostOk(l) /\ IsEntry(l)
    BY <2>1 DEF BalanceInv, HostOk
  <2>3. BaseOf(l) = f + 2
    BY <1>2, <2>1 DEF BaseOf
  <2>4. CASE l < N \/ reg.pc # NoPc
    <3>1. PICK c : c = f + 2 /\ c \in 1..T /\ Kind(c) = "ctrl" /\ c # 1
      BY <1>2, <2>2, <2>3, <2>4 DEF HostOk, IsBase, Kind
    <3>2. c >= 4 /\ Kind(c - 1) = "argv"
      BY <3>1, Zenon DEF BalanceInv, BlockOk, Kind
    <3>3. PICK d : d = c - 1 /\ d \in 1..T /\ d - 1 = f /\ f \in 1..T
      <4>1. f \in Nat /\ f + 2 = c /\ c <= T /\ c >= 4
        BY <1>1, <1>2, <3>1, <3>2
      <4>2. c - 1 \in 1..T /\ c - 1 - 1 = f /\ f \in 1..T
        BY <1>1, <4>1
      <4>3. QED
        BY <4>2
    <3>4. Kind(d - 1) = "frame"
      BY <3>2, <3>3, Zenon DEF BalanceInv, BlockOk, Kind
    <3>5. QED
      BY <1>2, <3>3, <3>4
  <2>5. CASE ~(l < N \/ reg.pc # NoPc)
    <3>1. l = N /\ N # 1 /\ N # 0 /\ reg.pc = NoPc
      BY <1>1, <2>1, <2>5
    <3>2. T = ctrl + 2 /\ ctrl # 0 /\ T = host[N - 1].frame + 1
      BY <2>2, <3>1 DEF BalanceInv, TopOk
    <3>3. T = f + 1
      BY <1>2, <2>1, <3>1, <3>2
    <3>4. QED
      BY <1>2, <1>3, <3>2, <3>3
  <2>6. QED
    BY <2>4, <2>5
<1>6. QED
  BY <1>4, <1>5

(* The last of u frames, or the bottom.                                      *)
Foot(t, u) == (u = 0 /\ t = 0) \/ (u # 0 /\ t = 3 * u - 1)

LEMMA UnderParts ==
  ASSUME BalanceInv, NEW k \in 1..N
  PROVE  \E u \in Nat : Foot(Under(k), u) /\ Under(k) \in 0..T /\ Frames(Under(k)) = u /\ Place(k) = k + u
<1>1. T \in Nat /\ N \in Nat
  BY Sizes
<1>2. Under(k) = 0 \/ (Under(k) \in 1..T /\ Kind(Under(k)) = "frame")
  <2>1. CASE ~IsEntry(k)
    BY <2>1, NativeOnFrame DEF Under, IsEntry
  <2>2. CASE IsEntry(k) /\ k = 1
    BY <2>2 DEF Under, IsEntry
  <2>3. CASE IsEntry(k) /\ k # 1
    <3>1. k - 1 \in 1..N /\ ~IsEntry(k - 1)
      BY <2>3, BaseIsNumber
    <3>2. host[k - 1].frame \in 1..T /\ Kind(host[k - 1].frame) = "frame"
      BY <3>1, NativeOnFrame
    <3>3. QED
      BY <2>3, <3>2 DEF Under, IsEntry
  <2>4. QED
    BY <2>1, <2>2, <2>3
<1>3. PICK u \in Nat : Foot(Under(k), u)
  <2>1. CASE Under(k) = 0
    BY <2>1 DEF Foot
  <2>2. CASE Under(k) \in 1..T /\ Kind(Under(k)) = "frame"
    <3>1. PICK j \in 1..Under(k) : Under(k) = 3 * j - 1
      BY <2>2, FrameAtThird
    <3>2. j \in Nat /\ j # 0
      BY <1>1, <2>2
    <3>3. QED
      BY <3>1, <3>2 DEF Foot
  <2>3. QED
    BY <1>2, <2>1, <2>2
<1>4. Under(k) \in 0..T /\ Height(Under(k), u)
  BY <1>1, <1>2, <1>3 DEF Foot, Height
<1>5. Frames(Under(k)) = u
  BY <1>4, CountFrames
<1>6. QED
  BY <1>3, <1>4, <1>5 DEF Place

LEMMA UnderOrder ==
  ASSUME BalanceInv, NEW k \in 1..N, NEW l \in 1..N, k < l
  PROVE  /\ Under(k) \in Nat /\ Under(l) \in Nat
         /\ Under(k) <= Under(l)
         /\ ~IsEntry(l) => Under(k) < Under(l)
<1>1. T \in Nat /\ N \in Nat /\ \A i \in 1..N : Under(i) \in Nat
  BY Sizes, UnderParts
<1>2. ASSUME NEW i \in 1..N, NEW j \in 1..N, i < j, ~IsEntry(j) PROVE Under(i) < Under(j)
  <2>1. Under(j) = host[j].frame
    BY <1>2 DEF Under, IsEntry
  <2>2. CASE IsEntry(i)
    <3>1. BaseOf(i) < host[j].frame
      BY <1>2, <2>2, BaseBelowNative
    <3>2. BaseOf(i) = IF i = 1 THEN 1 ELSE Under(i) + 2
      BY <2>2 DEF BaseOf, Under, IsEntry
    <3>3. i = 1 => Under(i) = 0
      BY <2>2 DEF Under, IsEntry
    <3>4. QED
      BY <1>1, <2>1, <3>1, <3>2, <3>3
  <2>3. CASE ~IsEntry(i)
    <3>1. Under(i) = host[i].frame
      BY <2>3 DEF Under, IsEntry
    <3>2. host[i].frame + 3 <= host[j].frame
      BY <1>2, <2>3 DEF BalanceInv, HostOk
    <3>3. QED
      BY <1>1, <2>1, <3>1, <3>2
  <2>4. QED
    BY <2>2, <2>3
<1>3. ASSUME IsEntry(l) PROVE Under(k) <= Under(l)
  <2>1. PICK j : j = l - 1 /\ j \in 1..N /\ k <= j
    BY <1>1
  <2>2. ~IsEntry(j) /\ l # 1
    BY <1>1, <1>3, <2>1, BaseIsNumber
  <2>3. Under(l) = host[j].frame /\ Under(j) = host[j].frame
    BY <1>3, <2>1, <2>2 DEF Under, IsEntry
  <2>4. k < j => Under(k) < Under(j)
    BY <1>2, <2>1, <2>2
  <2>5. k = j \/ k < j
    BY <1>1, <2>1
  <2>6. QED
    BY <1>1, <2>1, <2>3, <2>4, <2>5
<1>4. QED
  BY <1>1, <1>2, <1>3

-----------------------------------------------------------------------------
(* Which call is at a place: one of the host, or the j-th frame, which is    *)
(* above c calls of the host.                                                *)
HostPlaced(n, k) == k \in 1..N /\ n = Place(k)
Over(n, c) == c \in 1..N /\ Place(c) < n /\ (c < N => n < Place(c + 1))
FramePlaced(n, j) ==
  /\ j \in Nat \ {0} /\ 3 * j - 1 \in 1..T
  /\ \E c \in 1..N : n = c + j /\ Over(n, c)

LEMMA PlaceOrder ==
  ASSUME BalanceInv
  PROVE  /\ N \in Nat
         /\ \A k \in 1..N : Place(k) \in Nat /\ k <= Place(k) /\ Place(k) <= Depth
         /\ \A k, l \in 1..N : k < l => Place(k) < Place(l)
         /\ N # 0 => Place(1) = 1
         /\ N = 0 => Depth = 0
<1>1. T \in Nat /\ N \in Nat
  BY Sizes
<1>2. PICK f \in Nat : Height(T, f) /\ Frames(T) = f /\ Depth = N + f
  BY HeightOfStack
<1>3. ASSUME NEW k \in 1..N PROVE Place(k) \in Nat /\ k <= Place(k) /\ Place(k) <= Depth
  <2>1. PICK u \in Nat : Foot(Under(k), u) /\ Under(k) \in 0..T /\ Place(k) = k + u
    BY UnderParts
  <2>2. u <= f
    BY <1>1, <1>2, <2>1 DEF Foot, Height
  <2>3. QED
    BY <1>1, <1>2, <2>1, <2>2
<1>4. ASSUME NEW k \in 1..N, NEW l \in 1..N, k < l PROVE Place(k) < Place(l)
  <2>1. PICK u \in Nat : Foot(Under(k), u) /\ Place(k) = k + u
    BY UnderParts
  <2>2. PICK w \in Nat : Foot(Under(l), w) /\ Place(l) = l + w
    BY UnderParts
  <2>3. Under(k) <= Under(l) /\ Under(k) \in Nat /\ Under(l) \in Nat
    BY <1>4, UnderOrder
  <2>4. u <= w
    BY <2>1, <2>2, <2>3 DEF Foot
  <2>5. QED
    BY <1>1, <1>4, <2>1, <2>2, <2>4
<1>5. ASSUME N # 0 PROVE Place(1) = 1
  <2>1. 1 \in 1..N
    BY <1>1, <1>5
  <2>2. IsEntry(1)
    BY <2>1 DEF BalanceInv, HostOk
  <2>3. Under(1) = 0
    BY <2>2 DEF Under, IsEntry
  <2>4. PICK u \in Nat : Foot(Under(1), u) /\ Place(1) = 1 + u
    BY <2>1, UnderParts
  <2>5. QED
    BY <2>3, <2>4 DEF Foot
<1>6. N = 0 => Depth = 0
  BY <1>2 DEF BalanceInv, TopOk, Height
<1>7. QED
  BY <1>1, <1>3, <1>4, <1>5, <1>6

LEMMA SomethingPlaced ==
  ASSUME BalanceInv, NEW n \in 1..Depth
  PROVE  (\E k \in 1..N : HostPlaced(n, k)) \/ (\E j \in Nat : FramePlaced(n, j))
<1>1. T \in Nat /\ N \in Nat
  BY Sizes
<1>2. PICK f \in Nat : Height(T, f) /\ Frames(T) = f /\ Depth = N + f
  BY HeightOfStack
<1>3. N # 0 /\ Place(1) = 1 /\ n \in Nat /\ n >= 1
  BY <1>1, <1>2, PlaceOrder
<1> DEFINE S == {k \in 1..N : Place(k) <= n}
<1>4. PICK c \in S : \A k \in S : k <= c
  <2>1. 1 \in S /\ S \in SUBSET (0..N)
    BY <1>1, <1>3
  <2>2. QED
    BY <1>1, <2>1, GreatestExists
<1>5. c \in 1..N /\ Place(c) <= n /\ Place(c) \in Nat /\ c <= Place(c)
  BY PlaceOrder
<1>6. c < N => c + 1 \in 1..N /\ Place(c + 1) \in Nat /\ n < Place(c + 1)
  <2>1. SUFFICES ASSUME c < N PROVE c + 1 \in 1..N /\ Place(c + 1) \in Nat /\ n < Place(c + 1)
    OBVIOUS
  <2>2. c + 1 \in 1..N
    BY <1>1, <1>5, <2>1
  <2>3. Place(c + 1) \in Nat
    BY <2>2, PlaceOrder
  <2>4. ~(c + 1 <= c)
    BY <1>1, <1>5
  <2>5. ~(Place(c + 1) <= n)
    BY <1>4, <2>2, <2>4
  <2>6. QED
    BY <1>3, <2>2, <2>3, <2>5
<1>7. CASE Place(c) = n
  BY <1>5, <1>7 DEF HostPlaced
<1>8. CASE Place(c) # n
  <2>1. Over(n, c)
    BY <1>3, <1>5, <1>6, <1>8 DEF Over
  <2>2. PICK j : j = n - c
    OBVIOUS
  <2>3. j \in Nat \ {0} /\ n = c + j
    BY <1>1, <1>3, <1>5, <1>8, <2>2
  <2>4. 3 * j - 1 \in 1..T
    <3>1. CASE c < N
      <4>1. PICK l : l = c + 1 /\ l \in 1..N /\ n < Place(l)
        BY <1>6, <3>1
      <4>2. PICK u \in Nat : Foot(Under(l), u) /\ Under(l) \in 0..T /\ Place(l) = l + u
        BY <4>1, UnderParts
      <4>3. j <= u
        BY <1>1, <1>5, <2>3, <4>1, <4>2
      <4>4. QED
        BY <1>1, <2>3, <4>2, <4>3 DEF Foot
    <3>2. CASE ~(c < N)
      <4>1. c = N /\ j <= f
        BY <1>1, <1>2, <1>5, <2>3, <3>2
      <4>2. QED
        BY <1>1, <1>2, <2>3, <4>1 DEF Height
    <3>3. QED
      BY <3>1, <3>2
  <2>5. FramePlaced(n, j)
    BY <1>5, <2>1, <2>3, <2>4 DEF FramePlaced
  <2>6. QED
    BY <2>3, <2>5
<1>9. QED
  BY <1>7, <1>8

LEMMA HostFound ==
  ASSUME BalanceInv, NEW n, NEW k, HostPlaced(n, k)
  PROVE  n \in 1..Depth /\ Calls[n] = HostCall(k)
<1>1. N \in Nat /\ DOMAIN host = 1..N /\ k \in 1..N /\ n = Place(k)
  BY Sizes DEF HostPlaced
<1>2. n \in 1..Depth
  <2>1. Place(k) \in Nat /\ k <= Place(k) /\ Place(k) <= Depth /\ Depth \in Nat
    BY <1>1, PlaceOrder, HeightOfStack
  <2>2. QED
    BY <1>1, <2>1
<1>3. HostAt(n) = {k}
  <2>1. ASSUME NEW l \in 1..N, Place(l) = n PROVE l = k
    <3>1. k < l \/ l < k \/ l = k
      BY <1>1
    <3>2. k < l => Place(k) < Place(l)
      BY <1>1, PlaceOrder
    <3>3. l < k => Place(l) < Place(k)
      BY <1>1, PlaceOrder
    <3>4. Place(k) \in Nat
      BY <1>1, PlaceOrder
    <3>5. QED
      BY <1>1, <2>1, <3>1, <3>2, <3>3, <3>4
  <2>2. QED
    BY <1>1, <2>1 DEF HostAt
<1>4. CallAt(n) = HostCall(k)
  <2>1. (CHOOSE l \in {k} : TRUE) = k
    OBVIOUS
  <2>2. {k} # {}
    OBVIOUS
  <2>3. QED
    BY <1>3, <2>1, <2>2, Zenon DEF CallAt
<1>5. QED
  BY <1>2, <1>4 DEF Calls

LEMMA ThirdFrame ==
  ASSUME BalanceInv, NEW j \in Nat \ {0}, 3 * j - 1 \in 1..T
  PROVE  NthFrame(j) = 3 * j - 1 /\ Kind(3 * j - 1) = "frame"
<1>1. T \in Nat /\ DOMAIN stack = 1..T
  BY Sizes
<1>2. PICK i : i = 3 * j - 1 /\ i \in 1..T /\ i \in 0..T /\ j \in 1..i
  BY <1>1
<1>3. Kind(i) = "frame"
  BY <1>2, FrameAtThird
<1>4. Frames(i) = j
  BY <1>2, CountFrames DEF Height
<1>5. ASSUME NEW l \in 1..T, stack[l].kind = "frame", Frames(l) = j PROVE l = i
  <2>1. PICK q \in 1..l : l = 3 * q - 1
    BY <1>5, FrameAtThird DEF Kind
  <2>2. l \in 0..T /\ q \in Nat /\ q # 0
    BY <1>1, <2>1
  <2>3. Frames(l) = q
    BY <2>1, <2>2, CountFrames DEF Height
  <2>4. QED
    BY <1>2, <1>5, <2>1, <2>3
<1>6. \A l \in DOMAIN stack : (stack[l].kind = "frame" /\ Frames(l) = j) <=> l = i
  BY <1>1, <1>2, <1>3, <1>4, <1>5 DEF Kind
<1>7. NthFrame(j) = i
  BY <1>1, <1>2, <1>6 DEF NthFrame
<1>8. QED
  BY <1>2, <1>3, <1>7

LEMMA OverMany ==
  ASSUME BalanceInv, NEW n \in Nat, NEW c, Over(n, c)
  PROVE  /\ c \in Nat /\ HostAt(n) = {} /\ Cardinality(HostBefore(n)) = c
         /\ \A k \in 1..N : Place(k) < n <=> k <= c
<1>1. N \in Nat /\ DOMAIN host = 1..N /\ c \in 1..N /\ c \in Nat /\ Place(c) \in Nat /\ Place(c) < n
  BY Sizes, PlaceOrder DEF Over
<1>2. ASSUME NEW k \in 1..N, k <= c PROVE Place(k) <= Place(c) /\ Place(k) \in Nat
  <2>1. k = c \/ k < c
    BY <1>1, <1>2
  <2>2. Place(k) \in Nat /\ (k < c => Place(k) < Place(c))
    BY <1>1, PlaceOrder
  <2>3. QED
    BY <1>1, <2>1, <2>2
<1>3. ASSUME NEW k \in 1..N, ~(k <= c) PROVE n < Place(k)
  <2>1. PICK l : l = c + 1 /\ l \in 1..N /\ l <= k /\ c < N
    BY <1>1, <1>3
  <2>2. n < Place(l)
    BY <2>1 DEF Over
  <2>3. Place(k) \in Nat /\ Place(l) \in Nat /\ (l < k => Place(l) < Place(k))
    BY <1>1, <2>1, PlaceOrder
  <2>4. l = k \/ l < k
    BY <1>1, <2>1
  <2>5. QED
    BY <1>1, <2>2, <2>3, <2>4
<1>4. \A k \in 1..N : Place(k) # n /\ (Place(k) < n <=> k <= c)
  <2>1. SUFFICES ASSUME NEW k \in 1..N PROVE Place(k) # n /\ (Place(k) < n <=> k <= c)
    OBVIOUS
  <2>2. Place(k) \in Nat
    BY PlaceOrder
  <2>3. QED
    BY <1>1, <1>2, <1>3, <2>2
<1>5. HostAt(n) = {} /\ HostBefore(n) = 1..c
  <2>1. \A k : k \in 1..c <=> k \in 1..N /\ k <= c
    BY <1>1
  <2>2. QED
    BY <1>1, <1>4, <2>1 DEF HostAt, HostBefore
<1>6. Cardinality(1..c) = c
  BY <1>1, FS_Interval
<1>7. QED
  BY <1>1, <1>4, <1>5, <1>6

LEMMA FrameFound ==
  ASSUME BalanceInv, NEW n, NEW j, FramePlaced(n, j)
  PROVE  n \in 1..Depth /\ Calls[n] = FrameCall(3 * j - 1)
<1>1. T \in Nat /\ N \in Nat /\ j \in Nat \ {0} /\ 3 * j - 1 \in 1..T
  BY Sizes DEF FramePlaced
<1>2. PICK c \in 1..N : n = c + j /\ Over(n, c)
  BY DEF FramePlaced
<1>3. n \in Nat /\ c \in Nat
  BY <1>1, <1>2
<1>4. HostAt(n) = {} /\ Cardinality(HostBefore(n)) = c
  BY <1>2, <1>3, OverMany
<1>5. n - Cardinality(HostBefore(n)) = j
  BY <1>1, <1>2, <1>3, <1>4
<1>6. CallAt(n) = FrameCall(3 * j - 1)
  <2>1. NthFrame(j) = 3 * j - 1
    BY <1>1, ThirdFrame
  <2>2. QED
    BY <1>4, <1>5, <2>1, Zenon DEF CallAt
<1>7. n \in 1..Depth
  <2>1. PICK f \in Nat : Height(T, f) /\ Depth = N + f
    BY HeightOfStack
  <2>2. j <= f
    BY <1>1, <2>1 DEF Height
  <2>3. QED
    BY <1>1, <1>2, <1>3, <2>1, <2>2
<1>8. QED
  BY <1>6, <1>7 DEF Calls

(* A frame is at one place.                                                  *)
LEMMA FrameOnce ==
  ASSUME BalanceInv, NEW j, NEW n, FramePlaced(n, j), NEW m, FramePlaced(m, j)
  PROVE  n = m
<1>1. T \in Nat /\ N \in Nat /\ j \in Nat \ {0}
  BY Sizes DEF FramePlaced
<1>2. PICK c \in 1..N : n = c + j /\ Over(n, c)
  BY DEF FramePlaced
<1>3. PICK d \in 1..N : m = d + j /\ Over(m, d)
  BY DEF FramePlaced
<1>4. ASSUME NEW a \in 1..N, NEW b \in 1..N, Over(a + j, a), Over(b + j, b), a < b PROVE FALSE
  <2>1. PICK l : l = a + 1 /\ l \in 1..N /\ l <= b /\ a < N
    BY <1>1, <1>4
  <2>2. PICK u \in Nat : Foot(Under(l), u) /\ Place(l) = l + u
    BY <2>1, UnderParts
  <2>3. PICK w \in Nat : Foot(Under(b), w) /\ Place(b) = b + w
    BY UnderParts
  <2>4. a + j < Place(l) /\ Place(b) < b + j
    BY <1>4, <2>1 DEF Over
  <2>5. j <= u /\ w < j
    BY <1>1, <2>1, <2>2, <2>3, <2>4
  <2>6. l = b \/ (l < b /\ Under(l) <= Under(b) /\ Under(l) \in Nat /\ Under(b) \in Nat)
    BY <1>1, <2>1, UnderOrder
  <2>7. l = b => u = w
    BY <2>2, <2>3 DEF Foot
  <2>8. QED
    BY <1>1, <2>2, <2>3, <2>5, <2>6, <2>7 DEF Foot
<1>5. c = d
  BY <1>1, <1>2, <1>3, <1>4
<1>6. QED
  BY <1>2, <1>3, <1>5

(* Where a procedure goes on.                                                *)
LEMMA RunAboveFrame ==
  ASSUME BalanceInv, NEW i
  PROVE  /\ \A k \in 1..N : k # 1 /\ IsEntry(k) /\ Under(k) = i => PcOf(i) = host[k].pc
         /\ (\A k \in 1..N : k # 1 /\ IsEntry(k) => Under(k) # i)
              => PcOf(i) = IF i + 2 <= T THEN stack[i + 2].saved.pc ELSE reg.pc
<1>1. N \in Nat /\ N = Len(host) /\ T = Len(stack)
  BY Sizes DEF N, T
<1>2. \A k : k \in RunsAbove(i) <=> k \in 1..N /\ k # 1 /\ IsEntry(k) /\ Under(k) = i
  <2>1. \A k : k \in 2..N <=> k \in 1..N /\ k # 1
    BY <1>1
  <2>2. \A k \in 2..N : host[k].kind = "entry" /\ host[k - 1].frame = i <=> IsEntry(k) /\ Under(k) = i
    BY <2>1 DEF IsEntry, Under
  <2>3. QED
    BY <1>1, <2>1, <2>2 DEF RunsAbove
<1>3. ASSUME NEW k \in 1..N, k # 1, IsEntry(k), Under(k) = i PROVE PcOf(i) = host[k].pc
  <2>1. ASSUME NEW a \in 1..N, NEW b \in 1..N, b # 1, IsEntry(a), IsEntry(b), a < b PROVE Under(a) # Under(b)
    <3>1. PICK c : c = b - 1 /\ c \in 1..N /\ a <= c
      BY <1>1, <2>1
    <3>2. ~IsEntry(c)
      BY <2>1, <3>1, BaseIsNumber
    <3>3. a < c
      BY <1>1, <2>1, <3>1, <3>2
    <3>4. Under(a) < Under(c) /\ Under(a) \in Nat
      BY <3>1, <3>2, <3>3, UnderOrder
    <3>5. Under(c) = Under(b)
      BY <2>1, <3>1, <3>2 DEF Under, IsEntry
    <3>6. QED
      BY <3>4, <3>5
  <2>2. ASSUME NEW l \in RunsAbove(i) PROVE l = k
    <3>1. l \in 1..N /\ l # 1 /\ IsEntry(l) /\ Under(l) = i
      BY <1>2
    <3>2. l < k \/ k < l \/ l = k
      BY <1>1, <3>1
    <3>3. QED
      BY <1>3, <2>1, <3>1, <3>2
  <2>3. RunsAbove(i) = {k}
    BY <1>2, <1>3, <2>2
  <2>4. (CHOOSE l \in {k} : TRUE) = k /\ {k} # {}
    OBVIOUS
  <2>5. QED
    BY <2>3, <2>4, Zenon DEF PcOf
<1>4. ASSUME \A k \in 1..N : k # 1 /\ IsEntry(k) => Under(k) # i
      PROVE  PcOf(i) = IF i + 2 <= T THEN stack[i + 2].saved.pc ELSE reg.pc
  <2>1. RunsAbove(i) = {}
    BY <1>2, <1>4
  <2>2. QED
    BY <1>1, <2>1, Zenon DEF PcOf
<1>5. QED
  BY <1>3, <1>4

(* All of this of every state, in a form that is also said of the next one.  *)
Shape ==
  /\ T \in Nat /\ N \in Nat
  /\ \E f \in Nat : Height(T, f) /\ Depth = N + f
  /\ \A k \in 1..N : \E u \in Nat : Foot(Under(k), u) /\ Under(k) \in 0..T /\ Place(k) = k + u
  /\ \A n \in 1..Depth : (\E k \in 1..N : HostPlaced(n, k)) \/ (\E j \in Nat : FramePlaced(n, j))
  /\ \A n, k : HostPlaced(n, k) => n \in 1..Depth /\ Calls[n] = HostCall(k)
  /\ \A n, j : FramePlaced(n, j) => n \in 1..Depth /\ Calls[n] = FrameCall(3 * j - 1)
  /\ \A i : \A k \in 1..N : k # 1 /\ IsEntry(k) /\ Under(k) = i => PcOf(i) = host[k].pc
  /\ \A i : (\A k \in 1..N : k # 1 /\ IsEntry(k) => Under(k) # i)
              => PcOf(i) = IF i + 2 <= T THEN stack[i + 2].saved.pc ELSE reg.pc

LEMMA Shaped == BalanceInv => Shape
<1> SUFFICES ASSUME BalanceInv PROVE Shape
  OBVIOUS
<1>1. T \in Nat /\ N \in Nat /\ \E f \in Nat : Height(T, f) /\ Depth = N + f
  BY Sizes, HeightOfStack
<1>2. \A k \in 1..N : \E u \in Nat : Foot(Under(k), u) /\ Under(k) \in 0..T /\ Place(k) = k + u
  BY UnderParts
<1>3. QED
  BY <1>1, <1>2, SomethingPlaced, HostFound, FrameFound, RunAboveFrame, Zenon DEF Shape

LEMMA ShapedNext == BalanceInv' => Shape'
BY Shaped, PTL

-----------------------------------------------------------------------------
(* A step keeps the calls that were made on the first m blocks, which are f  *)
(* frames, by the first h calls of the host.                                 *)
KeptBelow(m, h, f) ==
  /\ Kept(m, h) /\ f \in Nat /\ Height(m, f)
  /\ \A k \in 1..h : Under(k) <= m
  /\ \A k \in h+1..N : m <= Under(k)
  /\ \A k \in h+1..N' : m <= Under(k)'

LEMMA KeptParts ==
  ASSUME NEW m, NEW h, NEW f, KeptBelow(m, h, f), BalanceInv, BalanceInv'
  PROVE  /\ Kept(m, h) /\ f \in Nat /\ Height(m, f)
         /\ T \in Nat /\ T' \in Nat /\ N \in Nat /\ N' \in Nat /\ h \in Nat /\ h <= N /\ h <= N'
         /\ m \in Nat /\ m <= T /\ m <= T'
         /\ \A k \in 1..h : \E u \in 0..f : Foot(Under(k), u) /\ Place(k) = k + u
         /\ \A k \in 1..h : /\ k \in 1..N /\ k \in 1..N'
                            /\ Under(k)' = Under(k) /\ Place(k)' = Place(k) /\ Place(k) \in Nat
                            /\ IsEntry(k)' = IsEntry(k)
         /\ \A k \in h+1..N : k + f <= Place(k) /\ Place(k) \in Nat
         /\ \A k \in h+1..N' : k + f <= Place(k)' /\ Place(k)' \in Nat
<1>1. Kept(m, h) /\ f \in Nat /\ Height(m, f) /\ Shape /\ Shape'
  BY Shaped, ShapedNext DEF KeptBelow
<1>2. /\ T \in Nat /\ T' \in Nat /\ N \in Nat /\ N' \in Nat
      /\ h \in Nat /\ h <= N /\ h <= N' /\ m \in Nat /\ m <= T /\ m <= T'
  <2>1. T \in Nat /\ T' \in Nat /\ N \in Nat /\ N' \in Nat
    BY <1>1, Zenon DEF Shape
  <2>2. m \in 0..T /\ m \in 0..T' /\ h \in 0..N /\ h \in 0..N'
    BY <1>1 DEF Kept
  <2>3. QED
    BY <2>1, <2>2
<1>3. ASSUME NEW k \in 1..h
      PROVE  /\ \E u \in 0..f : Foot(Under(k), u) /\ Place(k) = k + u
             /\ k \in 1..N /\ k \in 1..N' /\ Under(k)' = Under(k) /\ Place(k)' = Place(k)
             /\ Place(k) \in Nat /\ IsEntry(k)' = IsEntry(k)
  <2>1. /\ k \in 1..N /\ k \in 1..N' /\ IsEntry(k)' = IsEntry(k)
        /\ k # 1 => k - 1 \in 1..h
        /\ host'[k].frame = host[k].frame
    BY <1>1, KeptEntry
  <2>2. k # 1 => host'[k - 1].frame = host[k - 1].frame
    BY <1>1, <2>1, KeptEntry
  <2>3. Under(k)' = Under(k)
    BY <2>1, <2>2 DEF Under, IsEntry
  <2>4. PICK u \in Nat : Foot(Under(k), u) /\ Under(k) \in 0..T /\ Place(k) = k + u
    BY <1>1, <2>1, Zenon DEF Shape
  <2>5. PICK w \in Nat : Foot(Under(k)', w) /\ Place(k)' = k + w
    <3>1. \A l \in 1..N' : \E w \in Nat : Foot(Under(l)', w) /\ Place(l)' = l + w
      BY <1>1, Zenon DEF Shape, Foot
    <3>2. QED
      BY <2>1, <3>1
  <2>6. u = w
    BY <2>3, <2>4, <2>5 DEF Foot
  <2>7. u \in 0..f
    <3>1. Under(k) <= m
      BY DEF KeptBelow
    <3>2. QED
      BY <1>1, <1>2, <2>4, <3>1 DEF Foot, Height
  <2>8. QED
    BY <1>2, <2>1, <2>3, <2>4, <2>5, <2>6, <2>7
<1>4. ASSUME NEW t \in Nat, m <= t, NEW u \in Nat, Foot(t, u) PROVE f <= u
  BY <1>1, <1>2, <1>4 DEF Foot, Height
<1>5. ASSUME NEW k \in h+1..N PROVE k + f <= Place(k) /\ Place(k) \in Nat
  <2>1. k \in 1..N /\ m <= Under(k)
    BY <1>2 DEF KeptBelow
  <2>2. PICK u \in Nat : Foot(Under(k), u) /\ Under(k) \in 0..T /\ Place(k) = k + u
    BY <1>1, <2>1, Zenon DEF Shape
  <2>3. QED
    BY <1>1, <1>2, <1>4, <2>1, <2>2
<1>6. ASSUME NEW k \in h+1..N' PROVE k + f <= Place(k)' /\ Place(k)' \in Nat
  <2>1. k \in 1..N' /\ m <= Under(k)'
    BY <1>2 DEF KeptBelow
  <2>2. PICK u \in Nat : Foot(Under(k)', u) /\ Under(k)' \in 0..T' /\ Place(k)' = k + u
    <3>1. \A l \in 1..N' : \E w \in Nat : Foot(Under(l)', w) /\ Under(l)' \in 0..T' /\ Place(l)' = l + w
      BY <1>1, Zenon DEF Shape, Foot
    <3>2. QED
      BY <2>1, <3>1
  <2>3. QED
    BY <1>1, <1>2, <1>4, <2>1, <2>2
<1>7. QED
  BY <1>1, <1>2, <1>3, <1>5, <1>6

LEMMA PlacesKept ==
  ASSUME NEW m, NEW h, NEW f, KeptBelow(m, h, f), BalanceInv, BalanceInv', NEW n \in 1..h+f
  PROVE  /\ n \in 1..Depth
         /\ \A k : HostPlaced(n, k) => k \in 1..h /\ HostPlaced(n, k)'
         /\ \A j : FramePlaced(n, j) => j \in 1..f /\ FramePlaced(n, j)'
<1>1. /\ f \in Nat /\ Height(m, f)
      /\ T \in Nat /\ T' \in Nat /\ N \in Nat /\ N' \in Nat /\ h \in Nat /\ h <= N /\ h <= N'
      /\ m \in Nat /\ m <= T /\ m <= T'
  BY KeptParts
<1>2. \A k \in 1..h : \E u \in 0..f : Place(k) = k + u
  BY KeptParts
<1>3. \A k \in 1..h : k \in 1..N /\ k \in 1..N' /\ Place(k)' = Place(k) /\ Place(k) \in Nat
  BY KeptParts
<1>4. \A k \in h+1..N : k + f <= Place(k) /\ Place(k) \in Nat
  BY KeptParts
<1>5. \A k \in h+1..N' : k + f <= Place(k)' /\ Place(k)' \in Nat
  BY KeptParts
<1>6. n \in 1..Depth
  <2>1. PICK q \in Nat : Height(T, q) /\ Depth = N + q
    BY Shaped, Zenon DEF Shape
  <2>2. f <= q
    BY <1>1, <2>1 DEF Height
  <2>3. QED
    BY <1>1, <2>1, <2>2
<1>7. ASSUME NEW k, HostPlaced(n, k) PROVE k \in 1..h /\ HostPlaced(n, k)'
  <2>1. k \in 1..N /\ n = Place(k)
    BY <1>7 DEF HostPlaced
  <2>2. k \in 1..h
    <3>1. k \notin h+1..N
      BY <1>1, <1>4, <2>1
    <3>2. QED
      BY <1>1, <2>1, <3>1
  <2>3. n = Place(k)' /\ k \in 1..N'
    BY <1>3, <2>1, <2>2
  <2>4. QED
    BY <2>2, <2>3 DEF HostPlaced
<1>8. ASSUME NEW j, FramePlaced(n, j) PROVE j \in 1..f /\ FramePlaced(n, j)'
  <2>1. j \in Nat \ {0} /\ 3 * j - 1 \in 1..T
    BY <1>8 DEF FramePlaced
  <2>2. PICK c \in 1..N : n = c + j /\ Place(c) < n /\ (c < N => n < Place(c + 1))
    BY <1>8 DEF FramePlaced, Over
  <2>3. c \in 1..h
    <3>1. c \notin h+1..N
      <4>1. n \in Nat /\ n <= h + f
        BY <1>1
      <4>2. QED
        BY <1>1, <1>4, <2>2, <4>1
    <3>2. QED
      BY <1>1, <2>2, <3>1
  <2>4. j <= f
    <3>1. CASE c < h
      <4>1. PICK l : l = c + 1 /\ l \in 1..h /\ c < N
        BY <1>1, <2>3, <3>1
      <4>2. PICK u \in 0..f : Place(l) = l + u
        BY <1>2, <4>1
      <4>3. n < l + u
        BY <2>2, <4>1, <4>2
      <4>4. QED
        BY <1>1, <2>1, <2>2, <4>1, <4>2, <4>3
    <3>2. CASE ~(c < h)
      BY <1>1, <2>1, <2>2, <2>3, <3>2
    <3>3. QED
      BY <3>1, <3>2
  <2>5. 3 * j - 1 \in 1..T'
    BY <1>1, <2>1, <2>4 DEF Height
  <2>6. Place(c)' < n /\ c \in 1..N'
    BY <1>3, <2>2, <2>3
  <2>7. c < N' => n < Place(c + 1)'
    <3>1. SUFFICES ASSUME c < N' PROVE n < Place(c + 1)'
      OBVIOUS
    <3>2. PICK l : l = c + 1 /\ l \in 1..N'
      BY <1>1, <2>3, <3>1
    <3>3. CASE l \in 1..h
      <4>1. Place(l)' = Place(l) /\ c < N
        BY <1>1, <1>3, <3>2, <3>3
      <4>2. QED
        BY <2>2, <3>2, <4>1
    <3>4. CASE l \notin 1..h
      <4>1. l \in h+1..N' /\ l = h + 1
        BY <1>1, <2>3, <3>2, <3>4
      <4>2. l + f <= Place(l)' /\ Place(l)' \in Nat
        BY <1>5, <4>1
      <4>3. n < Place(l)'
        BY <1>1, <4>1, <4>2
      <4>4. QED
        BY <3>2, <4>3
    <3>5. QED
      BY <3>3, <3>4
  <2>8. Over(n, c)'
    BY <2>6, <2>7 DEF Over
  <2>9. FramePlaced(n, j)'
    BY <2>1, <2>2, <2>5, <2>6, <2>8 DEF FramePlaced
  <2>10. QED
    BY <1>1, <2>1, <2>4, <2>9
<1>9. QED
  BY <1>6, <1>7, <1>8

(* One thing is at a place.                                                  *)
LEMMA PlacedOnce ==
  ASSUME BalanceInv, NEW n
  PROVE  /\ \A k, l : HostPlaced(n, k) /\ HostPlaced(n, l) => k = l
         /\ \A k, j : ~(HostPlaced(n, k) /\ FramePlaced(n, j))
         /\ \A i, j : FramePlaced(n, i) /\ FramePlaced(n, j) => i = j
<1>1. N \in Nat /\ DOMAIN host = 1..N
  BY Sizes
<1>2. ASSUME NEW k, NEW l, HostPlaced(n, k), HostPlaced(n, l) PROVE k = l
  <2>1. k \in 1..N /\ l \in 1..N /\ Place(k) = Place(l)
    BY <1>2 DEF HostPlaced
  <2>2. Place(k) \in Nat /\ (k < l => Place(k) < Place(l)) /\ (l < k => Place(l) < Place(k))
    BY <2>1, PlaceOrder
  <2>3. QED
    BY <1>1, <2>1, <2>2
<1>3. ASSUME NEW i, FramePlaced(n, i)
      PROVE  HostAt(n) = {} /\ n = Cardinality(HostBefore(n)) + i /\ i \in Nat
                            /\ Cardinality(HostBefore(n)) \in Nat
  <2>1. PICK c \in 1..N : n = c + i /\ Over(n, c) /\ i \in Nat
    BY <1>3 DEF FramePlaced
  <2>2. n \in Nat /\ c \in Nat
    BY <1>1, <2>1
  <2>3. QED
    BY <2>1, <2>2, OverMany
<1>4. ASSUME NEW k, NEW j, HostPlaced(n, k), FramePlaced(n, j) PROVE FALSE
  <2>1. k \in HostAt(n)
    BY <1>1, <1>4 DEF HostPlaced, HostAt
  <2>2. QED
    BY <1>3, <1>4, <2>1
<1>5. ASSUME NEW i, NEW j, FramePlaced(n, i), FramePlaced(n, j) PROVE i = j
  <2>1. PICK c \in Nat : c = Cardinality(HostBefore(n))
    BY <1>3, <1>5
  <2>2. n = c + i /\ n = c + j /\ i \in Nat /\ j \in Nat
    BY <1>3, <1>5, <2>1
  <2>3. QED
    BY <2>2
<1>6. QED
  BY <1>2, <1>4, <1>5

(* A call with another variable.                                             *)
With(call, v) == [kind |-> call.kind, proc |-> call.proc, pc |-> call.pc, var |-> v]
HostWith(k, v) == [kind |-> IF IsEntry(k) THEN "entry" ELSE "native", proc |-> host[k].proc,
                   pc |-> 1, var |-> v]
ProcWith(pc, v) == [kind |-> "proc", proc |-> pc.proc, pc |-> pc.n, var |-> v]

LEMMA WithParts ==
  /\ \A k, v, w : With(HostWith(k, v), w) = HostWith(k, w) /\ HostWith(k, v).var = v
  /\ \A pc, v, w : With(ProcWith(pc, v), w) = ProcWith(pc, w) /\ ProcWith(pc, v).var = v
  /\ \A k : HostCall(k) = HostWith(k, host[k].var)
  /\ \A i : FrameCall(i) = ProcWith(PcOf(i), stack[i].var)
<1>1. \A k, v, w : With(HostWith(k, v), w) = HostWith(k, w) /\ HostWith(k, v).var = v
  BY DEF With, HostWith
<1>2. \A pc, v, w : With(ProcWith(pc, v), w) = ProcWith(pc, w) /\ ProcWith(pc, v).var = v
  BY DEF With, ProcWith
<1>3. \A k : HostCall(k) = HostWith(k, host[k].var)
  BY DEF HostCall, HostWith, IsEntry
<1>4. \A i : FrameCall(i) = ProcWith(PcOf(i), stack[i].var)
  BY DEF FrameCall, ProcWith
<1>5. QED
  BY <1>1, <1>2, <1>3, <1>4

LEMMA ContentKept ==
  ASSUME NEW m, NEW h, NEW f, KeptBelow(m, h, f), BalanceInv, BalanceInv', NEW n \in 1..h+f
  PROVE  \/ \E k \in 1..h : /\ HostPlaced(n, k) /\ Calls[n] = HostWith(k, host[k].var)
                            /\ Calls'[n] = HostWith(k, host'[k].var)
         \/ \E j \in 1..f : /\ FramePlaced(n, j) /\ Calls[n] = ProcWith(PcOf(3 * j - 1), stack[3 * j - 1].var)
                            /\ Calls'[n] = ProcWith(PcOf(3 * j - 1)', stack'[3 * j - 1].var)
                            /\ 3 * j + 1 <= m => PcOf(3 * j - 1)' = PcOf(3 * j - 1)
<1>1. /\ Kept(m, h) /\ f \in Nat /\ Height(m, f)
      /\ T \in Nat /\ T' \in Nat /\ N \in Nat /\ N' \in Nat /\ h \in Nat /\ h <= N /\ h <= N'
      /\ m \in Nat /\ m <= T /\ m <= T'
  BY KeptParts
<1>2. \A k \in 1..h : k \in 1..N /\ k \in 1..N' /\ Under(k)' = Under(k) /\ IsEntry(k)' = IsEntry(k)
  BY KeptParts
<1>3. Shape /\ Shape'
  BY Shaped, ShapedNext
<1>4. n \in 1..Depth
  BY PlacesKept
<1>5. \A k \in 1..h : host'[k].proc = host[k].proc /\ host'[k].pc = host[k].pc
  BY <1>1 DEF Kept, KeptCall, CallLike
<1>6. CASE \E k \in 1..N : HostPlaced(n, k)
  <2>1. PICK k : HostPlaced(n, k)
    BY <1>6
  <2>2. k \in 1..h /\ HostPlaced(n, k)'
    BY <2>1, PlacesKept
  <2>3. Calls[n] = HostCall(k)
    BY <1>3, <2>1, Zenon DEF Shape
  <2>4. Calls'[n] = HostCall(k)'
    BY <1>3, <2>2, Zenon DEF Shape
  <2>5. HostCall(k)' = HostWith(k, host'[k].var)
    BY <1>2, <1>5, <2>2 DEF HostCall, HostWith, IsEntry
  <2>6. QED
    BY <2>1, <2>2, <2>3, <2>4, <2>5, WithParts
<1>7. CASE \E j \in Nat : FramePlaced(n, j)
  <2>1. PICK j : FramePlaced(n, j)
    BY <1>7
  <2>2. j \in 1..f /\ FramePlaced(n, j)'
    BY <2>1, PlacesKept
  <2>3. PICK i : i = 3 * j - 1 /\ i \in Nat /\ i + 2 = 3 * j + 1
    BY <1>1, <2>2
  <2>4. Calls[n] = FrameCall(i)
    BY <1>3, <2>1, <2>3, Zenon DEF Shape
  <2>5. Calls'[n] = FrameCall(i)'
    <3>1. \A a, b : FramePlaced(a, b)' => Calls'[a] = FrameCall(3 * b - 1)'
      BY <1>3, Zenon DEF Shape
    <3>2. QED
      BY <2>2, <2>3, <3>1
  <2>6. FrameCall(i)' = ProcWith(PcOf(i)', stack'[i].var)
    BY DEF FrameCall, ProcWith
  <2>7. ASSUME i + 2 <= m PROVE PcOf(i)' = PcOf(i)
    <3>1. \A k \in h+1..N : Under(k) # i
      <4>1. \A k \in h+1..N : m <= Under(k)
        BY DEF KeptBelow
      <4>2. QED
        BY <1>1, <2>3, <2>7, <4>1
    <3>2. \A k \in h+1..N' : Under(k)' # i
      <4>1. \A k \in h+1..N' : m <= Under(k)'
        BY DEF KeptBelow
      <4>2. QED
        BY <1>1, <2>3, <2>7, <4>1
    <3>3. CASE \E k \in 1..N : k # 1 /\ IsEntry(k) /\ Under(k) = i
      <4>1. PICK k \in 1..N : k # 1 /\ IsEntry(k) /\ Under(k) = i
        BY <3>3
      <4>2. k \in 1..h
        <5>1. k \notin h+1..N
          BY <3>1, <4>1
        <5>2. QED
          BY <1>1, <5>1
      <4>3. k \in 1..N' /\ IsEntry(k)' /\ Under(k)' = i /\ host'[k].pc = host[k].pc
        BY <1>2, <1>5, <4>1, <4>2
      <4>4. PcOf(i) = host[k].pc
        BY <1>3, <4>1, Zenon DEF Shape
      <4>5. PcOf(i)' = host'[k].pc
        BY <1>3, <4>1, <4>3, Zenon DEF Shape
      <4>6. QED
        BY <4>3, <4>4, <4>5
    <3>4. CASE \A k \in 1..N : k # 1 /\ IsEntry(k) => Under(k) # i
      <4>1. ASSUME NEW k \in 1..N', k # 1, IsEntry(k)' PROVE Under(k)' # i
        <5>1. CASE k \in 1..h
          BY <1>2, <3>4, <4>1, <5>1
        <5>2. CASE k \notin 1..h
          <6>1. k \in h+1..N'
            BY <1>1, <5>2
          <6>2. QED
            BY <3>2, <6>1
        <5>3. QED
          BY <5>1, <5>2
      <4>2. PcOf(i) = IF i + 2 <= T THEN stack[i + 2].saved.pc ELSE reg.pc
        BY <1>3, <3>4, Zenon DEF Shape
      <4>3. PcOf(i)' = IF i + 2 <= T' THEN stack'[i + 2].saved.pc ELSE reg'.pc
        BY <1>3, <4>1, Zenon DEF Shape
      <4>4. i + 2 <= T /\ i + 2 <= T' /\ i + 2 \in 1..m
        BY <1>1, <2>3, <2>7
      <4>5. stack'[i + 2].saved = stack[i + 2].saved
        BY <1>1, <4>4 DEF Kept, KeptBlock, BlockLike
      <4>6. QED
        BY <4>2, <4>3, <4>4, <4>5
    <3>5. QED
      BY <3>3, <3>4
  <2>8. QED
    BY <2>1, <2>2, <2>3, <2>4, <2>5, <2>6, <2>7, WithParts
<1>8. QED
  BY <1>3, <1>4, <1>6, <1>7, Zenon DEF Shape

(* The place of what is behind an address.                                   *)
PlaceOf(a, q) ==
  \/ a.at = "host" /\ HostPlaced(q, a.i)
  \/ a.at = "stack" /\ \E j : FramePlaced(q, j) /\ a.i = 3 * j - 1
  \/ a = NoAddr /\ q = 0

(* What a step leaves of the calls: one of them has another variable, and    *)
(* the procedure of the last frame may be elsewhere.                         *)
LEMMA StoreKept ==
  ASSUME NEW m, NEW h, NEW f, KeptBelow(m, h, f), BalanceInv, BalanceInv', NEW n \in 1..h+f,
         NEW a, NEW q, PlaceOf(a, q), NEW v, Stored(a, v, m, h)
  PROVE  \/ Calls'[n] = With(Calls[n], IF n = q THEN v ELSE Calls[n].var)
         \/ /\ FramePlaced(n, f) /\ f # 0
            /\ Calls[n] = ProcWith(PcOf(3 * f - 1), stack[3 * f - 1].var)
            /\ Calls'[n] = ProcWith(PcOf(3 * f - 1)', IF n = q THEN v ELSE stack[3 * f - 1].var)
<1>1. f \in Nat /\ Height(m, f) /\ h \in Nat /\ m \in Nat /\ n # 0
  BY KeptParts
<1>2. CASE \E k \in 1..h : /\ HostPlaced(n, k) /\ Calls[n] = HostWith(k, host[k].var)
                           /\ Calls'[n] = HostWith(k, host'[k].var)
  <2>1. PICK k \in 1..h : /\ HostPlaced(n, k) /\ Calls[n] = HostWith(k, host[k].var)
                          /\ Calls'[n] = HostWith(k, host'[k].var)
    BY <1>2
  <2>2. n = q <=> a.at = "host" /\ a.i = k
    <3>1. n = q => a.at = "host" /\ a.i = k
      BY <1>1, <2>1, PlacedOnce DEF PlaceOf
    <3>2. ASSUME a.at = "host", a.i = k PROVE n = q
      <4>1. HostPlaced(q, k)
        BY <3>2 DEF PlaceOf, NoAddr
      <4>2. QED
        BY <2>1, <4>1 DEF HostPlaced
    <3>3. QED
      BY <3>1, <3>2
  <2>3. host'[k].var = IF n = q THEN v ELSE host[k].var
    BY <2>2 DEF Stored
  <2>4. QED
    BY <2>1, <2>3, WithParts
<1>3. CASE \E j \in 1..f :
             /\ FramePlaced(n, j) /\ Calls[n] = ProcWith(PcOf(3 * j - 1), stack[3 * j - 1].var)
             /\ Calls'[n] = ProcWith(PcOf(3 * j - 1)', stack'[3 * j - 1].var)
             /\ 3 * j + 1 <= m => PcOf(3 * j - 1)' = PcOf(3 * j - 1)
  <2>1. PICK j \in 1..f :
             /\ FramePlaced(n, j) /\ Calls[n] = ProcWith(PcOf(3 * j - 1), stack[3 * j - 1].var)
             /\ Calls'[n] = ProcWith(PcOf(3 * j - 1)', stack'[3 * j - 1].var)
             /\ 3 * j + 1 <= m => PcOf(3 * j - 1)' = PcOf(3 * j - 1)
    BY <1>3
  <2>2. PICK i : i = 3 * j - 1
    OBVIOUS
  <2>3. n = q <=> a.at = "stack" /\ a.i = i
    <3>1. ASSUME n = q PROVE a.at = "stack" /\ a.i = i
      <4>1. a.at = "stack" /\ \E l : FramePlaced(q, l) /\ a.i = 3 * l - 1
        BY <1>1, <2>1, <3>1, PlacedOnce DEF PlaceOf
      <4>2. QED
        BY <2>1, <2>2, <3>1, <4>1, PlacedOnce
    <3>2. ASSUME a.at = "stack", a.i = i PROVE n = q
      <4>1. PICK l : FramePlaced(q, l) /\ i = 3 * l - 1
        BY <3>2 DEF PlaceOf, NoAddr
      <4>2. l \in Nat /\ l = j
        BY <1>1, <2>2, <4>1 DEF FramePlaced
      <4>3. QED
        BY <2>1, <4>1, <4>2, FrameOnce
    <3>3. QED
      BY <3>1, <3>2
  <2>4. stack'[i].var = IF n = q THEN v ELSE stack[i].var
    <3>1. i \in 1..m
      BY <1>1, <2>2 DEF Height
    <3>2. QED
      BY <2>3, <3>1 DEF Stored
  <2>5. CASE j = f
    BY <1>1, <2>1, <2>2, <2>4, <2>5
  <2>6. CASE j # f
    <3>1. 3 * j + 1 <= m
      BY <1>1, <2>6 DEF Height
    <3>2. QED
      BY <2>1, <2>2, <2>4, <3>1, WithParts
  <2>7. QED
    BY <2>5, <2>6
<1>4. QED
  BY <1>2, <1>3, ContentKept

-----------------------------------------------------------------------------
(* The last calls in the three kinds of states: a procedure runs, native     *)
(* code runs, a run has ended.                                               *)
LEMMA FrameOverHost ==
  ASSUME BalanceInv, NEW c \in 1..N, NEW j \in Nat \ {0}, 3 * j - 1 \in 1..T,
         Under(c) < 3 * j - 1, c < N => Under(c + 1) = 3 * j - 1
  PROVE  FramePlaced(c + j, j)
<1>1. N \in Nat /\ T \in Nat
  BY Sizes
<1>2. PICK u \in Nat : Foot(Under(c), u) /\ Place(c) = c + u
  BY UnderParts
<1>3. Place(c) < c + j
  BY <1>1, <1>2 DEF Foot
<1>4. c < N => c + j < Place(c + 1)
  <2>1. SUFFICES ASSUME c < N PROVE c + j < Place(c + 1)
    OBVIOUS
  <2>2. PICK l : l = c + 1 /\ l \in 1..N /\ Under(l) = 3 * j - 1
    BY <1>1, <2>1
  <2>3. PICK w \in Nat : Foot(Under(l), w) /\ Place(l) = l + w
    BY <2>2, UnderParts
  <2>4. w = j
    BY <2>2, <2>3 DEF Foot
  <2>5. QED
    BY <1>1, <2>2, <2>3, <2>4
<1>5. QED
  BY <1>3, <1>4 DEF FramePlaced, Over

Runs(f) ==
  /\ f \in Nat \ {0} /\ Height(T, f) /\ T = 3 * f - 1 /\ N \in Nat \ {0} /\ Depth = N + f
  /\ \A k \in 1..N : Under(k) < T /\ Under(k) \in Nat
  /\ FramePlaced(Depth, f) /\ Calls[Depth] = ProcWith(reg.pc, stack[T].var)
  /\ PlaceOf(Local, Depth)

LEMMA RunningTop ==
  ASSUME BalanceInv, InLoop, reg.pc # NoPc
  PROVE  \E f : Runs(f)
<1>1. /\ N \in Nat /\ N \in 1..N /\ IsEntry(N)
      /\ T \in Nat /\ T \in 1..T /\ ctrl \in 1..T /\ T = ctrl + 1
      /\ stack[T].kind = "frame" /\ Local = OnStack(T)
  BY Running
<1>2. PICK j \in 1..T : T = 3 * j - 1
  BY <1>1, FrameAtThird DEF Kind
<1>3. PICK f \in Nat : Height(T, f) /\ Depth = N + f
  BY HeightOfStack
<1>4. f = j /\ f # 0 /\ T = 3 * f - 1
  BY <1>1, <1>2, <1>3 DEF Height
<1>5. Under(N) < T /\ Under(N) \in Nat
  <2>1. Under(N) \in Nat /\ BaseOf(N) \in 1..ctrl
    BY <1>1, UnderParts, BasesBelow
  <2>2. N # 1 => Under(N) + 2 = BaseOf(N)
    BY <1>1 DEF Under, BaseOf, IsEntry
  <2>3. N = 1 => Under(N) = 0
    BY <1>1 DEF Under, IsEntry
  <2>4. QED
    BY <1>1, <2>1, <2>2, <2>3
<1>6. ASSUME NEW k \in 1..N PROVE Under(k) < T /\ Under(k) \in Nat
  <2>1. k = N \/ k < N
    BY <1>1
  <2>2. k < N => Under(k) <= Under(N) /\ Under(k) \in Nat
    BY <1>1, UnderOrder
  <2>3. QED
    BY <1>1, <1>5, <2>1, <2>2
<1>7. FramePlaced(Depth, f)
  BY <1>1, <1>3, <1>4, <1>5, FrameOverHost
<1>8. Calls[Depth] = FrameCall(T)
  BY <1>4, <1>7, FrameFound
<1>9. PcOf(T) = reg.pc
  <2>1. \A k \in 1..N : k # 1 /\ IsEntry(k) => Under(k) # T
    BY <1>1, <1>6
  <2>2. ~(T + 2 <= T)
    BY <1>1
  <2>3. QED
    BY <2>1, <2>2, RunAboveFrame
<1>10. PlaceOf(Local, Depth)
  BY <1>1, <1>4, <1>7 DEF PlaceOf, OnStack
<1>11. Runs(f)
  BY <1>1, <1>3, <1>4, <1>6, <1>7, <1>8, <1>9, <1>10, WithParts DEF Runs
<1>12. QED
  BY <1>11

(* The parameter of a procedure is the variable of the call below it.        *)
LEMMA ParameterBelow ==
  ASSUME BalanceInv, InLoop, reg.pc # NoPc
  PROVE  /\ Depth - 1 \in 1..Depth /\ PlaceOf(Cell(reg.arg), Depth - 1)
         /\ AddressOk(Cell(reg.arg)) /\ reg.arg = reg.ret
         /\ Load(Cell(reg.arg)) = Calls[Depth - 1].var
<1>1. /\ N \in Nat /\ N \in 1..N /\ IsEntry(N)
      /\ T \in Nat /\ ctrl \in 1..T /\ T = ctrl + 1 /\ RegsOk(reg, ctrl) /\ ctrl # 0
  BY Running
<1>2. PICK f : Runs(f)
  BY RunningTop
<1>3. PICK d : d = Depth - 1 /\ d = N + (f - 1) /\ d \in 1..Depth
  BY <1>1, <1>2 DEF Runs
<1>4. AddressOk(Cell(reg.arg)) /\ reg.arg = reg.ret
  BY <1>1, Addresses
<1>5. BaseOf(N) \in 1..ctrl /\ IsBase(BaseOf(N))
  BY <1>1, BasesBelow
<1>6. f \in Nat \ {0} /\ ctrl = 3 * f - 2
  BY <1>1, <1>2 DEF Runs
<1>7. /\ N # 1 => Under(N) + 2 = BaseOf(N) /\ Under(N) \in Nat
      /\ N = 1 => Under(N) = 0 /\ BaseOf(N) = 1
  <2>1. N # 1 => Under(N) + 2 = BaseOf(N)
    BY <1>1 DEF Under, BaseOf, IsEntry
  <2>2. N = 1 => Under(N) = 0 /\ BaseOf(N) = 1
    BY <1>1 DEF Under, BaseOf, IsEntry
  <2>3. Under(N) \in Nat
    BY <1>1, UnderParts
  <2>4. QED
    BY <2>1, <2>2, <2>3
<1>8. CASE stack[ctrl].saved.pc = NoPc
  <2>1. PICK k \in 1..N : reg.ret = OnHost(k) /\ IsEntry(k) /\ BaseOf(k) = ctrl
    BY <1>1, <1>8 DEF RegsOk
  <2>2. k = N
    <3>1. k # N => BaseOf(k) + 3 <= BaseOf(N)
      BY <2>1, BasesBelow
    <3>2. QED
      BY <1>1, <1>5, <2>1, <3>1
  <2>3. PICK u \in Nat : Foot(Under(N), u) /\ Place(N) = N + u
    BY <1>1, UnderParts
  <2>4. u = f - 1
    BY <1>1, <1>6, <1>7, <2>1, <2>2, <2>3 DEF Foot
  <2>5. HostPlaced(d, N)
    BY <1>1, <1>3, <2>3, <2>4 DEF HostPlaced
  <2>6. Cell(reg.arg) = OnHost(N)
    BY <1>4, <2>1, <2>2 DEF Cell, OnHost
  <2>7. Calls[d] = HostWith(N, host[N].var)
    BY <2>5, HostFound, WithParts
  <2>8. Load(OnHost(N)) = host[N].var
    BY DEF Load, OnHost
  <2>9. PlaceOf(OnHost(N), d)
    BY <2>5 DEF PlaceOf, OnHost
  <2>10. QED
    BY <1>3, <1>4, <2>6, <2>7, <2>8, <2>9, WithParts
<1>9. CASE stack[ctrl].saved.pc # NoPc
  <2>1. reg.ret = OnStack(ctrl - 1) /\ stack[ctrl].kind = "ctrl"
    BY <1>1, <1>9 DEF RegsOk
  <2>2. ctrl # 1 /\ ctrl >= 4 /\ stack[ctrl - 1].kind = "argv"
    BY <1>1, <1>9, <2>1 DEF BalanceInv, BlockOk
  <2>3. PICK a : a = ctrl - 1 /\ a \in 1..T /\ a - 1 = ctrl - 2
    BY <1>1, <2>2
  <2>4. stack[a].refs = OnStack(ctrl - 2)
    BY <2>2, <2>3 DEF BalanceInv, BlockOk
  <2>5. Cell(reg.arg) = OnStack(ctrl - 2)
    BY <1>4, <2>1, <2>3, <2>4 DEF Cell, OnStack
  <2>6. PICK j : j = f - 1 /\ j \in Nat \ {0} /\ 3 * j - 1 = ctrl - 2 /\ 3 * j - 1 \in 1..T
    BY <1>1, <1>6, <2>2
  <2>7. BaseOf(N) # ctrl
    BY <1>5, <1>9 DEF IsBase
  <2>8. Under(N) < 3 * j - 1
    BY <1>1, <1>5, <1>7, <2>2, <2>6, <2>7
  <2>9. FramePlaced(d, j)
    BY <1>1, <1>3, <2>6, <2>8, FrameOverHost
  <2>10. Calls[d] = ProcWith(PcOf(3 * j - 1), stack[3 * j - 1].var)
    BY <2>9, FrameFound, WithParts
  <2>11. Load(OnStack(ctrl - 2)) = stack[ctrl - 2].var
    BY DEF Load, OnStack
  <2>12. PlaceOf(OnStack(ctrl - 2), d)
    BY <2>6, <2>9 DEF PlaceOf, OnStack
  <2>13. QED
    BY <1>3, <1>4, <2>5, <2>6, <2>10, <2>11, <2>12, WithParts
<1>10. QED
  BY <1>8, <1>9

(* Native code runs.                                                         *)
InNativeOver(f) ==
  /\ f \in Nat \ {0} /\ Height(T, f) /\ T = 3 * f /\ N \in Nat \ {0, 1} /\ Depth = N + f
  /\ \A k \in 1..N-1 : Under(k) < T - 1 /\ Under(k) \in Nat
  /\ Under(N) = T - 1 /\ host[N].frame = T - 1
  /\ HostPlaced(Depth, N) /\ Calls[Depth] = HostWith(N, host[N].var)
  /\ FramePlaced(Depth - 1, f) /\ PcOf(T - 1) = reg.pc

LEMMA NativeTop ==
  ASSUME BalanceInv, N # 0, ~IsEntry(N)
  PROVE  \E f : InNativeOver(f)
<1>1. N \in Nat /\ T \in Nat /\ N \in 1..N
  BY Sizes
<1>2. ctrl # 0 /\ T = ctrl + 2 /\ T = host[N].frame + 1 /\ ctrl \in 1..T
  BY LastBlock DEF BalanceInv, TopOk
<1>3. HostOk(N) /\ N # 1
  BY <1>1 DEF BalanceInv, HostOk
<1>4. Under(N) = host[N].frame /\ host[N].frame \in Nat
  BY <1>3 DEF Under, IsEntry, HostOk
<1>5. Under(N) = T - 1 /\ host[N].frame = T - 1
  BY <1>1, <1>2, <1>4
<1>6. PICK u \in Nat : Foot(Under(N), u) /\ Place(N) = N + u
  BY <1>1, UnderParts
<1>7. PICK f \in Nat : Height(T, f) /\ Depth = N + f
  BY HeightOfStack
<1>8. u = f /\ f # 0 /\ T = 3 * f
  BY <1>1, <1>2, <1>5, <1>6, <1>7 DEF Foot, Height
<1>9. ASSUME NEW k \in 1..N-1 PROVE Under(k) < T - 1 /\ Under(k) \in Nat
  <2>1. k \in 1..N /\ k < N
    BY <1>1
  <2>2. QED
    BY <1>1, <1>5, <2>1, UnderOrder
<1>10. HostPlaced(Depth, N)
  BY <1>1, <1>6, <1>7, <1>8 DEF HostPlaced
<1>11. Calls[Depth] = HostWith(N, host[N].var)
  BY <1>10, HostFound, WithParts
<1>12. FramePlaced(Depth - 1, f)
  <2>1. PICK c : c = N - 1 /\ c \in 1..N /\ c \in 1..N-1 /\ c + 1 = N /\ c + f = Depth - 1
    BY <1>1, <1>3, <1>7
  <2>2. 3 * f - 1 \in 1..T /\ 3 * f - 1 = T - 1
    BY <1>8
  <2>3. Under(c) < 3 * f - 1 /\ Under(c + 1) = 3 * f - 1
    BY <1>5, <1>9, <2>1, <2>2
  <2>4. FramePlaced(c + f, f)
    BY <1>8, <2>1, <2>2, <2>3, FrameOverHost
  <2>5. QED
    BY <2>1, <2>4
<1>13. PcOf(T - 1) = reg.pc
  <2>1. ASSUME NEW k \in 1..N, IsEntry(k) PROVE Under(k) # T - 1
    <3>1. k \in 1..N-1
      BY <1>1, <2>1
    <3>2. QED
      BY <1>1, <1>9, <3>1
  <2>2. ~(T - 1 + 2 <= T)
    BY <1>1
  <2>3. QED
    BY <2>1, <2>2, RunAboveFrame
<1>14. N \in Nat \ {0, 1} /\ f \in Nat \ {0}
  BY <1>1, <1>3, <1>8
<1>15. InNativeOver(f)
  BY <1>5, <1>7, <1>8, <1>9, <1>10, <1>11, <1>12, <1>13, <1>14 DEF InNativeOver
<1>16. QED
  BY <1>15

(* A run has ended that native code has asked for.                           *)
EndedOver(f) ==
  /\ f \in Nat \ {0} /\ T = 3 * f /\ N \in Nat \ {0, 1} /\ Depth = N + f
  /\ Height(T, f) /\ Height(T - 1, f)
  /\ \A k \in 1..N : Under(k) <= T - 1 /\ Under(k) \in Nat
  /\ Under(N) = T - 1 /\ Under(N - 1) = T - 1
  /\ \A k \in 1..N-1 : IsEntry(k) => Under(k) # T - 1
  /\ HostPlaced(Depth, N) /\ Calls[Depth] = HostWith(N, host[N].var)
  /\ HostPlaced(Depth - 1, N - 1) /\ PcOf(T - 1) = host[N].pc

LEMMA EndedTop ==
  ASSUME BalanceInv, N # 0, IsEntry(N), reg.pc = NoPc
  PROVE  /\ N = 1 => Depth = 1 /\ T = 0
         /\ N # 1 => \E f : EndedOver(f)
<1>1. N \in Nat /\ T \in Nat /\ N \in 1..N
  BY Sizes
<1>2. PICK f \in Nat : Height(T, f) /\ Depth = N + f
  BY HeightOfStack
<1>3. CASE N = 1
  BY <1>1, <1>2, <1>3 DEF Height, BalanceInv, TopOk
<1>4. CASE N # 1
  <2>1. ctrl # 0 /\ T = ctrl + 2 /\ T = host[N - 1].frame + 1 /\ ctrl \in 1..T
    BY <1>4, LastBlock DEF BalanceInv, TopOk
  <2>2. PICK l : l = N - 1 /\ l \in 1..N /\ ~IsEntry(l) /\ l < N
    BY <1>1, <1>4, BaseIsNumber
  <2>3. host[l].frame \in Nat
    BY <2>2 DEF BalanceInv, HostOk
  <2>4. Under(l) = T - 1 /\ Under(N) = T - 1
    <3>1. Under(l) = host[l].frame /\ Under(N) = host[l].frame
      BY <1>4, <2>2 DEF Under, IsEntry
    <3>2. QED
      BY <1>1, <2>1, <2>2, <2>3, <3>1
  <2>5. PICK u \in Nat : Foot(Under(N), u) /\ Place(N) = N + u
    BY <1>1, UnderParts
  <2>6. PICK w \in Nat : Foot(Under(l), w) /\ Place(l) = l + w
    BY <2>2, UnderParts
  <2>7. u = f /\ f # 0 /\ T = 3 * f /\ w = f /\ Height(T - 1, f)
    BY <1>1, <1>2, <2>1, <2>4, <2>5, <2>6 DEF Foot, Height
  <2>8. ASSUME NEW k \in 1..N PROVE Under(k) <= T - 1 /\ Under(k) \in Nat
    <3>1. k = N \/ k < N
      BY <1>1
    <3>2. k < N => Under(k) <= Under(N) /\ Under(k) \in Nat
      BY <1>1, UnderOrder
    <3>3. Under(N) \in Nat
      BY <1>1, UnderParts
    <3>4. QED
      BY <1>1, <2>4, <3>1, <3>2, <3>3
  <2>9. ASSUME NEW k \in 1..N-1, IsEntry(k) PROVE Under(k) # T - 1
    <3>1. k \in 1..N /\ k < l
      BY <1>1, <2>2, <2>9
    <3>2. Under(k) < Under(l) /\ Under(k) \in Nat
      BY <2>2, <3>1, UnderOrder
    <3>3. QED
      BY <2>4, <3>2
  <2>10. HostPlaced(Depth, N) /\ HostPlaced(Depth - 1, l)
    BY <1>1, <1>2, <2>2, <2>5, <2>6, <2>7 DEF HostPlaced
  <2>11. Calls[Depth] = HostWith(N, host[N].var)
    BY <2>10, HostFound, WithParts
  <2>12. PcOf(T - 1) = host[N].pc
    BY <1>1, <1>4, <2>4, RunAboveFrame
  <2>13. N \in Nat \ {0, 1} /\ f \in Nat \ {0}
    BY <1>1, <1>4, <2>7
  <2>14. EndedOver(f)
    BY <1>2, <2>2, <2>4, <2>7, <2>8, <2>9, <2>10, <2>11, <2>12, <2>13 DEF EndedOver
  <2>15. QED
    BY <1>4, <2>14
<1>5. QED
  BY <1>3, <1>4

-----------------------------------------------------------------------------
(* The calls as a sequence, and sequences of calls that are changed.         *)
LEMMA SameSeq ==
  ASSUME NEW s, IsSeq(s), NEW t, IsSeq(t), Len(s) = Len(t), \A i \in 1..Len(s) : s[i] = t[i]
  PROVE  s = t
<1> DEFINE S == Range(s) \cup Range(t)
<1>1. s \in Seq(S) /\ t \in Seq(S)
  BY SeqMonotonic DEF IsSeq
<1> HIDE DEF S
<1>2. QED
  BY <1>1, SeqEqual

IsFrame(c) == c = With(c, c.var)
WithPc(call, pc) == [kind |-> call.kind, proc |-> call.proc, pc |-> pc, var |-> call.var]

LEMMA FrameParts ==
  /\ \A c, v : With(c, v).kind = c.kind /\ With(c, v).proc = c.proc /\ With(c, v).pc = c.pc /\ With(c, v).var = v
  /\ \A c, pc : /\ WithPc(c, pc).kind = c.kind /\ WithPc(c, pc).proc = c.proc
               /\ WithPc(c, pc).pc = pc /\ WithPc(c, pc).var = c.var
  /\ \A k, v : IsFrame(HostWith(k, v)) /\ HostWith(k, v).var = v /\ HostWith(k, v).proc = host[k].proc
               /\ HostWith(k, v).pc = 1 /\ HostWith(k, v).kind = IF IsEntry(k) THEN "entry" ELSE "native"
  /\ \A pc, v : IsFrame(ProcWith(pc, v)) /\ ProcWith(pc, v).var = v /\ ProcWith(pc, v).proc = pc.proc
               /\ ProcWith(pc, v).pc = pc.n /\ ProcWith(pc, v).kind = "proc"
  /\ \A c, v : IsFrame(With(c, v))
  /\ \A c, pc : IsFrame(WithPc(c, pc))
  /\ \A c : IsFrame(c) => With(c, c.var) = c
<1>1. \A c, v : With(c, v).kind = c.kind /\ With(c, v).proc = c.proc /\ With(c, v).pc = c.pc /\ With(c, v).var = v
  BY DEF With
<1>2. \A c, pc : /\ WithPc(c, pc).kind = c.kind /\ WithPc(c, pc).proc = c.proc
                 /\ WithPc(c, pc).pc = pc /\ WithPc(c, pc).var = c.var
  BY DEF WithPc
<1>3. \A k, v : IsFrame(HostWith(k, v)) /\ HostWith(k, v).var = v /\ HostWith(k, v).proc = host[k].proc
               /\ HostWith(k, v).pc = 1 /\ HostWith(k, v).kind = IF IsEntry(k) THEN "entry" ELSE "native"
  BY DEF HostWith, IsFrame, With
<1>4. \A pc, v : IsFrame(ProcWith(pc, v)) /\ ProcWith(pc, v).var = v /\ ProcWith(pc, v).proc = pc.proc
               /\ ProcWith(pc, v).pc = pc.n /\ ProcWith(pc, v).kind = "proc"
  BY DEF ProcWith, IsFrame, With
<1>5. (\A c, v : IsFrame(With(c, v))) /\ (\A c, pc : IsFrame(WithPc(c, pc)))
  BY DEF With, WithPc, IsFrame
<1>6. \A c : IsFrame(c) => With(c, c.var) = c
  BY DEF IsFrame
<1>7. QED
  BY <1>1, <1>2, <1>3, <1>4, <1>5, <1>6

(* Sequences of calls in which one has another variable or has gone on.      *)
WithVar(s, k, x) == [s EXCEPT ![k].var = x]
GoneOn(s, k, x) == [s EXCEPT ![k].pc = x]

LEMMA FrameStore ==
  ASSUME NEW s, IsSeq(s), NEW k \in 1..Len(s), IsFrame(s[k]), NEW x
  PROVE  /\ IsSeq(WithVar(s, k, x)) /\ Len(WithVar(s, k, x)) = Len(s)
         /\ \A i \in 1..Len(s) : WithVar(s, k, x)[i] = IF i = k THEN With(s[k], x) ELSE s[i]
         /\ IsSeq(GoneOn(s, k, x)) /\ Len(GoneOn(s, k, x)) = Len(s)
         /\ \A i \in 1..Len(s) : GoneOn(s, k, x)[i] = IF i = k THEN WithPc(s[k], x) ELSE s[i]
<1>1. [s[k] EXCEPT !.var = x] = With(s[k], x) /\ [s[k] EXCEPT !.pc = x] = WithPc(s[k], x)
  <2>1. ASSUME NEW a, NEW b, NEW c, NEW d, NEW r, r = [kind |-> a, proc |-> b, pc |-> c, var |-> d]
        PROVE  /\ [r EXCEPT !.var = x] = [kind |-> a, proc |-> b, pc |-> c, var |-> x]
               /\ [r EXCEPT !.pc = x] = [kind |-> a, proc |-> b, pc |-> x, var |-> d]
    BY <2>1
  <2>2. s[k] = [kind |-> s[k].kind, proc |-> s[k].proc, pc |-> s[k].pc, var |-> s[k].var]
    BY DEF IsFrame, With
  <2>3. QED
    BY <2>1, <2>2 DEF With, WithPc
<1>2. PICK b : b = [s[k] EXCEPT !.var = x] /\ b = With(s[k], x)
  BY <1>1
<1>3. WithVar(s, k, x) = [s EXCEPT ![k] = b]
  BY <1>2 DEF WithVar
<1>4. PICK c : c = [s[k] EXCEPT !.pc = x] /\ c = WithPc(s[k], x)
  BY <1>1
<1>5. GoneOn(s, k, x) = [s EXCEPT ![k] = c]
  BY <1>4 DEF GoneOn
<1>6. /\ IsSeq([s EXCEPT ![k] = b]) /\ Len([s EXCEPT ![k] = b]) = Len(s)
      /\ \A i \in 1..Len(s) : [s EXCEPT ![k] = b][i] = IF i = k THEN b ELSE s[i]
  <2>1. IsSeq([s EXCEPT ![k] = b])
    BY SeqUpdate
  <2>2. Len([s EXCEPT ![k] = b]) = Len(s)
    BY SeqUpdate
  <2>3. \A i \in 1..Len(s) : [s EXCEPT ![k] = b][i] = IF i = k THEN b ELSE s[i]
    BY SeqUpdate
  <2>4. QED
    BY <2>1, <2>2, <2>3
<1>7. /\ IsSeq([s EXCEPT ![k] = c]) /\ Len([s EXCEPT ![k] = c]) = Len(s)
      /\ \A i \in 1..Len(s) : [s EXCEPT ![k] = c][i] = IF i = k THEN c ELSE s[i]
  <2>1. IsSeq([s EXCEPT ![k] = c])
    BY SeqUpdate
  <2>2. Len([s EXCEPT ![k] = c]) = Len(s)
    BY SeqUpdate
  <2>3. \A i \in 1..Len(s) : [s EXCEPT ![k] = c][i] = IF i = k THEN c ELSE s[i]
    BY SeqUpdate
  <2>4. QED
    BY <2>1, <2>2, <2>3
<1>8. QED
  BY <1>2, <1>3, <1>4, <1>5, <1>6, <1>7

CallsOk ==
  /\ Depth \in Nat /\ IsSeq(Calls) /\ Len(Calls) = Depth
  /\ Calls = <<>> <=> Depth = 0
  /\ \A n \in 1..Depth : IsFrame(Calls[n])

LEMMA CallsAreSeq == BalanceInv => CallsOk
<1> SUFFICES ASSUME BalanceInv PROVE CallsOk
  OBVIOUS
<1>1. Depth \in Nat
  <2>1. PICK f \in Nat : Depth = N + f
    BY HeightOfStack
  <2>2. QED
    BY <2>1, Sizes
<1>2. DOMAIN Calls = 1..Depth /\ Calls \in [1..Depth -> Range(Calls)]
  BY DEF Calls, Range
<1>3. Calls \in Seq(Range(Calls))
  BY <1>1, <1>2, SeqDef
<1>4. IsSeq(Calls)
  BY <1>3 DEF IsSeq
<1>5. Len(Calls) = Depth
  BY <1>1, <1>2, <1>3, LenProperties
<1>6. Calls = <<>> <=> Depth = 0
  BY <1>3, <1>5, EmptySeq
<1>7. ASSUME NEW n \in 1..Depth PROVE IsFrame(Calls[n])
  <2>1. CASE \E k \in 1..N : HostPlaced(n, k)
    BY <2>1, HostFound, WithParts, FrameParts
  <2>2. CASE \E j \in Nat : FramePlaced(n, j)
    BY <2>2, FrameFound, WithParts, FrameParts
  <2>3. QED
    BY <2>1, <2>2, SomethingPlaced
<1>8. QED
  BY <1>1, <1>4, <1>5, <1>6, <1>7 DEF CallsOk

LEMMA CallsAreSeqNext == BalanceInv' => CallsOk'
BY CallsAreSeq, PTL

(* The calls up to d are as before, but for the variable of the q-th.        *)
SameButOne(d, q, v) == \A n \in 1..d : Calls'[n] = With(Calls[n], IF n = q THEN v ELSE Calls[n].var)

LEMMA StoreKeptSame ==
  ASSUME NEW m, NEW h, NEW f, KeptBelow(m, h, f), BalanceInv, BalanceInv',
         NEW a, NEW q, PlaceOf(a, q), NEW v, Stored(a, v, m, h),
         f # 0 => PcOf(3 * f - 1)' = PcOf(3 * f - 1)
  PROVE  SameButOne(h + f, q, v)
<1> SUFFICES ASSUME NEW n \in 1..h+f
             PROVE  Calls'[n] = With(Calls[n], IF n = q THEN v ELSE Calls[n].var)
  BY DEF SameButOne
<1>1. CASE /\ FramePlaced(n, f) /\ f # 0
           /\ Calls[n] = ProcWith(PcOf(3 * f - 1), stack[3 * f - 1].var)
           /\ Calls'[n] = ProcWith(PcOf(3 * f - 1)', IF n = q THEN v ELSE stack[3 * f - 1].var)
  BY <1>1, WithParts
<1>2. QED
  BY <1>1, StoreKept

LEMMA StoreKeptTop ==
  ASSUME NEW m, NEW h, NEW f, KeptBelow(m, h, f), BalanceInv, BalanceInv',
         NEW a, NEW q, PlaceOf(a, q), NEW v, Stored(a, v, m, h), f # 0,
         NEW d, d = h + f, FramePlaced(d, f)
  PROVE  /\ SameButOne(d - 1, q, v)
         /\ Calls'[d] = ProcWith(PcOf(3 * f - 1)', IF d = q THEN v ELSE Calls[d].var)
<1>1. h \in Nat /\ f \in Nat /\ d \in 1..h+f /\ Height(m, f)
  BY KeptParts
<1>2. ASSUME NEW n \in 1..d-1
      PROVE  Calls'[n] = With(Calls[n], IF n = q THEN v ELSE Calls[n].var)
  <2>1. n \in 1..h+f /\ n # d
    BY <1>1
  <2>2. ~FramePlaced(n, f)
    BY <2>1, FrameOnce
  <2>3. QED
    BY <2>1, <2>2, StoreKept
<1>3. Calls'[d] = ProcWith(PcOf(3 * f - 1)', IF d = q THEN v ELSE Calls[d].var)
  <2>1. ~(\E k \in 1..h : HostPlaced(d, k))
    BY PlacedOnce
  <2>2. PICK j \in 1..f : /\ FramePlaced(d, j) /\ Calls[d] = ProcWith(PcOf(3 * j - 1), stack[3 * j - 1].var)
                          /\ Calls'[d] = ProcWith(PcOf(3 * j - 1)', stack'[3 * j - 1].var)
    BY <1>1, <2>1, ContentKept
  <2>3. j = f
    BY <2>2, PlacedOnce
  <2>4. PICK i : i = 3 * f - 1 /\ i \in 1..m
    BY <1>1 DEF Height
  <2>5. stack'[i].var = IF a.at = "stack" /\ a.i = i THEN v ELSE stack[i].var
    BY <2>4 DEF Stored
  <2>6. d = q <=> a.at = "stack" /\ a.i = i
    <3>1. ASSUME d = q PROVE a.at = "stack" /\ a.i = i
      <4>1. a.at = "stack" /\ \E l : FramePlaced(q, l) /\ a.i = 3 * l - 1
        BY <1>1, <3>1, PlacedOnce DEF PlaceOf
      <4>2. QED
        BY <2>4, <3>1, <4>1, PlacedOnce
    <3>2. ASSUME a.at = "stack", a.i = i PROVE d = q
      <4>1. PICK l : FramePlaced(q, l) /\ i = 3 * l - 1
        BY <3>2 DEF PlaceOf, NoAddr
      <4>2. l \in Nat /\ l = f
        BY <1>1, <2>4, <4>1 DEF FramePlaced
      <4>3. QED
        BY <4>1, <4>2, FrameOnce
    <3>3. QED
      BY <3>1, <3>2
  <2>7. QED
    BY <2>2, <2>3, <2>4, <2>5, <2>6, FrameParts
<1>4. QED
  BY <1>2, <1>3 DEF SameButOne

-----------------------------------------------------------------------------
(* What is known of the calls after a step.                                  *)
TopCall ==
  /\ (InLoop \/ (N # 0 /\ IsEntry(N))) /\ reg.pc # NoPc => Calls[Depth] = ProcWith(reg.pc, stack[T].var)
  /\ N # 0 /\ ~IsEntry(N) => Calls[Depth] = HostWith(N, host[N].var)

LEMMA TopCalled == BalanceInv => TopCall
<1> SUFFICES ASSUME BalanceInv PROVE TopCall
  OBVIOUS
<1>1. (InLoop \/ (N # 0 /\ IsEntry(N))) /\ reg.pc # NoPc => Calls[Depth] = ProcWith(reg.pc, stack[T].var)
  BY TopOfHost, RunningTop DEF Runs
<1>2. N # 0 /\ ~IsEntry(N) => Calls[Depth] = HostWith(N, host[N].var)
  BY NativeTop DEF InNativeOver
<1>3. QED
  BY <1>1, <1>2 DEF TopCall

LEMMA TopCalledNext == BalanceInv' => TopCall'
BY TopCalled, PTL

LEMMA HeightOnce ==
  ASSUME NEW t \in Nat, NEW f \in Nat, Height(t, f), NEW g \in Nat, Height(t, g)
  PROVE  f = g
BY DEF Height

LEMMA AfterStep ==
  ASSUME BalanceInv'
  PROVE  /\ T' \in Nat /\ N' \in Nat
         /\ \A f \in Nat : Height(T', f) => Depth' = N' + f
         /\ \A k \in 1..N', u \in Nat :
              Foot(Under(k)', u) => k + u \in 1..Depth' /\ Calls'[k + u] = HostWith(k, host[k].var)'
         /\ \A i : \A k \in 1..N' : k # 1 /\ IsEntry(k)' /\ Under(k)' = i => PcOf(i)' = host'[k].pc
         /\ \A i : (\A k \in 1..N' : k # 1 /\ IsEntry(k)' => Under(k)' # i)
                     => PcOf(i)' = IF i + 2 <= T' THEN stack'[i + 2].saved.pc ELSE reg'.pc
<1>1. Shape'
  BY ShapedNext
<1>2. T' \in Nat /\ N' \in Nat
  BY <1>1, Zenon DEF Shape
<1>3. PICK g \in Nat : Height(T', g) /\ Depth' = N' + g
  <2>1. \E g \in Nat : Height(T', g) /\ Depth' = N' + g
    BY <1>1, Zenon DEF Shape, Height
  <2>2. QED
    BY <2>1
<1>4. \A f \in Nat : Height(T', f) => Depth' = N' + f
  BY <1>2, <1>3, HeightOnce
<1>5. ASSUME NEW k \in 1..N', NEW u \in Nat, Foot(Under(k)', u)
      PROVE  k + u \in 1..Depth' /\ Calls'[k + u] = HostWith(k, host[k].var)'
  <2>1. PICK w \in Nat : Foot(Under(k)', w) /\ Under(k)' \in 0..T' /\ Place(k)' = k + w
    <3>1. \A l \in 1..N' : \E w \in Nat : Foot(Under(l)', w) /\ Under(l)' \in 0..T' /\ Place(l)' = l + w
      BY <1>1, Zenon DEF Shape, Foot
    <3>2. QED
      BY <3>1
  <2>2. w = u
    BY <1>5, <2>1 DEF Foot
  <2>3. HostPlaced(k + u, k)'
    BY <2>1, <2>2 DEF HostPlaced
  <2>4. k + u \in 1..Depth' /\ Calls'[k + u] = HostCall(k)'
    <3>1. \A n, l : HostPlaced(n, l)' => n \in 1..Depth' /\ Calls'[n] = HostCall(l)'
      BY <1>1, Zenon DEF Shape
    <3>2. QED
      BY <2>3, <3>1
  <2>5. HostCall(k)' = HostWith(k, host[k].var)'
    BY DEF HostCall, HostWith, IsEntry
  <2>6. QED
    BY <2>4, <2>5
<1>6. \A i : \A k \in 1..N' : k # 1 /\ IsEntry(k)' /\ Under(k)' = i => PcOf(i)' = host'[k].pc
  BY <1>1, Zenon DEF Shape
<1>7. \A i : (\A k \in 1..N' : k # 1 /\ IsEntry(k)' => Under(k)' # i)
               => PcOf(i)' = IF i + 2 <= T' THEN stack'[i + 2].saved.pc ELSE reg'.pc
  BY <1>1, Zenon DEF Shape
<1>8. QED
  BY <1>2, <1>4, <1>5, <1>6, <1>7

(* The last procedure has stored something, called or gone on.               *)
Advances(q, v, pc) ==
  /\ SameButOne(Depth - 1, q, v)
  /\ Calls'[Depth] = ProcWith(pc, IF Depth = q THEN v ELSE Calls[Depth].var)

LEMMA RunningAdvances ==
  ASSUME BalanceInv, BalanceInv', InLoop, reg.pc # NoPc, Kept(T, N),
         NEW a, NEW q, PlaceOf(a, q), NEW v, Stored(a, v, T, N),
         \A k \in N+1..N' : Under(k)' = T /\ ~IsEntry(k)',
         NEW pc, pc = IF T + 2 <= T' THEN stack'[T + 2].saved.pc ELSE reg'.pc
  PROVE  Advances(q, v, pc)
<1>1. PICK f : Runs(f)
  BY RunningTop
<1>2. /\ f \in Nat \ {0} /\ Height(T, f) /\ T = 3 * f - 1 /\ N \in Nat \ {0} /\ Depth = N + f
      /\ \A k \in 1..N : Under(k) < T /\ Under(k) \in Nat
      /\ FramePlaced(Depth, f)
  BY <1>1 DEF Runs
<1>3. T \in Nat
  BY Sizes
<1>4. KeptBelow(T, N, f)
  <2>1. \A k \in 1..N : Under(k) <= T
    BY <1>2, <1>3
  <2>2. \A k \in N+1..N : FALSE
    BY <1>2
  <2>3. \A k \in N+1..N' : T <= Under(k)'
    BY <1>3
  <2>4. QED
    BY <1>2, <2>1, <2>2, <2>3 DEF KeptBelow
<1>5. PcOf(3 * f - 1)' = pc
  <2>1. ASSUME NEW k \in 1..N', k # 1, IsEntry(k)' PROVE Under(k)' # T
    <3>1. k \in 1..N
      <4>1. k \notin N+1..N'
        BY <2>1
      <4>2. N' \in Nat
        BY AfterStep
      <4>3. QED
        BY <1>2, <4>1, <4>2
    <3>2. Under(k)' = Under(k)
      BY <1>4, <3>1, KeptParts
    <3>3. QED
      BY <1>2, <1>3, <3>1, <3>2
  <2>2. PICK t : t = T
    OBVIOUS
  <2>3. PcOf(t)' = IF t + 2 <= T' THEN stack'[t + 2].saved.pc ELSE reg'.pc
    BY <2>1, <2>2, AfterStep
  <2>4. t = 3 * f - 1
    BY <1>2, <2>2
  <2>5. QED
    BY <2>2, <2>3, <2>4
<1>6. PICK d : d = Depth /\ d = N + f /\ FramePlaced(d, f)
  BY <1>2
<1>7. SameButOne(d - 1, q, v) /\ Calls'[d] = ProcWith(PcOf(3 * f - 1)', IF d = q THEN v ELSE Calls[d].var)
  BY <1>2, <1>4, <1>6, StoreKeptTop
<1>8. QED
  BY <1>5, <1>6, <1>7 DEF Advances

LEMMA NothingStored ==
  ASSUME NEW m, NEW h, \A i \in 1..m : stack'[i].var = stack[i].var, \A k \in 1..h : host'[k].var = host[k].var
  PROVE  Stored(NoAddr, 0, m, h) /\ PlaceOf(NoAddr, 0)
BY DEF Stored, NoAddr, PlaceOf

-----------------------------------------------------------------------------
(* What each step does to the calls.                                         *)
LEMMA MoveAdvances ==
  ASSUME BalanceInv, BalanceInv', InLoop, reg.pc # NoPc,
         NEW a, AddressOk(a), NEW q, PlaceOf(a, q), NEW v,
         stack' = StackAfter(a, v), host' = HostAfter(a, v),
         NEW pc \in Pcs, reg' = [reg EXCEPT !.pc = pc]
  PROVE  Depth' = Depth /\ Advances(q, v, pc)
<1>1. /\ N \in Nat /\ T \in Nat /\ RegsOk(reg, ctrl)
  BY Running
<1>2. PICK s, t : s = StackAfter(a, v) /\ t = HostAfter(a, v)
  OBVIOUS
<1>3. stack' = s /\ host' = t
  BY <1>2
<1>4. IsSeq(s) /\ Len(s) = T /\ \A i \in 1..T : BlockLike(s[i], stack[i])
  BY <1>2, BlocksAfter
<1>5. IsSeq(t) /\ Len(t) = N /\ \A k \in 1..N : CallLike(t[k], host[k])
  BY <1>2, CallsAfter
<1>6. T' = T /\ N' = N
  BY <1>3, <1>4, <1>5 DEF T, N
<1>7. Kept(T, N)
  BY <1>1, <1>3, <1>4, <1>5, <1>6 DEF Kept, KeptBlock, KeptCall
<1>8. Stored(a, v, T, N)
  <2>1. /\ \A i \in 1..T : s[i].var = IF a.at = "stack" /\ a.i = i THEN v ELSE stack[i].var
        /\ \A k \in 1..N : t[k].var = IF a.at = "host" /\ a.i = k THEN v ELSE host[k].var
    BY <1>2, StoresStored
  <2>2. QED
    BY <1>3, <2>1 DEF Stored
<1>9. reg'.pc = pc
  BY <1>1, RegsWithPc
<1>10. pc = IF T + 2 <= T' THEN stack'[T + 2].saved.pc ELSE reg'.pc
  BY <1>1, <1>6, <1>9
<1>11. \A k \in N+1..N' : FALSE
  BY <1>1, <1>6
<1>12. Advances(q, v, pc)
  BY <1>7, <1>8, <1>10, <1>11, RunningAdvances
<1>13. Depth' = Depth
  <2>1. PICK f \in Nat : Height(T, f) /\ Depth = N + f
    BY HeightOfStack
  <2>2. Height(T', f)
    BY <1>6, <2>1
  <2>3. QED
    BY <1>6, <2>1, <2>2, AfterStep
<1>14. QED
  BY <1>12, <1>13

LEMMA CallJmpAdvances ==
  ASSUME BalanceInv, BalanceInv', NEW p \in Procs, CallJmp(p)
  PROVE  /\ Depth' = Depth + 1 /\ Advances(0, 0, NextPc)
         /\ Calls'[Depth + 1] = ProcWith([proc |-> p, n |-> 1], 0)
<1>1. InLoop /\ reg.pc # NoPc
  BY DEF CallJmp, Executes
<1>2. /\ N \in Nat /\ T \in Nat /\ T \in 1..T /\ RegsOk(reg, ctrl) /\ reg.pc \in Pcs
      /\ N # 0
  BY <1>1, Running
<1>3. PICK t, saved, x : t = T /\ saved = Saved(NextPc) /\ x = Block("argv", OnStack(t), NoRegs, 0, 0)
  OBVIOUS
<1>4. /\ host' = host
      /\ IsSeq(stack') /\ Len(stack') = t + 3 /\ (\A i \in 1..t : stack'[i] = stack[i])
      /\ stack'[t + 2].saved = saved /\ stack'[t + 3].var = 0
      /\ reg' = [frame |-> t + 3, arg |-> OnStack(t + 1), ret |-> OnStack(t + 1),
                 pc |-> [proc |-> p, n |-> 1], sf |-> t]
  BY <1>3, CallJmpParts
<1>5. T' = T + 3 /\ N' = N
  BY <1>3, <1>4 DEF T, N
<1>6. Kept(T, N)
  <2>1. IsSeq(host') /\ T \in 0..T' /\ T \in 0..T /\ N \in 0..N /\ N \in 0..N'
    BY <1>2, <1>4, <1>5 DEF BalanceInv
  <2>2. QED
    BY <1>3, <1>4, <2>1, LikeItself DEF Kept, KeptBlock, KeptCall
<1>7. Stored(NoAddr, 0, T, N) /\ PlaceOf(NoAddr, 0)
  BY <1>3, <1>4, NothingStored
<1>8. saved.pc = NextPc
  <2>1. NextPc \in Pcs
    BY <1>2, PcIsNotNoPc DEF NextPc
  <2>2. QED
    BY <1>2, <1>3, <2>1, RegsWithPc DEF Saved
<1>9. NextPc = IF T + 2 <= T' THEN stack'[T + 2].saved.pc ELSE reg'.pc
  BY <1>2, <1>3, <1>4, <1>5, <1>8
<1>10. \A k \in N+1..N' : FALSE
  BY <1>2, <1>5
<1>11. Advances(0, 0, NextPc)
  <2>1. PICK pc : pc = NextPc
    OBVIOUS
  <2>2. pc = IF T + 2 <= T' THEN stack'[T + 2].saved.pc ELSE reg'.pc
    BY <1>9, <2>1
  <2>3. Advances(0, 0, pc)
    BY <1>1, <1>6, <1>7, <1>10, <2>2, RunningAdvances
  <2>4. QED
    BY <2>1, <2>3
<1>12. Depth' = Depth + 1
  <2>1. PICK f : Runs(f)
    BY <1>1, RunningTop
  <2>2. PICK g : g = f + 1 /\ g \in Nat /\ Height(T', g) /\ N + g = Depth + 1
    BY <1>2, <1>5, <2>1 DEF Runs, Height
  <2>3. Depth' = N' + g
    BY <2>2, AfterStep
  <2>4. QED
    BY <1>5, <2>2, <2>3
<1>13. Calls'[Depth + 1] = ProcWith([proc |-> p, n |-> 1], 0)
  <2>1. InLoop' /\ reg'.pc = [proc |-> p, n |-> 1]
    BY <1>1, <1>4 DEF InLoop, Idle
  <2>2. reg'.pc # NoPc
    <3>1. reg'.pc \in Pcs
      BY <2>1 DEF Pcs
    <3>2. QED
      BY <3>1, PcIsNotNoPc
  <2>3. Calls'[Depth'] = ProcWith(reg'.pc, stack'[T'].var)
    BY <2>1, <2>2, TopCalledNext DEF TopCall, ProcWith
  <2>4. stack'[T'].var = 0
    BY <1>3, <1>4, <1>5
  <2>5. QED
    BY <1>12, <2>1, <2>3, <2>4
<1>14. QED
  BY <1>11, <1>12, <1>13

LEMMA CallExtAdvances ==
  ASSUME BalanceInv, BalanceInv', NEW p \in Procs, CallExt(p)
  PROVE  /\ Depth' = Depth + 1 /\ Advances(0, 0, NextPc)
         /\ Calls'[Depth + 1] = [kind |-> "native", proc |-> p, pc |-> 1, var |-> Calls[Depth].var]
<1>1. InLoop /\ reg.pc # NoPc
  BY DEF CallExt, Executes
<1>2. /\ N \in Nat /\ T \in Nat /\ T \in 1..T /\ RegsOk(reg, ctrl) /\ reg.pc \in Pcs
      /\ N # 0 /\ Local = OnStack(T)
  BY <1>1, Running
<1>3. PICK t, x, a : /\ t = T /\ x = Block("argv", OnStack(t), NoRegs, 0, 0)
                     /\ a = Activation(IF Fetch.native THEN "native" ELSE "thunk", p, Load(Local),
                                       OnStack(t), t, NoPc, ffi)
  OBVIOUS
<1>4. /\ reg' = [reg EXCEPT !.pc = NextPc]
      /\ IsSeq(stack') /\ Len(stack') = t + 1 /\ (\A i \in 1..t : stack'[i] = stack[i])
      /\ IsSeq(host') /\ Len(host') = N + 1 /\ (\A k \in 1..N : host'[k] = host[k])
      /\ host'[N + 1] = a
  BY <1>3, CallExtParts
<1>5. T' = T + 1 /\ N' = N + 1
  BY <1>3, <1>4 DEF T, N
<1>6. a.kind # "entry" /\ a.proc = p /\ a.frame = t /\ a.var = stack[T].var
  <2>1. a.kind # "entry" /\ a.proc = p /\ a.frame = t /\ a.var = Load(Local)
    BY <1>3 DEF Activation
  <2>2. Load(OnStack(T)) = stack[T].var
    BY DEF Load, OnStack
  <2>3. QED
    BY <1>2, <2>1, <2>2
<1>7. Kept(T, N)
  <2>1. T \in 0..T' /\ T \in 0..T /\ N \in 0..N /\ N \in 0..N'
    BY <1>2, <1>5
  <2>2. QED
    BY <1>3, <1>4, <2>1, LikeItself DEF Kept, KeptBlock, KeptCall
<1>8. Stored(NoAddr, 0, T, N) /\ PlaceOf(NoAddr, 0)
  BY <1>3, <1>4, NothingStored
<1>9. PICK l : l = N + 1 /\ ~IsEntry(l)' /\ Under(l)' = T
  <2>1. PICK l : l = N + 1
    OBVIOUS
  <2>2. host'[l].kind # "entry" /\ host'[l].frame = T
    BY <1>3, <1>4, <1>6, <2>1
  <2>3. ~IsEntry(l)' /\ Under(l)' = T
    BY <2>2 DEF IsEntry, Under
  <2>4. QED
    BY <2>1, <2>3
<1>10. \A k \in N+1..N' : Under(k)' = T /\ ~IsEntry(k)'
  <2>1. \A k \in N+1..N' : k = l
    BY <1>2, <1>5, <1>9
  <2>2. QED
    BY <1>9, <2>1
<1>11. Advances(0, 0, NextPc)
  <2>1. PICK pc : pc = NextPc
    OBVIOUS
  <2>2. pc \in Pcs
    <3>1. NextPc \in Pcs
      BY <1>2, PcIsNotNoPc DEF NextPc
    <3>2. QED
      BY <2>1, <3>1
  <2>3. reg'.pc = pc
    BY <1>2, <1>4, <2>1, <2>2, RegsWithPc
  <2>4. pc = IF T + 2 <= T' THEN stack'[T + 2].saved.pc ELSE reg'.pc
    BY <1>2, <1>5, <2>3
  <2>5. Advances(0, 0, pc)
    BY <1>1, <1>7, <1>8, <1>10, <2>4, RunningAdvances
  <2>6. QED
    BY <2>1, <2>5
<1>12. PICK f : Runs(f)
  BY <1>1, RunningTop
<1>13. Depth' = Depth + 1
  <2>1. f \in Nat /\ Height(T', f) /\ N + 1 + f = Depth + 1
    BY <1>2, <1>5, <1>12 DEF Runs, Height
  <2>2. Depth' = N' + f
    BY <2>1, AfterStep
  <2>3. QED
    BY <1>5, <2>1, <2>2
<1>14. Calls'[Depth + 1] = [kind |-> "native", proc |-> p, pc |-> 1, var |-> Calls[Depth].var]
  <2>1. N' # 0 /\ ~IsEntry(N)'
    <3>1. N' = l /\ N' # 0 /\ host'[l].kind # "entry"
      BY <1>2, <1>5, <1>9 DEF IsEntry
    <3>2. QED
      BY <3>1 DEF IsEntry
  <2>2. Calls'[Depth'] = HostWith(N, host[N].var)'
    BY <2>1, TopCalledNext DEF TopCall
  <2>3. HostWith(N, host[N].var)' = [kind |-> "native", proc |-> p, pc |-> 1, var |-> stack[T].var]
    BY <1>4, <1>5, <1>6, <2>1 DEF HostWith
  <2>4. Calls[Depth].var = stack[T].var
    BY <1>12, FrameParts DEF Runs
  <2>5. QED
    BY <1>13, <2>2, <2>3, <2>4
<1>15. QED
  BY <1>11, <1>13, <1>14

LEMMA KeptLess ==
  ASSUME NEW m \in Nat, NEW h, Kept(m, h), NEW i \in 0..m
  PROVE  Kept(i, h)
BY SeqParts DEF Kept, T

LEMMA EnteringAdds ==
  ASSUME BalanceInv, BalanceInv', N = 0 \/ ~IsEntry(N), NEW p \in Procs, NEW v,
         NEW callers, IsSeq(callers), Len(callers) = N, \A k \in 1..N : CallLike(callers[k], host[k]),
         \A k \in 1..N : callers[k].var = host[k].var, InterpInvoke(callers, p, v)
  PROVE  /\ Depth' = Depth + 2 /\ SameButOne(Depth, 0, 0)
         /\ Calls'[Depth + 1] = [kind |-> "entry", proc |-> p, pc |-> 1, var |-> v]
         /\ Calls'[Depth + 2] = ProcWith([proc |-> p, n |-> 1], 0)
<1>1. PICK t, n, saved, a :
        /\ t = T /\ n = N /\ saved = Saved(NoPc)
        /\ a = Activation("entry", p, v, NoAddr, 0, reg.pc, ffi)
  OBVIOUS
<1>2. t \in Nat /\ n \in Nat
  BY <1>1, Sizes
<1>3. /\ IsSeq(stack') /\ Len(stack') = t + 2 /\ (\A i \in 1..t : stack'[i] = stack[i])
      /\ stack'[t + 2].var = 0
      /\ reg' = [frame |-> t + 2, arg |-> OnHost(n + 1), ret |-> OnHost(n + 1),
                 pc |-> [proc |-> p, n |-> 1], sf |-> t]
      /\ IsSeq(host') /\ Len(host') = n + 1 /\ (\A k \in 1..n : CallLike(host'[k], host[k]))
      /\ \A k \in 1..n : host'[k] = callers[k]
      /\ host'[n + 1] = a
  BY <1>1, EnteringParts
<1>4. T' = t + 2 /\ N' = n + 1
  BY <1>3 DEF T, N
<1>5. a.kind = "entry" /\ a.proc = p /\ a.pc = reg.pc /\ a.var = v
  BY <1>1 DEF Activation
<1>6. PICK l : l = n + 1 /\ l \in 1..N' /\ N' = l /\ IsEntry(l)' /\ host'[l] = a
  <2>1. PICK l : l = n + 1 /\ l \in 1..N' /\ N' = l
    BY <1>2, <1>4
  <2>2. host'[l].kind = "entry" /\ host'[l] = a
    BY <1>3, <1>5, <2>1
  <2>3. IsEntry(l)'
    BY <2>2 DEF IsEntry
  <2>4. QED
    BY <2>1, <2>2, <2>3
<1>7. Calls'[Depth'] = ProcWith([proc |-> p, n |-> 1], 0)
  <2>1. N' # 0 /\ IsEntry(N)'
    BY <1>2, <1>4, <1>6 DEF IsEntry
  <2>2. reg'.pc = [proc |-> p, n |-> 1] /\ reg'.pc # NoPc
    <3>1. reg'.pc = [proc |-> p, n |-> 1]
      BY <1>3
    <3>2. reg'.pc \in Pcs
      BY <3>1 DEF Pcs
    <3>3. QED
      BY <3>1, <3>2, PcIsNotNoPc
  <2>3. Calls'[Depth'] = ProcWith(reg'.pc, stack'[T'].var)
    BY <2>1, <2>2, TopCalledNext DEF TopCall, ProcWith
  <2>4. QED
    BY <1>3, <1>4, <2>2, <2>3
<1>8. HostWith(l, host[l].var)' = [kind |-> "entry", proc |-> p, pc |-> 1, var |-> v]
  BY <1>5, <1>6 DEF HostWith
<1>9. CASE n = 0
  <2>1. Depth = 0 /\ T = 0 /\ t = 0 /\ l = 1
    BY <1>1, <1>6, <1>9, PlaceOrder DEF BalanceInv, TopOk
  <2>2. Depth' = 2
    <3>1. Height(T', 1) /\ 1 \in Nat
      BY <1>4, <2>1 DEF Height
    <3>2. Depth' = N' + 1
      BY <3>1, AfterStep
    <3>3. QED
      BY <1>6, <2>1, <3>2
  <2>3. Foot(Under(l)', 0)
    BY <1>6, <2>1 DEF Foot, Under, IsEntry
  <2>4. Calls'[1] = HostWith(l, host[l].var)'
    <3>1. Calls'[l + 0] = HostWith(l, host[l].var)'
      BY <1>6, <2>3, AfterStep
    <3>2. QED
      BY <2>1, <3>1
  <2>5. SameButOne(Depth, 0, 0)
    BY <2>1 DEF SameButOne
  <2>6. QED
    BY <1>7, <1>8, <2>1, <2>2, <2>4, <2>5
<1>10. CASE n # 0
  <2>1. PICK f : InNativeOver(f)
    BY <1>1, <1>10, NativeTop
  <2>2. /\ f \in Nat \ {0} /\ Height(T, f) /\ T = 3 * f /\ N \in Nat \ {0, 1} /\ Depth = N + f
        /\ \A k \in 1..N-1 : Under(k) < T - 1 /\ Under(k) \in Nat
        /\ Under(N) = T - 1 /\ host[N].frame = T - 1 /\ PcOf(T - 1) = reg.pc
    BY <2>1 DEF InNativeOver
  <2>3. PICK m : m = T - 1 /\ m \in Nat /\ m \in 0..T /\ m = 3 * f - 1 /\ m + 1 = T
    BY <2>2
  <2>4. Kept(m, N)
    <3>1. Kept(T, N)
      <4>1. T \in 0..T' /\ T \in 0..T /\ N \in 0..N /\ N \in 0..N'
        BY <1>1, <1>2, <1>4
      <4>2. QED
        BY <1>1, <1>3, <4>1, LikeItself DEF Kept, KeptBlock, KeptCall
    <3>2. T \in Nat
      BY <1>1, <1>2
    <3>3. QED
      BY <2>3, <3>1, <3>2, KeptLess
  <2>5. Under(l)' = m
    <3>1. l # 1 /\ l - 1 = n /\ n \in 1..n
      BY <1>2, <1>6, <1>10
    <3>2. host'[n].frame = m
      BY <1>1, <1>3, <2>2, <2>3, <3>1 DEF CallLike
    <3>3. QED
      BY <1>6, <3>1, <3>2 DEF Under, IsEntry
  <2>6. KeptBelow(m, N, f)
    <3>1. Height(m, f)
      BY <2>2, <2>3 DEF Height
    <3>2. \A k \in 1..N : Under(k) <= m
      BY <2>2, <2>3
    <3>3. (\A k \in N+1..N : FALSE) /\ (\A k \in N+1..N' : k = l)
      BY <1>1, <1>2, <1>6
    <3>4. \A k \in N+1..N' : m <= Under(k)'
      BY <2>3, <2>5, <3>3
    <3>5. QED
      BY <2>2, <2>4, <3>1, <3>2, <3>3, <3>4 DEF KeptBelow
  <2>7. PcOf(m)' = PcOf(m)
    <3>1. l # 1
      BY <1>2, <1>6, <1>10
    <3>2. PcOf(m)' = host'[l].pc
      BY <1>6, <2>5, <3>1, AfterStep
    <3>3. QED
      BY <1>5, <1>6, <2>2, <2>3, <3>2
  <2>8. Stored(NoAddr, 0, m, N) /\ PlaceOf(NoAddr, 0)
    <3>1. \A i \in 1..m : stack'[i].var = stack[i].var
      BY <1>1, <1>2, <1>3, <2>3
    <3>2. \A k \in 1..N : host'[k].var = host[k].var
      BY <1>1, <1>3
    <3>3. QED
      BY <3>1, <3>2, NothingStored
  <2>9. SameButOne(N + f, 0, 0)
    BY <2>3, <2>6, <2>7, <2>8, StoreKeptSame
  <2>10. Depth' = Depth + 2
    <3>1. PICK g : g = f + 1 /\ g \in Nat /\ Height(T', g)
      BY <1>1, <1>4, <2>2 DEF Height
    <3>2. Depth' = N' + g
      BY <3>1, AfterStep
    <3>3. QED
      BY <1>1, <1>4, <2>2, <3>1, <3>2
  <2>11. Calls'[Depth + 1] = HostWith(l, host[l].var)'
    <3>1. Foot(Under(l)', f) /\ f \in Nat
      BY <2>2, <2>3, <2>5 DEF Foot
    <3>2. Calls'[l + f] = HostWith(l, host[l].var)'
      BY <1>6, <3>1, AfterStep
    <3>3. l + f = Depth + 1
      BY <1>1, <1>6, <2>2
    <3>4. QED
      BY <3>2, <3>3
  <2>12. QED
    BY <1>7, <1>8, <2>2, <2>9, <2>10, <2>11
<1>11. QED
  BY <1>9, <1>10

(* What a call that ends leaves: the result is the variable below.           *)
Returns == Depth' = Depth - 1 /\ SameButOne(Depth - 1, Depth - 1, Calls[Depth].var)

LEMMA InvokeReturnsRemoves ==
  ASSUME BalanceInv, BalanceInv', InvokeReturns
  PROVE  /\ Calls[Depth].kind = "entry"
         /\ (Depth = 1 /\ Depth' = 0) \/ (Depth \in Nat \ {0, 1} /\ Returns)
<1>1. PICK n : n = N
  OBVIOUS
<1>2. /\ n \in Nat /\ n # 0 /\ n \in 1..N /\ IsEntry(n) /\ HostOk(n)
      /\ T \in Nat /\ reg.pc = NoPc /\ RegsOk(reg, ctrl)
      /\ reg' = [reg EXCEPT !.pc = host[n].pc]
      /\ T' = T /\ N' = n - 1 /\ Kept(T, n - 1)
      /\ n # 1 => Stored(OnHost(n - 1), host[n].var, T, n - 1)
  BY <1>1, InvokeReturnsParts
<1>3. /\ n = 1 => Depth = 1 /\ T = 0
      /\ n # 1 => \E f : EndedOver(f)
  BY <1>1, <1>2, EndedTop
<1>4. CASE n = 1
  <2>1. Depth' = 0
    <3>1. Height(T', 0) /\ 0 \in Nat
      BY <1>2, <1>3, <1>4 DEF Height
    <3>2. Depth' = N' + 0
      BY <3>1, AfterStep
    <3>3. QED
      BY <1>2, <1>4, <3>2
  <2>2. Calls[Depth].kind = "entry"
    <3>1. Under(n) = 0
      BY <1>2, <1>4 DEF Under, IsEntry
    <3>2. PICK u \in Nat : Foot(Under(n), u) /\ Place(n) = n + u
      BY <1>2, UnderParts
    <3>3. HostPlaced(1, n)
      BY <1>2, <1>4, <3>1, <3>2 DEF HostPlaced, Foot
    <3>4. QED
      BY <1>2, <1>3, <1>4, <3>3, HostFound, WithParts, FrameParts
  <2>3. QED
    BY <1>3, <1>4, <2>1, <2>2
<1>5. CASE n # 1
  <2>1. PICK f : EndedOver(f)
    BY <1>3, <1>5
  <2>2. /\ f \in Nat \ {0} /\ T = 3 * f /\ N \in Nat \ {0, 1} /\ Depth = N + f
        /\ Height(T, f) /\ Height(T - 1, f)
        /\ \A k \in 1..N : Under(k) <= T - 1 /\ Under(k) \in Nat
        /\ Under(N) = T - 1
        /\ \A k \in 1..N-1 : IsEntry(k) => Under(k) # T - 1
        /\ Calls[Depth] = HostWith(N, host[N].var)
        /\ HostPlaced(Depth - 1, N - 1) /\ PcOf(T - 1) = host[N].pc
    BY <2>1 DEF EndedOver
  <2>3. PICK m, h : /\ m = T - 1 /\ m \in Nat /\ m \in 0..T /\ m = 3 * f - 1 /\ ~(m + 2 <= T)
                    /\ h = n - 1 /\ h \in Nat /\ h + 1 = n /\ h = N - 1 /\ h + f = Depth - 1
    BY <1>1, <1>2, <2>2
  <2>4. KeptBelow(m, h, f)
    <3>1. Kept(m, h)
      BY <1>2, <2>3, KeptLess
    <3>2. \A k \in 1..h : Under(k) <= m
      BY <1>1, <1>2, <2>2, <2>3
    <3>3. \A k \in h+1..N : m <= Under(k)
      <4>1. \A k \in h+1..N : k = N
        BY <1>1, <1>2, <2>3
      <4>2. m <= m
        BY <2>3
      <4>3. QED
        BY <2>2, <2>3, <4>1, <4>2
    <3>4. \A k \in h+1..N' : FALSE
      BY <1>2, <2>3
    <3>5. QED
      BY <2>2, <2>3, <3>1, <3>2, <3>3, <3>4 DEF KeptBelow
  <2>5. PcOf(m)' = PcOf(m)
    <3>1. ASSUME NEW k \in 1..N', k # 1, IsEntry(k)' PROVE Under(k)' # m
      <4>1. k \in 1..h
        BY <1>2, <2>3
      <4>2. Under(k)' = Under(k) /\ IsEntry(k)' = IsEntry(k)
        BY <2>4, <4>1, KeptParts
      <4>3. QED
        BY <2>2, <2>3, <3>1, <4>1, <4>2
    <3>2. PcOf(m)' = IF m + 2 <= T' THEN stack'[m + 2].saved.pc ELSE reg'.pc
      BY <3>1, AfterStep
    <3>3. reg'.pc = host[n].pc
      <4>1. host[n].pc \in Pcs \cup {NoPc}
        BY <1>2 DEF HostOk
      <4>2. QED
        BY <1>2, <4>1, RegsWithPc
    <3>4. QED
      BY <1>1, <1>2, <2>2, <2>3, <3>2, <3>3
  <2>6. PICK a, q, v : a = OnHost(h) /\ q = Depth - 1 /\ v = host[n].var
    OBVIOUS
  <2>7. PlaceOf(a, q)
    BY <2>2, <2>3, <2>6 DEF PlaceOf, OnHost
  <2>8. Stored(a, v, m, h)
    <3>1. Stored(a, v, T, h)
      BY <1>2, <1>5, <2>3, <2>6
    <3>2. \A i \in 1..m : i \in 1..T
      BY <1>2, <2>3
    <3>3. QED
      BY <3>1, <3>2 DEF Stored
  <2>9. SameButOne(h + f, q, v)
    BY <2>3, <2>4, <2>5, <2>7, <2>8, StoreKeptSame
  <2>10. Calls[Depth].var = v /\ Calls[Depth].kind = "entry"
    BY <1>1, <1>2, <2>2, <2>6, FrameParts
  <2>11. Depth' = Depth - 1
    <3>1. Height(T', f) /\ f \in Nat
      BY <1>2, <2>2
    <3>2. Depth' = N' + f
      BY <3>1, AfterStep
    <3>3. QED
      BY <1>2, <2>3, <3>2
  <2>12. Depth \in Nat \ {0, 1}
    BY <2>2
  <2>13. QED
    BY <2>3, <2>6, <2>9, <2>10, <2>11, <2>12 DEF Returns
<1>6. QED
  BY <1>4, <1>5

LEMMA NativeReturnsRemoves ==
  ASSUME BalanceInv, BalanceInv', NativeReturns
  PROVE  Calls[Depth].kind = "native" /\ Depth \in Nat \ {0, 1} /\ Returns
<1>1. PICK n, b : n = N /\ b = host[n].frame
  OBVIOUS
<1>2. /\ n \in Nat /\ n # 0 /\ n \in 1..N /\ ~IsEntry(n) /\ T = b + 1 /\ b \in Nat
      /\ reg' = reg /\ T' = b /\ N' = n - 1 /\ Kept(b, n - 1)
      /\ Stored(OnStack(b), host[n].var, b, n - 1)
  BY <1>1, NativeReturnsParts
<1>3. PICK f : InNativeOver(f)
  BY <1>1, <1>2, NativeTop
<1>4. /\ f \in Nat \ {0} /\ T = 3 * f /\ N \in Nat \ {0, 1} /\ Depth = N + f
      /\ \A k \in 1..N-1 : Under(k) < T - 1 /\ Under(k) \in Nat
      /\ Under(N) = T - 1
      /\ Calls[Depth] = HostWith(N, host[N].var)
      /\ FramePlaced(Depth - 1, f) /\ PcOf(T - 1) = reg.pc
  BY <1>3 DEF InNativeOver
<1>5. PICK h : /\ h = n - 1 /\ h \in Nat /\ h + 1 = n /\ h = N - 1 /\ h + f = Depth - 1
               /\ b = T - 1 /\ b = 3 * f - 1 /\ ~(b + 2 <= b)
  BY <1>1, <1>2, <1>4
<1>6. Height(b, f)
  BY <1>4, <1>5 DEF Height
<1>7. KeptBelow(b, h, f)
  <2>1. \A k \in 1..h : Under(k) <= b
    BY <1>1, <1>2, <1>4, <1>5
  <2>2. \A k \in h+1..N : b <= Under(k)
    <3>1. \A k \in h+1..N : k = N
      BY <1>1, <1>2, <1>5
    <3>2. b <= b
      BY <1>2
    <3>3. QED
      BY <1>4, <1>5, <3>1, <3>2
  <2>3. \A k \in h+1..N' : FALSE
    BY <1>2, <1>5
  <2>4. QED
    BY <1>2, <1>4, <1>5, <1>6, <2>1, <2>2, <2>3 DEF KeptBelow
<1>8. PcOf(b)' = PcOf(b)
  <2>1. ASSUME NEW k \in 1..N', k # 1, IsEntry(k)' PROVE Under(k)' # b
    <3>1. k \in 1..h
      BY <1>2, <1>5
    <3>2. Under(k)' = Under(k)
      BY <1>7, <3>1, KeptParts
    <3>3. QED
      BY <1>2, <1>4, <1>5, <3>1, <3>2
  <2>2. PcOf(b)' = IF b + 2 <= T' THEN stack'[b + 2].saved.pc ELSE reg'.pc
    BY <2>1, AfterStep
  <2>3. QED
    BY <1>2, <1>4, <1>5, <2>2
<1>9. PICK a, q, v : a = OnStack(b) /\ q = Depth - 1 /\ v = host[n].var
  OBVIOUS
<1>10. PlaceOf(a, q)
  BY <1>4, <1>5, <1>9 DEF PlaceOf, OnStack
<1>11. Stored(a, v, b, h)
  BY <1>2, <1>5, <1>9
<1>12. SameButOne(h + f, q, v)
  BY <1>5, <1>7, <1>8, <1>10, <1>11, StoreKeptSame
<1>13. Calls[Depth].var = v /\ Calls[Depth].kind = "native"
  BY <1>1, <1>2, <1>4, <1>9, FrameParts
<1>14. Depth' = Depth - 1
  <2>1. Height(T', f) /\ f \in Nat
    BY <1>2, <1>4, <1>6
  <2>2. Depth' = N' + f
    BY <2>1, AfterStep
  <2>3. QED
    BY <1>2, <1>5, <2>2
<1>15. Depth \in Nat \ {0, 1}
  BY <1>4
<1>16. QED
  BY <1>5, <1>9, <1>12, <1>13, <1>14, <1>15 DEF Returns

LEMMA RetRemoves ==
  ASSUME BalanceInv, BalanceInv', Ret
  PROVE  Depth \in Nat \ {0, 1} /\ Returns
<1>1. InLoop /\ reg.pc # NoPc
  BY DEF Ret, Executes
<1>2. PICK f : Runs(f)
  BY <1>1, RunningTop
<1>3. /\ f \in Nat \ {0} /\ T = 3 * f - 1 /\ N \in Nat \ {0} /\ Depth = N + f
      /\ \A k \in 1..N : Under(k) < T
      /\ Calls[Depth] = ProcWith(reg.pc, stack[T].var)
  BY <1>2 DEF Runs
<1>4. PICK c, g, m : c = ctrl /\ g = f - 1 /\ m = reg.sf
  OBVIOUS
<1>5. /\ g \in Nat /\ f = g + 1 /\ c = 3 * g + 1 /\ T = 3 * g + 2 /\ N + g = Depth - 1
      /\ c \in 1..T /\ c # 0 /\ BlockOk(c) /\ stack[c].kind = "ctrl" /\ RegsOk(reg, c)
      /\ N \in 1..N /\ IsEntry(N)
  BY <1>1, <1>3, <1>4, Running
<1>6. /\ stack[c].saved.pc = NoPc => m = 3 * g
      /\ stack[c].saved.pc # NoPc => m = 3 * g - 1 /\ g # 0
  BY <1>4, <1>5 DEF RegsOk, BlockOk
<1>7. m \in 0..T /\ Height(m, g) /\ m \in Nat /\ 3 * g - 1 <= m
  BY <1>5, <1>6 DEF Height
<1>8. /\ T' = m /\ N' = N /\ Kept(m, N) /\ Stored(Cell(reg.ret), Load(Local), m, N)
      /\ reg' = stack[c].saved
  BY <1>4, <1>7, RetParts
<1>9. KeptBelow(m, N, g)
  <2>1. ASSUME NEW k \in 1..N PROVE Under(k) <= m
    <3>1. PICK u \in Nat : Foot(Under(k), u)
      BY UnderParts
    <3>2. Under(k) < 3 * g + 2
      BY <1>3, <1>5
    <3>3. QED
      BY <1>5, <1>7, <3>1, <3>2 DEF Foot
  <2>2. (\A k \in N+1..N : FALSE) /\ (\A k \in N+1..N' : FALSE)
    BY <1>3, <1>8
  <2>3. QED
    BY <1>5, <1>7, <1>8, <2>1, <2>2 DEF KeptBelow
<1>10. ASSUME g # 0 PROVE PcOf(3 * g - 1)' = PcOf(3 * g - 1)
  <2>1. PICK i : i = 3 * g - 1 /\ i \in Nat /\ i + 2 = c
    BY <1>5, <1>10
  <2>2. CASE stack[c].saved.pc = NoPc
    <3>1. BaseOf(N) = c
      <4>1. PICK k \in 1..N : IsEntry(k) /\ BaseOf(k) = c
        BY <1>5, <2>2 DEF RegsOk
      <4>2. k # N => BaseOf(k) + 3 <= BaseOf(N)
        BY <1>1, <4>1, BasesBelow
      <4>3. BaseOf(N) \in 1..c
        BY <1>1, <1>4, <1>5, BasesBelow
      <4>4. QED
        BY <1>5, <4>1, <4>2, <4>3
    <3>2. N # 1 /\ host[N - 1].frame + 2 = c
      BY <1>5, <1>10, <3>1 DEF BaseOf
    <3>3. Under(N) = i
      <4>1. N - 1 \in 1..N /\ ~IsEntry(N - 1)
        BY <1>3, <1>5, <3>2, BaseIsNumber
      <4>2. host[N - 1].frame \in Nat
        BY <4>1 DEF BalanceInv, HostOk
      <4>3. host[N - 1].frame = i
        BY <2>1, <3>2, <4>2
      <4>4. QED
        BY <1>5, <3>2, <4>3 DEF Under, IsEntry
    <3>4. PcOf(i) = host[N].pc
      BY <1>5, <3>2, <3>3, RunAboveFrame
    <3>5. PICK n : n = N
      OBVIOUS
    <3>6. n \in 1..N' /\ IsEntry(n)' /\ Under(n)' = i /\ n # 1
      BY <1>5, <1>8, <1>9, <3>2, <3>3, <3>5, KeptParts
    <3>7. PcOf(i)' = host'[n].pc
      BY <3>6, AfterStep
    <3>8. host'[n].pc = host[n].pc
      BY <1>5, <1>8, <3>5 DEF Kept, KeptCall, CallLike
    <3>9. PcOf(i)' = PcOf(i)
      BY <3>4, <3>5, <3>7, <3>8
    <3>10. QED
      BY <2>1, <3>9
  <2>3. CASE stack[c].saved.pc # NoPc
    <3>1. m = i
      BY <1>6, <2>1, <2>3
    <3>2. ASSUME NEW k \in 1..N, k # 1, IsEntry(k), Under(k) = i PROVE FALSE
      <4>1. BaseOf(k) = c
        BY <2>1, <3>2 DEF BaseOf, Under, IsEntry
      <4>2. IsBase(BaseOf(k))
        BY <1>1, <3>2, BasesBelow
      <4>3. QED
        BY <2>3, <4>1, <4>2 DEF IsBase
    <3>3. PcOf(i) = stack[c].saved.pc
      <4>1. i + 2 <= T
        BY <1>5, <2>1
      <4>2. PcOf(i) = IF i + 2 <= T THEN stack[i + 2].saved.pc ELSE reg.pc
        BY <3>2, RunAboveFrame
      <4>3. QED
        BY <2>1, <4>1, <4>2
    <3>4. ASSUME NEW k \in 1..N', k # 1, IsEntry(k)' PROVE Under(k)' # i
      <4>1. k \in 1..N /\ Under(k)' = Under(k) /\ IsEntry(k)' = IsEntry(k)
        BY <1>8, <1>9, KeptParts
      <4>2. QED
        BY <3>2, <3>4, <4>1
    <3>5. PcOf(i)' = reg'.pc
      <4>1. ~(i + 2 <= T')
        BY <1>8, <2>1, <3>1
      <4>2. PcOf(i)' = IF i + 2 <= T' THEN stack'[i + 2].saved.pc ELSE reg'.pc
        BY <3>4, AfterStep
      <4>3. QED
        BY <4>1, <4>2
    <3>6. PcOf(i)' = PcOf(i)
      BY <1>8, <3>3, <3>5
    <3>7. QED
      BY <2>1, <3>6
  <2>4. QED
    BY <2>2, <2>3
<1>11. PICK a, q, v : a = Cell(reg.ret) /\ q = Depth - 1 /\ v = Load(Local)
  OBVIOUS
<1>12. PlaceOf(a, q) /\ v = Calls[Depth].var
  <2>1. PlaceOf(a, q)
    BY <1>1, <1>11, ParameterBelow
  <2>2. v = stack[T].var
    BY <1>1, <1>11, Running DEF Load, OnStack
  <2>3. QED
    BY <1>3, <2>1, <2>2, FrameParts
<1>13. SameButOne(N + g, q, v)
  BY <1>8, <1>9, <1>10, <1>11, <1>12, StoreKeptSame
<1>14. Depth' = Depth - 1
  <2>1. Height(T', g)
    BY <1>7, <1>8
  <2>2. Depth' = N' + g
    BY <1>5, <2>1, AfterStep
  <2>3. QED
    BY <1>5, <1>8, <2>2
<1>15. Depth \in Nat \ {0, 1}
  BY <1>3
<1>16. QED
  BY <1>5, <1>11, <1>12, <1>13, <1>14, <1>15 DEF Returns

-----------------------------------------------------------------------------
(* From what a step does to the calls to the actions of CallStack.           *)
LEMMA AbstractParts ==
  ASSUME CallsOk
  PROVE  /\ Abstract!Depth = Depth /\ Abstract!Top = Calls[Depth]
         /\ Abstract!Running <=> Depth # 0 /\ Calls[Depth].kind = "proc"
BY DEF CallsOk, Abstract!Depth, Abstract!Top, Abstract!Running

LEMMA CallsAre ==
  ASSUME CallsOk', NEW s, IsSeq(s), Len(s) = Depth', \A i \in 1..Len(s) : Calls'[i] = s[i]
  PROVE  Calls' = s
<1>1. IsSeq(Calls') /\ Len(Calls') = Depth'
  BY DEF CallsOk
<1>2. \A i \in 1..Len(Calls') : Calls'[i] = s[i]
  BY <1>1
<1>3. QED
  BY <1>1, <1>2, SameSeq

LEMMA NothingElse ==
  ASSUME CallsOk, NEW d \in 0..Depth, NEW q, NEW v, SameButOne(d, q, v), NEW n \in 1..d
  PROVE  Calls'[n] = IF n = q THEN With(Calls[n], v) ELSE Calls[n]
<1>1. IsFrame(Calls[n])
  BY DEF CallsOk
<1>2. QED
  BY <1>1, FrameParts DEF SameButOne

LEMMA BeginsAbstractly ==
  ASSUME CallsOk, CallsOk', NEW p, NEW v, Calls = <<>> \/ Calls[Depth].kind = "native", Depth + 2 <= MaxDepth,
         Depth' = Depth + 2, SameButOne(Depth, 0, 0), ir' = ir,
         Calls'[Depth + 1] = [kind |-> "entry", proc |-> p, pc |-> 1, var |-> v],
         Calls'[Depth + 2] = ProcWith([proc |-> p, n |-> 1], 0)
  PROVE  Abstract!Invoke(p, v)
<1>1. PICK x, y : x = Abstract!Call("entry", p, v) /\ y = Abstract!Call("proc", p, 0)
  OBVIOUS
<1>2. x = Calls'[Depth + 1] /\ y = Calls'[Depth + 2]
  BY <1>1 DEF Abstract!Call, ProcWith
<1>3. PICK c : c = Calls
  OBVIOUS
<1>4. IsSeq(c) /\ Len(c) = Depth /\ Depth \in Nat
  BY <1>3 DEF CallsOk
<1>5. IsSeq(c)
  BY <1>4
<1>6. PICK t : t = JoinedTwo(c, x, y)
  OBVIOUS
<1>7. /\ IsSeq(t) /\ Len(t) = Depth + 2
      /\ \A i \in 1..Depth : t[i] = Calls[i]
      /\ t[Depth + 1] = x /\ t[Depth + 2] = y
  <2>1. /\ IsSeq(t) /\ Len(t) = Len(c) + 2
        /\ \A i \in 1..Len(c) : t[i] = c[i]
        /\ t[Len(c) + 1] = x /\ t[Len(c) + 2] = y
    BY <1>5, <1>6, SeqJoinTwo
  <2>2. QED
    BY <1>3, <1>4, <2>1
<1>8. \A i \in 1..Depth : Calls'[i] = Calls[i]
  <2>1. Depth \in 0..Depth
    BY <1>4
  <2>2. \A i \in 1..Depth : i # 0
    BY <1>4
  <2>3. QED
    BY <2>1, <2>2, NothingElse
<1>9. \A i \in 1..Len(t) : Calls'[i] = t[i]
  <2>1. \A i \in 1..Len(t) : i \in 1..Depth \/ i = Depth + 1 \/ i = Depth + 2
    BY <1>4, <1>7
  <2>2. QED
    BY <1>2, <1>7, <1>8, <2>1
<1>10. Calls' = t
  BY <1>7, <1>9, CallsAre
<1>11. Calls' = Calls \o <<Abstract!Call("entry", p, v), Abstract!Call("proc", p, 0)>>
  BY <1>1, <1>3, <1>6, <1>10 DEF JoinedTwo
<1>12. QED
  BY <1>11, AbstractParts DEF Abstract!Invoke

LEMMA ReturnsCalls ==
  ASSUME CallsOk, CallsOk', Depth \in Nat \ {0, 1}, Returns
  PROVE  Calls' = [SubSeq(Calls, 1, Depth - 1) EXCEPT ![Depth - 1].var = Calls[Depth].var]
<1>1. PICK d, t, v : d = Depth - 1 /\ t = SubSeq(Calls, 1, d) /\ v = Calls[Depth].var
  OBVIOUS
<1>2. IsSeq(Calls) /\ Len(Calls) = Depth /\ Calls # <<>> /\ \A n \in 1..Depth : IsFrame(Calls[n])
  BY DEF CallsOk
<1>3. d \in Nat \ {0} /\ d \in 0..Depth /\ d + 1 = Depth /\ \A i \in 1..d : i \in 1..Depth
  BY <1>1
<1>4. /\ IsSeq(t) /\ Len(t) = d
      /\ \A i \in 1..d : t[i] = Calls[i]
  <2>1. PICK c : c = Calls
    OBVIOUS
  <2>2. IsSeq(c) /\ c # <<>> /\ t = SubSeq(c, 1, Len(c) - 1)
    BY <1>1, <1>2, <2>1
  <2>3. IsSeq(t) /\ Len(t) = Len(c) - 1 /\ \A i \in 1..Len(c)-1 : t[i] = c[i]
    BY <2>2, SeqButLast
  <2>4. Len(c) - 1 = d
    BY <1>1, <1>2, <2>1
  <2>5. QED
    BY <2>1, <2>3, <2>4
<1>5. d \in 1..Len(t) /\ IsFrame(t[d])
  BY <1>2, <1>3, <1>4
<1>6. PICK s : s = WithVar(t, d, v)
  OBVIOUS
<1>7. IsSeq(s) /\ Len(s) = Len(t) /\ \A i \in 1..Len(t) : s[i] = IF i = d THEN With(t[d], v) ELSE t[i]
  BY <1>4, <1>5, <1>6, FrameStore
<1>8. Len(s) = d
  BY <1>4, <1>7
<1>9. \A i \in 1..d : s[i] = IF i = d THEN With(t[d], v) ELSE t[i]
  BY <1>4, <1>7
<1>10. \A i \in 1..d : Calls'[i] = IF i = d THEN With(Calls[i], v) ELSE Calls[i]
  <2>1. SameButOne(d, d, v)
    BY <1>1 DEF Returns
  <2>2. QED
    BY <1>3, <2>1, NothingElse
<1>11. \A i \in 1..Len(s) : Calls'[i] = s[i]
  BY <1>3, <1>4, <1>8, <1>9, <1>10
<1>12. Depth' = d
  BY <1>1 DEF Returns
<1>13. Calls' = s
  BY <1>7, <1>8, <1>11, <1>12, CallsAre
<1>14. QED
  BY <1>1, <1>6, <1>13 DEF WithVar

LEMMA EndsAbstractly ==
  ASSUME CallsOk, CallsOk', Calls[Depth].kind = "entry", ir' = ir,
         (Depth = 1 /\ Depth' = 0) \/ (Depth \in Nat \ {0, 1} /\ Returns)
  PROVE  Abstract!InvokeReturns
<1>1. Calls # <<>>
  BY DEF CallsOk
<1>2. Depth = 1 => Calls' = <<>>
  BY DEF CallsOk, Returns
<1>3. Depth # 1 => Calls' = [SubSeq(Calls, 1, Depth - 1) EXCEPT ![Depth - 1].var = Calls[Depth].var]
  BY ReturnsCalls
<1>4. QED
  BY <1>1, <1>2, <1>3, AbstractParts DEF Abstract!InvokeReturns

LEMMA ReturnsAbstractly ==
  ASSUME CallsOk, CallsOk', Depth \in Nat \ {0, 1}, Returns, ir' = ir,
         Calls[Depth].kind = "native" \/ (Calls[Depth].kind = "proc" /\ Abstract!Instruction.op = "ret")
  PROVE  Abstract!Return
<1>1. Calls # <<>> /\ Depth > 1 /\ Depth # 0
  BY DEF CallsOk
<1>2. QED
  BY <1>1, AbstractParts, ReturnsCalls DEF Abstract!Return

(* The calls after the procedure has gone on.                                *)
LEMMA AdvancedParts ==
  ASSUME CallsOk, Depth # 0, NEW s, s = Abstract!Advanced
  PROVE  /\ Depth \in 1..Depth /\ IsSeq(s) /\ Len(s) = Depth
         /\ \A i \in 1..Depth : s[i] = IF i = Depth THEN WithPc(Calls[i], Calls[i].pc + 1) ELSE Calls[i]
         /\ \A i \in 1..Depth : IsFrame(s[i]) /\ s[i].var = Calls[i].var
<1>1. IsSeq(Calls) /\ Len(Calls) = Depth /\ Depth \in 1..Depth /\ \A n \in 1..Depth : IsFrame(Calls[n])
  BY DEF CallsOk
<1>2. PICK x : x = Calls[Depth].pc + 1
  OBVIOUS
<1>3. s = GoneOn(Calls, Depth, x)
  BY <1>2, AbstractParts DEF Abstract!Advanced, GoneOn
<1>4. PICK c, d : c = Calls /\ d = Depth
  OBVIOUS
<1>5. IsSeq(c) /\ d \in 1..Len(c) /\ IsFrame(c[d]) /\ s = GoneOn(c, d, x)
  BY <1>1, <1>3, <1>4
<1>6. IsSeq(s) /\ Len(s) = Len(c) /\ \A i \in 1..Len(c) : s[i] = IF i = d THEN WithPc(c[d], x) ELSE c[i]
  BY <1>5, FrameStore
<1>7. \A i \in 1..Depth : s[i] = IF i = Depth THEN WithPc(Calls[i], Calls[i].pc + 1) ELSE Calls[i]
  BY <1>1, <1>2, <1>4, <1>6
<1>8. \A i \in 1..Depth : IsFrame(s[i]) /\ s[i].var = Calls[i].var
  BY <1>1, <1>7, FrameParts
<1>9. QED
  BY <1>1, <1>4, <1>6, <1>7, <1>8

Goes(pc) == Calls[Depth].kind = "proc" /\ pc.proc = Calls[Depth].proc

LEMMA StepCalls ==
  ASSUME CallsOk, CallsOk', Depth # 0, Depth' = Depth, NEW q \in 0..Depth, NEW v, NEW pc, Goes(pc), Advances(q, v, pc),
         NEW s, IsSeq(s), Len(s) = Depth,
         \A i \in 1..Depth : s[i] = IF i = Depth THEN WithPc(Calls[i], pc.n) ELSE Calls[i],
         NEW t, t = IF q = 0 THEN s ELSE WithVar(s, q, v)
  PROVE  Calls' = t
<1>1. Depth \in Nat /\ Depth \in 1..Depth /\ Depth - 1 \in 0..Depth /\ \A n \in 1..Depth : IsFrame(Calls[n])
  BY DEF CallsOk
<1>2. \A i \in 1..Depth : IsFrame(s[i])
  BY <1>1, FrameParts
<1>3. /\ IsSeq(t) /\ Len(t) = Depth
      /\ \A i \in 1..Depth : t[i] = IF i = q THEN With(s[i], v) ELSE s[i]
  <2>1. CASE q = 0
    <3>1. t = s /\ \A i \in 1..Depth : i # q
      BY <1>1, <2>1
    <3>2. QED
      BY <3>1
  <2>2. CASE q # 0
    <3>1. q \in 1..Len(s) /\ IsFrame(s[q]) /\ t = WithVar(s, q, v)
      BY <1>1, <1>2, <2>2
    <3>2. IsSeq(t) /\ Len(t) = Len(s) /\ \A i \in 1..Len(s) : t[i] = IF i = q THEN With(s[q], v) ELSE s[i]
      BY <3>1, FrameStore
    <3>3. QED
      BY <3>2
  <2>3. QED
    BY <2>1, <2>2
<1>4. ASSUME NEW i \in 1..Depth PROVE Calls'[i] = t[i]
  <2>1. CASE i # Depth
    <3>1. i \in 1..Depth-1
      BY <1>1, <2>1
    <3>2. Calls'[i] = IF i = q THEN With(Calls[i], v) ELSE Calls[i]
      BY <1>1, <3>1, NothingElse DEF Advances
    <3>3. QED
      BY <1>3, <2>1, <3>2
  <2>2. CASE i = Depth
    <3>1. s[i] = WithPc(Calls[i], pc.n) /\ t[i] = IF i = q THEN With(s[i], v) ELSE s[i]
      BY <1>3, <2>2
    <3>2. Calls'[i] = ProcWith(pc, IF i = q THEN v ELSE Calls[i].var)
      BY <2>2 DEF Advances
    <3>3. Calls[i].kind = "proc" /\ pc.proc = Calls[i].proc
      BY <2>2 DEF Goes
    <3>4. QED
      BY <3>1, <3>2, <3>3 DEF ProcWith, WithPc, With
  <2>3. QED
    BY <2>1, <2>2
<1>5. QED
  BY <1>3, <1>4, CallsAre

LEMMA CallsMore ==
  ASSUME CallsOk, CallsOk', Depth # 0, Depth' = Depth + 1, NEW pc, Goes(pc), pc.n = Calls[Depth].pc + 1,
         Advances(0, 0, pc), NEW x, Calls'[Depth + 1] = x
  PROVE  Calls' = Append(Abstract!Advanced, x)
<1>1. Depth \in Nat /\ Depth \in 1..Depth /\ Depth - 1 \in 0..Depth
  BY DEF CallsOk
<1>2. PICK s : s = Abstract!Advanced
  OBVIOUS
<1>3. /\ IsSeq(s) /\ Len(s) = Depth
      /\ \A i \in 1..Depth : s[i] = IF i = Depth THEN WithPc(Calls[i], Calls[i].pc + 1) ELSE Calls[i]
  BY <1>2, AdvancedParts
<1>4. PICK t : t = Append(s, x)
  OBVIOUS
<1>5. /\ IsSeq(t) /\ Len(t) = Depth + 1
      /\ (\A i \in 1..Depth : t[i] = s[i]) /\ t[Depth + 1] = x
  BY <1>3, <1>4, SeqAppend
<1>6. ASSUME NEW i \in 1..Depth PROVE Calls'[i] = s[i]
  <2>1. CASE i # Depth
    <3>1. i \in 1..Depth-1 /\ i # 0
      BY <1>1, <2>1
    <3>2. Calls'[i] = Calls[i]
      BY <1>1, <3>1, NothingElse DEF Advances
    <3>3. QED
      BY <1>3, <2>1, <3>2
  <2>2. CASE i = Depth
    <3>1. s[i] = WithPc(Calls[i], pc.n) /\ i # 0
      BY <1>1, <1>3, <2>2
    <3>2. Calls'[i] = ProcWith(pc, Calls[i].var)
      BY <2>2, <3>1 DEF Advances
    <3>3. Calls[i].kind = "proc" /\ pc.proc = Calls[i].proc
      BY <2>2 DEF Goes
    <3>4. QED
      BY <3>1, <3>2, <3>3 DEF ProcWith, WithPc
  <2>3. QED
    BY <2>1, <2>2
<1>7. \A i \in 1..Len(t) : Calls'[i] = t[i]
  <2>1. \A i \in 1..Len(t) : i \in 1..Depth \/ i = Depth + 1
    BY <1>1, <1>5
  <2>2. QED
    BY <1>5, <1>6, <2>1
<1>8. Calls' = t
  BY <1>5, <1>7, CallsAre
<1>9. QED
  BY <1>2, <1>4, <1>8

-----------------------------------------------------------------------------
(* The instructions of a procedure do not call anything.                     *)
LEMMA NextPcParts ==
  ASSUME reg.pc \in Pcs
  PROVE  /\ NextPc \in Pcs /\ NextPc.proc = reg.pc.proc /\ NextPc.n = reg.pc.n + 1
         /\ \A n \in Nat \ {0} : [reg.pc EXCEPT !.n = n] \in Pcs
         /\ \A n : [reg.pc EXCEPT !.n = n].proc = reg.pc.proc /\ [reg.pc EXCEPT !.n = n].n = n
<1>1. ASSUME NEW pc \in Pcs, NEW n
      PROVE  /\ [pc EXCEPT !.n = n].proc = pc.proc /\ [pc EXCEPT !.n = n].n = n
             /\ n \in Nat \ {0} => [pc EXCEPT !.n = n] \in Pcs
  BY DEF Pcs
<1>2. reg.pc.n + 1 \in Nat \ {0}
  BY PcIsNotNoPc
<1>3. PICK n : n = reg.pc.n + 1 /\ NextPc = [reg.pc EXCEPT !.n = n]
  BY DEF NextPc
<1>4. QED
  BY <1>1, <1>2, <1>3

LEMMA NoStore ==
  /\ StackAfter(NoAddr, 0) = stack /\ HostAfter(NoAddr, 0) = host
  /\ AddressOk(NoAddr) /\ PlaceOf(NoAddr, 0)
BY DEF StackAfter, HostAfter, NoAddr, AddressOk, PlaceOf

LEMMA GetAdvances ==
  ASSUME BalanceInv, BalanceInv', Get
  PROVE  Depth' = Depth /\ Advances(Depth, Calls[Depth - 1].var, NextPc)
<1>1. InLoop /\ reg.pc # NoPc
  BY DEF Get, Executes
<1>2. PICK f : Runs(f)
  BY <1>1, RunningTop
<1>3. reg.pc \in Pcs /\ ctrl # 0 /\ Local = OnStack(T)
  BY <1>1, Running
<1>4. PICK a, q, v, pc : a = Local /\ q = Depth /\ v = Calls[Depth - 1].var /\ pc = NextPc
  OBVIOUS
<1>5. PlaceOf(a, q) /\ AddressOk(a) /\ pc \in Pcs
  BY <1>2, <1>3, <1>4, Addresses, NextPcParts DEF Runs
<1>6. Load(Cell(reg.arg)) = v
  BY <1>1, <1>4, ParameterBelow
<1>7. stack' = StackAfter(a, v) /\ host' = HostAfter(a, v) /\ reg' = [reg EXCEPT !.pc = pc]
  <2>1. stack' = StackAfter(Local, Load(Cell(reg.arg))) /\ host' = host /\ reg' = [reg EXCEPT !.pc = NextPc]
    BY DEF Get
  <2>2. HostAfter(a, v) = host
    BY <1>3, <1>4 DEF HostAfter, OnStack
  <2>3. QED
    BY <1>4, <1>6, <2>1, <2>2
<1>8. Depth' = Depth /\ Advances(q, v, pc)
  BY <1>1, <1>5, <1>7, MoveAdvances
<1>9. QED
  BY <1>4, <1>8

LEMMA PutAdvances ==
  ASSUME BalanceInv, BalanceInv', Put
  PROVE  Depth' = Depth /\ Advances(Depth - 1, 0, NextPc)
<1>1. InLoop /\ reg.pc # NoPc
  BY DEF Put, Executes
<1>2. reg.pc \in Pcs
  BY <1>1, Running
<1>3. PICK a, q, pc : a = Cell(reg.arg) /\ q = Depth - 1 /\ pc = NextPc
  OBVIOUS
<1>4. PlaceOf(a, q) /\ AddressOk(a) /\ pc \in Pcs
  BY <1>1, <1>2, <1>3, ParameterBelow, NextPcParts
<1>5. stack' = StackAfter(a, 0) /\ host' = HostAfter(a, 0) /\ reg' = [reg EXCEPT !.pc = pc]
  BY <1>3 DEF Put
<1>6. Depth' = Depth /\ Advances(q, 0, pc)
  BY <1>1, <1>4, <1>5, MoveAdvances
<1>7. QED
  BY <1>3, <1>6

LEMMA LeaAdvances ==
  ASSUME BalanceInv, BalanceInv', Lea
  PROVE  Depth' = Depth /\ Advances(0, 0, NextPc)
<1>1. InLoop /\ reg.pc # NoPc
  BY DEF Lea, Executes
<1>2. reg.pc \in Pcs
  BY <1>1, Running
<1>3. PICK pc, a : pc = NextPc /\ a = NoAddr
  OBVIOUS
<1>4. PlaceOf(a, 0) /\ AddressOk(a) /\ pc \in Pcs
  BY <1>2, <1>3, NoStore, NextPcParts
<1>5. stack' = StackAfter(a, 0) /\ host' = HostAfter(a, 0) /\ reg' = [reg EXCEPT !.pc = pc]
  BY <1>3, NoStore DEF Lea
<1>6. Depth' = Depth /\ Advances(0, 0, pc)
  BY <1>1, <1>4, <1>5, MoveAdvances
<1>7. QED
  BY <1>3, <1>6

LEMMA JmpzAdvances ==
  ASSUME BalanceInv, BalanceInv', Jmpz
  PROVE  /\ Depth' = Depth
         /\ \E pc : /\ Advances(0, 0, pc) /\ pc.proc = reg.pc.proc
                    /\ pc.n = IF Calls[Depth].var = 0 THEN Len(ir[reg.pc.proc]) + 1 ELSE reg.pc.n + 1
<1>1. InLoop /\ reg.pc # NoPc
  BY DEF Jmpz, Executes
<1>2. reg.pc \in Pcs /\ Local = OnStack(T)
  BY <1>1, Running
<1>3. PICK f : Runs(f)
  BY <1>1, RunningTop
<1>4. Load(Local) = Calls[Depth].var
  <2>1. Load(Local) = stack[T].var
    BY <1>2 DEF Load, OnStack
  <2>2. QED
    BY <1>3, <2>1, FrameParts DEF Runs
<1>5. PICK target : target = Len(ir[reg.pc.proc]) + 1
  OBVIOUS
<1>6. target \in Nat \ {0}
  <2>1. ir[reg.pc.proc] \in Seq(Instructions)
    BY <1>2, ProgramAssumption, PcIsNotNoPc DEF BalanceInv
  <2>2. QED
    BY <1>5, <2>1
<1>7. PICK pc, a : pc = (IF Load(Local) = 0 THEN [reg.pc EXCEPT !.n = target] ELSE NextPc) /\ a = NoAddr
  OBVIOUS
<1>8. /\ pc \in Pcs /\ pc.proc = reg.pc.proc
      /\ pc.n = IF Calls[Depth].var = 0 THEN target ELSE reg.pc.n + 1
  BY <1>2, <1>4, <1>6, <1>7, NextPcParts
<1>9. PlaceOf(a, 0) /\ AddressOk(a)
  BY <1>7, NoStore
<1>10. stack' = StackAfter(a, 0) /\ host' = HostAfter(a, 0) /\ reg' = [reg EXCEPT !.pc = pc]
  BY <1>5, <1>7, NoStore DEF Jmpz
<1>11. Depth' = Depth /\ Advances(0, 0, pc)
  BY <1>1, <1>8, <1>9, <1>10, MoveAdvances
<1>12. QED
  BY <1>5, <1>8, <1>11

-----------------------------------------------------------------------------
(* What runs is what the program says, once it has been translated.          *)
LEMMA InstructionParts ==
  ASSUME NEW i \in Instructions
  PROVE  /\ i.op \in {"call", "native", "data", "get", "put", "jmpz"}
         /\ i.op \in {"call", "native"} => i.proc \in Procs /\ i.proc # None
BY TranslationAssumption DEF Instructions, Ref, DataRef, Plain

LEMMA Fetched ==
  ASSUME BalanceInv, RunsWhole, InLoop, reg.pc # NoPc, NEW i, i = Abstract!Instruction
  PROVE  /\ Calls[Depth].kind = "proc" /\ Depth # 0
         /\ Fetch.op = IF i.op = "ret" THEN "ret" ELSE Opcode(i)
         /\ i.op \in {"call", "native", "data", "get", "put", "jmpz", "ret"}
         /\ i.op \in {"call", "native"} => Fetch.to.proc = i.proc
<1>1. PICK f : Runs(f)
  BY RunningTop
<1>2. PICK p, n : p = reg.pc.proc /\ n = reg.pc.n
  OBVIOUS
<1>3. p \in Procs /\ n \in Nat \ {0}
  BY <1>2, Running, PcIsNotNoPc
<1>4. Calls[Depth].kind = "proc" /\ Calls[Depth].proc = p /\ Calls[Depth].pc = n
  BY <1>1, <1>2, FrameParts DEF Runs
<1>5. Depth \in 1..Depth /\ Depth # 0
  BY <1>1 DEF Runs
<1>6. IsWhole(run, ir, p)
  <2>1. p \in CalledFrom(ir, p)
    BY <1>3 DEF CalledFrom, Reaches
  <2>2. Depth \in DOMAIN Calls
    BY <1>5 DEF Calls
  <2>3. QED
    BY <1>4, <2>1, <2>2 DEF RunsWhole
<1>7. PICK body, code : body = ir[p] /\ code = Code
  OBVIOUS
<1>8. body \in Seq(Instructions)
  BY <1>3, <1>7, ProgramAssumption DEF BalanceInv
<1>9. /\ Len(code) = Len(body)
      /\ \A m \in 1..Len(body) : /\ code[m].op = Opcode(body[m])
                                 /\ body[m].proc # None => code[m].to.proc = body[m].proc
  <2>1. DOMAIN body = 1..Len(body)
    BY <1>8
  <2>2. code = run.procs[p].code
    BY <1>2, <1>7 DEF Code
  <2>3. QED
    BY <1>6, <1>7, <2>1, <2>2 DEF IsWhole
<1>10. i = IF n > Len(body) THEN [op |-> "ret", proc |-> None] ELSE body[n]
  BY <1>4, <1>7, CallsAreSeq, AbstractParts DEF Abstract!Instruction
<1>11. Fetch = IF n > Len(body) THEN [op |-> "ret", to |-> None] ELSE code[n]
  BY <1>2, <1>7, <1>9 DEF Fetch
<1>12. CASE n > Len(body)
  BY <1>4, <1>5, <1>10, <1>11, <1>12
<1>13. CASE ~(n > Len(body))
  <2>1. n \in 1..Len(body) /\ body[n] \in Instructions
    BY <1>3, <1>8, <1>13
  <2>2. i = body[n] /\ i \in Instructions /\ Fetch = code[n]
    BY <1>10, <1>11, <1>13, <2>1
  <2>3. QED
    BY <1>4, <1>5, <1>9, <2>1, <2>2, InstructionParts
<1>14. QED
  BY <1>12, <1>13

-----------------------------------------------------------------------------
(* The step of CallStack that each step is.                                  *)
One(S) == CHOOSE k \in S : TRUE

LEMMA UnchangedCalls ==
  ASSUME UNCHANGED interpVars
  PROVE  Calls' = Calls /\ Depth' = Depth
<1>1. stack' = stack /\ host' = host /\ reg' = reg
  BY DEF interpVars
<1>2. Depth' = Depth
  BY <1>1 DEF Depth
<1>3. \A t : Frames(t)' = Frames(t)
  BY <1>1 DEF Frames
<1>4. \A k : Under(k)' = Under(k)
  BY <1>1 DEF Under
<1>5. \A k : Place(k)' = Place(k)
  BY <1>3, <1>4 DEF Place
<1>6. \A n : HostAt(n)' = HostAt(n) /\ HostBefore(n)' = HostBefore(n)
  BY <1>1, <1>5 DEF HostAt, HostBefore
<1>7. \A j : NthFrame(j)' = NthFrame(j)
  BY <1>1, <1>3 DEF NthFrame
<1>8. \A i : RunsAbove(i)' = RunsAbove(i)
  BY <1>1 DEF RunsAbove
<1>9. \A i : PcOf(i)' = PcOf(i)
  <2>1. \A i : PcOf(i) = IF RunsAbove(i) # {} THEN host[One(RunsAbove(i))].pc
                        ELSE IF i + 2 <= Len(stack) THEN stack[i + 2].saved.pc ELSE reg.pc
    BY DEF PcOf, One
  <2>2. \A i : PcOf(i)' = IF RunsAbove(i)' # {} THEN host'[One(RunsAbove(i)')].pc
                         ELSE IF i + 2 <= Len(stack') THEN stack'[i + 2].saved.pc ELSE reg'.pc
    BY DEF PcOf, One
  <2>3. QED
    BY <1>1, <1>8, <2>1, <2>2
<1>10. \A k : HostCall(k)' = HostCall(k)
  BY <1>1 DEF HostCall
<1>11. \A i : FrameCall(i)' = FrameCall(i)
  BY <1>1, <1>9 DEF FrameCall
<1>12. \A n : CallAt(n)' = CallAt(n)
  <2>1. \A n : CallAt(n) = IF HostAt(n) # {} THEN HostCall(One(HostAt(n)))
                          ELSE FrameCall(NthFrame(n - Cardinality(HostBefore(n))))
    BY DEF CallAt, One
  <2>2. \A n : CallAt(n)' = IF HostAt(n)' # {} THEN HostCall(One(HostAt(n)))'
                           ELSE FrameCall(NthFrame(n - Cardinality(HostBefore(n))))'
    BY DEF CallAt, One
  <2>3. QED
    BY <1>6, <1>7, <1>10, <1>11, <2>1, <2>2
<1>13. Calls' = Calls
  BY <1>2, <1>12 DEF Calls
<1>14. QED
  BY <1>2, <1>13

Begins(p, v) ==
  /\ Depth' = Depth + 2 /\ SameButOne(Depth, 0, 0)
  /\ Calls'[Depth + 1] = [kind |-> "entry", proc |-> p, pc |-> 1, var |-> v]
  /\ Calls'[Depth + 2] = ProcWith([proc |-> p, n |-> 1], 0)

LEMMA InvokeBegins ==
  ASSUME BalanceInv, BalanceInv', NEW p \in Procs, NEW v, Invoke(p, v), ~UNCHANGED interpVars
  PROVE  /\ Calls = <<>> \/ Calls[Depth].kind = "native"
         /\ Depth + 2 <= MaxDepth /\ ir' = ir /\ Begins(p, v)
<1>1. InterpInvoke(host, p, v) /\ ir' = ir /\ Depth + 2 <= MaxDepth /\ (Idle \/ InNative)
  BY DEF Invoke
<1>2. N = 0 \/ (N # 0 /\ ~IsEntry(N))
  BY <1>1, TopOfHost DEF InNative, IsEntry
<1>3. PICK callers : callers = host
  OBVIOUS
<1>4. /\ IsSeq(callers) /\ Len(callers) = N /\ \A k \in 1..N : CallLike(callers[k], host[k])
      /\ \A k \in 1..N : callers[k].var = host[k].var
      /\ InterpInvoke(callers, p, v)
  BY <1>1, <1>3, LikeItself DEF BalanceInv, N
<1>5. Begins(p, v)
  BY <1>2, <1>4, EnteringAdds DEF Begins
<1>6. Calls = <<>> \/ Calls[Depth].kind = "native"
  <2>1. CASE N = 0
    BY <2>1, PlaceOrder, CallsAreSeq DEF CallsOk
  <2>2. CASE N # 0 /\ ~IsEntry(N)
    BY <2>2, TopCalled, FrameParts DEF TopCall
  <2>3. QED
    BY <1>2, <2>1, <2>2
<1>7. QED
  BY <1>1, <1>5, <1>6

LEMMA ClosureBegins ==
  ASSUME BalanceInv, BalanceInv', CallClosure
  PROVE  /\ Calls[Depth].kind = "native" /\ Depth \in 1..Depth
         /\ Depth + 2 <= MaxDepth /\ ir' = ir
         /\ \E p \in Procs : Begins(p, Calls[Depth].var)
<1>1. PICK n : n = N /\ n \in 1..N /\ ~IsEntry(n) /\ n # 0
  BY TopOfHost DEF CallClosure, IsEntry, N
<1>2. PICK p, v : p = host[n].proc /\ v = host[n].var
  OBVIOUS
<1>3. PICK callers : callers = [host EXCEPT ![n].called = TRUE]
  OBVIOUS
<1>4. HostOk(n)
  BY <1>1 DEF BalanceInv
<1>5. InterpInvoke(callers, p, v) /\ ir' = ir /\ p \in Procs /\ Depth + 2 <= MaxDepth
  BY <1>1, <1>2, <1>3, <1>4 DEF CallClosure, N, HostOk
<1>6. IsSeq(callers) /\ Len(callers) = N /\ \A k \in 1..N : CallLike(callers[k], host[k])
  BY <1>1, <1>3, CallMarked
<1>7. \A k \in 1..N : callers[k].var = host[k].var
  <2>1. PICK b : b = [host[n] EXCEPT !.called = TRUE] /\ b.var = host[n].var
    <3>1. IsCall(host[n])
      BY <1>4 DEF HostOk
    <3>2. [host[n] EXCEPT !.called = TRUE].var = host[n].var
      BY <3>1, StoreInCall
    <3>3. QED
      BY <3>2
  <2>2. callers = [host EXCEPT ![n] = b]
    BY <1>3, <2>1
  <2>3. IsSeq(host) /\ n \in 1..Len(host)
    BY <1>1 DEF BalanceInv, N
  <2>4. \A i \in 1..Len(host) : [host EXCEPT ![n] = b][i] = IF i = n THEN b ELSE host[i]
    BY <2>3, SeqUpdate
  <2>5. QED
    BY <2>1, <2>2, <2>4 DEF N
<1>8. Begins(p, v)
  BY <1>1, <1>5, <1>6, <1>7, EnteringAdds DEF Begins
<1>9. Calls[Depth].kind = "native" /\ Calls[Depth].var = v
  BY <1>1, <1>2, TopCalled, FrameParts DEF TopCall
<1>10. Depth \in 1..Depth
  <2>1. PICK f : InNativeOver(f)
    BY <1>1, NativeTop
  <2>2. QED
    BY <2>1 DEF InNativeOver
<1>11. QED
  BY <1>5, <1>8, <1>9, <1>10

(* What the variables of the calls hold.                                     *)
Values == \A n \in 1..Depth : Calls[n].var \in {0, 1}

LEMMA ValuesBelow ==
  ASSUME CallsOk, Values, NEW d \in 0..Depth, NEW q, NEW v \in {0, 1}, SameButOne(d, q, v), NEW n \in 1..d
  PROVE  Calls'[n].var \in {0, 1}
<1>1. n \in 1..Depth
  BY DEF CallsOk
<1>2. Calls[n].var \in {0, 1}
  BY <1>1 DEF Values
<1>3. QED
  BY <1>2, FrameParts DEF SameButOne

LEMMA ValuesGoOn ==
  ASSUME CallsOk, Values, Depth # 0, NEW q, NEW v \in {0, 1}, NEW pc, Advances(q, v, pc),
         Depth' = Depth \/ (Depth' = Depth + 1 /\ Calls'[Depth + 1].var \in {0, 1})
  PROVE  Values'
<1>1. Depth \in Nat /\ Depth - 1 \in 0..Depth /\ Depth \in 1..Depth
  BY DEF CallsOk
<1>2. \A n \in 1..Depth-1 : Calls'[n].var \in {0, 1}
  BY <1>1, ValuesBelow DEF Advances
<1>3. Calls'[Depth].var \in {0, 1}
  <2>1. Calls[Depth].var \in {0, 1}
    BY <1>1 DEF Values
  <2>2. QED
    BY <2>1, FrameParts DEF Advances
<1>4. \A n \in 1..Depth' : n \in 1..Depth-1 \/ n = Depth \/ (n = Depth + 1 /\ Depth' = Depth + 1)
  BY <1>1
<1>5. QED
  BY <1>2, <1>3, <1>4 DEF Values

LEMMA ValuesBegin ==
  ASSUME CallsOk, Values, NEW p, NEW v \in {0, 1}, Begins(p, v)
  PROVE  Values'
<1>1. Depth \in Nat /\ Depth \in 0..Depth
  BY DEF CallsOk
<1>2. \A n \in 1..Depth : Calls'[n].var \in {0, 1}
  BY <1>1, ValuesBelow DEF Begins
<1>3. Calls'[Depth + 1].var \in {0, 1} /\ Calls'[Depth + 2].var \in {0, 1}
  BY FrameParts DEF Begins
<1>4. \A n \in 1..Depth' : n \in 1..Depth \/ n = Depth + 1 \/ n = Depth + 2
  BY <1>1 DEF Begins
<1>5. QED
  BY <1>2, <1>3, <1>4 DEF Values

LEMMA ValuesReturn ==
  ASSUME CallsOk, Values, (Depth = 1 /\ Depth' = 0) \/ (Depth \in Nat \ {0, 1} /\ Returns)
  PROVE  Values'
<1>1. CASE Depth' = 0
  BY <1>1 DEF Values
<1>2. CASE Depth \in Nat \ {0, 1} /\ Returns
  <2>1. Depth \in 1..Depth /\ Depth - 1 \in 0..Depth
    BY <1>2
  <2>2. PICK v \in {0, 1} : v = Calls[Depth].var
    BY <2>1 DEF Values
  <2>3. SameButOne(Depth - 1, Depth - 1, v) /\ Depth' = Depth - 1
    BY <1>2, <2>2 DEF Returns
  <2>4. QED
    BY <2>1, <2>3, ValuesBelow DEF Values
<1>3. QED
  BY <1>1, <1>2

LEMMA StepValues ==
  ASSUME BalanceInv, BalanceInv', Values, [Next]_vars
  PROVE  Values'
<1>1. CallsOk
  BY CallsAreSeq
<1>2. ASSUME UNCHANGED interpVars PROVE Values'
  BY <1>2, UnchangedCalls DEF Values
<1>3. ASSUME InLoop, reg.pc # NoPc
      PROVE  Depth # 0 /\ Depth - 1 \in 1..Depth /\ Calls[Depth - 1].var \in {0, 1} /\ Calls[Depth].var \in {0, 1}
  <2>1. Depth - 1 \in 1..Depth
    BY <1>3, ParameterBelow
  <2>2. Depth \in 1..Depth /\ Depth # 0
    BY <1>1, <2>1 DEF CallsOk
  <2>3. QED
    BY <2>1, <2>2 DEF Values
<1>4. CASE UNCHANGED vars \/ SetExternSymAddr
  BY <1>2, <1>4 DEF vars, SetExternSymAddr
<1>5. ASSUME NEW p \in Procs, NEW v \in {0, 1}, Invoke(p, v) PROVE Values'
  <2>1. CASE UNCHANGED interpVars
    BY <1>2, <2>1
  <2>2. CASE ~UNCHANGED interpVars
    <3>1. Begins(p, v)
      BY <1>5, <2>2, InvokeBegins
    <3>2. QED
      BY <1>1, <3>1, ValuesBegin
  <2>3. QED
    BY <2>1, <2>2
<1>6. CASE InvokeReturns
  BY <1>1, <1>6, InvokeReturnsRemoves, ValuesReturn
<1>7. CASE Get
  <2>1. InLoop /\ reg.pc # NoPc
    BY <1>7 DEF Get, Executes
  <2>2. Depth' = Depth /\ Advances(Depth, Calls[Depth - 1].var, NextPc)
    BY <1>7, GetAdvances
  <2>3. PICK v \in {0, 1} : v = Calls[Depth - 1].var
    BY <1>3, <2>1
  <2>4. PICK pc, q : pc = NextPc /\ q = Depth
    OBVIOUS
  <2>5. Advances(q, v, pc) /\ Depth # 0
    BY <1>3, <2>1, <2>2, <2>3, <2>4
  <2>6. QED
    BY <1>1, <2>2, <2>5, ValuesGoOn
<1>8. CASE Put
  <2>1. InLoop /\ reg.pc # NoPc
    BY <1>8 DEF Put, Executes
  <2>2. PICK q, pc : Depth' = Depth /\ Advances(q, 0, pc) /\ Depth # 0
    BY <1>3, <1>8, <2>1, PutAdvances
  <2>3. QED
    BY <1>1, <2>2, ValuesGoOn
<1>9. CASE Lea
  <2>1. InLoop /\ reg.pc # NoPc
    BY <1>9 DEF Lea, Executes
  <2>2. PICK pc : Depth' = Depth /\ Advances(0, 0, pc) /\ Depth # 0
    BY <1>3, <1>9, <2>1, LeaAdvances
  <2>3. QED
    BY <1>1, <2>2, ValuesGoOn
<1>10. CASE Jmpz
  <2>1. InLoop /\ reg.pc # NoPc
    BY <1>10 DEF Jmpz, Executes
  <2>2. PICK pc : Depth' = Depth /\ Advances(0, 0, pc) /\ Depth # 0
    BY <1>3, <1>10, <2>1, JmpzAdvances
  <2>3. QED
    BY <1>1, <2>2, ValuesGoOn
<1>11. ASSUME NEW p \in Procs, CallJmp(p) PROVE Values'
  <2>1. InLoop /\ reg.pc # NoPc
    BY <1>11 DEF CallJmp, Executes
  <2>2. PICK pc : /\ Depth' = Depth + 1 /\ Advances(0, 0, pc) /\ Depth # 0
                  /\ Calls'[Depth + 1] = ProcWith([proc |-> p, n |-> 1], 0)
    BY <1>3, <1>11, <2>1, CallJmpAdvances
  <2>3. Calls'[Depth + 1].var \in {0, 1}
    BY <2>2, FrameParts
  <2>4. QED
    BY <1>1, <2>2, <2>3, ValuesGoOn
<1>12. ASSUME NEW p \in Procs, CallExt(p) PROVE Values'
  <2>1. InLoop /\ reg.pc # NoPc
    BY <1>12 DEF CallExt, Executes
  <2>2. PICK pc : /\ Depth' = Depth + 1 /\ Advances(0, 0, pc) /\ Depth # 0
                  /\ Calls'[Depth + 1] = [kind |-> "native", proc |-> p, pc |-> 1, var |-> Calls[Depth].var]
    BY <1>3, <1>12, <2>1, CallExtAdvances
  <2>3. Calls'[Depth + 1].var \in {0, 1}
    BY <1>3, <2>1, <2>2
  <2>4. QED
    BY <1>1, <2>2, <2>3, ValuesGoOn
<1>13. CASE Ret
  BY <1>1, <1>13, RetRemoves, ValuesReturn
<1>14. CASE CallClosure
  <2>1. Depth \in 1..Depth
    BY <1>14, ClosureBegins
  <2>2. PICK v \in {0, 1} : v = Calls[Depth].var
    BY <2>1 DEF Values
  <2>3. PICK p \in Procs : Begins(p, v)
    BY <1>14, <2>2, ClosureBegins
  <2>4. QED
    BY <1>1, <2>3, ValuesBegin
<1>15. CASE NativeReturns
  BY <1>1, <1>15, NativeReturnsRemoves, ValuesReturn
<1>16. QED
  BY <1>4, <1>5, <1>6, <1>7, <1>8, <1>9, <1>10, <1>11, <1>12, <1>13, <1>14, <1>15 DEF Next

(* One step of a procedure that calls nothing.                               *)
LEMMA MovesAreSteps ==
  ASSUME BalanceInv, BalanceInv', RunsWhole, Get \/ Put \/ Lea \/ Jmpz
  PROVE  Abstract!Step
<1>1. InLoop /\ reg.pc # NoPc /\ ir' = ir
  BY DEF Get, Put, Lea, Jmpz, Executes
<1>2. CallsOk /\ CallsOk'
  BY CallsAreSeq, CallsAreSeqNext
<1>3. PICK i, s : i = Abstract!Instruction /\ s = Abstract!Advanced
  OBVIOUS
<1>4. /\ Calls[Depth].kind = "proc" /\ Depth # 0
      /\ Fetch.op = IF i.op = "ret" THEN "ret" ELSE Opcode(i)
      /\ i.op \in {"call", "native", "data", "get", "put", "jmpz", "ret"}
  BY <1>1, <1>3, Fetched
<1>5. Abstract!Running /\ Abstract!Top = Calls[Depth] /\ Abstract!Depth = Depth
  BY <1>2, <1>4, AbstractParts
<1>6. /\ IsSeq(s) /\ Len(s) = Depth
      /\ \A j \in 1..Depth : s[j] = IF j = Depth THEN WithPc(Calls[j], Calls[j].pc + 1) ELSE Calls[j]
  BY <1>2, <1>3, <1>4, AdvancedParts
<1>7. reg.pc \in Pcs /\ NextPc.proc = reg.pc.proc /\ NextPc.n = reg.pc.n + 1
  BY <1>1, Running, NextPcParts
<1>8. Calls[Depth].proc = reg.pc.proc /\ Calls[Depth].pc = reg.pc.n
  <2>1. PICK f : Runs(f)
    BY <1>1, RunningTop
  <2>2. QED
    BY <2>1, FrameParts DEF Runs
<1>9. Depth \in Nat \ {0} /\ Depth - 1 \in 1..Depth
  BY <1>1, <1>2, <1>4, ParameterBelow DEF CallsOk
<1>10. ASSUME NEW q \in 0..Depth, NEW v, Depth' = Depth, Advances(q, v, NextPc)
       PROVE  Calls' = IF q = 0 THEN s ELSE WithVar(s, q, v)
  <2>1. PICK pc : pc = NextPc /\ Goes(pc) /\ pc.n = Calls[Depth].pc + 1
    BY <1>4, <1>7, <1>8 DEF Goes
  <2>2. \A j \in 1..Depth : s[j] = IF j = Depth THEN WithPc(Calls[j], pc.n) ELSE Calls[j]
    BY <1>6, <2>1
  <2>3. PICK t : t = IF q = 0 THEN s ELSE WithVar(s, q, v)
    OBVIOUS
  <2>4. Advances(q, v, pc)
    BY <1>10, <2>1
  <2>5. Calls' = t
    BY <1>2, <1>4, <1>6, <1>10, <2>1, <2>2, <2>3, <2>4, StepCalls
  <2>6. QED
    BY <2>3, <2>5
<1>11. ASSUME Get PROVE i.op = "get" /\ Calls' = [s EXCEPT ![Depth].var = Calls[Depth - 1].var]
  <2>1. i.op = "get"
    BY <1>4, <1>11 DEF Get, Executes, Opcode
  <2>2. Depth' = Depth /\ Advances(Depth, Calls[Depth - 1].var, NextPc)
    BY <1>11, GetAdvances
  <2>3. Depth \in 0..Depth /\ Depth # 0
    BY <1>9
  <2>4. Calls' = WithVar(s, Depth, Calls[Depth - 1].var)
    BY <1>10, <2>2, <2>3
  <2>5. QED
    BY <2>1, <2>4 DEF WithVar
<1>12. ASSUME Put PROVE i.op = "put" /\ Calls' = [s EXCEPT ![Depth - 1].var = 0]
  <2>1. i.op = "put"
    BY <1>4, <1>12 DEF Put, Executes, Opcode
  <2>2. Depth' = Depth /\ Advances(Depth - 1, 0, NextPc)
    BY <1>12, PutAdvances
  <2>3. PICK q : q = Depth - 1 /\ q \in 0..Depth /\ q # 0
    BY <1>9
  <2>4. Calls' = WithVar(s, q, 0)
    BY <1>10, <2>2, <2>3
  <2>5. QED
    BY <2>1, <2>3, <2>4 DEF WithVar
<1>13. ASSUME Lea PROVE i.op = "data" /\ Calls' = s
  <2>1. i.op = "data"
    BY <1>4, <1>13 DEF Lea, Executes, Opcode
  <2>2. Depth' = Depth /\ Advances(0, 0, NextPc) /\ 0 \in 0..Depth
    BY <1>9, <1>13, LeaAdvances
  <2>3. QED
    BY <1>10, <2>1, <2>2
<1>14. ASSUME Jmpz
       PROVE  /\ i.op = "jmpz"
              /\ Calls' = IF Calls[Depth].var # 0 THEN s
                          ELSE [Calls EXCEPT ![Depth].pc = Len(ir[Calls[Depth].proc]) + 1]
  <2>1. i.op = "jmpz"
    BY <1>4, <1>14 DEF Jmpz, Executes, Opcode
  <2>2. PICK pc : /\ Depth' = Depth /\ Advances(0, 0, pc) /\ pc.proc = reg.pc.proc
                  /\ pc.n = IF Calls[Depth].var = 0 THEN Len(ir[reg.pc.proc]) + 1 ELSE reg.pc.n + 1
    BY <1>14, JmpzAdvances
  <2>3. Goes(pc)
    BY <1>4, <1>8, <2>2 DEF Goes
  <2>4. PICK c : c = Calls
    OBVIOUS
  <2>5. IsSeq(c) /\ Len(c) = Depth /\ Depth \in 1..Len(c) /\ IsFrame(c[Depth])
    BY <1>2, <1>9, <2>4 DEF CallsOk
  <2>6. PICK t : t = GoneOn(c, Depth, pc.n)
    OBVIOUS
  <2>7. IsSeq(t) /\ Len(t) = Len(c) /\ \A j \in 1..Len(c) : t[j] = IF j = Depth THEN WithPc(c[Depth], pc.n) ELSE c[j]
    BY <2>5, <2>6, FrameStore
  <2>8. \A j \in 1..Depth : t[j] = IF j = Depth THEN WithPc(Calls[j], pc.n) ELSE Calls[j]
    BY <2>4, <2>5, <2>7
  <2>9. PICK u : u = IF 0 = 0 THEN t ELSE WithVar(t, 0, 0)
    OBVIOUS
  <2>10. 0 \in 0..Depth /\ Len(t) = Depth
    BY <1>9, <2>5, <2>7
  <2>11. Calls' = u
    BY <1>2, <1>4, <2>2, <2>3, <2>7, <2>8, <2>9, <2>10, StepCalls
  <2>12. CASE Calls[Depth].var = 0
    <3>1. pc.n = Len(ir[Calls[Depth].proc]) + 1
      BY <1>8, <2>2, <2>12
    <3>2. Calls' = GoneOn(Calls, Depth, pc.n)
      BY <2>4, <2>6, <2>9, <2>11
    <3>3. QED
      BY <2>1, <2>12, <3>1, <3>2 DEF GoneOn
  <2>13. CASE Calls[Depth].var # 0
    <3>1. pc.n = Calls[Depth].pc + 1
      BY <1>8, <2>2, <2>13
    <3>2. \A j \in 1..Len(t) : t[j] = s[j]
      BY <1>6, <2>8, <2>10, <3>1
    <3>3. t = s
      BY <1>6, <2>7, <2>10, <3>2, SameSeq
    <3>4. QED
      BY <2>1, <2>9, <2>11, <2>13, <3>3
  <2>14. QED
    BY <2>12, <2>13
<1>15. QED
  BY <1>1, <1>3, <1>5, <1>11, <1>12, <1>13, <1>14 DEF Abstract!Step

LEMMA CallsAreCalls ==
  ASSUME BalanceInv, BalanceInv', RunsWhole, NEW p \in Procs, CallJmp(p) \/ CallExt(p)
  PROVE  Abstract!CallProc \/ Abstract!CallNative
<1>1. InLoop /\ reg.pc # NoPc /\ ir' = ir /\ Depth < MaxDepth /\ Fetch.to.proc = p
      /\ (CallJmp(p) => Fetch.op = "call_jmp") /\ (CallExt(p) => Fetch.op = "call_ext")
  BY DEF CallJmp, CallExt, Executes
<1>2. CallsOk /\ CallsOk'
  BY CallsAreSeq, CallsAreSeqNext
<1>3. PICK i, s : i = Abstract!Instruction /\ s = Abstract!Advanced
  OBVIOUS
<1>4. /\ Calls[Depth].kind = "proc" /\ Depth # 0
      /\ Fetch.op = IF i.op = "ret" THEN "ret" ELSE Opcode(i)
      /\ i.op \in {"call", "native", "data", "get", "put", "jmpz", "ret"}
      /\ i.op \in {"call", "native"} => p = i.proc
  BY <1>1, <1>3, Fetched
<1>5. Abstract!Running /\ Abstract!Top = Calls[Depth] /\ Abstract!Depth = Depth
  BY <1>2, <1>4, AbstractParts
<1>6. PICK pc : pc = NextPc /\ Goes(pc) /\ pc.n = Calls[Depth].pc + 1
  <2>1. PICK f : Runs(f)
    BY <1>1, RunningTop
  <2>2. Calls[Depth].proc = reg.pc.proc /\ Calls[Depth].pc = reg.pc.n
    BY <2>1, FrameParts DEF Runs
  <2>3. NextPc.proc = reg.pc.proc /\ NextPc.n = reg.pc.n + 1
    BY <1>1, Running, NextPcParts
  <2>4. QED
    BY <1>4, <2>2, <2>3 DEF Goes
<1>7. CASE CallJmp(p)
  <2>1. i.op = "call" /\ i.proc \notin Cdecl /\ p = i.proc
    BY <1>1, <1>4, <1>7 DEF Opcode
  <2>2. PICK x : x = Abstract!Call("proc", p, 0)
    OBVIOUS
  <2>3. Depth' = Depth + 1 /\ Advances(0, 0, pc) /\ Calls'[Depth + 1] = x
    BY <1>6, <1>7, <2>2, CallJmpAdvances DEF Abstract!Call, ProcWith
  <2>4. Calls' = Append(s, x)
    BY <1>2, <1>3, <1>4, <1>6, <2>3, CallsMore
  <2>5. QED
    BY <1>1, <1>3, <1>5, <2>1, <2>2, <2>4 DEF Abstract!CallProc
<1>8. CASE CallExt(p)
  <2>1. (i.op = "native" \/ (i.op = "call" /\ i.proc \in Cdecl)) /\ p = i.proc
    BY <1>1, <1>4, <1>8 DEF Opcode
  <2>2. PICK x : x = Abstract!Call("native", p, Calls[Depth].var)
    OBVIOUS
  <2>3. Depth' = Depth + 1 /\ Advances(0, 0, pc) /\ Calls'[Depth + 1] = x
    BY <1>6, <1>8, <2>2, CallExtAdvances DEF Abstract!Call
  <2>4. Calls' = Append(s, x)
    BY <1>2, <1>3, <1>4, <1>6, <2>3, CallsMore
  <2>5. QED
    BY <1>1, <1>3, <1>5, <2>1, <2>2, <2>4 DEF Abstract!CallNative
<1>9. QED
  BY <1>7, <1>8

LEMMA RetIsReturn ==
  ASSUME BalanceInv, BalanceInv', RunsWhole, Ret
  PROVE  Abstract!Return
<1>1. InLoop /\ reg.pc # NoPc /\ ir' = ir /\ Fetch.op = "ret"
  BY DEF Ret, Executes
<1>2. PICK i : i = Abstract!Instruction
  OBVIOUS
<1>3. Calls[Depth].kind = "proc" /\ i.op = "ret"
  <2>1. /\ Calls[Depth].kind = "proc"
        /\ Fetch.op = IF i.op = "ret" THEN "ret" ELSE Opcode(i)
        /\ i.op \in {"call", "native", "data", "get", "put", "jmpz", "ret"}
    BY <1>1, <1>2, Fetched
  <2>2. QED
    BY <1>1, <2>1 DEF Opcode
<1>4. QED
  BY <1>1, <1>2, <1>3, CallsAreSeq, CallsAreSeqNext, RetRemoves, ReturnsAbstractly

(* A step of the interpreter is one of CallStack, or changes nothing there.  *)
LEMMA StepImplements ==
  ASSUME BalanceInv, BalanceInv', Values, RunsWhole, [Next]_vars
  PROVE  Abstract!Next \/ UNCHANGED <<ir, Calls>>
<1>1. CallsOk /\ CallsOk'
  BY CallsAreSeq, CallsAreSeqNext
<1>2. CASE UNCHANGED vars
  BY <1>2, UnchangedCalls DEF vars
<1>3. CASE SetExternSymAddr
  BY <1>3, UnchangedCalls DEF SetExternSymAddr
<1>4. ASSUME NEW p \in Procs, NEW v \in {0, 1}, Invoke(p, v) PROVE Abstract!Next \/ UNCHANGED <<ir, Calls>>
  <2>1. CASE UNCHANGED interpVars
    BY <1>4, <2>1, UnchangedCalls DEF Invoke
  <2>2. CASE ~UNCHANGED interpVars
    <3>1. Abstract!Invoke(p, v)
      BY <1>1, <1>4, <2>2, InvokeBegins, BeginsAbstractly DEF Begins
    <3>2. QED
      BY <3>1 DEF Abstract!Next
  <2>3. QED
    BY <2>1, <2>2
<1>5. CASE InvokeReturns
  <2>1. ir' = ir
    BY <1>5 DEF InvokeReturns
  <2>2. Abstract!InvokeReturns
    BY <1>1, <1>5, <2>1, InvokeReturnsRemoves, EndsAbstractly
  <2>3. QED
    BY <2>2 DEF Abstract!Next
<1>6. CASE Get \/ Put \/ Lea \/ Jmpz
  BY <1>6, MovesAreSteps DEF Abstract!Next
<1>7. ASSUME NEW p \in Procs, CallJmp(p) \/ CallExt(p) PROVE Abstract!Next
  BY <1>7, CallsAreCalls DEF Abstract!Next
<1>8. CASE Ret
  BY <1>8, RetIsReturn DEF Abstract!Next
<1>9. CASE CallClosure
  <2>1. Calls[Depth].kind = "native" /\ Depth \in 1..Depth /\ Depth + 2 <= MaxDepth /\ ir' = ir
    BY <1>9, ClosureBegins
  <2>2. PICK v \in {0, 1} : v = Calls[Depth].var
    BY <2>1 DEF Values
  <2>3. PICK p \in Procs : Begins(p, v)
    BY <1>9, <2>2, ClosureBegins
  <2>4. Abstract!Invoke(p, v)
    BY <1>1, <2>1, <2>3, BeginsAbstractly DEF Begins
  <2>5. QED
    BY <2>4 DEF Abstract!Next
<1>10. CASE NativeReturns
  <2>1. ir' = ir
    BY <1>10 DEF NativeReturns
  <2>2. Abstract!Return
    BY <1>1, <1>10, <2>1, NativeReturnsRemoves, ReturnsAbstractly
  <2>3. QED
    BY <2>2 DEF Abstract!Next
<1>11. QED
  BY <1>2, <1>3, <1>4, <1>5, <1>6, <1>7, <1>8, <1>9, <1>10 DEF Next

LEMMA InitImplements ==
  ASSUME Init
  PROVE  Abstract!Init /\ Values
<1>1. N = 0 /\ BalanceInv
  BY InitBalanced DEF Init, N
<1>2. Depth = 0 /\ CallsOk
  BY <1>1, PlaceOrder, CallsAreSeq
<1>3. QED
  BY <1>2 DEF CallsOk, Abstract!Init, Values

(* The interpreter, with its control frames, its addresses and a stack whose *)
(* blocks are popped at once, does what a stack of calls does, for all       *)
(* programs and however runs, native code and closures are nested: where     *)
(* what runs has been translated whole (interp.cpp:88-147, 210-256, 545-594).*)
THEOREM ImplementsCallStack == Spec /\ []RunsWhole => RefinesCallStack
<1>1. Init => Abstract!Init /\ Values
  BY InitImplements
<1>2. BalanceInv /\ BalanceInv' /\ Values /\ [Next]_vars => Values'
  BY StepValues
<1>3. BalanceInv /\ BalanceInv' /\ Values /\ RunsWhole /\ [Next]_vars => [Abstract!Next]_<<ir, Calls>>
  BY StepImplements
<1>4. QED
  BY <1>1, <1>2, <1>3, BalanceInvariant, PTL DEF Spec, RefinesCallStack, Abstract!Spec
=============================================================================
