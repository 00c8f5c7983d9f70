---------------------- MODULE StatementLoweringProofs ----------------------
(***************************************************************************)
(* Proofs about StatementLowering, for every bound on the source: every    *)
(* block of a procedure is there once and every jump finds its block, the  *)
(* variables that can be named have slots of their own, and the flag that  *)
(* leaves code out is set only after a return.                             *)
(***************************************************************************)
EXTENDS StatementLowering, ProofFacts

-----------------------------------------------------------------------------
(* The shape of the compiler's context.  The trees of the source that the    *)
(* frames carry along are of no type: no step looks into them.               *)
AFrame(kind, n, l1, l2, size, list, then, vars, defers, instrs) ==
  [kind |-> kind, n |-> n, l1 |-> l1, l2 |-> l2, size |-> size, list |-> list, then |-> then,
   vars |-> vars, defers |-> defers, instrs |-> instrs]

FrameType(f) ==
  /\ f = AFrame(f.kind, f.n, f.l1, f.l2, f.size, f.list, f.then, f.vars, f.defers, f.instrs)
  /\ f.kind \in {"proc", "scope", "if", "then", "else", "while", "defer"}
  /\ f.n \in Nat /\ f.l1 \in Nat /\ f.l2 \in Nat /\ f.size \in Nat
  /\ f.vars \subseteq Nat \X Nat
  /\ f.defers \in Seq(Seq(Instr)) /\ f.instrs \in Seq(Instr)

Context(frames, code, hasReturn, labels, frameSize, nodes, source) ==
  [frames |-> frames, code |-> code, hasReturn |-> hasReturn, labels |-> labels,
   frameSize |-> frameSize, nodes |-> nodes, source |-> source]

FramesType(frames) == IsSeq(frames) /\ \A i \in 1..Len(frames) : FrameType(frames[i])

ContextType(c) ==
  /\ c = Context(c.frames, c.code, c.hasReturn, c.labels, c.frameSize, c.nodes, c.source)
  /\ FramesType(c.frames)
  /\ c.code \in Seq(Instr) /\ c.hasReturn \in BOOLEAN
  /\ c.labels \in Nat /\ c.frameSize \in Nat /\ c.nodes \in Nat

(* The outermost frame is the procedure's, and no other is.                  *)
Nested(c) == \A i \in 1..Len(c.frames) : c.frames[i].kind = "proc" <=> i = 1

-----------------------------------------------------------------------------
(* Slots: the scopes of the frames lie one above the other.                  *)
SlotsStacked(c) ==
  /\ \A i \in 1..Len(c.frames) :
       /\ c.frames[i].size <= c.frameSize
       /\ \A v \in c.frames[i].vars : c.frames[i].size < v[2] /\ v[2] <= c.frameSize
       /\ \A v, w \in c.frames[i].vars : v[2] = w[2] => v = w
  /\ \A i, j \in 1..Len(c.frames) :
       i < j => /\ c.frames[i].size <= c.frames[j].size
                /\ \A v \in c.frames[i].vars : v[2] <= c.frames[j].size

-----------------------------------------------------------------------------
(* The return flag is about the code of the procedure, also while a deferred *)
(* statement is recorded.                                                    *)
Returned(code) ==
  \E i \in 1..Len(code) : code[i].op = "ret" /\ \A j \in i..Len(code) : code[j].op # "label"
FlagMeansReturned(c) == c.hasReturn => Returned(c.code)

-----------------------------------------------------------------------------
(* Labels.  Code is recorded in sinks: the code of the procedure, and that   *)
(* of each deferred statement the compiler is in.  A frame waits for the     *)
(* labels that will be emitted when the compiler comes back from it, to the  *)
(* sink it is in; `extra` are labels the innermost sink waits for besides.   *)
Sinks(c) == {k \in 0..Len(c.frames) : k = 0 \/ c.frames[k].kind = "defer"}
SinkAt(c, k) == IF k = 0 THEN c.code ELSE c.frames[k].instrs
InSink(c, k, i) == k <= i /\ \A j \in k+1..i : c.frames[j].kind # "defer"

Awaited(f) ==
  CASE f.kind = "then" -> {f.l1, f.l2}
    [] f.kind \in {"else", "if", "while"} -> {f.l2}
    [] OTHER -> {}

UniqueLabels(code) ==
  \A i, j \in 1..Len(code) :
    code[i].op = "label" /\ code[j].op = "label" /\ code[i].arg = code[j].arg => i = j
Closed(code) == UniqueLabels(code) /\ Targets(code) \subseteq Labels(code)

LabelsPlaced(c, extra) ==
  /\ extra \subseteq 0..c.labels-1
  /\ \A k \in Sinks(c) :
       /\ UniqueLabels(SinkAt(c, k))
       /\ Labels(SinkAt(c, k)) \subseteq 0..c.labels-1
       /\ Labels(SinkAt(c, k)) \cap extra = {}
       /\ \A t \in Targets(SinkAt(c, k)) :
            \/ t \in Labels(SinkAt(c, k))
            \/ \E i \in 1..Len(c.frames) : InSink(c, k, i) /\ t \in Awaited(c.frames[i])
            \/ InSink(c, k, Len(c.frames)) /\ t \in extra
  /\ \A i \in 1..Len(c.frames) :
       /\ Awaited(c.frames[i]) \subseteq 0..c.labels-1
       /\ Awaited(c.frames[i]) \cap extra = {}
       /\ \A k \in Sinks(c) : Awaited(c.frames[i]) \cap Labels(SinkAt(c, k)) = {}
       /\ \A j \in 1..Len(c.frames) : j # i => Awaited(c.frames[i]) \cap Awaited(c.frames[j]) = {}
       /\ \A b \in DOMAIN c.frames[i].defers : Closed(c.frames[i].defers[b])
       /\ c.frames[i].kind = "while" =>
            \E k \in Sinks(c) : InSink(c, k, i) /\ c.frames[i].l1 \in Labels(SinkAt(c, k))
       /\ c.frames[i].kind = "then" => c.frames[i].l1 # c.frames[i].l2

(* All that is known of a context while the procedure is compiled.           *)
Sound(c, extra) ==
  /\ ContextType(c) /\ Nested(c) /\ SlotsStacked(c) /\ LabelsPlaced(c, extra)
  /\ ~ReturnInDefer => FlagMeansReturned(c)

(* The inductive invariant.                                                  *)
ClosedCode == {instrs \in Seq(Instr) : Closed(instrs)}
Going(c) == Sound(c, {}) /\ Len(c.frames) >= 1
LoweringInv ==
  IF Compiled THEN ctx.code \in ClosedCode ELSE Going(ctx)

-----------------------------------------------------------------------------
(* Updates of a context, field by field.                                     *)
LEMMA ContextUpdate ==
  ASSUME NEW c, c = Context(c.frames, c.code, c.hasReturn, c.labels, c.frameSize, c.nodes, c.source),
         NEW x
  PROVE  /\ [c EXCEPT !.frames = x] = Context(x, c.code, c.hasReturn, c.labels, c.frameSize, c.nodes, c.source)
         /\ [c EXCEPT !.code = x] = Context(c.frames, x, c.hasReturn, c.labels, c.frameSize, c.nodes, c.source)
         /\ [c EXCEPT !.hasReturn = x] = Context(c.frames, c.code, x, c.labels, c.frameSize, c.nodes, c.source)
         /\ [c EXCEPT !.labels = x] = Context(c.frames, c.code, c.hasReturn, x, c.frameSize, c.nodes, c.source)
         /\ [c EXCEPT !.frameSize = x] = Context(c.frames, c.code, c.hasReturn, c.labels, x, c.nodes, c.source)
         /\ [c EXCEPT !.nodes = x] = Context(c.frames, c.code, c.hasReturn, c.labels, c.frameSize, x, c.source)
         /\ [c EXCEPT !.source = x] = Context(c.frames, c.code, c.hasReturn, c.labels, c.frameSize, c.nodes, x)
BY DEF Context

LEMMA FrameUpdate ==
  ASSUME NEW f, f = AFrame(f.kind, f.n, f.l1, f.l2, f.size, f.list, f.then, f.vars, f.defers, f.instrs),
         NEW x
  PROVE  /\ [f EXCEPT !.list = x]
              = AFrame(f.kind, f.n, f.l1, f.l2, f.size, x, f.then, f.vars, f.defers, f.instrs)
         /\ [f EXCEPT !.then = x]
              = AFrame(f.kind, f.n, f.l1, f.l2, f.size, f.list, x, f.vars, f.defers, f.instrs)
         /\ [f EXCEPT !.vars = x]
              = AFrame(f.kind, f.n, f.l1, f.l2, f.size, f.list, f.then, x, f.defers, f.instrs)
         /\ [f EXCEPT !.defers = x]
              = AFrame(f.kind, f.n, f.l1, f.l2, f.size, f.list, f.then, f.vars, x, f.instrs)
         /\ [f EXCEPT !.instrs = x]
              = AFrame(f.kind, f.n, f.l1, f.l2, f.size, f.list, f.then, f.vars, f.defers, x)
BY DEF AFrame

(* A sequence with one element replaced.                                     *)
Replaced(r, s, k, x) == r = [s EXCEPT ![k] = x]

LEMMA SeqReplaced ==
  ASSUME NEW s, IsSeq(s), NEW k \in 1..Len(s), NEW x, NEW r, Replaced(r, s, k, x)
  PROVE  IsSeq(r) /\ Len(r) = Len(s) /\ \A i \in 1..Len(s) : r[i] = IF i = k THEN x ELSE s[i]
<1>1. IsSeq(r)
  BY SeqUpdate, Zenon DEF Replaced
<1>2. Len(r) = Len(s)
  BY SeqUpdate, Zenon DEF Replaced
<1>3. DOMAIN s = 1..Len(s)
  BY SeqParts
<1>4. ASSUME NEW i \in 1..Len(s)
      PROVE  r[i] = IF i = k THEN x ELSE s[i]
  BY <1>3 DEF Replaced
<1>5. QED
  BY <1>1, <1>2, <1>4, Zenon

LEMMA NestedUpdate ==
  ASSUME NEW c, ContextType(c), NEW k \in 1..Len(c.frames), NEW x
  PROVE  /\ [c EXCEPT !.frames[k].instrs = x]
              = [c EXCEPT !.frames = [c.frames EXCEPT ![k] = [c.frames[k] EXCEPT !.instrs = x]]]
         /\ [c EXCEPT !.frames[k].defers = x]
              = [c EXCEPT !.frames = [c.frames EXCEPT ![k] = [c.frames[k] EXCEPT !.defers = x]]]
         /\ [c EXCEPT !.frames[k].vars = x]
              = [c EXCEPT !.frames = [c.frames EXCEPT ![k] = [c.frames[k] EXCEPT !.vars = x]]]
         /\ [c EXCEPT !.frames[k].list = x]
              = [c EXCEPT !.frames = [c.frames EXCEPT ![k] = [c.frames[k] EXCEPT !.list = x]]]
OBVIOUS

-----------------------------------------------------------------------------
(* The innermost sink, and what emitting to it changes.                      *)
Innermost(c) == IF Recorders(c) = {} THEN 0 ELSE ActiveDefer(c)

LEMMA InnermostSink ==
  ASSUME NEW c, ContextType(c)
  PROVE  /\ Innermost(c) \in Sinks(c)
         /\ \A k \in Sinks(c) : InSink(c, k, Len(c.frames)) <=> k = Innermost(c)
<1> DEFINE n == Len(c.frames)
<1>1. n \in Nat /\ DOMAIN c.frames = 1..n
  BY SeqParts DEF ContextType, FramesType
<1>2. CASE Recorders(c) = {}
  BY <1>1, <1>2 DEF Recorders, Innermost, Sinks, InSink
<1>3. CASE Recorders(c) # {}
  <2>1. Recorders(c) \in SUBSET (0..n)
    BY <1>1 DEF Recorders
  <2>2. PICK a \in Recorders(c) : \A j \in Recorders(c) : j <= a
    BY <1>1, <1>3, <2>1, GreatestExists
  <2>3. \A b \in Recorders(c) : (\A j \in Recorders(c) : j <= b) => b = a
    BY <2>1, <2>2
  <2>4. ActiveDefer(c) = a
    BY <2>2, <2>3 DEF ActiveDefer
  <2>5. a \in 1..n /\ c.frames[a].kind = "defer" /\ \A j \in a+1..n : c.frames[j].kind # "defer"
    BY <1>1, <2>2 DEF Recorders
  <2>6. ASSUME NEW k \in Sinks(c), k # a
        PROVE  ~InSink(c, k, n)
    BY <1>1, <2>2, <2>5, <2>6 DEF Sinks, InSink, Recorders
  <2>7. QED
    BY <1>1, <1>3, <2>4, <2>5, <2>6 DEF Innermost, Sinks, InSink
<1>4. QED
  BY <1>2, <1>3

(* Two frames that differ in what is recorded and read only.                 *)
SameFrame(f, g) ==
  /\ g.kind = f.kind /\ g.n = f.n /\ g.l1 = f.l1 /\ g.l2 = f.l2 /\ g.size = f.size
  /\ g.vars = f.vars /\ g.defers = f.defers
SameFrames(c, d) ==
  /\ Len(d.frames) = Len(c.frames)
  /\ \A i \in 1..Len(c.frames) : SameFrame(c.frames[i], d.frames[i])

Emitted(c, instrs, d) ==
  /\ ContextType(d) /\ SameFrames(c, d)
  /\ Innermost(d) = Innermost(c)
  /\ d.labels = c.labels /\ d.frameSize = c.frameSize /\ d.nodes = c.nodes
  /\ \A k \in Sinks(c) :
       SinkAt(d, k) = IF k = Innermost(c) THEN SinkAt(c, k) \o instrs ELSE SinkAt(c, k)

LEMMA SameSinks ==
  ASSUME NEW c, NEW d, ContextType(c), ContextType(d), Len(d.frames) = Len(c.frames),
         \A i \in 1..Len(c.frames) : d.frames[i].kind = c.frames[i].kind
  PROVE  /\ Sinks(d) = Sinks(c) /\ Innermost(d) = Innermost(c)
         /\ \A k \in Sinks(c) : \A i \in 1..Len(c.frames) : InSink(d, k, i) <=> InSink(c, k, i)
<1>1. /\ Len(c.frames) \in Nat /\ DOMAIN c.frames = 1..Len(c.frames)
      /\ DOMAIN d.frames = 1..Len(c.frames)
  BY SeqParts DEF ContextType, FramesType
<1>2. \A i \in 1..Len(c.frames) : d.frames[i].kind = c.frames[i].kind
  OBVIOUS
<1>3. Len(d.frames) = Len(c.frames)
  OBVIOUS
<1>4. Sinks(d) = Sinks(c)
  BY <1>1, <1>2, <1>3 DEF Sinks
<1>5. \A k \in Sinks(c) : \A i \in 0..Len(c.frames) : InSink(d, k, i) <=> InSink(c, k, i)
  BY <1>1, <1>2 DEF InSink, Sinks
<1>6. Innermost(d) = Innermost(c)
  BY <1>1, <1>3, <1>4, <1>5, InnermostSink
<1>7. QED
  BY <1>4, <1>5, <1>6

LEMMA EmitArrayParts ==
  ASSUME NEW c, ContextType(c), NEW instrs \in Seq(Instr)
  PROVE  /\ Emitted(c, instrs, EmitArray(c, instrs))
         /\ EmitArray(c, instrs).hasReturn = c.hasReturn
<1> DEFINE d == EmitArray(c, instrs)
<1>1. /\ c = Context(c.frames, c.code, c.hasReturn, c.labels, c.frameSize, c.nodes, c.source)
      /\ FramesType(c.frames) /\ c.code \in Seq(Instr)
      /\ Len(c.frames) \in Nat /\ DOMAIN c.frames = 1..Len(c.frames)
  BY SeqParts DEF ContextType, FramesType
<1>2. CASE Recorders(c) = {}
  <2>1. d = [c EXCEPT !.code = c.code \o instrs]
    BY <1>2 DEF EmitArray
  <2>2. d = Context(c.frames, c.code \o instrs, c.hasReturn, c.labels, c.frameSize, c.nodes, c.source)
    BY <1>1, <2>1, ContextUpdate
  <2>3. /\ d.frames = c.frames /\ d.code = c.code \o instrs /\ d.hasReturn = c.hasReturn
        /\ d.labels = c.labels /\ d.frameSize = c.frameSize /\ d.nodes = c.nodes
        /\ d.source = c.source
    BY <2>2 DEF Context
  <2> HIDE DEF d
  <2>4. ContextType(d)
    BY <1>1, <2>2, <2>3 DEF ContextType
  <2>5. SameFrames(c, d)
    BY <2>3 DEF SameFrames, SameFrame
  <2>6. Innermost(c) = 0
    BY <1>2 DEF Innermost
  <2>7. \A k \in Sinks(c) : k # 0 => SinkAt(d, k) = SinkAt(c, k)
    BY <2>3 DEF SinkAt
  <2>8. SinkAt(d, 0) = SinkAt(c, 0) \o instrs
    BY <2>3 DEF SinkAt
  <2>9. Emitted(c, instrs, d)
    BY <2>3, <2>4, <2>5, <2>6, <2>7, <2>8, SameSinks DEF Emitted, SameFrames, SameFrame
  <2>10. QED
    BY <2>3, <2>9 DEF d
<1>3. CASE Recorders(c) # {}
  <2> DEFINE a == ActiveDefer(c)
  <2>1. a = Innermost(c) /\ a \in 1..Len(c.frames) /\ c.frames[a].kind = "defer"
    <3>1. Innermost(c) = a /\ a \in Sinks(c)
      BY <1>3, InnermostSink DEF Innermost
    <3>2. a # 0
      <4>1. PICK r \in Recorders(c) : TRUE
        BY <1>3
      <4>2. ~InSink(c, 0, Len(c.frames))
        BY <1>1, <4>1 DEF InSink, Recorders
      <4>3. 0 \in Sinks(c)
        BY <1>1 DEF Sinks
      <4>4. QED
        BY <3>1, <4>2, InnermostSink
    <3>3. QED
      BY <3>1, <3>2 DEF Sinks
  <2>2. PICK g : g = [c.frames[a] EXCEPT !.instrs = c.frames[a].instrs \o instrs]
    OBVIOUS
  <2>3. PICK gs : gs = [c.frames EXCEPT ![a] = g]
    OBVIOUS
  <2> HIDE DEF a
  <2>4. d = [c EXCEPT !.frames[a].instrs = c.frames[a].instrs \o instrs]
    BY <1>3, <2>1 DEF EmitArray, a
  <2>5. d = Context(gs, c.code, c.hasReturn, c.labels, c.frameSize, c.nodes, c.source)
    <3>1. d = [c EXCEPT !.frames = [c.frames EXCEPT ![a] =
                                      [c.frames[a] EXCEPT !.instrs = c.frames[a].instrs \o instrs]]]
      BY <2>1, <2>4, NestedUpdate
    <3>2. d = [c EXCEPT !.frames = gs]
      BY <2>2, <2>3, <3>1, Zenon
    <3>3. QED
      BY <1>1, <3>2, ContextUpdate
  <2>6. /\ d.frames = gs /\ d.code = c.code /\ d.hasReturn = c.hasReturn
        /\ d.labels = c.labels /\ d.frameSize = c.frameSize /\ d.nodes = c.nodes
        /\ d.source = c.source
    BY <2>5 DEF Context
  <2> HIDE DEF d
  <2>7. FrameType(c.frames[a])
    BY <1>1, <2>1 DEF FramesType
  <2>8. PICK f : f = c.frames[a]
    OBVIOUS
  <2>9. g = AFrame(f.kind, f.n, f.l1, f.l2, f.size, f.list, f.then, f.vars, f.defers, f.instrs \o instrs)
    <3>1. f = AFrame(f.kind, f.n, f.l1, f.l2, f.size, f.list, f.then, f.vars, f.defers, f.instrs)
      BY <2>7, <2>8 DEF FrameType
    <3>2. g = [f EXCEPT !.instrs = f.instrs \o instrs]
      BY <2>2, <2>8
    <3>3. QED
      BY <3>1, <3>2, FrameUpdate
  <2>10. FrameType(g) /\ SameFrame(f, g) /\ g.instrs = f.instrs \o instrs
    <3>1. /\ SameFrame(f, g) /\ g.instrs = f.instrs \o instrs
          /\ g.list = f.list /\ g.then = f.then
      BY <2>9 DEF AFrame, SameFrame
    <3>2. g.instrs \in Seq(Instr)
      BY <2>7, <2>8, <3>1 DEF FrameType
    <3>3. /\ g.kind = f.kind /\ g.n = f.n /\ g.l1 = f.l1 /\ g.l2 = f.l2 /\ g.size = f.size
          /\ g.list = f.list /\ g.then = f.then /\ g.vars = f.vars /\ g.defers = f.defers
      BY <2>9 DEF AFrame
    <3>4. g = AFrame(g.kind, g.n, g.l1, g.l2, g.size, g.list, g.then, g.vars, g.defers, g.instrs)
      BY <2>9, <3>1, <3>3, Zenon
    <3>5. FrameType(f)
      BY <2>7, <2>8
    <3>6. FrameType(g)
      BY <3>2, <3>3, <3>4, <3>5, Zenon DEF FrameType
    <3>7. QED
      BY <3>1, <3>6
  <2>11. /\ IsSeq(gs) /\ Len(gs) = Len(c.frames)
         /\ \A i \in 1..Len(c.frames) : gs[i] = IF i = a THEN g ELSE c.frames[i]
    <3>1. IsSeq(c.frames) /\ a \in 1..Len(c.frames)
      BY <1>1, <2>1 DEF FramesType
    <3>2. PICK s : s = c.frames
      OBVIOUS
    <3>3. PICK k \in 1..Len(s) : k = a
      BY <3>1, <3>2
    <3>4. IsSeq(s) /\ Replaced(gs, s, k, g)
      BY <2>3, <3>1, <3>2, <3>3, Zenon DEF Replaced
    <3>5. IsSeq(gs) /\ Len(gs) = Len(s)
      BY <3>4, SeqReplaced, Zenon
    <3>6. \A i \in 1..Len(s) : gs[i] = IF i = k THEN g ELSE s[i]
      BY <3>4, SeqReplaced
    <3>7. QED
      BY <3>2, <3>3, <3>5, <3>6
  <2>12. FramesType(gs)
    BY <1>1, <2>10, <2>11 DEF FramesType
  <2>13. ContextType(d)
    BY <2>5, <2>6, <2>12 DEF ContextType
  <2>14. SameFrames(c, d)
    BY <2>6, <2>8, <2>10, <2>11 DEF SameFrames, SameFrame
  <2>15. ASSUME NEW k \in Sinks(c), k # a
         PROVE  SinkAt(d, k) = SinkAt(c, k)
    BY <1>1, <2>6, <2>11, <2>15 DEF SinkAt, Sinks
  <2>16. SinkAt(d, a) = SinkAt(c, a) \o instrs
    BY <2>1, <2>6, <2>8, <2>10, <2>11 DEF SinkAt
  <2>17. Emitted(c, instrs, d)
    BY <2>1, <2>6, <2>13, <2>14, <2>15, <2>16, SameSinks DEF Emitted, SameFrames, SameFrame
  <2>18. QED
    BY <2>6, <2>17 DEF d
<1>4. QED
  BY <1>2, <1>3

-----------------------------------------------------------------------------
(* Labels and targets of code that is put together.                          *)
LEMMA LabelsAndTargets ==
  ASSUME NEW code \in Seq(Instr)
  PROVE  /\ \A l : l \in Labels(code) <=>
                 \E i \in 1..Len(code) : code[i].op = "label" /\ code[i].arg = l
         /\ \A l : l \in Targets(code) <=>
                 \E i \in 1..Len(code) : code[i].op \in {"jmp", "jmpz"} /\ code[i].arg = l
<1>1. DOMAIN code = 1..Len(code)
  OBVIOUS
<1>2. \A l : l \in Labels(code) <=>
           \E i \in {j \in 1..Len(code) : code[j].op = "label"} : code[i].arg = l
  BY <1>1, Zenon DEF Labels
<1>3. \A l : l \in Targets(code) <=>
           \E i \in {j \in 1..Len(code) : code[j].op \in {"jmp", "jmpz"}} : code[i].arg = l
  BY <1>1, Zenon DEF Targets
<1>4. QED
  BY <1>2, <1>3

LEMMA CodeJoined ==
  ASSUME NEW a \in Seq(Instr), NEW b \in Seq(Instr)
  PROVE  /\ Labels(a \o b) = Labels(a) \cup Labels(b)
         /\ Targets(a \o b) = Targets(a) \cup Targets(b)
         /\ UniqueLabels(a) /\ UniqueLabels(b) /\ Labels(a) \cap Labels(b) = {}
              => UniqueLabels(a \o b)
<1> DEFINE n == Len(a)
           m == Len(b)
<1>1. PICK ab \in Seq(Instr) : ab = a \o b
  <2>1. a \o b \in Seq(Instr)
    BY ConcatProperties
  <2>2. QED
    BY <2>1, Zenon
<1>2. /\ n \in Nat /\ m \in Nat /\ Len(ab) = n + m
      /\ DOMAIN a = 1..n /\ DOMAIN b = 1..m /\ DOMAIN ab = 1..n+m
      /\ \A i \in 1..n : i \in 1..n+m /\ ab[i] = a[i]
      /\ \A i \in 1..m : i + n \in 1..n+m /\ ab[i + n] = b[i]
      /\ \A i \in 1..n+m : i \in 1..n \/ \E j \in 1..m : i = j + n
  <2>1. n \in Nat /\ m \in Nat /\ Len(ab) = n + m /\ DOMAIN a = 1..n /\ DOMAIN b = 1..m
        /\ DOMAIN ab = 1..n+m
    BY <1>1
  <2>2. \A i \in 1..n+m : ab[i] = IF i <= n THEN a[i] ELSE b[i - n]
    BY <1>1, ConcatProperties
  <2> HIDE DEF n, m
  <2>3. \A i \in 1..n : i \in 1..n+m /\ ab[i] = a[i]
    BY <2>1, <2>2
  <2>4. \A i \in 1..m : i + n \in 1..n+m /\ ab[i + n] = b[i]
    BY <2>1, <2>2
  <2>5. ASSUME NEW i \in 1..n+m, i \notin 1..n PROVE \E j \in 1..m : i = j + n
    <3>1. i - n \in 1..m /\ i = (i - n) + n
      BY <2>1, <2>5
    <3>2. QED
      BY <3>1
  <2>6. QED
    BY <2>1, <2>3, <2>4, <2>5 DEF n, m
<1> HIDE DEF n, m
<1>3. Labels(ab) = Labels(a) \cup Labels(b)
  <2>1. ASSUME NEW l \in Labels(a) PROVE l \in Labels(ab)
    <3>1. PICK i \in 1..n : a[i].op = "label" /\ a[i].arg = l
      BY <2>1, LabelsAndTargets DEF n
    <3>2. i \in 1..n+m /\ ab[i].op = "label" /\ ab[i].arg = l
      BY <1>2, <3>1
    <3>3. \E k \in 1..Len(ab) : ab[k].op = "label" /\ ab[k].arg = l
      BY <1>2, <3>2
    <3>4. QED
      BY <3>3, LabelsAndTargets
  <2>2. ASSUME NEW l \in Labels(b) PROVE l \in Labels(ab)
    <3>1. PICK i \in 1..m : b[i].op = "label" /\ b[i].arg = l
      BY <2>2, LabelsAndTargets DEF m
    <3>2. i + n \in 1..n+m /\ ab[i + n].op = "label" /\ ab[i + n].arg = l
      BY <1>2, <3>1
    <3>3. \E k \in 1..Len(ab) : ab[k].op = "label" /\ ab[k].arg = l
      BY <1>2, <3>2
    <3>4. QED
      BY <3>3, LabelsAndTargets
  <2>3. ASSUME NEW l \in Labels(ab) PROVE l \in Labels(a) \cup Labels(b)
    <3>1. PICK i \in 1..n+m : ab[i].op = "label" /\ ab[i].arg = l
      <4>1. \E k \in 1..Len(ab) : ab[k].op = "label" /\ ab[k].arg = l
        BY <2>3, LabelsAndTargets
      <4>2. QED
        BY <1>2, <4>1
    <3>2. CASE i \in 1..n
      BY <1>2, <3>1, <3>2, LabelsAndTargets DEF n
    <3>3. CASE i \notin 1..n
      <4>1. PICK j \in 1..m : i = j + n
        BY <1>2, <3>3
      <4>2. QED
        BY <1>2, <3>1, <4>1, LabelsAndTargets DEF m
    <3>4. QED
      BY <3>2, <3>3
  <2>4. QED
    BY <2>1, <2>2, <2>3
<1>4. Targets(ab) = Targets(a) \cup Targets(b)
  <2>1. ASSUME NEW l \in Targets(a) PROVE l \in Targets(ab)
    <3>1. PICK i \in 1..n : a[i].op \in {"jmp", "jmpz"} /\ a[i].arg = l
      BY <2>1, LabelsAndTargets DEF n
    <3>2. i \in 1..n+m /\ ab[i].op \in {"jmp", "jmpz"} /\ ab[i].arg = l
      BY <1>2, <3>1
    <3>3. \E k \in 1..Len(ab) : ab[k].op \in {"jmp", "jmpz"} /\ ab[k].arg = l
      BY <1>2, <3>2
    <3>4. QED
      BY <3>3, LabelsAndTargets
  <2>2. ASSUME NEW l \in Targets(b) PROVE l \in Targets(ab)
    <3>1. PICK i \in 1..m : b[i].op \in {"jmp", "jmpz"} /\ b[i].arg = l
      BY <2>2, LabelsAndTargets DEF m
    <3>2. i + n \in 1..n+m /\ ab[i + n].op \in {"jmp", "jmpz"} /\ ab[i + n].arg = l
      BY <1>2, <3>1
    <3>3. \E k \in 1..Len(ab) : ab[k].op \in {"jmp", "jmpz"} /\ ab[k].arg = l
      BY <1>2, <3>2
    <3>4. QED
      BY <3>3, LabelsAndTargets
  <2>3. ASSUME NEW l \in Targets(ab) PROVE l \in Targets(a) \cup Targets(b)
    <3>1. PICK i \in 1..n+m : ab[i].op \in {"jmp", "jmpz"} /\ ab[i].arg = l
      <4>1. \E k \in 1..Len(ab) : ab[k].op \in {"jmp", "jmpz"} /\ ab[k].arg = l
        BY <2>3, LabelsAndTargets
      <4>2. QED
        BY <1>2, <4>1
    <3>2. CASE i \in 1..n
      BY <1>2, <3>1, <3>2, LabelsAndTargets DEF n
    <3>3. CASE i \notin 1..n
      <4>1. PICK j \in 1..m : i = j + n
        BY <1>2, <3>3
      <4>2. QED
        BY <1>2, <3>1, <4>1, LabelsAndTargets DEF m
    <3>4. QED
      BY <3>2, <3>3
  <2>4. QED
    BY <2>1, <2>2, <2>3
<1>5. ASSUME UniqueLabels(a), UniqueLabels(b), Labels(a) \cap Labels(b) = {}
      PROVE  UniqueLabels(ab)
  <2>1. SUFFICES ASSUME NEW i \in 1..n+m, NEW j \in 1..n+m, ab[i].op = "label", ab[j].op = "label",
                        ab[i].arg = ab[j].arg
                 PROVE  i = j
    BY <1>2 DEF UniqueLabels
  <2>2. CASE i \in 1..n /\ j \in 1..n
    BY <1>2, <1>5, <2>1, <2>2 DEF UniqueLabels, n
  <2>3. CASE i \in 1..n /\ j \notin 1..n
    <3>1. PICK l \in 1..m : j = l + n
      BY <1>2, <2>3
    <3>2. a[i].op = "label" /\ b[l].op = "label" /\ a[i].arg = b[l].arg
      BY <1>2, <2>1, <2>3, <3>1
    <3>3. a[i].arg \in Labels(a) /\ a[i].arg \in Labels(b)
      BY <2>3, <3>2, LabelsAndTargets DEF n, m
    <3>4. QED
      BY <1>5, <3>3
  <2>4. CASE i \notin 1..n /\ j \in 1..n
    <3>1. PICK l \in 1..m : i = l + n
      BY <1>2, <2>4
    <3>2. a[j].op = "label" /\ b[l].op = "label" /\ a[j].arg = b[l].arg
      BY <1>2, <2>1, <2>4, <3>1
    <3>3. a[j].arg \in Labels(a) /\ a[j].arg \in Labels(b)
      BY <2>4, <3>2, LabelsAndTargets DEF n, m
    <3>4. QED
      BY <1>5, <3>3
  <2>5. CASE i \notin 1..n /\ j \notin 1..n
    <3>1. PICK k \in 1..m, l \in 1..m : i = k + n /\ j = l + n
      BY <1>2, <2>5
    <3>2. b[k].op = "label" /\ b[l].op = "label" /\ b[k].arg = b[l].arg
      BY <1>2, <2>1, <3>1
    <3>3. k = l
      BY <1>5, <3>2 DEF UniqueLabels, m
    <3>4. QED
      BY <3>1, <3>3
  <2>6. QED
    BY <2>2, <2>3, <2>4, <2>5
<1>6. QED
  BY <1>1, <1>3, <1>4, <1>5

(* Emitting code keeps the labels in place, if its own are ones that were    *)
(* waited for, or fresh, and its targets can be found.                       *)
Placeable(c, extra, instrs) ==
  LET a == Innermost(c)
  IN /\ instrs \in Seq(Instr) /\ UniqueLabels(instrs)
     /\ Labels(instrs) \subseteq 0..c.labels-1
     /\ \A k \in Sinks(c) : Labels(instrs) \cap Labels(SinkAt(c, k)) = {}
     /\ \A i \in 1..Len(c.frames) : Labels(instrs) \cap Awaited(c.frames[i]) = {}
     /\ \A t \in Targets(instrs) :
          \/ t \in Labels(instrs) \/ t \in Labels(SinkAt(c, a)) \/ t \in extra
          \/ \E i \in 1..Len(c.frames) : InSink(c, a, i) /\ t \in Awaited(c.frames[i])

LEMMA SinkTyped ==
  ASSUME NEW c, ContextType(c), NEW k \in Sinks(c)
  PROVE  SinkAt(c, k) \in Seq(Instr)
BY DEF ContextType, FramesType, FrameType, SinkAt, Sinks

LEMMA CodePlaced ==
  ASSUME NEW c, NEW d, NEW extra, NEW instrs, ContextType(c), LabelsPlaced(c, extra),
         Placeable(c, extra, instrs), Emitted(c, instrs, d)
  PROVE  LabelsPlaced(d, extra \ Labels(instrs))
<1> DEFINE a == Innermost(c)
           n == Len(c.frames)
<1>1. /\ ContextType(d) /\ SameFrames(c, d) /\ d.labels = c.labels /\ Len(d.frames) = n
      /\ a \in Sinks(c) /\ InSink(c, a, n)
      /\ \A k \in Sinks(c) : InSink(c, k, n) => k = a
  BY InnermostSink DEF Emitted, SameFrames
<1>2. /\ Sinks(d) = Sinks(c) /\ Innermost(d) = a
      /\ \A k \in Sinks(c) : \A i \in 1..n : InSink(d, k, i) <=> InSink(c, k, i)
  BY <1>1, SameSinks DEF SameFrames, SameFrame
<1>3. \A i \in 1..n : /\ Awaited(d.frames[i]) = Awaited(c.frames[i])
                      /\ d.frames[i].defers = c.frames[i].defers
                      /\ d.frames[i].kind = c.frames[i].kind
                      /\ d.frames[i].l1 = c.frames[i].l1 /\ d.frames[i].l2 = c.frames[i].l2
  <2>1. \A f, g : SameFrame(f, g) => /\ Awaited(g) = Awaited(f) /\ g.defers = f.defers
                                     /\ g.kind = f.kind /\ g.l1 = f.l1 /\ g.l2 = f.l2
    BY DEF SameFrame, Awaited
  <2>2. QED
    BY <1>1, <2>1 DEF SameFrames
<1>4. \A k \in Sinks(c) :
        /\ k # a => SinkAt(d, k) = SinkAt(c, k)
        /\ Labels(SinkAt(d, a)) = Labels(SinkAt(c, a)) \cup Labels(instrs)
        /\ Targets(SinkAt(d, a)) = Targets(SinkAt(c, a)) \cup Targets(instrs)
        /\ UniqueLabels(SinkAt(d, a))
  <2>1. \A k \in Sinks(c) : k # a => SinkAt(d, k) = SinkAt(c, k)
    BY DEF Emitted
  <2>2. SinkAt(d, a) = SinkAt(c, a) \o instrs
    BY <1>1 DEF Emitted
  <2>3. SinkAt(c, a) \in Seq(Instr) /\ instrs \in Seq(Instr)
    BY <1>1, SinkTyped DEF Placeable
  <2>4. /\ UniqueLabels(SinkAt(c, a)) /\ UniqueLabels(instrs)
        /\ Labels(SinkAt(c, a)) \cap Labels(instrs) = {}
    BY <1>1 DEF LabelsPlaced, Placeable
  <2>5. QED
    BY <2>1, <2>2, <2>3, <2>4, CodeJoined
<1> DEFINE rest == extra \ Labels(instrs)
<1>5. ASSUME NEW k \in Sinks(d)
      PROVE  /\ UniqueLabels(SinkAt(d, k))
             /\ Labels(SinkAt(d, k)) \subseteq 0..d.labels-1
             /\ Labels(SinkAt(d, k)) \cap rest = {}
             /\ \A t \in Targets(SinkAt(d, k)) :
                  \/ t \in Labels(SinkAt(d, k))
                  \/ \E i \in 1..Len(d.frames) : InSink(d, k, i) /\ t \in Awaited(d.frames[i])
                  \/ InSink(d, k, Len(d.frames)) /\ t \in rest
  <2>1. /\ UniqueLabels(SinkAt(c, k))
        /\ Labels(SinkAt(c, k)) \subseteq 0..c.labels-1
        /\ Labels(SinkAt(c, k)) \cap extra = {}
        /\ \A t \in Targets(SinkAt(c, k)) :
             \/ t \in Labels(SinkAt(c, k))
             \/ \E i \in 1..n : InSink(c, k, i) /\ t \in Awaited(c.frames[i])
             \/ InSink(c, k, n) /\ t \in extra
    BY <1>2 DEF LabelsPlaced
  <2>2. InSink(d, k, n) <=> k = a
    BY <1>1, <1>2, InnermostSink
  <2>3. CASE k # a
    <3>1. /\ SinkAt(d, k) = SinkAt(c, k) /\ ~InSink(c, k, n)
      BY <1>1, <1>2, <1>4, <2>3
    <3>2. \A i \in 1..n : InSink(d, k, i) <=> InSink(c, k, i)
      BY <1>2
    <3>3. QED
      BY <1>1, <1>3, <2>1, <3>1, <3>2
  <2>4. CASE k = a
    <3>1. /\ Labels(instrs) \subseteq 0..c.labels-1
          /\ \A t \in Targets(instrs) :
               \/ t \in Labels(instrs) \/ t \in Labels(SinkAt(c, a)) \/ t \in extra
               \/ \E i \in 1..n : InSink(c, a, i) /\ t \in Awaited(c.frames[i])
      BY DEF Placeable
    <3>2. \A i \in 1..n : InSink(d, a, i) <=> InSink(c, a, i)
      BY <1>1, <1>2
    <3>3. ASSUME NEW t \in Targets(SinkAt(d, a))
          PROVE  \/ t \in Labels(SinkAt(d, a))
                 \/ \E i \in 1..n : InSink(d, a, i) /\ t \in Awaited(d.frames[i])
                 \/ t \in rest
      <4>1. t \in Targets(SinkAt(c, a)) \/ t \in Targets(instrs)
        BY <1>1, <1>4, <3>3
      <4>2. \/ t \in Labels(SinkAt(c, a)) \/ t \in Labels(instrs) \/ t \in extra
            \/ \E i \in 1..n : InSink(c, a, i) /\ t \in Awaited(c.frames[i])
        BY <2>1, <2>4, <3>1, <4>1
      <4>3. t \in extra => t \in rest \/ t \in Labels(instrs)
        OBVIOUS
      <4>4. QED
        BY <1>1, <1>3, <1>4, <3>2, <4>2, <4>3
    <3>4. UniqueLabels(SinkAt(d, a)) /\ Labels(SinkAt(d, a)) = Labels(SinkAt(c, a)) \cup Labels(instrs)
      BY <1>1, <1>4
    <3>5. QED
      BY <1>1, <2>1, <2>2, <2>4, <3>1, <3>3, <3>4
  <2>5. QED
    BY <2>3, <2>4
<1>6. ASSUME NEW i \in 1..Len(d.frames)
      PROVE  /\ Awaited(d.frames[i]) \subseteq 0..d.labels-1
             /\ Awaited(d.frames[i]) \cap rest = {}
             /\ \A k \in Sinks(d) : Awaited(d.frames[i]) \cap Labels(SinkAt(d, k)) = {}
             /\ \A j \in 1..Len(d.frames) : j # i => Awaited(d.frames[i]) \cap Awaited(d.frames[j]) = {}
             /\ \A b \in DOMAIN d.frames[i].defers : Closed(d.frames[i].defers[b])
             /\ d.frames[i].kind = "while" =>
                  \E k \in Sinks(d) : InSink(d, k, i) /\ d.frames[i].l1 \in Labels(SinkAt(d, k))
             /\ d.frames[i].kind = "then" => d.frames[i].l1 # d.frames[i].l2
  <2>1. /\ Awaited(c.frames[i]) \subseteq 0..c.labels-1
        /\ Awaited(c.frames[i]) \cap extra = {}
        /\ \A k \in Sinks(c) : Awaited(c.frames[i]) \cap Labels(SinkAt(c, k)) = {}
        /\ \A j \in 1..n : j # i => Awaited(c.frames[i]) \cap Awaited(c.frames[j]) = {}
        /\ \A b \in DOMAIN c.frames[i].defers : Closed(c.frames[i].defers[b])
        /\ c.frames[i].kind = "while" =>
             \E k \in Sinks(c) : InSink(c, k, i) /\ c.frames[i].l1 \in Labels(SinkAt(c, k))
        /\ c.frames[i].kind = "then" => c.frames[i].l1 # c.frames[i].l2
    BY <1>1 DEF LabelsPlaced
  <2>2. Awaited(c.frames[i]) \cap Labels(instrs) = {}
    BY <1>1 DEF Placeable
  <2>3. \A k \in Sinks(c) : /\ Labels(SinkAt(d, k)) \subseteq Labels(SinkAt(c, k)) \cup Labels(instrs)
                            /\ Labels(SinkAt(c, k)) \subseteq Labels(SinkAt(d, k))
    BY <1>4
  <2>4. \A k \in Sinks(d) : Awaited(d.frames[i]) \cap Labels(SinkAt(d, k)) = {}
    BY <1>1, <1>2, <1>3, <2>1, <2>2, <2>3
  <2>5. d.frames[i].kind = "while" =>
          \E k \in Sinks(d) : InSink(d, k, i) /\ d.frames[i].l1 \in Labels(SinkAt(d, k))
    BY <1>1, <1>2, <1>3, <2>1, <2>3
  <2>6. QED
    BY <1>1, <1>3, <2>1, <2>4, <2>5
<1>7. rest \subseteq 0..d.labels-1
  BY <1>1 DEF LabelsPlaced
<1>8. QED
  BY <1>5, <1>6, <1>7 DEF LabelsPlaced

-----------------------------------------------------------------------------
(* A context that differs from another in the trees, the count, the source   *)
(* and the flag only; its labels and slots are where they were.              *)
Alike(c, d) ==
  /\ ContextType(d) /\ SameFrames(c, d)
  /\ d.code = c.code /\ d.frameSize = c.frameSize
  /\ \A i \in 1..Len(c.frames) : d.frames[i].instrs = c.frames[i].instrs

(* More labels may have been taken, and be waited for besides.               *)
LEMMA LabelsTaken ==
  ASSUME NEW c, NEW d, NEW extra, NEW more, ContextType(c), Alike(c, d), c.labels <= d.labels,
         LabelsPlaced(c, extra), more \subseteq extra \cup (c.labels..d.labels-1), extra \subseteq more
  PROVE  LabelsPlaced(d, more)
<1>1. /\ ContextType(d) /\ Len(d.frames) = Len(c.frames) /\ c.labels \in Nat /\ d.labels \in Nat
      /\ 0..c.labels-1 \subseteq 0..d.labels-1
      /\ (0..c.labels-1) \cap (c.labels..d.labels-1) = {}
      /\ c.labels..d.labels-1 \subseteq 0..d.labels-1
  BY DEF Alike, SameFrames, ContextType
<1>2. /\ Sinks(d) = Sinks(c) /\ Innermost(d) = Innermost(c)
      /\ \A k \in Sinks(c) : \A i \in 1..Len(c.frames) : InSink(d, k, i) <=> InSink(c, k, i)
  BY <1>1, SameSinks DEF Alike, SameFrames, SameFrame
<1>3. \A k \in Sinks(c) : SinkAt(d, k) = SinkAt(c, k)
  BY DEF Alike, SinkAt, Sinks
<1>4. \A k \in Sinks(c) : InSink(d, k, Len(d.frames)) <=> InSink(c, k, Len(c.frames))
  BY <1>1, <1>2, InnermostSink
<1>5. \A i \in 1..Len(c.frames) : /\ Awaited(d.frames[i]) = Awaited(c.frames[i])
                                  /\ d.frames[i].defers = c.frames[i].defers
                                  /\ d.frames[i].kind = c.frames[i].kind
                                  /\ d.frames[i].l1 = c.frames[i].l1 /\ d.frames[i].l2 = c.frames[i].l2
  <2>1. \A f, g : SameFrame(f, g) => /\ Awaited(g) = Awaited(f) /\ g.defers = f.defers
                                     /\ g.kind = f.kind /\ g.l1 = f.l1 /\ g.l2 = f.l2
    BY DEF SameFrame, Awaited
  <2>2. QED
    BY <2>1 DEF Alike, SameFrames
<1>6. more \subseteq 0..d.labels-1
  BY <1>1 DEF LabelsPlaced
<1>7. ASSUME NEW k \in Sinks(d)
      PROVE  /\ UniqueLabels(SinkAt(d, k))
             /\ Labels(SinkAt(d, k)) \subseteq 0..d.labels-1
             /\ Labels(SinkAt(d, k)) \cap more = {}
             /\ \A t \in Targets(SinkAt(d, k)) :
                  \/ t \in Labels(SinkAt(d, k))
                  \/ \E i \in 1..Len(d.frames) : InSink(d, k, i) /\ t \in Awaited(d.frames[i])
                  \/ InSink(d, k, Len(d.frames)) /\ t \in more
  <2>1. /\ UniqueLabels(SinkAt(c, k))
        /\ Labels(SinkAt(c, k)) \subseteq 0..c.labels-1
        /\ Labels(SinkAt(c, k)) \cap extra = {}
        /\ \A t \in Targets(SinkAt(c, k)) :
             \/ t \in Labels(SinkAt(c, k))
             \/ \E i \in 1..Len(c.frames) : InSink(c, k, i) /\ t \in Awaited(c.frames[i])
             \/ InSink(c, k, Len(c.frames)) /\ t \in extra
    BY <1>2 DEF LabelsPlaced
  <2>2. /\ SinkAt(d, k) = SinkAt(c, k)
        /\ InSink(d, k, Len(d.frames)) <=> InSink(c, k, Len(c.frames))
        /\ \A i \in 1..Len(c.frames) : InSink(d, k, i) <=> InSink(c, k, i)
    BY <1>2, <1>3, <1>4
  <2>3. Labels(SinkAt(c, k)) \cap more = {}
    BY <1>1, <2>1
  <2>4. QED
    BY <1>1, <1>5, <2>1, <2>2, <2>3
<1>8. ASSUME NEW i \in 1..Len(d.frames)
      PROVE  /\ Awaited(d.frames[i]) \subseteq 0..d.labels-1
             /\ Awaited(d.frames[i]) \cap more = {}
             /\ \A k \in Sinks(d) : Awaited(d.frames[i]) \cap Labels(SinkAt(d, k)) = {}
             /\ \A j \in 1..Len(d.frames) : j # i => Awaited(d.frames[i]) \cap Awaited(d.frames[j]) = {}
             /\ \A b \in DOMAIN d.frames[i].defers : Closed(d.frames[i].defers[b])
             /\ d.frames[i].kind = "while" =>
                  \E k \in Sinks(d) : InSink(d, k, i) /\ d.frames[i].l1 \in Labels(SinkAt(d, k))
             /\ d.frames[i].kind = "then" => d.frames[i].l1 # d.frames[i].l2
  <2>1. /\ Awaited(c.frames[i]) \subseteq 0..c.labels-1
        /\ Awaited(c.frames[i]) \cap extra = {}
        /\ \A k \in Sinks(c) : Awaited(c.frames[i]) \cap Labels(SinkAt(c, k)) = {}
        /\ \A j \in 1..Len(c.frames) : j # i => Awaited(c.frames[i]) \cap Awaited(c.frames[j]) = {}
        /\ \A b \in DOMAIN c.frames[i].defers : Closed(c.frames[i].defers[b])
        /\ c.frames[i].kind = "while" =>
             \E k \in Sinks(c) : InSink(c, k, i) /\ c.frames[i].l1 \in Labels(SinkAt(c, k))
        /\ c.frames[i].kind = "then" => c.frames[i].l1 # c.frames[i].l2
    BY <1>1 DEF LabelsPlaced
  <2>2. Awaited(c.frames[i]) \cap more = {}
    BY <1>1, <2>1
  <2>3. QED
    BY <1>1, <1>2, <1>3, <1>5, <2>1, <2>2
<1>9. QED
  BY <1>6, <1>7, <1>8 DEF LabelsPlaced

LEMMA AlikeContext ==
  ASSUME NEW c, ContextType(c), NEW h \in BOOLEAN, NEW l \in Nat, NEW n \in Nat, NEW s,
         NEW d, d = Context(c.frames, c.code, h, l, c.frameSize, n, s)
  PROVE  /\ Alike(c, d) /\ d.frames = c.frames /\ d.source = s
         /\ d.hasReturn = h /\ d.labels = l /\ d.nodes = n
<1>1. /\ d.frames = c.frames /\ d.code = c.code /\ d.hasReturn = h /\ d.labels = l
      /\ d.frameSize = c.frameSize /\ d.nodes = n /\ d.source = s
  BY DEF Context
<1>2. ContextType(d)
  BY <1>1 DEF ContextType
<1>3. QED
  BY <1>1, <1>2 DEF Alike, SameFrames, SameFrame

LEMMA EmittedAlike ==
  ASSUME NEW c, NEW d, NEW e, NEW x, ContextType(c), Alike(c, d), d.nodes = c.nodes, Emitted(d, x, e)
  PROVE  /\ ContextType(e) /\ SameFrames(c, e) /\ Innermost(e) = Innermost(c)
         /\ e.labels = d.labels /\ e.frameSize = c.frameSize /\ e.nodes = c.nodes
         /\ \A k \in Sinks(c) :
              SinkAt(e, k) = IF k = Innermost(c) THEN SinkAt(c, k) \o x ELSE SinkAt(c, k)
<1>1. ContextType(d) /\ SameFrames(c, d) /\ d.frameSize = c.frameSize
  BY DEF Alike
<1>2. Sinks(d) = Sinks(c) /\ Innermost(d) = Innermost(c)
  BY <1>1, SameSinks DEF SameFrames, SameFrame
<1>3. \A k \in Sinks(c) : SinkAt(d, k) = SinkAt(c, k)
  BY DEF Alike, SinkAt, Sinks
<1>4. SameFrames(c, e)
  <2>1. \A f, g, h : SameFrame(f, g) /\ SameFrame(g, h) => SameFrame(f, h)
    BY DEF SameFrame
  <2>2. QED
    BY <1>1, <2>1 DEF Emitted, SameFrames
<1>5. QED
  BY <1>1, <1>2, <1>3, <1>4 DEF Emitted

LEMMA EmitParts ==
  ASSUME NEW c, ContextType(c), NEW instr \in Instr
  PROVE  /\ Emitted(c, <<instr>>, Emit(c, instr))
         /\ Emit(c, instr).hasReturn \in BOOLEAN
         /\ instr.op = "label" => ~Emit(c, instr).hasReturn
         /\ instr.op \notin {"label", "ret"} => Emit(c, instr).hasReturn = c.hasReturn
<1> DEFINE h == CASE instr.op = "label" -> FALSE [] instr.op = "ret" -> TRUE [] OTHER -> c.hasReturn
<1>1. /\ h \in BOOLEAN /\ (instr.op = "label" => ~h)
      /\ instr.op \notin {"label", "ret"} => h = c.hasReturn
  <2>1. c.hasReturn \in BOOLEAN
    BY DEF ContextType
  <2>2. CASE instr.op = "label"
    <3>1. h = FALSE
      BY <2>2
    <3>2. QED
      BY <2>2, <3>1
  <2>3. CASE instr.op = "ret"
    <3>1. h = TRUE
      BY <2>3
    <3>2. QED
      BY <2>3, <3>1
  <2>4. CASE instr.op # "label" /\ instr.op # "ret"
    <3>1. h = c.hasReturn
      BY <2>4
    <3>2. QED
      BY <2>1, <2>4, <3>1
  <2>5. QED
    BY <2>2, <2>3, <2>4
<1>2. PICK d : d = [c EXCEPT !.hasReturn = h]
  OBVIOUS
<1>3. Emit(c, instr) = EmitArray(d, <<instr>>)
  BY <1>2 DEF Emit
<1> HIDE DEF h
<1>4. /\ Alike(c, d) /\ d.hasReturn = h /\ d.labels = c.labels /\ d.nodes = c.nodes
  <2>1. d = Context(c.frames, c.code, h, c.labels, c.frameSize, c.nodes, c.source)
    BY <1>2, ContextUpdate DEF ContextType
  <2>2. c.labels \in Nat /\ c.nodes \in Nat
    BY DEF ContextType
  <2>3. QED
    BY <1>1, <2>1, <2>2, AlikeContext
<1>5. <<instr>> \in Seq(Instr)
  OBVIOUS
<1>6. ContextType(d)
  BY <1>4 DEF Alike
<1>7. Emitted(d, <<instr>>, EmitArray(d, <<instr>>)) /\ EmitArray(d, <<instr>>).hasReturn = h
  BY <1>4, <1>5, <1>6, EmitArrayParts
<1>8. Emitted(c, <<instr>>, EmitArray(d, <<instr>>))
  <2>1. PICK e : e = EmitArray(d, <<instr>>)
    OBVIOUS
  <2>2. /\ ContextType(e) /\ SameFrames(c, e) /\ Innermost(e) = Innermost(c)
        /\ e.labels = d.labels /\ e.frameSize = c.frameSize /\ e.nodes = c.nodes
        /\ \A k \in Sinks(c) :
             SinkAt(e, k) = IF k = Innermost(c) THEN SinkAt(c, k) \o <<instr>> ELSE SinkAt(c, k)
    BY <1>4, <1>7, <2>1, EmittedAlike
  <2>3. QED
    BY <1>4, <2>1, <2>2 DEF Emitted
<1>9. QED
  BY <1>1, <1>3, <1>7, <1>8

LEMMA OneInstruction ==
  ASSUME NEW instr \in Instr
  PROVE  /\ <<instr>> \in Seq(Instr) /\ UniqueLabels(<<instr>>)
         /\ Labels(<<instr>>) = IF instr.op = "label" THEN {instr.arg} ELSE {}
         /\ Targets(<<instr>>) = IF instr.op \in {"jmp", "jmpz"} THEN {instr.arg} ELSE {}
<1>1. <<instr>> \in Seq(Instr) /\ Len(<<instr>>) = 1 /\ <<instr>>[1] = instr
  OBVIOUS
<1>2. PICK s \in Seq(Instr) : s = <<instr>>
  BY <1>1, Zenon
<1>3. UniqueLabels(s)
  BY <1>1, <1>2 DEF UniqueLabels
<1>4. Labels(s) = IF instr.op = "label" THEN {instr.arg} ELSE {}
  <2>1. \A l : l \in Labels(s) <=> instr.op = "label" /\ l = instr.arg
    <3>1. \A l : l \in Labels(s) <=> \E i \in 1..Len(s) : s[i].op = "label" /\ s[i].arg = l
      BY LabelsAndTargets
    <3>2. 1 \in 1..Len(s) /\ \A i \in 1..Len(s) : s[i] = instr
      BY <1>1, <1>2
    <3>3. \A l : (\E i \in 1..Len(s) : s[i].op = "label" /\ s[i].arg = l)
                 <=> instr.op = "label" /\ l = instr.arg
      BY <3>2
    <3>4. QED
      BY <3>1, <3>3
  <2>2. QED
    BY <2>1
<1>5. Targets(s) = IF instr.op \in {"jmp", "jmpz"} THEN {instr.arg} ELSE {}
  <2>1. \A l : l \in Targets(s) <=> instr.op \in {"jmp", "jmpz"} /\ l = instr.arg
    <3>1. \A l : l \in Targets(s) <=> \E i \in 1..Len(s) : s[i].op \in {"jmp", "jmpz"} /\ s[i].arg = l
      BY LabelsAndTargets
    <3>2. 1 \in 1..Len(s) /\ \A i \in 1..Len(s) : s[i] = instr
      BY <1>1, <1>2
    <3>3. \A l : (\E i \in 1..Len(s) : s[i].op \in {"jmp", "jmpz"} /\ s[i].arg = l)
                 <=> instr.op \in {"jmp", "jmpz"} /\ l = instr.arg
      BY <3>2
    <3>4. QED
      BY <3>1, <3>3
  <2>2. QED
    BY <2>1
<1>6. QED
  BY <1>1, <1>2, <1>3, <1>4, <1>5

(* Where the code emitted next may jump to.                                  *)
Findable(c, extra, t) ==
  \/ t \in Labels(SinkAt(c, Innermost(c))) \/ t \in extra
  \/ \E i \in 1..Len(c.frames) : InSink(c, Innermost(c), i) /\ t \in Awaited(c.frames[i])

LEMMA EmitPlaced ==
  ASSUME NEW c, NEW extra, ContextType(c), LabelsPlaced(c, extra), NEW instr \in Instr,
         instr.op = "label" => instr.arg \in extra,
         instr.op \in {"jmp", "jmpz"} => Findable(c, extra, instr.arg)
  PROVE  LabelsPlaced(Emit(c, instr), IF instr.op = "label" THEN extra \ {instr.arg} ELSE extra)
<1>1. Placeable(c, extra, <<instr>>)
  <2>1. Labels(<<instr>>) \subseteq extra
    BY OneInstruction
  <2>2. /\ extra \subseteq 0..c.labels-1
        /\ \A k \in Sinks(c) : extra \cap Labels(SinkAt(c, k)) = {}
        /\ \A i \in 1..Len(c.frames) : extra \cap Awaited(c.frames[i]) = {}
    BY DEF LabelsPlaced
  <2>3. \A t \in Targets(<<instr>>) : Findable(c, extra, t)
    BY OneInstruction
  <2>4. QED
    BY <2>1, <2>2, <2>3, OneInstruction DEF Placeable, Findable
<1>2. Emitted(c, <<instr>>, Emit(c, instr))
  BY EmitParts
<1>3. LabelsPlaced(Emit(c, instr), extra \ Labels(<<instr>>))
  BY <1>1, <1>2, CodePlaced
<1>4. extra \ Labels(<<instr>>) = IF instr.op = "label" THEN extra \ {instr.arg} ELSE extra
  BY OneInstruction
<1>5. QED
  BY <1>3, <1>4

-----------------------------------------------------------------------------
(* The copy of a deferred statement.  Its labels are numbered by rank, above *)
(* all the labels in use.                                                    *)
LEMMA LabelsFinite ==
  ASSUME NEW code \in Seq(Instr)
  PROVE  IsFiniteSet(Labels(code)) /\ Labels(code) \subseteq Nat
<1> DEFINE at == {i \in DOMAIN code : code[i].op = "label"}
           f == [i \in at |-> code[i].arg]
<1>1. IsFiniteSet(DOMAIN code)
  <2>1. Len(code) \in Nat /\ DOMAIN code = 1..Len(code)
    OBVIOUS
  <2>2. IsFiniteSet(1..Len(code))
    BY <2>1, FS_Interval
  <2>3. QED
    BY <2>1, <2>2
<1>2. IsFiniteSet(at)
  BY <1>1, FS_Subset
<1>3. Labels(code) = {f[i] : i \in at}
  BY DEF Labels
<1>4. f \in Surjection(at, Labels(code))
  BY <1>3 DEF Surjection
<1>5. IsFiniteSet(Labels(code))
  BY <1>2, <1>4, FS_Surjection
<1>6. Labels(code) \subseteq Nat
  <2>1. \A i \in 1..Len(code) : code[i] \in Instr
    OBVIOUS
  <2>2. \A i \in Instr : i.arg \in Nat
    BY DEF Instr
  <2>3. QED
    BY <2>1, <2>2, LabelsAndTargets
<1>7. QED
  BY <1>5, <1>6

LEMMA RankBelow ==
  ASSUME NEW own, IsFiniteSet(own), own \subseteq Nat
  PROVE  /\ Cardinality(own) \in Nat
         /\ \A l \in own : Cardinality({k \in own : k < l}) \in 0..Cardinality(own)-1
         /\ \A l, m \in own : l < m => Cardinality({k \in own : k < l}) < Cardinality({k \in own : k < m})
<1> DEFINE Below(l) == {k \in own : k < l}
<1>1. Cardinality(own) \in Nat
  BY FS_CardinalityType
<1>2. \A l \in own : IsFiniteSet(Below(l)) /\ Cardinality(Below(l)) \in Nat
  <2>1. SUFFICES ASSUME NEW l \in own PROVE IsFiniteSet(Below(l)) /\ Cardinality(Below(l)) \in Nat
    OBVIOUS
  <2>2. Below(l) \in SUBSET own
    OBVIOUS
  <2>3. IsFiniteSet(Below(l))
    BY <2>2, FS_Subset
  <2>4. QED
    BY <2>3, FS_CardinalityType
<1>3. ASSUME NEW l \in own, NEW S \in SUBSET own, Below(l) \cup {l} \subseteq S
      PROVE  IsFiniteSet(S) /\ Cardinality(S) \in Nat /\ Cardinality(Below(l)) < Cardinality(S)
  <2>1. IsFiniteSet(S)
    BY FS_Subset
  <2>2. Cardinality(S) \in Nat
    BY <2>1, FS_CardinalityType
  <2>3. l \notin Below(l)
    OBVIOUS
  <2>4. IsFiniteSet(Below(l))
    BY <1>2
  <2> HIDE DEF Below
  <2>5. Cardinality(Below(l) \cup {l}) = Cardinality(Below(l)) + 1
    BY <2>3, <2>4, FS_AddElement
  <2>6. Cardinality(Below(l) \cup {l}) <= Cardinality(S)
    <3>1. PICK T \in SUBSET S : T = Below(l) \cup {l}
      BY <1>3
    <3>2. Cardinality(T) <= Cardinality(S)
      BY <2>1, FS_Subset
    <3>3. QED
      BY <3>1, <3>2
  <2>7. QED
    BY <1>2, <2>1, <2>2, <2>5, <2>6
<1>4. \A l \in own : Cardinality(Below(l)) \in 0..Cardinality(own)-1
  <2>1. SUFFICES ASSUME NEW l \in own PROVE Cardinality(Below(l)) \in 0..Cardinality(own)-1
    OBVIOUS
  <2>2. Below(l) \cup {l} \subseteq own /\ own \in SUBSET own
    OBVIOUS
  <2>3. Cardinality(Below(l)) < Cardinality(own)
    BY <1>3, <2>2
  <2>4. QED
    BY <1>1, <1>2, <2>3
<1>5. \A l, m \in own : l < m => Cardinality(Below(l)) < Cardinality(Below(m))
  <2>1. SUFFICES ASSUME NEW l \in own, NEW m \in own, l < m
                 PROVE  Cardinality(Below(l)) < Cardinality(Below(m))
    OBVIOUS
  <2>2. Below(l) \cup {l} \subseteq Below(m) /\ Below(m) \in SUBSET own
    <3>1. \A k \in own : k < l => k < m
      BY <2>1
    <3>2. QED
      BY <2>1, <3>1
  <2>3. QED
    BY <1>3, <2>2
<1>6. QED
  BY <1>1, <1>4, <1>5

Copied(instrs, own, base) ==
  [i \in DOMAIN instrs |->
     IF instrs[i].op \in {"label", "jmp", "jmpz"} /\ instrs[i].arg \in own
     THEN [instrs[i] EXCEPT !.arg = base + Cardinality({k \in own : k < @})] ELSE instrs[i]]

LEMMA CopyFresh ==
  ASSUME NEW instrs \in Seq(Instr), Closed(instrs), NEW base \in Nat
  PROVE  LET own  == Labels(instrs)
             copy == Copied(instrs, own, base)
         IN /\ copy \in Seq(Instr) /\ Closed(copy)
            /\ Cardinality(own) \in Nat
            /\ Labels(copy) \subseteq base..base + Cardinality(own) - 1
            /\ Len(copy) = Len(instrs)
            /\ \A i \in 1..Len(instrs) : copy[i].op = instrs[i].op
<1> DEFINE own == Labels(instrs)
           Rank(l) == Cardinality({k \in own : k < l})
           copy == Copied(instrs, own, base)
<1>1. /\ Cardinality(own) \in Nat
      /\ \A l \in own : Rank(l) \in 0..Cardinality(own)-1
      /\ \A l, m \in own : l < m => Rank(l) < Rank(m)
      /\ own \subseteq Nat
  BY LabelsFinite, RankBelow
<1>2. \A l, m \in own : base + Rank(l) = base + Rank(m) => l = m
  <2>1. SUFFICES ASSUME NEW l \in own, NEW m \in own, base + Rank(l) = base + Rank(m) PROVE l = m
    OBVIOUS
  <2>2. l \in Nat /\ m \in Nat /\ Rank(l) \in Nat /\ Rank(m) \in Nat
    BY <1>1
  <2>3. ~(l < m) /\ ~(m < l)
    <3>1. (l < m => Rank(l) < Rank(m)) /\ (m < l => Rank(m) < Rank(l))
      BY <1>1, Zenon
    <3> HIDE DEF Rank, own
    <3>2. QED
      BY <2>1, <2>2, <3>1
  <2>4. QED
    BY <2>2, <2>3
<1>3. Len(instrs) \in Nat /\ DOMAIN instrs = 1..Len(instrs) /\ \A i \in 1..Len(instrs) : instrs[i] \in Instr
  OBVIOUS
<1>4. ASSUME NEW i \in 1..Len(instrs)
      PROVE  /\ copy[i] \in Instr /\ copy[i].op = instrs[i].op
             /\ copy[i].arg = IF instrs[i].op \in {"label", "jmp", "jmpz"}
                              THEN base + Rank(instrs[i].arg) ELSE instrs[i].arg
             /\ instrs[i].op \in {"label", "jmp", "jmpz"} => instrs[i].arg \in own
  <2>1. instrs[i].op \in {"label", "jmp", "jmpz"} => instrs[i].arg \in own
    <3>1. instrs[i].op = "label" => instrs[i].arg \in Labels(instrs)
      BY LabelsAndTargets
    <3>2. instrs[i].op \in {"jmp", "jmpz"} => instrs[i].arg \in Targets(instrs)
      BY LabelsAndTargets
    <3>3. QED
      BY <3>1, <3>2 DEF Closed
  <2>2. copy[i] = IF instrs[i].op \in {"label", "jmp", "jmpz"} /\ instrs[i].arg \in own
                  THEN [instrs[i] EXCEPT !.arg = base + Rank(instrs[i].arg)] ELSE instrs[i]
    BY <1>3 DEF Copied
  <2>3. instrs[i].arg \in own => Rank(instrs[i].arg) \in Nat
    BY <1>1
  <2> HIDE DEF copy, Rank, own
  <2>4. PICK x \in Instr : x = instrs[i]
    BY <1>3
  <2>5. CASE x.op \in {"label", "jmp", "jmpz"}
    <3>1. PICK n \in Nat : n = base + Rank(x.arg)
      BY <2>1, <2>3, <2>4, <2>5
    <3>2. copy[i] = [x EXCEPT !.arg = n]
      BY <2>1, <2>2, <2>4, <2>5, <3>1
    <3>3. copy[i] \in Instr /\ copy[i].op = x.op /\ copy[i].arg = n
      BY <3>2 DEF Instr
    <3>4. QED
      BY <2>1, <2>4, <2>5, <3>1, <3>3
  <2>6. CASE x.op \notin {"label", "jmp", "jmpz"}
    <3>1. copy[i] = x
      BY <2>2, <2>4, <2>6
    <3>2. QED
      BY <2>4, <2>6, <3>1
  <2>7. QED
    BY <2>5, <2>6
<1>5. /\ copy \in Seq(Instr) /\ Len(copy) = Len(instrs)
  <2>1. copy = [i \in 1..Len(instrs) |-> copy[i]]
    BY <1>3 DEF Copied
  <2> HIDE DEF copy
  <2>2. copy \in [1..Len(instrs) -> Instr]
    BY <1>4, <2>1
  <2>3. QED
    BY <1>3, <2>2, SeqDef
<1> HIDE DEF copy, Rank, own
<1>6. UniqueLabels(copy)
  <2>1. SUFFICES ASSUME NEW i \in 1..Len(instrs), NEW j \in 1..Len(instrs),
                        copy[i].op = "label", copy[j].op = "label", copy[i].arg = copy[j].arg
                 PROVE  i = j
    BY <1>5 DEF UniqueLabels
  <2>2. /\ instrs[i].op = "label" /\ instrs[j].op = "label"
        /\ base + Rank(instrs[i].arg) = base + Rank(instrs[j].arg)
        /\ instrs[i].arg \in own /\ instrs[j].arg \in own
    BY <1>4, <2>1
  <2>4. instrs[i].arg = instrs[j].arg
    BY <1>2, <2>2
  <2>5. QED
    BY <2>2, <2>4 DEF Closed, UniqueLabels
<1>7. ASSUME NEW l \in own PROVE base + Rank(l) \in Labels(copy)
  <2>1. PICK i \in 1..Len(instrs) : instrs[i].op = "label" /\ instrs[i].arg = l
    BY LabelsAndTargets DEF own
  <2>2. i \in 1..Len(copy) /\ copy[i].op = "label" /\ copy[i].arg = base + Rank(l)
    BY <1>4, <1>5, <2>1
  <2>3. QED
    BY <1>5, <2>2, LabelsAndTargets
<1>8. ASSUME NEW t \in Targets(copy) PROVE t \in Labels(copy)
  <2>1. PICK i \in 1..Len(copy) : copy[i].op \in {"jmp", "jmpz"} /\ copy[i].arg = t
    BY <1>5, LabelsAndTargets
  <2>2. instrs[i].arg \in own /\ t = base + Rank(instrs[i].arg)
    BY <1>4, <1>5, <2>1
  <2>3. QED
    BY <1>7, <2>2
<1>9. ASSUME NEW l \in Labels(copy) PROVE l \in base..base + Cardinality(own) - 1
  <2>1. PICK i \in 1..Len(copy) : copy[i].op = "label" /\ copy[i].arg = l
    BY <1>5, LabelsAndTargets
  <2>2. instrs[i].arg \in own /\ l = base + Rank(instrs[i].arg)
    BY <1>4, <1>5, <2>1
  <2>3. QED
    BY <1>1, <2>2
<1>10. /\ copy \in Seq(Instr) /\ Closed(copy)
       /\ Cardinality(own) \in Nat
       /\ Labels(copy) \subseteq base..base + Cardinality(own) - 1
       /\ Len(copy) = Len(instrs)
       /\ \A i \in 1..Len(instrs) : copy[i].op = instrs[i].op
  BY <1>1, <1>4, <1>5, <1>6, <1>8, <1>9 DEF Closed
<1>11. QED
  BY <1>10 DEF copy, own

-----------------------------------------------------------------------------
(* The deferred statements of scopes that are left: the frames stay, code is *)
(* added, and every label is still in its place.                             *)
Carried(c, d, extra) ==
  /\ ContextType(d) /\ SameFrames(c, d) /\ Innermost(d) = Innermost(c)
  /\ d.frameSize = c.frameSize /\ d.nodes = c.nodes /\ d.hasReturn = c.hasReturn
  /\ LabelsPlaced(d, extra)
  /\ \A k \in Sinks(c) : Labels(SinkAt(c, k)) \subseteq Labels(SinkAt(d, k))

LEMMA CarriedOn ==
  ASSUME NEW c, NEW d, NEW e, NEW extra, ContextType(c), Carried(c, d, extra), Carried(d, e, extra)
  PROVE  Carried(c, e, extra)
<1>1. SameFrames(c, e)
  <2>1. \A f, g, h : SameFrame(f, g) /\ SameFrame(g, h) => SameFrame(f, h)
    BY DEF SameFrame
  <2>2. QED
    BY <2>1 DEF Carried, SameFrames
<1>2. Sinks(d) = Sinks(c)
  BY SameSinks DEF Carried, SameFrames, SameFrame
<1>3. QED
  BY <1>1, <1>2 DEF Carried

LEMMA CopyCarried ==
  ASSUME NEW c, ContextType(c), NEW extra, LabelsPlaced(c, extra), NEW instrs \in ClosedCode
  PROVE  Carried(c, EmitCopy(c, instrs), extra)
<1> DEFINE own == Labels(instrs)
           copy == Copied(instrs, own, c.labels)
<1>1. c.labels \in Nat /\ c.nodes \in Nat /\ c.hasReturn \in BOOLEAN /\ c.frameSize \in Nat
  BY DEF ContextType
<1>2. /\ instrs \in Seq(Instr) /\ copy \in Seq(Instr) /\ Closed(copy)
      /\ Cardinality(own) \in Nat
      /\ Labels(copy) \subseteq c.labels..c.labels + Cardinality(own) - 1
  BY <1>1, CopyFresh DEF ClosedCode
<1>3. PICK d : d = [c EXCEPT !.labels = c.labels + Cardinality(own)]
  OBVIOUS
<1>4. EmitCopy(c, instrs) = EmitArray(d, copy)
  BY <1>3 DEF EmitCopy, Copied
<1> HIDE DEF own, copy
<1>5. /\ Alike(c, d) /\ d.hasReturn = c.hasReturn /\ d.nodes = c.nodes
      /\ d.labels = c.labels + Cardinality(own)
  <2>1. PICK l \in Nat : l = c.labels + Cardinality(own)
    BY <1>1, <1>2
  <2>2. d = Context(c.frames, c.code, c.hasReturn, l, c.frameSize, c.nodes, c.source)
    BY <1>3, <2>1, ContextUpdate DEF ContextType
  <2>3. Alike(c, d) /\ d.hasReturn = c.hasReturn /\ d.nodes = c.nodes /\ d.labels = l
    BY <1>1, <2>2, AlikeContext
  <2>4. QED
    BY <2>1, <2>3
<1>6. ContextType(d) /\ LabelsPlaced(d, extra)
  <2>1. c.labels <= d.labels
    BY <1>1, <1>2, <1>5
  <2>2. QED
    BY <1>5, <2>1, LabelsTaken DEF Alike
<1>7. PICK e : e = EmitArray(d, copy)
  OBVIOUS
<1>8. Emitted(d, copy, e) /\ e.hasReturn = c.hasReturn
  BY <1>2, <1>5, <1>6, <1>7, EmitArrayParts
<1>9. Placeable(d, extra, copy)
  <2>1. /\ Sinks(d) = Sinks(c) /\ \A k \in Sinks(c) : SinkAt(d, k) = SinkAt(c, k)
    <3>1. Sinks(d) = Sinks(c)
      BY <1>5, SameSinks DEF Alike, SameFrames, SameFrame
    <3>2. QED
      BY <1>5, <3>1 DEF Alike, SinkAt, Sinks
  <2>2. \A k \in Sinks(c) : Labels(SinkAt(c, k)) \subseteq 0..c.labels-1
    BY DEF LabelsPlaced
  <2>3. \A i \in 1..Len(d.frames) : Awaited(d.frames[i]) \subseteq 0..c.labels-1
    <3>1. \A f, g : SameFrame(f, g) => Awaited(g) = Awaited(f)
      BY DEF SameFrame, Awaited
    <3>2. QED
      BY <1>5, <3>1 DEF Alike, SameFrames, LabelsPlaced
  <2>4. Labels(copy) \cap (0..c.labels-1) = {} /\ Labels(copy) \subseteq 0..d.labels-1
    BY <1>1, <1>2, <1>5
  <2>5. QED
    BY <1>2, <2>1, <2>2, <2>3, <2>4 DEF Placeable, Closed
<1>10. LabelsPlaced(e, extra)
  <2>1. LabelsPlaced(e, extra \ Labels(copy))
    BY <1>6, <1>8, <1>9, CodePlaced
  <2>2. extra \ Labels(copy) = extra
    <3>1. extra \subseteq 0..c.labels-1
      BY DEF LabelsPlaced
    <3>2. QED
      BY <1>1, <1>2, <3>1
  <2>3. QED
    BY <2>1, <2>2
<1>11. /\ ContextType(e) /\ SameFrames(c, e) /\ Innermost(e) = Innermost(c)
       /\ e.frameSize = c.frameSize /\ e.nodes = c.nodes
       /\ \A k \in Sinks(c) :
            SinkAt(e, k) = IF k = Innermost(c) THEN SinkAt(c, k) \o copy ELSE SinkAt(c, k)
  BY <1>5, <1>8, EmittedAlike
<1>12. ASSUME NEW k \in Sinks(c) PROVE Labels(SinkAt(c, k)) \subseteq Labels(SinkAt(e, k))
  <2>1. SinkAt(c, k) \in Seq(Instr)
    BY SinkTyped
  <2>2. Labels(SinkAt(c, k) \o copy) = Labels(SinkAt(c, k)) \cup Labels(copy)
    BY <1>2, <2>1, CodeJoined
  <2>3. QED
    BY <1>11, <2>2
<1>13. Carried(c, e, extra)
  BY <1>8, <1>10, <1>11, <1>12 DEF Carried
<1>14. QED
  BY <1>4, <1>7, <1>13

LEMMA NothingCarried ==
  ASSUME NEW c, ContextType(c), NEW extra, LabelsPlaced(c, extra)
  PROVE  Carried(c, c, extra)
BY DEF Carried, SameFrames, SameFrame

LEMMA CopiesCarried ==
  ASSUME NEW c, ContextType(c), NEW extra, LabelsPlaced(c, extra), NEW blocks \in Seq(ClosedCode)
  PROVE  Carried(c, EmitCopies(c, blocks), extra)
<1> DEFINE n == Len(blocks)
           Step(f, i) == IF i = 0 THEN c ELSE EmitCopy(f[i-1], blocks[i])
           after[i \in 0..n] == IF i = 0 THEN c ELSE EmitCopy(after[i-1], blocks[i])
<1>1. n \in Nat /\ DOMAIN blocks = 1..n /\ \A i \in 1..n : blocks[i] \in ClosedCode
  OBVIOUS
<1>2. \E f : f = [i \in 0..n |-> Step(f, i)]
  <2> DEFINE S == {k \in 0..n : \E f : f = [i \in 0..k |-> Step(f, i)]}
  <2>1. 0 \in S
    <3>1. PICK f : f = [i \in 0..0 |-> c]
      OBVIOUS
    <3>2. f = [i \in 0..0 |-> Step(f, i)]
      BY <3>1
    <3>3. QED
      BY <1>1, <3>2
  <2>2. ASSUME NEW k \in 0..n-1, k \in S PROVE k + 1 \in S
    <3>1. PICK f : f = [i \in 0..k |-> Step(f, i)]
      BY <2>2
    <3>2. PICK g : g = [i \in 0..k+1 |-> IF i <= k THEN f[i] ELSE Step(f, i)]
      OBVIOUS
    <3>3. \A i \in 0..k+1 : g[i] = Step(g, i)
      <4>1. \A i \in 0..k : g[i] = f[i] /\ f[i] = Step(f, i)
        BY <3>1, <3>2
      <4>2. g[k+1] = Step(f, k+1)
        BY <3>2
      <4>3. \A i \in 1..k+1 : i - 1 \in 0..k
        OBVIOUS
      <4>4. \A i \in 0..k+1 : Step(f, i) = Step(g, i)
        BY <4>1, <4>3
      <4>5. QED
        BY <4>1, <4>2, <4>4
    <3>4. g = [i \in 0..k+1 |-> Step(g, i)]
      BY <3>2, <3>3
    <3>5. QED
      BY <1>1, <3>4
  <2>3. 0..n \subseteq S
    <3> HIDE DEF S
    <3>1. QED
      BY <1>1, <2>1, <2>2, CountingUp
  <2>4. QED
    BY <1>1, <2>3
<1>3. after = [i \in 0..n |-> IF i = 0 THEN c ELSE EmitCopy(after[i-1], blocks[i])]
  BY <1>2
<1>4. EmitCopies(c, blocks) = after[n]
  BY DEF EmitCopies
<1> HIDE DEF after
<1>5. 0..n \subseteq {i \in 0..n : Carried(c, after[i], extra)}
  <2> DEFINE S == {i \in 0..n : Carried(c, after[i], extra)}
  <2>1. 0 \in S
    BY <1>1, <1>3, NothingCarried
  <2>2. ASSUME NEW i \in 0..n-1, i \in S PROVE i + 1 \in S
    <3>1. i + 1 \in 1..n /\ (i + 1) - 1 = i
      BY <1>1
    <3>2. after[i+1] = EmitCopy(after[i], blocks[i+1])
      BY <1>1, <1>3, <3>1
    <3>3. Carried(c, after[i], extra) /\ blocks[i+1] \in ClosedCode
      BY <1>1, <2>2, <3>1
    <3>4. Carried(after[i], after[i+1], extra)
      BY <3>2, <3>3, CopyCarried DEF Carried
    <3>5. QED
      BY <3>1, <3>3, <3>4, CarriedOn
  <2> HIDE DEF S
  <2>3. QED
    BY <1>1, <2>1, <2>2, CountingUp DEF S
<1>6. QED
  BY <1>1, <1>4, <1>5

(* The blocks that leaving the scopes above a frame emits.                   *)
LEMMA FlattenTyped ==
  ASSUME NEW S, NEW seqs \in Seq(Seq(S))
  PROVE  FlattenSeq(seqs) \in Seq(S)
<1> DEFINE n == Len(seqs)
           Step(f, i) == IF i = 1 THEN seqs[i] ELSE Joined(f[i-1], seqs[i])
           flatten[i \in 1..n] == IF i = 1 THEN seqs[i] ELSE flatten[i-1] \o seqs[i]
<1>1. n \in Nat /\ DOMAIN seqs = 1..n /\ \A i \in 1..n : seqs[i] \in Seq(S)
  OBVIOUS
<1>2. CASE n = 0
  <2>1. seqs = <<>>
    BY <1>2
  <2>2. QED
    BY <1>2, <2>1 DEF FlattenSeq
<1> HIDE DEF flatten
<1>3. CASE n # 0
  <2>1. \E f : f = [i \in 1..n |-> Step(f, i)]
    <3> DEFINE T == {k \in 0..n : \E f : f = [i \in 1..k |-> Step(f, i)]}
    <3>1. 0 \in T
      <4>1. PICK f : f = [i \in 1..0 |-> 0]
        OBVIOUS
      <4>2. f = [i \in 1..0 |-> Step(f, i)]
        BY <4>1
      <4> HIDE DEF Step
      <4>3. 0 \in 0..n /\ \E g : g = [i \in 1..0 |-> Step(g, i)]
        BY <1>1, <4>2
      <4>4. QED
        BY <4>3, Zenon
    <3>2. ASSUME NEW k \in 0..n-1, k \in T PROVE k + 1 \in T
      <4>1. PICK f : f = [i \in 1..k |-> Step(f, i)]
        BY <3>2
      <4>2. PICK g : g = [i \in 1..k+1 |-> IF i <= k THEN f[i] ELSE Step(f, i)]
        OBVIOUS
      <4>3. \A i \in 1..k+1 : g[i] = Step(g, i)
        <5>1. \A i \in 1..k : g[i] = f[i] /\ f[i] = Step(f, i)
          BY <4>1, <4>2
        <5>2. g[k+1] = Step(f, k+1)
          BY <4>2
        <5>3. \A i \in 2..k+1 : i - 1 \in 1..k
          OBVIOUS
        <5>4. \A i \in 1..k+1 : Step(f, i) = Step(g, i)
          BY <5>1, <5>3
        <5>5. QED
          BY <5>1, <5>2, <5>4
      <4>4. g = [i \in 1..k+1 |-> Step(g, i)]
        BY <4>2, <4>3
      <4> HIDE DEF Step
      <4>5. k + 1 \in 0..n
        BY <1>1
      <4>6. QED
        BY <4>4, <4>5
    <3>3. 0..n \subseteq T
      <4> HIDE DEF T
      <4>1. QED
        BY <1>1, <3>1, <3>2, CountingUp
    <3> HIDE DEF Step
    <3>4. n \in T
      BY <1>1, <3>3
    <3>5. QED
      BY <3>4
  <2>2. flatten = [i \in 1..n |-> IF i = 1 THEN seqs[i] ELSE Joined(flatten[i-1], seqs[i])]
    <3>1. flatten = CHOOSE f : f = [i \in 1..n |-> Step(f, i)]
      BY Zenon DEF flatten, Joined
    <3>2. QED
      BY <2>1, <3>1
  <2>3. FlattenSeq(seqs) = flatten[n]
    BY <1>3 DEF FlattenSeq, flatten
  <2>4. 0..n \subseteq {i \in 0..n : i = 0 \/ flatten[i] \in Seq(S)}
    <3> DEFINE T == {i \in 0..n : i = 0 \/ flatten[i] \in Seq(S)}
    <3>1. 0 \in T
      BY <1>1
    <3>2. ASSUME NEW i \in 0..n-1, i \in T PROVE i + 1 \in T
      <4>1. i + 1 \in 1..n /\ (i + 1) - 1 = i
        BY <1>1
      <4>2. seqs[i+1] \in Seq(S)
        BY <1>1, <4>1
      <4>3. CASE i = 0
        BY <2>2, <4>1, <4>2, <4>3
      <4>4. CASE i # 0
        <5>1. flatten[i+1] = Joined(flatten[i], seqs[i+1])
          BY <2>2, <4>1, <4>4
        <5>2. flatten[i] \in Seq(S)
          BY <3>2, <4>4
        <5>3. \A x, y \in Seq(S) : Joined(x, y) \in Seq(S)
          BY ConcatProperties DEF Joined
        <5>4. flatten[i+1] \in Seq(S)
          BY <4>2, <5>1, <5>2, <5>3
        <5>5. QED
          BY <4>1, <5>4
      <4>5. QED
        BY <4>3, <4>4
    <3> HIDE DEF T
    <3>3. QED
      BY <1>1, <3>1, <3>2, CountingUp DEF T
  <2>5. QED
    BY <1>1, <1>3, <2>3, <2>4
<1>4. QED
  BY <1>2, <1>3

LEMMA PendingClosed ==
  ASSUME NEW c, ContextType(c), NEW extra, LabelsPlaced(c, extra), NEW upto \in 0..Len(c.frames)
  PROVE  Pending(c, upto) \in Seq(ClosedCode)
<1> DEFINE m == Len(c.frames) - upto
           blocks == [i \in 1..m |-> c.frames[Len(c.frames) + 1 - i].defers]
<1>1. Len(c.frames) \in Nat /\ m \in Nat /\ \A i \in 1..m : Len(c.frames) + 1 - i \in 1..Len(c.frames)
  BY SeqParts DEF ContextType, FramesType
<1>2. \A i \in 1..Len(c.frames) : c.frames[i].defers \in Seq(ClosedCode)
  <2>1. SUFFICES ASSUME NEW i \in 1..Len(c.frames) PROVE c.frames[i].defers \in Seq(ClosedCode)
    OBVIOUS
  <2>2. PICK s : s = c.frames[i].defers
    OBVIOUS
  <2>3. s \in Seq(Seq(Instr)) /\ \A b \in DOMAIN s : Closed(s[b])
    BY <2>2 DEF ContextType, FramesType, FrameType, LabelsPlaced
  <2>4. Len(s) \in Nat /\ DOMAIN s = 1..Len(s) /\ s = [b \in 1..Len(s) |-> s[b]]
        /\ \A b \in 1..Len(s) : s[b] \in Seq(Instr)
    BY <2>3
  <2>5. \A b \in 1..Len(s) : s[b] \in ClosedCode
    BY <2>3, <2>4 DEF ClosedCode
  <2>6. s \in [1..Len(s) -> ClosedCode]
    BY <2>4, <2>5
  <2>7. s \in Seq(ClosedCode)
    <3>1. PICK n \in Nat : s \in [1..n -> ClosedCode]
      BY <2>4, <2>6
    <3>2. QED
      BY <3>1, SeqDef
  <2>8. QED
    BY <2>2, <2>7
<1>3. blocks \in [1..m -> Seq(ClosedCode)]
  BY <1>1, <1>2
<1>4. blocks \in Seq(Seq(ClosedCode))
  <2> HIDE DEF m, blocks
  <2>1. \E k \in Nat : blocks \in [1..k -> Seq(ClosedCode)]
    BY <1>1, <1>3
  <2>2. Seq(Seq(ClosedCode)) = UNION {[1..k -> Seq(ClosedCode)] : k \in Nat}
    BY SeqDef
  <2>3. QED
    BY <2>1, <2>2, Zenon
<1>5. QED
  BY <1>4, FlattenTyped DEF Pending

LEMMA DefersCarried ==
  ASSUME NEW c, ContextType(c), NEW extra, LabelsPlaced(c, extra), NEW upto \in 0..Len(c.frames)
  PROVE  /\ Carried(c, EmitDefers(c, upto), extra)
         /\ c.hasReturn => EmitDefers(c, upto) = c
BY PendingClosed, CopiesCarried, NothingCarried DEF EmitDefers

-----------------------------------------------------------------------------
(* How each operation of the compiler keeps a context sound.                 *)
(* The frames are where they were, and the labels that were placed too.      *)
Grown(c, d) ==
  /\ SameFrames(c, d) /\ Innermost(d) = Innermost(c)
  /\ d.frameSize = c.frameSize /\ d.nodes = c.nodes
  /\ \A k \in Sinks(c) : Labels(SinkAt(c, k)) \subseteq Labels(SinkAt(d, k))

(* The slots stay stacked in a context whose frames are some of the first    *)
(* frames of a stacked one, with the sizes and the names those had.          *)
LEMMA SlotsKept ==
  ASSUME NEW c, NEW d, SlotsStacked(c), d.frameSize = c.frameSize,
         \A i \in 1..Len(d.frames) :
           i \in 1..Len(c.frames) /\ d.frames[i].size = c.frames[i].size
                                 /\ d.frames[i].vars = c.frames[i].vars
  PROVE  SlotsStacked(d)
<1> PICK n : n = Len(d.frames)
  OBVIOUS
<1>1. ASSUME NEW i \in 1..n
      PROVE  /\ d.frames[i].size <= d.frameSize
             /\ \A v \in d.frames[i].vars : d.frames[i].size < v[2] /\ v[2] <= d.frameSize
             /\ \A v, w \in d.frames[i].vars : v[2] = w[2] => v = w
  <2>1. /\ c.frames[i].size <= c.frameSize
        /\ \A v \in c.frames[i].vars : c.frames[i].size < v[2] /\ v[2] <= c.frameSize
        /\ \A v, w \in c.frames[i].vars : v[2] = w[2] => v = w
    BY DEF SlotsStacked
  <2>2. d.frames[i].size = c.frames[i].size /\ d.frames[i].vars = c.frames[i].vars
    OBVIOUS
  <2>3. QED
    BY <2>1, <2>2, Zenon
<1>2. ASSUME NEW i \in 1..n, NEW j \in 1..n, i < j
      PROVE  /\ d.frames[i].size <= d.frames[j].size
             /\ \A v \in d.frames[i].vars : v[2] <= d.frames[j].size
  <2>1. /\ c.frames[i].size <= c.frames[j].size
        /\ \A v \in c.frames[i].vars : v[2] <= c.frames[j].size
    BY <1>2 DEF SlotsStacked
  <2>2. /\ d.frames[i].size = c.frames[i].size /\ d.frames[i].vars = c.frames[i].vars
        /\ d.frames[j].size = c.frames[j].size
    OBVIOUS
  <2>3. QED
    BY <2>1, <2>2, Zenon
<1>3. QED
  BY <1>1, <1>2, Zenon DEF SlotsStacked

LEMMA FramesKept ==
  ASSUME NEW c, NEW d, SameFrames(c, d), d.frameSize = c.frameSize
  PROVE  /\ Nested(c) => Nested(d)
         /\ SlotsStacked(c) => SlotsStacked(d)
<1>1. /\ Len(d.frames) = Len(c.frames)
      /\ \A i \in 1..Len(c.frames) : /\ d.frames[i].kind = c.frames[i].kind
                                     /\ d.frames[i].size = c.frames[i].size
                                     /\ d.frames[i].vars = c.frames[i].vars
  BY DEF SameFrames, SameFrame
<1>2. Nested(c) => Nested(d)
  BY <1>1 DEF Nested
<1>3. SlotsStacked(c) => SlotsStacked(d)
  <2>1. \A i \in 1..Len(d.frames) :
          i \in 1..Len(c.frames) /\ d.frames[i].size = c.frames[i].size
                                /\ d.frames[i].vars = c.frames[i].vars
    BY <1>1
  <2>2. QED
    BY <2>1, SlotsKept, Zenon
<1>4. QED
  BY <1>2, <1>3

LEMMA GrownOn ==
  ASSUME NEW c, NEW d, NEW e, ContextType(c), ContextType(d), Grown(c, d), Grown(d, e)
  PROVE  Grown(c, e)
<1>1. SameFrames(c, e)
  <2>1. \A f, g, h : SameFrame(f, g) /\ SameFrame(g, h) => SameFrame(f, h)
    BY DEF SameFrame
  <2>2. QED
    BY <2>1 DEF Grown, SameFrames
<1>2. Sinks(d) = Sinks(c)
  BY SameSinks DEF Grown, SameFrames, SameFrame
<1>3. QED
  BY <1>1, <1>2 DEF Grown

LEMMA ReturnedMore ==
  ASSUME NEW code \in Seq(Instr), NEW instr \in Instr
  PROVE  /\ instr.op # "label" /\ Returned(code) => Returned(code \o <<instr>>)
         /\ instr.op = "ret" => Returned(code \o <<instr>>)
<1>1. PICK s \in Seq(Instr) : s = code \o <<instr>>
  <2>1. code \o <<instr>> \in Seq(Instr)
    BY OneInstruction, ConcatProperties
  <2>2. QED
    BY <2>1, Zenon
<1>2. /\ Len(code) \in Nat /\ Len(s) = Len(code) + 1
      /\ \A i \in 1..Len(code) : s[i] = code[i]
      /\ s[Len(code) + 1] = instr
  BY <1>1
<1>3. ASSUME instr.op # "label", Returned(code) PROVE Returned(s)
  <2>1. PICK i \in 1..Len(code) : code[i].op = "ret" /\ \A j \in i..Len(code) : code[j].op # "label"
    BY <1>3 DEF Returned
  <2>2. i \in 1..Len(s) /\ s[i].op = "ret"
    BY <1>2, <2>1
  <2>3. \A j \in i..Len(s) : s[j].op # "label"
    BY <1>2, <1>3, <2>1
  <2>4. QED
    BY <2>2, <2>3 DEF Returned
<1>4. ASSUME instr.op = "ret" PROVE Returned(s)
  <2>1. Len(s) \in 1..Len(s) /\ s[Len(s)].op = "ret" /\ \A j \in Len(s)..Len(s) : s[j].op # "label"
    BY <1>2, <1>4
  <2>2. QED
    BY <2>1 DEF Returned
<1>5. QED
  BY <1>1, <1>3, <1>4

LEMMA EmitSound ==
  ASSUME NEW c, NEW extra, Sound(c, extra), NEW instr \in Instr,
         instr.op = "label" => instr.arg \in extra,
         instr.op \in {"jmp", "jmpz"} => Findable(c, extra, instr.arg),
         instr.op = "ret" /\ ~ReturnInDefer => Recorders(c) = {}
  PROVE  /\ Sound(Emit(c, instr), IF instr.op = "label" THEN extra \ {instr.arg} ELSE extra)
         /\ Grown(c, Emit(c, instr))
         /\ instr.op = "label" => instr.arg \in Labels(SinkAt(Emit(c, instr), Innermost(c)))
<1>1. PICK d : d = Emit(c, instr)
  OBVIOUS
<1>2. ContextType(c) /\ LabelsPlaced(c, extra)
  BY DEF Sound
<1>3. /\ Emitted(c, <<instr>>, d) /\ d.hasReturn \in BOOLEAN
      /\ instr.op = "label" => ~d.hasReturn
      /\ instr.op \notin {"label", "ret"} => d.hasReturn = c.hasReturn
  BY <1>1, <1>2, EmitParts
<1>4. LabelsPlaced(d, IF instr.op = "label" THEN extra \ {instr.arg} ELSE extra)
  BY <1>1, <1>2, EmitPlaced
<1>5. Nested(d) /\ SlotsStacked(d)
  BY <1>3, FramesKept DEF Sound, Emitted
<1>6. Innermost(c) \in Sinks(c) /\ <<instr>> \in Seq(Instr) /\ c.code \in Seq(Instr)
  BY <1>2, InnermostSink DEF ContextType
<1>7. ASSUME NEW k \in Sinks(c)
      PROVE  /\ Labels(SinkAt(c, k)) \subseteq Labels(SinkAt(d, k))
             /\ k = Innermost(c) /\ instr.op = "label" => instr.arg \in Labels(SinkAt(d, k))
  <2>1. SinkAt(c, k) \in Seq(Instr)
    BY <1>2, SinkTyped
  <2>2. Labels(SinkAt(c, k) \o <<instr>>) = Labels(SinkAt(c, k)) \cup Labels(<<instr>>)
    BY <1>6, <2>1, CodeJoined
  <2>3. instr.op = "label" => instr.arg \in Labels(<<instr>>)
    BY OneInstruction
  <2>4. QED
    BY <1>3, <2>2, <2>3 DEF Emitted
<1>8. ASSUME ~ReturnInDefer PROVE FlagMeansReturned(d)
  <2>1. FlagMeansReturned(c)
    BY <1>8 DEF Sound
  <2>2. d.code = IF Innermost(c) = 0 THEN c.code \o <<instr>> ELSE c.code
    <3>1. 0 \in Sinks(c) /\ SinkAt(c, 0) = c.code /\ SinkAt(d, 0) = d.code
      BY SeqParts, <1>2 DEF Sinks, SinkAt, ContextType, FramesType
    <3>2. QED
      BY <1>3, <3>1 DEF Emitted
  <2>3. CASE instr.op = "label"
    BY <1>3, <2>3 DEF FlagMeansReturned
  <2>4. CASE instr.op = "ret"
    <3>1. Innermost(c) = 0
      BY <1>8, <2>4 DEF Innermost
    <3>2. QED
      BY <1>6, <2>2, <2>4, <3>1, ReturnedMore DEF FlagMeansReturned
  <2>5. CASE instr.op \notin {"label", "ret"}
    <3>1. c.hasReturn => Returned(c.code \o <<instr>>) /\ Returned(c.code)
      BY <1>6, <2>1, <2>5, ReturnedMore DEF FlagMeansReturned
    <3>2. QED
      BY <1>3, <2>2, <2>5, <3>1 DEF FlagMeansReturned
  <2>6. QED
    BY <2>3, <2>4, <2>5
<1>9. Grown(c, d)
  BY <1>3, <1>7 DEF Grown, Emitted
<1>10. Sound(d, IF instr.op = "label" THEN extra \ {instr.arg} ELSE extra)
  BY <1>3, <1>4, <1>5, <1>8 DEF Sound, Emitted
<1>11. QED
  BY <1>1, <1>6, <1>7, <1>9, <1>10

LEMMA DefersSound ==
  ASSUME NEW c, NEW extra, Sound(c, extra), NEW upto \in 0..Len(c.frames)
  PROVE  /\ Sound(EmitDefers(c, upto), extra)
         /\ Grown(c, EmitDefers(c, upto))
<1>1. PICK d : d = EmitDefers(c, upto)
  OBVIOUS
<1>2. Carried(c, d, extra) /\ (c.hasReturn => d = c)
  BY <1>1, DefersCarried DEF Sound
<1>3. ~ReturnInDefer => FlagMeansReturned(d)
  BY <1>2 DEF Sound, Carried, FlagMeansReturned
<1>4. Nested(d) /\ SlotsStacked(d)
  BY <1>2, FramesKept DEF Sound, Carried
<1>5. QED
  BY <1>1, <1>2, <1>3, <1>4 DEF Sound, Carried, Grown

(* Taking labels, and counting.                                              *)
LEMMA AlikeSound ==
  ASSUME NEW c, NEW d, NEW extra, NEW more, Sound(c, extra), Alike(c, d), c.labels <= d.labels,
         more \subseteq extra \cup (c.labels..d.labels-1), extra \subseteq more,
         d.hasReturn => c.hasReturn
  PROVE  /\ Sound(d, more)
         /\ SameFrames(c, d) /\ Innermost(d) = Innermost(c) /\ d.frameSize = c.frameSize
         /\ \A k \in Sinks(c) : SinkAt(d, k) = SinkAt(c, k)
<1>1. ContextType(c) /\ ContextType(d) /\ SameFrames(c, d) /\ d.frameSize = c.frameSize
  BY DEF Sound, Alike
<1>2. LabelsPlaced(d, more)
  BY <1>1, LabelsTaken DEF Sound
<1>3. Nested(d) /\ SlotsStacked(d)
  BY <1>1, FramesKept DEF Sound
<1>4. ~ReturnInDefer => FlagMeansReturned(d)
  BY DEF Sound, Alike, FlagMeansReturned
<1>5. Innermost(d) = Innermost(c)
  BY <1>1, SameSinks DEF SameFrames, SameFrame
<1>6. \A k \in Sinks(c) : SinkAt(d, k) = SinkAt(c, k)
  BY DEF Alike, SinkAt, Sinks
<1>7. QED
  BY <1>1, <1>2, <1>3, <1>4, <1>5, <1>6 DEF Sound

-----------------------------------------------------------------------------
(* A frame that is changed, and frames that come and go.                     *)
LEMMA FrameChanged ==
  ASSUME NEW c, ContextType(c), NEW k \in 1..Len(c.frames), NEW g, FrameType(g),
         NEW d, d = [c EXCEPT !.frames = [c.frames EXCEPT ![k] = g]]
  PROVE  /\ ContextType(d) /\ Len(d.frames) = Len(c.frames)
         /\ \A i \in 1..Len(c.frames) : d.frames[i] = IF i = k THEN g ELSE c.frames[i]
         /\ d.code = c.code /\ d.hasReturn = c.hasReturn /\ d.labels = c.labels
         /\ d.frameSize = c.frameSize /\ d.nodes = c.nodes /\ d.source = c.source
<1>1. PICK gs : gs = [c.frames EXCEPT ![k] = g]
  OBVIOUS
<1>2. /\ IsSeq(gs) /\ Len(gs) = Len(c.frames)
      /\ \A i \in 1..Len(c.frames) : gs[i] = IF i = k THEN g ELSE c.frames[i]
  <2>1. PICK s : s = c.frames /\ IsSeq(s) /\ k \in 1..Len(s)
    BY DEF ContextType, FramesType
  <2>2. gs = [s EXCEPT ![k] = g]
    BY <1>1, <2>1
  <2>3. QED
    BY <2>1, <2>2, SeqUpdate
<1>3. FramesType(gs)
  BY <1>2 DEF ContextType, FramesType
<1>4. d = Context(gs, c.code, c.hasReturn, c.labels, c.frameSize, c.nodes, c.source)
  BY <1>1, ContextUpdate DEF ContextType
<1>5. /\ d.frames = gs /\ d.code = c.code /\ d.hasReturn = c.hasReturn /\ d.labels = c.labels
      /\ d.frameSize = c.frameSize /\ d.nodes = c.nodes /\ d.source = c.source
  BY <1>4 DEF Context
<1>6. ContextType(d)
  BY <1>3, <1>4, <1>5 DEF ContextType
<1>7. QED
  BY <1>2, <1>5, <1>6

Below(c) == [c EXCEPT !.frames = Front(c.frames)]

LEMMA FrameLeft ==
  ASSUME NEW c, ContextType(c), c.frames # <<>>, NEW d, d = Below(c)
  PROVE  /\ ContextType(d) /\ Len(c.frames) \in Nat \ {0} /\ Len(d.frames) = Len(c.frames) - 1
         /\ \A i \in 1..Len(c.frames)-1 : d.frames[i] = c.frames[i]
         /\ d.code = c.code /\ d.hasReturn = c.hasReturn /\ d.labels = c.labels
         /\ d.frameSize = c.frameSize /\ d.nodes = c.nodes /\ d.source = c.source
<1>1. PICK gs : gs = Front(c.frames)
  OBVIOUS
<1>2. /\ IsSeq(gs) /\ Len(c.frames) \in Nat \ {0} /\ Len(gs) = Len(c.frames) - 1
      /\ \A i \in 1..Len(c.frames)-1 : gs[i] = c.frames[i]
  BY <1>1, SeqButLast DEF ContextType, FramesType, Front
<1>3. FramesType(gs)
  BY <1>2 DEF ContextType, FramesType
<1>4. d = Context(gs, c.code, c.hasReturn, c.labels, c.frameSize, c.nodes, c.source)
  BY <1>1, ContextUpdate DEF ContextType, Below
<1>5. /\ d.frames = gs /\ d.code = c.code /\ d.hasReturn = c.hasReturn /\ d.labels = c.labels
      /\ d.frameSize = c.frameSize /\ d.nodes = c.nodes /\ d.source = c.source
  BY <1>4 DEF Context
<1>6. ContextType(d)
  BY <1>3, <1>4, <1>5 DEF ContextType
<1>7. QED
  BY <1>2, <1>5, <1>6

LEMMA FrameEntered ==
  ASSUME NEW c, ContextType(c), NEW f, FrameType(f), NEW d, d = Enter(c, f)
  PROVE  /\ ContextType(d) /\ Len(c.frames) \in Nat /\ Len(d.frames) = Len(c.frames) + 1
         /\ \A i \in 1..Len(c.frames) : d.frames[i] = c.frames[i]
         /\ d.frames[Len(c.frames) + 1] = f
         /\ d.code = c.code /\ d.hasReturn = c.hasReturn /\ d.labels = c.labels
         /\ d.frameSize = c.frameSize /\ d.nodes = c.nodes /\ d.source = c.source
<1>1. PICK gs : gs = Append(c.frames, f)
  OBVIOUS
<1>2. /\ IsSeq(gs) /\ Len(c.frames) \in Nat /\ Len(gs) = Len(c.frames) + 1
      /\ \A i \in 1..Len(c.frames) : gs[i] = c.frames[i]
      /\ gs[Len(c.frames) + 1] = f
  BY <1>1, SeqParts, SeqAppend DEF ContextType, FramesType
<1>3. FramesType(gs)
  BY <1>2 DEF ContextType, FramesType
<1>4. d = Context(gs, c.code, c.hasReturn, c.labels, c.frameSize, c.nodes, c.source)
  BY <1>1, ContextUpdate DEF ContextType, Enter
<1>5. /\ d.frames = gs /\ d.code = c.code /\ d.hasReturn = c.hasReturn /\ d.labels = c.labels
      /\ d.frameSize = c.frameSize /\ d.nodes = c.nodes /\ d.source = c.source
  BY <1>4 DEF Context
<1>6. ContextType(d)
  BY <1>3, <1>4, <1>5 DEF ContextType
<1>7. QED
  BY <1>2, <1>5, <1>6

BodyKinds == {"proc", "scope", "if", "then", "else", "while", "defer"}
FreshFrame(f, kind, l1, l2, size) ==
  /\ FrameType(f) /\ f.kind = kind /\ f.l1 = l1 /\ f.l2 = l2 /\ f.size = size
  /\ f.vars = {} /\ f.defers = <<>> /\ f.instrs = <<>>

LEMMA NewFrame ==
  ASSUME NEW kind \in BodyKinds, NEW n \in Nat, NEW l1 \in Nat, NEW l2 \in Nat, NEW size \in Nat
  PROVE  FreshFrame(Frame(kind, n, l1, l2, size), kind, l1, l2, size)
<1>1. PICK f : f = Frame(kind, n, l1, l2, size)
  OBVIOUS
<1>2. f = AFrame(kind, n, l1, l2, size, <<>>, <<>>, {}, <<>>, <<>>)
  BY <1>1 DEF Frame, AFrame
<1>3. /\ f.kind = kind /\ f.n = n /\ f.l1 = l1 /\ f.l2 = l2 /\ f.size = size /\ f.list = <<>>
      /\ f.then = <<>> /\ f.vars = {} /\ f.defers = <<>> /\ f.instrs = <<>>
  BY <1>2 DEF AFrame
<1>4. <<>> \in Seq(Instr) /\ <<>> \in Seq(Seq(Instr))
  BY EmptySeq
<1>5. FrameType(f)
  BY <1>2, <1>3, <1>4 DEF FrameType, BodyKinds
<1>6. QED
  BY <1>1, <1>3, <1>5 DEF FreshFrame

LEMMA ElseFrame ==
  ASSUME NEW f, NEW kind, NEW l1, NEW l2, NEW size, FreshFrame(f, kind, l1, l2, size), NEW list
  PROVE  FreshFrame([f EXCEPT !.then = list], kind, l1, l2, size)
<1>1. PICK g : g = [f EXCEPT !.then = list]
  OBVIOUS
<1>2. FrameType(f)
  BY DEF FreshFrame
<1>3. g = AFrame(f.kind, f.n, f.l1, f.l2, f.size, f.list, list, f.vars, f.defers, f.instrs)
  <2>1. f = AFrame(f.kind, f.n, f.l1, f.l2, f.size, f.list, f.then, f.vars, f.defers, f.instrs)
    BY <1>2 DEF FrameType
  <2>2. QED
    BY <1>1, <2>1, FrameUpdate
<1>4. /\ g.kind = f.kind /\ g.n = f.n /\ g.l1 = f.l1 /\ g.l2 = f.l2 /\ g.size = f.size
      /\ g.list = f.list /\ g.then = list
      /\ g.vars = f.vars /\ g.instrs = f.instrs /\ g.defers = f.defers
  BY <1>3 DEF AFrame
<1>5. FrameType(g)
  BY <1>2, <1>3, <1>4 DEF FrameType
<1>6. QED
  BY <1>1, <1>4, <1>5 DEF FreshFrame

(* Coming back from the body of a statement: the deferred statements of its  *)
(* scope are emitted, its slots are given back, and the labels it waits for  *)
(* are still to be emitted.                                                  *)
LEMMA ScopeGone ==
  ASSUME NEW c, NEW d, ContextType(c), Nested(c), LabelsPlaced(c, {}), c.frames # <<>>,
         Last(c.frames).kind \notin {"proc", "defer"},
         d = Below(c)
  PROVE  /\ LabelsPlaced(d, Awaited(Last(c.frames))) /\ Nested(d) /\ Innermost(d) = Innermost(c)
         /\ Last(c.frames).kind = "while" => Last(c.frames).l1 \in Labels(SinkAt(d, Innermost(d)))
         /\ \A k \in Sinks(c) : SinkAt(d, k) = SinkAt(c, k)
         /\ Len(d.frames) >= 1
<1> DEFINE n == Len(c.frames)
           top == c.frames[n]
<1>1. /\ ContextType(d) /\ n \in Nat /\ n > 0 /\ Len(d.frames) = n - 1
      /\ \A i \in 1..n-1 : d.frames[i] = c.frames[i]
      /\ d.code = c.code /\ d.labels = c.labels
  <2>1. /\ ContextType(d) /\ Len(c.frames) \in Nat \ {0} /\ Len(d.frames) = Len(c.frames) - 1
        /\ \A i \in 1..Len(c.frames)-1 : d.frames[i] = c.frames[i]
        /\ d.code = c.code /\ d.labels = c.labels
    BY FrameLeft, Zenon
  <2>2. QED
    BY <2>1
<1>2. top.kind \notin {"proc", "defer"} /\ Last(c.frames) = top
  BY DEF Last
<1>3. n >= 2
  BY <1>1, <1>2 DEF Nested
<1>4. Nested(d)
  BY <1>1 DEF Nested
<1> HIDE DEF n, top
<1>5. Sinks(d) = Sinks(c) /\ \A k \in Sinks(c) : k \in 0..n-1
  <2>1. \A k \in Sinks(c) : k \in 0..n-1
    BY <1>1, <1>2 DEF Sinks, n, top
  <2>2. Sinks(d) = {k \in 0..n-1 : k = 0 \/ c.frames[k].kind = "defer"}
    BY <1>1 DEF Sinks
  <2>3. Sinks(c) = {k \in 0..n-1 : k = 0 \/ c.frames[k].kind = "defer"}
    BY <1>1, <2>1 DEF Sinks, n
  <2>4. QED
    BY <2>1, <2>2, <2>3
<1>6. \A k \in Sinks(c) : SinkAt(d, k) = SinkAt(c, k)
  BY <1>1, <1>5 DEF SinkAt
<1>7. \A k \in Sinks(c) : \A i \in 0..n-1 : InSink(d, k, i) <=> InSink(c, k, i)
  BY <1>1, <1>5 DEF InSink
<1>8. \A k \in Sinks(c) : InSink(d, k, n-1) <=> InSink(c, k, n)
  <2>1. SUFFICES ASSUME NEW k \in Sinks(c) PROVE InSink(c, k, n-1) <=> InSink(c, k, n)
    BY <1>1, <1>7
  <2>2. k \in 0..n-1 /\ \A j \in k+1..n : j \in k+1..n-1 \/ j = n
    BY <1>1, <1>5
  <2>3. QED
    BY <1>1, <1>2, <2>2 DEF InSink, top
<1>9. Innermost(d) = Innermost(c)
  <2>1. Innermost(d) \in Sinks(c) /\ InSink(d, Innermost(d), n-1)
    BY <1>1, <1>5, InnermostSink
  <2>2. InSink(c, Innermost(d), n)
    BY <1>8, <2>1
  <2>3. QED
    BY <2>1, <2>2, InnermostSink DEF n
<1>10. top.kind = "while" => top.l1 \in Labels(SinkAt(d, Innermost(d)))
  <2>1. SUFFICES ASSUME top.kind = "while" PROVE top.l1 \in Labels(SinkAt(d, Innermost(d)))
    OBVIOUS
  <2>2. PICK k \in Sinks(c) : InSink(c, k, n) /\ top.l1 \in Labels(SinkAt(c, k))
    BY <1>1, <2>1 DEF LabelsPlaced, n, top
  <2>3. k = Innermost(c)
    BY <2>2, InnermostSink DEF n
  <2>4. QED
    BY <1>6, <1>9, <2>2, <2>3
<1>11. ASSUME NEW k \in Sinks(d)
       PROVE  /\ UniqueLabels(SinkAt(d, k))
              /\ Labels(SinkAt(d, k)) \subseteq 0..d.labels-1
              /\ Labels(SinkAt(d, k)) \cap Awaited(top) = {}
              /\ \A t \in Targets(SinkAt(d, k)) :
                   \/ t \in Labels(SinkAt(d, k))
                   \/ \E i \in 1..Len(d.frames) : InSink(d, k, i) /\ t \in Awaited(d.frames[i])
                   \/ InSink(d, k, Len(d.frames)) /\ t \in Awaited(top)
  <2>1. /\ UniqueLabels(SinkAt(c, k))
        /\ Labels(SinkAt(c, k)) \subseteq 0..c.labels-1
        /\ \A t \in Targets(SinkAt(c, k)) :
             \/ t \in Labels(SinkAt(c, k))
             \/ \E i \in 1..n : InSink(c, k, i) /\ t \in Awaited(c.frames[i])
    BY <1>5 DEF LabelsPlaced, n
  <2>2. Awaited(top) \cap Labels(SinkAt(c, k)) = {}
    BY <1>1, <1>5 DEF LabelsPlaced, n, top
  <2>3. SinkAt(d, k) = SinkAt(c, k)
    BY <1>5, <1>6
  <2>4. ASSUME NEW i \in 1..n, InSink(c, k, i)
        PROVE  \/ i \in 1..n-1 /\ InSink(d, k, i) /\ Awaited(d.frames[i]) = Awaited(c.frames[i])
               \/ c.frames[i] = top /\ InSink(d, k, n-1)
    <3>1. CASE i = n
      BY <1>5, <1>8, <2>4, <3>1 DEF top
    <3>2. CASE i # n
      <4>1. i \in 1..n-1
        BY <1>1, <3>2
      <4>2. QED
        BY <1>1, <1>5, <1>7, <2>4, <4>1
    <3>3. QED
      BY <3>1, <3>2
  <2>5. QED
    BY <1>1, <2>1, <2>2, <2>3, <2>4
<1>12. ASSUME NEW i \in 1..Len(d.frames)
       PROVE  /\ Awaited(d.frames[i]) \subseteq 0..d.labels-1
              /\ Awaited(d.frames[i]) \cap Awaited(top) = {}
              /\ \A k \in Sinks(d) : Awaited(d.frames[i]) \cap Labels(SinkAt(d, k)) = {}
              /\ \A j \in 1..Len(d.frames) : j # i => Awaited(d.frames[i]) \cap Awaited(d.frames[j]) = {}
              /\ \A b \in DOMAIN d.frames[i].defers : Closed(d.frames[i].defers[b])
              /\ d.frames[i].kind = "while" =>
                   \E k \in Sinks(d) : InSink(d, k, i) /\ d.frames[i].l1 \in Labels(SinkAt(d, k))
              /\ d.frames[i].kind = "then" => d.frames[i].l1 # d.frames[i].l2
  <2>1. i \in 1..n /\ i # n /\ i \in 0..n-1 /\ d.frames[i] = c.frames[i] /\ n \in 1..n
    BY <1>1
  <2>2. /\ Awaited(c.frames[i]) \subseteq 0..c.labels-1
        /\ \A k \in Sinks(c) : Awaited(c.frames[i]) \cap Labels(SinkAt(c, k)) = {}
        /\ \A j \in 1..n : j # i => Awaited(c.frames[i]) \cap Awaited(c.frames[j]) = {}
        /\ \A b \in DOMAIN c.frames[i].defers : Closed(c.frames[i].defers[b])
        /\ c.frames[i].kind = "while" =>
             \E k \in Sinks(c) : InSink(c, k, i) /\ c.frames[i].l1 \in Labels(SinkAt(c, k))
        /\ c.frames[i].kind = "then" => c.frames[i].l1 # c.frames[i].l2
    BY <2>1 DEF LabelsPlaced, n
  <2>3. Awaited(c.frames[i]) \cap Awaited(top) = {}
    BY <2>1, <2>2 DEF top
  <2>4. \A j \in 1..Len(d.frames) : j \in 1..n /\ d.frames[j] = c.frames[j]
    BY <1>1
  <2>5. QED
    BY <1>1, <1>5, <1>6, <1>7, <2>1, <2>2, <2>3, <2>4
<1>13. Awaited(top) \subseteq 0..d.labels-1
  BY <1>1 DEF LabelsPlaced, n, top
<1>14. LabelsPlaced(d, Awaited(top))
  BY <1>11, <1>12, <1>13 DEF LabelsPlaced
<1>15. QED
  BY <1>1, <1>2, <1>3, <1>4, <1>6, <1>9, <1>10, <1>14

(* Labels are where they were when a frame keeps its kind, its labels and    *)
(* its code, and what it defers is closed code.                              *)
LEMMA SameLabels ==
  ASSUME NEW c, NEW b, NEW e, ContextType(c), ContextType(b), LabelsPlaced(c, e),
         Len(b.frames) = Len(c.frames), b.code = c.code, b.labels = c.labels,
         \A i \in 1..Len(c.frames) :
           /\ b.frames[i].kind = c.frames[i].kind /\ b.frames[i].instrs = c.frames[i].instrs
           /\ b.frames[i].l1 = c.frames[i].l1 /\ b.frames[i].l2 = c.frames[i].l2
           /\ \A x \in DOMAIN b.frames[i].defers : Closed(b.frames[i].defers[x])
  PROVE  LabelsPlaced(b, e)
<1>1. PICK n \in Nat : n = Len(c.frames)
  BY SeqParts DEF ContextType, FramesType
<1>2. Len(b.frames) = n
  BY <1>1
<1>3. ASSUME NEW i \in 1..n
      PROVE  /\ b.frames[i].kind = c.frames[i].kind /\ b.frames[i].instrs = c.frames[i].instrs
             /\ b.frames[i].l1 = c.frames[i].l1 /\ b.frames[i].l2 = c.frames[i].l2
             /\ Awaited(b.frames[i]) = Awaited(c.frames[i])
             /\ \A x \in DOMAIN b.frames[i].defers : Closed(b.frames[i].defers[x])
  BY <1>1 DEF Awaited
<1>4. /\ Sinks(b) = Sinks(c)
      /\ \A k \in Sinks(c) : \A i \in 1..n : InSink(b, k, i) <=> InSink(c, k, i)
      /\ \A k \in Sinks(c) : InSink(b, k, n) <=> InSink(c, k, n)
  <2>1. /\ Sinks(b) = Sinks(c) /\ Innermost(b) = Innermost(c)
        /\ \A k \in Sinks(c) : \A i \in 1..n : InSink(b, k, i) <=> InSink(c, k, i)
    BY <1>1, SameSinks
  <2>2. \A k \in Sinks(c) : InSink(b, k, n) <=> InSink(c, k, n)
    BY <1>1, <1>2, <2>1, InnermostSink
  <2>3. QED
    BY <2>1, <2>2
<1>5. \A k \in Sinks(c) : SinkAt(b, k) = SinkAt(c, k)
  <2>1. \A k \in Sinks(c) : k # 0 => k \in 1..n
    BY <1>1 DEF Sinks
  <2>2. QED
    BY <1>3, <2>1 DEF SinkAt
<1>6. ASSUME NEW k \in Sinks(b)
      PROVE  /\ UniqueLabels(SinkAt(b, k)) /\ Labels(SinkAt(b, k)) \subseteq 0..b.labels-1
             /\ Labels(SinkAt(b, k)) \cap e = {}
             /\ \A t \in Targets(SinkAt(b, k)) :
                  \/ t \in Labels(SinkAt(b, k))
                  \/ \E i \in 1..Len(b.frames) : InSink(b, k, i) /\ t \in Awaited(b.frames[i])
                  \/ InSink(b, k, Len(b.frames)) /\ t \in e
  <2>1. /\ UniqueLabels(SinkAt(c, k)) /\ Labels(SinkAt(c, k)) \subseteq 0..c.labels-1
        /\ Labels(SinkAt(c, k)) \cap e = {}
        /\ \A t \in Targets(SinkAt(c, k)) :
             \/ t \in Labels(SinkAt(c, k))
             \/ \E i \in 1..n : InSink(c, k, i) /\ t \in Awaited(c.frames[i])
             \/ InSink(c, k, n) /\ t \in e
    BY <1>1, <1>4 DEF LabelsPlaced
  <2>2. QED
    BY <1>2, <1>3, <1>4, <1>5, <2>1
<1>7. ASSUME NEW i \in 1..Len(b.frames)
      PROVE  /\ Awaited(b.frames[i]) \subseteq 0..b.labels-1 /\ Awaited(b.frames[i]) \cap e = {}
             /\ \A k \in Sinks(b) : Awaited(b.frames[i]) \cap Labels(SinkAt(b, k)) = {}
             /\ \A j \in 1..Len(b.frames) : j # i => Awaited(b.frames[i]) \cap Awaited(b.frames[j]) = {}
             /\ \A x \in DOMAIN b.frames[i].defers : Closed(b.frames[i].defers[x])
             /\ b.frames[i].kind = "while" =>
                  \E k \in Sinks(b) : InSink(b, k, i) /\ b.frames[i].l1 \in Labels(SinkAt(b, k))
             /\ b.frames[i].kind = "then" => b.frames[i].l1 # b.frames[i].l2
  <2>1. /\ Awaited(c.frames[i]) \subseteq 0..c.labels-1 /\ Awaited(c.frames[i]) \cap e = {}
        /\ \A k \in Sinks(c) : Awaited(c.frames[i]) \cap Labels(SinkAt(c, k)) = {}
        /\ \A j \in 1..n : j # i => Awaited(c.frames[i]) \cap Awaited(c.frames[j]) = {}
        /\ c.frames[i].kind = "while" =>
             \E k \in Sinks(c) : InSink(c, k, i) /\ c.frames[i].l1 \in Labels(SinkAt(c, k))
        /\ c.frames[i].kind = "then" => c.frames[i].l1 # c.frames[i].l2
    BY <1>1, <1>2 DEF LabelsPlaced
  <2>2. QED
    BY <1>2, <1>3, <1>4, <1>5, <2>1
<1>8. e \subseteq 0..b.labels-1
  BY DEF LabelsPlaced
<1>9. QED
  BY <1>6, <1>7, <1>8 DEF LabelsPlaced

(* The size of the frame says nothing about labels.                          *)
LEMMA SizeSet ==
  ASSUME NEW c, NEW e, ContextType(c), LabelsPlaced(c, e), NEW size \in Nat,
         NEW b, b = [c EXCEPT !.frameSize = size]
  PROVE  /\ ContextType(b) /\ b.frames = c.frames /\ b.code = c.code /\ b.hasReturn = c.hasReturn
         /\ b.labels = c.labels /\ b.frameSize = size /\ b.nodes = c.nodes
         /\ LabelsPlaced(b, e)
<1>1. /\ ContextType(b) /\ b.frames = c.frames /\ b.code = c.code /\ b.hasReturn = c.hasReturn
      /\ b.labels = c.labels /\ b.frameSize = size /\ b.nodes = c.nodes
  <2>1. b = Context(c.frames, c.code, c.hasReturn, c.labels, size, c.nodes, c.source)
    BY ContextUpdate DEF ContextType
  <2>2. /\ b.frames = c.frames /\ b.code = c.code /\ b.hasReturn = c.hasReturn
        /\ b.labels = c.labels /\ b.frameSize = size /\ b.nodes = c.nodes /\ b.source = c.source
    BY <2>1 DEF Context
  <2>3. QED
    BY <2>1, <2>2 DEF ContextType
<1>2. \A i \in 1..Len(c.frames) : \A x \in DOMAIN c.frames[i].defers : Closed(c.frames[i].defers[x])
  BY DEF LabelsPlaced
<1>3. QED
  BY <1>1, <1>2, SameLabels

LEMMA LeaveSound ==
  ASSUME NEW c, Sound(c, {}), c.frames # <<>>, Top(c).kind \notin {"proc", "defer"}
  PROVE  /\ Sound(Leave(c), Awaited(Top(c)))
         /\ Len(Leave(c).frames) \in Nat /\ Len(Leave(c).frames) >= 1
         /\ Top(c).kind = "while" => Findable(Leave(c), {}, Top(c).l1)
<1> DEFINE n == Len(c.frames)
           top == c.frames[n]
<1>1. ContextType(c) /\ Nested(c) /\ SlotsStacked(c) /\ LabelsPlaced(c, {}) /\ Top(c) = top
  BY DEF Sound, Top, Last
<1>2. n \in Nat /\ n # 0 /\ FrameType(top) /\ n - 1 \in 0..n
  BY <1>1, FrameLeft DEF ContextType, FramesType
<1>3. PICK b : b = [c EXCEPT !.frameSize = top.size]
  OBVIOUS
<1>4. /\ ContextType(b) /\ b.frames = c.frames /\ b.code = c.code /\ b.hasReturn = c.hasReturn
      /\ b.labels = c.labels /\ b.frameSize = top.size /\ b.nodes = c.nodes
      /\ LabelsPlaced(b, {})
  <2>1. top.size \in Nat
    BY <1>2 DEF FrameType
  <2>2. QED
    BY <1>1, <1>3, <2>1, SizeSet
<1>6. PICK out : out = EmitDefers(b, n - 1)
  OBVIOUS
<1>7. Carried(b, out, {}) /\ (b.hasReturn => out = b)
  BY <1>2, <1>4, <1>6, DefersCarried
<1>8. PICK d : d = Below(out)
  OBVIOUS
<1>9. Leave(c) = d
  BY <1>1, <1>3, <1>4, <1>6, <1>8 DEF Leave, Below
<1> HIDE DEF n, top
<1>10. /\ ContextType(out) /\ Len(out.frames) = n /\ out.frameSize = top.size
       /\ out.hasReturn = c.hasReturn /\ LabelsPlaced(out, {})
       /\ \A i \in 1..n : SameFrame(c.frames[i], out.frames[i])
  BY <1>4, <1>7 DEF Carried, SameFrames, n
<1>11. Nested(out) /\ out.frames # <<>>
  <2>1. Nested(out)
    BY <1>1, <1>10 DEF Nested, SameFrame, n
  <2>2. Len(<<>>) = 0
    OBVIOUS
  <2>3. out.frames # <<>>
    BY <1>2, <1>10, <2>2
  <2>4. QED
    BY <2>1, <2>3
<1>12. SameFrame(top, Last(out.frames)) /\ Awaited(Last(out.frames)) = Awaited(top)
       /\ Last(out.frames).kind = top.kind /\ Last(out.frames).l1 = top.l1
  <2>1. Last(out.frames) = out.frames[n]
    BY <1>10 DEF Last
  <2>2. n \in 1..n
    BY <1>2
  <2>3. SameFrame(top, out.frames[n])
    BY <1>10, <2>2 DEF top, n
  <2>4. \A f, g : SameFrame(f, g) => Awaited(g) = Awaited(f) /\ g.kind = f.kind /\ g.l1 = f.l1
    BY DEF SameFrame, Awaited
  <2>5. QED
    BY <2>1, <2>3, <2>4, Zenon
<1>13. /\ LabelsPlaced(d, Awaited(top)) /\ Nested(d) /\ Innermost(d) = Innermost(out)
       /\ top.kind = "while" => top.l1 \in Labels(SinkAt(d, Innermost(d)))
       /\ Len(d.frames) >= 1
  <2>1. Last(out.frames).kind \notin {"proc", "defer"}
    BY <1>1, <1>12
  <2>2. /\ LabelsPlaced(d, Awaited(Last(out.frames))) /\ Nested(d) /\ Innermost(d) = Innermost(out)
        /\ Last(out.frames).kind = "while" => Last(out.frames).l1 \in Labels(SinkAt(d, Innermost(d)))
        /\ Len(d.frames) >= 1
    BY <1>8, <1>10, <1>11, <2>1, ScopeGone, Zenon
  <2>3. QED
    BY <1>12, <2>2, Zenon
<1>14. /\ ContextType(d) /\ Len(d.frames) = n - 1
       /\ \A i \in 1..n-1 : d.frames[i] = out.frames[i]
       /\ d.code = out.code /\ d.hasReturn = out.hasReturn /\ d.frameSize = top.size
  <2>1. /\ ContextType(d) /\ Len(d.frames) = Len(out.frames) - 1
        /\ \A i \in 1..Len(out.frames)-1 : d.frames[i] = out.frames[i]
        /\ d.code = out.code /\ d.hasReturn = out.hasReturn /\ d.frameSize = out.frameSize
    <3>1. ContextType(out) /\ out.frames # <<>> /\ d = Below(out)
      BY <1>8, <1>10, <1>11
    <3>2. QED
      BY <3>1, FrameLeft
  <2>2. QED
    BY <1>10, <2>1
<1>15. SlotsStacked(d)
  <2>1. \A i \in 1..n-1 : d.frames[i].size = c.frames[i].size /\ d.frames[i].vars = c.frames[i].vars
    BY <1>2, <1>10, <1>14 DEF SameFrame
  <2>2. \A i \in 1..n-1 : /\ c.frames[i].size <= top.size
                          /\ \A v \in c.frames[i].vars : c.frames[i].size < v[2] /\ v[2] <= top.size
                          /\ \A v, w \in c.frames[i].vars : v[2] = w[2] => v = w
    <3>1. \A i \in 1..n-1 : i \in 1..n /\ n \in 1..n /\ i < n
      BY <1>2
    <3>2. QED
      BY <1>1, <3>1 DEF SlotsStacked, n, top
  <2>3. \A i, j \in 1..n-1 :
          i < j => /\ c.frames[i].size <= c.frames[j].size
                   /\ \A v \in c.frames[i].vars : v[2] <= c.frames[j].size
    <3>1. \A i \in 1..n-1 : i \in 1..n
      BY <1>2
    <3>2. QED
      BY <1>1, <3>1 DEF SlotsStacked, n
  <2>4. QED
    BY <1>14, <2>1, <2>2, <2>3 DEF SlotsStacked
<1>16. ~ReturnInDefer => FlagMeansReturned(d)
  <2>1. d.hasReturn => d.code = c.code /\ c.hasReturn
    BY <1>4, <1>7, <1>10, <1>14
  <2>2. QED
    BY <2>1 DEF Sound, FlagMeansReturned
<1>17. Sound(d, Awaited(top))
  BY <1>13, <1>14, <1>15, <1>16 DEF Sound
<1>18. QED
  BY <1>1, <1>2, <1>9, <1>13, <1>14, <1>17 DEF Findable

(* The scope of a new frame lies above those of the others.                  *)
LEMMA EnteredStacked ==
  ASSUME NEW c, NEW d, ContextType(c), Nested(c), SlotsStacked(c), NEW n \in Nat, n = Len(c.frames),
         n >= 1, Len(d.frames) = n + 1, \A i \in 1..n : d.frames[i] = c.frames[i],
         d.frameSize = c.frameSize, FrameType(d.frames[n + 1]),
         d.frames[n + 1].kind # "proc", d.frames[n + 1].size = c.frameSize, d.frames[n + 1].vars = {}
  PROVE  Nested(d) /\ SlotsStacked(d)
<1>1. Nested(d)
  BY DEF Nested
<1>2. SlotsStacked(d)
  <2>1. d.frames[n + 1].size \in Nat /\ c.frameSize \in Nat
    BY DEF ContextType, FrameType
  <2>2. \A i \in 1..n : /\ c.frames[i].size <= c.frameSize
                        /\ \A v \in c.frames[i].vars : c.frames[i].size < v[2] /\ v[2] <= c.frameSize
                        /\ \A v, w \in c.frames[i].vars : v[2] = w[2] => v = w
    BY DEF SlotsStacked
  <2>3. \A i, j \in 1..n :
          i < j => /\ c.frames[i].size <= c.frames[j].size
                   /\ \A v \in c.frames[i].vars : v[2] <= c.frames[j].size
    BY DEF SlotsStacked
  <2>4. \A i \in 1..n+1 : i \in 1..n \/ i = n+1
    OBVIOUS
  <2>5. ASSUME NEW i \in 1..n+1
        PROVE  /\ d.frames[i].size <= d.frameSize
               /\ \A v \in d.frames[i].vars : d.frames[i].size < v[2] /\ v[2] <= d.frameSize
               /\ \A v, w \in d.frames[i].vars : v[2] = w[2] => v = w
    BY <2>1, <2>2, <2>4
  <2>6. ASSUME NEW i \in 1..n+1, NEW j \in 1..n+1, i < j
        PROVE  /\ d.frames[i].size <= d.frames[j].size
               /\ \A v \in d.frames[i].vars : v[2] <= d.frames[j].size
    <3>1. i \in 1..n
      BY <2>6
    <3>2. QED
      BY <2>2, <2>3, <2>4, <2>6, <3>1
  <2>7. QED
    BY <2>5, <2>6 DEF SlotsStacked
<1>3. QED
  BY <1>1, <1>2

(* A statement with a body: its frame waits for labels the sink waited for.  *)
LEMMA EnterSound ==
  ASSUME NEW c, NEW e, Sound(c, e), Len(c.frames) >= 1, NEW f, FrameType(f),
         f.kind \in {"scope", "if", "then", "else", "while"}, f.size = c.frameSize,
         f.vars = {}, f.defers = <<>>, Awaited(f) \subseteq e,
         f.kind = "while" => f.l1 \in Labels(SinkAt(c, Innermost(c))),
         f.kind = "then" => f.l1 # f.l2
  PROVE  Sound(Enter(c, f), e \ Awaited(f)) /\ Len(Enter(c, f).frames) >= 1
<1>1. PICK d : d = Enter(c, f)
  OBVIOUS
<1>2. ContextType(c) /\ Nested(c) /\ SlotsStacked(c) /\ LabelsPlaced(c, e)
  BY DEF Sound
<1>3. PICK n \in Nat : n = Len(c.frames)
  BY <1>2, SeqParts DEF ContextType, FramesType
<1>4. /\ ContextType(d) /\ Len(d.frames) = n + 1
      /\ \A i \in 1..n : d.frames[i] = c.frames[i]
      /\ d.frames[n + 1] = f
      /\ d.code = c.code /\ d.hasReturn = c.hasReturn /\ d.labels = c.labels
      /\ d.frameSize = c.frameSize
  <2>1. /\ ContextType(d) /\ Len(d.frames) = Len(c.frames) + 1
        /\ \A i \in 1..Len(c.frames) : d.frames[i] = c.frames[i]
        /\ d.frames[Len(c.frames) + 1] = f
        /\ d.code = c.code /\ d.hasReturn = c.hasReturn /\ d.labels = c.labels
        /\ d.frameSize = c.frameSize
    BY <1>1, <1>2, FrameEntered
  <2>2. QED
    BY <1>3, <2>1
<1>5. Nested(d)
  BY <1>2, <1>3, <1>4, EnteredStacked
<1>6. SlotsStacked(d)
  BY <1>2, <1>3, <1>4, EnteredStacked
<1>7. Sinks(d) = Sinks(c) /\ \A k \in Sinks(c) : k \in 0..n /\ SinkAt(d, k) = SinkAt(c, k)
  <2>1. Sinks(c) = {k \in 0..n : k = 0 \/ c.frames[k].kind = "defer"}
    BY <1>3 DEF Sinks
  <2>2. \A k \in 0..n+1 : k \in 0..n \/ k = n+1
    BY <1>3
  <2>3. Sinks(d) = {k \in 0..n : k = 0 \/ c.frames[k].kind = "defer"}
    BY <1>3, <1>4, <2>2 DEF Sinks
  <2>4. QED
    BY <1>3, <1>4, <2>1, <2>3 DEF SinkAt
<1>8. \A k \in Sinks(c) : \A i \in 0..n : InSink(d, k, i) <=> InSink(c, k, i)
  <2>1. ASSUME NEW k \in Sinks(c), NEW i \in 0..n, NEW j \in k+1..i
        PROVE  d.frames[j].kind = c.frames[j].kind
    <3>1. j \in 1..n
      BY <1>3, <1>7
    <3>2. QED
      BY <1>4, <3>1
  <2>2. QED
    BY <2>1 DEF InSink
<1>9. ASSUME NEW k \in Sinks(c)
      PROVE  InSink(d, k, n+1) <=> InSink(c, k, n)
  <2>1. k \in 0..n /\ \A j \in k+1..n+1 : (j \in k+1..n /\ j \in 1..n) \/ j = n+1
    BY <1>3, <1>7
  <2>2. k <= n /\ k <= n+1 /\ \A j \in k+1..n : j \in k+1..n+1
    BY <1>3, <1>7
  <2>3. d.frames[n+1].kind # "defer" /\ \A j \in 1..n : d.frames[j].kind = c.frames[j].kind
    BY <1>4
  <2>4. QED
    BY <2>1, <2>2, <2>3 DEF InSink
<1>10. \A k \in Sinks(c) : InSink(c, k, n) <=> k = Innermost(c)
  BY <1>2, <1>3, InnermostSink
<1>11. \A i \in 1..n+1 : i \in 1..n \/ i = n+1
  BY <1>3
<1>12. e \subseteq 0..c.labels-1
  BY <1>2 DEF LabelsPlaced
<1>13. ASSUME NEW k \in Sinks(d)
       PROVE  /\ UniqueLabels(SinkAt(d, k))
              /\ Labels(SinkAt(d, k)) \subseteq 0..d.labels-1
              /\ Labels(SinkAt(d, k)) \cap (e \ Awaited(f)) = {}
              /\ \A t \in Targets(SinkAt(d, k)) :
                   \/ t \in Labels(SinkAt(d, k))
                   \/ \E i \in 1..Len(d.frames) : InSink(d, k, i) /\ t \in Awaited(d.frames[i])
                   \/ InSink(d, k, Len(d.frames)) /\ t \in e \ Awaited(f)
  <2>1. /\ UniqueLabels(SinkAt(c, k))
        /\ Labels(SinkAt(c, k)) \subseteq 0..c.labels-1
        /\ Labels(SinkAt(c, k)) \cap e = {}
        /\ \A t \in Targets(SinkAt(c, k)) :
             \/ t \in Labels(SinkAt(c, k))
             \/ \E i \in 1..n : InSink(c, k, i) /\ t \in Awaited(c.frames[i])
             \/ InSink(c, k, n) /\ t \in e
    BY <1>2, <1>3, <1>7 DEF LabelsPlaced
  <2>2. SinkAt(d, k) = SinkAt(c, k)
    BY <1>7
  <2>3. \A i \in 1..n : InSink(c, k, i) => InSink(d, k, i) /\ i \in 1..n+1 /\ d.frames[i] = c.frames[i]
    BY <1>3, <1>4, <1>7, <1>8
  <2>4. InSink(c, k, n) => InSink(d, k, n+1) /\ n+1 \in 1..n+1 /\ d.frames[n+1] = f
    BY <1>3, <1>4, <1>7, <1>9
  <2>5. QED
    BY <1>4, <2>1, <2>2, <2>3, <2>4
<1>14. ASSUME NEW i \in 1..n
       PROVE  /\ d.frames[i] = c.frames[i]
              /\ Awaited(c.frames[i]) \subseteq 0..c.labels-1
              /\ Awaited(c.frames[i]) \cap e = {}
              /\ \A k \in Sinks(c) : Awaited(c.frames[i]) \cap Labels(SinkAt(c, k)) = {}
              /\ \A j \in 1..n : j # i => Awaited(c.frames[i]) \cap Awaited(c.frames[j]) = {}
              /\ \A b \in DOMAIN c.frames[i].defers : Closed(c.frames[i].defers[b])
              /\ c.frames[i].kind = "while" =>
                   \E k \in Sinks(c) : InSink(d, k, i) /\ c.frames[i].l1 \in Labels(SinkAt(c, k))
              /\ c.frames[i].kind = "then" => c.frames[i].l1 # c.frames[i].l2
  <2>1. /\ Awaited(c.frames[i]) \subseteq 0..c.labels-1
        /\ Awaited(c.frames[i]) \cap e = {}
        /\ \A k \in Sinks(c) : Awaited(c.frames[i]) \cap Labels(SinkAt(c, k)) = {}
        /\ \A j \in 1..n : j # i => Awaited(c.frames[i]) \cap Awaited(c.frames[j]) = {}
        /\ \A b \in DOMAIN c.frames[i].defers : Closed(c.frames[i].defers[b])
        /\ c.frames[i].kind = "while" =>
             \E k \in Sinks(c) : InSink(c, k, i) /\ c.frames[i].l1 \in Labels(SinkAt(c, k))
        /\ c.frames[i].kind = "then" => c.frames[i].l1 # c.frames[i].l2
    BY <1>2, <1>3 DEF LabelsPlaced
  <2>2. i \in 0..n
    BY <1>3
  <2>3. QED
    BY <1>4, <1>8, <2>1, <2>2
<1>15. ASSUME NEW i \in 1..Len(d.frames)
       PROVE  /\ Awaited(d.frames[i]) \subseteq 0..d.labels-1
              /\ Awaited(d.frames[i]) \cap (e \ Awaited(f)) = {}
              /\ \A k \in Sinks(d) : Awaited(d.frames[i]) \cap Labels(SinkAt(d, k)) = {}
              /\ \A j \in 1..Len(d.frames) : j # i => Awaited(d.frames[i]) \cap Awaited(d.frames[j]) = {}
              /\ \A b \in DOMAIN d.frames[i].defers : Closed(d.frames[i].defers[b])
              /\ d.frames[i].kind = "while" =>
                   \E k \in Sinks(d) : InSink(d, k, i) /\ d.frames[i].l1 \in Labels(SinkAt(d, k))
              /\ d.frames[i].kind = "then" => d.frames[i].l1 # d.frames[i].l2
  <2>1. CASE i = n+1
    <3>1. \A k \in Sinks(c) : Labels(SinkAt(c, k)) \cap e = {}
      BY <1>2 DEF LabelsPlaced
    <3>2. \A j \in 1..n+1 : j # i => Awaited(f) \cap Awaited(d.frames[j]) = {}
      BY <1>11, <1>14, <2>1
    <3>3. f.kind = "while" => \E k \in Sinks(d) : InSink(d, k, i) /\ f.l1 \in Labels(SinkAt(d, k))
      <4>1. Innermost(c) \in Sinks(c)
        BY <1>2, InnermostSink
      <4>2. QED
        BY <1>7, <1>9, <1>10, <2>1, <4>1
    <3>4. \A b \in DOMAIN f.defers : Closed(f.defers[b])
      OBVIOUS
    <3>5. QED
      BY <1>4, <1>7, <1>12, <2>1, <3>1, <3>2, <3>3, <3>4
  <2>2. CASE i # n+1
    <3>1. i \in 1..n
      BY <1>4, <1>11, <2>2
    <3>2. \A j \in 1..n+1 : j # i => Awaited(d.frames[i]) \cap Awaited(d.frames[j]) = {}
      BY <1>4, <1>11, <1>14, <3>1
    <3>3. d.frames[i] = c.frames[i] /\ d.labels = c.labels
      BY <1>4, <1>14, <3>1
    <3>4. \A k \in Sinks(c) : k \in Sinks(d) /\ SinkAt(d, k) = SinkAt(c, k)
      BY <1>7
    <3>5. c.frames[i].kind = "while" =>
            \E k \in Sinks(d) : InSink(d, k, i) /\ c.frames[i].l1 \in Labels(SinkAt(d, k))
      BY <1>14, <3>1, <3>4
    <3>6. /\ Awaited(c.frames[i]) \subseteq 0..c.labels-1
          /\ Awaited(c.frames[i]) \cap e = {}
          /\ \A b \in DOMAIN c.frames[i].defers : Closed(c.frames[i].defers[b])
          /\ c.frames[i].kind = "then" => c.frames[i].l1 # c.frames[i].l2
      BY <1>14, <3>1
    <3>7. QED
      BY <1>4, <1>7, <1>14, <3>1, <3>2, <3>3, <3>5, <3>6
  <2>3. QED
    BY <2>1, <2>2
<1>16. LabelsPlaced(d, e \ Awaited(f))
  <2>1. e \ Awaited(f) \subseteq 0..d.labels-1
    BY <1>4, <1>12
  <2>2. QED
    BY <1>13, <1>15, <2>1 DEF LabelsPlaced
<1>17. ~ReturnInDefer => FlagMeansReturned(d)
  BY <1>4 DEF Sound, FlagMeansReturned
<1>18. QED
  BY <1>1, <1>3, <1>4, <1>5, <1>6, <1>16, <1>17 DEF Sound

(* A deferred statement: code is recorded in a sink of its own.              *)
LEMMA DeferEntered ==
  ASSUME NEW c, Sound(c, {}), Len(c.frames) >= 1, NEW f, FrameType(f),
         f.kind = "defer", f.size = c.frameSize, f.vars = {}, f.defers = <<>>, f.instrs = <<>>
  PROVE  Sound(Enter(c, f), {}) /\ Len(Enter(c, f).frames) >= 1
<1>1. PICK d : d = Enter(c, f)
  OBVIOUS
<1>2. ContextType(c) /\ Nested(c) /\ SlotsStacked(c) /\ LabelsPlaced(c, {})
  BY DEF Sound
<1>3. PICK n \in Nat : n = Len(c.frames)
  BY <1>2, SeqParts DEF ContextType, FramesType
<1>4. /\ ContextType(d) /\ Len(d.frames) = n + 1
      /\ \A i \in 1..n : d.frames[i] = c.frames[i]
      /\ d.frames[n + 1] = f
      /\ d.code = c.code /\ d.hasReturn = c.hasReturn /\ d.labels = c.labels
      /\ d.frameSize = c.frameSize
  <2>1. /\ ContextType(d) /\ Len(d.frames) = Len(c.frames) + 1
        /\ \A i \in 1..Len(c.frames) : d.frames[i] = c.frames[i]
        /\ d.frames[Len(c.frames) + 1] = f
        /\ d.code = c.code /\ d.hasReturn = c.hasReturn /\ d.labels = c.labels
        /\ d.frameSize = c.frameSize
    BY <1>1, <1>2, FrameEntered
  <2>2. QED
    BY <1>3, <2>1
<1>5. Nested(d) /\ SlotsStacked(d)
  BY <1>2, <1>3, <1>4, EnteredStacked
<1>6. Awaited(f) = {}
  BY DEF Awaited
<1>7. \A i \in 1..n+1 : i \in 1..n \/ i = n+1
  BY <1>3
<1>8. /\ Sinks(d) = Sinks(c) \cup {n+1}
      /\ \A k \in Sinks(c) : k \in 0..n /\ SinkAt(d, k) = SinkAt(c, k)
      /\ SinkAt(d, n+1) = <<>>
  <2>1. \A k \in 0..n+1 : k \in 0..n \/ k = n+1
    BY <1>3
  <2>2. Sinks(c) = {k \in 0..n : k = 0 \/ c.frames[k].kind = "defer"}
    BY <1>3 DEF Sinks
  <2>3. \A k \in 0..n : k = 0 \/ k \in 1..n
    BY <1>3
  <2>4. Sinks(d) = {k \in 0..n : k = 0 \/ c.frames[k].kind = "defer"} \cup {n+1}
    BY <1>3, <1>4, <2>1, <2>3 DEF Sinks
  <2>5. QED
    BY <1>3, <1>4, <2>2, <2>3, <2>4 DEF SinkAt
<1>9. \A k \in Sinks(c) : \A i \in 0..n : InSink(d, k, i) <=> InSink(c, k, i)
  <2>1. ASSUME NEW k \in Sinks(c), NEW i \in 0..n, NEW j \in k+1..i
        PROVE  d.frames[j].kind = c.frames[j].kind
    <3>1. j \in 1..n
      BY <1>3, <1>8
    <3>2. QED
      BY <1>4, <3>1
  <2>2. QED
    BY <2>1 DEF InSink
<1>10. UniqueLabels(<<>>) /\ Labels(<<>>) = {} /\ Targets(<<>>) = {}
  BY DEF UniqueLabels, Labels, Targets
<1>11. ASSUME NEW k \in Sinks(d)
       PROVE  /\ UniqueLabels(SinkAt(d, k))
              /\ Labels(SinkAt(d, k)) \subseteq 0..d.labels-1
              /\ Labels(SinkAt(d, k)) \cap {} = {}
              /\ \A t \in Targets(SinkAt(d, k)) :
                   \/ t \in Labels(SinkAt(d, k))
                   \/ \E i \in 1..Len(d.frames) : InSink(d, k, i) /\ t \in Awaited(d.frames[i])
                   \/ InSink(d, k, Len(d.frames)) /\ t \in {}
  <2>1. CASE k = n+1
    BY <1>8, <1>10, <2>1
  <2>2. CASE k \in Sinks(c)
    <3>1. /\ UniqueLabels(SinkAt(c, k))
          /\ Labels(SinkAt(c, k)) \subseteq 0..c.labels-1
          /\ \A t \in Targets(SinkAt(c, k)) :
               \/ t \in Labels(SinkAt(c, k))
               \/ \E i \in 1..n : InSink(c, k, i) /\ t \in Awaited(c.frames[i])
      BY <1>2, <1>3, <2>2 DEF LabelsPlaced
    <3>2. \A i \in 1..n : i \in 0..n /\ i \in 1..n+1
      BY <1>3
    <3>3. QED
      BY <1>4, <1>8, <1>9, <2>2, <3>1, <3>2
  <2>3. QED
    BY <1>8, <2>1, <2>2
<1>12. ASSUME NEW i \in 1..Len(d.frames)
       PROVE  /\ Awaited(d.frames[i]) \subseteq 0..d.labels-1
              /\ Awaited(d.frames[i]) \cap {} = {}
              /\ \A k \in Sinks(d) : Awaited(d.frames[i]) \cap Labels(SinkAt(d, k)) = {}
              /\ \A j \in 1..Len(d.frames) : j # i => Awaited(d.frames[i]) \cap Awaited(d.frames[j]) = {}
              /\ \A b \in DOMAIN d.frames[i].defers : Closed(d.frames[i].defers[b])
              /\ d.frames[i].kind = "while" =>
                   \E k \in Sinks(d) : InSink(d, k, i) /\ d.frames[i].l1 \in Labels(SinkAt(d, k))
              /\ d.frames[i].kind = "then" => d.frames[i].l1 # d.frames[i].l2
  <2>1. CASE i = n+1
    BY <1>4, <1>6, <2>1
  <2>2. CASE i # n+1
    <3>1. i \in 1..n /\ i \in 0..n
      BY <1>3, <1>4, <1>7, <2>2
    <3>2. /\ Awaited(c.frames[i]) \subseteq 0..c.labels-1
          /\ \A k \in Sinks(c) : Awaited(c.frames[i]) \cap Labels(SinkAt(c, k)) = {}
          /\ \A j \in 1..n : j # i => Awaited(c.frames[i]) \cap Awaited(c.frames[j]) = {}
          /\ \A b \in DOMAIN c.frames[i].defers : Closed(c.frames[i].defers[b])
          /\ c.frames[i].kind = "while" =>
               \E k \in Sinks(c) : InSink(c, k, i) /\ c.frames[i].l1 \in Labels(SinkAt(c, k))
          /\ c.frames[i].kind = "then" => c.frames[i].l1 # c.frames[i].l2
      BY <1>2, <1>3, <3>1 DEF LabelsPlaced
    <3>3. d.frames[i] = c.frames[i]
      BY <1>4, <3>1
    <3>4. \A j \in 1..Len(d.frames) : j # i => Awaited(d.frames[i]) \cap Awaited(d.frames[j]) = {}
      BY <1>4, <1>6, <1>7, <3>2, <3>3
    <3>5. \A k \in Sinks(d) : Awaited(d.frames[i]) \cap Labels(SinkAt(d, k)) = {}
      BY <1>8, <1>10, <3>2, <3>3
    <3>6. d.frames[i].kind = "while" =>
            \E k \in Sinks(d) : InSink(d, k, i) /\ d.frames[i].l1 \in Labels(SinkAt(d, k))
      BY <1>8, <1>9, <3>1, <3>2, <3>3
    <3>7. QED
      BY <1>4, <3>2, <3>3, <3>4, <3>5, <3>6
  <2>3. QED
    BY <2>1, <2>2
<1>13. LabelsPlaced(d, {})
  BY <1>11, <1>12 DEF LabelsPlaced
<1>14. ~ReturnInDefer => FlagMeansReturned(d)
  BY <1>4 DEF Sound, FlagMeansReturned
<1>15. QED
  BY <1>1, <1>3, <1>4, <1>5, <1>13, <1>14 DEF Sound

(* Writing down the statement that was read, and counting it.                *)
LEMMA StmtAdded ==
  ASSUME NEW c, NEW e, Sound(c, e), Len(c.frames) >= 1, NEW stmt
  PROVE  Sound(AddStmt(c, stmt), e) /\ Len(AddStmt(c, stmt).frames) >= 1
<1>1. ContextType(c) /\ LabelsPlaced(c, e)
  BY DEF Sound
<1>2. PICK n \in Nat : n = Len(c.frames) /\ n \in 1..n
  BY <1>1, SeqParts DEF ContextType, FramesType
<1>3. PICK f : f = c.frames[n]
  OBVIOUS
<1>4. PICK g : g = [f EXCEPT !.list = Append(f.list, stmt)]
  OBVIOUS
<1>5. FrameType(g) /\ SameFrame(f, g) /\ g.instrs = f.instrs
  <2>1. FrameType(f)
    BY <1>1, <1>2, <1>3 DEF ContextType, FramesType
  <2>2. g = AFrame(f.kind, f.n, f.l1, f.l2, f.size, Append(f.list, stmt), f.then, f.vars, f.defers, f.instrs)
    BY <1>4, <2>1, FrameUpdate DEF FrameType
  <2>3. SameFrame(f, g) /\ g.instrs = f.instrs /\ g.list = Append(f.list, stmt) /\ g.then = f.then
    BY <2>2 DEF AFrame, SameFrame
  <2>4. QED
    BY <2>1, <2>2, <2>3 DEF FrameType, SameFrame
<1>6. PICK d : d = AddStmt(c, stmt)
  OBVIOUS
<1>7. d = [c EXCEPT !.frames = [c.frames EXCEPT ![n] = g]]
  <2>1. d = [c EXCEPT !.frames[n].list = Append(f.list, stmt)]
    BY <1>2, <1>3, <1>6 DEF AddStmt
  <2>2. d = [c EXCEPT !.frames = [c.frames EXCEPT ![n] = [c.frames[n] EXCEPT !.list = Append(f.list, stmt)]]]
    BY <1>1, <1>2, <2>1, NestedUpdate
  <2>3. QED
    BY <1>3, <1>4, <2>2, Zenon
<1>8. /\ ContextType(d) /\ Len(d.frames) = n
      /\ \A i \in 1..n : d.frames[i] = IF i = n THEN g ELSE c.frames[i]
      /\ d.code = c.code /\ d.hasReturn = c.hasReturn /\ d.labels = c.labels
      /\ d.frameSize = c.frameSize
  BY <1>1, <1>2, <1>5, <1>7, FrameChanged
<1>9. Alike(c, d)
  BY <1>2, <1>3, <1>5, <1>8 DEF Alike, SameFrames, SameFrame
<1>10. c.labels \in Nat
  BY <1>1 DEF ContextType
<1>11. Sound(d, e)
  BY <1>8, <1>9, <1>10, AlikeSound
<1>12. QED
  BY <1>2, <1>6, <1>8, <1>11

LEMMA CountedSound ==
  ASSUME NEW c, NEW e, Sound(c, e)
  PROVE  Sound(Counted(c), e) /\ Counted(c).frames = c.frames
<1>1. ContextType(c) /\ c.labels \in Nat /\ c.hasReturn \in BOOLEAN /\ c.nodes \in Nat
  BY DEF Sound, ContextType
<1>2. PICK d : d = Counted(c)
  OBVIOUS
<1>3. PICK n \in Nat : n = c.nodes + 1
  BY <1>1
<1>4. Alike(c, d) /\ d.frames = c.frames /\ d.hasReturn = c.hasReturn /\ d.labels = c.labels
  <2>1. d = Context(c.frames, c.code, c.hasReturn, c.labels, c.frameSize, n, c.source)
    BY <1>1, <1>2, <1>3, ContextUpdate DEF Counted, ContextType
  <2>2. PICK h \in BOOLEAN, l \in Nat : h = c.hasReturn /\ l = c.labels
    BY <1>1
  <2>3. d = Context(c.frames, c.code, h, l, c.frameSize, n, c.source)
    BY <2>1, <2>2
  <2>4. PICK s : s = c.source
    OBVIOUS
  <2>5. d = Context(c.frames, c.code, h, l, c.frameSize, n, s)
    BY <2>3, <2>4
  <2>6. Alike(c, d) /\ d.frames = c.frames /\ d.hasReturn = h /\ d.labels = l
    BY <1>1, <2>5, AlikeContext
  <2>7. QED
    BY <2>2, <2>6, Zenon
<1>5. Sound(d, e)
  BY <1>1, <1>4, AlikeSound
<1>6. QED
  BY <1>2, <1>4, <1>5

(* A variable: the next slot of the frame is its own.                        *)
WithVar(c, v) == [c EXCEPT !.frames[Len(c.frames)].vars = @ \cup {v}]

LEMMA VarDeclared ==
  ASSUME NEW c, NEW e, Sound(c, e), Len(c.frames) >= 1, NEW v \in Nat \X Nat, v[2] = c.frameSize + 1,
         NEW b, b = Emit(MakeLocalVar(c), I("mov", v[1], v[2])),
         NEW d, d = WithVar(b, v)
  PROVE  Sound(d, e) /\ Len(d.frames) >= 1
<1>1. ContextType(c) /\ LabelsPlaced(c, e) /\ Nested(c) /\ SlotsStacked(c) /\ c.frameSize \in Nat
  BY DEF Sound, ContextType
<1> PICK slot \in Nat, n \in Nat : slot = c.frameSize + 1 /\ v[2] = slot /\ v[1] = n
  BY <1>1
<1>2. PICK a : a = MakeLocalVar(c)
  OBVIOUS
<1>3. /\ ContextType(a) /\ a.frames = c.frames /\ a.code = c.code /\ a.hasReturn = c.hasReturn
      /\ a.labels = c.labels /\ a.frameSize = slot
      /\ LabelsPlaced(a, e)
  <2>1. a = [c EXCEPT !.frameSize = slot]
    BY <1>2 DEF MakeLocalVar
  <2>2. QED
    BY <1>1, <2>1, SizeSet
<1>4. PICK l \in Nat : l = Len(c.frames) /\ l \in 1..l
  BY <1>1, SeqParts DEF ContextType, FramesType
<1>5. ASSUME NEW i \in 1..l
      PROVE  /\ c.frames[i].size \in Nat /\ c.frames[i].size <= c.frameSize
             /\ c.frames[i].vars \subseteq Nat \X Nat
             /\ \A x \in c.frames[i].vars : c.frames[i].size < x[2] /\ x[2] <= c.frameSize
             /\ \A x, w \in c.frames[i].vars : x[2] = w[2] => x = w
  BY <1>1, <1>4 DEF SlotsStacked, ContextType, FramesType, FrameType
<1>6. \A i, j \in 1..l :
        i < j => /\ c.frames[i].size <= c.frames[j].size
                 /\ \A x \in c.frames[i].vars : x[2] <= c.frames[j].size
  BY <1>1, <1>4 DEF SlotsStacked
<1>7. Sound(a, e)
  <2>1. Nested(a)
    BY <1>1, <1>3 DEF Nested
  <2>2. SlotsStacked(a)
    <3>1. ASSUME NEW i \in 1..l
          PROVE  /\ c.frames[i].size <= slot
                 /\ \A x \in c.frames[i].vars : c.frames[i].size < x[2] /\ x[2] <= slot
                 /\ \A x, w \in c.frames[i].vars : x[2] = w[2] => x = w
      <4>1. slot \in Nat /\ \A m \in Nat : m <= c.frameSize => m <= slot
        BY <1>1
      <4>2. \A x \in c.frames[i].vars : x[2] \in Nat
        BY <1>5
      <4>3. QED
        BY <1>5, <4>1, <4>2
    <3>2. a.frames = c.frames /\ a.frameSize = slot /\ Len(c.frames) = l
      BY <1>3, <1>4
    <3>3. /\ \A i \in 1..Len(a.frames) :
               /\ a.frames[i].size <= a.frameSize
               /\ \A x \in a.frames[i].vars : a.frames[i].size < x[2] /\ x[2] <= a.frameSize
               /\ \A x, w \in a.frames[i].vars : x[2] = w[2] => x = w
          /\ \A i, j \in 1..Len(a.frames) :
               i < j => /\ a.frames[i].size <= a.frames[j].size
                        /\ \A x \in a.frames[i].vars : x[2] <= a.frames[j].size
      BY <1>6, <3>1, <3>2
    <3>4. QED
      BY <3>3, Zenon DEF SlotsStacked
  <2>3. QED
    BY <1>3, <2>1, <2>2 DEF Sound, FlagMeansReturned
<1>8. Sound(b, e) /\ SameFrames(c, b) /\ b.frameSize = slot
  <2>1. I("mov", n, slot) \in Instr /\ I("mov", n, slot).op = "mov"
    BY <1>1 DEF I, Instr
  <2>2. Sound(b, e) /\ Grown(a, b)
    BY <1>2, <1>7, <2>1, EmitSound
  <2>3. QED
    BY <1>3, <2>2 DEF Grown, SameFrames, SameFrame
<1>9. ContextType(b) /\ LabelsPlaced(b, e) /\ Nested(b) /\ Len(b.frames) = l
  BY <1>4, <1>8 DEF Sound, SameFrames
<1>10. PICK f : f = b.frames[l]
  OBVIOUS
<1>11. PICK g : g = [f EXCEPT !.vars = f.vars \cup {v}]
  OBVIOUS
<1>12. FrameType(f)
  BY <1>4, <1>9, <1>10 DEF ContextType, FramesType
<1>13. /\ FrameType(g) /\ g.kind = f.kind /\ g.l1 = f.l1 /\ g.l2 = f.l2 /\ g.size = f.size
       /\ g.defers = f.defers /\ g.instrs = f.instrs /\ g.vars = f.vars \cup {v}
  <2>1. g = AFrame(f.kind, f.n, f.l1, f.l2, f.size, f.list, f.then, f.vars \cup {v}, f.defers, f.instrs)
    BY <1>11, <1>12, FrameUpdate DEF FrameType
  <2>2. /\ g.kind = f.kind /\ g.n = f.n /\ g.l1 = f.l1 /\ g.l2 = f.l2 /\ g.size = f.size
        /\ g.list = f.list /\ g.then = f.then
        /\ g.defers = f.defers /\ g.instrs = f.instrs /\ g.vars = f.vars \cup {v}
    BY <2>1 DEF AFrame
  <2>3. g.vars \subseteq Nat \X Nat
    BY <1>1, <1>12, <2>2 DEF FrameType
  <2>4. FrameType(g)
    BY <1>12, <2>1, <2>2, <2>3 DEF FrameType
  <2>5. QED
    BY <2>2, <2>4
<1>14. /\ ContextType(d) /\ Len(d.frames) = l
       /\ \A i \in 1..l : d.frames[i] = IF i = l THEN g ELSE b.frames[i]
       /\ d.code = b.code /\ d.hasReturn = b.hasReturn /\ d.labels = b.labels
       /\ d.frameSize = b.frameSize
  <2>1. d = [b EXCEPT !.frames[l].vars = f.vars \cup {v}]
    BY <1>9, <1>10 DEF WithVar
  <2>2. d = [b EXCEPT !.frames = [b.frames EXCEPT ![l] = [b.frames[l] EXCEPT !.vars = f.vars \cup {v}]]]
    BY <1>4, <1>9, <2>1, NestedUpdate
  <2>3. d = [b EXCEPT !.frames = [b.frames EXCEPT ![l] = g]]
    BY <1>10, <1>11, <2>2, Zenon
  <2>4. QED
    BY <1>4, <1>9, <1>13, <2>3, FrameChanged
<1>15. LabelsPlaced(d, e)
  <2>1. \A i \in 1..l : \A x \in DOMAIN b.frames[i].defers : Closed(b.frames[i].defers[x])
    BY <1>9 DEF LabelsPlaced
  <2>2. ASSUME NEW i \in 1..l
        PROVE  /\ d.frames[i].kind = b.frames[i].kind /\ d.frames[i].instrs = b.frames[i].instrs
               /\ d.frames[i].l1 = b.frames[i].l1 /\ d.frames[i].l2 = b.frames[i].l2
               /\ \A x \in DOMAIN d.frames[i].defers : Closed(d.frames[i].defers[x])
    <3>1. CASE i = l
      <4>1. d.frames[i] = g /\ b.frames[i] = f
        BY <1>10, <1>14, <3>1
      <4>2. QED
        BY <1>13, <2>1, <4>1
    <3>2. CASE i # l
      <4>1. d.frames[i] = b.frames[i]
        BY <1>14, <3>2
      <4>2. QED
        BY <2>1, <4>1
    <3>3. QED
      BY <3>1, <3>2
  <2>3. QED
    BY <1>9, <1>14, <2>2, SameLabels
<1>16. Nested(d)
  BY <1>9, <1>10, <1>13, <1>14 DEF Nested
<1>17. ASSUME NEW i \in 1..l
       PROVE  /\ d.frames[i].size = c.frames[i].size
              /\ d.frames[i].vars = IF i = l THEN c.frames[i].vars \cup {v} ELSE c.frames[i].vars
  <2>1. b.frames[i].size = c.frames[i].size /\ b.frames[i].vars = c.frames[i].vars
    BY <1>4, <1>8 DEF SameFrames, SameFrame
  <2>2. CASE i = l
    BY <1>10, <1>13, <1>14, <2>1, <2>2
  <2>3. CASE i # l
    BY <1>14, <2>1, <2>3
  <2>4. QED
    BY <2>2, <2>3
<1>18. SlotsStacked(d)
  <2>1. ASSUME NEW i \in 1..l
        PROVE  /\ d.frames[i].size <= slot
               /\ \A x \in d.frames[i].vars : d.frames[i].size < x[2] /\ x[2] <= slot
               /\ \A x, w \in d.frames[i].vars : x[2] = w[2] => x = w
    <3>0. PICK old : old = c.frames[i].vars
      OBVIOUS
    <3>1. PICK z \in Nat : z = c.frames[i].size /\ old = c.frames[i].vars
      BY <1>5, <3>0
    <3>2. /\ z <= c.frameSize /\ old \subseteq Nat \X Nat
          /\ \A x \in old : z < x[2] /\ x[2] <= c.frameSize
          /\ \A x, w \in old : x[2] = w[2] => x = w
      BY <1>5, <3>1
    <3>3. PICK now : now = d.frames[i].vars /\ now \subseteq old \cup {v} /\ d.frames[i].size = z
      BY <1>17, <3>1
    <3>4. \A x \in old : x[2] \in Nat
      BY <3>2
    <3>5. \A x \in old \cup {v} : z < x[2] /\ x[2] <= slot
      BY <1>1, <3>2, <3>4
    <3>6. \A x, w \in old \cup {v} : x[2] = w[2] => x = w
      BY <1>1, <3>2, <3>4
    <3>7. QED
      BY <1>1, <3>2, <3>3, <3>5, <3>6
  <2>2. ASSUME NEW i \in 1..l, NEW j \in 1..l, i < j
        PROVE  /\ d.frames[i].size <= d.frames[j].size
               /\ \A x \in d.frames[i].vars : x[2] <= d.frames[j].size
    <3>1. i # l
      BY <1>4, <2>2
    <3>2. QED
      BY <1>6, <1>17, <2>2, <3>1
  <2>3. Len(d.frames) = l /\ d.frameSize = slot
    BY <1>8, <1>14
  <2>4. QED
    BY <2>1, <2>2, <2>3 DEF SlotsStacked
<1>19. ~ReturnInDefer => FlagMeansReturned(d)
  BY <1>8, <1>14 DEF Sound, FlagMeansReturned
<1>20. QED
  BY <1>4, <1>14, <1>15, <1>16, <1>18, <1>19 DEF Sound

(* A deferred statement is recorded: its code goes to the innermost scope.   *)
WithDefer(c, block) == [c EXCEPT !.frames[ScopeOf(c)].defers = <<block>> \o @]

LEMMA ScopeExists ==
  ASSUME NEW c, ContextType(c), Nested(c), Len(c.frames) >= 1
  PROVE  ScopeOf(c) \in 1..Len(c.frames)
<1>1. PICK n \in Nat : n = Len(c.frames) /\ DOMAIN c.frames = 1..n
  BY SeqParts DEF ContextType, FramesType
<1>2. PICK S : S = {i \in 1..n : c.frames[i].kind # "defer"}
  OBVIOUS
<1>3. S \in SUBSET (0..n) /\ S # {}
  <2>1. 1 \in 1..n
    BY <1>1
  <2>2. c.frames[1].kind = "proc"
    BY <1>1, <2>1 DEF Nested
  <2>3. QED
    BY <1>1, <1>2, <2>1, <2>2
<1>4. PICK i \in S : \A j \in S : j <= i
  BY <1>3, GreatestExists
<1>5. i \in DOMAIN c.frames /\ c.frames[i].kind # "defer" /\ \A j \in i+1..n : c.frames[j].kind = "defer"
  <2>1. i \in 1..n /\ c.frames[i].kind # "defer"
    BY <1>2
  <2>2. ASSUME NEW j \in i+1..n PROVE c.frames[j].kind = "defer"
    <3>1. j \in 1..n /\ ~(j <= i)
      BY <1>1, <2>1
    <3>2. QED
      BY <1>2, <1>4, <3>1
  <2>3. QED
    BY <1>1, <2>1, <2>2
<1>6. ScopeOf(c) \in DOMAIN c.frames
  BY <1>1, <1>5 DEF ScopeOf
<1>7. QED
  BY <1>1, <1>6

(* The code of a deferred statement is closed when the compiler comes back   *)
(* from it, and nothing else waits for a label of it.                        *)
LEMMA RecorderGone ==
  ASSUME NEW c, Sound(c, {}), c.frames # <<>>, Last(c.frames).kind = "defer", NEW d, d = Below(c)
  PROVE  Sound(d, {}) /\ Len(d.frames) >= 1 /\ Last(c.frames).instrs \in ClosedCode
<1>1. ContextType(c) /\ Nested(c) /\ SlotsStacked(c) /\ LabelsPlaced(c, {})
  BY DEF Sound
<1>2. PICK n \in Nat : n = Len(c.frames) /\ n # 0
  BY <1>1, FrameLeft
<1>3. PICK top : top = c.frames[n] /\ Last(c.frames) = top /\ top.kind = "defer"
  BY <1>2 DEF Last
<1>4. /\ ContextType(d) /\ Len(d.frames) = n - 1
      /\ \A i \in 1..n-1 : d.frames[i] = c.frames[i]
      /\ d.code = c.code /\ d.hasReturn = c.hasReturn /\ d.labels = c.labels
      /\ d.frameSize = c.frameSize
  BY <1>1, <1>2, FrameLeft
<1>5. n >= 2 /\ n \in 1..n /\ FrameType(top) /\ \A i \in 1..n-1 : i \in 1..n
  <2>1. n \in 1..n
    BY <1>2
  <2>2. n # 1
    BY <1>1, <1>2, <1>3, <2>1 DEF Nested
  <2>3. FrameType(top)
    BY <1>1, <1>2, <1>3, <2>1 DEF ContextType, FramesType
  <2>4. n >= 2 /\ \A i \in 1..n-1 : i \in 1..n
    <3>1. \A m \in Nat : m # 0 /\ m # 1 => m >= 2 /\ \A i \in 1..m-1 : i \in 1..m
      OBVIOUS
    <3>2. QED
      BY <1>2, <2>2, <3>1, Zenon
  <2>5. QED
    BY <2>1, <2>3, <2>4, Zenon
<1>6. Nested(d) /\ SlotsStacked(d)
  <2>1. Nested(d)
    BY <1>1, <1>2, <1>4, <1>5 DEF Nested
  <2>2. SlotsStacked(d)
    <3>1. \A i \in 1..Len(d.frames) :
            i \in 1..Len(c.frames) /\ d.frames[i].size = c.frames[i].size
                                  /\ d.frames[i].vars = c.frames[i].vars
      BY <1>2, <1>4, <1>5
    <3>2. QED
      BY <1>1, <1>4, <3>1, SlotsKept, Zenon
  <2>3. QED
    BY <2>1, <2>2
<1>7. Awaited(top) = {}
  BY <1>3 DEF Awaited
<1>8. /\ \A k \in Sinks(d) : k \in Sinks(c) /\ k \in 0..n-1 /\ SinkAt(d, k) = SinkAt(c, k)
      /\ \A k \in Sinks(c) : k = n \/ k \in Sinks(d)
      /\ n \in Sinks(c) /\ SinkAt(c, n) = top.instrs
  <2>1. \A k \in 0..n : k = n \/ k \in 0..n-1
    BY <1>2
  <2>2. \A k \in 0..n-1 : k = 0 \/ k \in 1..n-1
    BY <1>2
  <2>3. Sinks(c) = {k \in 0..n : k = 0 \/ c.frames[k].kind = "defer"}
    BY <1>2 DEF Sinks
  <2>4. Sinks(d) = {k \in 0..n-1 : k = 0 \/ c.frames[k].kind = "defer"}
    BY <1>4, <2>2 DEF Sinks
  <2>5. \A k \in 0..n-1 : k \in 0..n
    BY <1>2
  <2>6. n \in 0..n
    BY <1>2
  <2>7. QED
    BY <1>2, <1>3, <1>4, <2>1, <2>2, <2>3, <2>4, <2>5, <2>6 DEF SinkAt
<1>9. \A k \in Sinks(d) : \A i \in 0..n-1 : InSink(d, k, i) <=> InSink(c, k, i)
  <2>1. ASSUME NEW k \in Sinks(d), NEW i \in 0..n-1, NEW j \in k+1..i
        PROVE  d.frames[j].kind = c.frames[j].kind
    <3>1. j \in 1..n-1
      <4>1. k \in 0..n-1
        BY <1>8
      <4>2. QED
        BY <4>1
    <3>2. QED
      BY <1>4, <3>1
  <2>2. QED
    BY <2>1 DEF InSink
<1>10. \A k \in Sinks(d) : ~InSink(c, k, n)
  <2>1. \A k \in Sinks(d) : n \in k+1..n
    BY <1>2, <1>8
  <2>2. QED
    BY <1>3, <2>1 DEF InSink
<1>11. ASSUME NEW k \in Sinks(d)
       PROVE  /\ UniqueLabels(SinkAt(d, k))
              /\ Labels(SinkAt(d, k)) \subseteq 0..d.labels-1
              /\ Labels(SinkAt(d, k)) \cap {} = {}
              /\ \A t \in Targets(SinkAt(d, k)) :
                   \/ t \in Labels(SinkAt(d, k))
                   \/ \E i \in 1..Len(d.frames) : InSink(d, k, i) /\ t \in Awaited(d.frames[i])
                   \/ InSink(d, k, Len(d.frames)) /\ t \in {}
  <2>1. /\ UniqueLabels(SinkAt(c, k))
        /\ Labels(SinkAt(c, k)) \subseteq 0..c.labels-1
        /\ \A t \in Targets(SinkAt(c, k)) :
             \/ t \in Labels(SinkAt(c, k))
             \/ \E i \in 1..n : InSink(c, k, i) /\ t \in Awaited(c.frames[i])
    BY <1>1, <1>2, <1>8 DEF LabelsPlaced
  <2>2. \A i \in 1..n : i = n \/ (i \in 1..n-1 /\ i \in 0..n-1)
    BY <1>2
  <2>3. SinkAt(d, k) = SinkAt(c, k)
    BY <1>8
  <2>4. QED
    BY <1>4, <1>9, <1>10, <2>1, <2>2, <2>3
<1>12. ASSUME NEW i \in 1..Len(d.frames)
       PROVE  /\ Awaited(d.frames[i]) \subseteq 0..d.labels-1
              /\ Awaited(d.frames[i]) \cap {} = {}
              /\ \A k \in Sinks(d) : Awaited(d.frames[i]) \cap Labels(SinkAt(d, k)) = {}
              /\ \A j \in 1..Len(d.frames) : j # i => Awaited(d.frames[i]) \cap Awaited(d.frames[j]) = {}
              /\ \A b \in DOMAIN d.frames[i].defers : Closed(d.frames[i].defers[b])
              /\ d.frames[i].kind = "while" =>
                   \E k \in Sinks(d) : InSink(d, k, i) /\ d.frames[i].l1 \in Labels(SinkAt(d, k))
              /\ d.frames[i].kind = "then" => d.frames[i].l1 # d.frames[i].l2
  <2>1. i \in 1..n /\ i \in 1..n-1 /\ i \in 0..n-1 /\ d.frames[i] = c.frames[i]
    BY <1>2, <1>4, <1>5
  <2>2. /\ Awaited(c.frames[i]) \subseteq 0..c.labels-1
        /\ \A k \in Sinks(c) : Awaited(c.frames[i]) \cap Labels(SinkAt(c, k)) = {}
        /\ \A j \in 1..n : j # i => Awaited(c.frames[i]) \cap Awaited(c.frames[j]) = {}
        /\ \A b \in DOMAIN c.frames[i].defers : Closed(c.frames[i].defers[b])
        /\ c.frames[i].kind = "while" =>
             \E k \in Sinks(c) : InSink(c, k, i) /\ c.frames[i].l1 \in Labels(SinkAt(c, k))
        /\ c.frames[i].kind = "then" => c.frames[i].l1 # c.frames[i].l2
    BY <1>1, <1>2, <2>1 DEF LabelsPlaced
  <2>3. c.frames[i].kind = "while" =>
          \E k \in Sinks(d) : InSink(d, k, i) /\ c.frames[i].l1 \in Labels(SinkAt(d, k))
    <3>1. SUFFICES ASSUME c.frames[i].kind = "while"
                   PROVE  \E k \in Sinks(d) : InSink(d, k, i) /\ c.frames[i].l1 \in Labels(SinkAt(d, k))
      OBVIOUS
    <3>2. PICK k \in Sinks(c) : InSink(c, k, i) /\ c.frames[i].l1 \in Labels(SinkAt(c, k))
      BY <2>2, <3>1
    <3>3. k # n
      <4>1. ~(n <= i)
        BY <1>2, <2>1
      <4>2. QED
        BY <3>2, <4>1 DEF InSink
    <3>4. k \in Sinks(d) /\ SinkAt(d, k) = SinkAt(c, k)
      BY <1>8, <3>3
    <3>5. QED
      BY <1>9, <2>1, <3>2, <3>4
  <2>4. QED
    BY <1>4, <1>5, <1>8, <2>1, <2>2, <2>3
<1>13. LabelsPlaced(d, {})
  BY <1>11, <1>12 DEF LabelsPlaced
<1>14. top.instrs \in ClosedCode
  <2>1. top.instrs \in Seq(Instr)
    BY <1>5 DEF FrameType
  <2>2. UniqueLabels(top.instrs)
    BY <1>1, <1>8 DEF LabelsPlaced
  <2>3. ASSUME NEW t \in Targets(top.instrs)
        PROVE  t \in Labels(top.instrs)
    <3>1. \/ t \in Labels(top.instrs)
          \/ \E i \in 1..n : InSink(c, n, i) /\ t \in Awaited(c.frames[i])
      BY <1>1, <1>2, <1>8 DEF LabelsPlaced
    <3>2. \A i \in 1..n : InSink(c, n, i) => i = n
      BY <1>2 DEF InSink
    <3>3. QED
      BY <1>3, <1>7, <3>1, <3>2
  <2>4. QED
    BY <2>1, <2>2, <2>3 DEF ClosedCode, Closed
<1>15. ~ReturnInDefer => FlagMeansReturned(d)
  BY <1>4 DEF Sound, FlagMeansReturned
<1>16. QED
  BY <1>3, <1>4, <1>5, <1>6, <1>13, <1>14, <1>15 DEF Sound

LEMMA DeferRecorded ==
  ASSUME NEW c, Sound(c, {}), Len(c.frames) >= 1, NEW block \in ClosedCode,
         NEW d, d = WithDefer(c, block)
  PROVE  Sound(d, {}) /\ Len(d.frames) >= 1
<1>1. ContextType(c) /\ Nested(c) /\ SlotsStacked(c) /\ LabelsPlaced(c, {})
  BY DEF Sound
<1>2. PICK n \in Nat : n = Len(c.frames)
  BY <1>1, SeqParts DEF ContextType, FramesType
<1>3. PICK s \in 1..n : s = ScopeOf(c)
  BY <1>1, <1>2, ScopeExists
<1>4. PICK f : f = c.frames[s] /\ FrameType(f)
  BY <1>1, <1>2 DEF ContextType, FramesType
<1>5. PICK blocks : blocks = <<block>> \o f.defers
  OBVIOUS
<1>6. blocks \in Seq(Seq(Instr)) /\ \A x \in DOMAIN blocks : Closed(blocks[x])
  <2>1. f.defers \in Seq(Seq(Instr))
    BY <1>4 DEF FrameType
  <2>2. \A x \in DOMAIN f.defers : Closed(f.defers[x])
    BY <1>1, <1>2, <1>4 DEF LabelsPlaced
  <2>3. f.defers \in Seq(ClosedCode)
    <3>1. PICK m \in Nat : m = Len(f.defers) /\ DOMAIN f.defers = 1..m /\ f.defers \in [1..m -> Seq(Instr)]
      BY <2>1, LenProperties
    <3>2. f.defers \in [1..m -> ClosedCode]
      BY <2>2, <3>1 DEF ClosedCode
    <3>3. QED
      BY <3>2, SeqDef
  <2>4. <<block>> \in Seq(ClosedCode)
    OBVIOUS
  <2>5. blocks \in Seq(ClosedCode)
    BY <1>5, <2>3, <2>4, ConcatProperties
  <2>6. PICK m \in Nat : DOMAIN blocks = 1..m /\ blocks \in [1..m -> ClosedCode]
    BY <2>5, LenProperties
  <2>7. blocks \in [1..m -> Seq(Instr)] /\ \A x \in 1..m : Closed(blocks[x])
    BY <2>6 DEF ClosedCode
  <2>8. QED
    BY <2>6, <2>7, SeqDef
<1>7. PICK g : g = [f EXCEPT !.defers = blocks]
  OBVIOUS
<1>8. /\ FrameType(g) /\ g.kind = f.kind /\ g.l1 = f.l1 /\ g.l2 = f.l2 /\ g.size = f.size
      /\ g.vars = f.vars /\ g.instrs = f.instrs /\ g.defers = blocks
  <2>1. g = AFrame(f.kind, f.n, f.l1, f.l2, f.size, f.list, f.then, f.vars, blocks, f.instrs)
    <3>1. f = AFrame(f.kind, f.n, f.l1, f.l2, f.size, f.list, f.then, f.vars, f.defers, f.instrs)
      BY <1>4 DEF FrameType
    <3>2. QED
      BY <1>7, <3>1, FrameUpdate
  <2>2. /\ g.kind = f.kind /\ g.n = f.n /\ g.l1 = f.l1 /\ g.l2 = f.l2 /\ g.size = f.size
        /\ g.list = f.list /\ g.then = f.then
        /\ g.vars = f.vars /\ g.instrs = f.instrs /\ g.defers = blocks
    BY <2>1 DEF AFrame
  <2>3. g = AFrame(g.kind, g.n, g.l1, g.l2, g.size, g.list, g.then, g.vars, g.defers, g.instrs)
    BY <2>1, <2>2, Zenon
  <2>4. FrameType(g)
    BY <1>4, <1>6, <2>2, <2>3, Zenon DEF FrameType
  <2>5. QED
    BY <2>2, <2>4
<1>9. /\ ContextType(d) /\ Len(d.frames) = n
      /\ \A i \in 1..n : d.frames[i] = IF i = s THEN g ELSE c.frames[i]
      /\ d.code = c.code /\ d.hasReturn = c.hasReturn /\ d.labels = c.labels
      /\ d.frameSize = c.frameSize
  <2>1. d = [c EXCEPT !.frames[s].defers = blocks]
    BY <1>3, <1>4, <1>5 DEF WithDefer
  <2>2. d = [c EXCEPT !.frames = [c.frames EXCEPT ![s] = [c.frames[s] EXCEPT !.defers = blocks]]]
    BY <1>1, <1>2, <2>1, NestedUpdate
  <2>3. d = [c EXCEPT !.frames = [c.frames EXCEPT ![s] = g]]
    BY <1>4, <1>7, <2>2, Zenon
  <2>4. QED
    BY <1>1, <1>2, <1>8, <2>3, FrameChanged
<1>10. ASSUME NEW i \in 1..n
       PROVE  /\ d.frames[i].kind = c.frames[i].kind /\ d.frames[i].instrs = c.frames[i].instrs
              /\ d.frames[i].l1 = c.frames[i].l1 /\ d.frames[i].l2 = c.frames[i].l2
              /\ d.frames[i].size = c.frames[i].size /\ d.frames[i].vars = c.frames[i].vars
              /\ \A x \in DOMAIN d.frames[i].defers : Closed(d.frames[i].defers[x])
  <2>1. \A x \in DOMAIN c.frames[i].defers : Closed(c.frames[i].defers[x])
    BY <1>1, <1>2 DEF LabelsPlaced
  <2>2. CASE i = s
    BY <1>4, <1>6, <1>8, <1>9, <2>2
  <2>3. CASE i # s
    BY <1>9, <2>1, <2>3
  <2>4. QED
    BY <2>2, <2>3
<1>11. LabelsPlaced(d, {})
  BY <1>1, <1>2, <1>9, <1>10, SameLabels
<1>12. Nested(d) /\ SlotsStacked(d)
  <2>1. Nested(d)
    BY <1>1, <1>2, <1>9, <1>10 DEF Nested
  <2>2. SlotsStacked(d)
    <3>1. \A i \in 1..Len(d.frames) :
            i \in 1..Len(c.frames) /\ d.frames[i].size = c.frames[i].size
                                  /\ d.frames[i].vars = c.frames[i].vars
      BY <1>2, <1>9, <1>10
    <3>2. QED
      BY <1>1, <1>9, <3>1, SlotsKept, Zenon
  <2>3. QED
    BY <2>1, <2>2
<1>13. ~ReturnInDefer => FlagMeansReturned(d)
  BY <1>9 DEF Sound, FlagMeansReturned
<1>14. QED
  BY <1>2, <1>9, <1>11, <1>12, <1>13 DEF Sound

-----------------------------------------------------------------------------
(* The statements.  In each step the compiler starts from a context that is  *)
(* sound and inside of the procedure, and ends in one.                       *)
LEMMA StmtRead ==
  ASSUME NEW c, Going(c), NEW stmt
  PROVE  Going(AddStmt(c, stmt)) /\ Going(Counted(AddStmt(c, stmt)))
<1>1. PICK d : d = AddStmt(c, stmt)
  OBVIOUS
<1>2. Sound(d, {}) /\ Len(d.frames) >= 1
  BY <1>1, StmtAdded DEF Going
<1>3. Sound(Counted(d), {}) /\ Counted(d).frames = d.frames
  BY <1>2, CountedSound
<1>4. QED
  BY <1>1, <1>2, <1>3 DEF Going

LEMMA PlainEmitted ==
  ASSUME NEW c, Going(c), NEW instr \in Instr, instr.op \in {"call", "mov", "use"}
  PROVE  Going(Emit(c, instr))
<1>1. Sound(Emit(c, instr), {}) /\ Grown(c, Emit(c, instr))
  BY EmitSound DEF Going
<1>2. QED
  BY <1>1 DEF Going, Grown, SameFrames

LEMMA NextNumber ==
  ASSUME Going(ctx)
  PROVE  N \in Nat
BY DEF Going, Sound, ContextType, N

LEMMA CallStep ==
  ASSUME Going(ctx), CompileCall
  PROVE  Going(ctx')
<1>1. I("call", N, NoSlot) \in Instr /\ I("call", N, NoSlot).op = "call"
  BY NextNumber DEF I, Instr, NoSlot
<1>2. Going(Emit(ctx, I("call", N, NoSlot)))
  BY <1>1, PlainEmitted
<1>3. Going(Counted(AddStmt(Emit(ctx, I("call", N, NoSlot)), Stmt("call", N, <<>>, <<>>))))
  BY <1>2, StmtRead
<1>4. QED
  BY <1>3 DEF CompileCall

LEMMA VarStep ==
  ASSUME Going(ctx), CompileVar
  PROVE  Going(ctx')
<1>1. PICK v \in Nat \X Nat : v = <<N, ctx.frameSize + 1>>
  <2>1. PICK m \in Nat, s \in Nat : m = N /\ s = ctx.frameSize + 1
    BY NextNumber DEF Going, Sound, ContextType
  <2>2. <<m, s>> \in Nat \X Nat
    OBVIOUS
  <2>3. QED
    BY <2>1, <2>2
<1>2. v[1] = N /\ v[2] = ctx.frameSize + 1
  BY <1>1
<1>3. PICK b : b = Emit(MakeLocalVar(ctx), I("mov", v[1], v[2]))
  OBVIOUS
<1>4. PICK d : d = WithVar(b, v)
  OBVIOUS
<1>5. Going(d)
  BY <1>2, <1>3, <1>4, VarDeclared DEF Going
<1>6. ctx' = Counted(AddStmt(d, Stmt("var", N, <<>>, <<>>)))
  BY <1>1, <1>2, <1>3, <1>4 DEF CompileVar, WithVar
<1>7. QED
  BY <1>5, <1>6, StmtRead

LEMMA VisibleTyped ==
  ASSUME Going(ctx), NEW v \in Visible(ctx)
  PROVE  v[1] \in Nat /\ v[2] \in Nat
<1>1. ContextType(ctx) /\ DOMAIN ctx.frames = 1..Len(ctx.frames)
  BY SeqParts DEF Going, Sound, ContextType, FramesType
<1>2. PICK i \in 1..Len(ctx.frames) : v \in ctx.frames[i].vars
  BY <1>1 DEF Visible
<1>3. v \in Nat \X Nat
  BY <1>1, <1>2 DEF ContextType, FramesType, FrameType
<1>4. QED
  BY <1>3

LEMMA UseStep ==
  ASSUME Going(ctx), CompileUse
  PROVE  Going(ctx')
<1>1. PICK v \in Visible(ctx) :
        ctx' = Counted(AddStmt(Emit(ctx, I("use", 0, v[2])), Stmt("use", v[1], <<>>, <<>>)))
  BY DEF CompileUse
<1>2. I("use", 0, v[2]) \in Instr /\ I("use", 0, v[2]).op = "use"
  BY VisibleTyped DEF I, Instr
<1>3. Going(Emit(ctx, I("use", 0, v[2])))
  BY <1>2, PlainEmitted
<1>4. QED
  BY <1>1, <1>3, StmtRead

LEMMA ReturnStep ==
  ASSUME Going(ctx), NEW n, NEW slot \in Nat, NEW alt, ReturnWith(n, slot, alt)
  PROVE  Going(ctx')
<1>1. PICK b : b = EmitDefers(ctx, 0)
  OBVIOUS
<1>2. ContextType(ctx) /\ 0 \in 0..Len(ctx.frames)
  BY SeqParts DEF Going, Sound, ContextType, FramesType
<1>3. Sound(b, {}) /\ Grown(ctx, b)
  BY <1>1, <1>2, DefersSound DEF Going
<1>4. I("ret", 0, slot) \in Instr /\ I("ret", 0, slot).op = "ret"
  BY DEF I, Instr
<1>5. ~ReturnInDefer => Recorders(b) = {}
  <2>1. DOMAIN ctx.frames = 1..Len(ctx.frames) /\ DOMAIN b.frames = 1..Len(b.frames)
    BY <1>3, SeqParts DEF Going, Sound, ContextType, FramesType
  <2>2. /\ Len(b.frames) = Len(ctx.frames)
        /\ \A i \in 1..Len(ctx.frames) : b.frames[i].kind = ctx.frames[i].kind
    BY <1>3 DEF Grown, SameFrames, SameFrame
  <2>3. Recorders(b) = Recorders(ctx)
    BY <2>1, <2>2 DEF Recorders
  <2>4. QED
    BY <2>3 DEF ReturnWith
<1>6. PICK d : d = Emit(b, I("ret", 0, slot))
  OBVIOUS
<1>7. Sound(d, {}) /\ Grown(b, d)
  BY <1>3, <1>4, <1>5, <1>6, EmitSound
<1>8. Going(d)
  BY <1>3, <1>7 DEF Going, Grown, SameFrames
<1>9. ctx' = Counted(AddStmt(d, Stmt("return", n, <<>>, alt)))
  BY <1>1, <1>6 DEF ReturnWith
<1>10. QED
  BY <1>8, <1>9, StmtRead

LEMMA ReturnsStep ==
  ASSUME Going(ctx), CompileReturn \/ CompileReturnValue
  PROVE  Going(ctx')
<1>1. CASE CompileReturn
  BY <1>1, ReturnStep DEF CompileReturn, NoSlot
<1>2. CASE CompileReturnValue
  BY <1>2, ReturnStep, VisibleTyped DEF CompileReturnValue
<1>3. QED
  BY <1>1, <1>2

-----------------------------------------------------------------------------
(* Statements with a body.                                                   *)
LEMMA Counting ==
  ASSUME NEW c, Going(c)
  PROVE  Going(Counted(c))
BY CountedSound DEF Going

LEMMA OpenScopeStep ==
  ASSUME Going(ctx), OpenScope
  PROVE  Going(ctx')
<1>1. PICK f : f = Frame("scope", N, 0, 0, ctx.frameSize)
  OBVIOUS
<1>2. /\ FrameType(f) /\ f.kind = "scope" /\ f.size = ctx.frameSize
      /\ f.vars = {} /\ f.defers = <<>>
  <2>1. PICK m \in Nat, s \in Nat : m = N /\ s = ctx.frameSize
    BY NextNumber DEF Going, Sound, ContextType
  <2>2. FreshFrame(Frame("scope", m, 0, 0, s), "scope", 0, 0, s)
    BY NewFrame DEF BodyKinds
  <2>3. QED
    BY <1>1, <2>1, <2>2 DEF FreshFrame
<1>3. Awaited(f) = {}
  BY <1>2 DEF Awaited
<1>4. Sound(Enter(ctx, f), {}) /\ Len(Enter(ctx, f).frames) >= 1
  BY <1>2, <1>3, EnterSound DEF Going
<1>5. Going(Counted(Enter(ctx, f)))
  BY <1>4, Counting DEF Going
<1>6. QED
  BY <1>1, <1>5 DEF OpenScope

LEMMA OpenDeferStep ==
  ASSUME Going(ctx), OpenDefer
  PROVE  Going(ctx')
<1>1. PICK f : f = Frame("defer", N, 0, 0, ctx.frameSize)
  OBVIOUS
<1>2. /\ FrameType(f) /\ f.kind = "defer" /\ f.size = ctx.frameSize
      /\ f.vars = {} /\ f.defers = <<>> /\ f.instrs = <<>>
  <2>1. PICK m \in Nat, s \in Nat : m = N /\ s = ctx.frameSize
    BY NextNumber DEF Going, Sound, ContextType
  <2>2. FreshFrame(Frame("defer", m, 0, 0, s), "defer", 0, 0, s)
    BY NewFrame DEF BodyKinds
  <2>3. QED
    BY <1>1, <2>1, <2>2 DEF FreshFrame
<1>3. Sound(Enter(ctx, f), {}) /\ Len(Enter(ctx, f).frames) >= 1
  BY <1>2, DeferEntered DEF Going
<1>4. Going(Counted(Enter(ctx, f)))
  BY <1>3, Counting DEF Going
<1>5. QED
  BY <1>1, <1>4 DEF OpenDefer

(* Labels are taken for the code to come.                                    *)
Taking(c, n) == [c EXCEPT !.labels = @ + n]

LEMMA FreshLabels ==
  ASSUME NEW c, Going(c), NEW n \in Nat, NEW b, b = Taking(c, n),
         NEW more, more \subseteq c.labels..c.labels+n-1
  PROVE  Sound(b, more) /\ SameFrames(c, b)
<1>1. ContextType(c) /\ c.labels \in Nat /\ c.hasReturn \in BOOLEAN /\ c.nodes \in Nat /\ Sound(c, {})
  BY DEF Going, Sound, ContextType
<1>2. PICK l \in Nat : l = c.labels + n
  BY <1>1
<1>3. PICK h \in BOOLEAN, m \in Nat : h = c.hasReturn /\ m = c.nodes
  BY <1>1
<1> PICK s : s = c.source
  OBVIOUS
<1>4. b = Context(c.frames, c.code, h, l, c.frameSize, m, s)
  <2>1. b = [c EXCEPT !.labels = l]
    BY <1>2 DEF Taking
  <2>2. b = Context(c.frames, c.code, c.hasReturn, l, c.frameSize, c.nodes, c.source)
    BY <1>1, <2>1, ContextUpdate DEF ContextType
  <2>3. QED
    BY <1>3, <2>2, Zenon
<1>5. Alike(c, b) /\ b.hasReturn = h /\ b.labels = l
  BY <1>1, <1>4, AlikeContext
<1>6. c.labels <= b.labels /\ more \subseteq {} \cup (c.labels..b.labels-1) /\ {} \subseteq more
  BY <1>1, <1>2, <1>5
<1>7. b.hasReturn => c.hasReturn
  BY <1>3, <1>5, Zenon
<1>8. PICK none : none = {}
  OBVIOUS
<1>9. Sound(c, none) /\ more \subseteq none \cup (c.labels..b.labels-1) /\ none \subseteq more
  BY <1>1, <1>6, <1>8
<1>10. QED
  BY <1>5, <1>6, <1>7, <1>9, AlikeSound

LEMMA OpenIfStep ==
  ASSUME Going(ctx), OpenIf
  PROVE  Going(ctx')
<1>1. PICK branches \in {1, 2} :
        LET endif == ctx.labels
            else  == ctx.labels + branches - 1
            c == Emit([ctx EXCEPT !.labels = @ + branches], I("jmpz", else, NoSlot))
        IN ctx' = Counted(Enter(c, Frame(IF branches = 1 THEN "if" ELSE "then",
                                         N, else, endif, c.frameSize)))
  BY DEF OpenIf
<1>2. PICK endif \in Nat, else \in Nat : endif = ctx.labels /\ else = ctx.labels + branches - 1
  BY DEF Going, Sound, ContextType
<1>3. PICK b : b = Taking(ctx, branches)
  OBVIOUS
<1>4. PICK c : c = Emit(b, I("jmpz", else, NoSlot))
  OBVIOUS
<1>5. PICK kind : kind = IF branches = 1 THEN "if" ELSE "then"
  OBVIOUS
<1>6. PICK f : f = Frame(kind, N, else, endif, c.frameSize)
  OBVIOUS
<1>7. ctx' = Counted(Enter(c, f))
  BY <1>1, <1>2, <1>3, <1>4, <1>5, <1>6 DEF Taking
<1>8. Sound(b, {endif, else}) /\ SameFrames(ctx, b)
  <2>1. branches \in Nat /\ {endif, else} \subseteq ctx.labels..ctx.labels+branches-1
    BY <1>2
  <2>2. QED
    BY <1>3, <2>1, FreshLabels
<1>9. I("jmpz", else, NoSlot) \in Instr /\ I("jmpz", else, NoSlot).op = "jmpz" /\ I("jmpz", else, NoSlot).arg = else
  BY DEF I, Instr, NoSlot
<1>10. Findable(b, {endif, else}, else)
  BY DEF Findable
<1>11. Sound(c, {endif, else}) /\ Grown(b, c)
  BY <1>4, <1>8, <1>9, <1>10, EmitSound
<1>12. Len(c.frames) >= 1
  BY <1>8, <1>11 DEF Going, Grown, SameFrames
<1>13. /\ FrameType(f) /\ f.kind = kind /\ f.l1 = else /\ f.l2 = endif /\ f.size = c.frameSize
       /\ f.vars = {} /\ f.defers = <<>>
  <2>1. kind \in {"if", "then"} /\ N \in Nat /\ c.frameSize \in Nat
    BY <1>5, <1>11, NextNumber DEF Sound, ContextType
  <2>2. PICK m \in Nat, s \in Nat : m = N /\ s = c.frameSize
    BY <2>1
  <2>3. FreshFrame(Frame(kind, m, else, endif, s), kind, else, endif, s)
    BY <2>1, NewFrame DEF BodyKinds
  <2>4. QED
    BY <1>6, <2>2, <2>3 DEF FreshFrame
<1>14. Awaited(f) = {endif, else} /\ (f.kind = "then" => f.l1 # f.l2)
  <2>1. branches = 1 => kind = "if" /\ else = endif
    BY <1>2, <1>5 DEF Going, Sound, ContextType
  <2>2. branches = 2 => kind = "then" /\ else # endif
    BY <1>2, <1>5 DEF Going, Sound, ContextType
  <2>3. QED
    BY <1>13, <2>1, <2>2 DEF Awaited
<1>15. Sound(Enter(c, f), {endif, else} \ Awaited(f)) /\ Len(Enter(c, f).frames) >= 1
  <2>1. f.kind \in {"if", "then"}
    BY <1>5, <1>13
  <2>2. QED
    BY <1>11, <1>12, <1>13, <1>14, <2>1, EnterSound
<1>16. Going(Enter(c, f))
  <2>1. {endif, else} \ Awaited(f) = {}
    BY <1>14
  <2>2. QED
    BY <1>15, <2>1 DEF Going
<1>17. QED
  BY <1>7, <1>16, Counting

LEMMA OpenWhileStep ==
  ASSUME Going(ctx), OpenWhile
  PROVE  Going(ctx')
<1>1. PICK loop \in Nat, endloop \in Nat : loop = ctx.labels /\ endloop = ctx.labels + 1
  BY DEF Going, Sound, ContextType
<1>2. PICK b : b = Taking(ctx, 2)
  OBVIOUS
<1>3. PICK jumped : jumped = Emit(b, I("jmp", loop, NoSlot))
  OBVIOUS
<1>4. PICK start : start = Emit(jumped, I("label", loop, NoSlot))
  OBVIOUS
<1>5. PICK c : c = Emit(start, I("jmpz", endloop, NoSlot))
  OBVIOUS
<1>6. PICK f : f = Frame("while", N, loop, endloop, c.frameSize)
  OBVIOUS
<1>7. ctx' = Counted(Enter(c, f))
  BY <1>1, <1>2, <1>3, <1>4, <1>5, <1>6 DEF OpenWhile, Taking
<1>8. Sound(b, {loop, endloop}) /\ SameFrames(ctx, b)
  <2>1. {loop, endloop} \subseteq ctx.labels..ctx.labels+2-1
    BY <1>1
  <2>2. QED
    BY <1>2, <2>1, FreshLabels
<1>9. \A op \in {"jmp", "jmpz", "label"} : \A l \in Nat :
        I(op, l, NoSlot) \in Instr /\ I(op, l, NoSlot).op = op /\ I(op, l, NoSlot).arg = l
  BY DEF I, Instr, NoSlot
<1>10. Sound(jumped, {loop, endloop}) /\ Grown(b, jumped)
  <2>1. Findable(b, {loop, endloop}, loop)
    BY DEF Findable
  <2>2. PICK i \in Instr : i = I("jmp", loop, NoSlot) /\ i.op = "jmp" /\ i.arg = loop
    BY <1>9
  <2>3. QED
    BY <1>3, <1>8, <2>1, <2>2, EmitSound
<1>11. /\ Sound(start, {endloop}) /\ Grown(jumped, start)
       /\ loop \in Labels(SinkAt(start, Innermost(jumped)))
  <2>1. /\ Sound(start, {loop, endloop} \ {loop}) /\ Grown(jumped, start)
        /\ loop \in Labels(SinkAt(start, Innermost(jumped)))
    BY <1>4, <1>9, <1>10, EmitSound
  <2>2. {loop, endloop} \ {loop} = {endloop}
    BY <1>1 DEF Going, Sound, ContextType
  <2>3. QED
    BY <2>1, <2>2
<1>12. Sound(c, {endloop}) /\ Grown(start, c)
  <2>1. Findable(start, {endloop}, endloop)
    BY DEF Findable
  <2>2. PICK i \in Instr : i = I("jmpz", endloop, NoSlot) /\ i.op = "jmpz" /\ i.arg = endloop
    BY <1>9
  <2>3. QED
    BY <1>5, <1>11, <2>1, <2>2, EmitSound
<1>13. Len(c.frames) >= 1 /\ loop \in Labels(SinkAt(c, Innermost(c)))
  <2>1. Len(c.frames) >= 1
    BY <1>8, <1>10, <1>11, <1>12 DEF Going, Grown, SameFrames
  <2>2. Innermost(start) = Innermost(jumped) /\ Innermost(c) = Innermost(start)
    BY <1>11, <1>12 DEF Grown
  <2>3. Innermost(start) \in Sinks(start)
    BY <1>11, InnermostSink DEF Sound
  <2>4. loop \in Labels(SinkAt(c, Innermost(start)))
    BY <1>11, <1>12, <2>2, <2>3 DEF Grown
  <2>5. QED
    BY <2>1, <2>2, <2>4
<1>14. /\ FrameType(f) /\ f.kind = "while" /\ f.l1 = loop /\ f.l2 = endloop /\ f.size = c.frameSize
       /\ f.vars = {} /\ f.defers = <<>>
  <2>1. PICK m \in Nat, s \in Nat : m = N /\ s = c.frameSize
    BY <1>12, NextNumber DEF Sound, ContextType
  <2>2. FreshFrame(Frame("while", m, loop, endloop, s), "while", loop, endloop, s)
    BY NewFrame DEF BodyKinds
  <2>3. QED
    BY <1>6, <2>1, <2>2 DEF FreshFrame
<1>15. Awaited(f) = {endloop}
  BY <1>14 DEF Awaited
<1>16. Sound(Enter(c, f), {endloop} \ Awaited(f)) /\ Len(Enter(c, f).frames) >= 1
  BY <1>12, <1>13, <1>14, <1>15, EnterSound
<1>17. Going(Enter(c, f))
  <2>1. {endloop} \ Awaited(f) = {}
    BY <1>15
  <2>2. QED
    BY <1>16, <2>1 DEF Going
<1>18. QED
  BY <1>7, <1>17, Counting

-----------------------------------------------------------------------------
(* Coming back from the body of a statement.                                 *)
LEMMA Instruction ==
  ASSUME NEW op \in {"label", "jmp", "jmpz", "call", "mov", "use", "ret"}, NEW arg \in Nat
  PROVE  \E i \in Instr : i = I(op, arg, NoSlot) /\ i.op = op /\ i.arg = arg
<1>1. I(op, arg, NoSlot) \in Instr /\ I(op, arg, NoSlot).op = op /\ I(op, arg, NoSlot).arg = arg
  BY DEF I, Instr, NoSlot
<1>2. QED
  BY <1>1

LEMMA Jumped ==
  ASSUME NEW c, NEW e, Sound(c, e), Len(c.frames) >= 1, NEW t \in Nat, NEW l \in Nat,
         Findable(c, e, t), l \in e
  PROVE  Sound(JumpThenLabel(c, t, l), e \ {l}) /\ Len(JumpThenLabel(c, t, l).frames) >= 1
<1>1. PICK jmp \in Instr : jmp = I("jmp", t, NoSlot) /\ jmp.op = "jmp" /\ jmp.arg = t
  BY Instruction
<1>2. PICK lab \in Instr : lab = I("label", l, NoSlot) /\ lab.op = "label" /\ lab.arg = l
  BY Instruction
<1>3. PICK b : b = Emit(c, jmp)
  OBVIOUS
<1>4. Sound(b, e) /\ Grown(c, b)
  BY <1>1, <1>3, EmitSound
<1>5. PICK d : d = Emit(b, lab)
  OBVIOUS
<1>6. Sound(d, e \ {l}) /\ Grown(b, d)
  <2>1. /\ lab.op = "label" => lab.arg \in e
        /\ lab.op \in {"jmp", "jmpz"} => Findable(b, e, lab.arg)
        /\ lab.op = "ret" /\ ~ReturnInDefer => Recorders(b) = {}
    BY <1>2
  <2>2. /\ Sound(d, IF lab.op = "label" THEN e \ {lab.arg} ELSE e)
        /\ Grown(b, d)
    BY <1>4, <1>5, <2>1, EmitSound, Zenon
  <2>3. QED
    BY <1>2, <2>2
<1>7. JumpThenLabel(c, t, l) = d
  BY <1>1, <1>2, <1>3, <1>5, Zenon DEF JumpThenLabel
<1>8. Len(b.frames) = Len(c.frames) /\ Len(d.frames) = Len(b.frames)
  BY <1>4, <1>6 DEF Grown, SameFrames
<1>9. QED
  BY <1>6, <1>7, <1>8

LEMMA Inside ==
  ASSUME Going(ctx)
  PROVE  /\ Sound(ctx, {}) /\ ctx.frames # <<>> /\ FrameType(Top(ctx))
         /\ Top(ctx) = ctx.frames[Len(ctx.frames)]
         /\ Len(ctx.frames) \in 1..Len(ctx.frames)
<1>1. Len(ctx.frames) \in Nat /\ FramesType(ctx.frames)
  BY SeqParts DEF Going, Sound, ContextType, FramesType
<1>2. Len(<<>>) = 0
  OBVIOUS
<1>3. Len(ctx.frames) \in 1..Len(ctx.frames) /\ ctx.frames # <<>>
  BY <1>1, <1>2 DEF Going
<1>4. Top(ctx) = ctx.frames[Len(ctx.frames)]
  BY DEF Top, Last
<1>5. QED
  BY <1>1, <1>3, <1>4 DEF Going, FramesType

LEMMA CloseScopeStep ==
  ASSUME Going(ctx), CloseScope
  PROVE  Going(ctx')
<1>1. PICK b : b = Leave(ctx)
  OBVIOUS
<1>2. Top(ctx).kind = "scope" /\ Awaited(Top(ctx)) = {}
  BY DEF CloseScope, Awaited
<1>3. Sound(b, Awaited(Top(ctx))) /\ Len(b.frames) >= 1
  <2>1. Sound(ctx, {}) /\ ctx.frames # <<>> /\ Top(ctx).kind \notin {"proc", "defer"}
    BY <1>2, Inside
  <2>2. QED
    BY <1>1, <2>1, LeaveSound
<1>4. Going(b)
  BY <1>2, <1>3 DEF Going
<1>5. ctx' = AddStmt(b, Stmt("scope", Top(ctx).n, Top(ctx).list, <<>>))
  BY <1>1 DEF CloseScope
<1>6. QED
  BY <1>4, <1>5, StmtRead

LEMMA CloseThenStep ==
  ASSUME Going(ctx), CloseThen
  PROVE  Going(ctx')
<1>1. PICK fr : fr = Top(ctx) /\ fr.kind = "then" /\ fr.l1 \in Nat /\ fr.l2 \in Nat /\ fr.n \in Nat
  BY Inside DEF CloseThen, FrameType
<1>2. Awaited(fr) = {fr.l1, fr.l2} /\ fr.l1 # fr.l2
  <2>1. fr.l1 # fr.l2
    BY <1>1, Inside DEF Sound, LabelsPlaced
  <2>2. QED
    BY <1>1, <2>1 DEF Awaited
<1>3. PICK b : b = Leave(ctx)
  OBVIOUS
<1>4. Sound(b, {fr.l1, fr.l2}) /\ Len(b.frames) >= 1
  <2>1. Sound(ctx, {}) /\ ctx.frames # <<>> /\ Top(ctx).kind \notin {"proc", "defer"}
    BY <1>1, Inside
  <2>2. QED
    BY <1>1, <1>2, <1>3, <2>1, LeaveSound
<1>5. PICK c : c = JumpThenLabel(b, fr.l2, fr.l1)
  OBVIOUS
<1>6. Sound(c, {fr.l2}) /\ Len(c.frames) >= 1
  <2>1. Findable(b, {fr.l1, fr.l2}, fr.l2)
    BY DEF Findable
  <2>2. Sound(c, {fr.l1, fr.l2} \ {fr.l1}) /\ Len(c.frames) >= 1
    BY <1>1, <1>4, <1>5, <2>1, Jumped
  <2>3. {fr.l1, fr.l2} \ {fr.l1} = {fr.l2}
    BY <1>2
  <2>4. QED
    BY <2>2, <2>3
<1>7. PICK f : f = [Frame("else", fr.n, fr.l1, fr.l2, c.frameSize) EXCEPT !.then = fr.list]
  OBVIOUS
<1>8. FreshFrame(f, "else", fr.l1, fr.l2, c.frameSize)
  <2>1. c.frameSize \in Nat
    BY <1>6 DEF Sound, ContextType
  <2>2. FreshFrame(Frame("else", fr.n, fr.l1, fr.l2, c.frameSize), "else", fr.l1, fr.l2, c.frameSize)
    BY <1>1, <2>1, NewFrame DEF BodyKinds
  <2>3. QED
    BY <1>7, <2>2, ElseFrame
<1>9. Awaited(f) = {fr.l2}
  BY <1>8 DEF FreshFrame, Awaited
<1>10. Sound(Enter(c, f), {fr.l2} \ Awaited(f)) /\ Len(Enter(c, f).frames) >= 1
  <2>1. /\ FrameType(f) /\ f.kind = "else" /\ f.size = c.frameSize /\ f.vars = {} /\ f.defers = <<>>
    BY <1>8 DEF FreshFrame
  <2>2. QED
    BY <1>6, <1>9, <2>1, EnterSound
<1>11. Going(Enter(c, f))
  <2>1. {fr.l2} \ Awaited(f) = {}
    BY <1>9
  <2>2. QED
    BY <1>10, <2>1 DEF Going
<1>12. ctx' = Enter(c, f)
  BY <1>1, <1>3, <1>5, <1>7 DEF CloseThen
<1>13. QED
  BY <1>11, <1>12

LEMMA CloseIfStep ==
  ASSUME Going(ctx), CloseIf
  PROVE  Going(ctx')
<1>1. PICK fr : fr = Top(ctx) /\ fr.kind \in {"if", "else"} /\ fr.l2 \in Nat
  BY Inside DEF CloseIf, FrameType
<1>2. Awaited(fr) = {fr.l2}
  BY <1>1 DEF Awaited
<1>3. PICK b : b = Leave(ctx)
  OBVIOUS
<1>4. Sound(b, {fr.l2}) /\ Len(b.frames) >= 1
  <2>1. Sound(ctx, {}) /\ ctx.frames # <<>> /\ Top(ctx).kind \notin {"proc", "defer"}
    BY <1>1, Inside
  <2>2. QED
    BY <1>1, <1>2, <1>3, <2>1, LeaveSound
<1>5. PICK c : c = JumpThenLabel(b, fr.l2, fr.l2)
  OBVIOUS
<1>6. Going(c)
  <2>1. Findable(b, {fr.l2}, fr.l2)
    BY DEF Findable
  <2>2. Sound(c, {fr.l2} \ {fr.l2}) /\ Len(c.frames) >= 1
    BY <1>1, <1>4, <1>5, <2>1, Jumped
  <2>3. {fr.l2} \ {fr.l2} = {}
    OBVIOUS
  <2>4. QED
    BY <2>2, <2>3 DEF Going
<1>7. PICK stmt : ctx' = AddStmt(c, stmt)
  BY <1>1, <1>3, <1>5 DEF CloseIf
<1>8. QED
  BY <1>6, <1>7, StmtRead

LEMMA CloseWhileStep ==
  ASSUME Going(ctx), CloseWhile
  PROVE  Going(ctx')
<1>1. PICK fr : fr = Top(ctx) /\ fr.kind = "while" /\ fr.l1 \in Nat /\ fr.l2 \in Nat
  BY Inside DEF CloseWhile, FrameType
<1>2. Awaited(fr) = {fr.l2}
  BY <1>1 DEF Awaited
<1>3. PICK b : b = Leave(ctx)
  OBVIOUS
<1>4. Sound(b, {fr.l2}) /\ Len(b.frames) >= 1 /\ Findable(b, {}, fr.l1)
  <2>1. Sound(ctx, {}) /\ ctx.frames # <<>> /\ Top(ctx).kind \notin {"proc", "defer"} /\ Top(ctx).kind = "while"
    BY <1>1, Inside
  <2>2. QED
    BY <1>1, <1>2, <1>3, <2>1, LeaveSound
<1>5. PICK c : c = JumpThenLabel(b, fr.l1, fr.l2)
  OBVIOUS
<1>6. Going(c)
  <2>1. Findable(b, {fr.l2}, fr.l1)
    BY <1>4 DEF Findable
  <2>2. Sound(c, {fr.l2} \ {fr.l2}) /\ Len(c.frames) >= 1
    BY <1>1, <1>4, <1>5, <2>1, Jumped
  <2>3. {fr.l2} \ {fr.l2} = {}
    OBVIOUS
  <2>4. QED
    BY <2>2, <2>3 DEF Going
<1>7. PICK stmt : ctx' = AddStmt(c, stmt)
  BY <1>1, <1>3, <1>5 DEF CloseWhile
<1>8. QED
  BY <1>6, <1>7, StmtRead

LEMMA CloseDeferStep ==
  ASSUME Going(ctx), CloseDefer
  PROVE  Going(ctx')
<1>1. PICK b : b = Below(ctx)
  OBVIOUS
<1>2. PICK fr : fr = Top(ctx) /\ fr.kind = "defer"
  BY DEF CloseDefer
<1>3. Sound(b, {}) /\ Len(b.frames) >= 1 /\ fr.instrs \in ClosedCode
  <2>1. Sound(ctx, {}) /\ ctx.frames # <<>> /\ Last(ctx.frames) = fr
    BY <1>2, Inside DEF Top
  <2>2. QED
    BY <1>1, <1>2, <2>1, RecorderGone
<1>4. PICK d : d = WithDefer(b, fr.instrs)
  OBVIOUS
<1>5. Going(d)
  BY <1>3, <1>4, DeferRecorded DEF Going
<1>6. ctx' = AddStmt(d, Stmt("defer", fr.n, fr.list, <<>>))
  BY <1>1, <1>2, <1>4 DEF CloseDefer, Below, WithDefer
<1>7. QED
  BY <1>5, <1>6, StmtRead

(* The end of the procedure: only its own frame is left, and it waits for no *)
(* label.                                                                    *)
LEMMA ProcClosed ==
  ASSUME NEW c, Going(c), Len(c.frames) = 1
  PROVE  c.code \in ClosedCode
<1>1. ContextType(c) /\ Nested(c) /\ LabelsPlaced(c, {}) /\ 1 \in 1..Len(c.frames) /\ 0 \in Sinks(c)
  BY DEF Going, Sound, Sinks
<1>2. c.frames[1].kind = "proc"
  BY <1>1 DEF Nested
<1>3. Awaited(c.frames[1]) = {}
  BY <1>2 DEF Awaited
<1>4. SinkAt(c, 0) = c.code
  BY DEF SinkAt
<1>5. UniqueLabels(c.code)
  BY <1>1, <1>4 DEF LabelsPlaced
<1>6. ASSUME NEW t \in Targets(c.code)
      PROVE  t \in Labels(c.code)
  <2>1. \/ t \in Labels(c.code)
        \/ \E i \in 1..1 : t \in Awaited(c.frames[i])
    BY <1>1, <1>4 DEF LabelsPlaced
  <2>2. QED
    BY <1>3, <2>1
<1>7. QED
  BY <1>1, <1>5, <1>6 DEF ClosedCode, Closed, ContextType

LEMMA FinishStep ==
  ASSUME Going(ctx), FinishProc
  PROVE  ctx'.frames = <<>> /\ ctx'.code \in ClosedCode
<1>1. Sound(ctx, {}) /\ Top(ctx) = ctx.frames[Len(ctx.frames)] /\ Len(ctx.frames) \in 1..Len(ctx.frames)
  BY Inside
<1>2. Len(ctx.frames) = 1
  BY <1>1 DEF FinishProc, Sound, Nested
<1>3. PICK out : out = EmitDefers(ctx, 0)
  OBVIOUS
<1>4. Sound(out, {}) /\ Grown(ctx, out)
  <2>1. 0 \in 0..Len(ctx.frames)
    BY <1>2
  <2>2. QED
    BY <1>1, <1>3, <2>1, DefersSound
<1>5. Len(out.frames) = 1
  BY <1>2, <1>4 DEF Grown, SameFrames
<1>6. Recorders(out) = {}
  <2>1. DOMAIN out.frames = 1..1
    BY <1>4, <1>5, SeqParts DEF Sound, ContextType, FramesType
  <2>2. out.frames[1].kind = "proc"
    BY <1>4, <1>5 DEF Sound, Nested
  <2>3. QED
    BY <2>1, <2>2 DEF Recorders
<1>7. PICK c : c = IF out.hasReturn THEN out ELSE Emit(out, I("ret", 0, NoSlot))
  OBVIOUS
<1>8. Going(c) /\ Len(c.frames) = 1
  <2>1. CASE out.hasReturn
    <3>1. c = out
      BY <1>7, <2>1
    <3>2. QED
      BY <1>4, <1>5, <3>1 DEF Going
  <2>2. CASE ~out.hasReturn
    <3>1. PICK ret \in Instr : ret = I("ret", 0, NoSlot) /\ ret.op = "ret"
      BY Instruction
    <3>2. c = Emit(out, ret)
      BY <1>7, <2>2, <3>1
    <3>3. Sound(c, {}) /\ Grown(out, c)
      BY <1>4, <1>6, <3>1, <3>2, EmitSound
    <3>4. QED
      BY <1>5, <3>3 DEF Going, Grown, SameFrames
  <2>3. QED
    BY <2>1, <2>2
<1>9. c.code \in ClosedCode
  BY <1>8, ProcClosed
<1>10. ctx'.frames = <<>> /\ ctx'.code = c.code
  <2>1. ctx' = [c EXCEPT !.source = Top(ctx).list, !.frames = <<>>]
    BY <1>3, <1>7 DEF FinishProc
  <2>2. c = Context(c.frames, c.code, c.hasReturn, c.labels, c.frameSize, c.nodes, c.source)
    BY <1>8 DEF Going, Sound, ContextType
  <2>3. PICK list : list = Top(ctx).list
    OBVIOUS
  <2>4. [c EXCEPT !.source = list] = Context(c.frames, c.code, c.hasReturn, c.labels, c.frameSize, c.nodes, list)
    BY <2>2, ContextUpdate
  <2>5. PICK x : x = [c EXCEPT !.source = list]
    OBVIOUS
  <2>6. /\ x = Context(x.frames, x.code, x.hasReturn, x.labels, x.frameSize, x.nodes, x.source)
        /\ x.code = c.code
    BY <2>4, <2>5 DEF Context
  <2>7. ctx' = [x EXCEPT !.frames = <<>>]
    BY <2>1, <2>3, <2>5
  <2>8. ctx' = Context(<<>>, x.code, x.hasReturn, x.labels, x.frameSize, x.nodes, x.source)
    BY <2>6, <2>7, ContextUpdate
  <2>9. QED
    BY <2>6, <2>8 DEF Context
<1>11. QED
  BY <1>9, <1>10

(* The procedure begins with the label of its first block.                   *)
LEMMA Started ==
  ASSUME LoweringInit
  PROVE  Going(ctx)
<1>1. PICK f : f = Frame("proc", 0, 0, 0, 0) /\ FreshFrame(f, "proc", 0, 0, 0)
  BY NewFrame DEF BodyKinds
<1>2. PICK none : none = <<>>
  OBVIOUS
<1>3. PICK fs : fs = <<f>> /\ IsSeq(fs) /\ Len(fs) = 1 /\ fs[1] = f
  <2>1. <<f>> \in Seq({f}) /\ Len(<<f>>) = 1 /\ <<f>>[1] = f
    OBVIOUS
  <2>2. QED
    BY <2>1, SeqOfAnything
<1>4. PICK b : b = Context(fs, none, FALSE, 2, 0, 0, none)
  OBVIOUS
<1>5. /\ b.frames = fs /\ b.code = none /\ b.hasReturn = FALSE /\ b.labels = 2
      /\ b.frameSize = 0 /\ b.nodes = 0 /\ b.source = none
  BY <1>4 DEF Context
<1>6. ContextType(b)
  <2>1. FramesType(fs)
    <3>1. \A i \in 1..1 : i = 1
      OBVIOUS
    <3>2. FrameType(f)
      BY <1>1 DEF FreshFrame
    <3>3. QED
      BY <1>3, <3>1, <3>2 DEF FramesType
  <2>2. none \in Seq(Instr)
    BY <1>2, EmptySeq
  <2>3. b.hasReturn \in BOOLEAN /\ b.labels \in Nat /\ b.frameSize \in Nat /\ b.nodes \in Nat
    <3>1. b.hasReturn \in BOOLEAN
      BY <1>5, Zenon
    <3>2. b.labels \in Nat /\ b.frameSize \in Nat /\ b.nodes \in Nat
      BY <1>5
    <3>3. QED
      BY <3>1, <3>2
  <2>4. b = Context(b.frames, b.code, b.hasReturn, b.labels, b.frameSize, b.nodes, b.source)
    BY <1>4, <1>5, Zenon
  <2>5. FramesType(b.frames) /\ b.code \in Seq(Instr)
    BY <1>5, <2>1, <2>2, Zenon
  <2>6. QED
    BY <2>3, <2>4, <2>5, Zenon DEF ContextType
<1>7. Nested(b) /\ SlotsStacked(b)
  <2>1. \A i \in 1..1 : i = 1
    OBVIOUS
  <2>2. f.kind = "proc" /\ f.size = 0 /\ f.vars = {}
    BY <1>1 DEF FreshFrame
  <2>3. QED
    BY <1>3, <1>5, <2>1, <2>2 DEF Nested, SlotsStacked
<1>8. LabelsPlaced(b, {1})
  <2>1. \A i \in 1..1 : i = 1
    OBVIOUS
  <2>2. f.kind = "proc" /\ f.defers = <<>> /\ Awaited(f) = {}
    BY <1>1 DEF FreshFrame, Awaited
  <2>3. \A k \in 0..1 : k = 0 \/ k = 1
    OBVIOUS
  <2>4. \A k \in Sinks(b) : SinkAt(b, k) = <<>>
    BY <1>2, <1>3, <1>5, <2>2, <2>3 DEF Sinks, SinkAt
  <2>5. UniqueLabels(<<>>) /\ Labels(<<>>) = {} /\ Targets(<<>>) = {}
    BY DEF UniqueLabels, Labels, Targets
  <2>6. {1} \subseteq 0..b.labels-1
    BY <1>5
  <2>7. \A x \in DOMAIN <<>> : FALSE
    OBVIOUS
  <2>8. Len(b.frames) = 1 /\ b.frames[1] = f
    BY <1>3, <1>5
  <2>9. QED
    BY <2>1, <2>2, <2>4, <2>5, <2>6, <2>7, <2>8 DEF LabelsPlaced
<1>9. Sound(b, {1})
  BY <1>5, <1>6, <1>7, <1>8 DEF Sound, FlagMeansReturned
<1>10. PICK lab \in Instr : lab = I("label", 1, NoSlot) /\ lab.op = "label" /\ lab.arg = 1
  BY Instruction
<1>11. Sound(Emit(b, lab), {}) /\ Grown(b, Emit(b, lab))
  <2>1. Sound(Emit(b, lab), {1} \ {1}) /\ Grown(b, Emit(b, lab))
    BY <1>9, <1>10, EmitSound
  <2>2. {1} \ {1} = {}
    OBVIOUS
  <2>3. QED
    BY <2>1, <2>2
<1>12. ctx = Emit(b, lab)
  BY <1>1, <1>2, <1>3, <1>4, <1>10 DEF LoweringInit, Context
<1>13. QED
  BY <1>3, <1>5, <1>11, <1>12 DEF Going, Grown, SameFrames

-----------------------------------------------------------------------------
(* The theorems.                                                             *)
LEMMA InvStarts == LoweringInit => LoweringInv
<1>1. SUFFICES ASSUME LoweringInit PROVE LoweringInv
  OBVIOUS
<1>2. Going(ctx)
  BY <1>1, Started
<1>3. ~Compiled
  BY <1>2, Inside DEF Compiled
<1>4. QED
  BY <1>2, <1>3 DEF LoweringInv

LEMMA InvKept == LoweringInv /\ [LoweringNext]_ctx => LoweringInv'
<1>1. SUFFICES ASSUME LoweringInv, [LoweringNext]_ctx PROVE LoweringInv'
  OBVIOUS
<1>2. Going(ctx') => LoweringInv'
  <2>1. SUFFICES ASSUME Going(ctx') PROVE LoweringInv'
    OBVIOUS
  <2>2. Len(<<>>) = 0
    OBVIOUS
  <2>3. ctx'.frames # <<>>
    BY <2>1, <2>2 DEF Going
  <2>4. QED
    BY <2>1, <2>3 DEF LoweringInv, Compiled
<1>3. LoweringNext => Compiling
  BY DEF LoweringNext, CompileCall, CompileVar, CompileUse, CompileReturn, CompileReturnValue,
         ReturnWith, OpenScope, OpenIf, OpenWhile, OpenDefer, CloseScope, CloseThen, CloseIf,
         CloseWhile, CloseDefer, FinishProc, Deeper, Room
<1>4. Compiling => Going(ctx)
  BY <1>1 DEF LoweringInv, Compiled, Compiling
<1>5. CASE CompileCall
  BY <1>2, <1>3, <1>4, <1>5, CallStep DEF LoweringNext
<1>6. CASE CompileVar
  BY <1>2, <1>3, <1>4, <1>6, VarStep DEF LoweringNext
<1>7. CASE CompileUse
  BY <1>2, <1>3, <1>4, <1>7, UseStep DEF LoweringNext
<1>8. CASE CompileReturn \/ CompileReturnValue
  BY <1>2, <1>3, <1>4, <1>8, ReturnsStep DEF LoweringNext
<1>9. CASE OpenScope
  BY <1>2, <1>3, <1>4, <1>9, OpenScopeStep DEF LoweringNext
<1>10. CASE OpenIf
  BY <1>2, <1>3, <1>4, <1>10, OpenIfStep DEF LoweringNext
<1>11. CASE OpenWhile
  BY <1>2, <1>3, <1>4, <1>11, OpenWhileStep DEF LoweringNext
<1>12. CASE OpenDefer
  BY <1>2, <1>3, <1>4, <1>12, OpenDeferStep DEF LoweringNext
<1>13. CASE CloseScope
  BY <1>2, <1>3, <1>4, <1>13, CloseScopeStep DEF LoweringNext
<1>14. CASE CloseThen
  BY <1>2, <1>3, <1>4, <1>14, CloseThenStep DEF LoweringNext
<1>15. CASE CloseIf
  BY <1>2, <1>3, <1>4, <1>15, CloseIfStep DEF LoweringNext
<1>16. CASE CloseWhile
  BY <1>2, <1>3, <1>4, <1>16, CloseWhileStep DEF LoweringNext
<1>17. CASE CloseDefer
  BY <1>2, <1>3, <1>4, <1>17, CloseDeferStep DEF LoweringNext
<1>18. CASE FinishProc
  <2>1. Going(ctx)
    BY <1>3, <1>4, <1>18 DEF LoweringNext
  <2>2. ctx'.frames = <<>> /\ ctx'.code \in ClosedCode
    BY <1>18, <2>1, FinishStep
  <2>3. QED
    BY <2>2 DEF LoweringInv, Compiled
<1>19. CASE UNCHANGED ctx
  BY <1>1, <1>19 DEF LoweringInv, Compiled
<1>20. QED
  BY <1>1, <1>5, <1>6, <1>7, <1>8, <1>9, <1>10, <1>11, <1>12, <1>13, <1>14, <1>15, <1>16, <1>17,
     <1>18, <1>19 DEF LoweringNext

(* The shape of the compiler's context, with what its labels and slots mean, *)
(* is kept by every step that compiles a statement or returns from one.      *)
THEOREM LoweringInvariant == LoweringSpec => []LoweringInv
<1>1. QED
  BY InvStarts, InvKept, PTL DEF LoweringSpec

(* Every block of a procedure is emitted once and every jump of the finished *)
(* code has its block, however its branches, loops and deferred statements   *)
(* are nested and copied (ir.cpp nkir_instrArrayDupInto, compiler.cpp        *)
(* emitDefers).                                                              *)
THEOREM LabelsAlwaysResolve == LoweringSpec => []LabelsResolve
<1>1. LoweringInv => LabelsResolve
  <2>1. SUFFICES ASSUME LoweringInv PROVE LabelsResolve
    OBVIOUS
  <2>2. ctx.code \in Seq(Instr) /\ UniqueLabels(ctx.code)
    <3>1. CASE Compiled
      BY <2>1, <3>1 DEF LoweringInv, ClosedCode, Closed
    <3>2. CASE ~Compiled
      <4>1. ContextType(ctx) /\ LabelsPlaced(ctx, {}) /\ 0 \in Sinks(ctx) /\ SinkAt(ctx, 0) = ctx.code
        BY <2>1, <3>2, SeqParts DEF LoweringInv, Going, Sound, Sinks, SinkAt, ContextType, FramesType
      <4>2. QED
        BY <4>1 DEF LabelsPlaced, ContextType
    <3>3. QED
      BY <3>1, <3>2
  <2>3. DOMAIN ctx.code = 1..Len(ctx.code)
    BY <2>2
  <2>4. Compiled => Targets(ctx.code) \subseteq Labels(ctx.code)
    BY <2>1 DEF LoweringInv, ClosedCode, Closed
  <2>5. QED
    BY <2>2, <2>3, <2>4 DEF LabelsResolve, UniqueLabels
<1>2. QED
  BY <1>1, LoweringInvariant, PTL

(* Variables that can be named at the same time have slots of their own: a   *)
(* scope gives back its slots, and no others, when the compiler leaves it    *)
(* (ir.cpp nkir_enter, nkir_leave, nkir_makeLocalVar).                       *)
THEOREM SlotsAlwaysDisjoint == LoweringSpec => []SlotsDisjoint
<1>1. LoweringInv => SlotsDisjoint
  <2>1. SUFFICES ASSUME LoweringInv, NEW v \in Visible(ctx), NEW w \in Visible(ctx), v[2] = w[2]
                 PROVE  v = w
    BY DEF SlotsDisjoint
  <2>2. Going(ctx)
    <3>1. ~Compiled
      BY <2>1 DEF Visible, Compiled
    <3>2. QED
      BY <2>1, <3>1 DEF LoweringInv
  <2>3. PICK n \in Nat : n = Len(ctx.frames) /\ DOMAIN ctx.frames = 1..n
    BY <2>2, SeqParts DEF Going, Sound, ContextType, FramesType
  <2>4. PICK i \in 1..n, j \in 1..n : v \in ctx.frames[i].vars /\ w \in ctx.frames[j].vars
    BY <2>1, <2>3 DEF Visible
  <2>5. SlotsStacked(ctx) /\ \A k \in 1..n : ctx.frames[k].size \in Nat
    BY <2>2, <2>3 DEF Going, Sound, ContextType, FramesType, FrameType
  <2>6. v[2] \in Nat /\ w[2] \in Nat
    BY <2>1, <2>2, VisibleTyped
  <2>7. ~(i < j)
    BY <2>1, <2>3, <2>4, <2>5, <2>6 DEF SlotsStacked
  <2>8. ~(j < i)
    BY <2>1, <2>3, <2>4, <2>5, <2>6 DEF SlotsStacked
  <2>9. i = j
    BY <2>7, <2>8
  <2>10. QED
    BY <2>1, <2>3, <2>4, <2>5, <2>9 DEF SlotsStacked
<1>2. QED
  BY <1>1, LoweringInvariant, PTL

(* The flag by which the compiler leaves out deferred statements and the     *)
(* final return is set only when the code of the procedure ends in a block   *)
(* that has returned (compiler.cpp emit, emitDefers), unless a return may    *)
(* stand in a deferred statement.                                            *)
THEOREM ReturnFlagAlwaysSound ==
  ASSUME ~ReturnInDefer
  PROVE  LoweringSpec => []ReturnFlagSound
<1>1. LoweringInv => ReturnFlagSound
  <2>1. SUFFICES ASSUME LoweringInv, Compiling, ctx.hasReturn, Recorders(ctx) = {}
                 PROVE  \E i \in DOMAIN Sink : /\ Sink[i].op = "ret"
                                               /\ \A j \in i..Len(Sink) : Sink[j].op # "label"
    BY DEF ReturnFlagSound
  <2>2. Sink = ctx.code
    BY <2>1 DEF Sink
  <2>3. ContextType(ctx) /\ FlagMeansReturned(ctx)
    BY <2>1 DEF LoweringInv, Compiling, Compiled, Going, Sound
  <2>4. DOMAIN ctx.code = 1..Len(ctx.code)
    BY <2>3 DEF ContextType
  <2>5. QED
    BY <2>1, <2>2, <2>3, <2>4 DEF FlagMeansReturned, Returned
<1>2. QED
  BY <1>1, LoweringInvariant, PTL
=============================================================================
