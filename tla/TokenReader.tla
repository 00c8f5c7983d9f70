----------------------------- MODULE TokenReader -----------------------------
(***************************************************************************)
(* What the recursive descent readers share: the tokens and the position   *)
(* among them, the value just read and whether there was an error, after   *)
(* which nothing more is read.                                             *)
(***************************************************************************)
EXTENDS Integers, Sequences

On(p, id) == p.toks[p.pos].id = id
OnAny(p, ids) == p.toks[p.pos].id \in ids
Here(p) == p.toks[p.pos].v
Fail(p) == [p EXCEPT !.err = TRUE]
Step(p) == [p EXCEPT !.pos = @ + 1]
With(p, val) == IF p.err THEN p ELSE [p EXCEPT !.val = val]
Expect(p, id) == IF p.err THEN p ELSE IF On(p, id) THEN Step(p) ELSE Fail(p)
Accept(p, id) == IF ~p.err /\ On(p, id) THEN Step(p) ELSE p
Take(p, ids) == IF p.err THEN p ELSE IF OnAny(p, ids) THEN Step(With(p, Here(p))) ELSE Fail(p)

(* What comes after, unless there was an error.                              *)
Then(p, Next(_)) == IF p.err THEN p ELSE Next(p)

RECURSIVE SkipNewlines(_)
SkipNewlines(p) == IF ~p.err /\ On(p, "Newline") THEN SkipNewlines(Step(p)) ELSE p
=============================================================================
