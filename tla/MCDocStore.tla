----------------------------- MODULE MCDocStore -----------------------------
(***************************************************************************)
(* Instances of DocStore for TLC: a store that has been in use, so that    *)
(* every kind of request finds something to work on.                       *)
(***************************************************************************)
EXTENDS DocStore, TLC

CONSTANTS r1, r2, r3, p1, p2, p3, h1, h2

Row(st, p, pinned) == [st |-> st, path |-> p, pinned |-> pinned, title |-> NoReq]
Sec(d, h, v, f) == [st |-> "row", doc |-> d, heading |-> h, content |-> NoReq,
                    verified |-> v, flagged |-> f]

\* Two live documents: 1 at p1 with two sections, 2 at p2 with a flagged one.
MCDoc0 == [d \in 1..MaxDoc |-> CASE d = 1 -> Row("live", p1, FALSE)
                                 [] d = 2 -> Row("live", p2, FALSE)
                                 [] OTHER -> NoDocRow]
MCSec0 == [s \in 1..MaxSec |-> CASE s = 1 -> Sec(1, h1, FALSE, FALSE)
                                 [] s = 2 -> Sec(1, h2, TRUE, FALSE)
                                 [] s = 3 -> Sec(2, h1, FALSE, TRUE)
                                 [] OTHER -> NoSecRow]
\* 2 depends on 1.
MCEdge0 == {[src |-> 2, tgt |-> 1, typ |-> "depends_on"]}

\* An archived document 3 of p1, its content kept, beside the live one.
MCDocArchived == [MCDoc0 EXCEPT ![3] = Row("stale", p1, FALSE)]
MCSecArchived == [MCSec0 EXCEPT ![4] = Sec(3, h1, FALSE, TRUE)]

MCModeReplace == [p \in Paths |-> IF p = p1 THEN "replace" ELSE "merge"]

MCInputs == {<<h1>>, <<h2, h1>>}
MCInputsOne == {<<h1>>}

\* One document with two sections.
MCDocSmall == [d \in 1..MaxDoc |-> IF d = 1 THEN Row("live", p1, FALSE) ELSE NoDocRow]
MCSecSmall == [s \in 1..MaxSec |-> CASE s = 1 -> Sec(1, h1, FALSE, FALSE)
                                     [] s = 2 -> Sec(1, h2, FALSE, FALSE)
                                     [] OTHER -> NoSecRow]
MCEdgeNone == {}

Edit(c, h, v) == [content |-> c, heading |-> h, verify |-> v]
MCSecEdits == {Edit(TRUE, NoHeading, FALSE), Edit(FALSE, h2, TRUE), Edit(TRUE, h2, TRUE)}
MCSecEditsOne == {Edit(TRUE, NoHeading, FALSE)}

MCSymmetry == Permutations(Reqs)

=============================================================================
