----------------------------- MODULE AuthzCheck -----------------------------
(***************************************************************************)
(* The authorization engine: Check walks the userset rewrites of a fixed   *)
(* namespace over the relation tuples, depth first, with a set of the      *)
(* nodes on the path that prunes cycles, a memo of what was denied and a   *)
(* cap on the depth.  A step is one read of the tuple store or one node    *)
(* visited; the store is read once per rewrite on an autocommit            *)
(* connection, so other requests' tuple writes commit in between.          *)
(*                                                                         *)
(* Every rewrite is a union, so the first grant ends the whole Check: the  *)
(* memo entries for granted nodes are never read, and memo holds the       *)
(* denied ones only.                                                       *)
(***************************************************************************)
EXTENDS Naturals, Sequences

CONSTANTS
    Objects,     \* objects and subjects, e.g. a tenant, a document, a user
    Type,        \* the type of each object
    Wildcards,   \* the objects with id "*"
    Relations,   \* relation names
    Namespace,   \* the definition of each relation, by <<type, relation>>
    Tuples,      \* the tuples that may be stored
    Stores,      \* what relation_tuples may hold when the engine is created
    Commits,     \* transactions on relation_tuples that may commit meanwhile
    MaxCommits,  \* bound: how many do
    MaxDepth,    \* Engine.MaxDepth
    Queries,     \* the nodes Check is asked about
    Subject,     \* the user it is asked for
    Failures     \* may a read of the store fail?

Concrete == ""      \* the SubjectRelation of a tuple that names its subject

Node == [obj : Objects, rel : Relations]
Tuple == [obj : Objects, rel : Relations,
          subj : Objects, srel : Relations \cup {Concrete}]
Rewrite == [kind : {"this"}, tupleset : {Concrete}, relation : {Concrete}]
    \cup [kind : {"computed"}, tupleset : {Concrete}, relation : Relations]
    \cup [kind : {"from"}, tupleset : Relations, relation : Relations]
RelationDef == [rewrites : Seq(Rewrite), wild : SUBSET {Type[o] : o \in Objects}]

ASSUME ModelAssumption ==
    /\ Concrete \notin Relations
    /\ Tuples \subseteq Tuple
    /\ Queries \subseteq Node
    /\ MaxDepth \in Nat

ASSUME NamespaceAssumption ==
    \A k \in DOMAIN Namespace : Namespace[k] \in RelationDef

ASSUME StoreAssumption ==
    /\ Stores \subseteq SUBSET Tuples
    /\ Commits \subseteq [add : SUBSET Tuples, del : SUBSET Tuples]
    /\ MaxCommits \in Nat
    /\ Failures \in BOOLEAN

VARIABLES
    tuples,      \* the rows of relation_tuples
    commits,     \* transactions committed so far
    root,        \* the node asked about
    stack,       \* the frames of check, the root's first
    memo,        \* nodes denied during this Check
    outcome,     \* of the Check
    ever,        \* history: the tuples stored at some moment of this Check
    always       \* history: the tuples stored throughout it

vars == <<tuples, commits, root, stack, memo, outcome, ever, always>>

Outcomes == {"idle", "running", "granted", "denied", "error"}
-----------------------------------------------------------------------------
\* The namespace.

Key(n) == <<Type[n.obj], n.rel>>
Defined(n) == Key(n) \in DOMAIN Namespace
Rewrites(n) == IF Defined(n) THEN Namespace[Key(n)].rewrites ELSE <<>>

\* ReadByObjectRelation, for the clause rw of node n.
Reads(rw, n, T) ==
    {t \in T : t.obj = n.obj /\ t.rel = IF rw.kind = "this" THEN n.rel ELSE rw.tupleset}

\* Tuple t on n names the subject, by id or as a wildcard n's model permits.
Names(t, n) ==
    /\ t.srel = Concrete
    /\ \/ t.subj = Subject
       \/ /\ t.subj \in Wildcards
          /\ Type[t.subj] = Type[Subject]
          /\ Type[Subject] \in Namespace[Key(n)].wild

\* Evaluating clause rw, tuple t leads to another node.
Leads(rw, t) == IF rw.kind = "this" THEN t.srel # Concrete ELSE t.srel = Concrete
Target(rw, t) == [obj |-> t.subj, rel |-> IF rw.kind = "this" THEN t.srel ELSE rw.relation]
Sibling(rw, n) == [obj |-> n.obj, rel |-> rw.relation]
-----------------------------------------------------------------------------
\* What Check decides: the least set of nodes closed under the rewrites.

Checked == {n \in Node : Defined(n)}

Holder(n, T) ==
    \E i \in DOMAIN Rewrites(n) :
        /\ Rewrites(n)[i].kind = "this"
        /\ \E t \in Reads(Rewrites(n)[i], n, T) : Names(t, n)

Child(m, n, T) ==
    \E i \in DOMAIN Rewrites(n) : LET rw == Rewrites(n)[i] IN
        \/ rw.kind = "computed" /\ m = Sibling(rw, n)
        \/ /\ rw.kind # "computed"
           /\ \E t \in Reads(rw, n, T) : Leads(rw, t) /\ m = Target(rw, t)

Closed(S, T) ==
    \A n \in Checked \ S : ~Holder(n, T) /\ \A m \in S : ~Child(m, n, T)

Member(n, T) == \A S \in SUBSET Checked : Closed(S, T) => n \in S
-----------------------------------------------------------------------------
Frame(n) == [node |-> n, next |-> 1, todo |-> {}, err |-> FALSE]

Top == stack[Len(stack)]
Put(f) == [stack EXCEPT ![Len(stack)] = f]
Visited == {stack[i].node : i \in DOMAIN stack}

\* Mutant: check does not look the relation up before it walks its clauses.
VerdictUnlooked(m) ==
    IF Len(stack) > MaxDepth THEN "error"
    ELSE IF m \in memo \cup Visited THEN "deny" ELSE "enter"

\* The prologue of check, for a node called from the top frame.
Verdict(m) ==
    IF Len(stack) > MaxDepth THEN "error"
    ELSE IF m \in memo \cup Visited THEN "deny"
    ELSE IF Defined(m) THEN "enter" ELSE "error"

Call(m, f) ==
    stack' = CASE Verdict(m) = "enter" -> Append(Put(f), Frame(m))
               [] Verdict(m) = "deny" -> Put(f)
               [] Verdict(m) = "error" -> Put([f EXCEPT !.err = TRUE])

\* Check is called.
Ask(q) ==
    /\ outcome # "running"
    /\ root' = q
    /\ IF Defined(q)
       THEN stack' = <<Frame(q)>> /\ outcome' = "running"
       ELSE stack' = <<>> /\ outcome' = "error"
    /\ memo' = {} /\ ever' = tuples /\ always' = tuples
    /\ UNCHANGED <<tuples, commits>>

\* The next clause of the top node's union.
Clause == Rewrites(Top.node)[Top.next]
AtClause == outcome = "running" /\ Top.todo = {} /\ Top.next \in DOMAIN Rewrites(Top.node)
Begun == [Top EXCEPT !.next = @ + 1]

EvalComputed ==
    /\ AtClause /\ Clause.kind = "computed"
    /\ Call(Sibling(Clause, Top.node), Begun)
    /\ UNCHANGED <<tuples, commits, root, memo, outcome, ever, always>>

Read ==
    /\ AtClause /\ Clause.kind # "computed"
    /\ \/ stack' = Put([Begun EXCEPT !.todo = Reads(Clause, Top.node, tuples)])
       \/ Failures /\ stack' = Put([Begun EXCEPT !.err = TRUE])
    /\ UNCHANGED <<tuples, commits, root, memo, outcome, ever, always>>

\* The loop over the tuples read, in the order the store returned them.
Current == Rewrites(Top.node)[Top.next - 1]
Granting(t) == Current.kind = "this" /\ Names(t, Top.node)

Grant ==
    /\ outcome = "running"
    /\ \E t \in Top.todo : Granting(t)
    /\ outcome' = "granted" /\ stack' = <<>> /\ memo' = {}
    /\ UNCHANGED <<tuples, commits, root, ever, always>>

Visit ==
    /\ outcome = "running"
    /\ \E t \in Top.todo :
          LET f == [Top EXCEPT !.todo = @ \ {t}] IN
          /\ ~Granting(t)
          /\ IF Leads(Current, t) THEN Call(Target(Current, t), f) ELSE stack' = Put(f)
    /\ UNCHANGED <<tuples, commits, root, memo, outcome, ever, always>>

\* Mutant: check returns (false, nil), dropping the error.
PoppedQuietly == SubSeq(stack, 1, Len(stack) - 1)

\* Mutant: the caller tries all its clauses again after an error.
PoppedRetrying ==
    [i \in 1..(Len(stack) - 1) |->
        IF i = Len(stack) - 1 /\ Top.err THEN Frame(stack[i].node) ELSE stack[i]]

\* No clause granted: the node is denied, or its first error goes up.
Popped ==
    [i \in 1..(Len(stack) - 1) |->
        IF i = Len(stack) - 1 /\ Top.err THEN [stack[i] EXCEPT !.err = TRUE] ELSE stack[i]]

Remembered == IF Top.err THEN memo ELSE memo \cup {Top.node}

Return ==
    /\ outcome = "running" /\ Top.todo = {}
    /\ Top.next \notin DOMAIN Rewrites(Top.node)
    /\ stack' = Popped
    /\ IF Len(stack) = 1
       THEN /\ outcome' = IF Top.err THEN "error" ELSE "denied"
            /\ memo' = {}
       ELSE memo' = Remembered /\ UNCHANGED outcome
    /\ UNCHANGED <<tuples, commits, root, ever, always>>

\* A transaction of another request commits.
Commit(c) ==
    /\ commits < MaxCommits
    /\ commits' = commits + 1
    /\ tuples' = (tuples \ c.del) \cup c.add
    /\ ever' = ever \cup tuples'
    /\ always' = always \cap tuples'
    /\ UNCHANGED <<root, stack, memo, outcome>>
-----------------------------------------------------------------------------
Init ==
    /\ tuples \in Stores /\ commits = 0
    /\ root \in Queries /\ stack = <<>> /\ memo = {} /\ outcome = "idle"
    /\ ever = tuples /\ always = tuples

Step == EvalComputed \/ Read \/ Grant \/ Visit \/ Return

Next ==
    \/ \E q \in Queries : Ask(q)
    \/ Step
    \/ \E c \in Commits : Commit(c)

Spec == Init /\ [][Next]_vars

\* Check runs on in its goroutine whatever other requests do.
FairSpec == Spec /\ WF_vars(Step)
-----------------------------------------------------------------------------
FrameType == [node : Checked, next : Nat \ {0}, todo : SUBSET Tuples, err : BOOLEAN]

TypeOK ==
    /\ tuples \subseteq Tuples /\ commits \in 0..MaxCommits
    /\ root \in Node
    /\ stack \in Seq(FrameType)
    /\ memo \subseteq Checked
    /\ outcome \in Outcomes
    /\ (outcome = "running") = (stack # <<>>)
    /\ ever \subseteq Tuples /\ always \subseteq Tuples

\* Check answers for the store it ran on: a grant is justified by tuples that
\* were stored at some moment of the Check, and a denial without an error
\* means that the tuples stored throughout it do not make the subject a
\* member.  Cycles, the memo, the depth cap, failed reads and concurrent
\* writes change neither.
Exact ==
    /\ outcome = "granted" => Member(root, ever)
    /\ outcome = "denied" => ~Member(root, always)

\* Every Check returns, cyclic usersets included.
Returns == (outcome = "running") ~> (outcome # "running")
=============================================================================
