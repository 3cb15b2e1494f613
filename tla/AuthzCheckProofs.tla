-------------------------- MODULE AuthzCheckProofs --------------------------
(***************************************************************************)
(* Check is exact for every namespace, every set of tuples, every depth    *)
(* cap and any number of concurrent transactions on the tuples.            *)
(*                                                                         *)
(* The inductive invariant says three things of the frames on the stack.   *)
(* A node on it justifies the root: whoever holds the node holds the root  *)
(* (so a grant is sound).  As long as no frame has met an error, every     *)
(* clause a frame has finished, and every clause of a node in the memo,    *)
(* leads only to nodes that are in the memo or on the stack (so when the   *)
(* stack is gone the memo is closed under the rewrites and the denial is   *)
(* sound, though the memo may be wrong before: the node that was pruned    *)
(* may still be granted).  After an error some frame stays marked until    *)
(* the root returns it, and nothing is claimed of the memo.                *)
(***************************************************************************)
EXTENDS AuthzCheck, SequenceTheorems, TLAPS

\* The nodes a clause may lead to without opening the question again.
Known == memo \cup Visited

Settled(rw, n, todo, K, A) ==
    IF rw.kind = "computed" THEN Sibling(rw, n) \in K
    ELSE \A t \in Reads(rw, n, A) \ todo :
            /\ ~(rw.kind = "this" /\ Names(t, n))
            /\ Leads(rw, t) => Target(rw, t) \in K

FrameSettled(f, K, A) ==
    \A c \in 1..(f.next - 1) :
        Settled(Rewrites(f.node)[c], f.node, IF c = f.next - 1 THEN f.todo ELSE {}, K, A)

MemoSettled(M, K, A) ==
    \A n \in M : \A c \in DOMAIN Rewrites(n) : Settled(Rewrites(n)[c], n, {}, K, A)

FrameOK(f, E) ==
    /\ f.next \in 1..(Len(Rewrites(f.node)) + 1)
    /\ f.todo # {} =>
          /\ f.next > 1
          /\ Rewrites(f.node)[f.next - 1].kind # "computed"
          /\ f.todo \subseteq Reads(Rewrites(f.node)[f.next - 1], f.node, E)

Justifies(n, r, E) == \A S \in SUBSET Checked : Closed(S, E) /\ n \in S => r \in S

Clean == \A i \in DOMAIN stack : ~stack[i].err

Window == always \subseteq tuples /\ tuples \subseteq ever

Path ==
    /\ outcome = "running" => stack[1].node = root
    /\ \A i \in DOMAIN stack :
          FrameOK(stack[i], ever) /\ Justifies(stack[i].node, root, ever)

Barrier ==
    Clean => /\ \A i \in DOMAIN stack : FrameSettled(stack[i], Known, always)
             /\ MemoSettled(memo, Known, always)

Inv == TypeOK /\ Window /\ Path /\ Barrier /\ Exact
-----------------------------------------------------------------------------
\* The clauses of a node are a sequence of rewrites.
LEMMA RewritesType ==
  ASSUME NEW n
  PROVE  /\ Rewrites(n) \in Seq(Rewrite)
         /\ \A c \in DOMAIN Rewrites(n) : Rewrites(n)[c] \in Rewrite
         /\ DOMAIN Rewrites(n) = 1..Len(Rewrites(n))
         /\ Len(Rewrites(n)) \in Nat
  <1>1. Rewrites(n) \in Seq(Rewrite)
    <2>1. CASE Defined(n)
      BY <2>1, NamespaceAssumption DEF Rewrites, Defined, RelationDef
    <2>2. CASE ~Defined(n)
      BY <2>2 DEF Rewrites
    <2> QED
      BY <2>1, <2>2
  <1> QED
    BY <1>1

\* The node a clause or a tuple leads to is a node.
LEMMA TargetType ==
  ASSUME NEW n \in Node, NEW rw \in Rewrite, NEW t \in Tuples
  PROVE  /\ rw.kind = "computed" => Sibling(rw, n) \in Node
         /\ rw.kind # "computed" /\ Leads(rw, t) => Target(rw, t) \in Node
  <1>1. t \in Tuple
    BY ModelAssumption
  <1>2. rw.kind = "computed" => rw.relation \in Relations
    BY DEF Rewrite
  <1>3. rw.kind = "from" => rw.relation \in Relations
    BY DEF Rewrite
  <1>4. rw.kind \in {"this", "computed", "from"}
    BY DEF Rewrite
  <1>5. t.subj \in Objects /\ (t.srel # Concrete => t.srel \in Relations)
    BY <1>1 DEF Tuple
  <1>6. rw.kind = "computed" => Sibling(rw, n) \in Node
    BY <1>2 DEF Sibling, Node
  <1>7. rw.kind # "computed" /\ Leads(rw, t) => Target(rw, t) \in Node
    BY <1>3, <1>4, <1>5 DEF Leads, Target, Node
  <1> QED
    BY <1>6, <1>7

\* More tuples, more reads.
LEMMA ReadsMono ==
  ASSUME NEW rw, NEW n, NEW T, NEW U, T \subseteq U
  PROVE  Reads(rw, n, T) \subseteq Reads(rw, n, U)
  BY DEF Reads

\* A set closed under more tuples is closed under fewer.
LEMMA ClosedMono ==
  ASSUME NEW S, NEW T, NEW U, T \subseteq U, Closed(S, U)
  PROVE  Closed(S, T)
  <1> SUFFICES ASSUME NEW n \in Checked \ S
               PROVE  ~Holder(n, T) /\ \A m \in S : ~Child(m, n, T)
    BY DEF Closed
  <1>1. \A rw : Reads(rw, n, T) \subseteq Reads(rw, n, U)
    BY ReadsMono
  <1>2. Holder(n, T) => Holder(n, U)
    BY <1>1 DEF Holder
  <1>3. \A m : Child(m, n, T) => Child(m, n, U)
    BY <1>1 DEF Child
  <1> QED
    BY <1>2, <1>3 DEF Closed

\* So membership grows with the tuples.
LEMMA MemberMono ==
  ASSUME NEW n, NEW T, NEW U, T \subseteq U, Member(n, T)
  PROVE  Member(n, U)
  BY ClosedMono DEF Member

\* Justification survives the growth of the tuples.
LEMMA JustifiesMono ==
  ASSUME NEW n, NEW r, NEW T, NEW U, T \subseteq U, Justifies(n, r, T)
  PROVE  Justifies(n, r, U)
  BY ClosedMono DEF Justifies

\* And it passes from a node to the nodes its clauses lead to.
LEMMA JustifiesChild ==
  ASSUME NEW n \in Checked, NEW m, NEW r, NEW E, Justifies(n, r, E), Child(m, n, E)
  PROVE  Justifies(m, r, E)
  BY DEF Justifies, Closed

\* What is settled stays so when more nodes are known and fewer tuples have
\* been there throughout.
LEMMA SettledMono ==
  ASSUME NEW rw, NEW n, NEW todo, NEW K, NEW L, NEW A, NEW B,
         K \subseteq L, B \subseteq A, Settled(rw, n, todo, K, A)
  PROVE  Settled(rw, n, todo, L, B)
  <1>1. Reads(rw, n, B) \subseteq Reads(rw, n, A)
    BY ReadsMono
  <1> QED
    BY <1>1 DEF Settled

\* The same for all that a frame has finished.
LEMMA FrameSettledMono ==
  ASSUME NEW f, NEW K, NEW L, NEW A, NEW B,
         K \subseteq L, B \subseteq A, FrameSettled(f, K, A)
  PROVE  FrameSettled(f, L, B)
  BY SettledMono DEF FrameSettled

\* The same for the memo.
LEMMA MemoSettledMono ==
  ASSUME NEW M, NEW K, NEW L, NEW A, NEW B,
         K \subseteq L, B \subseteq A, MemoSettled(M, K, A)
  PROVE  MemoSettled(M, L, B)
  BY SettledMono DEF MemoSettled
-----------------------------------------------------------------------------
\* While the Check runs there is a top frame.
LEMMA TopType ==
  ASSUME TypeOK, outcome = "running"
  PROVE  /\ Len(stack) \in Nat \ {0}
         /\ Top \in FrameType
         /\ Top.node \in Checked
         /\ DOMAIN stack = 1..Len(stack)
         /\ Len(stack) \in DOMAIN stack
  <1>1. stack \in Seq(FrameType) /\ stack # <<>>
    BY DEF TypeOK
  <1>2. Len(stack) \in Nat \ {0}
    BY <1>1, EmptySeq
  <1>3. DOMAIN stack = 1..Len(stack)
    BY <1>1
  <1>4. Top \in FrameType
    BY <1>1, <1>2, ElementOfSeq DEF Top
  <1> QED
    BY <1>2, <1>3, <1>4 DEF FrameType

\* Replacing the top frame changes no other.
LEMMA PutType ==
  ASSUME TypeOK, outcome = "running", NEW f \in FrameType
  PROVE  /\ Put(f) \in Seq(FrameType)
         /\ Len(Put(f)) = Len(stack)
         /\ Put(f) # <<>>
         /\ Put(f)[Len(stack)] = f
         /\ \A j \in 1..Len(stack) : j # Len(stack) => Put(f)[j] = stack[j]
         /\ DOMAIN Put(f) = DOMAIN stack
  <1>1. stack \in Seq(FrameType)
    BY DEF TypeOK
  <1>2. Len(stack) \in Nat \ {0}
    BY TopType
  <1>3. /\ Put(f) \in Seq(FrameType)
        /\ Len(Put(f)) = Len(stack)
        /\ Put(f)[Len(stack)] = f
        /\ \A j \in 1..Len(stack) : j # Len(stack) => Put(f)[j] = stack[j]
    BY <1>1, <1>2, ExceptSeq DEF Put
  <1>4. Put(f) # <<>>
    BY <1>2, <1>3
  <1>5. DOMAIN Put(f) = DOMAIN stack
    BY <1>1, <1>3
  <1> QED
    BY <1>3, <1>4, <1>5

\* What a step of the engine leaves alone.
Outside == UNCHANGED <<tuples, commits, root, ever, always>>
Quiet == Outside /\ UNCHANGED <<memo, outcome>>

\* The top frame moves on: f is well formed, keeps an error, and what it has
\* finished is settled.
LEMMA PutFrame ==
  ASSUME Inv, outcome = "running", NEW f \in FrameType, f.node = Top.node,
         FrameOK(f, ever), Top.err => f.err,
         Clean /\ ~f.err => FrameSettled(f, Known, always),
         stack' = Put(f), Quiet
  PROVE  Inv'
  <1>0. /\ TypeOK /\ Window /\ Path /\ Barrier /\ Exact
        /\ tuples' = tuples /\ commits' = commits /\ root' = root /\ ever' = ever
        /\ always' = always /\ memo' = memo /\ outcome' = outcome
    BY DEF Inv, Quiet, Outside
  <1>1. /\ stack' \in Seq(FrameType) /\ stack' # <<>>
        /\ Len(stack') = Len(stack) /\ DOMAIN stack' = DOMAIN stack
        /\ stack'[Len(stack)] = f
        /\ \A j \in 1..Len(stack) : j # Len(stack) => stack'[j] = stack[j]
    BY <1>0, PutType
  <1>2. /\ Len(stack) \in Nat \ {0} /\ Len(stack) \in DOMAIN stack
        /\ DOMAIN stack = 1..Len(stack)
    BY <1>0, TopType
  <1>3. TypeOK'
    BY <1>0, <1>1 DEF TypeOK
  <1>4. \A j \in DOMAIN stack : stack'[j].node = stack[j].node
    BY <1>1, <1>2 DEF Top
  <1>5. Path'
    BY <1>0, <1>1, <1>2, <1>4 DEF Path
  <1>6. Known' = Known
    BY <1>0, <1>1, <1>4 DEF Known, Visited
  <1>7. Clean' => Clean /\ ~f.err
    BY <1>1, <1>2 DEF Clean, Top
  <1>8. Barrier'
    BY <1>0, <1>1, <1>2, <1>6, <1>7 DEF Barrier
  <1>9. Window' /\ Exact'
    BY <1>0 DEF Window, Exact
  <1> QED
    BY <1>3, <1>5, <1>8, <1>9 DEF Inv

\* The top frame calls check on a child that has to be walked.
LEMMA PushFrame ==
  ASSUME Inv, outcome = "running", NEW f \in FrameType, f.node = Top.node,
         FrameOK(f, ever), Top.err => f.err, NEW m \in Checked, Child(m, Top.node, ever),
         Clean /\ ~f.err => FrameSettled(f, Known \cup {m}, always),
         stack' = Append(Put(f), Frame(m)), Quiet
  PROVE  Inv'
  <1>0. /\ TypeOK /\ Window /\ Path /\ Barrier /\ Exact
        /\ tuples' = tuples /\ commits' = commits /\ root' = root /\ ever' = ever
        /\ always' = always /\ memo' = memo /\ outcome' = outcome
    BY DEF Inv, Quiet, Outside
  <1>1. /\ Put(f) \in Seq(FrameType) /\ Len(Put(f)) = Len(stack)
        /\ Put(f)[Len(stack)] = f
        /\ \A j \in 1..Len(stack) : j # Len(stack) => Put(f)[j] = stack[j]
    BY <1>0, PutType
  <1>2. /\ Len(stack) \in Nat \ {0} /\ Len(stack) \in DOMAIN stack
        /\ DOMAIN stack = 1..Len(stack) /\ Top.node \in Checked
    BY <1>0, TopType
  <1>3. Frame(m) \in FrameType
    BY DEF Frame, FrameType
  <1>4. /\ stack' \in Seq(FrameType) /\ stack' # <<>>
        /\ Len(stack') = Len(stack) + 1 /\ DOMAIN stack' = 1..(Len(stack) + 1)
        /\ stack'[Len(stack)] = f /\ stack'[Len(stack) + 1] = Frame(m)
        /\ \A j \in 1..Len(stack) : j # Len(stack) => stack'[j] = stack[j]
    BY <1>1, <1>2, <1>3
  <1> DEFINE n == Len(stack)
  <1>n. n = Len(stack) /\ n \in Nat /\ n >= 1
    BY <1>2
  <1> HIDE DEF n
  <1>p. /\ stack'[n] = f /\ stack'[n + 1] = Frame(m)
        /\ \A j \in 1..n : j # n => stack'[j] = stack[j]
        /\ DOMAIN stack = 1..n /\ DOMAIN stack' = 1..(n + 1)
    BY <1>2, <1>4, <1>n
  <1>5. TypeOK'
    BY <1>0, <1>4 DEF TypeOK
  <1>6. \A j \in DOMAIN stack : stack'[j].node = stack[j].node
    BY <1>2, <1>4 DEF Top
  <1>7. Known' = Known \cup {m}
    <2>1. Visited' = Visited \cup {m}
      <3>1. Frame(m).node = m
        BY DEF Frame
      <3>2. \A x : x \in Visited' <=> \E j \in 1..(Len(stack) + 1) : x = stack'[j].node
        BY <1>4 DEF Visited
      <3>3. \A x : x \in Visited <=> \E j \in 1..Len(stack) : x = stack'[j].node
        BY <1>2, <1>6 DEF Visited
      <3>4. 1..(Len(stack) + 1) = (1..Len(stack)) \cup {Len(stack) + 1}
        BY <1>2
      <3> QED
        BY <1>4, <3>1, <3>2, <3>3, <3>4
    <2> QED
      BY <1>0, <2>1 DEF Known
  <1>8. FrameOK(Frame(m), ever)
    BY RewritesType DEF FrameOK, Frame
  <1>9. Justifies(m, root, ever)
    BY <1>0, <1>2, JustifiesChild DEF Path, Top
  <1>10. Path'
    <2>1. \A j \in DOMAIN stack' :
             FrameOK(stack'[j], ever) /\ Justifies(stack'[j].node, root, ever)
      <3> SUFFICES ASSUME NEW j \in 1..(Len(stack) + 1)
                   PROVE  FrameOK(stack'[j], ever) /\ Justifies(stack'[j].node, root, ever)
        BY <1>4
      <3>1. CASE j = Len(stack) + 1
        <4>1. stack'[j] = Frame(m) /\ Frame(m).node = m
          BY <1>4, <3>1 DEF Frame
        <4> QED
          BY <1>8, <1>9, <4>1
      <3>2. CASE j = Len(stack)
        BY <1>0, <1>2, <1>4, <1>6, <3>2 DEF Path
      <3>3. CASE j \notin {Len(stack), Len(stack) + 1}
        <4>1. j \in DOMAIN stack /\ stack'[j] = stack[j]
          BY <1>n, <1>p, <3>3
        <4> QED
          BY <1>0, <4>1 DEF Path
      <3> QED
        BY <3>1, <3>2, <3>3
    <2>2. stack'[1].node = root
      BY <1>0, <1>2, <1>6 DEF Path
    <2> QED
      BY <1>0, <2>1, <2>2 DEF Path
  <1>11. Clean' => Clean /\ ~f.err
    <2> SUFFICES ASSUME Clean'
                 PROVE  ~f.err /\ \A j \in DOMAIN stack : ~stack[j].err
      BY DEF Clean
    <2>1. \A j \in 1..(Len(stack) + 1) : ~stack'[j].err
      BY <1>4 DEF Clean
    <2>2. ~f.err
      BY <1>n, <1>p, <2>1
    <2>3. \A j \in 1..Len(stack) : j # Len(stack) => ~stack[j].err
      BY <1>n, <1>p, <2>1
    <2>4. ~stack[Len(stack)].err
      BY <2>2 DEF Top
    <2> QED
      BY <1>2, <2>2, <2>3, <2>4
  <1>12. Barrier'
    <2> SUFFICES ASSUME Clean'
                 PROVE  /\ \A j \in DOMAIN stack' : FrameSettled(stack'[j], Known \cup {m}, always)
                        /\ MemoSettled(memo, Known \cup {m}, always)
      BY <1>0, <1>7 DEF Barrier
    <2>1. MemoSettled(memo, Known \cup {m}, always)
      BY <1>0, <1>11, MemoSettledMono DEF Barrier
    <2>2. \A j \in DOMAIN stack : FrameSettled(stack[j], Known \cup {m}, always)
      BY <1>0, <1>11, FrameSettledMono DEF Barrier
    <2>3. FrameSettled(Frame(m), Known \cup {m}, always)
      BY DEF FrameSettled, Frame
    <2>4. FrameSettled(f, Known \cup {m}, always)
      BY <1>11
    <2>5. \A j \in DOMAIN stack' : FrameSettled(stack'[j], Known \cup {m}, always)
      <3> SUFFICES ASSUME NEW j \in 1..(Len(stack) + 1)
                   PROVE  FrameSettled(stack'[j], Known \cup {m}, always)
        BY <1>4
      <3>1. CASE j = Len(stack) + 1
        BY <1>2, <1>4, <2>3, <3>1
      <3>2. CASE j = Len(stack)
        BY <1>2, <1>4, <2>4, <3>2
      <3>3. CASE j \notin {Len(stack), Len(stack) + 1}
        <4>1. j \in DOMAIN stack /\ stack'[j] = stack[j]
          BY <1>n, <1>p, <3>3
        <4> QED
          BY <2>2, <4>1
      <3> QED
        BY <3>1, <3>2, <3>3
    <2> QED
      BY <2>1, <2>5
  <1>13. Window' /\ Exact'
    BY <1>0 DEF Window, Exact
  <1> QED
    BY <1>5, <1>10, <1>12, <1>13 DEF Inv

\* Whatever the prologue of check says of the child.
LEMMA CallFrame ==
  ASSUME Inv, outcome = "running", NEW f \in FrameType, f.node = Top.node,
         FrameOK(f, ever), f.err = Top.err, NEW m \in Node, Child(m, Top.node, ever),
         Clean => FrameSettled(f, Known \cup {m}, always),
         Call(m, f), Quiet
  PROVE  Inv'
  <1>1. CASE Verdict(m) = "enter"
    <2>1. m \in Checked
      BY <1>1 DEF Verdict, Checked
    <2>2. stack' = Append(Put(f), Frame(m))
      BY <1>1 DEF Call
    <2> QED
      BY <2>1, <2>2, PushFrame
  <1>2. CASE Verdict(m) = "deny"
    <2>1. Known \cup {m} = Known
      BY <1>2 DEF Verdict, Known
    <2>2. stack' = Put(f)
      BY <1>2 DEF Call
    <2> QED
      BY <2>1, <2>2, PutFrame
  <1>3. CASE Verdict(m) = "error"
    <2> DEFINE g == [f EXCEPT !.err = TRUE]
    <2>1. stack' = Put(g)
      BY <1>3 DEF Call
    <2>2. g \in FrameType /\ g.node = f.node /\ g.next = f.next /\ g.todo = f.todo /\ g.err
      BY DEF FrameType
    <2>3. FrameOK(g, ever)
      BY <2>2 DEF FrameOK
    <2> QED
      BY <2>1, <2>2, <2>3, PutFrame
  <1> QED
    BY <1>1, <1>2, <1>3 DEF Verdict
-----------------------------------------------------------------------------
\* A clause of the top frame that is not finished, and the clause it is in.
LEMMA ClauseType ==
  ASSUME Inv, outcome = "running"
  PROVE  /\ Top.next \in Nat \ {0}
         /\ Top.next \in DOMAIN Rewrites(Top.node) =>
               /\ Clause \in Rewrite
               /\ Begun \in FrameType /\ Begun.node = Top.node /\ Begun.err = Top.err
               /\ Begun.next = Top.next + 1 /\ Begun.todo = Top.todo
         /\ Top.todo # {} =>
               /\ Top.next - 1 \in DOMAIN Rewrites(Top.node)
               /\ Current \in Rewrite /\ Current.kind # "computed"
               /\ Top.todo \subseteq Reads(Current, Top.node, ever)
  <1>1. Top \in FrameType /\ Len(stack) \in DOMAIN stack
    BY TopType DEF Inv
  <1>2. FrameOK(Top, ever)
    BY <1>1 DEF Inv, Path, Top
  <1>3. Top.next \in Nat \ {0}
    BY <1>1 DEF FrameType
  <1>4. /\ DOMAIN Rewrites(Top.node) = 1..Len(Rewrites(Top.node))
        /\ Len(Rewrites(Top.node)) \in Nat
        /\ \A c \in DOMAIN Rewrites(Top.node) : Rewrites(Top.node)[c] \in Rewrite
    BY RewritesType
  <1>5. ASSUME Top.next \in DOMAIN Rewrites(Top.node)
        PROVE  /\ Clause \in Rewrite
               /\ Begun \in FrameType /\ Begun.node = Top.node /\ Begun.err = Top.err
               /\ Begun.next = Top.next + 1 /\ Begun.todo = Top.todo
    BY <1>1, <1>3, <1>4, <1>5 DEF Clause, Begun, FrameType
  <1>6. ASSUME Top.todo # {}
        PROVE  /\ Top.next - 1 \in DOMAIN Rewrites(Top.node)
               /\ Current \in Rewrite /\ Current.kind # "computed"
               /\ Top.todo \subseteq Reads(Current, Top.node, ever)
    BY <1>2, <1>3, <1>4, <1>6 DEF FrameOK, Current
  <1> QED
    BY <1>3, <1>5, <1>6

\* What the top frame has settled, when no frame has met an error.
LEMMA TopSettled ==
  ASSUME Inv, outcome = "running", Clean
  PROVE  FrameSettled(Top, Known, always)
  BY TopType DEF Inv, Barrier, Top

\* A new Check starts with what is stored now.
LEMMA AskStep ==
  ASSUME Inv, NEW q \in Queries, Ask(q)
  PROVE  Inv'
  <1>1. q \in Node
    BY ModelAssumption
  <1>2. CASE Defined(q)
    <2> DEFINE f == Frame(q)
    <2>1. q \in Checked
      BY <1>1, <1>2 DEF Checked
    <2>2. f \in FrameType /\ f.node = q /\ f.next = 1 /\ f.todo = {} /\ ~f.err
      BY <2>1 DEF Frame, FrameType
    <2>3. /\ stack' = <<f>> /\ outcome' = "running" /\ root' = q /\ memo' = {}
          /\ ever' = tuples /\ always' = tuples /\ tuples' = tuples /\ commits' = commits
      BY <1>2 DEF Ask
    <2> HIDE DEF f
    <2>4. /\ stack' \in Seq(FrameType) /\ stack' # <<>> /\ DOMAIN stack' = {1}
          /\ stack'[1] = f
      BY <2>2, <2>3
    <2>5. TypeOK'
      BY <1>1, <2>3, <2>4 DEF Inv, TypeOK, Outcomes
    <2>6. FrameOK(f, tuples)
      BY <2>2, RewritesType DEF FrameOK
    <2>7. Justifies(q, q, tuples)
      BY DEF Justifies
    <2>8. Path'
      BY <2>2, <2>3, <2>4, <2>6, <2>7 DEF Path
    <2>9. FrameSettled(f, Known', tuples) /\ MemoSettled({}, Known', tuples)
      BY <2>2 DEF FrameSettled, MemoSettled
    <2>10. Barrier'
      BY <2>3, <2>4, <2>9 DEF Barrier
    <2>11. Window' /\ Exact'
      BY <2>3 DEF Window, Exact
    <2> QED
      BY <2>5, <2>8, <2>10, <2>11 DEF Inv
  <1>3. CASE ~Defined(q)
    <2>1. /\ stack' = <<>> /\ outcome' = "error" /\ root' = q /\ memo' = {}
          /\ ever' = tuples /\ always' = tuples /\ tuples' = tuples /\ commits' = commits
      BY <1>3 DEF Ask
    <2>2. TypeOK'
      BY <1>1, <2>1 DEF Inv, TypeOK, Outcomes
    <2>3. Path' /\ Barrier' /\ Window' /\ Exact'
      BY <2>1 DEF Path, Barrier, MemoSettled, Window, Exact
    <2> QED
      BY <2>2, <2>3 DEF Inv
  <1> QED
    BY <1>2, <1>3

\* A computed userset settles once its sibling is on the stack or denied.
LEMMA EvalComputedStep ==
  ASSUME Inv, EvalComputed
  PROVE  Inv'
  <1>1. /\ outcome = "running" /\ Top.todo = {}
        /\ Top.next \in DOMAIN Rewrites(Top.node) /\ Clause.kind = "computed"
    BY DEF EvalComputed, AtClause
  <1> DEFINE m == Sibling(Clause, Top.node)
  <1>2. /\ Clause \in Rewrite /\ Begun \in FrameType /\ Begun.node = Top.node
        /\ Begun.err = Top.err /\ Begun.next = Top.next + 1 /\ Begun.todo = {}
        /\ Top.next \in Nat \ {0} /\ Top.node \in Checked
    BY <1>1, ClauseType, TopType DEF Inv
  <1>3. m \in Node
    BY <1>1, <1>2 DEF Sibling, Rewrite, Node, Checked
  <1>4. Child(m, Top.node, ever)
    BY <1>1 DEF Child, Clause
  <1>5. FrameOK(Begun, ever)
    BY <1>1, <1>2, RewritesType DEF FrameOK
  <1>6. Clean => FrameSettled(Begun, Known \cup {m}, always)
    <2> SUFFICES ASSUME Clean, NEW c \in 1..Top.next
                 PROVE  Settled(Rewrites(Top.node)[c], Top.node, {}, Known \cup {m}, always)
      <3>1. Begun.next - 1 = Top.next
        BY <1>2
      <3>2. \A c : (IF c = Begun.next - 1 THEN Begun.todo ELSE {}) = {}
        BY <1>2
      <3> QED
        BY <1>2, <3>1, <3>2 DEF FrameSettled
    <2>1. CASE c = Top.next
      BY <1>1, <2>1 DEF Settled, Clause
    <2>2. CASE c # Top.next
      <3>1. c \in 1..(Top.next - 1)
        BY <1>2, <2>2
      <3>2. Settled(Rewrites(Top.node)[c], Top.node, {}, Known, always)
        BY <1>1, <3>1, TopSettled DEF FrameSettled
      <3> QED
        BY <3>2, SettledMono
    <2> QED
      BY <2>1, <2>2
  <1>7. Call(m, Begun) /\ Quiet
    BY DEF EvalComputed, Quiet, Outside
  <1> QED
    BY <1>1, <1>2, <1>3, <1>4, <1>5, <1>6, <1>7, CallFrame

\* A read leaves nothing of the clause behind but the tuples it returned.
LEMMA ReadStep ==
  ASSUME Inv, Read
  PROVE  Inv'
  <1>1. /\ outcome = "running" /\ Top.todo = {}
        /\ Top.next \in DOMAIN Rewrites(Top.node) /\ Clause.kind # "computed" /\ Quiet
    BY DEF Read, AtClause, Quiet, Outside
  <1>2. /\ Clause \in Rewrite /\ Begun \in FrameType /\ Begun.node = Top.node
        /\ Begun.err = Top.err /\ Begun.next = Top.next + 1 /\ Begun.todo = {}
        /\ Top.next \in Nat \ {0} /\ Top.node \in Checked
    BY <1>1, ClauseType, TopType DEF Inv
  <1>3. Begun.next \in 1..(Len(Rewrites(Top.node)) + 1) /\ Begun.next > 1
    BY <1>1, <1>2, RewritesType
  <1>4. always \subseteq tuples /\ tuples \subseteq ever /\ tuples \subseteq Tuples
    BY DEF Inv, Window, TypeOK
  <1>5. CASE stack' = Put([Begun EXCEPT !.todo = Reads(Clause, Top.node, tuples)])
    <2> DEFINE f == [Begun EXCEPT !.todo = Reads(Clause, Top.node, tuples)]
    <2>1. /\ f.node = Top.node /\ f.err = Top.err /\ f.next = Top.next + 1
          /\ f.todo = Reads(Clause, Top.node, tuples) /\ f \in FrameType
      <3>1. Reads(Clause, Top.node, tuples) \subseteq Tuples
        BY <1>4 DEF Reads
      <3> QED
        BY <1>2, <3>1 DEF FrameType
    <2> HIDE DEF f
    <2>2. Rewrites(Top.node)[f.next - 1] = Clause
      BY <1>2, <2>1 DEF Clause
    <2>3. FrameOK(f, ever)
      <3>1. f.todo \subseteq Reads(Clause, Top.node, ever)
        BY <1>4, <2>1, ReadsMono
      <3>2. f.next = Begun.next
        BY <1>2, <2>1
      <3> QED
        BY <1>1, <1>3, <2>1, <2>2, <3>1, <3>2 DEF FrameOK
    <2>4. Clean => FrameSettled(f, Known, always)
      <3> SUFFICES ASSUME Clean, NEW c \in 1..Top.next
                   PROVE  Settled(Rewrites(Top.node)[c], Top.node,
                                  IF c = Top.next THEN f.todo ELSE {}, Known, always)
        BY <1>2, <2>1 DEF FrameSettled
      <3>1. CASE c = Top.next
        <4>1. Reads(Clause, Top.node, always) \subseteq f.todo
          BY <1>4, <2>1, ReadsMono
        <4> QED
          BY <1>1, <3>1, <4>1 DEF Settled, Clause
      <3>2. CASE c # Top.next
        <4>1. c \in 1..(Top.next - 1)
          BY <1>2, <3>2
        <4> QED
          BY <1>1, <3>2, <4>1, TopSettled DEF FrameSettled
      <3> QED
        BY <3>1, <3>2
    <2>5. stack' = Put(f)
      BY <1>5 DEF f
    <2> QED
      BY <1>1, <2>1, <2>3, <2>4, <2>5, PutFrame
  <1>6. CASE stack' = Put([Begun EXCEPT !.err = TRUE])
    <2> DEFINE f == [Begun EXCEPT !.err = TRUE]
    <2>1. f \in FrameType /\ f.node = Top.node /\ f.err /\ f.next = Begun.next /\ f.todo = {}
      BY <1>2 DEF FrameType
    <2> HIDE DEF f
    <2>2. FrameOK(f, ever)
      BY <1>3, <2>1 DEF FrameOK
    <2>3. stack' = Put(f)
      BY <1>6 DEF f
    <2> QED
      BY <1>1, <2>1, <2>2, <2>3, PutFrame
  <1> QED
    BY <1>5, <1>6 DEF Read

\* A tuple that names the subject makes it a member of the node, and so of
\* the root.
LEMMA GrantStep ==
  ASSUME Inv, Grant
  PROVE  Inv'
  <1>1. /\ outcome = "running" /\ outcome' = "granted" /\ stack' = <<>> /\ memo' = {}
        /\ tuples' = tuples /\ commits' = commits /\ root' = root
        /\ ever' = ever /\ always' = always
    BY DEF Grant
  <1>2. PICK t \in Top.todo : Current.kind = "this" /\ Names(t, Top.node)
    BY DEF Grant, Granting
  <1>3. /\ Top.next - 1 \in DOMAIN Rewrites(Top.node)
        /\ t \in Reads(Current, Top.node, ever)
    BY <1>1, <1>2, ClauseType
  <1>4. Holder(Top.node, ever)
    BY <1>2, <1>3 DEF Holder, Current
  <1>5. Top.node \in Checked /\ Justifies(Top.node, root, ever)
    BY <1>1, TopType DEF Inv, Path, Top
  <1>6. Member(root, ever)
    BY <1>4, <1>5 DEF Member, Justifies, Closed
  <1>7. TypeOK'
    BY <1>1 DEF Inv, TypeOK, Outcomes
  <1>8. Path' /\ Barrier' /\ Window' /\ Exact'
    BY <1>1, <1>6 DEF Inv, Path, Barrier, MemoSettled, Window, Exact
  <1> QED
    BY <1>7, <1>8 DEF Inv

\* A tuple that does not grant is settled by the node it leads to, if any.
LEMMA VisitStep ==
  ASSUME Inv, Visit
  PROVE  Inv'
  <1>1. outcome = "running" /\ Quiet
    BY DEF Visit, Quiet, Outside
  <1>2. PICK t \in Top.todo :
           /\ ~Granting(t)
           /\ IF Leads(Current, t) THEN Call(Target(Current, t), [Top EXCEPT !.todo = @ \ {t}])
              ELSE stack' = Put([Top EXCEPT !.todo = @ \ {t}])
    BY DEF Visit
  <1> DEFINE f == [Top EXCEPT !.todo = @ \ {t}]
             m == Target(Current, t)
  <1>3. /\ Top \in FrameType /\ Top.node \in Checked
    BY <1>1, TopType DEF Inv
  <1>4. /\ f \in FrameType /\ f.node = Top.node /\ f.next = Top.next /\ f.err = Top.err
        /\ f.todo = Top.todo \ {t}
    BY <1>3 DEF FrameType
  <1>5. /\ Top.next \in Nat \ {0} /\ Top.next - 1 \in DOMAIN Rewrites(Top.node)
        /\ Current \in Rewrite /\ Current.kind # "computed"
        /\ Top.todo \subseteq Reads(Current, Top.node, ever)
    BY <1>1, <1>2, ClauseType
  <1>6. t \in Tuples /\ t \in Reads(Current, Top.node, ever)
    BY <1>2, <1>3, <1>5 DEF FrameType
  <1> HIDE DEF f
  <1>7. FrameOK(f, ever)
    <2>1. FrameOK(Top, ever)
      BY <1>1, TopType DEF Inv, Path, Top
    <2> QED
      BY <1>2, <1>4, <2>1 DEF FrameOK
  <1>8. ASSUME Clean, NEW K, Known \subseteq K, Leads(Current, t) => m \in K
        PROVE  FrameSettled(f, K, always)
    <2>1. FrameSettled(Top, K, always)
      BY <1>1, <1>8, TopSettled, FrameSettledMono
    <2> SUFFICES ASSUME NEW c \in 1..(Top.next - 1)
                 PROVE  Settled(Rewrites(Top.node)[c], Top.node,
                                IF c = Top.next - 1 THEN f.todo ELSE {}, K, always)
      BY <1>4 DEF FrameSettled
    <2>2. CASE c = Top.next - 1
      <3>1. Settled(Current, Top.node, Top.todo, K, always)
        BY <2>1, <2>2 DEF FrameSettled, Current
      <3>2. Settled(Current, Top.node, f.todo, K, always)
        BY <1>2, <1>4, <1>5, <1>8, <3>1 DEF Settled, Granting
      <3> QED
        BY <2>2, <3>2 DEF Current
    <2>3. CASE c # Top.next - 1
      BY <2>1, <2>3 DEF FrameSettled
    <2> QED
      BY <2>2, <2>3
  <1>9. CASE Leads(Current, t)
    <2>1. m \in Node
      BY <1>3, <1>5, <1>6, <1>9, TargetType DEF Checked
    <2>2. Child(m, Top.node, ever)
      BY <1>5, <1>6, <1>9 DEF Child, Current
    <2>3. Clean => FrameSettled(f, Known \cup {m}, always)
      BY <1>8
    <2>4. Call(m, f)
      BY <1>2, <1>9 DEF f
    <2> HIDE DEF m
    <2> QED
      BY <1>1, <1>4, <1>7, <2>1, <2>2, <2>3, <2>4, CallFrame
  <1>10. CASE ~Leads(Current, t)
    <2>1. Clean => FrameSettled(f, Known, always)
      BY <1>8, <1>10
    <2>2. stack' = Put(f)
      BY <1>2, <1>10 DEF f
    <2> QED
      BY <1>1, <1>4, <1>7, <2>1, <2>2, PutFrame
  <1> QED
    BY <1>9, <1>10

\* A set of denied nodes whose clauses lead nowhere else is no member.
LEMMA BarrierDenies ==
  ASSUME NEW D, D \subseteq Checked, NEW A, NEW r \in D, MemoSettled(D, D, A)
  PROVE  ~Member(r, A)
  <1> DEFINE S == Checked \ D
  <1>1. Closed(S, A)
    <2> SUFFICES ASSUME NEW n \in D
                 PROVE  ~Holder(n, A) /\ \A m \in S : ~Child(m, n, A)
      BY DEF Closed
    <2>1. \A c \in DOMAIN Rewrites(n) : Settled(Rewrites(n)[c], n, {}, D, A)
      BY DEF MemoSettled
    <2>2. ~Holder(n, A)
      BY <2>1 DEF Holder, Settled
    <2>3. \A m \in S : ~Child(m, n, A)
      BY <2>1 DEF Child, Settled
    <2> QED
      BY <2>2, <2>3
  <1> QED
    BY <1>1 DEF Member

\* When the union is exhausted every clause of the top node is settled.
LEMMA TopDone ==
  ASSUME Inv, outcome = "running", Clean, Top.todo = {},
         Top.next \notin DOMAIN Rewrites(Top.node)
  PROVE  MemoSettled(memo \cup {Top.node}, Known, always)
  <1>1. FrameOK(Top, ever) /\ Top \in FrameType
    BY TopType DEF Inv, Path, Top
  <1>2. FrameSettled(Top, Known, always)
    BY TopSettled
  <1>3. DOMAIN Rewrites(Top.node) = 1..(Top.next - 1)
    BY <1>1, RewritesType DEF FrameOK, FrameType
  <1>4. \A c \in DOMAIN Rewrites(Top.node) :
           Settled(Rewrites(Top.node)[c], Top.node, {}, Known, always)
    <2>1. \A c : (IF c = Top.next - 1 THEN Top.todo ELSE {}) = {}
      OBVIOUS
    <2> QED
      BY <1>2, <1>3, <2>1 DEF FrameSettled
  <1>5. MemoSettled(memo, Known, always)
    BY DEF Inv, Barrier
  <1> QED
    BY <1>4, <1>5 DEF MemoSettled

\* The root returns: if it is denied, the memo and the root are closed.
LEMMA ReturnRoot ==
  ASSUME Inv, Return, Len(stack) = 1
  PROVE  Inv'
  <1>1. /\ outcome = "running" /\ Top.todo = {}
        /\ Top.next \notin DOMAIN Rewrites(Top.node)
        /\ stack' = Popped /\ outcome' = (IF Top.err THEN "error" ELSE "denied")
        /\ memo' = {} /\ tuples' = tuples /\ commits' = commits /\ root' = root
        /\ ever' = ever /\ always' = always
    BY DEF Return
  <1>2. stack' = <<>>
    BY <1>1 DEF Popped
  <1>3. DOMAIN stack = {1} /\ Top = stack[1] /\ Top.node = root /\ root \in Checked
    BY <1>1, TopType DEF Inv, Path, Top
  <1>4. outcome' = "denied" => ~Member(root, always)
    <2> SUFFICES ASSUME ~Top.err
                 PROVE  ~Member(root, always)
      BY <1>1
    <2>1. Clean
      BY <1>3 DEF Clean
    <2>2. Known = memo \cup {root}
      BY <1>3 DEF Known, Visited
    <2>3. MemoSettled(memo \cup {root}, memo \cup {root}, always)
      BY <1>1, <1>3, <2>1, <2>2, TopDone
    <2>4. memo \cup {root} \subseteq Checked
      BY <1>3 DEF Inv, TypeOK
    <2> QED
      BY <2>3, <2>4, BarrierDenies
  <1>5. outcome' \in {"error", "denied"}
    BY <1>1
  <1>6. TypeOK'
    BY <1>1, <1>2, <1>5 DEF Inv, TypeOK, Outcomes
  <1>7. Path' /\ Barrier' /\ Window' /\ Exact'
    BY <1>1, <1>2, <1>4, <1>5 DEF Inv, Path, Barrier, MemoSettled, Window, Exact
  <1> QED
    BY <1>6, <1>7 DEF Inv

\* A child returns: denied it is in the memo, failed it marks its caller.
LEMMA ReturnChild ==
  ASSUME Inv, Return, Len(stack) # 1
  PROVE  Inv'
  <1>0. /\ TypeOK /\ Window /\ Path /\ Barrier /\ Exact
    BY DEF Inv
  <1>1. /\ outcome = "running" /\ Top.todo = {}
        /\ Top.next \notin DOMAIN Rewrites(Top.node)
        /\ stack' = Popped /\ outcome' = outcome /\ memo' = Remembered
        /\ tuples' = tuples /\ commits' = commits /\ root' = root
        /\ ever' = ever /\ always' = always
    BY DEF Return
  <1> DEFINE n == Len(stack) - 1
             e == Top.err
             Caller == [stack[n] EXCEPT !.err = TRUE]
  <1>2. /\ Len(stack) \in Nat \ {0} /\ Top \in FrameType /\ Top.node \in Checked
        /\ stack \in Seq(FrameType)
    BY <1>0, <1>1, TopType DEF TypeOK
  <1>3. n \in Nat \ {0} /\ Len(stack) = n + 1
    BY <1>2
  <1>4. stack' = [i \in 1..n |->
                    IF i = n /\ e THEN [stack[i] EXCEPT !.err = TRUE] ELSE stack[i]]
    BY <1>1, Zenon DEF Popped
  <1>5. Top = stack[n + 1]
    BY <1>3 DEF Top
  <1> HIDE DEF n
  <1>6. DOMAIN stack = 1..(n + 1)
    <2>1. DOMAIN stack = 1..Len(stack)
      BY <1>0, <1>1, TopType
    <2> QED
      BY <1>3, <2>1, Zenon
  <1>7. \A i \in 1..n : stack[i] \in FrameType
    <2>1. \A i \in 1..Len(stack) : stack[i] \in FrameType
      BY <1>2, ElementOfSeq
    <2> QED
      BY <1>3, <2>1
  <1>8. n \in 1..n /\ stack[n] \in FrameType
    BY <1>3, <1>7
  <1>9. /\ DOMAIN stack' = 1..n
        /\ \A i \in 1..n : stack'[i] \in FrameType
        /\ e => stack'[n] = Caller
        /\ ~e => \A i \in 1..n : stack'[i] = stack[i]
        /\ \A i \in 1..n : i # n => stack'[i] = stack[i]
    <2>1. DOMAIN stack' = 1..n
      BY <1>4, Zenon
    <2>2. \A i \in 1..n :
             stack'[i] = IF i = n /\ e THEN [stack[i] EXCEPT !.err = TRUE] ELSE stack[i]
      BY <1>4, Zenon
    <2>3. e => stack'[n] = Caller
      BY <1>8, <2>2, Zenon
    <2>4. ~e => \A i \in 1..n : stack'[i] = stack[i]
      BY <2>2, Zenon
    <2>5. \A i \in 1..n : i # n => stack'[i] = stack[i]
      BY <2>2, Zenon
    <2>6. Caller \in FrameType
      BY <1>8 DEF FrameType
    <2> HIDE DEF Caller, e
    <2>7. ASSUME NEW i \in 1..n PROVE stack'[i] \in FrameType
      <3>1. CASE i = n /\ e
        BY <2>3, <2>6, <3>1
      <3>2. CASE ~(i = n /\ e)
        BY <1>7, <2>4, <2>5, <3>2
      <3> QED
        BY <3>1, <3>2
    <2> QED
      BY <2>1, <2>3, <2>4, <2>5, <2>7
  <1>c. /\ Caller.node = stack[n].node /\ Caller.next = stack[n].next
        /\ Caller.todo = stack[n].todo /\ Caller.err
    BY <1>8 DEF FrameType
  <1> HIDE DEF Caller, e
  <1>10. \A i \in 1..n : /\ stack'[i].node = stack[i].node
                         /\ stack'[i].next = stack[i].next
                         /\ stack'[i].todo = stack[i].todo
    BY <1>c, <1>9
  <1>11. stack' \in Seq(FrameType) /\ Len(stack') = n /\ stack' # <<>>
    <2>0. stack' = [i \in 1..n |-> stack'[i]]
      BY <1>4, <1>9, Zenon
    <2>1. stack' \in [1..n -> FrameType]
      BY <1>9, <2>0
    <2>2. stack' \in Seq(FrameType)
      BY <1>3, <2>1, SeqDef
    <2>3. Len(stack') = n
      BY <1>3, <1>9, <2>2, LenProperties
    <2> QED
      BY <1>3, <2>2, <2>3, EmptySeq
  <1>12. memo' = (IF e THEN memo ELSE memo \cup {Top.node})
    BY <1>1 DEF Remembered, e
  <1>13. TypeOK'
    BY <1>0, <1>1, <1>2, <1>11, <1>12 DEF TypeOK
  <1>14. Path'
    <2>1. \A i \in 1..n : FrameOK(stack'[i], ever) /\ Justifies(stack'[i].node, root, ever)
      <3> SUFFICES ASSUME NEW i \in 1..n
                   PROVE  FrameOK(stack'[i], ever) /\ Justifies(stack'[i].node, root, ever)
        OBVIOUS
      <3>1. i \in DOMAIN stack
        BY <1>3, <1>6
      <3>2. FrameOK(stack[i], ever) /\ Justifies(stack[i].node, root, ever)
        BY <1>0, <3>1 DEF Path
      <3> QED
        BY <1>10, <3>2 DEF FrameOK
    <2>2. stack'[1].node = root
      BY <1>0, <1>1, <1>3, <1>10 DEF Path
    <2> QED
      BY <1>1, <1>9, <2>1, <2>2 DEF Path
  <1>15. Barrier'
    <2> SUFFICES ASSUME Clean'
                 PROVE  /\ \A i \in DOMAIN stack' : FrameSettled(stack'[i], Known', always)
                        /\ MemoSettled(memo', Known', always)
      BY <1>1 DEF Barrier
    <2>1. \A i \in 1..n : ~stack'[i].err
      BY <1>9 DEF Clean
    <2>2. ~e
      BY <1>8, <1>9, <1>c, <2>1
    <2>3. \A i \in 1..n : stack'[i] = stack[i]
      BY <1>9, <2>2
    <2>4. Clean
      <3>1. ~stack[n + 1].err
        BY <1>5, <2>2 DEF e
      <3>2. \A i \in 1..(n + 1) : i \in 1..n \/ i = n + 1
        BY <1>3
      <3> QED
        BY <1>6, <2>1, <2>3, <3>1, <3>2 DEF Clean
    <2>5. memo' = memo \cup {Top.node}
      BY <1>12, <2>2
    <2>6. Known' = Known
      <3>1. \A x : x \in Visited <=> \E i \in 1..(n + 1) : x = stack[i].node
        BY <1>6 DEF Visited
      <3>2. \A x : x \in Visited' <=> \E i \in 1..n : x = stack[i].node
        BY <1>9, <2>3 DEF Visited
      <3>3. 1..(n + 1) = (1..n) \cup {n + 1}
        BY <1>3
      <3>4. Visited = Visited' \cup {Top.node}
        BY <1>5, <3>1, <3>2, <3>3
      <3> QED
        BY <2>5, <3>4 DEF Known
    <2>7. MemoSettled(memo \cup {Top.node}, Known, always)
      BY <1>1, <2>4, TopDone
    <2>8. \A i \in DOMAIN stack : FrameSettled(stack[i], Known, always)
      BY <1>0, <2>4 DEF Barrier
    <2>9. \A i \in 1..n : FrameSettled(stack'[i], Known, always)
      BY <1>3, <1>6, <2>3, <2>8
    <2> QED
      BY <1>9, <2>5, <2>6, <2>7, <2>9
  <1>16. Window' /\ Exact'
    BY <1>0, <1>1 DEF Window, Exact
  <1> QED
    BY <1>13, <1>14, <1>15, <1>16 DEF Inv

\* Another request's transaction widens ever and narrows always.
LEMMA CommitStep ==
  ASSUME Inv, NEW c \in Commits, Commit(c)
  PROVE  Inv'
  <1>0. TypeOK /\ Window /\ Path /\ Barrier /\ Exact
    BY DEF Inv
  <1>1. /\ commits < MaxCommits /\ commits' = commits + 1
        /\ tuples' = (tuples \ c.del) \cup c.add
        /\ ever' = ever \cup tuples' /\ always' = always \cap tuples'
        /\ root' = root /\ stack' = stack /\ memo' = memo /\ outcome' = outcome
    BY DEF Commit
  <1>2. c.add \subseteq Tuples /\ MaxCommits \in Nat
    BY StoreAssumption
  <1>3. tuples' \subseteq Tuples
    BY <1>0, <1>1, <1>2 DEF TypeOK
  <1>4. commits' \in 0..MaxCommits
    BY <1>0, <1>1, <1>2 DEF TypeOK
  <1>5. TypeOK'
    BY <1>0, <1>1, <1>3, <1>4 DEF TypeOK
  <1>6. ever \subseteq ever' /\ always' \subseteq always
    BY <1>1
  <1>7. Window'
    BY <1>1 DEF Window
  <1>8. Path'
    <2>1. \A f : FrameOK(f, ever) => FrameOK(f, ever')
      BY <1>6, ReadsMono DEF FrameOK
    <2>2. \A n : Justifies(n, root, ever) => Justifies(n, root, ever')
      BY <1>6, JustifiesMono
    <2> QED
      BY <1>0, <1>1, <2>1, <2>2 DEF Path
  <1>9. Barrier'
    <2>1. Known' = Known /\ Clean' = Clean
      BY <1>1 DEF Known, Visited, Clean
    <2>2. \A f : FrameSettled(f, Known, always) => FrameSettled(f, Known, always')
      BY <1>6, FrameSettledMono
    <2>3. MemoSettled(memo, Known, always) => MemoSettled(memo, Known, always')
      BY <1>6, MemoSettledMono
    <2> QED
      BY <1>0, <1>1, <2>1, <2>2, <2>3 DEF Barrier
  <1>10. Exact'
    <2>1. Member(root, ever) => Member(root, ever')
      BY <1>6, MemberMono
    <2>2. Member(root, always') => Member(root, always)
      BY <1>6, MemberMono
    <2> QED
      BY <1>0, <1>1, <2>1, <2>2 DEF Exact
  <1> QED
    BY <1>5, <1>7, <1>8, <1>9, <1>10 DEF Inv
-----------------------------------------------------------------------------
\* Before the first Check nothing is on the stack.
LEMMA InitInv == Init => Inv
  <1> SUFFICES ASSUME Init PROVE Inv
    OBVIOUS
  <1>1. tuples \subseteq Tuples /\ 0 \in 0..MaxCommits /\ root \in Node
    BY ModelAssumption, StoreAssumption DEF Init
  <1>2. /\ stack = <<>> /\ memo = {} /\ outcome = "idle" /\ commits = 0
        /\ ever = tuples /\ always = tuples
    BY DEF Init
  <1>3. TypeOK
    BY <1>1, <1>2 DEF TypeOK, Outcomes
  <1>4. Window /\ Path /\ Barrier /\ Exact
    BY <1>2 DEF Window, Path, Barrier, MemoSettled, Exact
  <1> QED
    BY <1>3, <1>4 DEF Inv

\* Inv is inductive.
LEMMA NextInv == Inv /\ [Next]_vars => Inv'
  <1> SUFFICES ASSUME Inv, [Next]_vars PROVE Inv'
    OBVIOUS
  <1>1. ASSUME NEW q \in Queries, Ask(q) PROVE Inv'
    BY <1>1, AskStep
  <1>2. CASE EvalComputed
    BY <1>2, EvalComputedStep
  <1>3. CASE Read
    BY <1>3, ReadStep
  <1>4. CASE Grant
    BY <1>4, GrantStep
  <1>5. CASE Visit
    BY <1>5, VisitStep
  <1>6. CASE Return
    BY <1>6, ReturnRoot, ReturnChild
  <1>7. ASSUME NEW c \in Commits, Commit(c) PROVE Inv'
    BY <1>7, CommitStep
  <1>8. CASE UNCHANGED vars
    <2>1. /\ tuples' = tuples /\ commits' = commits /\ root' = root /\ stack' = stack
          /\ memo' = memo /\ outcome' = outcome /\ ever' = ever /\ always' = always
      BY <1>8 DEF vars
    <2>2. TypeOK' /\ Window' /\ Exact'
      BY <2>1 DEF Inv, TypeOK, Window, Exact
    <2>3. Path' /\ Barrier'
      BY <2>1 DEF Inv, Path, Barrier, Clean, Known, Visited
    <2> QED
      BY <2>2, <2>3 DEF Inv
  <1> QED
    BY <1>1, <1>2, <1>3, <1>4, <1>5, <1>6, <1>7, <1>8 DEF Next, Step

\* Every state of the engine has its type: the frames are of nodes the
\* namespace defines and hold only stored tuples.
THEOREM TypeCorrect == Spec => []TypeOK
  <1>1. Inv => TypeOK
    BY DEF Inv
  <1> QED
    BY <1>1, InitInv, NextInv, PTL DEF Spec

\* Check is exact: it grants only what tuples stored at some moment of it
\* justify, and denies without an error only what the tuples stored
\* throughout it do not.
THEOREM CheckExact == Spec => []Exact
  <1>1. Inv => Exact
    BY DEF Inv
  <1> QED
    BY <1>1, InitInv, NextInv, PTL DEF Spec
=============================================================================
