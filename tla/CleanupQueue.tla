---------------------------- MODULE CleanupQueue ----------------------------
(***************************************************************************)
(* The queue of near-duplicate pairs of one tenant: the scanners of the    *)
(* replicas fill it (Scanner, CleanupQueueRepository), agents work it off  *)
(* (GetCleanupQueue, MergeDocuments, MarkCleanupDone), documents come and  *)
(* go.  A scan and an Upsert are several statements, each its own          *)
(* transaction.  Similarities and notes are left out.                      *)
(***************************************************************************)
EXTENDS Naturals, Sequences, FiniteSets, Replica

CONSTANTS Docs, Rows,        \* both numbered as they come
          Alike,             \* the near pairs of documents, the nearest first
          Scanners, Agents

ASSUME AlikeArePairs == Alike \in Seq({q \in SUBSET Docs : Cardinality(q) = 2})
ASSUME QueueNumbered == Docs \subseteq Nat /\ Rows \subseteq Nat /\ None \notin Docs \cup Rows

VARIABLES docs,    \* "live", "archived", or "gone"
          entry,   \* cleanup_queue
          scan, agent

queueVars == <<docs, entry, scan, agent>>

\* NormalizePair: a pair has no order.
Pairs == {q \in SUBSET Docs : Cardinality(q) = 2}
\* A dismissed pair is a false_positive or ignored.
Resolutions == {"dismissed", "merged"}

NoEntry == [st |-> "unused", pair |-> None, late |-> FALSE]
NoScan == [pc |-> "idle", todo |-> {}, at |-> None, known |-> {}]
NoAgent == [pc |-> "idle", row |-> None, pair |-> None, merged |-> FALSE]
Answered(answer, merged) == [NoAgent EXCEPT !.pc = answer, !.merged = answer = "refused" /\ merged]

S(p, pc) == scan[p].pc = pc
A(a, pc) == agent[a].pc = pc
IsRow(e) == entry[e].st \notin {"unused", "gone"}
DismissedPairs(rows) == {rows[e].pair : e \in {f \in Rows : rows[f].st = "dismissed"}}
\* A dismissal a scan knew of stands only as long as the row says so.
Standing == scan' = [p \in Scanners |-> [scan[p] EXCEPT !.known = @ \cap DismissedPairs(entry')]]
Pending(q) == {e \in Rows : entry[e].st = "pending" /\ entry[e].pair = q}
\* mutant: what is resolved is over
DismissedMut(q) == FALSE
Dismissed(q) == \E e \in Rows : entry[e].st = "dismissed" /\ entry[e].pair = q

-----------------------------------------------------------------------------
(* The scan of one tenant; runMu keeps a replica to one at a time.         *)

\* FindNearDuplicatePairs: what is alike among the documents not archived.
ScanFind(p) ==
    /\ S(p, "idle")
    /\ scan' = [scan EXCEPT ![p] = [NoScan EXCEPT !.pc = "next",
                  !.todo = {i \in DOMAIN Alike : \A d \in Alike[i] : docs[d] = "live"},
                  !.known = DismissedPairs(entry)]]
    /\ UNCHANGED <<docs, entry, agent>>

ScanDone(p) ==
    /\ S(p, "next") /\ scan[p].todo = {}
    /\ scan' = [scan EXCEPT ![p] = NoScan]
    /\ UNCHANGED <<docs, entry, agent>>

\* The pair it is at, and on to the next.
Near(p) == Alike[scan[p].at]
Onward(p) == scan' = [scan EXCEPT ![p].pc = "next", ![p].at = None]

\* Upsert: is the pair pending ...
UpsertExisting(p) ==
    /\ S(p, "next")
    /\ \E i \in scan[p].todo :
         /\ \A k \in scan[p].todo : i <= k
         /\ IF Pending(Alike[i]) # {} THEN scan' = [scan EXCEPT ![p].todo = @ \ {i}]
            ELSE scan' = [scan EXCEPT ![p].todo = @ \ {i}, ![p].pc = "dismissed", ![p].at = i]
    /\ UNCHANGED <<docs, entry, agent>>

\* ... was it dismissed ...
UpsertDismissed(p) ==
    /\ S(p, "dismissed")
    /\ IF Dismissed(Near(p)) THEN Onward(p)
       ELSE scan' = [scan EXCEPT ![p].pc = "insert"]
    /\ UNCHANGED <<docs, entry, agent>>

\* mutant: no partial unique index
FreePairMut(q) == TRUE
FreePair(q) == Pending(q) = {}

\* ... insert, unless a peer has.
UpsertInsert(p) ==
    LET q == Near(p) IN
    /\ S(p, "insert")
    /\ \/ \E e \in Rows :
            /\ FreePair(q)
            /\ entry[e].st = "unused" /\ \A f \in Rows : f < e => entry[f].st # "unused"
            /\ entry' = [entry EXCEPT ![e] = [st |-> "pending", pair |-> q,
                                              late |-> \E d \in q : docs[d] = "gone"]]
       \/ ~FreePair(q) /\ UNCHANGED entry
    /\ Onward(p)
    /\ UNCHANGED <<docs, agent>>

\* An Upsert that fails is counted, the scan goes on.
UpsertFails(p) ==
    /\ scan[p].pc \in {"dismissed", "insert"}
    /\ Onward(p)
    /\ UNCHANGED <<docs, entry, agent>>

\* A panic, or the process stops and starts again.
ScanStops(p) ==
    /\ scan' = [scan EXCEPT ![p] = NoScan]
    /\ UNCHANGED <<docs, entry, agent>>

-----------------------------------------------------------------------------
(* Documents.                                                              *)

\* mutant: the queue is left alone
PrunedMut(d, rows) == rows
\* DocumentRepository.Delete takes the entries of the document along.
Pruned(d, rows) == [e \in Rows |-> IF IsRow(e) /\ d \in entry[e].pair
                                   THEN [rows[e] EXCEPT !.st = "gone"] ELSE rows[e]]

\* A delete, or an eviction by the retention sweep.
DeleteDocument(d) ==
    /\ docs[d] # "gone"
    /\ docs' = [docs EXCEPT ![d] = "gone"]
    /\ entry' = Pruned(d, entry)
    /\ Standing
    /\ UNCHANGED agent

ArchiveDocument(d) ==
    /\ docs[d] = "live"
    /\ docs' = [docs EXCEPT ![d] = "archived"]
    /\ UNCHANGED <<entry, scan, agent>>

\* One that is verified again, or restored.
ReviveDocument(d) ==
    /\ docs[d] = "archived"
    /\ docs' = [docs EXCEPT ![d] = "live"]
    /\ UNCHANGED <<entry, scan, agent>>

-----------------------------------------------------------------------------
(* An agent takes an entry, may merge the pair, and marks the entry done.  *)

Take(a) ==
    /\ A(a, "idle")
    /\ \E e \in Rows :
         /\ entry[e].st = "pending"
         /\ agent' = [agent EXCEPT ![a] = [NoAgent EXCEPT !.pc = "taken", !.row = e, !.pair = entry[e].pair]]
    /\ UNCHANGED <<docs, entry, scan>>

\* MergeDocuments moves what is kept and deletes the loser.
Merge(a) ==
    /\ A(a, "taken") /\ ~agent[a].merged
    /\ \E winner, loser \in agent[a].pair :
         /\ winner # loser /\ docs[winner] = "live" /\ docs[loser] = "live"
         /\ docs' = [docs EXCEPT ![loser] = "gone"]
         /\ entry' = Pruned(loser, entry)
    /\ agent' = [agent EXCEPT ![a].merged = TRUE]
    /\ Standing

MergeRefused(a) ==
    /\ A(a, "taken") /\ ~agent[a].merged /\ \E d \in agent[a].pair : docs[d] # "live"
    /\ agent' = [agent EXCEPT ![a] = Answered("refused", @.merged)]
    /\ UNCHANGED <<docs, entry, scan>>

\* MarkCleanupDone: read the entry and check the right to its first document,
\* which a document that is gone gives to nobody ...
MarkGet(a) ==
    LET e == agent[a].row IN
    /\ A(a, "taken")
    /\ IF IsRow(e) /\ docs[CHOOSE d \in entry[e].pair : \A c \in entry[e].pair : d <= c] # "gone"
       THEN agent' = [agent EXCEPT ![a].pc = "resolve"]
       ELSE agent' = [agent EXCEPT ![a] = Answered("refused", @.merged)]
    /\ UNCHANGED <<docs, entry, scan>>

\* ... and resolve it, whoever has resolved it meanwhile.
MarkResolve(a) ==
    LET e == agent[a].row IN
    /\ A(a, "resolve")
    /\ \E as \in Resolutions :
         /\ agent[a].merged => as = "merged"
         /\ entry' = IF IsRow(e) THEN [entry EXCEPT ![e].st = as] ELSE entry
    /\ agent' = [agent EXCEPT ![a] = Answered(IF IsRow(e) THEN "done" ELSE "refused", @.merged)]
    /\ Standing
    /\ UNCHANGED docs

Scanning(p) == ScanDone(p) \/ UpsertExisting(p) \/ UpsertDismissed(p) \/ UpsertInsert(p)
AgentStep(a) == Merge(a) \/ MergeRefused(a) \/ MarkGet(a) \/ MarkResolve(a)

QueueInit == /\ docs = [d \in Docs |-> "live"]
             /\ entry = [e \in Rows |-> NoEntry]
             /\ scan = [p \in Scanners |-> NoScan]
             /\ agent = [a \in Agents |-> NoAgent]

-----------------------------------------------------------------------------
QueueTypeOK ==
    /\ docs \in [Docs -> {"live", "archived", "gone"}]
    /\ entry \in [Rows -> [st : {"unused", "pending", "gone"} \cup Resolutions,
                           pair : Pairs \cup {None}, late : BOOLEAN]]
    /\ scan \in [Scanners -> [pc : {"idle", "next", "dismissed", "insert"}, todo : SUBSET (DOMAIN Alike),
                              at : (DOMAIN Alike) \cup {None}, known : SUBSET Pairs]]
    /\ agent \in [Agents -> [pc : {"idle", "taken", "resolve", "done", "refused"},
                             row : Rows \cup {None}, pair : Pairs \cup {None},
                             merged : BOOLEAN]]

\* The scans of two replicas enqueue a pair once (Upsert, idx_cleanup_pending_pair).
OnePending == \A q \in Pairs : Cardinality(Pending(q)) <= 1

\* A pair the operator dismissed before a scan began, and whose dismissal stands,
\* is not enqueued again by it ("else every nightly scan re-adds it", Upsert).
StaysDismissed == [][\A p \in Scanners, e \in Rows :
    scan'[p].pc # scan[p].pc /\ entry[e].st = "unused" /\ entry'[e].st = "pending"
        => entry'[e].pair \notin scan[p].known]_queueVars

\* No pending pair names a document that is gone ("would dangle after an
\* interactive delete", DocumentRepository.Delete), except for what a scan
\* inserts that had seen the document before it went.
NoDangling == \A e \in Rows :
    entry[e].st = "pending" /\ (\E d \in entry[e].pair : docs[d] = "gone") => entry[e].late
=============================================================================
