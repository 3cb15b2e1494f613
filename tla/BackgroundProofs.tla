-------------------------- MODULE BackgroundProofs --------------------------
(***************************************************************************)
(* What holds of the background work, for every number of replicas and of  *)
(* everything else: the import jobs inside of Background are the import    *)
(* jobs on their own, and the queue and the configurations keep what they  *)
(* promise whichever part moves.                                           *)
(***************************************************************************)
EXTENDS Background, ImportJobsProofs

\* Whatever the replicas do, the import jobs take a step of their own or none.
LEMMA ImportsAlone == [Next]_vars => [ImportNext]_importVars
  <1> SUFFICES ASSUME [Next]_vars PROVE ImportNext \/ UNCHANGED importVars
    OBVIOUS
  <1>1. ASSUME NEW w \in Workers, Importing(w) \/ Unclaimed(w) PROVE ImportNext
    BY <1>1 DEF Importing, Unclaimed, ImportNext
  <1>2. ASSUME NEW p \in Replicas, Scans(p) \/ Starting(p) \/ Stop(p) \/ Listens(p) \/ BootsQuietly(p)
        PROVE  ImportNext \/ UNCHANGED importVars
    BY <1>2 DEF Scans, Starting, StartBackground, Stop, Listens, BootsQuietly, ImportNext
  <1>3. ASSUME NEW a, Resolving(a) \/ Changes(a) PROVE UNCHANGED importVars
    BY <1>3 DEF Resolving, Changes
  <1>4. CASE UNCHANGED vars
    BY <1>4 DEF vars
  <1> QED BY <1>1, <1>2, <1>3, <1>4 DEF Next, ImportNext

\* So Background implements the import jobs.
LEMMA ImportsInPlace == Spec => ImportSpec
  <1>1. Init => ImportInit
    BY DEF Init
  <1> QED BY <1>1, ImportsAlone, PTL DEF Spec, ImportSpec

\* What is proved of the import jobs holds where they run: beside scans, requests
\* and the configuration, on replicas that start and stop.
THEOREM ImportsHold == Spec => [](RunOnce /\ Accounted /\ SparesLive) /\ FinalStays
  BY ImportsInPlace, OnceEach, Reported, EndIsFinal, PeersAreSpared, PTL

-----------------------------------------------------------------------------
(* The queue of near-duplicates.                                           *)

QueueNext ==
    \/ \E p \in Scanners : ScanFind(p) \/ Scanning(p) \/ UpsertFails(p) \/ ScanStops(p)
    \/ \E d \in Docs : DeleteDocument(d) \/ ArchiveDocument(d) \/ ReviveDocument(d)
    \/ \E a \in Agents : Take(a) \/ AgentStep(a)

\* A row that is in use is about two documents, and no pair is pending twice.
Filled == \A e \in Rows : entry[e].st # "unused" => entry[e].pair \in Pairs
Single == \A e, f \in Rows : /\ entry[e].st = "pending" /\ entry[f].st = "pending"
                             /\ entry[e].pair = entry[f].pair
                             => e = f
\* A scan knows no more than what stands, and has asked before it inserts.
Asked(p) == /\ scan[p].pc \in {"dismissed", "insert"} => scan[p].at \in DOMAIN Alike
            /\ scan[p].known \subseteq DismissedPairs(entry)
            /\ S(p, "insert") => Near(p) \notin scan[p].known

QueueInv == QueueTypeOK /\ Filled /\ Single /\ NoDangling /\ \A p \in Scanners : Asked(p)

ScanRow == [pc : {"idle", "next", "dismissed", "insert"}, todo : SUBSET (DOMAIN Alike),
            at : (DOMAIN Alike) \cup {None}, known : SUBSET Pairs]
EntryRow == [st : {"unused", "pending", "gone"} \cup Resolutions, pair : Pairs \cup {None}, late : BOOLEAN]
AgentRow == [pc : {"idle", "taken", "resolve", "done", "refused"}, row : Rows \cup {None},
             pair : Pairs \cup {None}, merged : BOOLEAN]

\* The type of the queue, row by row.
LEMMA QueueTypes ==
    QueueTypeOK <=> /\ docs \in [Docs -> {"live", "archived", "gone"}]
                    /\ entry \in [Rows -> EntryRow]
                    /\ scan \in [Scanners -> ScanRow]
                    /\ agent \in [Agents -> AgentRow]
  BY DEF QueueTypeOK, ScanRow, EntryRow, AgentRow

\* What is alike is a pair of documents.
LEMMA AlikePairs == \A i \in DOMAIN Alike : Alike[i] \in Pairs
  BY AlikeArePairs DEF Pairs

\* The queue begins empty.
LEMMA QueueStart == QueueInit => QueueInv
  <1> SUFFICES ASSUME QueueInit PROVE QueueInv
    OBVIOUS
  <1>1. NoEntry \in EntryRow /\ NoScan \in ScanRow /\ NoAgent \in AgentRow
    BY DEF NoEntry, NoScan, NoAgent, EntryRow, ScanRow, AgentRow
  <1>2. QueueTypeOK
    BY <1>1, QueueTypes DEF QueueInit
  <1>3. \A e \in Rows : entry[e].st = "unused"
    BY DEF QueueInit, NoEntry
  <1>4. \A p \in Scanners : Asked(p)
    BY DEF QueueInit, NoScan, Asked, S
  <1> QED BY <1>2, <1>3, <1>4 DEF QueueInv, Filled, Single, NoDangling

\* A step of one scan that leaves the rows alone.
LEMMA ScanMoves ==
  ASSUME QueueInv, NEW p \in Scanners, NEW x \in ScanRow,
         scan' = [scan EXCEPT ![p] = x], UNCHANGED <<docs, entry, agent>>,
         x.pc \in {"dismissed", "insert"} => x.at \in DOMAIN Alike,
         x.known \subseteq DismissedPairs(entry),
         x.pc = "insert" => Alike[x.at] \notin x.known
  PROVE  QueueInv'
  <1>1. QueueTypeOK'
    BY QueueTypes DEF QueueInv, QueueTypeOK, ScanRow
  <1>2. \A s \in Scanners : scan'[s] = IF s = p THEN x ELSE scan[s]
    BY QueueTypes DEF QueueInv
  <1>3. ASSUME NEW s \in Scanners PROVE Asked(s)'
    BY <1>2, <1>3 DEF QueueInv, Asked, S, Near, DismissedPairs
  <1>4. (Filled /\ Single /\ NoDangling)'
    BY DEF QueueInv, Filled, Single, NoDangling
  <1> QED BY <1>1, <1>3, <1>4 DEF QueueInv

\* A step that changes documents and rows but leaves every scan where it is, or
\* takes from what it knows what no longer stands.
LEMMA RowsMove ==
  ASSUME QueueInv, QueueTypeOK', Filled', Single', NoDangling',
         \/ Standing
         \/ UNCHANGED scan /\ DismissedPairs(entry) \subseteq DismissedPairs(entry')
  PROVE  QueueInv'
  <1>1. ASSUME NEW s \in Scanners PROVE Asked(s)'
    <2>1. Asked(s) /\ scan \in [Scanners -> ScanRow]
      BY <1>1, QueueTypes DEF QueueInv
    <2>2. CASE Standing
      <3>1. scan'[s] = [scan[s] EXCEPT !.known = @ \cap DismissedPairs(entry')]
        BY <2>2 DEF Standing
      <3>2. /\ scan'[s].pc = scan[s].pc /\ scan'[s].at = scan[s].at
            /\ scan'[s].known = scan[s].known \cap DismissedPairs(entry')
        BY <2>1, <3>1 DEF ScanRow
      <3>3. DismissedPairs(entry)' = DismissedPairs(entry')
        BY DEF DismissedPairs
      <3> QED BY <2>1, <3>2, <3>3 DEF Asked, S, Near
    <2>3. CASE UNCHANGED scan /\ DismissedPairs(entry) \subseteq DismissedPairs(entry')
      <3>1. DismissedPairs(entry)' = DismissedPairs(entry')
        BY DEF DismissedPairs
      <3> QED BY <2>1, <2>3, <3>1 DEF Asked, S, Near
    <2> QED BY <2>2, <2>3
  <1> QED BY <1>1 DEF QueueInv

\* The steps of a scan.
LEMMA ScanSteps ==
  ASSUME QueueInv, NEW p \in Scanners,
         ScanFind(p) \/ ScanDone(p) \/ UpsertExisting(p) \/ UpsertDismissed(p) \/ UpsertFails(p)
         \/ ScanStops(p)
  PROVE  QueueInv'
  <1> DEFINE s == scan[p]
             known == DismissedPairs(entry)
             on == [s EXCEPT !.pc = "next", !.at = None]
  <1>1. scan \in [Scanners -> ScanRow] /\ s \in ScanRow /\ Asked(p)
    BY QueueTypes DEF QueueInv
  <1>2. NoScan \in ScanRow /\ NoScan.pc = "idle" /\ NoScan.known = {}
    BY DEF NoScan, ScanRow
  <1>3. on \in ScanRow /\ on.pc = "next" /\ on.known = s.known
    BY <1>1 DEF ScanRow
  <1>4. known \subseteq Pairs
    BY DEF QueueInv, Filled, DismissedPairs
  <1>5. s.known \subseteq known
    BY <1>1 DEF Asked
  <1>6. CASE ScanFind(p)
    <2> DEFINE x == [NoScan EXCEPT !.pc = "next", !.known = known,
                       !.todo = {i \in DOMAIN Alike : \A d \in Alike[i] : docs[d] = "live"}]
    <2>1. x \in ScanRow /\ x.pc = "next" /\ x.known = known
      BY <1>4 DEF ScanRow, NoScan
    <2>2. scan' = [scan EXCEPT ![p] = x] /\ UNCHANGED <<docs, entry, agent>>
      BY <1>6 DEF ScanFind
    <2> HIDE DEF x
    <2> QED BY <2>1, <2>2, ScanMoves
  <1>7. CASE ScanDone(p) \/ ScanStops(p)
    BY <1>2, <1>7, ScanMoves DEF ScanDone, ScanStops
  <1>8. CASE UpsertFails(p)
    <2>1. scan' = [scan EXCEPT ![p] = on] /\ UNCHANGED <<docs, entry, agent>>
      BY <1>1, <1>8 DEF UpsertFails, Onward
    <2> HIDE DEF on, s, known
    <2> QED BY <1>3, <1>5, <2>1, ScanMoves DEF known
  <1>9. CASE UpsertExisting(p)
    <2>1. PICK i \in s.todo :
            \/ scan' = [scan EXCEPT ![p].todo = @ \ {i}]
            \/ scan' = [scan EXCEPT ![p].todo = @ \ {i}, ![p].pc = "dismissed", ![p].at = i]
      BY <1>9 DEF UpsertExisting
    <2> DEFINE y == [s EXCEPT !.todo = s.todo \ {i}]
               z == [s EXCEPT !.todo = s.todo \ {i}, !.pc = "dismissed", !.at = i]
    <2>2. i \in DOMAIN Alike /\ s.pc = "next"
      BY <1>1, <1>9 DEF UpsertExisting, S, ScanRow
    <2>3. y \in ScanRow /\ y.pc = "next" /\ y.known = s.known
      BY <1>1, <2>2 DEF ScanRow
    <2>4. z \in ScanRow /\ z.pc = "dismissed" /\ z.known = s.known /\ z.at = i
      BY <1>1, <2>2 DEF ScanRow
    <2>5. scan' = [scan EXCEPT ![p] = y] \/ scan' = [scan EXCEPT ![p] = z]
      BY <1>1, <2>1 DEF ScanRow
    <2>6. UNCHANGED <<docs, entry, agent>>
      BY <1>9 DEF UpsertExisting
    <2> HIDE DEF y, z, s, known
    <2> QED BY <1>5, <2>2, <2>3, <2>4, <2>5, <2>6, ScanMoves DEF known
  <1>10. CASE UpsertDismissed(p)
    <2>1. CASE Dismissed(Near(p))
      <3>1. scan' = [scan EXCEPT ![p] = on] /\ UNCHANGED <<docs, entry, agent>>
        BY <1>1, <1>10, <2>1 DEF UpsertDismissed, Onward
      <3> HIDE DEF on, s, known
      <3> QED BY <1>3, <1>5, <3>1, ScanMoves DEF known
    <2>2. CASE ~Dismissed(Near(p))
      <3> DEFINE x == [s EXCEPT !.pc = "insert"]
      <3>1. x \in ScanRow /\ x.pc = "insert" /\ x.at = s.at /\ x.known = s.known
        BY <1>1 DEF ScanRow
      <3>2. scan' = [scan EXCEPT ![p] = x] /\ UNCHANGED <<docs, entry, agent>>
        BY <1>10, <2>2 DEF UpsertDismissed
      <3>3. s.at \in DOMAIN Alike
        BY <1>1, <1>10 DEF UpsertDismissed, Asked, S
      <3>4. Alike[s.at] \notin known
        BY <2>2 DEF Dismissed, DismissedPairs, Near
      <3> HIDE DEF x, s, known
      <3> QED BY <1>5, <3>1, <3>2, <3>3, <3>4, ScanMoves DEF known
    <2> QED BY <2>1, <2>2
  <1> QED BY <1>6, <1>7, <1>8, <1>9, <1>10

\* An insert adds a pair that is not pending.
LEMMA InsertStep ==
  ASSUME QueueInv, NEW p \in Scanners, UpsertInsert(p)
  PROVE  QueueInv'
  <1> DEFINE s == scan[p]
             q == Near(p)
             on == [s EXCEPT !.pc = "next", !.at = None]
  <1>1. /\ scan \in [Scanners -> ScanRow] /\ s \in ScanRow /\ Asked(p)
        /\ entry \in [Rows -> EntryRow]
    BY QueueTypes DEF QueueInv
  <1>2. q \in Pairs
    BY <1>1, AlikePairs DEF UpsertInsert, Asked, S, Near
  <1>3. on \in ScanRow /\ scan' = [scan EXCEPT ![p] = on]
    BY <1>1 DEF ScanRow, UpsertInsert, Onward
  <1>4. scan' \in [Scanners -> ScanRow]
    BY <1>1, <1>3
  <1>5. scan'[p] = on /\ \A r \in Scanners : r # p => scan'[r] = scan[r]
    BY <1>1, <1>3
  <1>6. on.pc = "next" /\ on.known = s.known
    BY <1>1 DEF ScanRow
  <1>7. ASSUME DismissedPairs(entry)' = DismissedPairs(entry), NEW r \in Scanners
        PROVE  Asked(r)'
    <2>1. Asked(r)
      BY DEF QueueInv
    <2> HIDE DEF on
    <2> QED BY <1>5, <1>6, <1>7, <2>1 DEF Asked, S, Near
  <1>8. CASE UNCHANGED entry
    <2>1. QueueTypeOK'
      BY <1>4, <1>8, QueueTypes DEF QueueInv, QueueTypeOK, ScanRow, UpsertInsert
    <2>2. (Filled /\ Single /\ NoDangling)'
      BY <1>8 DEF QueueInv, Filled, Single, NoDangling, UpsertInsert
    <2>3. DismissedPairs(entry)' = DismissedPairs(entry)
      BY <1>8 DEF DismissedPairs
    <2> QED BY <1>7, <2>1, <2>2, <2>3 DEF QueueInv
  <1>9. CASE ~UNCHANGED entry
    <2>1. PICK e \in Rows :
            /\ FreePair(q) /\ entry[e].st = "unused"
            /\ entry' = [entry EXCEPT ![e] = [st |-> "pending", pair |-> q,
                                              late |-> \E d \in q : docs[d] = "gone"]]
      BY <1>9 DEF UpsertInsert
    <2> DEFINE late == \E d \in q : docs[d] = "gone"
               row == [st |-> "pending", pair |-> q, late |-> late]
    <2>2. row \in EntryRow /\ row.st = "pending" /\ row.pair = q
      <3>1. late \in BOOLEAN
        OBVIOUS
      <3> HIDE DEF late, q
      <3> QED BY <1>2, <3>1 DEF EntryRow
    <2>3. row.late = late
      OBVIOUS
    <2> HIDE DEF row
    <2>4. /\ entry' \in [Rows -> EntryRow] /\ entry'[e] = row
          /\ \A f \in Rows : f # e => entry'[f] = entry[f]
      BY <1>1, <2>1, <2>2 DEF row
    <2>5. QueueTypeOK'
      BY <1>4, <2>4, QueueTypes DEF QueueInv, QueueTypeOK, ScanRow, EntryRow, UpsertInsert
    <2>6. Filled'
      BY <1>2, <2>2, <2>4 DEF QueueInv, Filled
    <2>7. Single'
      BY <2>1, <2>2, <2>4 DEF QueueInv, Single, FreePair, Pending
    <2>8. NoDangling'
      <3>1. ASSUME NEW f \in Rows, entry'[f].st = "pending",
                   \E d \in entry'[f].pair : docs'[d] = "gone"
            PROVE  entry'[f].late
        <4>1. docs' = docs
          BY DEF UpsertInsert
        <4>2. CASE f # e
          BY <2>4, <3>1, <4>1, <4>2 DEF QueueInv, NoDangling
        <4>3. CASE f = e
          BY <2>2, <2>3, <2>4, <3>1, <4>1, <4>3, Zenon
        <4> QED BY <4>2, <4>3
      <3> QED BY <3>1 DEF NoDangling
    <2>9. DismissedPairs(entry)' = DismissedPairs(entry)
      <3>1. {f \in Rows : entry'[f].st = "dismissed"} = {f \in Rows : entry[f].st = "dismissed"}
        BY <2>1, <2>2, <2>4
      <3>2. \A f \in Rows : entry'[f].st = "dismissed" => entry'[f].pair = entry[f].pair
        BY <2>2, <2>4
      <3> QED BY <3>1, <3>2 DEF DismissedPairs
    <2> QED BY <1>7, <2>5, <2>6, <2>7, <2>8, <2>9 DEF QueueInv
  <1> QED BY <1>8, <1>9

\* What a document takes along when it goes.
LEMMA PruneStep ==
  ASSUME QueueInv, NEW d, docs' = [docs EXCEPT ![d] = "gone"], entry' = Pruned(d, entry),
         Standing, agent' \in [Agents -> AgentRow]
  PROVE  QueueInv'
  <1>1. /\ docs \in [Docs -> {"live", "archived", "gone"}] /\ entry \in [Rows -> EntryRow]
        /\ scan \in [Scanners -> ScanRow]
    BY QueueTypes DEF QueueInv
  <1>2. \A e \in Rows : /\ entry'[e] = entry[e] \/ (IsRow(e) /\ entry'[e] = [entry[e] EXCEPT !.st = "gone"])
                        /\ IsRow(e) /\ d \in entry[e].pair => entry'[e].st = "gone"
    BY <1>1 DEF Pruned, EntryRow
  <1>3. entry' \in [Rows -> EntryRow]
    BY <1>1 DEF Pruned, EntryRow
  <1>4. \A e \in Rows : /\ entry'[e].pair = entry[e].pair /\ entry'[e].late = entry[e].late
                        /\ entry'[e].st = "unused" <=> entry[e].st = "unused"
                        /\ entry'[e].st = "pending" => entry'[e] = entry[e]
    <2> SUFFICES ASSUME NEW e \in Rows
                 PROVE  /\ entry'[e].pair = entry[e].pair /\ entry'[e].late = entry[e].late
                        /\ entry'[e].st = "unused" <=> entry[e].st = "unused"
                        /\ entry'[e].st = "pending" => entry'[e] = entry[e]
      OBVIOUS
    <2>1. CASE entry'[e] = entry[e]
      BY <2>1
    <2>2. CASE IsRow(e) /\ entry'[e] = [entry[e] EXCEPT !.st = "gone"]
      BY <1>1, <2>2 DEF EntryRow, IsRow
    <2> QED BY <1>2, <2>1, <2>2
  <1>5. docs' \in [Docs -> {"live", "archived", "gone"}] /\ \A c \in Docs : c # d => docs'[c] = docs[c]
    <2>1. CASE d \in Docs
      BY <1>1, <2>1
    <2>2. CASE d \notin Docs
      BY <1>1, <2>2
    <2> QED BY <2>1, <2>2
  <1>6. scan' \in [Scanners -> ScanRow]
    <2>1. \A p \in Scanners : [scan[p] EXCEPT !.known = @ \cap DismissedPairs(entry')] \in ScanRow
      BY <1>1 DEF ScanRow
    <2> QED BY <2>1 DEF Standing
  <1>7. QueueTypeOK'
    BY <1>3, <1>5, <1>6 DEF QueueTypeOK, ScanRow, EntryRow, AgentRow
  <1>8. Filled' /\ Single'
    <2>1. ASSUME NEW e \in Rows, entry'[e].st # "unused" PROVE entry'[e].pair \in Pairs
      BY <1>4, <2>1 DEF QueueInv, Filled
    <2>2. Single'
      BY <1>4 DEF QueueInv, Single
    <2> QED BY <2>1, <2>2 DEF Filled, Pairs
  <1>9. NoDangling'
    <2>1. ASSUME NEW e \in Rows, entry'[e].st = "pending", NEW c \in entry'[e].pair, docs'[c] = "gone"
          PROVE  entry'[e].late
      <3>1. entry'[e] = entry[e] /\ entry[e].pair \in Pairs
        BY <1>4, <2>1 DEF QueueInv, Filled
      <3>2. IsRow(e)
        BY <2>1, <3>1 DEF IsRow
      <3>3. c # d
        BY <1>2, <2>1, <3>1, <3>2
      <3>4. c \in Docs
        BY <2>1, <3>1 DEF Pairs
      <3>5. docs[c] = "gone"
        BY <1>5, <2>1, <3>3, <3>4
      <3> QED BY <2>1, <3>1, <3>5, Zenon DEF QueueInv, NoDangling
    <2> QED BY <2>1, Zenon DEF NoDangling
  <1> QED BY <1>7, <1>8, <1>9, RowsMove

\* An answer is a row of the agents.
LEMMA AnAnswer ==
  ASSUME NEW answer \in {"done", "refused"}, NEW m \in BOOLEAN
  PROVE  Answered(answer, m) \in AgentRow
  <1> DEFINE b == answer = "refused" /\ m
  <1>1. b \in BOOLEAN
    OBVIOUS
  <1>2. Answered(answer, m) = [NoAgent EXCEPT !.pc = answer, !.merged = b]
    BY DEF Answered
  <1> HIDE DEF b
  <1> QED BY <1>1, <1>2 DEF NoAgent, AgentRow

\* What an agent does keeps its type.
LEMMA AgentTypes ==
  ASSUME QueueInv, NEW a \in Agents, Take(a) \/ AgentStep(a)
  PROVE  agent' \in [Agents -> AgentRow]
  <1>1. agent \in [Agents -> AgentRow] /\ agent[a] \in AgentRow /\ agent[a].merged \in BOOLEAN
    BY QueueTypes DEF QueueInv, AgentRow
  <1>2. CASE Take(a)
    <2>1. PICK e \in Rows :
            /\ entry[e].st = "pending"
            /\ agent' = [agent EXCEPT ![a] = [NoAgent EXCEPT !.pc = "taken", !.row = e, !.pair = entry[e].pair]]
      BY <1>2 DEF Take
    <2>2. entry[e].pair \in Pairs
      BY <2>1 DEF QueueInv, Filled
    <2>3. [NoAgent EXCEPT !.pc = "taken", !.row = e, !.pair = entry[e].pair] \in AgentRow
      BY <2>2 DEF NoAgent, AgentRow
    <2> QED BY <1>1, <2>1, <2>3
  <1>3. CASE Merge(a)
    <2>1. [agent[a] EXCEPT !.merged = TRUE] \in AgentRow
      BY <1>1 DEF AgentRow
    <2> QED BY <1>1, <1>3, <2>1 DEF Merge
  <1>4. \A answer \in {"done", "refused"} : Answered(answer, agent[a].merged) \in AgentRow
    BY <1>1, AnAnswer
  <1>5. CASE MergeRefused(a)
    <2>1. agent' = [agent EXCEPT ![a] = Answered("refused", agent[a].merged)]
      BY <1>5 DEF MergeRefused
    <2> QED BY <1>1, <1>4, <2>1
  <1>6. CASE MarkGet(a)
    <2>1. \/ agent' = [agent EXCEPT ![a] = [agent[a] EXCEPT !.pc = "resolve"]]
          \/ agent' = [agent EXCEPT ![a] = Answered("refused", agent[a].merged)]
      BY <1>1, <1>6 DEF MarkGet
    <2>2. [agent[a] EXCEPT !.pc = "resolve"] \in AgentRow
      BY <1>1 DEF AgentRow
    <2> QED BY <1>1, <1>4, <2>1, <2>2
  <1>7. CASE MarkResolve(a)
    <2>1. \/ agent' = [agent EXCEPT ![a] = Answered("done", agent[a].merged)]
          \/ agent' = [agent EXCEPT ![a] = Answered("refused", agent[a].merged)]
      BY <1>7 DEF MarkResolve
    <2> QED BY <1>1, <1>4, <2>1
  <1> QED BY <1>2, <1>3, <1>5, <1>6, <1>7 DEF AgentStep

\* A document is archived or revived.
LEMMA ShelfSteps ==
  ASSUME QueueInv, NEW d \in Docs, ArchiveDocument(d) \/ ReviveDocument(d)
  PROVE  QueueInv'
  <1>1. /\ docs \in [Docs -> {"live", "archived", "gone"}]
        /\ docs' \in [Docs -> {"live", "archived", "gone"}] /\ UNCHANGED <<entry, scan, agent>>
        /\ \A c \in Docs : docs'[c] = "gone" => docs[c] = "gone"
    BY QueueTypes DEF QueueInv, ArchiveDocument, ReviveDocument
  <1>2. QueueTypeOK'
    BY <1>1 DEF QueueInv, QueueTypeOK
  <1>3. Filled' /\ Single' /\ UNCHANGED scan /\ DismissedPairs(entry) \subseteq DismissedPairs(entry')
    BY <1>1 DEF QueueInv, Filled, Single
  <1>4. NoDangling'
    <2>1. ASSUME NEW e \in Rows, entry'[e].st = "pending", NEW c \in entry'[e].pair, docs'[c] = "gone"
          PROVE  entry'[e].late
      <3>1. c \in Docs
        BY <1>1, <2>1 DEF QueueInv, Filled, Pairs
      <3>2. docs[c] = "gone" /\ entry' = entry
        BY <1>1, <2>1, <3>1
      <3> QED BY <2>1, <3>2, Zenon DEF QueueInv, NoDangling
    <2> QED BY <2>1, Zenon DEF NoDangling
  <1> QED BY <1>2, <1>3, <1>4, RowsMove

\* An entry is resolved.
LEMMA ResolveStep ==
  ASSUME QueueInv, NEW a \in Agents, MarkResolve(a)
  PROVE  QueueInv'
  <1>1. /\ docs \in [Docs -> {"live", "archived", "gone"}] /\ entry \in [Rows -> EntryRow]
        /\ scan \in [Scanners -> ScanRow] /\ agent' \in [Agents -> AgentRow]
    BY QueueTypes, AgentTypes DEF QueueInv, AgentStep
  <1> DEFINE e == agent[a].row
  <1>2. PICK as \in Resolutions : entry' = IF IsRow(e) THEN [entry EXCEPT ![e].st = as] ELSE entry
    BY DEF MarkResolve
  <1> HIDE DEF e
  <1>3. entry' \in [Rows -> EntryRow]
    BY <1>1, <1>2 DEF EntryRow, Resolutions
  <1>4. \A f \in Rows : /\ entry'[f].pair = entry[f].pair /\ entry'[f].late = entry[f].late
                        /\ entry'[f].st = "unused" <=> entry[f].st = "unused"
                        /\ entry'[f].st = "pending" => entry'[f] = entry[f]
    <2> SUFFICES ASSUME NEW f \in Rows
                 PROVE  /\ entry'[f].pair = entry[f].pair /\ entry'[f].late = entry[f].late
                        /\ entry'[f].st = "unused" <=> entry[f].st = "unused"
                        /\ entry'[f].st = "pending" => entry'[f] = entry[f]
      OBVIOUS
    <2>1. CASE entry'[f] = entry[f]
      BY <2>1
    <2>2. CASE IsRow(f) /\ entry'[f] = [entry[f] EXCEPT !.st = as]
      <3>1. entry[f] \in EntryRow /\ entry[f].st # "unused"
        BY <1>1, <2>2 DEF IsRow
      <3>2. entry'[f].pair = entry[f].pair /\ entry'[f].late = entry[f].late /\ entry'[f].st = as
        BY <2>2, <3>1 DEF EntryRow
      <3>3. as # "unused" /\ as # "pending"
        BY <1>2 DEF Resolutions
      <3> QED BY <3>1, <3>2, <3>3
    <2>3. CASE f = e /\ IsRow(e)
      <3>1. entry' = [entry EXCEPT ![f].st = as]
        BY <1>2, <2>3
      <3>2. entry'[f] = [entry[f] EXCEPT !.st = as]
        BY <1>1, <3>1
      <3> QED BY <2>2, <2>3, <3>2
    <2>4. CASE f # e \/ ~IsRow(e)
      <3>1. entry' = entry \/ entry' = [entry EXCEPT ![e].st = as]
        BY <1>2
      <3>2. CASE f # e
        BY <1>1, <2>1, <3>1, <3>2
      <3>3. CASE ~IsRow(e)
        BY <1>2, <2>1, <3>3
      <3> QED BY <2>4, <3>2, <3>3
    <2> QED BY <2>3, <2>4
  <1>5. scan' \in [Scanners -> ScanRow]
    <2>1. \A p \in Scanners : [scan[p] EXCEPT !.known = @ \cap DismissedPairs(entry')] \in ScanRow
      BY <1>1 DEF ScanRow
    <2> QED BY <2>1 DEF Standing, MarkResolve
  <1>6. UNCHANGED docs /\ Standing
    BY DEF MarkResolve
  <1>7. QueueTypeOK'
    BY <1>1, <1>3, <1>5, <1>6 DEF QueueTypeOK, ScanRow, EntryRow, AgentRow
  <1>8. Filled' /\ Single'
    <2>1. ASSUME NEW f \in Rows, entry'[f].st # "unused" PROVE entry'[f].pair \in Pairs
      BY <1>4, <2>1 DEF QueueInv, Filled
    <2>2. Single'
      BY <1>4 DEF QueueInv, Single
    <2> QED BY <2>1, <2>2 DEF Filled, Pairs
  <1>9. NoDangling'
    <2>1. ASSUME NEW f \in Rows, entry'[f].st = "pending", \E d \in entry'[f].pair : docs'[d] = "gone"
          PROVE  entry'[f].late
      <3>1. entry'[f] = entry[f] /\ docs' = docs
        BY <1>4, <1>6, <2>1
      <3> QED BY <2>1, <3>1, Zenon DEF QueueInv, NoDangling
    <2> QED BY <2>1, Zenon DEF NoDangling
  <1> QED BY <1>6, <1>7, <1>8, <1>9, RowsMove

\* Every step of the queue keeps its invariant.
LEMMA QueueStep == QueueInv /\ [QueueNext]_queueVars => QueueInv'
  <1> SUFFICES ASSUME QueueInv, [QueueNext]_queueVars PROVE QueueInv'
    OBVIOUS
  <1>1. ASSUME NEW p \in Scanners, ScanFind(p) \/ Scanning(p) \/ UpsertFails(p) \/ ScanStops(p)
        PROVE  QueueInv'
    BY <1>1, ScanSteps, InsertStep DEF Scanning
  <1>2. ASSUME NEW d \in Docs, DeleteDocument(d) PROVE QueueInv'
    BY <1>2, PruneStep, QueueTypes DEF QueueInv, DeleteDocument
  <1>3. ASSUME NEW d \in Docs, ArchiveDocument(d) \/ ReviveDocument(d) PROVE QueueInv'
    BY <1>3, ShelfSteps
  <1>4. ASSUME NEW a \in Agents, Merge(a) PROVE QueueInv'
    <2>1. agent' \in [Agents -> AgentRow]
      BY <1>4, AgentTypes DEF AgentStep
    <2> QED BY <1>4, <2>1, PruneStep DEF Merge
  <1>5. ASSUME NEW a \in Agents, Take(a) \/ MergeRefused(a) \/ MarkGet(a) PROVE QueueInv'
    <2>1. agent' \in [Agents -> AgentRow] /\ UNCHANGED <<docs, entry, scan>>
      BY <1>5, AgentTypes DEF AgentStep, Take, MergeRefused, MarkGet
    <2>2. QueueTypeOK' /\ Filled' /\ Single' /\ NoDangling'
      BY <2>1 DEF QueueInv, QueueTypeOK, AgentRow, Filled, Single, NoDangling
    <2>3. DismissedPairs(entry) \subseteq DismissedPairs(entry')
      BY <2>1
    <2> QED BY <2>1, <2>2, <2>3, RowsMove
  <1>6. ASSUME NEW a \in Agents, MarkResolve(a) PROVE QueueInv'
    BY <1>6, ResolveStep
  <1>7. CASE UNCHANGED queueVars
    <2>1. UNCHANGED <<docs, entry, scan, agent>>
      BY <1>7 DEF queueVars
    <2>2. QueueTypeOK' /\ Filled' /\ Single' /\ NoDangling'
      BY <2>1 DEF QueueInv, QueueTypeOK, Filled, Single, NoDangling
    <2>3. DismissedPairs(entry) \subseteq DismissedPairs(entry')
      BY <2>1
    <2> QED BY <2>1, <2>2, <2>3, RowsMove
  <1> QED BY <1>1, <1>2, <1>3, <1>4, <1>5, <1>6, <1>7 DEF QueueNext, AgentStep

\* A step that inserts a pair does so for a scan that has asked.
LEMMA InsertIsAsked ==
  ASSUME QueueInv, QueueNext, NEW p \in Scanners, NEW e \in Rows, scan'[p].pc # scan[p].pc,
         entry[e].st = "unused", entry'[e].st = "pending"
  PROVE  entry'[e].pair \notin scan[p].known
  <1>1. entry \in [Rows -> EntryRow] /\ scan \in [Scanners -> ScanRow]
    BY QueueTypes DEF QueueInv
  <1>2. ~(\E d \in Docs : DeleteDocument(d) \/ ArchiveDocument(d) \/ ReviveDocument(d))
    BY <1>1 DEF DeleteDocument, ArchiveDocument, ReviveDocument, Pruned, IsRow
  <1>3. ~(\E a \in Agents : Take(a) \/ AgentStep(a))
    <2>1. ASSUME NEW a \in Agents, MarkResolve(a) PROVE FALSE
      <3>1. PICK as \in Resolutions :
              entry' = IF IsRow(agent[a].row) THEN [entry EXCEPT ![agent[a].row].st = as] ELSE entry
        BY <2>1 DEF MarkResolve
      <3> DEFINE row == agent[a].row
      <3>2. entry' = entry \/ entry' = [entry EXCEPT ![row].st = as]
        BY <3>1
      <3>3. as # "pending"
        BY DEF Resolutions
      <3> HIDE DEF row
      <3>4. entry'[e].st \in {entry[e].st, as}
        <4>1. CASE row = e
          BY <1>1, <3>2, <4>1 DEF EntryRow
        <4>2. CASE row # e
          BY <1>1, <3>2, <4>2
        <4> QED BY <4>1, <4>2
      <3> QED BY <3>3, <3>4
    <2>2. ASSUME NEW a \in Agents, Merge(a) PROVE FALSE
      BY <1>1, <2>2 DEF Merge, Pruned, IsRow
    <2> QED BY <2>1, <2>2 DEF AgentStep, Take, MergeRefused, MarkGet
  <1>4. PICK r \in Scanners : UpsertInsert(r)
    BY <1>2, <1>3 DEF QueueNext, Scanning, ScanFind, ScanDone, UpsertExisting, UpsertDismissed,
                      UpsertFails, ScanStops
  <1>5. r = p
    BY <1>1, <1>4 DEF UpsertInsert, Onward
  <1>6. entry'[e].pair = Near(p)
    BY <1>1, <1>4, <1>5 DEF UpsertInsert
  <1> QED BY <1>4, <1>5, <1>6 DEF QueueInv, Asked, UpsertInsert

\* Whatever the replicas do, the queue takes a step of its own or none.
LEMMA QueueAlone == [Next]_vars => [QueueNext]_queueVars
  <1> SUFFICES ASSUME [Next]_vars PROVE QueueNext \/ UNCHANGED queueVars
    OBVIOUS
  <1>1. ASSUME NEW w \in Workers, Importing(w) \/ Unclaimed(w) PROVE UNCHANGED queueVars
    BY <1>1 DEF Importing, Unclaimed, queueVars
  <1>2. ASSUME NEW p \in Replicas, Starting(p) \/ Stop(p) \/ Listens(p) \/ BootsQuietly(p)
        PROVE  UNCHANGED queueVars
    BY <1>2 DEF Starting, StartBackground, Stop, Listens, BootsQuietly, queueVars
  <1>3. ASSUME NEW a, Changes(a) PROVE UNCHANGED queueVars
    BY <1>3 DEF Changes, queueVars
  <1>4. CASE UNCHANGED vars
    BY <1>4 DEF vars, queueVars
  <1>5. ASSUME NEW p \in Replicas, Scans(p) PROVE QueueNext
    BY <1>5, ScannersRun DEF Scans, QueueNext
  <1> QED BY <1>1, <1>2, <1>3, <1>4, <1>5, ScannersRun DEF Next, QueueNext, Resolving

\* The invariant of the queue holds beside all that moves.
LEMMA QueueInvariant == Spec => []QueueInv
  <1>1. Init => QueueInv
    BY QueueStart DEF Init
  <1> QED BY <1>1, QueueStep, QueueAlone, PTL DEF Spec

\* A pair is pending once, however many replicas enqueue it (Upsert: the unique
\* index of pending pairs).
THEOREM PendingOnce == Spec => []OnePending
  <1>1. QueueInv => OnePending
    <2> SUFFICES ASSUME QueueInv, NEW q \in Pairs PROVE Cardinality(Pending(q)) <= 1
      BY DEF OnePending
    <2>1. CASE Pending(q) = {}
      BY <2>1, FS_EmptySet
    <2>2. CASE Pending(q) # {}
      <3>1. PICK e \in Pending(q) : TRUE
        BY <2>2
      <3>2. ASSUME NEW f \in Pending(q) PROVE f = e
        <4>1. /\ e \in Rows /\ entry[e].st = "pending" /\ entry[e].pair = q
              /\ f \in Rows /\ entry[f].st = "pending" /\ entry[f].pair = q
          BY <3>1 DEF Pending
        <4> QED BY <4>1 DEF QueueInv, Single
      <3>3. Pending(q) = {e}
        BY <3>1, <3>2
      <3>4. Cardinality(Pending(q)) = 1
        BY <3>3, FS_Singleton, Zenon
      <3> QED BY <3>4
    <2> QED BY <2>1, <2>2
  <1> QED BY <1>1, QueueInvariant, PTL

\* No pending pair dangles after a delete (DocumentRepository.Delete) unless a
\* scan had seen the document before.
THEOREM DeletedArePruned == Spec => []NoDangling
  <1>1. QueueInv => NoDangling
    BY DEF QueueInv
  <1> QED BY <1>1, QueueInvariant, PTL

\* No scan brings back what was dismissed before it began, whatever other scans,
\* dismissals and deletes come between its read of the queue and its upserts.
THEOREM DismissedForGood == Spec => StaysDismissed
  <1>1. QueueInv /\ [QueueNext]_queueVars =>
          [\A p \in Scanners, e \in Rows :
              scan'[p].pc # scan[p].pc /\ entry[e].st = "unused" /\ entry'[e].st = "pending"
                => entry'[e].pair \notin scan[p].known]_queueVars
    BY InsertIsAsked
  <1> QED BY <1>1, QueueInvariant, QueueAlone, PTL DEF Spec, StaysDismissed

-----------------------------------------------------------------------------
(* The configuration.                                                      *)

ListenerRow == [pc : {"off", "wait", "read"}, heard : SUBSET Chans,
                chan : Chans \cup {None}, snap : Snapshots]
StartRow == [pc : {"down", "conf", "confread", "pol", "polread", "workers", "up", "fatal"},
             snap : Snapshots]
RequestRow == [pc : {"idle", "check", "read", "store", "ok", "failed"}, chan : Chans \cup {None},
               type : Types \cup {None}, row : PolicyRow, wrote : Nat, snap : Snapshots]
TableOK == table \in [conf : 1..MaxWrites, pol : [Types -> PolicyRow], ver : Nat]
CachesOK == cache \in [Replicas -> [Chans -> Snapshots]] /\ best \in [Replicas -> [Chans -> Nat]]
OthersOK == deaf \in [Replicas -> [Chans -> BOOLEAN]] /\ faults \in 0..MaxFaults

\* The type of the configuration, part by part.
LEMMA ConfigTypes ==
    ConfigTypeOK <=> /\ TableOK /\ CachesOK /\ OthersOK
                     /\ lst \in [Replicas -> ListenerRow]
                     /\ up \in [Replicas -> StartRow]
                     /\ adm \in [Admins -> RequestRow]
  BY DEF ConfigTypeOK, TableOK, CachesOK, OthersOK, ListenerRow, StartRow, RequestRow

\* What a load of a table would get, and where in a start a replica has it.
Ver(c) == IF c = "conf" THEN table.conf ELSE table.ver
Loaded(c) == IF c = "conf" THEN {"pol", "polread", "workers", "up"} ELSE {"workers", "up"}
Loading(c) == IF c = "conf" THEN "confread" ELSE "polread"

Heard == \A p \in Replicas : lst[p].pc = "read" => lst[p].chan \in Chans
Serving == \A p \in Replicas : Valid(cache[p]["pol"].rows)
\* A request that wrote: what it wrote is in the table, then in what it loaded,
\* then in what its replica has had since it last started.
Fresh(a) == LET r == adm[a]  u == up[At[a]] IN
    /\ r.pc \in {"read", "store", "ok"} => r.chan \in Chans /\ r.wrote <= Ver(r.chan)
    /\ r.pc = "check" => r.type \in Types
    /\ r.pc \in {"check", "read", "store"} => u.pc = "up"
    /\ r.pc = "store" => r.wrote <= r.snap.ver
    /\ r.pc = "ok" => /\ u.pc \in Loaded(r.chan) => r.wrote <= best[At[a]][r.chan]
                      /\ u.pc = Loading(r.chan) => r.wrote <= u.snap.ver

ConfigInv == ConfigTypeOK /\ Heard /\ Serving /\ \A a \in Admins : Fresh(a)

\* The rows everything begins with are rows, and the policies that are seeded
\* are valid.
LEMMA SeededRows ==
    /\ Seeded \in [Types -> PolicyRow] /\ Valid(Seeded)
    /\ NoSnap \in Snapshots /\ NoSnap.ver = 0 /\ NoSnap.rows = Seeded
    /\ NoSession \in ListenerRow /\ NoSession.pc = "off"
    /\ NoRequest \in RequestRow /\ NoRequest.pc = "idle"
    /\ Failed \in RequestRow /\ Failed.pc = "failed"
    /\ \A h \in SUBSET Chans : Session(h) \in ListenerRow /\ Session(h).pc = "wait"
  <1>1. Seeded \in [Types -> PolicyRow]
    BY DEF Seeded, Types, PolicyRow, Modes
  <1>2. Seeded["reference"] = [guard |-> TRUE, mode |-> "replace"]
        /\ Seeded["other"] = [guard |-> None, mode |-> None]
    BY DEF Seeded, Types
  <1>3. Valid(Seeded)
    <2>1. /\ Seeded["reference"].guard = TRUE /\ Seeded["reference"].mode = "replace"
          /\ Seeded["other"].guard = None /\ Seeded["other"].mode = None
      BY <1>2
    <2>2. TRUE # None /\ "replace" # None
      BY NoneIsNoValue DEF Modes
    <2>3. \A t \in Types : Effective(Seeded, t).mode = "replace"
      BY <2>1, <2>2, Zenon DEF Effective, Types
    <2>4. \A t \in Types : Sound(Effective(Seeded, t))
      BY <2>3, Zenon DEF Sound
    <2> QED BY <2>1, <2>2, <2>4, Zenon DEF Valid
  <1>4. NoSnap \in Snapshots /\ NoSnap.ver = 0 /\ NoSnap.rows = Seeded
    BY <1>1 DEF NoSnap, Snapshots
  <1>5. NoSession \in ListenerRow /\ NoSession.pc = "off"
    BY <1>4 DEF NoSession, ListenerRow
  <1>6. \A h \in SUBSET Chans : Session(h) \in ListenerRow /\ Session(h).pc = "wait"
    BY <1>4 DEF Session, NoSession, ListenerRow
  <1>7. Seeded["other"] \in PolicyRow
    BY <1>1 DEF Types
  <1>8. NoRequest \in RequestRow /\ NoRequest.pc = "idle"
    BY <1>4, <1>7 DEF NoRequest, RequestRow
  <1>9. Failed \in RequestRow /\ Failed.pc = "failed"
    BY <1>8 DEF Failed, RequestRow
  <1> QED BY <1>1, <1>3, <1>4, <1>5, <1>6, <1>8, <1>9

\* What a load reads.
LEMMA Loads1 ==
  ASSUME TableOK, NEW c \in Chans
  PROVE  Snap(c) \in Snapshots /\ Snap(c).ver = Ver(c) /\ Ver(c) \in Nat
         /\ (c = "pol" => Snap(c).rows = table.pol)
  BY SeededRows, WriteBound DEF TableOK, Snap, Snapshots, Ver, Chans

\* What a load makes of a cache.
LEMMA SwapStep ==
  ASSUME CachesOK, Serving, NEW p \in Replicas, NEW c \in Chans, NEW snap \in Snapshots,
         Swap(p, c, snap)
  PROVE  /\ CachesOK' /\ Serving'
         /\ \A r \in Replicas, d \in Chans : best[r][d] <= best'[r][d]
         /\ Loads(c, snap) => snap.ver <= best'[p][c]
  <1>1. snap.ver \in Nat /\ best[p][c] \in Nat
    BY DEF Snapshots, CachesOK
  <1> DEFINE x == IF Loads(c, snap) THEN snap ELSE cache[p][c]
             v == IF Loads(c, snap) /\ snap.ver > best[p][c] THEN snap.ver ELSE best[p][c]
  <1>2. x \in Snapshots /\ v \in Nat /\ best[p][c] <= v /\ (Loads(c, snap) => snap.ver <= v)
    BY <1>1 DEF CachesOK
  <1>3. cache' = [cache EXCEPT ![p][c] = x] /\ best' = [best EXCEPT ![p][c] = v]
    BY DEF Swap
  <1>4. c = "pol" => Valid(x.rows)
    BY DEF Loads, Serving
  <1> HIDE DEF x, v
  <1>5. CachesOK'
    BY <1>2, <1>3 DEF CachesOK
  <1>6. \A r \in Replicas, d \in Chans :
          /\ cache'[r][d] = IF r = p /\ d = c THEN x ELSE cache[r][d]
          /\ best'[r][d] = IF r = p /\ d = c THEN v ELSE best[r][d]
    BY <1>3 DEF CachesOK
  <1>7. \A r \in Replicas : Valid(cache'[r]["pol"].rows)
    BY <1>4, <1>6 DEF Serving, Chans
  <1>8. Serving'
    BY <1>7 DEF Serving, Valid, Sound, Effective
  <1>9. \A r \in Replicas, d \in Chans : best[r][d] <= best'[r][d]
    <2>1. \A r \in Replicas, d \in Chans : best[r][d] \in Nat
      BY DEF CachesOK
    <2> QED BY <1>2, <1>6, <2>1
  <1> QED BY <1>2, <1>5, <1>6, <1>8, <1>9

\* What the invariant is to the steps below.
LEMMA ConfigParts ==
    ConfigInv <=> /\ TableOK /\ CachesOK /\ OthersOK
                  /\ lst \in [Replicas -> ListenerRow]
                  /\ up \in [Replicas -> StartRow]
                  /\ adm \in [Admins -> RequestRow]
                  /\ Heard /\ Serving /\ \A a \in Admins : Fresh(a)
  BY ConfigTypes DEF ConfigInv

\* The parts of the next state.
LEMMA ConfigPartsNext ==
    ConfigInv' <=> /\ TableOK' /\ CachesOK' /\ OthersOK'
                   /\ lst' \in [Replicas -> ListenerRow]
                   /\ up' \in [Replicas -> StartRow]
                   /\ adm' \in [Admins -> RequestRow]
                   /\ Heard' /\ Serving' /\ \A a \in Admins : Fresh(a)'
  BY DEF ConfigInv, ConfigTypeOK, TableOK, CachesOK, OthersOK, ListenerRow, StartRow, RequestRow

\* A request nobody touches stays fresh while tables and caches grow.
LEMMA FreshStays ==
  ASSUME ConfigInv, NEW a \in Admins, adm'[a] = adm[a], up'[At[a]] = up[At[a]],
         \A c \in Chans : /\ Ver(c) \in Nat /\ Ver(c)' \in Nat /\ Ver(c) <= Ver(c)'
                          /\ best[At[a]][c] <= best'[At[a]][c],
         CachesOK'
  PROVE  Fresh(a)'
  <1> DEFINE p == At[a]
  <1>1. Fresh(a) /\ adm[a] \in RequestRow /\ adm[a].wrote \in Nat /\ p \in Replicas
    BY ConfigParts, AdminsAt DEF RequestRow
  <1>2. \A c \in Chans : best[p][c] \in Nat /\ best'[p][c] \in Nat
    BY <1>1, ConfigParts DEF CachesOK
  <1>3. \A c \in Chans : /\ adm[a].wrote <= Ver(c) => adm[a].wrote <= Ver(c)'
                         /\ adm[a].wrote <= best[p][c] => adm[a].wrote <= best'[p][c]
    BY <1>1, <1>2
  <1>4. adm[a].pc = "ok" => adm[a].chan \in Chans
    BY <1>1 DEF Fresh
  <1>5. \A c : Loaded(c)' = Loaded(c) /\ Loading(c)' = Loading(c)
    BY DEF Loaded, Loading
  <1> USE DEF Fresh
  <1>6. adm'[a].pc \in {"read", "store", "ok"} =>
            adm'[a].chan \in Chans /\ adm'[a].wrote <= Ver(adm[a].chan)'
    BY <1>1, <1>3
  <1>7. adm'[a].pc = "ok" => /\ up'[p].pc \in Loaded(adm[a].chan) => adm'[a].wrote <= best'[p][adm[a].chan]
                             /\ up'[p].pc = Loading(adm[a].chan) => adm'[a].wrote <= up'[p].snap.ver
    BY <1>1, <1>3, <1>4
  <1> QED BY <1>1, <1>6, <1>7 DEF Ver, Loaded, Loading, Chans

\* The steps of a listener.
LEMMA ListenerSteps ==
  ASSUME ConfigInv, NEW p \in Replicas, Listening(p) \/ ReloadFails(p) \/ Disconnect(p)
  PROVE  ConfigInv'
  <1>1. /\ TableOK /\ CachesOK /\ OthersOK /\ Heard /\ Serving
        /\ lst \in [Replicas -> ListenerRow] /\ up \in [Replicas -> StartRow]
        /\ adm \in [Admins -> RequestRow]
    BY ConfigParts
  <1>2. UNCHANGED <<table, up, adm>>
    BY DEF Listening, Connect, Hear, Reload, ReloadFails, Disconnect
  <1>3. TableOK'
    BY <1>1, <1>2 DEF TableOK
  <1>4. /\ lst' \in [Replicas -> ListenerRow] /\ OthersOK'
        /\ \A r \in Replicas : lst'[r].pc = "read" => lst'[r].chan \in Chans
    <2>1. CASE Connect(p)
      <3>1. Session(Chans) \in ListenerRow /\ Session(Chans).pc = "wait"
        BY SeededRows
      <3> QED BY <1>1, <2>1, <3>1 DEF Connect, HeardAnew, OthersOK, Heard
    <2>2. CASE Hear(p)
      <3>1. PICK c \in lst[p].heard :
              lst' = [lst EXCEPT ![p].pc = "read", ![p].chan = c, ![p].snap = Snap(c), ![p].heard = @ \ {c}]
        BY <2>2 DEF Hear
      <3>2. c \in Chans /\ Snap(c) \in Snapshots
        BY <1>1, <3>1, Loads1 DEF ListenerRow
      <3> DEFINE x == [lst[p] EXCEPT !.pc = "read", !.chan = c, !.snap = Snap(c), !.heard = lst[p].heard \ {c}]
      <3>3. x \in ListenerRow /\ x.chan = c
        BY <1>1, <3>2 DEF ListenerRow
      <3>4. lst' = [lst EXCEPT ![p] = x]
        BY <1>1, <3>1 DEF ListenerRow
      <3>5. OthersOK'
        BY <1>1, <2>2 DEF Hear, OthersOK
      <3> HIDE DEF x
      <3> QED BY <1>1, <3>2, <3>3, <3>4, <3>5 DEF Heard
    <2>3. CASE Reload(p) \/ ReloadFails(p)
      <3>1. Session(lst[p].heard) \in ListenerRow /\ Session(lst[p].heard).pc = "wait"
        BY <1>1, SeededRows DEF ListenerRow
      <3>2. lst' = [lst EXCEPT ![p] = Session(lst[p].heard)]
        BY <2>3 DEF Reload, ReloadFails
      <3>3. lst[p].chan \in Chans
        BY <1>1, <2>3 DEF Reload, ReloadFails, Heard
      <3>4. OthersOK'
        <4>1. faults' \in 0..MaxFaults
          BY <1>1, <2>3, WriteBound DEF OthersOK, Reload, ReloadFails
        <4>2. \E b \in BOOLEAN : deaf' = [deaf EXCEPT ![p][lst[p].chan] = b]
          BY <2>3, Zenon DEF Reload, ReloadFails
        <4>3. deaf' \in [Replicas -> [Chans -> BOOLEAN]]
          BY <1>1, <3>3, <4>2 DEF OthersOK
        <4> QED BY <4>1, <4>3 DEF OthersOK
      <3> QED BY <1>1, <3>1, <3>2, <3>4 DEF Heard
    <2>4. CASE Disconnect(p)
      BY <1>1, <2>4, SeededRows, WriteBound DEF Disconnect, OthersOK, Heard
    <2> QED BY <2>1, <2>2, <2>3, <2>4 DEF Listening
  <1>5. CachesOK' /\ Serving' /\ \A r \in Replicas, c \in Chans : best[r][c] <= best'[r][c]
    <2>1. CASE Reload(p)
      <3>1. lst[p].chan \in Chans /\ lst[p].snap \in Snapshots
        BY <1>1, <2>1 DEF Reload, Heard, ListenerRow
      <3> QED BY <1>1, <2>1, <3>1, SwapStep DEF Reload
    <2>2. CASE UNCHANGED <<cache, best>>
      <3>1. \A r \in Replicas, c \in Chans : best[r][c] \in Nat
        BY <1>1 DEF CachesOK
      <3> QED BY <1>1, <2>2, <3>1 DEF CachesOK, Serving, Valid, Sound, Effective
    <2> QED BY <2>1, <2>2 DEF Listening, Connect, Hear, ReloadFails, Disconnect
  <1>6. ASSUME NEW a \in Admins PROVE Fresh(a)'
    <2>1. At[a] \in Replicas
      BY AdminsAt
    <2>2. \A c \in Chans : Ver(c) \in Nat /\ Ver(c)' = Ver(c)
      BY <1>1, <1>2, Loads1 DEF Ver
    <2> QED BY <1>2, <1>5, <2>1, <2>2, FreshStays
  <1>7. Heard'
    BY <1>4 DEF Heard, Chans
  <1> QED BY <1>1, <1>2, <1>3, <1>4, <1>5, <1>6, <1>7, ConfigPartsNext

\* A step of the start of a replica, beside which nothing but its caches and its
\* sessions change.
LEMMA StartSteps ==
  ASSUME ConfigInv, NEW p \in Replicas, NEW x \in StartRow,
         up[p].pc # "up", up' = [up EXCEPT ![p] = x], UNCHANGED <<table, adm, deaf, faults>>,
         lst' \in [Replicas -> ListenerRow], Heard', CachesOK', Serving',
         \A r \in Replicas, c \in Chans : best[r][c] <= best'[r][c],
         \A c \in Chans : x.pc \in Loaded(c) => \/ up[p].pc \in Loaded(c)
                                                \/ Ver(c) <= best'[p][c]
                                                \/ up[p].pc = Loading(c) /\ up[p].snap.ver <= best'[p][c],
         \A c \in Chans : x.pc = Loading(c) => Ver(c) <= x.snap.ver
  PROVE  ConfigInv'
  <1>1. /\ TableOK /\ CachesOK /\ OthersOK /\ Heard /\ Serving
        /\ lst \in [Replicas -> ListenerRow] /\ up \in [Replicas -> StartRow]
        /\ adm \in [Admins -> RequestRow]
    BY ConfigParts
  <1>2. TableOK' /\ OthersOK' /\ up' \in [Replicas -> StartRow]
    BY <1>1 DEF TableOK, OthersOK
  <1>3. \A c \in Chans : Ver(c) \in Nat /\ Ver(c)' = Ver(c)
    BY <1>1, Loads1 DEF Ver
  <1>4. \A c \in Chans, n \in Nat : best[p][c] \in Nat /\ best'[p][c] \in Nat
    BY <1>1 DEF CachesOK
  <1>5. up[p].snap.ver \in Nat /\ x.snap.ver \in Nat
    BY <1>1 DEF StartRow, Snapshots
  <1>6. ASSUME NEW a \in Admins PROVE Fresh(a)'
    <2>1. CASE At[a] # p
      <3>1. up'[At[a]] = up[At[a]] /\ At[a] \in Replicas
        BY <1>1, <2>1, AdminsAt
      <3> QED BY <1>3, <3>1, FreshStays
    <2>2. CASE At[a] = p
      <3>1. Fresh(a) /\ adm[a] \in RequestRow /\ adm'[a] = adm[a] /\ up'[p] = x
        BY <1>1, ConfigParts
      <3>2. adm[a].pc \notin {"check", "read", "store"}
        BY <2>2, <3>1 DEF Fresh
      <3>3. ASSUME adm[a].pc = "ok", NEW c \in Chans, c = adm[a].chan
            PROVE  /\ adm[a].wrote <= Ver(c)
                   /\ x.pc \in Loaded(c) => adm[a].wrote <= best'[p][c]
                   /\ x.pc = Loading(c) => adm[a].wrote <= x.snap.ver
        <4>1. adm[a].wrote \in Nat /\ adm[a].wrote <= Ver(c)
          BY <3>1, <3>3 DEF Fresh, RequestRow
        <4>2. /\ up[p].pc \in Loaded(c) => adm[a].wrote <= best[p][c]
              /\ up[p].pc = Loading(c) => adm[a].wrote <= up[p].snap.ver
          BY <2>2, <3>1, <3>3 DEF Fresh
        <4> QED BY <1>3, <1>4, <1>5, <4>1, <4>2
      <3>4. adm[a].pc = "ok" => adm[a].chan \in Chans
        BY <3>1 DEF Fresh
      <3> QED BY <1>3, <2>2, <3>1, <3>2, <3>3, <3>4 DEF Fresh, Ver, Loaded, Loading, Chans
    <2> QED BY <2>1, <2>2
  <1> QED BY <1>1, <1>2, <1>6, ConfigPartsNext

\* The loads of a start, in the order it makes them.
LEMMA BootSteps ==
  ASSUME ConfigInv, NEW p \in Replicas, Boots(p) \/ Booting(p)
  PROVE  ConfigInv'
  <1> DEFINE blank(pc) == [pc |-> pc, snap |-> NoSnap]
  <1>1. /\ TableOK /\ CachesOK /\ Heard /\ Serving
        /\ lst \in [Replicas -> ListenerRow] /\ up \in [Replicas -> StartRow]
        /\ up[p].snap \in Snapshots
    BY ConfigParts DEF StartRow
  <1>2. \A pc \in {"down", "conf", "pol", "workers", "up", "fatal"} :
          blank(pc) \in StartRow /\ blank(pc).pc = pc
    BY SeededRows DEF StartRow
  <1>3. \A c \in Chans : Ver(c) \in Nat /\ Snap(c) \in Snapshots /\ Snap(c).ver = Ver(c)
    BY <1>1, Loads1
  <1>4. \A r \in Replicas, c \in Chans : best[r][c] \in Nat
    BY <1>1 DEF CachesOK
  <1>5. UNCHANGED <<cache, best>> =>
          CachesOK' /\ Serving' /\ \A r \in Replicas, c \in Chans : best[r][c] <= best'[r][c]
    BY <1>1, <1>4 DEF CachesOK, Serving, Valid, Sound, Effective
  <1>6. UNCHANGED lst => lst' \in [Replicas -> ListenerRow] /\ Heard'
    BY <1>1 DEF Heard, Chans
  <1>7. CASE Boots(p)
    <2>1. lst' \in [Replicas -> ListenerRow] /\ Heard'
      <3>1. Session(Chans) \in ListenerRow /\ Session(Chans).pc = "wait"
        BY SeededRows
      <3>2. CASE lst' = [lst EXCEPT ![p] = Session(Chans)]
        <4>1. \A r \in Replicas : lst'[r].pc = "read" => lst'[r].chan \in Chans
          BY <1>1, <3>1, <3>2 DEF Heard
        <4> QED BY <1>1, <3>1, <3>2, <4>1 DEF Heard, Chans
      <3> QED BY <1>6, <1>7, <3>2 DEF Boots
    <2>2. /\ up[p].pc # "up" /\ up' = [up EXCEPT ![p] = blank("conf")]
          /\ UNCHANGED <<table, cache, adm, best, deaf, faults>>
      BY <1>7 DEF Boots
    <2>3. \A c \in Chans : "conf" \notin Loaded(c) /\ "conf" # Loading(c)
      BY DEF Loaded, Loading
    <2> DEFINE x == blank("conf")
    <2>4. x \in StartRow /\ x.pc = "conf" /\ up' = [up EXCEPT ![p] = x]
      BY <1>2, <2>2
    <2> HIDE DEF x
    <2>5. \A c \in Chans : x.pc \notin Loaded(c) /\ x.pc # Loading(c)
      BY <2>3, <2>4, Zenon
    <2>6. CachesOK' /\ Serving' /\ \A r \in Replicas, c \in Chans : best[r][c] <= best'[r][c]
      BY <1>5, <2>2
    <2>7. up[p].pc # "up" /\ UNCHANGED <<table, adm, deaf, faults>>
      BY <2>2
    <2> QED BY <2>1, <2>4, <2>5, <2>6, <2>7, StartSteps, Zenon
  <1>8. CASE BootRead(p)
    <2> DEFINE c == up[p].pc
               x == [pc |-> IF c = "conf" THEN "confread" ELSE "polread", snap |-> Snap(c)]
    <2>1. /\ c \in Chans /\ up' = [up EXCEPT ![p] = x]
          /\ UNCHANGED <<table, cache, lst, adm, best, deaf, faults>>
      BY <1>8 DEF BootRead, Chans
    <2>2. x \in StartRow /\ x.pc = Loading(c) /\ x.snap.ver = Ver(c)
      BY <1>3, <2>1 DEF StartRow, Loading, Chans
    <2>3. \A d \in Chans : /\ x.pc \in Loaded(d) => c \in Loaded(d)
                           /\ x.pc = Loading(d) => d = c
      BY <2>1 DEF Loaded, Loading, Chans
    <2>4. c # "up"
      BY <2>1 DEF Chans
    <2>5. \A d \in Chans : /\ x.pc \in Loaded(d) => up[p].pc \in Loaded(d)
                           /\ x.pc = Loading(d) => Ver(d) <= x.snap.ver
      BY <1>3, <2>1, <2>2, <2>3
    <2>6. up[p].pc # "up"
      BY <2>4
    <2> HIDE DEF x, c
    <2> QED BY <1>5, <1>6, <2>1, <2>2, <2>5, <2>6, StartSteps
  <1>9. ASSUME NEW c \in Chans, Swap(p, c, up[p].snap), up[p].pc = Loading(c),
               NEW x \in StartRow, up' = [up EXCEPT ![p] = x],
               UNCHANGED <<table, lst, adm, deaf, faults>>,
               x.pc = IF c = "conf" THEN "pol" ELSE IF Loads(c, up[p].snap) THEN "workers" ELSE "fatal"
        PROVE  ConfigInv'
    <2>1. /\ CachesOK' /\ Serving' /\ \A r \in Replicas, d \in Chans : best[r][d] <= best'[r][d]
          /\ Loads(c, up[p].snap) => up[p].snap.ver <= best'[p][c]
      BY <1>1, <1>9, SwapStep
    <2>2. \A d \in Chans : x.pc # Loading(d)
      BY <1>9 DEF Loading
    <2>3. \A d \in Chans : x.pc \in Loaded(d) => \/ up[p].pc \in Loaded(d)
                                                 \/ up[p].pc = Loading(d) /\ up[p].snap.ver <= best'[p][d]
      BY <1>9, <2>1 DEF Loaded, Loading, Chans, Loads
    <2>4. up[p].pc # "up"
      BY <1>9 DEF Loading
    <2>5. UNCHANGED <<table, adm, deaf, faults>> /\ lst' \in [Replicas -> ListenerRow] /\ Heard'
      BY <1>6, <1>9
    <2>6. /\ x \in StartRow /\ up' = [up EXCEPT ![p] = x]
          /\ CachesOK' /\ Serving' /\ \A r \in Replicas, d \in Chans : best[r][d] <= best'[r][d]
      BY <1>9, <2>1
    <2> QED BY <2>2, <2>3, <2>4, <2>5, <2>6, StartSteps, Zenon
  <1>10. CASE BootConf(p)
    <2> DEFINE x == blank("pol")
    <2>1. x \in StartRow /\ x.pc = "pol" /\ up' = [up EXCEPT ![p] = x]
      BY <1>2, <1>10 DEF BootConf
    <2> HIDE DEF x
    <2> QED BY <1>9, <1>10, <2>1 DEF BootConf, Loading, Chans
  <1>11. CASE BootPol(p)
    <2> DEFINE x == blank(IF Loads("pol", up[p].snap) THEN "workers" ELSE "fatal")
    <2>1. x \in StartRow /\ x.pc = (IF Loads("pol", up[p].snap) THEN "workers" ELSE "fatal")
      BY <1>2
    <2>2. up' = [up EXCEPT ![p] = x]
      BY <1>11 DEF BootPol
    <2> HIDE DEF x
    <2> QED BY <1>9, <1>11, <2>1, <2>2 DEF BootPol, Loading, Chans
  <1> QED BY <1>7, <1>8, <1>10, <1>11 DEF Booting

\* A process that ends takes its memory and its requests with it.
LEMMA HaltStep ==
  ASSUME ConfigInv, NEW p \in Replicas, Halt(p)
  PROVE  ConfigInv'
  <1>1. /\ TableOK /\ CachesOK /\ OthersOK /\ Heard /\ Serving
        /\ lst \in [Replicas -> ListenerRow] /\ up \in [Replicas -> StartRow]
        /\ adm \in [Admins -> RequestRow]
    BY ConfigParts
  <1> DEFINE x == [pc |-> "down", snap |-> NoSnap]
             none == [c \in Chans |-> NoSnap]
  <1>2. x \in StartRow /\ x.pc = "down"
    BY SeededRows DEF StartRow
  <1>3. none \in [Chans -> Snapshots] /\ none["pol"].rows = Seeded
    BY SeededRows DEF Chans
  <1>4. /\ up' = [up EXCEPT ![p] = x] /\ lst' = [lst EXCEPT ![p] = NoSession]
        /\ cache' = [cache EXCEPT ![p] = none] /\ UNCHANGED table
        /\ best' = [best EXCEPT ![p] = [c \in Chans |-> 0]]
    BY DEF Halt
  <1> HIDE DEF x, none
  <1>5. TableOK' /\ CachesOK' /\ up' \in [Replicas -> StartRow]
    BY <1>1, <1>2, <1>3, <1>4 DEF TableOK, CachesOK
  <1>6. lst' \in [Replicas -> ListenerRow] /\ Heard'
    <2>1. \A r \in Replicas : lst'[r].pc = "read" => lst'[r].chan \in Chans
      BY <1>1, <1>4, SeededRows DEF Heard
    <2> QED BY <1>1, <1>4, <2>1, SeededRows DEF Heard, Chans
  <1>7. Serving'
    <2>1. \A r \in Replicas : Valid(cache'[r]["pol"].rows)
      BY <1>1, <1>3, <1>4, SeededRows DEF Serving, CachesOK
    <2> QED BY <2>1 DEF Serving, Valid, Sound, Effective
  <1>8. OthersOK'
    <2>1. deaf' \in [Replicas -> [Chans -> BOOLEAN]]
      BY <1>1 DEF Halt, OthersOK
    <2>2. faults' \in 0..MaxFaults
      BY <1>1, WriteBound DEF Halt, OthersOK
    <2> QED BY <2>1, <2>2 DEF OthersOK
  <1>9. adm' = [a \in Admins |-> IF At[a] = p /\ adm[a].pc \in {"check", "read", "store"} THEN Failed
                                 ELSE adm[a]]
    BY DEF Halt
  <1>10. adm' \in [Admins -> RequestRow]
    BY <1>1, <1>9, SeededRows
  <1>11. \A c \in Chans : Ver(c) \in Nat /\ Ver(c)' = Ver(c)
    BY <1>1, <1>4, Loads1 DEF Ver
  <1>12. ASSUME NEW a \in Admins PROVE Fresh(a)'
    <2>1. CASE At[a] # p
      <3>1. up'[At[a]] = up[At[a]] /\ best'[At[a]] = best[At[a]] /\ adm'[a] = adm[a] /\ At[a] \in Replicas
        BY <1>1, <1>4, <1>9, <2>1, AdminsAt DEF CachesOK
      <3>2. \A c \in Chans : best[At[a]][c] <= best'[At[a]][c]
        BY <1>1, <3>1 DEF CachesOK
      <3> QED BY <1>5, <1>11, <3>1, <3>2, FreshStays
    <2>2. CASE At[a] = p
      <3>1. up'[At[a]].pc = "down"
        BY <1>1, <1>2, <1>4, <2>2
      <3>2. adm'[a].pc \notin {"check", "read", "store"}
        BY <1>9, <2>2, SeededRows
      <3>3. adm'[a].pc = "ok" => adm'[a] = adm[a] /\ adm[a].chan \in Chans /\ adm[a].wrote <= Ver(adm[a].chan)
        BY <1>9, SeededRows, ConfigParts DEF Fresh
      <3> QED BY <1>11, <3>1, <3>2, <3>3 DEF Fresh, Ver, Loaded, Loading, Chans
    <2> QED BY <2>1, <2>2
  <1> QED BY <1>5, <1>6, <1>7, <1>8, <1>10, <1>12, ConfigPartsNext

\* Where the configuration does not move, a start loads what is valid.
LEMMA QuietStep ==
  ASSUME ConfigInv, Valid(table.pol), NEW p \in Replicas, BootsQuietly(p)
  PROVE  ConfigInv'
  <1>1. /\ TableOK /\ CachesOK /\ OthersOK /\ Heard /\ Serving
        /\ lst \in [Replicas -> ListenerRow] /\ up \in [Replicas -> StartRow]
        /\ adm \in [Admins -> RequestRow]
    BY ConfigParts
  <1>2. \A c \in Chans : Snap(c) \in Snapshots /\ Snap(c).ver = Ver(c) /\ Ver(c) \in Nat
                         /\ (c = "pol" => Snap(c).rows = table.pol)
    BY <1>1, Loads1
  <1> DEFINE x == [up[p] EXCEPT !.pc = "workers"]
             full == [c \in Chans |-> Snap(c)]
             vers == [c \in Chans |-> Snap(c).ver]
  <1>3. x \in StartRow /\ x.pc = "workers" /\ up[p].pc = "down"
    BY <1>1 DEF StartRow, BootsQuietly
  <1>4. full \in [Chans -> Snapshots] /\ full["pol"].rows = table.pol /\ vers \in [Chans -> Nat]
        /\ \A c \in Chans : vers[c] = Ver(c)
    BY <1>2 DEF Chans
  <1>5. /\ up' = [up EXCEPT ![p] = x] /\ cache' = [cache EXCEPT ![p] = full]
        /\ best' = [best EXCEPT ![p] = vers] /\ UNCHANGED <<table, lst, adm, deaf, faults>>
    BY DEF BootsQuietly
  <1> HIDE DEF x, full, vers
  <1>6. TableOK' /\ CachesOK' /\ up' \in [Replicas -> StartRow] /\ OthersOK'
    BY <1>1, <1>3, <1>4, <1>5 DEF TableOK, CachesOK, OthersOK
  <1>7. Heard'
    BY <1>1, <1>5 DEF Heard, Chans
  <1>8. Serving'
    <2>1. \A r \in Replicas : Valid(cache'[r]["pol"].rows)
      BY <1>1, <1>4, <1>5 DEF Serving, CachesOK
    <2> QED BY <2>1 DEF Serving, Valid, Sound, Effective
  <1>9. \A c \in Chans : Ver(c)' = Ver(c)
    BY <1>5 DEF Ver
  <1>10. ASSUME NEW a \in Admins PROVE Fresh(a)'
    <2>1. CASE At[a] # p
      <3>1. up'[At[a]] = up[At[a]] /\ best'[At[a]] = best[At[a]] /\ adm'[a] = adm[a] /\ At[a] \in Replicas
        BY <1>1, <1>5, <2>1, AdminsAt DEF CachesOK
      <3>2. \A c \in Chans : best[At[a]][c] <= best'[At[a]][c]
        BY <1>1, <3>1 DEF CachesOK
      <3> QED BY <1>2, <1>6, <1>9, <3>1, <3>2, FreshStays
    <2>2. CASE At[a] = p
      <3>1. up'[At[a]].pc = "workers" /\ adm'[a] = adm[a] /\ Fresh(a)
        BY <1>1, <1>3, <1>5, <2>2, ConfigParts
      <3>2. adm[a].pc \notin {"check", "read", "store"}
        BY <1>3, <2>2, <3>1 DEF Fresh
      <3>3. adm[a].pc = "ok" => /\ adm[a].chan \in Chans /\ adm[a].wrote <= Ver(adm[a].chan)
                                /\ best'[At[a]][adm[a].chan] = Ver(adm[a].chan)
        BY <1>1, <1>4, <1>5, <2>2, <3>1 DEF Fresh, CachesOK
      <3> QED BY <1>9, <3>1, <3>2, <3>3 DEF Fresh, Ver, Loaded, Loading, Chans
    <2> QED BY <2>1, <2>2
  <1>11. adm' \in [Admins -> RequestRow] /\ lst' \in [Replicas -> ListenerRow]
    BY <1>1, <1>5
  <1> QED BY <1>6, <1>7, <1>8, <1>10, <1>11, ConfigPartsNext

\* The last of a start changes nothing of what was loaded.
LEMMA WorkersStep ==
  ASSUME ConfigInv, NEW p \in Replicas, StartBackground(p)
  PROVE  ConfigInv'
  <1>1. /\ CachesOK /\ Heard /\ Serving
        /\ lst \in [Replicas -> ListenerRow] /\ up \in [Replicas -> StartRow]
    BY ConfigParts
  <1> DEFINE x == [up[p] EXCEPT !.pc = "up"]
  <1>2. /\ x \in StartRow /\ x.pc = "up" /\ up[p].pc = "workers" /\ up' = [up EXCEPT ![p] = x]
        /\ UNCHANGED <<table, cache, lst, adm, best, deaf, faults>>
    BY <1>1 DEF StartRow, StartBackground
  <1> HIDE DEF x
  <1>3. CachesOK' /\ Serving' /\ Heard' /\ lst' \in [Replicas -> ListenerRow]
        /\ \A r \in Replicas, c \in Chans : best[r][c] <= best'[r][c]
    BY <1>1, <1>2 DEF CachesOK, Serving, Heard, Valid, Sound, Effective, Chans
  <1>4. \A c \in Chans : up[p].pc \in Loaded(c) /\ x.pc # Loading(c)
    BY <1>2 DEF Loaded, Loading
  <1>5. up[p].pc # "up" /\ UNCHANGED <<table, adm, deaf, faults>>
    BY <1>2
  <1>6. x \in StartRow /\ up' = [up EXCEPT ![p] = x]
    BY <1>2
  <1>7. \A c \in Chans : x.pc \in Loaded(c) => \/ up[p].pc \in Loaded(c)
                                               \/ Ver(c) <= best'[p][c]
                                               \/ up[p].pc = Loading(c) /\ up[p].snap.ver <= best'[p][c]
    BY <1>4, Zenon
  <1>8. \A c \in Chans : x.pc = Loading(c) => Ver(c) <= x.snap.ver
    BY <1>4, Zenon
  <1> QED BY <1>3, <1>5, <1>6, <1>7, <1>8, StartSteps, Zenon

\* A request of a replica that is up becomes x; what it wrote, what it loads.
LEMMA RequestMoves ==
  ASSUME ConfigInv, NEW a \in Admins, NEW x \in RequestRow,
         adm' = [adm EXCEPT ![a] = x], UNCHANGED up, OthersOK', TableOK', CachesOK', Serving',
         lst' \in [Replicas -> ListenerRow], Heard',
         \A r \in Replicas, c \in Chans : best[r][c] <= best'[r][c],
         \A c \in Chans : Ver(c) <= Ver(c)',
         x.pc \in {"read", "store", "ok"} =>
             x.chan \in Chans /\ \A c \in Chans : c = x.chan => x.wrote <= Ver(c)',
         x.pc = "check" => x.type \in Types,
         x.pc \in {"check", "read", "store", "ok"} => up[At[a]].pc = "up",
         x.pc = "store" => x.wrote <= x.snap.ver,
         x.pc = "ok" => x.wrote <= best'[At[a]][x.chan]
  PROVE  ConfigInv'
  <1>1. /\ TableOK /\ CachesOK /\ up \in [Replicas -> StartRow] /\ adm \in [Admins -> RequestRow]
    BY ConfigParts
  <1>2. adm' \in [Admins -> RequestRow] /\ up' \in [Replicas -> StartRow]
    BY <1>1
  <1>3. \A c \in Chans : Ver(c) \in Nat /\ Ver(c)' \in Nat
    <2>1. \A c \in Chans : Ver(c) \in Nat
      BY <1>1, Loads1
    <2>2. \A c \in Chans : Ver(c)' \in Nat
      BY WriteBound DEF TableOK, Ver, Chans
    <2> QED BY <2>1, <2>2
  <1>4. ASSUME NEW b \in Admins PROVE Fresh(b)'
    <2>1. CASE b # a
      <3>1. adm'[b] = adm[b] /\ up'[At[b]] = up[At[b]] /\ At[b] \in Replicas
        BY <1>1, <2>1, AdminsAt
      <3> QED BY <1>3, <3>1, FreshStays
    <2>2. CASE b = a
      <3>1. adm'[a] = x /\ up'[At[a]] = up[At[a]]
        BY <1>1
      <3>2. x.pc = "ok" => up'[At[a]].pc # Loading(x.chan)
        BY <3>1 DEF Loading
      <3> QED BY <2>2, <3>1, <3>2 DEF Fresh, Ver, Loaded, Loading, Chans
    <2> QED BY <2>1, <2>2
  <1> QED BY <1>2, <1>4, ConfigPartsNext

\* What is notified stays a listener.
LEMMA Notifies ==
  ASSUME NEW c \in Chans, lst \in [Replicas -> ListenerRow], Heard, lst' = Notified(c)
  PROVE  lst' \in [Replicas -> ListenerRow] /\ Heard'
  <1>1. \A p \in Replicas : [lst[p] EXCEPT !.heard = @ \cup {c}] \in ListenerRow
    BY DEF ListenerRow
  <1>2. lst' \in [Replicas -> ListenerRow]
    BY <1>1 DEF Notified
  <1>3. \A p \in Replicas : lst'[p].pc = lst[p].pc /\ lst'[p].chan = lst[p].chan
    BY DEF Notified, ListenerRow
  <1> QED BY <1>2, <1>3 DEF Heard, Chans

\* A patch of a policy makes a policy.
LEMMA PatchedRow ==
  ASSUME TableOK, NEW x \in Patches
  PROVE  Patched(table.pol[x.type], x.set) \in PolicyRow
  <1>1. x.type \in Types /\ x.set \in PolicyRow /\ table.pol[x.type] \in PolicyRow
    BY PatchesAre DEF TableOK
  <1> QED BY <1>1 DEF Patched, PolicyRow

\* The steps of a request.
LEMMA RequestSteps ==
  ASSUME ConfigInv, NEW a \in Admins,
         \/ PatchConfig(a) \/ (\E x \in Patches : SetPolicyRead(a, x)) \/ Changing(a) \/ RefreshFails(a)
  PROVE  ConfigInv'
  <1> DEFINE q == adm[a]
  <1>1. /\ TableOK /\ CachesOK /\ OthersOK /\ Heard /\ Serving
        /\ lst \in [Replicas -> ListenerRow] /\ up \in [Replicas -> StartRow]
        /\ adm \in [Admins -> RequestRow] /\ q \in RequestRow /\ Fresh(a) /\ At[a] \in Replicas
    BY ConfigParts, AdminsAt
  <1>2. \A r \in Replicas, c \in Chans : best[r][c] \in Nat
    BY <1>1 DEF CachesOK
  <1>3. \A c \in Chans : Snap(c) \in Snapshots /\ Snap(c).ver = Ver(c) /\ Ver(c) \in Nat
    BY <1>1, Loads1
  <1>4. UNCHANGED <<cache, best>> =>
          CachesOK' /\ Serving' /\ \A r \in Replicas, c \in Chans : best[r][c] <= best'[r][c]
    BY <1>1, <1>2 DEF CachesOK, Serving, Valid, Sound, Effective
  <1>5. UNCHANGED lst => lst' \in [Replicas -> ListenerRow] /\ Heard'
    BY <1>1 DEF Heard, Chans
  <1>6. UNCHANGED table => TableOK' /\ \A c \in Chans : Ver(c)' = Ver(c) /\ Ver(c) <= Ver(c)'
    BY <1>1, <1>3 DEF TableOK, Ver
  <1>7. UNCHANGED <<deaf, faults>> => OthersOK'
    BY <1>1 DEF OthersOK
  <1>8. Failed \in RequestRow /\ Failed.pc = "failed" /\ NoRequest \in RequestRow
    BY SeededRows
  <1>9. CASE PatchConfig(a)
    <2> DEFINE n == table.conf + 1
               x == [NoRequest EXCEPT !.pc = "read", !.chan = "conf", !.wrote = n]
    <2>1. table.conf \in 1..MaxWrites /\ table.conf < MaxWrites /\ "conf" \in Chans
      BY <1>1, <1>9 DEF PatchConfig, TableOK, Chans
    <2>2. x \in RequestRow /\ x.pc = "read" /\ x.chan = "conf" /\ x.wrote = n
      <3>1. n \in Nat
        BY <2>1, WriteBound
      <3> HIDE DEF n
      <3> QED BY <1>8, <2>1, <3>1 DEF RequestRow
    <2>3. /\ adm' = [adm EXCEPT ![a] = x] /\ up[At[a]].pc = "up" /\ table' = [table EXCEPT !.conf = table.conf + 1]
          /\ lst' = Notified("conf") /\ UNCHANGED <<cache, up, best, deaf, faults>>
      BY <1>9 DEF PatchConfig, Free
    <2> HIDE DEF x
    <2>4. TableOK' /\ \A c \in Chans : Ver(c) <= Ver(c)'
      BY <1>1, <2>1, <2>3, WriteBound DEF TableOK, Ver
    <2>5. Ver("conf")' = table.conf + 1
      BY <1>1, <2>3 DEF Ver, TableOK
    <2>6. lst' \in [Replicas -> ListenerRow] /\ Heard'
      BY <1>1, <2>1, <2>3, Notifies
    <2>7. \A c \in Chans : c = x.chan => x.wrote <= Ver(c)'
      <3>1. x.wrote = Ver("conf")' /\ x.wrote \in Nat
        BY <2>1, <2>2, <2>5, WriteBound
      <3> QED BY <2>2, <3>1
    <2> QED BY <1>4, <1>7, <2>1, <2>2, <2>3, <2>4, <2>6, <2>7, RequestMoves
  <1>10. ASSUME NEW y \in Patches, SetPolicyRead(a, y) PROVE ConfigInv'
    <2> DEFINE row == Patched(table.pol[y.type], y.set)
               x == [NoRequest EXCEPT !.pc = "check", !.chan = "pol", !.type = y.type, !.row = row]
    <2>1. row \in PolicyRow /\ y.type \in Types
      BY <1>1, PatchedRow, PatchesAre
    <2>2. adm' = [adm EXCEPT ![a] = x] \/ adm' = [adm EXCEPT ![a] = Failed]
      BY <1>10 DEF SetPolicyRead
    <2>3. up[At[a]].pc = "up" /\ UNCHANGED <<table, cache, lst, up, best, deaf, faults>>
      BY <1>10 DEF SetPolicyRead, Free
    <2> HIDE DEF row
    <2>4. x \in RequestRow /\ x.pc = "check" /\ x.type \in Types
      BY <1>8, <2>1 DEF RequestRow, Chans
    <2> HIDE DEF x
    <2>5. CASE adm' = [adm EXCEPT ![a] = x]
      BY <1>4, <1>5, <1>6, <1>7, <2>3, <2>4, <2>5, RequestMoves
    <2>6. CASE adm' = [adm EXCEPT ![a] = Failed]
      BY <1>4, <1>5, <1>6, <1>7, <1>8, <2>3, <2>6, RequestMoves
    <2> QED BY <2>2, <2>5, <2>6
  <1>11. CASE SetPolicyWrite(a)
    <2> DEFINE n == table.ver + 1
               x == [NoRequest EXCEPT !.pc = "read", !.chan = "pol", !.wrote = n]
    <2>1. q.pc = "check" /\ q.type \in Types /\ q.row \in PolicyRow /\ up[At[a]].pc = "up" /\ "pol" \in Chans
      BY <1>1, <1>11 DEF SetPolicyWrite, Fresh, RequestRow, Chans
    <2>2. table.ver \in Nat
      BY <1>1 DEF TableOK
    <2>3. x \in RequestRow /\ x.pc = "read" /\ x.chan = "pol" /\ x.wrote = n
      <3>1. n \in Nat
        BY <2>2
      <3> HIDE DEF n
      <3> QED BY <1>8, <2>1, <3>1 DEF RequestRow
    <2>4. /\ adm' = [adm EXCEPT ![a] = x] /\ lst' = Notified("pol")
          /\ table' = [table EXCEPT !.pol[q.type] = q.row, !.ver = table.ver + 1]
          /\ UNCHANGED <<cache, up, best, deaf, faults>>
      BY <1>11 DEF SetPolicyWrite
    <2> HIDE DEF x, q
    <2>5. /\ TableOK' /\ table'.conf = table.conf /\ table'.ver = table.ver + 1
      <3> DEFINE pol == [table.pol EXCEPT ![adm[a].type] = adm[a].row]
      <3>1. pol \in [Types -> PolicyRow] /\ n \in Nat
        BY <1>1, <2>1, <2>2 DEF TableOK, q
      <3>2. table' = [table EXCEPT !.pol = pol, !.ver = n]
        BY <1>1, <2>4 DEF TableOK, q
      <3> HIDE DEF pol, n
      <3>3. TableOK' /\ table'.conf = table.conf /\ table'.ver = n
        BY <1>1, <3>1, <3>2 DEF TableOK
      <3> QED BY <3>3 DEF n
    <2>6. \A c \in Chans : Ver(c) <= Ver(c)'
      BY <1>3, <2>2, <2>5 DEF Ver
    <2>7. lst' \in [Replicas -> ListenerRow] /\ Heard'
      BY <1>1, <2>1, <2>4, Notifies
    <2>8. \A c \in Chans : c = x.chan => x.wrote <= Ver(c)'
      <3>1. Ver("pol")' = table.ver + 1
        BY <2>5 DEF Ver
      <3>2. x.wrote = Ver("pol")' /\ x.wrote \in Nat
        BY <2>2, <2>3, <3>1
      <3> QED BY <2>3, <3>2
    <2> QED BY <1>4, <1>7, <2>1, <2>3, <2>4, <2>5, <2>6, <2>7, <2>8, RequestMoves
  <1>12. CASE RefreshRead(a)
    <2> DEFINE x == [q EXCEPT !.pc = "store", !.snap = Snap(q.chan)]
    <2>1. q.pc = "read" /\ q.chan \in Chans /\ q.wrote <= Ver(q.chan) /\ up[At[a]].pc = "up"
      BY <1>1, <1>12 DEF RefreshRead, Fresh
    <2>2. /\ x \in RequestRow /\ x.pc = "store" /\ x.chan = q.chan /\ x.wrote = q.wrote
          /\ x.snap = Snap(q.chan)
      BY <1>1, <1>3, <2>1 DEF RequestRow
    <2>3. adm' = [adm EXCEPT ![a] = x] /\ UNCHANGED <<table, cache, lst, up, best, deaf, faults>>
      BY <1>1, <1>12 DEF RefreshRead, RequestRow
    <2> HIDE DEF x, q
    <2>4. x.wrote <= x.snap.ver
      BY <1>3, <2>1, <2>2
    <2>5. x.chan \in Chans /\ \A c \in Chans : c = x.chan => x.wrote <= Ver(c)'
      <3>1. \A c \in Chans : Ver(c)' = Ver(c)
        BY <2>3 DEF Ver
      <3> QED BY <2>1, <2>2, <3>1
    <2> QED BY <1>4, <1>5, <1>6, <1>7, <2>1, <2>2, <2>3, <2>4, <2>5, RequestMoves
  <1>13. CASE RefreshStore(a)
    <2> DEFINE y == [q EXCEPT !.pc = "ok", !.snap = NoSnap]
               x == IF Loads(q.chan, q.snap) THEN y ELSE Failed
    <2>1. q.pc = "store" /\ q.chan \in Chans /\ q.wrote <= Ver(q.chan) /\ up[At[a]].pc = "up"
          /\ q.wrote <= q.snap.ver /\ q.snap \in Snapshots /\ q.wrote \in Nat
      BY <1>1, <1>13 DEF RefreshStore, Fresh, RequestRow
    <2>2. Swap(At[a], q.chan, q.snap) /\ UNCHANGED <<table, lst, up, deaf, faults>>
      BY <1>13 DEF RefreshStore
    <2>3. adm' = [adm EXCEPT ![a] = x]
      BY <1>13 DEF RefreshStore
    <2>4. y \in RequestRow /\ y.pc = "ok" /\ y.chan = q.chan /\ y.wrote = q.wrote
      BY <1>1, SeededRows DEF RequestRow
    <2>5. /\ CachesOK' /\ Serving' /\ \A r \in Replicas, c \in Chans : best[r][c] <= best'[r][c]
          /\ Loads(q.chan, q.snap) => q.snap.ver <= best'[At[a]][q.chan]
      BY <1>1, <2>1, <2>2, SwapStep
    <2> HIDE DEF y
    <2>6. CASE Loads(q.chan, q.snap)
      <3>1. x = y
        BY <2>6
      <3>2. y.wrote <= best'[At[a]][y.chan]
        <4>1. best'[At[a]][q.chan] \in Nat /\ q.snap.ver \in Nat
          BY <1>1, <2>1, <2>5 DEF CachesOK, Snapshots
        <4> QED BY <2>1, <2>4, <2>5, <2>6, <4>1
      <3>3. y.chan \in Chans /\ \A c \in Chans : c = y.chan => y.wrote <= Ver(c)'
        <4>1. \A c \in Chans : Ver(c)' = Ver(c)
          BY <2>2 DEF Ver
        <4> QED BY <2>1, <2>4, <4>1
      <3>4. adm' = [adm EXCEPT ![a] = y]
        BY <2>3, <3>1
      <3> HIDE DEF x, q
      <3> QED BY <1>5, <1>6, <1>7, <2>1, <2>2, <2>4, <2>5, <3>2, <3>3, <3>4, RequestMoves
    <2>7. CASE ~Loads(q.chan, q.snap)
      <3>1. adm' = [adm EXCEPT ![a] = Failed]
        BY <2>3, <2>7
      <3> HIDE DEF x, q
      <3> QED BY <1>5, <1>6, <1>7, <1>8, <2>2, <2>5, <3>1, RequestMoves
    <2> QED BY <2>6, <2>7
  <1>14. CASE RefreshFails(a)
    <2>1. /\ adm' = [adm EXCEPT ![a] = Failed] /\ UNCHANGED <<table, cache, lst, up, best, deaf>>
          /\ faults' = faults + 1 /\ faults < MaxFaults
      BY <1>14 DEF RefreshFails
    <2>2. OthersOK'
      BY <1>1, <2>1, WriteBound DEF OthersOK
    <2> QED BY <1>4, <1>5, <1>6, <1>8, <2>1, <2>2, RequestMoves
  <1> QED BY <1>9, <1>10, <1>11, <1>12, <1>13, <1>14 DEF Changing

\* Where the configuration does not move, nobody has asked to change it.
Quiet == part \notin Configs => /\ table.pol = Seeded
                                /\ \A a \in Admins : adm[a].pc \in {"idle", "failed"}

\* The configuration begins loaded.
LEMMA ConfigStart == Init => ConfigInv /\ Quiet
  <1> SUFFICES ASSUME Init PROVE ConfigInv /\ Quiet
    OBVIOUS
  <1> DEFINE first == [NoSnap EXCEPT !.ver = 1]
             ready == [pc |-> "up", snap |-> NoSnap]
  <1>1. first \in Snapshots /\ first.rows = Seeded
    BY SeededRows DEF Snapshots
  <1>2. ready \in StartRow
    BY SeededRows DEF StartRow
  <1>3. /\ table = [conf |-> 1, pol |-> Seeded, ver |-> 1]
        /\ cache = [p \in Replicas |-> [c \in Chans |-> first]]
        /\ lst = [p \in Replicas |-> Session({})] /\ up = [p \in Replicas |-> ready]
        /\ adm = [a \in Admins |-> NoRequest]
        /\ best = [p \in Replicas |-> [c \in Chans |-> 1]]
        /\ deaf = [p \in Replicas |-> [c \in Chans |-> FALSE]] /\ faults = 0
    BY DEF Init, ConfigInit
  <1> HIDE DEF first, ready
  <1>4. TableOK /\ CachesOK /\ OthersOK
    BY <1>1, <1>3, SeededRows, WriteBound DEF TableOK, CachesOK, OthersOK
  <1>5. lst \in [Replicas -> ListenerRow] /\ up \in [Replicas -> StartRow] /\ adm \in [Admins -> RequestRow]
    BY <1>2, <1>3, SeededRows
  <1>6. Heard
    BY <1>3, SeededRows DEF Heard
  <1>7. Serving
    BY <1>1, <1>3, SeededRows DEF Serving, Chans
  <1>8. \A a \in Admins : adm[a].pc = "idle"
    BY <1>3, SeededRows
  <1>9. \A a \in Admins : Fresh(a)
    BY <1>8 DEF Fresh
  <1>10. Quiet
    BY <1>3, <1>8 DEF Quiet
  <1> QED BY <1>4, <1>5, <1>6, <1>7, <1>9, <1>10, ConfigParts

\* A step that is not of the configuration leaves it alone.
LEMMA ConfigAlone ==
  ASSUME ConfigInv, UNCHANGED <<table, cache, lst, up, adm, best, deaf>>, OthersOK'
  PROVE  ConfigInv'
  <1>1. /\ TableOK /\ CachesOK /\ Heard /\ Serving
        /\ lst \in [Replicas -> ListenerRow] /\ up \in [Replicas -> StartRow]
        /\ adm \in [Admins -> RequestRow]
    BY ConfigParts
  <1>2. ASSUME NEW a \in Admins PROVE Fresh(a)'
    <2>1. \A c \in Chans : Ver(c) \in Nat /\ Ver(c)' = Ver(c) /\ best[At[a]][c] \in Nat
      BY <1>1, Loads1, AdminsAt DEF Ver, CachesOK
    <2>2. CachesOK'
      BY <1>1 DEF CachesOK
    <2> QED BY <2>1, <2>2, FreshStays
  <1>3. TableOK' /\ CachesOK' /\ Heard' /\ Serving'
    BY <1>1 DEF TableOK, CachesOK, Heard, Serving, Valid, Sound, Effective, Chans
  <1> QED BY <1>1, <1>2, <1>3, ConfigPartsNext

\* Every step of the replicas keeps the configuration.
LEMMA ConfigStep == ConfigInv /\ Quiet /\ [Next]_vars => ConfigInv' /\ Quiet'
  <1> SUFFICES ASSUME ConfigInv, Quiet, [Next]_vars PROVE ConfigInv' /\ Quiet'
    OBVIOUS
  <1>1. OthersOK
    BY ConfigParts
  <1>2. part \notin Configs => Valid(table.pol)
    BY SeededRows DEF Quiet
  <1>3. ASSUME UNCHANGED <<configVars, part>> PROVE ConfigInv' /\ Quiet'
    <2>1. UNCHANGED <<table, cache, lst, up, adm, best, deaf, faults, part>>
      BY <1>3 DEF configVars
    <2>2. OthersOK'
      BY <1>1, <2>1 DEF OthersOK
    <2> QED BY <2>1, <2>2, ConfigAlone DEF Quiet
  <1>4. ASSUME NEW w \in Workers, Unclaimed(w) PROVE ConfigInv' /\ Quiet'
    <2>1. OthersOK' /\ UNCHANGED <<table, cache, lst, up, adm, best, deaf, part>>
      BY <1>1, <1>4, WriteBound DEF Unclaimed, OthersOK
    <2> QED BY <2>1, ConfigAlone DEF Quiet
  <1>5. ASSUME NEW p \in Replicas, Starting(p) PROVE ConfigInv' /\ Quiet'
    <2>1. UNCHANGED <<table, adm, part>>
      BY <1>5 DEF Starting, StartBackground, Booting, BootRead, BootConf, BootPol
    <2> QED BY <1>5, <2>1, BootSteps, WorkersStep DEF Starting, Quiet
  <1>6. ASSUME NEW p \in Replicas, Stop(p) PROVE ConfigInv' /\ Quiet'
    <2>1. /\ UNCHANGED <<table, part>>
          /\ \A a \in Admins : adm'[a] = adm[a] \/ adm'[a] = Failed
      BY <1>6 DEF Stop, Halt
    <2>2. ConfigInv'
      BY <1>6, HaltStep DEF Stop
    <2> QED BY <2>1, <2>2, SeededRows DEF Quiet
  <1>7. ASSUME NEW p \in Replicas, Listens(p) PROVE ConfigInv' /\ Quiet'
    BY <1>7, ListenerSteps DEF Listens, Quiet
  <1>8. ASSUME NEW p \in Replicas, BootsQuietly(p) PROVE ConfigInv' /\ Quiet'
    BY <1>2, <1>8, QuietStep DEF BootsQuietly, Quiet
  <1>9. ASSUME NEW a \in Admins, Changes(a) PROVE ConfigInv' /\ Quiet'
    <2>1. part \in Configs /\ UNCHANGED part
      BY <1>9 DEF Changes, Changing, SetPolicyWrite, RefreshRead, RefreshStore, Quiet
    <2> QED BY <1>9, <2>1, RequestSteps DEF Changes, Quiet
  <1>10. ASSUME part \in Configs, UNCHANGED part,
                \/ \E p \in Replicas : Boots(p) \/ ReloadFails(p) \/ Disconnect(p)
                \/ \E a \in Admins : RefreshFails(a)
                \/ \E a \in Admins : PatchConfig(a)
                \/ \E a \in Admins, x \in Patches : SetPolicyRead(a, x)
         PROVE  ConfigInv' /\ Quiet'
    BY <1>10, BootSteps, ListenerSteps, RequestSteps DEF Quiet
  <1>11. CASE UNCHANGED vars
    BY <1>3, <1>11 DEF vars
  <1> QED
    BY <1>3, <1>4, <1>5, <1>6, <1>7, <1>8, <1>9, <1>10, <1>11
    DEF Next, Importing, Scans, Resolving

\* The invariant of the configuration holds beside all that moves.
LEMMA ConfigInvariant == Spec => []ConfigInv
  BY ConfigStart, ConfigStep, PTL DEF Spec

\* A write that was answered is served where it was answered, or an older load has
\* come in after a newer one (patchConfig).
THEOREM AnsweredIsServed == Spec => []AppliesLive
  <1>1. ConfigInv => AppliesLive
    <2> SUFFICES ASSUME ConfigInv, NEW a \in Admins, adm[a].pc = "ok", up[At[a]].pc = "up",
                        cache[At[a]][adm[a].chan].ver < adm[a].wrote
                 PROVE  Overtaken(At[a], adm[a].chan)
      BY DEF AppliesLive
    <2>1. Fresh(a) /\ adm[a] \in RequestRow /\ At[a] \in Replicas /\ CachesOK
      BY ConfigParts, AdminsAt
    <2>2. adm[a].chan \in Chans /\ adm[a].wrote <= best[At[a]][adm[a].chan]
      BY <2>1 DEF Fresh, Loaded, Chans
    <2>3. /\ cache[At[a]][adm[a].chan].ver \in Nat /\ best[At[a]][adm[a].chan] \in Nat
          /\ adm[a].wrote \in Nat
      BY <2>1, <2>2 DEF CachesOK, Snapshots, RequestRow
    <2> QED BY <2>2, <2>3 DEF Overtaken
  <1> QED BY <1>1, ConfigInvariant, PTL

\* No replica serves policies that are not valid, whatever two edits make of the
\* table (PolicyStore.Load).
THEOREM ValidIsServed == Spec => []ServesValid
  <1>1. ConfigInv => ServesValid
    BY ConfigParts DEF Serving, ServesValid, Valid
  <1> QED BY <1>1, ConfigInvariant, PTL

\* All the state of the background work has its type.
THEOREM TypesHold == Spec => []TypeOK
  <1>1. Init => part \in Parts
    BY DEF Init
  <1>2. part \in Parts /\ [Next]_vars => (part \in Parts)'
    BY DEF Next, vars, Importing, Unclaimed, Scans, Starting, StartBackground, Stop, Listens,
           BootsQuietly, Resolving, Changes
  <1>3. IndInv => ImportTypeOK
    BY DEF IndInv
  <1>4. QueueInv => QueueTypeOK
    BY DEF QueueInv
  <1>5. ConfigInv => ConfigTypeOK
    BY DEF ConfigInv
  <1>6. Init => QueueInv
    BY QueueStart DEF Init
  <1>7. TypeOK <=> ImportTypeOK /\ QueueTypeOK /\ ConfigTypeOK /\ part \in Parts
    BY DEF TypeOK
  <1> QED
    BY <1>1, <1>2, <1>3, <1>4, <1>5, <1>6, <1>7, ImportsInPlace, Inductive, QueueStep, QueueAlone,
       ConfigStart, ConfigStep, PTL DEF Spec
=============================================================================
