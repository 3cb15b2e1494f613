----------------------------- MODULE ImportJobs -----------------------------
(***************************************************************************)
(* Asynchronous imports: the queue of jobs (ImportJobRepository), the      *)
(* workers that drain it (ImportWorker), and the ingestion of an archive   *)
(* (ImportDocuments).  A worker claims the oldest job in a transaction,    *)
(* works without one, and writes the outcome once.  A job whose worker is  *)
(* gone is failed by a later start, if it is old enough by then.           *)
(***************************************************************************)
EXTENDS Naturals, Sequences, FiniteSets, Replica

CONSTANTS Jobs,              \* numbered in the order of created_at
          Workers,
          Host,              \* the replica of each worker
          Archives,          \* what is uploaded: is it a zip, and the kinds of its .md entries
          MaxEntries,        \* maxImportEntries
          Stale,             \* staleRunningThreshold
          Hours              \* bound on the clock

ASSUME JobsNumbered == Jobs \subseteq Nat /\ None \notin Jobs
ASSUME Hosted == Host \in [Workers -> Replicas]
ASSUME Bounds == MaxEntries \in Nat /\ Stale \in Nat /\ Hours \in Nat
\* An entry is markdown to be stored, of a path that is none, blank, or
\* cannot be read (or is too large by then).
Kinds == {"doc", "path", "blank", "broken"}
ASSUME ArchivesAre == \A a \in Archives : a.zip \in BOOLEAN /\ a.entries \in Seq(Kinds)

VARIABLES job, worker,
          clock,
          stored,    \* the entries of each job that became documents
          swept,     \* when a start last swept
          cut,       \* jobs whose process stopped under them (history)
          passed     \* those of them a later start left running (history)

importVars == <<job, worker, clock, stored, swept, cut, passed>>

Final == {"succeeded", "failed"}
Counts == [total : Nat, imported : Nat, skipped : Nat, failed : Nat]
NoCounts == [total |-> 0, imported |-> 0, skipped |-> 0, failed |-> 0]
JobRow == [st : {"unused", "queued", "running"} \cup Final, archive : Archives \cup {None},
           n : Counts, updated : 0..Hours, runs : Nat]
WorkerRow == [pc : {"off", "idle", "claim", "open", "import", "finish"},
              job : Jobs \cup {None}, at : Nat, n : Counts, end : Final,
              wrote : 0..Hours]   \* when the worker last wrote to its job (history)
NoJob == [st |-> "unused", archive |-> None, n |-> NoCounts, updated |-> 0, runs |-> 0]
Off == [pc |-> "off", job |-> None, at |-> 1, n |-> NoCounts, end |-> "failed", wrote |-> 0]
Idle == [Off EXCEPT !.pc = "idle"]

W(w, pc) == worker[w].pc = pc
JobOf(w) == worker[w].job
Running(j) == job[j].st = "running"
Has(w, j) == JobOf(w) = j /\ worker[w].pc \notin {"off", "idle"}
\* Running, and nobody is at it.
Interrupted(j) == Running(j) /\ \A w \in Workers : ~Has(w, j)
Entries(w) == job[JobOf(w)].archive.entries

-----------------------------------------------------------------------------
\* The upload, authorized, becomes a queued row.
Enqueue(j, a) ==
    /\ job[j].st = "unused" /\ \A i \in Jobs : i < j => job[i].st # "unused"
    /\ job' = [job EXCEPT ![j] = [NoJob EXCEPT !.st = "queued", !.archive = a, !.updated = clock]]
    /\ UNCHANGED <<worker, clock, stored, swept, cut, passed>>

\* mutant: the row is read without FOR UPDATE
LockedMut(j) == FALSE
Locked(j) == \E w \in Workers : W(w, "claim") /\ JobOf(w) = j
Claimable == {j \in Jobs : job[j].st = "queued" /\ ~Locked(j)}

\* ClaimNext: lock the oldest queued row, skipping those that are locked ...
LockNext(w) ==
    /\ W(w, "idle")
    /\ \E j \in Claimable :
         /\ \A i \in Claimable : j <= i
         /\ worker' = [worker EXCEPT ![w] = [Idle EXCEPT !.pc = "claim", !.job = j]]
    /\ UNCHANGED <<job, clock, stored, swept, cut, passed>>

\* ... and commit it as running, which sets updated_at.
\* mutant: the claim leaves updated_at as the upload set it
ClaimedMut(row) == [row EXCEPT !.st = "running", !.runs = @ + 1]
Claimed(row) == [row EXCEPT !.st = "running", !.updated = clock, !.runs = @ + 1]
Claim(w) ==
    /\ W(w, "claim")
    /\ job' = [job EXCEPT ![JobOf(w)] = Claimed(@)]
    /\ worker' = [worker EXCEPT ![w].pc = "open", ![w].wrote = clock]
    /\ UNCHANGED <<clock, stored, swept, cut, passed>>

\* zipDocSource: not an archive, or one with too many entries.
OpenFails(w) ==
    /\ W(w, "open")
    /\ ~job[JobOf(w)].archive.zip \/ Len(Entries(w)) > MaxEntries
    /\ worker' = [worker EXCEPT ![w].pc = "finish", ![w].end = "failed"]
    /\ UNCHANGED <<job, clock, stored, swept, cut, passed>>

\* The total is written first; no row to write to means the job was swept, any
\* other error is only logged.
Open(w) ==
    LET j == JobOf(w) IN
    /\ W(w, "open")
    /\ job[j].archive.zip /\ Len(Entries(w)) <= MaxEntries
    /\ \/ /\ Running(j)
          /\ job' = [job EXCEPT ![j].n = [NoCounts EXCEPT !.total = Len(Entries(w))],
                                ![j].updated = clock]
          /\ worker' = [worker EXCEPT ![w].pc = "import", ![w].n.total = Len(Entries(w)),
                                      ![w].wrote = clock]
       \/ /\ ~Running(j)
          /\ worker' = [worker EXCEPT ![w] = Idle]
          /\ UNCHANGED job
       \/ /\ worker' = [worker EXCEPT ![w].pc = "import", ![w].n.total = Len(Entries(w))]
          /\ UNCHANGED job
    /\ UNCHANGED <<clock, stored, swept, cut, passed>>

\* One entry; a document that cannot be stored is counted and left.
Ingest(w) ==
    LET j == JobOf(w)  i == worker[w].at IN
    /\ W(w, "import") /\ i <= Len(Entries(w))
    /\ \/ /\ Entries(w)[i] = "doc"
          /\ worker' = [worker EXCEPT ![w].at = i + 1, ![w].n.imported = @ + 1]
          /\ stored' = [stored EXCEPT ![j] = @ \cup {i}]
       \/ /\ Entries(w)[i] = "doc"
          /\ worker' = [worker EXCEPT ![w].at = i + 1, ![w].n.failed = @ + 1]
          /\ UNCHANGED stored
       \/ /\ Entries(w)[i] = "path"
          /\ worker' = [worker EXCEPT ![w].at = i + 1, ![w].n.skipped = @ + 1]
          /\ UNCHANGED stored
       \/ /\ Entries(w)[i] = "blank"
          /\ worker' = [worker EXCEPT ![w].at = i + 1]
          /\ UNCHANGED stored
       \/ /\ Entries(w)[i] = "broken"
          /\ worker' = [worker EXCEPT ![w].pc = "finish", ![w].end = "failed"]
          /\ UNCHANGED stored
    /\ UNCHANGED <<job, clock, swept, cut, passed>>

\* mutant: a batch of which nothing was stored is a success
OutcomeMut(n) == "succeeded"
\* mutant: a status that the column does not know
OutcomeNewMut(n) == IF n.failed > 0 THEN "partial" ELSE "succeeded"
Outcome(n) == IF n.imported = 0 /\ n.failed > 0 THEN "failed" ELSE "succeeded"
Ingested(w) ==
    /\ W(w, "import") /\ worker[w].at > Len(Entries(w))
    /\ worker' = [worker EXCEPT ![w].pc = "finish", ![w].end = Outcome(worker[w].n)]
    /\ UNCHANGED <<job, clock, stored, swept, cut, passed>>

\* mutant: the status is not asked for
StillRunningMut(j) == TRUE
StillRunning(j) == Running(j)
Finish(w) ==
    LET j == JobOf(w) IN
    /\ W(w, "finish")
    /\ job' = IF StillRunning(j)
              THEN [job EXCEPT ![j].st = worker[w].end, ![j].n = worker[w].n, ![j].updated = clock]
              ELSE job
    /\ worker' = [worker EXCEPT ![w] = Idle]
    /\ UNCHANGED <<clock, stored, swept, cut, passed>>

\* A claim that fails is rolled back and tried at the next poll.
ClaimFails(w) ==
    /\ W(w, "claim")
    /\ worker' = [worker EXCEPT ![w] = Idle]
    /\ UNCHANGED <<job, clock, stored, swept, cut, passed>>

\* A panic is recovered, the write of the outcome is tried once: the worker goes
\* on with the next job.
WorkerFails(w) ==
    /\ worker[w].pc \in {"import", "finish"}
    /\ worker' = [worker EXCEPT ![w] = Idle]
    /\ UNCHANGED <<job, clock, stored, swept, cut, passed>>

\* mutant: the young ones are swept
OrphanYoungMut(j) == Running(j) /\ job[j].updated + Stale > clock
Orphan(j) == Running(j) /\ job[j].updated + Stale < clock

\* Start: sweep, then poll; a sweep that fails is logged.
StartWorkers(p) ==
    /\ \A w \in Workers : Host[w] = p => W(w, "off")
    /\ worker' = [w \in Workers |-> IF Host[w] = p THEN Idle ELSE worker[w]]
    /\ \/ /\ job' = [j \in Jobs |-> IF Orphan(j) THEN [job[j] EXCEPT !.st = "failed", !.updated = clock]
                                    ELSE job[j]]
          /\ swept' = clock
          /\ passed' = passed \cup {j \in cut : job'[j].st = "running"}
       \/ UNCHANGED <<job, swept, passed>>
    /\ UNCHANGED <<clock, stored, cut>>

\* The process stops, or its context is cancelled: no statement succeeds after.
StopWorkers(p) ==
    /\ worker' = [w \in Workers |-> IF Host[w] = p THEN Off ELSE worker[w]]
    /\ cut' = cut \cup {j \in Jobs : Running(j) /\ \E w \in Workers : Host[w] = p /\ Has(w, j)}
    /\ UNCHANGED <<job, clock, stored, swept, passed>>

Hour == /\ clock < Hours
        /\ clock' = clock + 1
        /\ UNCHANGED <<job, worker, stored, swept, cut, passed>>

Work(w) == LockNext(w) \/ Claim(w) \/ OpenFails(w) \/ Open(w) \/ Ingest(w) \/ Ingested(w) \/ Finish(w)

ImportInit == /\ job = [j \in Jobs |-> NoJob]
              /\ worker = [w \in Workers |-> Idle]
              /\ clock = 0 /\ swept = 0
              /\ stored = [j \in Jobs |-> {}]
              /\ cut = {} /\ passed = {}

ImportNext == \/ \E w \in Workers : Work(w) \/ ClaimFails(w) \/ WorkerFails(w)
              \/ \E j \in Jobs, a \in Archives : Enqueue(j, a)
              \/ \E p \in Replicas : StartWorkers(p) \/ StopWorkers(p)
              \/ Hour

ImportSpec == ImportInit /\ [][ImportNext]_importVars

-----------------------------------------------------------------------------
ImportTypeOK ==
    /\ job \in [Jobs -> JobRow]
    /\ worker \in [Workers -> WorkerRow]
    /\ clock \in 0..Hours /\ swept \in 0..Hours
    /\ stored \in [Jobs -> SUBSET Nat]
    /\ cut \subseteq Jobs /\ passed \subseteq Jobs

\* "without ever double-processing a row" (ClaimNext): a job is claimed at most
\* once, by however many workers, and is in the hands of one of them.
RunOnce == \A j \in Jobs : /\ job[j].runs <= 1
                           /\ \A v, w \in Workers : Has(v, j) /\ Has(w, j) => v = w

\* What a job that succeeded reports is what it stored: nothing is counted that
\* is not there, every entry is accounted for once at most, and a success is not
\* one in which everything failed.
Accounted == \A j \in Jobs : LET n == job[j].n IN
    /\ n.imported <= Cardinality(stored[j])
    /\ n.imported + n.skipped + n.failed <= n.total
    /\ job[j].st = "succeeded" => /\ n.imported = Cardinality(stored[j])
                                  /\ n.imported > 0 \/ n.failed = 0

\* "a terminal row is never overwritten" (Finish): not by a worker that was
\* taken for dead and comes late, nor by a start.
FinalStays == [][\A j \in Jobs : job[j].st \in Final => job'[j] = job[j]]_importVars

\* A start "deliberately does NOT touch a job a live peer replica is actively
\* processing" (SweepRunningToFailed): a worker whose job was failed under it had
\* written nothing to it for longer than the threshold by then.
SparesLive == \A w \in Workers, j \in Jobs :
    Has(w, j) /\ job[j].st = "failed" => worker[w].wrote + Stale < job[j].updated

\* "If the server restarts mid-import, the interrupted job is marked failed on
\* the next boot rather than sticking in running" (docs/administering.md).
NextBootFails == passed = {}
=============================================================================
