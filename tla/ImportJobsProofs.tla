-------------------------- MODULE ImportJobsProofs --------------------------
(***************************************************************************)
(* What holds of the import jobs for every number of jobs, workers and     *)
(* replicas, whatever is uploaded and however stale a job may grow.        *)
(***************************************************************************)
EXTENDS ImportJobs, FiniteSetTheorems, TLAPS

\* The rows a table and a worker begin with are rows.
LEMMA BlankRows == NoJob \in JobRow /\ Off \in WorkerRow /\ Idle \in WorkerRow
  BY Bounds DEF NoJob, JobRow, Off, Idle, WorkerRow, NoCounts, Counts, Final

\* A worker that is busy has a job, and the job is as far as the worker says:
\* locked and queued, or run and not yet run again.
Hand(w) == /\ worker[w].pc \notin {"off", "idle"} => JobOf(w) \in Jobs
           /\ W(w, "claim") => job[JobOf(w)].st = "queued"
           /\ worker[w].pc \in {"open", "import", "finish"} =>
                  job[JobOf(w)].st \in {"running"} \cup Final
\* A job was run once, or not yet.
Row(j) == /\ job[j].runs <= 1
          /\ job[j].st \in {"unused", "queued"} => job[j].runs = 0
          /\ job[j].st # "unused" => job[j].archive \in Archives
Alone == \A v, w \in Workers : \A j \in Jobs : Has(v, j) /\ Has(w, j) => v = w
\* The one who has a job is the one who may end it.
NotBack == \A w \in Workers, j \in Jobs : Has(w, j) => job[j].st # "succeeded"

Owned == /\ \A w \in Workers : Hand(w)
         /\ \A j \in Jobs : Row(j)
         /\ Alone /\ NotBack

-----------------------------------------------------------------------------
JobsOK == job \in [Jobs -> JobRow]
WorkersOK == worker \in [Workers -> WorkerRow]
RestOK == /\ clock \in 0..Hours /\ swept \in 0..Hours
          /\ stored \in [Jobs -> SUBSET Nat]
          /\ cut \subseteq Jobs /\ passed \subseteq Jobs

\* The type invariant is its three parts.
LEMMA TypeParts == ImportTypeOK <=> JobsOK /\ WorkersOK /\ RestOK
  BY DEF ImportTypeOK, JobsOK, WorkersOK, RestOK

\* A step of a worker that leaves the others alone keeps their type.
LEMMA OneWorker ==
  ASSUME NEW w \in Workers, WorkersOK, NEW x \in WorkerRow, worker' = [worker EXCEPT ![w] = x]
  PROVE  WorkersOK'
  BY DEF WorkersOK

\* So does a change of one job.
LEMMA OneJob ==
  ASSUME NEW j \in Jobs, JobsOK, NEW x \in JobRow, job' = [job EXCEPT ![j] = x]
  PROVE  JobsOK'
  BY DEF JobsOK

\* A claim, the total, the outcome and a sweep write a job.
LEMMA JobWrites ==
  ASSUME NEW row \in JobRow, RestOK
  PROVE  /\ Claimed(row) \in JobRow
         /\ \A n \in Counts : [row EXCEPT !.n = n, !.updated = clock] \in JobRow
         /\ \A n \in Counts, st \in Final :
                [row EXCEPT !.st = st, !.n = n, !.updated = clock] \in JobRow
         /\ [row EXCEPT !.st = "failed", !.updated = clock] \in JobRow
  <1>1. clock \in 0..Hours
    BY DEF RestOK
  <1>2. Claimed(row) \in JobRow
    <2>1. row.runs + 1 \in Nat
      BY DEF JobRow
    <2>2. Claimed(row) = [row EXCEPT !.st = "running", !.updated = clock, !.runs = row.runs + 1]
      BY DEF Claimed
    <2> QED BY <1>1, <2>1, <2>2 DEF JobRow
  <1>3. ASSUME NEW n \in Counts PROVE [row EXCEPT !.n = n, !.updated = clock] \in JobRow
    BY <1>1 DEF JobRow
  <1>4. ASSUME NEW n \in Counts, NEW st \in Final
        PROVE  [row EXCEPT !.st = st, !.n = n, !.updated = clock] \in JobRow
    BY <1>1 DEF JobRow
  <1>5. [row EXCEPT !.st = "failed", !.updated = clock] \in JobRow
    BY <1>1 DEF JobRow, Final
  <1> QED BY <1>2, <1>3, <1>4, <1>5

\* A worker opens its archive, counts an entry, or comes to an end.
LEMMA WorkerTurns ==
  ASSUME NEW row \in WorkerRow
  PROVE  /\ \A h \in 0..Hours : [row EXCEPT !.pc = "open", !.wrote = h] \in WorkerRow
         /\ \A e \in Final : [row EXCEPT !.pc = "finish", !.end = e] \in WorkerRow
         /\ \A n \in Nat : [row EXCEPT !.pc = "import", !.n.total = n] \in WorkerRow
         /\ \A n \in Nat : \A h \in 0..Hours :
                [row EXCEPT !.pc = "import", !.n.total = n, !.wrote = h] \in WorkerRow
         /\ [row EXCEPT !.at = row.at + 1] \in WorkerRow
         /\ [row EXCEPT !.at = row.at + 1, !.n.imported = @ + 1] \in WorkerRow
         /\ [row EXCEPT !.at = row.at + 1, !.n.failed = @ + 1] \in WorkerRow
         /\ [row EXCEPT !.at = row.at + 1, !.n.skipped = @ + 1] \in WorkerRow
  <1>1. row.n \in Counts /\ row.at + 1 \in Nat
    BY DEF WorkerRow
  <1>2. /\ \A n \in Nat : [row.n EXCEPT !.total = n] \in Counts
        /\ [row.n EXCEPT !.imported = @ + 1] \in Counts
        /\ [row.n EXCEPT !.failed = @ + 1] \in Counts
        /\ [row.n EXCEPT !.skipped = @ + 1] \in Counts
    BY <1>1 DEF Counts
  <1>3. \A n \in Counts : /\ [row EXCEPT !.pc = "import", !.n = n] \in WorkerRow
                          /\ [row EXCEPT !.at = row.at + 1, !.n = n] \in WorkerRow
    BY <1>1 DEF WorkerRow
  <1>4. /\ \A h \in 0..Hours : [row EXCEPT !.pc = "open", !.wrote = h] \in WorkerRow
        /\ [row EXCEPT !.at = row.at + 1] \in WorkerRow
    BY <1>1 DEF WorkerRow
  <1>5. \A e \in Final : [row EXCEPT !.pc = "finish", !.end = e] \in WorkerRow
    BY DEF WorkerRow
  <1>6. \A n \in Nat : [row EXCEPT !.pc = "import", !.n.total = n] \in WorkerRow
    <2> TAKE n \in Nat
    <2>1. [row EXCEPT !.pc = "import", !.n.total = n]
            = [row EXCEPT !.pc = "import", !.n = [row.n EXCEPT !.total = n]]
      BY DEF WorkerRow
    <2> QED BY <1>2, <1>3, <2>1
  <1>7. [row EXCEPT !.at = row.at + 1, !.n.imported = @ + 1] \in WorkerRow
    <2>1. [row EXCEPT !.at = row.at + 1, !.n.imported = @ + 1]
            = [row EXCEPT !.at = row.at + 1, !.n = [row.n EXCEPT !.imported = @ + 1]]
      BY DEF WorkerRow
    <2> QED BY <1>2, <1>3, <2>1
  <1>8. [row EXCEPT !.at = row.at + 1, !.n.failed = @ + 1] \in WorkerRow
    <2>1. [row EXCEPT !.at = row.at + 1, !.n.failed = @ + 1]
            = [row EXCEPT !.at = row.at + 1, !.n = [row.n EXCEPT !.failed = @ + 1]]
      BY DEF WorkerRow
    <2> QED BY <1>2, <1>3, <2>1
  <1>9. [row EXCEPT !.at = row.at + 1, !.n.skipped = @ + 1] \in WorkerRow
    <2>1. [row EXCEPT !.at = row.at + 1, !.n.skipped = @ + 1]
            = [row EXCEPT !.at = row.at + 1, !.n = [row.n EXCEPT !.skipped = @ + 1]]
      BY DEF WorkerRow
    <2> QED BY <1>2, <1>3, <2>1
  <1>10. \A n \in Nat : \A h \in 0..Hours :
            [row EXCEPT !.pc = "import", !.n.total = n, !.wrote = h] \in WorkerRow
    <2> TAKE n \in Nat
    <2> TAKE h \in 0..Hours
    <2> DEFINE x == [row EXCEPT !.pc = "import", !.n.total = n]
    <2>1. x \in WorkerRow
      BY <1>6
    <2>2. [row EXCEPT !.pc = "import", !.n.total = n, !.wrote = h] = [x EXCEPT !.wrote = h]
      BY DEF WorkerRow
    <2>3. [x EXCEPT !.wrote = h] \in WorkerRow
      <3> HIDE DEF x
      <3> QED BY <2>1 DEF WorkerRow
    <2> QED BY <2>2, <2>3
  <1> QED BY <1>4, <1>5, <1>6, <1>7, <1>8, <1>9, <1>10

\* Every step keeps jobs and workers well typed.
LEMMA TypeStep ==
  ASSUME ImportTypeOK, \A w \in Workers : Hand(w), \A j \in Jobs : Row(j),
         [ImportNext]_importVars
  PROVE  ImportTypeOK'
  <1> SUFFICES JobsOK' /\ WorkersOK' /\ RestOK'
    BY DEF ImportTypeOK, JobsOK, WorkersOK, RestOK
  <1>t. JobsOK /\ WorkersOK /\ RestOK
    BY TypeParts
  <1>row. \A w \in Workers : worker[w] \in WorkerRow /\ worker[w].n \in Counts /\ worker[w].end \in Final
    BY <1>t DEF WorkersOK, WorkerRow
  <1>1. ASSUME NEW w \in Workers, LockNext(w) PROVE JobsOK' /\ WorkersOK' /\ RestOK'
    <2>1. PICK j \in Jobs : worker' = [worker EXCEPT ![w] = [Idle EXCEPT !.pc = "claim", !.job = j]]
      BY <1>1 DEF LockNext, Claimable
    <2>2. [Idle EXCEPT !.pc = "claim", !.job = j] \in WorkerRow
      BY BlankRows DEF WorkerRow
    <2> QED BY <1>1, <1>t, <2>1, <2>2, OneWorker DEF LockNext, JobsOK, RestOK
  <1>2. ASSUME NEW w \in Workers, Claim(w) PROVE JobsOK' /\ WorkersOK' /\ RestOK'
    <2>1. JobOf(w) \in Jobs
      BY <1>2 DEF Claim, W, Hand
    <2>2. job[JobOf(w)] \in JobRow
      BY <1>t, <2>1 DEF JobsOK
    <2>3. JobsOK'
      BY <1>2, <1>t, <2>1, <2>2, JobWrites, OneJob DEF Claim
    <2>4. worker' = [worker EXCEPT ![w] = [worker[w] EXCEPT !.pc = "open", !.wrote = clock]]
      BY <1>2 DEF Claim
    <2> QED BY <1>2, <1>t, <1>row, <2>3, <2>4, WorkerTurns, OneWorker DEF Claim, RestOK
  <1>3. ASSUME NEW w \in Workers, OpenFails(w) PROVE JobsOK' /\ WorkersOK' /\ RestOK'
    <2>1. worker' = [worker EXCEPT ![w] = [worker[w] EXCEPT !.pc = "finish", !.end = "failed"]]
      BY <1>3 DEF OpenFails
    <2>2. "failed" \in Final
      BY DEF Final
    <2> QED BY <1>3, <1>t, <1>row, <2>1, <2>2, WorkerTurns, OneWorker DEF OpenFails, JobsOK, RestOK
  <1>4. ASSUME NEW w \in Workers, Open(w) PROVE JobsOK' /\ WorkersOK' /\ RestOK'
    <2>1. JobOf(w) \in Jobs
      BY <1>4 DEF Open, W, Hand
    <2>2. job[JobOf(w)] \in JobRow /\ Entries(w) \in Seq(Kinds)
      BY <1>4, <1>t, <2>1, ArchivesAre DEF JobsOK, Open, W, Hand, Row, Entries, Final
    <2>3. Len(Entries(w)) \in Nat
      BY <2>2
    <2>4. [NoCounts EXCEPT !.total = Len(Entries(w))] \in Counts
      BY <2>3 DEF NoCounts, Counts
    <2>5. [job[JobOf(w)] EXCEPT !.n = [NoCounts EXCEPT !.total = Len(Entries(w))], !.updated = clock]
             \in JobRow
      BY <1>t, <2>2, <2>4, JobWrites
    <2>6. JobsOK'
      <3>1. CASE UNCHANGED job
        BY <1>t, <3>1 DEF JobsOK
      <3>2. CASE job' = [job EXCEPT ![JobOf(w)] =
                   [@ EXCEPT !.n = [NoCounts EXCEPT !.total = Len(Entries(w))], !.updated = clock]]
        BY <1>t, <2>1, <2>5, <3>2, OneJob
      <3> QED BY <1>4, <3>1, <3>2 DEF Open
    <2>7. WorkersOK'
      <3>1. CASE worker' = [worker EXCEPT ![w] = Idle]
        BY <1>t, <3>1, BlankRows, OneWorker
      <3>2. CASE worker' = [worker EXCEPT ![w].pc = "import", ![w].n.total = Len(Entries(w))]
        <4>1. worker' = [worker EXCEPT ![w] = [worker[w] EXCEPT !.pc = "import",
                                                                !.n.total = Len(Entries(w))]]
          BY <3>2
        <4> QED BY <1>t, <1>row, <2>3, <4>1, WorkerTurns, OneWorker
      <3>3. CASE worker' = [worker EXCEPT ![w].pc = "import", ![w].n.total = Len(Entries(w)),
                                          ![w].wrote = clock]
        <4>1. worker' = [worker EXCEPT ![w] = [worker[w] EXCEPT !.pc = "import",
                                                                !.n.total = Len(Entries(w)),
                                                                !.wrote = clock]]
          BY <3>3
        <4>2. clock \in 0..Hours
          BY <1>t DEF RestOK
        <4> QED BY <1>t, <1>row, <2>3, <4>1, <4>2, WorkerTurns, OneWorker
      <3> QED BY <1>4, <3>1, <3>2, <3>3 DEF Open
    <2> QED BY <1>4, <1>t, <2>6, <2>7 DEF Open, RestOK
  <1>5. ASSUME NEW w \in Workers, Ingest(w) PROVE JobsOK' /\ WorkersOK' /\ RestOK'
    <2>1. JobOf(w) \in Jobs
      BY <1>5 DEF Ingest, W, Hand
    <2>2. worker[w].at \in Nat
      BY <1>t DEF WorkersOK, WorkerRow
    <2>3. RestOK'
      BY <1>5, <1>t, <2>1, <2>2 DEF Ingest, RestOK
    <2> DEFINE row == worker[w]
    <2>4. \/ worker' = [worker EXCEPT ![w] = [row EXCEPT !.at = row.at + 1]]
          \/ worker' = [worker EXCEPT ![w] = [row EXCEPT !.at = row.at + 1, !.n.imported = @ + 1]]
          \/ worker' = [worker EXCEPT ![w] = [row EXCEPT !.at = row.at + 1, !.n.failed = @ + 1]]
          \/ worker' = [worker EXCEPT ![w] = [row EXCEPT !.at = row.at + 1, !.n.skipped = @ + 1]]
          \/ worker' = [worker EXCEPT ![w] = [row EXCEPT !.pc = "finish", !.end = "failed"]]
      BY <1>5 DEF Ingest
    <2>5. "failed" \in Final
      BY DEF Final
    <2>6. WorkersOK'
      BY <1>t, <1>row, <2>4, <2>5, WorkerTurns, OneWorker
    <2> QED BY <1>5, <1>t, <2>3, <2>6 DEF Ingest, JobsOK
  <1>6. ASSUME NEW w \in Workers, Ingested(w) PROVE JobsOK' /\ WorkersOK' /\ RestOK'
    <2>1. worker' = [worker EXCEPT ![w] = [worker[w] EXCEPT !.pc = "finish", !.end = Outcome(worker[w].n)]]
      BY <1>6 DEF Ingested
    <2>2. Outcome(worker[w].n) \in Final
      BY DEF Outcome, Final
    <2> QED BY <1>6, <1>t, <1>row, <2>1, <2>2, WorkerTurns, OneWorker DEF Ingested, JobsOK, RestOK
  <1>7. ASSUME NEW w \in Workers, Finish(w) PROVE JobsOK' /\ WorkersOK' /\ RestOK'
    <2>1. JobOf(w) \in Jobs
      BY <1>7 DEF Finish, W, Hand
    <2>2. job[JobOf(w)] \in JobRow
      BY <1>t, <2>1 DEF JobsOK
    <2>3. [job[JobOf(w)] EXCEPT !.st = worker[w].end, !.n = worker[w].n, !.updated = clock] \in JobRow
      BY <1>t, <1>row, <2>2, JobWrites
    <2>4. JobsOK'
      <3>1. CASE UNCHANGED job
        BY <1>t, <3>1 DEF JobsOK
      <3>2. CASE job' = [job EXCEPT ![JobOf(w)] =
                   [@ EXCEPT !.st = worker[w].end, !.n = worker[w].n, !.updated = clock]]
        BY <1>t, <2>1, <2>3, <3>2, OneJob
      <3> QED BY <1>7, <3>1, <3>2 DEF Finish
    <2> QED BY <1>7, <1>t, <2>4, BlankRows, OneWorker DEF Finish, RestOK
  <1>8. ASSUME NEW w \in Workers, ClaimFails(w) \/ WorkerFails(w)
        PROVE  JobsOK' /\ WorkersOK' /\ RestOK'
    BY <1>8, <1>t, BlankRows, OneWorker DEF ClaimFails, WorkerFails, JobsOK, RestOK
  <1>9. ASSUME NEW j \in Jobs, NEW a \in Archives, Enqueue(j, a)
        PROVE  JobsOK' /\ WorkersOK' /\ RestOK'
    <2>1. [NoJob EXCEPT !.st = "queued", !.archive = a, !.updated = clock] \in JobRow
      BY <1>t, BlankRows DEF JobRow, RestOK
    <2>2. JobsOK'
      BY <1>9, <1>t, <2>1, OneJob DEF Enqueue
    <2> QED BY <1>9, <1>t, <2>2 DEF Enqueue, WorkersOK, RestOK
  <1>10. ASSUME NEW p \in Replicas, StartWorkers(p) PROVE JobsOK' /\ WorkersOK' /\ RestOK'
    <2>1. WorkersOK'
      BY <1>10, <1>t, BlankRows DEF StartWorkers, WorkersOK
    <2>2. JobsOK'
      <3>1. CASE UNCHANGED job
        BY <1>t, <3>1 DEF JobsOK
      <3>2. CASE job' = [j \in Jobs |-> IF Orphan(j) THEN [job[j] EXCEPT !.st = "failed", !.updated = clock]
                                        ELSE job[j]]
        <4>1. \A j \in Jobs : /\ job[j] \in JobRow
                              /\ [job[j] EXCEPT !.st = "failed", !.updated = clock] \in JobRow
          BY <1>t, JobWrites DEF JobsOK
        <4> QED BY <3>2, <4>1 DEF JobsOK
      <3> QED BY <1>10, <3>1, <3>2 DEF StartWorkers
    <2>3. swept' \in 0..Hours /\ passed' \subseteq Jobs
      BY <1>10, <1>t DEF StartWorkers, RestOK
    <2> QED BY <1>10, <1>t, <2>1, <2>2, <2>3 DEF StartWorkers, RestOK
  <1>11. ASSUME NEW p \in Replicas, StopWorkers(p) PROVE JobsOK' /\ WorkersOK' /\ RestOK'
    BY <1>11, <1>t, BlankRows DEF StopWorkers, JobsOK, WorkersOK, RestOK
  <1>12. ASSUME Hour PROVE JobsOK' /\ WorkersOK' /\ RestOK'
    BY <1>12, <1>t, Bounds DEF Hour, JobsOK, WorkersOK, RestOK
  <1>13. ASSUME UNCHANGED importVars PROVE JobsOK' /\ WorkersOK' /\ RestOK'
    BY <1>13, <1>t DEF importVars, JobsOK, WorkersOK, RestOK
  <1> QED
    BY <1>1, <1>2, <1>3, <1>4, <1>5, <1>6, <1>7, <1>8, <1>9, <1>10, <1>11, <1>12, <1>13
    DEF ImportNext, Work

-----------------------------------------------------------------------------
\* What the busy workers know of their jobs after a step that changes one worker
\* and, at most, his own job.
LEMMA OwnStep ==
  ASSUME ImportTypeOK, Owned, NEW w \in Workers, worker[w].pc \notin {"off", "idle"},
         NEW x \in WorkerRow, worker' = [worker EXCEPT ![w] = x],
         \/ x.pc = "idle"
         \/ x.job = JobOf(w) /\ x.pc \in {"open", "import", "finish"},
         NEW y \in JobRow,
         job' = [job EXCEPT ![JobOf(w)] = y],
         y.runs <= 1, y.st \in {"queued", "running"} \cup Final, y.archive = job[JobOf(w)].archive,
         y.st = "queued" => y.runs = 0 /\ x.pc = "idle",
         y.st = "succeeded" => x.pc = "idle"
  PROVE  Owned'
  <1>1. JobOf(w) \in Jobs
    BY DEF Owned, Hand
  <1>t. worker \in [Workers -> WorkerRow] /\ job \in [Jobs -> JobRow]
    BY DEF ImportTypeOK
  <1>x. x.pc \notin {"off", "idle"} => x.job = JobOf(w) /\ x.pc \in {"open", "import", "finish"}
    OBVIOUS
  <1>2. \A v \in Workers \ {w} : worker'[v] = worker[v] /\ (worker[v].pc \notin {"off", "idle"} => JobOf(v) # JobOf(w))
    BY <1>1, <1>t DEF Owned, Alone, Has, JobOf
  <1>3. \A j \in Jobs \ {JobOf(w)} : job'[j] = job[j]
    BY <1>t
  <1>4. job'[JobOf(w)] = y /\ worker'[w] = x
    BY <1>1, <1>t
  <1>5. ASSUME NEW v \in Workers PROVE Hand(v)'
    <2>1. CASE v # w
      BY <1>2, <1>3, <2>1 DEF Owned, Hand, W, JobOf
    <2>2. CASE v = w
      BY <1>1, <1>4, <1>x, <2>2 DEF Hand, W, JobOf
    <2> QED BY <2>1, <2>2
  <1>6. ASSUME NEW j \in Jobs PROVE Row(j)'
    <2>1. job[JobOf(w)].st # "unused"
      BY <1>t DEF Owned, Hand, W, WorkerRow, Final
    <2>2. job[JobOf(w)].archive \in Archives
      BY <1>1, <2>1 DEF Owned, Row
    <2>3. CASE j = JobOf(w)
      BY <1>4, <2>2, <2>3 DEF Row, Final
    <2>4. CASE j # JobOf(w)
      BY <1>3, <2>4 DEF Owned, Row
    <2> QED BY <2>3, <2>4
  <1>7. \A v \in Workers, j \in Jobs : Has(v, j)' => Has(v, j)
    BY <1>2, <1>4, <1>x DEF Has, JobOf
  <1>8. Alone'
    BY <1>7 DEF Owned, Alone
  <1>9. NotBack'
    BY <1>3, <1>4, <1>7, <1>2, <1>1 DEF Owned, NotBack, Has, JobOf
  <1> QED BY <1>5, <1>6, <1>8, <1>9 DEF Owned

\* Steps that leave every worker alone, or off his job.
LEMMA LeaveStep ==
  ASSUME ImportTypeOK, Owned, NEW S \in SUBSET Workers, NEW x \in {Off, Idle},
         worker' = [w \in Workers |-> IF w \in S THEN x ELSE worker[w]],
         job' \in [Jobs -> JobRow],
         \A j \in Jobs : \/ job'[j] = job[j]
                         \/ /\ job'[j].runs = job[j].runs /\ job[j].st \notin {"unused", "queued"}
                            /\ job'[j].archive = job[j].archive /\ job'[j].st = "failed"
  PROVE  Owned'
  <1>t. worker \in [Workers -> WorkerRow] /\ job \in [Jobs -> JobRow]
    BY DEF ImportTypeOK
  <1>1. \A v \in Workers : \/ worker'[v] = worker[v]
                           \/ worker'[v].pc \in {"off", "idle"}
    BY DEF Off, Idle
  <1>2. ASSUME NEW v \in Workers PROVE Hand(v)'
    BY <1>1 DEF Owned, Hand, W, JobOf, Final
  <1>3. ASSUME NEW j \in Jobs PROVE Row(j)'
    BY <1>t DEF Owned, Row
  <1>4. \A v \in Workers, j \in Jobs : Has(v, j)' => Has(v, j)
    BY <1>1 DEF Has, JobOf
  <1> QED BY <1>2, <1>3, <1>4 DEF Owned, Alone, NotBack

\* Every step keeps every job in the hands of one worker, who runs it once.
LEMMA OwnedStep ==
  ASSUME ImportTypeOK, Owned, [ImportNext]_importVars, ImportTypeOK'
  PROVE  Owned'
  <1>t. worker \in [Workers -> WorkerRow] /\ job \in [Jobs -> JobRow]
    BY DEF ImportTypeOK
  <1>r. \A w \in Workers : worker[w] \in WorkerRow /\ worker'[w] \in WorkerRow
    BY DEF ImportTypeOK
  <1>j. \A j \in Jobs : job[j] \in JobRow /\ job'[j] \in JobRow
    BY DEF ImportTypeOK
  <1>h. \A w \in Workers : worker[w].pc \notin {"off", "idle"} => JobOf(w) \in Jobs
    BY DEF Owned, Hand
  <1>same. ASSUME NEW w \in Workers, JobOf(w) \in Jobs, job' = job
           PROVE  job' = [job EXCEPT ![JobOf(w)] = job[JobOf(w)]]
    BY <1>t, <1>same
  <1>i. Idle.pc = "idle"
    BY DEF Idle, Off
  <1>1. ASSUME NEW w \in Workers, LockNext(w) PROVE Owned'
    <2>1. PICK j \in Claimable : worker' = [worker EXCEPT ![w] = [Idle EXCEPT !.pc = "claim", !.job = j]]
      BY <1>1 DEF LockNext
    <2>2. j \in Jobs /\ job[j].st = "queued" /\ ~Locked(j) /\ job' = job
      BY <1>1 DEF Claimable, LockNext
    <2>3. \A v \in Workers : ~Has(v, j)
      BY <1>r, <2>2 DEF Owned, Hand, Has, Locked, W, JobOf, WorkerRow, Final
    <2>4. worker'[w].pc = "claim" /\ worker'[w].job = j
      BY <1>t, <2>1 DEF Idle, Off
    <2>5. \A v \in Workers \ {w} : worker'[v] = worker[v]
      BY <1>t, <2>1
    <2>6. ASSUME NEW v \in Workers PROVE Hand(v)'
      <3>1. CASE v = w
        BY <2>2, <2>4, <3>1 DEF Hand, W, JobOf
      <3>2. CASE v # w
        BY <2>2, <2>5, <3>2 DEF Owned, Hand, W, JobOf
      <3> QED BY <3>1, <3>2
    <2>7. \A v \in Workers, i \in Jobs : Has(v, i)' => \/ v = w /\ i = j
                                                       \/ v # w /\ i # j /\ Has(v, i)
      BY <2>3, <2>4, <2>5 DEF Has, JobOf
    <2>8. \A i \in Jobs : Row(i)'
      BY <2>2 DEF Owned, Row
    <2>9. Alone' /\ NotBack'
      BY <2>2, <2>7 DEF Owned, Alone, NotBack
    <2> QED BY <2>6, <2>8, <2>9 DEF Owned
  <1>2. ASSUME NEW w \in Workers, Claim(w) PROVE Owned'
    <2> DEFINE x == [worker[w] EXCEPT !.pc = "open", !.wrote = clock]
               y == Claimed(job[JobOf(w)])
    <2>1. worker[w].pc = "claim" /\ JobOf(w) \in Jobs /\ job[JobOf(w)].st = "queued"
      BY <1>2 DEF Claim, W, Owned, Hand
    <2>2. worker' = [worker EXCEPT ![w] = x] /\ job' = [job EXCEPT ![JobOf(w)] = y]
      BY <1>2 DEF Claim
    <2>3. worker'[w] = x /\ job'[JobOf(w)] = y
      BY <1>t, <2>1, <2>2
    <2>4. x \in WorkerRow /\ y \in JobRow
      BY <1>r, <1>j, <2>1, <2>3
    <2>5. job[JobOf(w)].runs = 0
      BY <2>1 DEF Owned, Row
    <2>6. y.st = "running" /\ y.runs <= 1 /\ y.archive = job[JobOf(w)].archive
      BY <1>j, <2>1, <2>5 DEF Claimed, JobRow
    <2>7. x.pc = "open" /\ x.job = JobOf(w)
      BY <1>r DEF WorkerRow, JobOf
    <2> HIDE DEF x, y
    <2> QED BY <2>1, <2>2, <2>4, <2>6, <2>7, OwnStep
  <1>3. ASSUME NEW w \in Workers, OpenFails(w) \/ Ingest(w) \/ Ingested(w) PROVE Owned'
    <2>1. worker[w].pc \in {"open", "import"} /\ job' = job
      BY <1>3 DEF OpenFails, Ingest, Ingested, W
    <2>2. worker' = [worker EXCEPT ![w] = worker'[w]]
      BY <1>3, <1>t DEF OpenFails, Ingest, Ingested
    <2>3. worker'[w].job = JobOf(w) /\ worker'[w].pc \in {"import", "finish"}
      BY <1>3, <1>t, <1>r DEF OpenFails, Ingest, Ingested, W, WorkerRow, JobOf
    <2>4. JobOf(w) \in Jobs /\ job[JobOf(w)].st \in {"running"} \cup Final
      BY <1>h, <2>1 DEF Owned, Hand
    <2>5. job[JobOf(w)].st # "succeeded" /\ job[JobOf(w)].runs <= 1
      BY <2>1, <2>4 DEF Owned, NotBack, Has, Row
    <2>6. job' = [job EXCEPT ![JobOf(w)] = job[JobOf(w)]]
      BY <1>same, <2>1, <2>4
    <2> QED BY <1>r, <1>j, <2>1, <2>2, <2>3, <2>4, <2>5, <2>6, OwnStep DEF Final
  <1>4. ASSUME NEW w \in Workers, Open(w) PROVE Owned'
    <2>1. worker[w].pc = "open" /\ JobOf(w) \in Jobs /\ job[JobOf(w)].st \in {"running"} \cup Final
      BY <1>4 DEF Open, W, Owned, Hand
    <2>2. worker' = [worker EXCEPT ![w] = worker'[w]]
      BY <1>4, <1>t DEF Open
    <2>3. \/ worker'[w].pc = "idle"
          \/ worker'[w].job = JobOf(w) /\ worker'[w].pc \in {"open", "import", "finish"}
      BY <1>4, <1>t, <1>r, <1>i DEF Open, WorkerRow, JobOf
    <2>4. job' = [job EXCEPT ![JobOf(w)] = job'[JobOf(w)]]
      BY <1>4, <1>t, <2>1 DEF Open
    <2>5. /\ job'[JobOf(w)].st = job[JobOf(w)].st /\ job'[JobOf(w)].runs = job[JobOf(w)].runs
          /\ job'[JobOf(w)].archive = job[JobOf(w)].archive
      BY <1>4, <1>t, <1>j, <2>1 DEF Open, JobRow
    <2>6. job[JobOf(w)].st # "succeeded" /\ job[JobOf(w)].runs <= 1
      BY <2>1 DEF Owned, NotBack, Has, Row
    <2> QED BY <1>r, <1>j, <2>1, <2>2, <2>3, <2>4, <2>5, <2>6, OwnStep DEF Final
  <1>5. ASSUME NEW w \in Workers, Finish(w) PROVE Owned'
    <2>1. worker[w].pc = "finish" /\ JobOf(w) \in Jobs /\ job[JobOf(w)].st \in {"running"} \cup Final
      BY <1>5 DEF Finish, W, Owned, Hand
    <2>2. worker' = [worker EXCEPT ![w] = Idle]
      BY <1>5 DEF Finish
    <2>3. job' = [job EXCEPT ![JobOf(w)] = job'[JobOf(w)]]
      BY <1>5, <1>t, <2>1 DEF Finish
    <2>4. /\ job'[JobOf(w)].st \in {"running"} \cup Final /\ job'[JobOf(w)].runs = job[JobOf(w)].runs
          /\ job'[JobOf(w)].archive = job[JobOf(w)].archive
      <3>1. worker[w].end \in Final
        BY <1>r DEF WorkerRow
      <3> QED BY <1>5, <1>t, <1>j, <2>1, <3>1 DEF Finish, JobRow
    <2>5. job[JobOf(w)].runs <= 1
      BY <2>1 DEF Owned, Row
    <2> QED BY <1>i, <1>j, <2>1, <2>2, <2>3, <2>4, <2>5, BlankRows, OwnStep DEF Final
  <1>6. ASSUME NEW w \in Workers, ClaimFails(w) \/ WorkerFails(w) PROVE Owned'
    <2>1. worker' = [v \in Workers |-> IF v \in {w} THEN Idle ELSE worker[v]] /\ job' = job
      BY <1>6, <1>t DEF ClaimFails, WorkerFails
    <2> QED BY <1>t, <2>1, LeaveStep
  <1>7. ASSUME NEW j \in Jobs, NEW a \in Archives, Enqueue(j, a) PROVE Owned'
    <2>1. job[j].st = "unused" /\ worker' = worker
      BY <1>7 DEF Enqueue
    <2>2. /\ job'[j].st = "queued" /\ job'[j].runs = 0 /\ job'[j].archive = a
          /\ \A i \in Jobs \ {j} : job'[i] = job[i]
      BY <1>7, <1>t DEF Enqueue, NoJob
    <2>3. \A v \in Workers : ~Has(v, j)
      BY <1>r, <2>1 DEF Owned, Hand, Has, W, JobOf, WorkerRow, Final
    <2>4. ASSUME NEW v \in Workers PROVE Hand(v)'
      BY <2>1, <2>2, <2>3, <1>h DEF Owned, Hand, W, JobOf, Has
    <2>5. \A i \in Jobs : Row(i)'
      BY <2>2 DEF Owned, Row
    <2>6. Alone' /\ NotBack'
      BY <2>1, <2>2, <2>3 DEF Owned, Alone, NotBack, Has, JobOf
    <2> QED BY <2>4, <2>5, <2>6 DEF Owned
  <1>8. ASSUME NEW p \in Replicas, StartWorkers(p) PROVE Owned'
    <2>1. worker' = [w \in Workers |-> IF w \in {v \in Workers : Host[v] = p} THEN Idle ELSE worker[w]]
      BY <1>8 DEF StartWorkers
    <2>2. job' \in [Jobs -> JobRow]
      BY DEF ImportTypeOK
    <2>3. \A j \in Jobs : \/ job'[j] = job[j]
                          \/ job'[j] = [job[j] EXCEPT !.st = "failed", !.updated = clock]
                             /\ job[j].st = "running"
      BY <1>8, <1>t DEF StartWorkers, Orphan, Running
    <2>4. \A j \in Jobs : \/ job'[j] = job[j]
                          \/ /\ job'[j].runs = job[j].runs /\ job[j].st \notin {"unused", "queued"}
                             /\ job'[j].archive = job[j].archive /\ job'[j].st = "failed"
      BY <2>3, <1>j DEF JobRow
    <2> QED BY <2>1, <2>2, <2>4, LeaveStep
  <1>9. ASSUME NEW p \in Replicas, StopWorkers(p) PROVE Owned'
    <2>1. worker' = [w \in Workers |-> IF w \in {v \in Workers : Host[v] = p} THEN Off ELSE worker[w]]
      BY <1>9 DEF StopWorkers
    <2> QED BY <1>9, <1>t, <2>1, LeaveStep DEF StopWorkers
  <1>10. ASSUME Hour \/ UNCHANGED importVars PROVE Owned'
    <2>1. job' = job /\ worker' = worker
      BY <1>10 DEF Hour, importVars
    <2> QED BY <2>1 DEF Owned, Hand, Row, Alone, NotBack, Has, W, JobOf
  <1> QED
    BY <1>1, <1>2, <1>3, <1>4, <1>5, <1>6, <1>7, <1>8, <1>9, <1>10 DEF ImportNext, Work

-----------------------------------------------------------------------------
\* The tally of a worker agrees with what he has stored: he begins with none, has
\* counted what he has read, and reports what he has counted.
Sum(n) == n.imported + n.skipped + n.failed
Tally(w) == LET n == worker[w].n  s == stored[JobOf(w)]  at == worker[w].at IN
    /\ worker[w].pc \in {"claim", "open"} => at = 1 /\ n = NoCounts /\ s = {}
    /\ W(w, "import") => /\ at \in 1..(Len(Entries(w)) + 1) /\ s \subseteq 1..(at - 1)
                         /\ n.imported = Cardinality(s)
                         /\ Sum(n) <= at - 1 /\ n.total = Len(Entries(w))
    /\ W(w, "finish") => /\ n.imported = Cardinality(s) /\ Sum(n) <= n.total
                         /\ worker[w].end = "succeeded" => n.imported > 0 \/ n.failed = 0
\* What a job has stored is finite, and is as many as it reports or, as long as
\* it has not succeeded, more.
Report(j) == LET n == job[j].n IN
    /\ IsFiniteSet(stored[j])
    /\ job[j].st \in {"unused", "queued"} => stored[j] = {}
    /\ n.imported <= Cardinality(stored[j]) /\ Sum(n) <= n.total
    /\ job[j].st = "succeeded" => /\ n.imported = Cardinality(stored[j])
                                  /\ n.imported > 0 \/ n.failed = 0
Tallies == (\A w \in Workers : Tally(w)) /\ (\A j \in Jobs : Report(j))

\* A step of one worker at his job leaves the tallies of the others alone.
LEMMA OwnTally ==
  ASSUME ImportTypeOK, Owned, Tallies, NEW w \in Workers, worker[w].pc \notin {"off", "idle"},
         NEW k \in Jobs, k = JobOf(w),
         \A v \in Workers \ {w} : worker'[v] = worker[v],
         \A j \in Jobs \ {k} : job'[j] = job[j] /\ stored'[j] = stored[j],
         Tally(w)', Report(k)'
  PROVE  Tallies'
  <1>1. JobOf(w) \in Jobs
    BY DEF Owned, Hand
  <1>2. ASSUME NEW v \in Workers PROVE Tally(v)'
    <2>1. CASE v = w
      BY <2>1
    <2>2. CASE v # w
      <3>1. CASE worker[v].pc \in {"off", "idle"}
        BY <2>2, <3>1 DEF Tally, W
      <3>2. CASE worker[v].pc \notin {"off", "idle"}
        <4>1. JobOf(v) \in Jobs /\ JobOf(v) # JobOf(w)
          BY <1>1, <2>2, <3>2 DEF Owned, Hand, Alone, Has
        <4>2. JobOf(v)' = JobOf(v) /\ stored'[JobOf(v)] = stored[JobOf(v)] /\ Entries(v)' = Entries(v)
              /\ worker'[v] = worker[v]
          BY <2>2, <4>1 DEF JobOf, Entries
        <4>3. Tally(v)
          BY DEF Tallies
        <4> QED BY <4>2, <4>3 DEF Tally, W
      <3> QED BY <3>1, <3>2
    <2> QED BY <2>1, <2>2
  <1>3. ASSUME NEW j \in Jobs PROVE Report(j)'
    <2>1. CASE j = k
      BY <2>1
    <2>2. CASE j # k
      BY <2>2 DEF Tallies, Report
    <2> QED BY <2>1, <2>2
  <1> QED BY <1>2, <1>3 DEF Tallies

\* The tally of a worker who has counted one entry more, and of one who is done.
LEMMA TallyOn ==
  ASSUME NEW w \in Workers, NEW k, NEW at \in Nat, NEW len \in Nat,
         worker'[w].pc = "import", worker'[w].job = k, worker'[w].at = at + 1,
         Len(Entries(w)') = len, at <= len, stored'[k] \subseteq 1..at,
         worker'[w].n.imported = Cardinality(stored'[k]),
         Sum(worker'[w].n) <= at, worker'[w].n.total = len
  PROVE  Tally(w)'
  <1>1. worker'[w].at \in 1..(len + 1) /\ worker'[w].at - 1 = at
    OBVIOUS
  <1> QED BY <1>1 DEF Tally, W, JobOf

\* The tally of one who is done.
LEMMA TallyEnd ==
  ASSUME NEW w \in Workers, NEW k, worker'[w].pc = "finish", worker'[w].job = k,
         worker'[w].n.imported = Cardinality(stored'[k]),
         Sum(worker'[w].n) <= worker'[w].n.total,
         worker'[w].end = "succeeded" => worker'[w].n.imported > 0 \/ worker'[w].n.failed = 0
  PROVE  Tally(w)'
  BY DEF Tally, W, JobOf

\* Every step keeps the tallies.
LEMMA TallyStep ==
  ASSUME ImportTypeOK, Owned, Tallies, [ImportNext]_importVars, ImportTypeOK'
  PROVE  Tallies'
  <1>t. worker \in [Workers -> WorkerRow] /\ job \in [Jobs -> JobRow] /\ stored \in [Jobs -> SUBSET Nat]
    BY DEF ImportTypeOK
  <1>r. \A w \in Workers : worker[w] \in WorkerRow /\ worker'[w] \in WorkerRow
    BY DEF ImportTypeOK
  <1>j. \A j \in Jobs : job[j] \in JobRow /\ job'[j] \in JobRow
    BY DEF ImportTypeOK
  <1>h. \A w \in Workers : worker[w].pc \notin {"off", "idle"} =>
            JobOf(w) \in Jobs /\ Entries(w) \in Seq(Kinds)
    <2>1. \A w \in Workers : worker[w].pc \notin {"off", "idle"} =>
              JobOf(w) \in Jobs /\ job[JobOf(w)].archive \in Archives
      BY <1>r DEF Owned, Hand, Row, W, WorkerRow, Final
    <2> QED BY <2>1, ArchivesAre DEF Entries
  <1>c. \A w \in Workers : worker[w].n \in Counts /\ worker[w].n.imported \in Nat
            /\ worker[w].n.skipped \in Nat /\ worker[w].n.failed \in Nat /\ worker[w].n.total \in Nat
    BY <1>r DEF WorkerRow, Counts
  <1>f. \A j \in Jobs : IsFiniteSet(stored[j]) /\ Cardinality(stored[j]) \in Nat
    BY FS_CardinalityType DEF Tallies, Report
  <1>i. Idle.pc = "idle" /\ Off.pc = "off" /\ Idle.at = 1 /\ Idle.n = NoCounts
    BY DEF Idle, Off
  <1>1. ASSUME NEW w \in Workers, LockNext(w) PROVE Tallies'
    <2>1. PICK j \in Claimable : worker' = [worker EXCEPT ![w] = [Idle EXCEPT !.pc = "claim", !.job = j]]
      BY <1>1 DEF LockNext
    <2>2. j \in Jobs /\ job[j].st = "queued" /\ job' = job /\ stored' = stored
      BY <1>1 DEF Claimable, LockNext
    <2>3. /\ worker'[w].pc = "claim" /\ worker'[w].job = j /\ worker'[w].at = 1
          /\ worker'[w].n = NoCounts
      BY <1>t, <2>1 DEF Idle, Off
    <2>4. Tally(w)'
      BY <2>2, <2>3 DEF Tally, W, JobOf, Tallies, Report
    <2>5. \A v \in Workers \ {w} : Tally(v)'
      BY <1>t, <2>1, <2>2 DEF Tallies, Tally, W, JobOf, Entries
    <2> QED BY <2>2, <2>4, <2>5 DEF Tallies, Report
  <1>2. ASSUME NEW w \in Workers, Claim(w) PROVE Tallies'
    <2>1. PICK k \in Jobs : k = JobOf(w)
      BY <1>2, <1>h DEF Claim, W
    <2>2. worker[w].pc = "claim" /\ Tally(w) /\ Report(k) /\ job[k].st = "queued"
      BY <1>2, <2>1 DEF Claim, W, Tallies, Owned, Hand
    <2>3. /\ worker'[w].pc = "open" /\ worker'[w].job = k /\ worker'[w].at = worker[w].at
          /\ worker'[w].n = worker[w].n /\ stored' = stored
      BY <1>2, <1>t, <1>r, <2>1 DEF Claim, WorkerRow, JobOf
    <2>4. job'[k].n = job[k].n /\ job'[k].st = "running"
      BY <1>2, <1>t, <1>j, <2>1 DEF Claim, Claimed, JobRow
    <2>5. Tally(w)'
      BY <2>1, <2>2, <2>3 DEF Tally, W, JobOf
    <2>6. Report(k)'
      BY <2>2, <2>3, <2>4 DEF Report
    <2>7. /\ \A v \in Workers \ {w} : worker'[v] = worker[v]
          /\ \A j \in Jobs \ {k} : job'[j] = job[j] /\ stored'[j] = stored[j]
      BY <1>2, <1>t, <2>1 DEF Claim
    <2> QED BY <2>1, <2>2, <2>5, <2>6, <2>7, OwnTally
  <1>3. ASSUME NEW w \in Workers, OpenFails(w) PROVE Tallies'
    <2>1. PICK k \in Jobs : k = JobOf(w)
      BY <1>3, <1>h DEF OpenFails, W
    <2>2. worker[w].pc = "open" /\ Tally(w) /\ Report(k) /\ job' = job /\ stored' = stored
      BY <1>3, <2>1 DEF OpenFails, W, Tallies
    <2>3. /\ worker'[w].pc = "finish" /\ worker'[w].job = k /\ worker'[w].end = "failed"
          /\ worker'[w].n = NoCounts /\ stored[k] = {}
      BY <1>3, <1>t, <1>r, <2>1, <2>2 DEF OpenFails, WorkerRow, JobOf, Tally
    <2>4. Tally(w)'
      BY <2>2, <2>3, FS_EmptySet DEF Tally, W, JobOf, NoCounts, Sum
    <2>5. Report(k)'
      BY <2>2 DEF Report
    <2>6. \A v \in Workers \ {w} : worker'[v] = worker[v]
      BY <1>3, <1>t DEF OpenFails
    <2> QED BY <2>1, <2>2, <2>4, <2>5, <2>6, OwnTally
  <1>4. ASSUME NEW w \in Workers, Open(w) PROVE Tallies'
    <2>1. PICK k \in Jobs : k = JobOf(w)
      BY <1>4, <1>h DEF Open, W
    <2>2. /\ worker[w].pc = "open" /\ Tally(w) /\ Report(k) /\ stored' = stored
          /\ Entries(w) \in Seq(Kinds) /\ Len(Entries(w)) \in Nat
      BY <1>4, <1>h, <2>1 DEF Open, W, Tallies
    <2>3. stored[k] = {} /\ worker[w].at = 1 /\ worker[w].n = NoCounts
      BY <2>1, <2>2 DEF Tally
    <2>4. \/ worker'[w] = Idle
          \/ /\ worker'[w].pc = "import" /\ worker'[w].job = k /\ worker'[w].at = 1
             /\ worker'[w].n = [NoCounts EXCEPT !.total = Len(Entries(w))]
      BY <1>4, <1>t, <1>r, <2>1, <2>3 DEF Open, WorkerRow, JobOf
    <2>5. job'[k].archive = job[k].archive /\ job'[k].st = job[k].st
          /\ job'[k].n \in {job[k].n, [NoCounts EXCEPT !.total = Len(Entries(w))]}
      BY <1>4, <1>t, <1>j, <2>1 DEF Open, JobRow
    <2>6. job[k].st # "succeeded"
      BY <2>1, <2>2 DEF Owned, NotBack, Has
    <2>7. Report(k)'
      BY <2>2, <2>3, <2>5, <2>6, FS_EmptySet DEF Report, NoCounts, Sum
    <2>8. Tally(w)'
      <3>1. CASE worker'[w] = Idle
        BY <1>i, <3>1 DEF Tally, W
      <3>2. CASE worker'[w] # Idle
        <4>1. Entries(w)' = Entries(w)
          BY <2>1, <2>4, <2>5, <3>2 DEF Entries, JobOf
        <4>2. LET n == worker'[w].n IN n.imported = 0 /\ Sum(n) = 0 /\ n.total = Len(Entries(w))
          BY <2>4, <3>2 DEF NoCounts, Sum
        <4>3. /\ worker'[w].pc = "import" /\ worker'[w].at = 1 /\ JobOf(w)' = k /\ stored'[k] = {}
              /\ Cardinality(stored'[k]) = 0
          BY <2>2, <2>3, <2>4, <3>2, FS_EmptySet DEF JobOf
        <4>4. worker'[w].at \in 1..(Len(Entries(w)) + 1) /\ 0 <= worker'[w].at - 1
          BY <2>2, <4>3
        <4> QED BY <4>1, <4>2, <4>3, <4>4 DEF Tally, W
      <3> QED BY <3>1, <3>2
    <2>9. /\ \A v \in Workers \ {w} : worker'[v] = worker[v]
          /\ \A j \in Jobs \ {k} : job'[j] = job[j]
      BY <1>4, <1>t, <2>1 DEF Open
    <2> QED BY <2>1, <2>2, <2>7, <2>8, <2>9, OwnTally
  <1>5. ASSUME NEW w \in Workers, Ingested(w) PROVE Tallies'
    <2>1. PICK k \in Jobs : k = JobOf(w)
      BY <1>5, <1>h DEF Ingested, W
    <2>2. /\ worker[w].pc = "import" /\ Tally(w) /\ Report(k) /\ job' = job /\ stored' = stored
          /\ Len(Entries(w)) \in Nat
      BY <1>5, <1>h, <2>1 DEF Ingested, W, Tallies
    <2>3. /\ worker'[w].pc = "finish" /\ worker'[w].job = k /\ worker'[w].n = worker[w].n
          /\ worker'[w].end = Outcome(worker[w].n)
      BY <1>5, <1>t, <1>r, <2>1 DEF Ingested, WorkerRow, JobOf
    <2>4. LET n == worker[w].n IN n.imported = Cardinality(stored[k]) /\ Sum(n) <= n.total
      <3> DEFINE n == worker[w].n  at == worker[w].at
      <3>1. /\ n.imported = Cardinality(stored[k]) /\ Sum(n) <= at - 1
            /\ at \in 1..(Len(Entries(w)) + 1) /\ n.total = Len(Entries(w))
        BY <2>1, <2>2 DEF Tally, W
      <3>2. Sum(n) \in Nat
        BY <1>c DEF Sum
      <3> QED BY <2>2, <3>1, <3>2
    <2>5. Outcome(worker[w].n) = "succeeded" => worker[w].n.imported > 0 \/ worker[w].n.failed = 0
      BY <1>c DEF Outcome
    <2>6. Tally(w)'
      BY <2>2, <2>3, <2>4, <2>5 DEF Tally, W, JobOf
    <2>7. Report(k)'
      BY <2>2 DEF Report
    <2>8. \A v \in Workers \ {w} : worker'[v] = worker[v]
      BY <1>5, <1>t DEF Ingested
    <2> QED BY <2>1, <2>2, <2>6, <2>7, <2>8, OwnTally
  <1>6. ASSUME NEW w \in Workers, Finish(w) PROVE Tallies'
    <2>1. PICK k \in Jobs : k = JobOf(w)
      BY <1>6, <1>h DEF Finish, W
    <2>2. worker[w].pc = "finish" /\ Tally(w) /\ Report(k) /\ stored' = stored /\ worker'[w] = Idle
      BY <1>6, <1>t, <2>1 DEF Finish, W, Tallies
    <2>3. \/ job'[k] = job[k]
          \/ job'[k].st = worker[w].end /\ job'[k].n = worker[w].n /\ job'[k].st \in Final
      BY <1>6, <1>t, <1>j, <1>r, <2>1 DEF Finish, JobRow, WorkerRow
    <2>4. Report(k)'
      BY <1>f, <1>c, <2>1, <2>2, <2>3 DEF Report, Tally, W, Final
    <2>5. Tally(w)'
      BY <1>i, <2>2 DEF Tally, W
    <2>6. /\ \A v \in Workers \ {w} : worker'[v] = worker[v]
          /\ \A j \in Jobs \ {k} : job'[j] = job[j]
      BY <1>6, <1>t, <2>1 DEF Finish
    <2> QED BY <2>1, <2>2, <2>4, <2>5, <2>6, OwnTally
  <1>7. ASSUME NEW w \in Workers, ClaimFails(w) \/ WorkerFails(w) PROVE Tallies'
    <2>1. \A v \in Workers : worker'[v] = worker[v] \/ worker'[v] = Idle
      BY <1>7, <1>t DEF ClaimFails, WorkerFails
    <2>2. job' = job /\ stored' = stored
      BY <1>7 DEF ClaimFails, WorkerFails
    <2> QED BY <1>i, <2>1, <2>2 DEF Tallies, Tally, Report, W, JobOf, Entries
  <1>8. ASSUME NEW j \in Jobs, NEW a \in Archives, Enqueue(j, a) PROVE Tallies'
    <2>1. job[j].st = "unused" /\ worker' = worker /\ stored' = stored
      BY <1>8 DEF Enqueue
    <2>2. /\ job'[j].st = "queued" /\ job'[j].n = NoCounts
          /\ \A i \in Jobs \ {j} : job'[i] = job[i]
      BY <1>8, <1>t DEF Enqueue, NoJob
    <2>3. \A v \in Workers : ~Has(v, j)
      BY <1>r, <2>1 DEF Owned, Hand, Has, W, JobOf, WorkerRow, Final
    <2>4. Report(j)'
      BY <1>f, <2>1, <2>2, FS_EmptySet DEF Tallies, Report, NoCounts, Sum
    <2>5. \A i \in Jobs : Report(i)'
      BY <2>1, <2>2, <2>4 DEF Tallies, Report
    <2>6. ASSUME NEW v \in Workers PROVE Tally(v)'
      <3>1. CASE worker[v].pc \in {"off", "idle"}
        BY <2>1, <3>1 DEF Tally, W
      <3>2. CASE worker[v].pc \notin {"off", "idle"}
        <4>1. JobOf(v) \in Jobs \ {j}
          BY <1>h, <2>3, <3>2 DEF Has
        <4>2. Entries(v)' = Entries(v)
          BY <2>1, <2>2, <4>1 DEF Entries, JobOf
        <4> QED BY <2>1, <4>2 DEF Tallies, Tally, W, JobOf
      <3> QED BY <3>1, <3>2
    <2> QED BY <2>5, <2>6 DEF Tallies
  <1>9. ASSUME NEW p \in Replicas, StartWorkers(p) \/ StopWorkers(p) PROVE Tallies'
    <2>1. \A v \in Workers : worker'[v] = worker[v] \/ worker'[v] = Idle \/ worker'[v] = Off
      BY <1>9 DEF StartWorkers, StopWorkers
    <2>2. \A j \in Jobs : \/ job'[j] = job[j]
                          \/ /\ job'[j] = [job[j] EXCEPT !.st = "failed", !.updated = clock]
                             /\ job[j].st = "running"
      BY <1>9, <1>t DEF StartWorkers, StopWorkers, Orphan, Running
    <2>3. \A j \in Jobs : \/ job'[j] = job[j]
                          \/ /\ job'[j].st = "failed" /\ job'[j].n = job[j].n
                             /\ job'[j].archive = job[j].archive
      BY <1>j, <2>2 DEF JobRow
    <2>4. stored' = stored
      BY <1>9 DEF StartWorkers, StopWorkers
    <2>5. \A j \in Jobs : Report(j)'
      BY <2>3, <2>4 DEF Tallies, Report
    <2>6. ASSUME NEW v \in Workers PROVE Tally(v)'
      <3>1. CASE worker'[v] # worker[v] \/ worker[v].pc \in {"off", "idle"}
        BY <1>i, <2>1, <3>1 DEF Tally, W
      <3>2. CASE worker'[v] = worker[v] /\ worker[v].pc \notin {"off", "idle"}
        <4>1. Entries(v)' = Entries(v)
          BY <1>h, <2>3, <3>2 DEF Entries, JobOf
        <4> QED BY <2>4, <3>2, <4>1 DEF Tallies, Tally, W, JobOf
      <3> QED BY <3>1, <3>2
    <2> QED BY <2>5, <2>6 DEF Tallies
  <1>10. ASSUME Hour \/ UNCHANGED importVars PROVE Tallies'
    <2>1. job' = job /\ worker' = worker /\ stored' = stored
      BY <1>10 DEF Hour, importVars
    <2> QED BY <2>1 DEF Tallies, Tally, Report, W, JobOf, Entries
  <1>11. ASSUME NEW w \in Workers, Ingest(w) PROVE Tallies'
    <2>1. PICK k \in Jobs : k = JobOf(w)
      BY <1>11, <1>h DEF Ingest, W
    <2> DEFINE n == worker[w].n  at == worker[w].at
    <2>2. /\ worker[w].pc = "import" /\ Tally(w) /\ Report(k) /\ job' = job
          /\ Len(Entries(w)) \in Nat /\ at <= Len(Entries(w))
      BY <1>11, <1>h, <2>1 DEF Ingest, W, Tallies
    <2>3. /\ at \in Nat /\ at >= 1 /\ stored[k] \subseteq 1..(at - 1)
          /\ n.imported = Cardinality(stored[k])
          /\ Sum(n) <= at - 1 /\ n.total = Len(Entries(w))
      BY <2>1, <2>2 DEF Tally, W
    <2>4. job[k].st # "succeeded" /\ job[k].st \notin {"unused", "queued"}
      BY <2>1, <2>2 DEF Owned, NotBack, Has, Hand, W, Final
    <2>5. /\ \A v \in Workers \ {w} : worker'[v] = worker[v]
          /\ \A j \in Jobs \ {k} : job'[j] = job[j] /\ stored'[j] = stored[j]
      BY <1>11, <1>t, <2>1 DEF Ingest
    <2>6. worker'[w].job = k /\ Entries(w)' = Entries(w)
      BY <1>11, <1>t, <1>r, <2>1 DEF Ingest, WorkerRow, JobOf, Entries
    <2>7. CASE stored' = stored
      <3>1. Report(k)'
        BY <2>2, <2>7 DEF Report
      <3>2. Cardinality(stored[k]) \in Nat
        BY <1>f
      <3>3. ASSUME worker'[w].pc = "finish", worker'[w].end = "failed", worker'[w].n = n
            PROVE  Tally(w)'
        <4>1. Sum(n) \in Nat
          BY <1>c DEF Sum
        <4>2. Sum(n) <= n.total
          BY <2>2, <2>3, <4>1
        <4>3. worker'[w].n.imported = Cardinality(stored'[k])
          BY <2>3, <2>7, <3>3
        <4> QED BY <2>6, <3>3, <4>2, <4>3, TallyEnd
      <3>4. ASSUME worker'[w].pc = "import", worker'[w].at = at + 1,
                   worker'[w].n \in {n, [n EXCEPT !.failed = n.failed + 1],
                                     [n EXCEPT !.skipped = n.skipped + 1]}
            PROVE  Tally(w)'
        <4>1. /\ worker'[w].n.imported = n.imported /\ worker'[w].n.total = n.total
              /\ Sum(worker'[w].n) <= Sum(n) + 1
          BY <1>c, <3>4 DEF Counts, Sum
        <4>2. Sum(worker'[w].n) \in Nat /\ Sum(n) \in Nat
          BY <1>r, <1>c DEF WorkerRow, Counts, Sum
        <4>3. Sum(worker'[w].n) <= at
          BY <2>3, <4>1, <4>2
        <4>4. stored'[k] \subseteq 1..at /\ worker'[w].n.imported = Cardinality(stored'[k])
          BY <2>3, <2>7, <4>1
        <4> QED BY <2>2, <2>3, <2>6, <3>4, <4>1, <4>3, <4>4, TallyOn
      <3>a. \/ worker'[w] = [worker[w] EXCEPT !.at = at + 1, !.n.failed = @ + 1]
            \/ worker'[w] = [worker[w] EXCEPT !.at = at + 1, !.n.skipped = @ + 1]
            \/ worker'[w] = [worker[w] EXCEPT !.at = at + 1]
            \/ worker'[w] = [worker[w] EXCEPT !.pc = "finish", !.end = "failed"]
            \/ stored' = [stored EXCEPT ![k] = @ \cup {at}]
        BY <1>11, <1>t, <2>1 DEF Ingest
      <3>b. stored' = [stored EXCEPT ![k] = @ \cup {at}] => FALSE
        BY <1>t, <2>3, <2>7
      <3>5. Tally(w)'
        <4> DEFINE row == worker[w]
        <4>1. CASE \/ worker'[w] = [row EXCEPT !.at = at + 1, !.n.failed = @ + 1]
                   \/ worker'[w] = [row EXCEPT !.at = at + 1, !.n.skipped = @ + 1]
                   \/ worker'[w] = [row EXCEPT !.at = at + 1]
          <5>1. worker'[w].pc = "import" /\ worker'[w].at = at + 1
            BY <1>r, <2>2, <4>1 DEF WorkerRow
          <5>2. worker'[w].n \in {n, [n EXCEPT !.failed = n.failed + 1],
                                     [n EXCEPT !.skipped = n.skipped + 1]}
            BY <1>r, <4>1 DEF WorkerRow
          <5> QED BY <3>4, <5>1, <5>2
        <4>2. CASE worker'[w] = [row EXCEPT !.pc = "finish", !.end = "failed"]
          BY <1>r, <3>3, <4>2 DEF WorkerRow
        <4> QED BY <3>a, <3>b, <4>1, <4>2
      <3> QED BY <2>1, <2>2, <2>5, <3>1, <3>5, OwnTally
    <2>8. CASE stored' = [stored EXCEPT ![k] = @ \cup {at}]
      <3>1. stored'[k] = stored[k] \cup {at} /\ at \notin stored[k]
        BY <1>t, <2>3, <2>8
      <3>2. /\ IsFiniteSet(stored'[k]) /\ Cardinality(stored'[k]) = Cardinality(stored[k]) + 1
            /\ Cardinality(stored[k]) \in Nat
        BY <1>f, <3>1, FS_AddElement
      <3>3. ASSUME worker'[w].pc = "import", worker'[w].at = at + 1,
                   worker'[w].n = [n EXCEPT !.imported = n.imported + 1]
            PROVE  Tally(w)'
        <4>1. /\ worker'[w].n.imported = n.imported + 1 /\ worker'[w].n.total = n.total
              /\ Sum(worker'[w].n) = Sum(n) + 1
          BY <1>c, <3>3 DEF Counts, Sum
        <4>2. Sum(n) \in Nat
          BY <1>c DEF Sum
        <4>3. Sum(worker'[w].n) <= at /\ stored'[k] \subseteq 1..at
          BY <2>3, <3>1, <4>1, <4>2
        <4>4. worker'[w].n.imported = Cardinality(stored'[k])
          BY <2>3, <3>2, <4>1
        <4> QED BY <2>2, <2>3, <2>6, <3>3, <4>1, <4>3, <4>4, TallyOn
      <3>a. \/ worker'[w] = [worker[w] EXCEPT !.at = at + 1, !.n.imported = @ + 1]
            \/ stored' = stored
        BY <1>11, <1>t, <2>1 DEF Ingest
      <3>b. stored' # stored
        BY <3>1
      <3>4. Tally(w)'
        <4>1. worker'[w] = [worker[w] EXCEPT !.at = at + 1, !.n.imported = @ + 1]
          BY <3>a, <3>b
        <4>2. worker'[w].pc = "import" /\ worker'[w].at = at + 1
          BY <1>r, <2>2, <4>1 DEF WorkerRow
        <4>3. worker'[w].n = [n EXCEPT !.imported = n.imported + 1]
          BY <1>r, <4>1 DEF WorkerRow
        <4> QED BY <3>3, <4>2, <4>3
      <3>5. Report(k)'
        BY <2>2, <2>4, <3>2, <1>j DEF Report, JobRow, Counts
      <3> QED BY <2>1, <2>2, <2>5, <3>4, <3>5, OwnTally
    <2> QED BY <1>11, <2>1, <2>7, <2>8 DEF Ingest
  <1> QED
    BY <1>1, <1>2, <1>3, <1>4, <1>5, <1>6, <1>7, <1>8, <1>9, <1>10, <1>11 DEF ImportNext, Work

-----------------------------------------------------------------------------
\* A running job bears the hour of its worker's last word, or a later one; a
\* worker who finds his job failed had kept silent for longer than the threshold.
LastWord(w, j) == /\ Running(j) => worker[w].wrote <= job[j].updated
                  /\ job[j].st = "failed" => worker[w].wrote + Stale < job[j].updated
Words == \A w \in Workers, j \in Jobs : Has(w, j) => LastWord(w, j)

\* A step of one worker at his job leaves the word of the others alone.
LEMMA OwnWord ==
  ASSUME ImportTypeOK, Owned, Words, NEW w \in Workers, worker[w].pc \notin {"off", "idle"},
         NEW k \in Jobs, k = JobOf(w),
         \A v \in Workers \ {w} : worker'[v] = worker[v],
         \A j \in Jobs \ {k} : job'[j] = job[j],
         \/ worker'[w].pc \in {"off", "idle"}
         \/ worker'[w].job = k /\ LastWord(w, k)'
  PROVE  Words'
  <1> SUFFICES ASSUME NEW v \in Workers, NEW j \in Jobs, Has(v, j)' PROVE LastWord(v, j)'
    BY DEF Words
  <1>1. CASE v = w
    BY <1>1 DEF Has, JobOf
  <1>2. CASE v # w
    <2>1. Has(v, j) /\ j # k /\ worker'[v] = worker[v] /\ job'[j] = job[j]
      BY <1>2 DEF Has, JobOf, Owned, Alone
    <2> QED BY <2>1 DEF Words, LastWord, Running
  <1> QED BY <1>1, <1>2

\* Every step keeps the hours in their order.
LEMMA WordsStep ==
  ASSUME ImportTypeOK, Owned, Words, [ImportNext]_importVars
  PROVE  Words'
  <1>t. worker \in [Workers -> WorkerRow] /\ job \in [Jobs -> JobRow]
    BY DEF ImportTypeOK
  <1>r. \A w \in Workers : worker[w] \in WorkerRow
    BY <1>t
  <1>j. \A j \in Jobs : job[j] \in JobRow
    BY <1>t
  <1>h. \A w \in Workers : worker[w].pc \notin {"off", "idle"} => JobOf(w) \in Jobs
    BY DEF Owned, Hand
  <1>n. /\ Stale \in Nat /\ clock \in Nat
        /\ \A w \in Workers : worker[w].wrote \in Nat
        /\ \A j \in Jobs : job[j].updated \in Nat
    BY <1>r, <1>j, Bounds DEF ImportTypeOK, WorkerRow, JobRow
  <1>1. ASSUME NEW w \in Workers, LockNext(w) PROVE Words'
    <2>1. PICK j \in Claimable : worker' = [worker EXCEPT ![w] = [Idle EXCEPT !.pc = "claim", !.job = j]]
      BY <1>1 DEF LockNext
    <2>2. job[j].st = "queued" /\ job' = job
      BY <1>1 DEF Claimable, LockNext
    <2>3. worker'[w].job = j /\ \A v \in Workers \ {w} : worker'[v] = worker[v]
      BY <1>t, <2>1 DEF Idle, Off
    <2>4. ASSUME NEW v \in Workers, NEW i \in Jobs, Has(v, i)' PROVE LastWord(v, i)'
      <3>1. CASE v = w
        BY <2>2, <2>3, <2>4, <3>1 DEF Has, JobOf, LastWord, Running
      <3>2. CASE v # w
        BY <2>2, <2>3, <2>4, <3>2 DEF Has, JobOf, Words, LastWord, Running
      <3> QED BY <3>1, <3>2
    <2> QED BY <2>4 DEF Words
  <1>2. ASSUME NEW w \in Workers, Claim(w) PROVE Words'
    <2>1. PICK k \in Jobs : k = JobOf(w)
      BY <1>2, <1>h DEF Claim, W
    <2>2. worker[w].pc = "claim" /\ worker'[w].job = k /\ worker'[w].wrote = clock
      BY <1>2, <1>t, <1>r, <2>1 DEF Claim, W, WorkerRow, JobOf
    <2>3. job'[k].st = "running" /\ job'[k].updated = clock
      BY <1>2, <1>t, <1>j, <2>1 DEF Claim, Claimed, JobRow
    <2>4. LastWord(w, k)'
      BY <1>n, <2>2, <2>3 DEF LastWord
    <2>5. /\ \A v \in Workers \ {w} : worker'[v] = worker[v]
          /\ \A j \in Jobs \ {k} : job'[j] = job[j]
      BY <1>2, <1>t, <2>1 DEF Claim
    <2> QED BY <2>1, <2>2, <2>4, <2>5, OwnWord
  <1>3. ASSUME NEW w \in Workers, OpenFails(w) \/ Ingest(w) \/ Ingested(w) PROVE Words'
    <2>1. worker[w].pc \in {"open", "import"} /\ job' = job
      BY <1>3 DEF OpenFails, Ingest, Ingested, W
    <2>2. PICK k \in Jobs : k = JobOf(w)
      BY <1>h, <2>1
    <2>3. worker'[w].job = k /\ worker'[w].wrote = worker[w].wrote
      BY <1>3, <1>t, <1>r, <2>2 DEF OpenFails, Ingest, Ingested, WorkerRow, JobOf
    <2>4. LastWord(w, k)
      BY <2>1, <2>2 DEF Words, Has
    <2>5. LastWord(w, k)'
      BY <2>1, <2>3, <2>4 DEF LastWord, Running
    <2>6. \A v \in Workers \ {w} : worker'[v] = worker[v]
      BY <1>3, <1>t DEF OpenFails, Ingest, Ingested
    <2> QED BY <2>1, <2>2, <2>3, <2>5, <2>6, OwnWord
  <1>4. ASSUME NEW w \in Workers, Open(w) PROVE Words'
    <2>1. PICK k \in Jobs : k = JobOf(w)
      BY <1>4, <1>h DEF Open, W
    <2>2. worker[w].pc = "open" /\ LastWord(w, k)
      BY <1>4, <2>1 DEF Open, W, Words, Has
    <2>3. \/ /\ worker'[w].job = k /\ worker'[w].wrote = clock
             /\ job'[k].st = "running" /\ job'[k].updated = clock
          \/ worker'[w].pc = "idle"
          \/ worker'[w].job = k /\ worker'[w].wrote = worker[w].wrote /\ job' = job
      <3>1. CASE job' = job
        BY <1>4, <1>t, <1>r, <2>1, <3>1 DEF Open, WorkerRow, JobOf, Idle, Off
      <3>2. CASE job' # job
        <4>1. /\ Running(k)
              /\ job' = [job EXCEPT ![k].n = [NoCounts EXCEPT !.total = Len(Entries(w))],
                                    ![k].updated = clock]
              /\ worker' = [worker EXCEPT ![w].pc = "import", ![w].n.total = Len(Entries(w)),
                                          ![w].wrote = clock]
          BY <1>4, <2>1, <3>2 DEF Open
        <4>2. job'[k].st = "running" /\ job'[k].updated = clock
          BY <1>t, <1>j, <4>1 DEF JobRow, Running
        <4>3. worker'[w].job = k /\ worker'[w].wrote = clock
          BY <1>t, <1>r, <2>1, <4>1 DEF WorkerRow, JobOf
        <4> QED BY <4>2, <4>3
      <3> QED BY <3>1, <3>2
    <2>4. worker'[w].pc = "idle" \/ (worker'[w].job = k /\ LastWord(w, k)')
      BY <1>n, <2>2, <2>3 DEF LastWord, Running
    <2>5. /\ \A v \in Workers \ {w} : worker'[v] = worker[v]
          /\ \A j \in Jobs \ {k} : job'[j] = job[j]
      BY <1>4, <1>t, <2>1 DEF Open
    <2> QED BY <2>1, <2>2, <2>4, <2>5, OwnWord
  <1>5. ASSUME NEW w \in Workers, Finish(w) PROVE Words'
    <2>1. PICK k \in Jobs : k = JobOf(w)
      BY <1>5, <1>h DEF Finish, W
    <2>2. worker[w].pc = "finish" /\ worker'[w].pc = "idle"
      BY <1>5, <1>t DEF Finish, W, Idle, Off
    <2>3. /\ \A v \in Workers \ {w} : worker'[v] = worker[v]
          /\ \A j \in Jobs \ {k} : job'[j] = job[j]
      BY <1>5, <1>t, <2>1 DEF Finish
    <2> QED BY <2>1, <2>2, <2>3, OwnWord
  <1>6. ASSUME NEW w \in Workers, ClaimFails(w) \/ WorkerFails(w) PROVE Words'
    <2>1. job' = job /\ \A v \in Workers : worker'[v] = worker[v] \/ worker'[v].pc = "idle"
      BY <1>6, <1>t DEF ClaimFails, WorkerFails, Idle, Off
    <2> QED BY <2>1 DEF Words, LastWord, Has, JobOf, Running
  <1>7. ASSUME NEW j \in Jobs, NEW a \in Archives, Enqueue(j, a) PROVE Words'
    <2>1. /\ worker' = worker /\ job'[j].st = "queued"
          /\ \A i \in Jobs \ {j} : job'[i] = job[i]
      BY <1>7, <1>t DEF Enqueue, NoJob
    <2> QED BY <2>1 DEF Words, LastWord, Has, JobOf, Running
  <1>8. ASSUME NEW p \in Replicas, StartWorkers(p) \/ StopWorkers(p) PROVE Words'
    <2>i. Idle.pc \in {"off", "idle"} /\ Off.pc \in {"off", "idle"}
      BY DEF Idle, Off
    <2>w. \A v \in Workers : worker'[v] = worker[v] \/ worker'[v] = Idle \/ worker'[v] = Off
      BY <1>8 DEF StartWorkers, StopWorkers
    <2>1. \A v \in Workers : worker'[v] = worker[v] \/ worker'[v].pc \in {"off", "idle"}
      BY <2>i, <2>w
    <2>2. \A j \in Jobs : \/ job'[j] = job[j]
                          \/ /\ job'[j] = [job[j] EXCEPT !.st = "failed", !.updated = clock]
                             /\ Running(j) /\ job[j].updated + Stale < clock
      BY <1>8, <1>t DEF StartWorkers, StopWorkers, Orphan
    <2>3. \A j \in Jobs : \/ job'[j] = job[j]
                          \/ /\ job'[j].st = "failed" /\ job'[j].updated = clock
                             /\ Running(j) /\ job[j].updated + Stale < clock
      BY <1>j, <2>2 DEF JobRow
    <2>4. ASSUME NEW v \in Workers, NEW j \in Jobs, Has(v, j)' PROVE LastWord(v, j)'
      <3>1. worker'[v] = worker[v] /\ Has(v, j)
        BY <2>1, <2>4 DEF Has, JobOf
      <3>2. LastWord(v, j)
        BY <3>1 DEF Words
      <3> QED BY <1>n, <2>3, <3>1, <3>2 DEF LastWord, Running
    <2> QED BY <2>4 DEF Words
  <1>9. ASSUME Hour \/ UNCHANGED importVars PROVE Words'
    <2>1. job' = job /\ worker' = worker
      BY <1>9 DEF Hour, importVars
    <2> QED BY <2>1 DEF Words, LastWord, Has, JobOf, Running
  <1> QED
    BY <1>1, <1>2, <1>3, <1>4, <1>5, <1>6, <1>7, <1>8, <1>9 DEF ImportNext, Work

-----------------------------------------------------------------------------
IndInv == ImportTypeOK /\ Owned /\ Tallies /\ Words

\* Blank rows and idle workers owe each other nothing.
LEMMA InitInd == ImportInit => IndInv
  <1> SUFFICES ASSUME ImportInit PROVE IndInv
    OBVIOUS
  <1>1. ImportTypeOK
    BY BlankRows, Bounds DEF ImportInit, ImportTypeOK
  <1>2. Owned
    BY DEF ImportInit, Owned, Hand, Row, Alone, NotBack, Has, W, JobOf, Idle, Off, NoJob
  <1>3. Tallies
    BY FS_EmptySet DEF ImportInit, Tallies, Tally, Report, W, Idle, Off, NoJob, NoCounts, Sum
  <1>4. Words
    BY DEF ImportInit, Words, Has, Idle, Off
  <1> QED BY <1>1, <1>2, <1>3, <1>4 DEF IndInv

\* Each step keeps what the claims, the tallies and the threshold need.
LEMMA NextInd == IndInv /\ [ImportNext]_importVars => IndInv'
  <1> SUFFICES ASSUME IndInv, [ImportNext]_importVars PROVE IndInv'
    OBVIOUS
  <1>1. ImportTypeOK'
    BY TypeStep DEF IndInv, Owned
  <1> QED BY <1>1, OwnedStep, TallyStep, WordsStep DEF IndInv

\* The invariant holds throughout.
LEMMA Inductive == ImportSpec => []IndInv
  BY InitInd, NextInd, PTL DEF ImportSpec

\* However many workers poll, and wherever one stops: no job is claimed twice
\* ("without ever double-processing a row", ClaimNext).
THEOREM OnceEach == ImportSpec => []RunOnce
  <1>1. IndInv => RunOnce
    BY DEF IndInv, Owned, Row, Alone, RunOnce
  <1> QED BY <1>1, Inductive, PTL

\* The counters of a job never exceed what it stored, and are what it stored
\* when it has succeeded, whatever fails on the way (ingestDocs, finishJob).
THEOREM Reported == ImportSpec => []Accounted
  <1>1. IndInv => Accounted
    BY DEF IndInv, Tallies, Report, Accounted, Sum
  <1> QED BY <1>1, Inductive, PTL

\* The end of a job is final, whoever comes late (Finish, SweepRunningToFailed).
THEOREM EndIsFinal == ImportSpec => FinalStays
  <1>1. ASSUME IndInv, ImportNext, NEW j \in Jobs, job[j].st \in Final PROVE job'[j] = job[j]
    <2>1. job \in [Jobs -> JobRow]
      BY <1>1 DEF IndInv, ImportTypeOK
    <2>2. \A w \in Workers : W(w, "claim") => JobOf(w) # j
      BY <1>1 DEF IndInv, Owned, Hand, Final
    <2>3. ~Running(j) /\ job[j].st # "unused" /\ ~Orphan(j)
      BY <1>1 DEF Running, Orphan, Final
    <2> QED
      BY <1>1, <2>1, <2>2, <2>3
      DEF ImportNext, Work, LockNext, Claim, OpenFails, Open, Ingest, Ingested, Finish, StillRunning,
          ClaimFails, WorkerFails, Enqueue, StartWorkers, StopWorkers, Hour
  <1>2. IndInv /\ [ImportNext]_importVars
           => [\A j \in Jobs : job[j].st \in Final => job'[j] = job[j]]_importVars
    BY <1>1
  <1> QED BY <1>2, Inductive, PTL DEF ImportSpec, FinalStays

\* A start fails a job under a live peer only when that peer had been silent for
\* longer than the threshold (SweepRunningToFailed): the claim and the total are
\* his word, for any number of replicas.
THEOREM PeersAreSpared == ImportSpec => []SparesLive
  <1>1. IndInv => SparesLive
    BY DEF IndInv, Words, LastWord, SparesLive
  <1> QED BY <1>1, Inductive, PTL
=============================================================================
