----------------------------- MODULE Background -----------------------------
(***************************************************************************)
(* What the replicas do beside serving requests: they import archives      *)
(* (ImportJobs), scan for near-duplicates (CleanupQueue) and keep their    *)
(* configuration current (ConfigCache).  A replica starts its listener,    *)
(* loads both caches, then starts the workers and the scanner; it stops    *)
(* anywhere, and what it had in memory is gone.                            *)
(***************************************************************************)
EXTENDS ImportJobs, CleanupQueue, ConfigCache

CONSTANT Parts      \* which part moves in a behaviour

\* Every replica has a scanner.
ASSUME ScannersRun == Scanners = Replicas

VARIABLE part

vars == <<importVars, queueVars, configVars, part>>

Configs == {"conf", "pol"}
Up(p) == up[p].pc = "up"

\* The last of a start: the scanner, and the workers with their sweep.
StartBackground(p) ==
    /\ up[p].pc = "workers"
    /\ StartWorkers(p)
    /\ up' = [up EXCEPT ![p].pc = "up"]
    /\ UNCHANGED <<table, cache, lst, adm, best, deaf, faults, queueVars, part>>

Stop(p) ==
    /\ part # "queue"
    /\ Halt(p) /\ StopWorkers(p)
    /\ UNCHANGED <<part, queueVars>>

\* Where the configuration does not move, a start loads it in one step.
BootsQuietly(p) ==
    /\ part \notin Configs /\ up[p].pc = "down"
    /\ up' = [up EXCEPT ![p].pc = "workers"]
    /\ cache' = [cache EXCEPT ![p] = [c \in Chans |-> Snap(c)]]
    /\ best' = [best EXCEPT ![p] = [c \in Chans |-> Snap(c).ver]]
    /\ UNCHANGED <<table, lst, adm, deaf, faults, importVars, queueVars, part>>

Importing(w) == Work(w) /\ UNCHANGED <<queueVars, configVars, part>>
Scans(p) == Scanning(p) /\ UNCHANGED <<importVars, configVars, part>>
Resolving(a) == AgentStep(a) /\ UNCHANGED <<importVars, configVars, part>>
Listens(p) == part \in Configs /\ Listening(p) /\ UNCHANGED <<importVars, queueVars, part>>
Starting(p) == \/ Booting(p) /\ UNCHANGED <<importVars, queueVars, part>>
               \/ StartBackground(p)
Changes(a) == Changing(a) /\ UNCHANGED <<importVars, queueVars, part>>

Unclaimed(w) ==
    /\ part = "import" /\ faults < MaxFaults
    /\ ClaimFails(w) /\ faults' = faults + 1
    /\ UNCHANGED <<table, cache, lst, up, adm, best, deaf, queueVars, part>>

Init == ImportInit /\ QueueInit /\ ConfigInit /\ part \in Parts

Next ==
    \/ \E w \in Workers : Importing(w) \/ Unclaimed(w)
    \/ \E p \in Replicas : Scans(p) \/ Starting(p) \/ Stop(p) \/ Listens(p) \/ BootsQuietly(p)
    \/ \E a \in Agents : Resolving(a)
    \/ \E a \in Admins : Changes(a)
    \/ part = "import" /\ UNCHANGED <<queueVars, configVars, part>>
       /\ \/ \E j \in Jobs, a \in Archives : Enqueue(j, a)
          \/ \E w \in Workers : WorkerFails(w)
          \/ Hour
    \/ part = "queue" /\ UNCHANGED <<importVars, configVars, part>>
       /\ \/ \E p \in Replicas : ScanFind(p) \/ UpsertFails(p) \/ ScanStops(p)
          \/ \E d \in Docs : DeleteDocument(d) \/ ArchiveDocument(d) \/ ReviveDocument(d)
          \/ \E a \in Agents : Take(a)
    \/ part \in Configs /\ UNCHANGED <<importVars, queueVars, part>>
       /\ \/ \E p \in Replicas : Boots(p) \/ ReloadFails(p) \/ Disconnect(p)
          \/ \E a \in Admins : RefreshFails(a)
          \/ part = "conf" /\ \E a \in Admins : PatchConfig(a)
          \/ part = "pol" /\ \E a \in Admins, x \in Patches : SetPolicyRead(a, x)

Fairness == /\ \A w \in Workers : WF_vars(Importing(w))
            /\ \A p \in Replicas : WF_vars(Starting(p)) /\ WF_vars(Listens(p))

Spec == Init /\ [][Next]_vars /\ Fairness

-----------------------------------------------------------------------------
TypeOK == /\ ImportTypeOK /\ QueueTypeOK /\ ConfigTypeOK
          /\ part \in Parts

\* As long as a replica stays up every upload comes to an end: it is imported or
\* failed, or its worker was interrupted and no start has swept since it was
\* old enough to be swept.
Drained == <>[](\A j \in Jobs :
    (\E p \in Replicas : Up(p)) => \/ job[j].st \in {"unused"} \cup Final
                                   \/ Interrupted(j) /\ swept <= job[j].updated + Stale)
=============================================================================
