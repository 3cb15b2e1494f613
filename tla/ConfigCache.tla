----------------------------- MODULE ConfigCache ----------------------------
(***************************************************************************)
(* The configuration every replica keeps in memory: instance_config (the   *)
(* accessor of globalconfig) and doc_type_policies (the PolicyStore of     *)
(* staleness), loaded at start-up, after a write of its own, and when      *)
(* pgnotify's listener hears of a write.  A load reads the table and then  *)
(* swaps the snapshot; nothing orders the loads of one replica.  The value *)
(* of instance_config is the number of its writes, for an update changes   *)
(* no column but its own; a policy row is read, patched and written whole. *)
(***************************************************************************)
EXTENDS Naturals, Replica

CONSTANTS Admins,
          At,          \* the replica each admin talks to
          Patches,     \* edits of a policy: a doc_type and the fields it sets
          MaxWrites,   \* bound on the writes of an instance_config
          MaxFaults    \* bound on lost sessions, failed statements and stops

Chans == {"conf", "pol"}
Types == {"reference", "other"}
Modes == {"replace", "append_only"}
PolicyRow == [guard : BOOLEAN \cup {None}, mode : Modes \cup {None}]

ASSUME NoneIsNoValue == None \notin BOOLEAN /\ None \notin Modes
ASSUME AdminsAt == At \in [Admins -> Replicas]
ASSUME PatchesAre == \A x \in Patches : x.type \in Types /\ x.set \in PolicyRow
ASSUME WriteBound == MaxWrites \in Nat \ {0} /\ MaxFaults \in Nat

VARIABLES table,   \* what is committed, and its version
          cache,   \* the snapshots of each replica
          lst,     \* the listener of each replica: session, and what it was notified of
          up,      \* how far each replica's start has come
          adm,     \* requests that change a table
          best,    \* the newest snapshot each process has had (history)
          deaf,    \* has a reload failed that has not been made up for? (history)
          faults

configVars == <<table, cache, lst, up, adm, best, deaf, faults>>

\* The loads of a replica: that of its start, of its listener, of its requests.
Seeded == [t \in Types |-> IF t = "reference" THEN [guard |-> TRUE, mode |-> "replace"]
                                              ELSE [guard |-> None, mode |-> None]]
\* A snapshot knows what it is of, and of which version.
Snap(c) == IF c = "conf" THEN [ver |-> table.conf, rows |-> Seeded]
                         ELSE [ver |-> table.ver, rows |-> table.pol]
NoSnap == [ver |-> 0, rows |-> Seeded]
NoSession == [pc |-> "off", heard |-> {}, chan |-> None, snap |-> NoSnap]
Session(heard) == [NoSession EXCEPT !.pc = "wait", !.heard = heard]

\* ResolveDocTypePolicies: what a row leaves open it has from the reference row.
Effective(rows, t) ==
    [f \in {"guard", "mode"} |-> IF rows[t][f] = None THEN rows["reference"][f] ELSE rows[t][f]]
\* ValidateEffective, for one rule across two fields.
Sound(eff) == ~(eff.guard = TRUE /\ eff.mode # "replace")
Valid(rows) == /\ rows["reference"].guard # None /\ rows["reference"].mode # None
               /\ \A t \in Types : Sound(Effective(rows, t))
\* A load of policies that are not valid fails and leaves the snapshot.
\* mutant: the snapshot is swapped before it is validated
LoadsMut(c, snap) == TRUE
Loads(c, snap) == c = "conf" \/ Valid(snap.rows)

\* The snapshot is swapped, whichever is there.
Swap(p, c, snap) ==
    /\ cache' = [cache EXCEPT ![p][c] = IF Loads(c, snap) THEN snap ELSE @]
    /\ best' = [best EXCEPT ![p][c] = IF Loads(c, snap) /\ snap.ver > @ THEN snap.ver ELSE @]
\* An older load came in after a newer one.
Overtaken(p, c) == cache[p][c].ver < best[p][c]

\* Every session that listens is told at the commit of a write.
Notified(c) == [p \in Replicas |-> IF lst[p].pc = "off" THEN lst[p]
                                   ELSE [lst[p] EXCEPT !.heard = @ \cup {c}]]

NoRequest == [pc |-> "idle", chan |-> None, type |-> None, row |-> Seeded["other"], wrote |-> 0, snap |-> NoSnap]
Failed == [NoRequest EXCEPT !.pc = "failed"]

-----------------------------------------------------------------------------
(* The listener.                                                           *)

\* LISTEN, and then every cache once: what is heard is what was missed.
\* mutant: a session that is made again waits for what comes
HeardAnewMut(p) == IF up[p].pc = "up" THEN {} ELSE Chans
HeardAnew(p) == Chans
Connect(p) ==
    /\ lst[p].pc = "off" /\ up[p].pc # "down"
    /\ lst' = [lst EXCEPT ![p] = Session(HeardAnew(p))]
    /\ UNCHANGED <<table, cache, up, adm, best, deaf, faults>>

\* The next notification, or the next cache of reloadAll: read ...
Hear(p) ==
    /\ lst[p].pc = "wait"
    /\ \E c \in lst[p].heard :
         lst' = [lst EXCEPT ![p].pc = "read", ![p].chan = c, ![p].snap = Snap(c), ![p].heard = @ \ {c}]
    /\ UNCHANGED <<table, cache, up, adm, best, deaf, faults>>

\* ... and swap.
Reload(p) ==
    /\ lst[p].pc = "read"
    /\ Swap(p, lst[p].chan, lst[p].snap)
    /\ lst' = [lst EXCEPT ![p] = Session(@.heard)]
    /\ deaf' = [deaf EXCEPT ![p][lst[p].chan] = FALSE]
    /\ UNCHANGED <<table, up, adm, faults>>

\* A reload that fails is logged; nothing tries again.
ReloadFails(p) ==
    /\ lst[p].pc = "read" /\ faults < MaxFaults
    /\ lst' = [lst EXCEPT ![p] = Session(@.heard)]
    /\ deaf' = [deaf EXCEPT ![p][lst[p].chan] = TRUE]
    /\ faults' = faults + 1
    /\ UNCHANGED <<table, cache, up, adm, best>>

\* The session is lost with all it was told.
Disconnect(p) ==
    /\ lst[p].pc # "off" /\ faults < MaxFaults
    /\ lst' = [lst EXCEPT ![p] = NoSession]
    /\ faults' = faults + 1
    /\ UNCHANGED <<table, cache, up, adm, best, deaf>>

-----------------------------------------------------------------------------
(* The start: LISTEN first, whether or not it succeeds, then both loads.   *)

Boots(p) ==
    /\ up[p].pc = "down"
    /\ up' = [up EXCEPT ![p] = [pc |-> "conf", snap |-> NoSnap]]
    /\ \/ lst' = [lst EXCEPT ![p] = Session(Chans)]
       \/ UNCHANGED lst
    /\ UNCHANGED <<table, cache, adm, best, deaf, faults>>

BootRead(p) ==
    /\ up[p].pc \in {"conf", "pol"}
    /\ up' = [up EXCEPT ![p] = [pc |-> IF up[p].pc = "conf" THEN "confread" ELSE "polread",
                                snap |-> Snap(up[p].pc)]]
    /\ UNCHANGED <<table, cache, lst, adm, best, deaf, faults>>

BootConf(p) ==
    /\ up[p].pc = "confread"
    /\ Swap(p, "conf", up[p].snap)
    /\ up' = [up EXCEPT ![p] = [pc |-> "pol", snap |-> NoSnap]]
    /\ UNCHANGED <<table, lst, adm, deaf, faults>>

\* Policies that do not load are fatal.
BootPol(p) ==
    /\ up[p].pc = "polread"
    /\ Swap(p, "pol", up[p].snap)
    /\ up' = [up EXCEPT ![p] = [pc |-> IF Loads("pol", up[p].snap) THEN "workers" ELSE "fatal",
                                snap |-> NoSnap]]
    /\ UNCHANGED <<table, lst, adm, deaf, faults>>

\* The process ends, over its policies or for any reason, its memory with it.
Halt(p) ==
    /\ up[p].pc # "down" /\ (up[p].pc = "fatal" \/ faults < MaxFaults)
    /\ faults' = IF up[p].pc = "fatal" THEN faults ELSE faults + 1
    /\ up' = [up EXCEPT ![p] = [pc |-> "down", snap |-> NoSnap]]
    /\ lst' = [lst EXCEPT ![p] = NoSession]
    /\ cache' = [cache EXCEPT ![p] = [c \in Chans |-> NoSnap]]
    /\ best' = [best EXCEPT ![p] = [c \in Chans |-> 0]]
    /\ deaf' = [deaf EXCEPT ![p] = [c \in Chans |-> FALSE]]
    /\ adm' = [a \in Admins |-> IF At[a] = p /\ adm[a].pc \in {"check", "read", "store"} THEN Failed ELSE adm[a]]
    /\ UNCHANGED table

-----------------------------------------------------------------------------
(* The requests.                                                           *)

Free(a) == adm[a].pc \in {"idle", "ok", "failed"} /\ up[At[a]].pc = "up"

\* patchConfig: update the row ...
PatchConfig(a) ==
    /\ Free(a) /\ table.conf < MaxWrites
    /\ table' = [table EXCEPT !.conf = @ + 1]
    /\ lst' = Notified("conf")
    /\ adm' = [adm EXCEPT ![a] = [NoRequest EXCEPT !.pc = "read", !.chan = "conf", !.wrote = table.conf + 1]]
    /\ UNCHANGED <<cache, up, best, deaf, faults>>

Patched(row, set) == [f \in DOMAIN row |-> IF set[f] = None THEN row[f] ELSE set[f]]

\* SetDocTypePolicy: overlay the patch on the rows as they are and validate all ...
SetPolicyRead(a, x) ==
    /\ Free(a) /\ table.ver < MaxWrites
    /\ LET row == Patched(table.pol[x.type], x.set) IN
       adm' = [adm EXCEPT ![a] =
           IF Valid([table.pol EXCEPT ![x.type] = row])
           THEN [NoRequest EXCEPT !.pc = "check", !.chan = "pol", !.type = x.type, !.row = row]
           ELSE Failed]
    /\ UNCHANGED <<table, cache, lst, up, best, deaf, faults>>

\* ... and write the one row whole.
SetPolicyWrite(a) ==
    /\ adm[a].pc = "check"
    /\ table' = [table EXCEPT !.pol[adm[a].type] = adm[a].row, !.ver = @ + 1]
    /\ lst' = Notified("pol")
    /\ adm' = [adm EXCEPT ![a] = [NoRequest EXCEPT !.pc = "read", !.chan = "pol", !.wrote = table.ver + 1]]
    /\ UNCHANGED <<cache, up, best, deaf, faults>>

\* Refresh and Recompute: the request loads what it wrote ...
\* mutant: the answer does not wait for it
RefreshReadMut(a) ==
    /\ adm[a].pc = "read"
    /\ adm' = [adm EXCEPT ![a].pc = "ok"]
    /\ UNCHANGED <<table, cache, lst, up, best, deaf, faults>>
RefreshRead(a) ==
    /\ adm[a].pc = "read"
    /\ adm' = [adm EXCEPT ![a].pc = "store", ![a].snap = Snap(adm[a].chan)]
    /\ UNCHANGED <<table, cache, lst, up, best, deaf, faults>>

\* ... into the cache of its replica, and answers.
RefreshStore(a) ==
    /\ adm[a].pc = "store"
    /\ Swap(At[a], adm[a].chan, adm[a].snap)
    /\ adm' = [adm EXCEPT ![a] = IF Loads(@.chan, @.snap) THEN [@ EXCEPT !.pc = "ok", !.snap = NoSnap]
                                  ELSE Failed]
    /\ UNCHANGED <<table, lst, up, deaf, faults>>

RefreshFails(a) ==
    /\ adm[a].pc \in {"check", "read", "store"} /\ faults < MaxFaults
    /\ adm' = [adm EXCEPT ![a] = Failed]
    /\ faults' = faults + 1
    /\ UNCHANGED <<table, cache, lst, up, best, deaf>>

Listening(p) == Connect(p) \/ Hear(p) \/ Reload(p)
Booting(p) == BootRead(p) \/ BootConf(p) \/ BootPol(p)
Changing(a) == SetPolicyWrite(a) \/ RefreshRead(a) \/ RefreshStore(a)

ConfigInit ==
    /\ table = [conf |-> 1, pol |-> Seeded, ver |-> 1]
    /\ cache = [p \in Replicas |-> [c \in Chans |-> [NoSnap EXCEPT !.ver = 1]]]
    /\ lst = [p \in Replicas |-> Session({})]
    /\ up = [p \in Replicas |-> [pc |-> "up", snap |-> NoSnap]]
    /\ adm = [a \in Admins |-> NoRequest]
    /\ best = [p \in Replicas |-> [c \in Chans |-> 1]]
    /\ deaf = [p \in Replicas |-> [c \in Chans |-> FALSE]]
    /\ faults = 0

-----------------------------------------------------------------------------
Snapshots == [ver : Nat, rows : [Types -> PolicyRow]]
ConfigTypeOK ==
    /\ table \in [conf : 1..MaxWrites, pol : [Types -> PolicyRow], ver : Nat]
    /\ cache \in [Replicas -> [Chans -> Snapshots]]
    /\ lst \in [Replicas -> [pc : {"off", "wait", "read"}, heard : SUBSET Chans,
                             chan : Chans \cup {None}, snap : Snapshots]]
    /\ up \in [Replicas -> [pc : {"down", "conf", "confread", "pol", "polread", "workers", "up", "fatal"},
                            snap : Snapshots]]
    /\ adm \in [Admins -> [pc : {"idle", "check", "read", "store", "ok", "failed"}, chan : Chans \cup {None},
                           type : Types \cup {None}, row : PolicyRow, wrote : Nat, snap : Snapshots]]
    /\ best \in [Replicas -> [Chans -> Nat]] /\ deaf \in [Replicas -> [Chans -> BOOLEAN]]
    /\ faults \in 0..MaxFaults

\* "so the change applies live" (patchConfig): a replica that has answered a
\* write serves it or something newer, unless an older load came in after it.
AppliesLive == \A a \in Admins : LET p == At[a] IN
    adm[a].pc = "ok" /\ up[p].pc = "up" /\ cache[p][adm[a].chan].ver < adm[a].wrote
        => Overtaken(p, adm[a].chan)

\* No replica that is up serves policies that are not valid, though the table
\* may hold such ("leaves the current snapshot untouched", PolicyStore.Load).
ServesValid == \A p \in Replicas : up[p].pc = "up" =>
    \A t \in Types : Sound(Effective(cache[p]["pol"].rows, t))

\* Changes reach every replica in the end, over lost sessions and restarts: it
\* serves what the tables hold, unless its last load was older than the one
\* before, a reload has failed, or the policies of the table do not load.
CatchesUp == <>[](\A p \in Replicas, c \in Chans : up[p].pc = "up" =>
    \/ cache[p][c].ver = Snap(c).ver
    \/ Overtaken(p, c) \/ deaf[p][c]
    \/ c = "pol" /\ ~Valid(table.pol))

\* "LISTEN must be established BEFORE the initial loads below, so a change
\* committed during startup is never missed" (main.go): a replica that is up, has
\* heard all its session was told and has served no change itself, serves what
\* the tables hold.
NeverMissed == \A p \in Replicas, c \in Chans :
    /\ up[p].pc = "up" /\ lst[p].pc = "wait" /\ lst[p].heard = {} /\ ~deaf[p][c]
    /\ \A a \in Admins : At[a] = p => adm[a].pc = "idle"
    /\ Loads(c, Snap(c))
    => cache[p][c].ver = Snap(c).ver

\* "Values are validated against the merged result, so an edit that would produce
\* a bad combination through inheritance is rejected" (docs/administering.md).
PoliciesValid == Valid(table.pol)
=============================================================================
