------------------------------ MODULE DocStore ------------------------------
(***************************************************************************)
(* The life of a document in the memory service: the rows of the tables    *)
(* documents, sections and document_edges of one tenant, and the request   *)
(* handlers of internal/service that read and write them concurrently.     *)
(*                                                                         *)
(* PostgreSQL runs every handler at READ COMMITTED.  A step of this module *)
(* is one statement, or the tail of a transaction that holds no lock while *)
(* another request could notice; the transactions that keep row locks from *)
(* one statement to the next (DeleteSection, MergeDocuments and the        *)
(* document deletes) are split at those statements.  What a handler read   *)
(* stays in its request record, so everything it does later is done with   *)
(* the values it read.                                                     *)
(*                                                                         *)
(* A title, and the content of a section, is the request that wrote it;    *)
(* timestamps, embeddings, history and audit rows are left out.  Ids are   *)
(* handed out in increasing order, so a larger id was created later.       *)
(***************************************************************************)
EXTENDS Naturals, Sequences, FiniteSets

CONSTANTS
    Reqs,        \* request slots; each serves one request
    Paths,       \* category/subcategory/slug triples
    Headings,    \* section headings, the nil heading of a preamble included
    MaxDoc,      \* bound: document ids
    MaxSec,      \* bound: section ids
    Kinds,       \* the kinds of request this instance issues
    Inputs,      \* heading sequences a stored markdown parses to
    Pins,        \* values of the pin argument of store: "unset", "true", "false"
    SecEdits,    \* arguments of an update_section call
    EdgeTypes,   \* edge types a request may ask for
    Mode,        \* write_mode of the doc_type each path infers to
    Perishable,  \* paths whose doc_type is prunable
    ChainPaths,  \* paths whose doc_type carries chain_previous
    Failures,    \* may a request be cut short (error, timeout, crash)?
    Doc0, Sec0, Edge0,           \* the tables' contents at the start
    NoReq, NoPath, NoHeading

VARIABLES
    doc,         \* documents, by id
    sec,         \* sections, by id
    edges,       \* document_edges
    docLock,     \* the request whose open transaction locks a documents row
    secLock,     \* the request whose open transaction wrote a sections row
    req          \* the requests

vars == <<doc, sec, edges, docLock, secLock, req>>

DocIds == 1..MaxDoc
SecIds == 1..MaxSec
DocRef == DocIds \cup {0}             \* 0 for none
SecRef == SecIds \cup {0}
Writers == Reqs \cup {NoReq}          \* NoReq wrote what is there at the start

Present == {"live", "stale", "superseded"}      \* archived documents keep their row
DocRow == [st : {"unused", "gone"} \cup Present,
           path : Paths \cup {NoPath}, pinned : BOOLEAN, title : Writers]
SecRow == [st : {"unused", "row", "gone"}, doc : DocRef,
           heading : Headings \cup {NoHeading}, content : Writers,
           verified : BOOLEAN, flagged : BOOLEAN]
EdgeRow == {e \in [src : DocIds, tgt : DocIds,
                   typ : {"supersedes", "depends_on", "continues_from"}] : e.src # e.tgt}
Edits == [content : BOOLEAN, heading : Headings \cup {NoHeading},
          verify : BOOLEAN]

PinValues == {"unset", "true", "false"}

NoDocRow == [st |-> "unused", path |-> NoPath, pinned |-> FALSE, title |-> NoReq]
NoSecRow == [st |-> "unused", doc |-> 0, heading |-> NoHeading,
             content |-> NoReq, verified |-> FALSE, flagged |-> FALSE]
GoneDoc == [NoDocRow EXCEPT !.st = "gone"]
GoneSec == [NoSecRow EXCEPT !.st = "gone"]
NoEdit == [content |-> FALSE, heading |-> NoHeading, verify |-> FALSE]

\* The instance asks for nothing the API would refuse, and its tables start
\* in a state the handlers and the schema can have left behind.
ASSUME InputAssumption ==
    /\ MaxDoc \in Nat /\ MaxSec \in Nat
    /\ NoReq \notin Reqs
    /\ Inputs \subseteq Seq(Headings)
    /\ Pins \subseteq PinValues
    /\ SecEdits \subseteq Edits
    /\ EdgeTypes \subseteq {"supersedes", "depends_on", "continues_from"}
    /\ Mode \in [Paths -> {"replace", "merge", "append"}]
ASSUME TableAssumption ==
    /\ Doc0 \in [DocIds -> DocRow]
    /\ Sec0 \in [SecIds -> SecRow]
    /\ Edge0 \subseteq EdgeRow
    /\ \A s \in SecIds : Sec0[s].st = "row" =>
          Sec0[s].doc \in DocIds /\ Doc0[Sec0[s].doc].st \in Present
    /\ \A e \in Edge0 : /\ Doc0[e.src].st \in Present
                        /\ Doc0[e.tgt].st \in Present
    /\ \A d, e \in DocIds : Doc0[d].st = "live" /\ Doc0[e].st = "live"
                              /\ Doc0[d].path = Doc0[e].path => d = e
    /\ \A d \in DocIds : Doc0[d].st = "live" => Doc0[d].path \in Paths

Idle == [kind |-> "none", pc |-> "idle", doc |-> 0, sec |-> 0, path |-> NoPath,
         inc |-> <<>>, pin |-> "unset", ex |-> {}, drow |-> NoDocRow,
         srow |-> NoSecRow, edit |-> NoEdit, tgt |-> 0, typ |-> "none",
         deps |-> {}, keep |-> {}, last |-> FALSE]
Done == [Idle EXCEPT !.pc = "done"]

-----------------------------------------------------------------------------
(* What a statement sees: the committed rows.                              *)

Exists(d) == doc[d].st \in Present
IsRow(s) == sec[s].st = "row"
SecsOf(d) == {s \in SecIds : IsRow(s) /\ sec[s].doc = d}
LiveAt(p) == {d \in DocIds : doc[d].st = "live" /\ doc[d].path = p}
\* ON DELETE CASCADE on both ends of an edge.
IncidentMut(d) == {e \in edges : e.src = d}              \* mutant: one end only
Incident(d) == {e \in edges : e.src = d \/ e.tgt = d}
\* idx_doc_tenant_path_active: no live document at p other than those of D.
UnclaimedMut(p, D) == TRUE                               \* mutant: no such index
Unclaimed(p, D) == LiveAt(p) \subseteq D

\* GetByPath: the live document at p, 0 for not found; the row and the
\* preloaded sections, with the headings they had then.
Resolve(p) == IF LiveAt(p) = {} THEN 0 ELSE CHOOSE d \in LiveAt(p) : TRUE
RowOf(d) == IF d = 0 THEN NoDocRow ELSE doc[d]
Preload(d) == {<<s, sec[s].heading>> : s \in SecsOf(d)}

\* Waiting for a row lock: a statement runs once nobody else holds it.
FreeDoc(d, r) == docLock[d] \in {NoReq, r}
FreeSecs(S, r) == \A s \in S : secLock[s] \in {NoReq, r}

Unlocked(lock, r) == [x \in DOMAIN lock |-> IF lock[x] = r THEN NoReq ELSE lock[x]]

-----------------------------------------------------------------------------
(* writeSections: which existing rows an incoming document updates, paired *)
(* by position within a group of equal headings, and which it inserts.     *)

Group(ex, h) == {x[1] : x \in {y \in ex : y[2] = h}}
Occurrence(inc, i) == Cardinality({j \in 1..i : inc[j] = inc[i]})
Pair(ex, inc, i) ==
    {s \in Group(ex, inc[i]) :
        Cardinality({t \in Group(ex, inc[i]) : t =< s}) = Occurrence(inc, i)}
Merged(ex, inc) == {i \in DOMAIN inc : Pair(ex, inc, i) # {}}
MergedSecs(ex, inc) == UNION {Pair(ex, inc, i) : i \in DOMAIN inc}

\* put_section never truncates: replace becomes merge, append_only stays.
ModeFor(kind, p) == IF kind = "put" /\ Mode[p] = "replace" THEN "merge" ELSE Mode[p]
Collides(q) == ModeFor(q.kind, q.path) = "append" /\ Merged(q.ex, q.inc) # {}
Updated(q) == IF ModeFor(q.kind, q.path) = "replace" THEN {} ELSE MergedSecs(q.ex, q.inc)
Inserted(q) == IF ModeFor(q.kind, q.path) = "replace" THEN DOMAIN q.inc
               ELSE DOMAIN q.inc \ Merged(q.ex, q.inc)
Dropped(q) == IF ModeFor(q.kind, q.path) = "replace" THEN SecsOf(q.doc) ELSE {}

UnusedSecs == {s \in SecIds : sec[s].st = "unused"}
UnusedDocs == {d \in DocIds : doc[d].st = "unused"}
\* The next ids, in order, for the incoming sections I.
Fresh(I) == {f \in [I -> UnusedSecs] :
                /\ \A i, j \in I : i < j => f[i] < f[j]
                /\ \A u \in UnusedSecs : (\A i \in I : f[i] # u) => \A i \in I : f[i] < u}

NewRow(d, h, r) == [st |-> "row", doc |-> d, heading |-> h, content |-> r,
                    verified |-> FALSE, flagged |-> FALSE]

\* The sections table after request r dropped, updated and inserted rows of d.
\* An UPDATE of a row that is gone by now changes nothing and reports nothing.
Written(d, drop, upd, f, inc, r) ==
    [s \in SecIds |->
        IF \E i \in DOMAIN f : f[i] = s
        THEN NewRow(d, inc[CHOOSE i \in DOMAIN f : f[i] = s], r)
        ELSE IF s \in drop THEN GoneSec
        ELSE IF s \in upd /\ IsRow(s) THEN [sec[s] EXCEPT !.content = r]
        ELSE sec[s]]

Purged(S) == [s \in SecIds |-> IF s \in S THEN GoneSec ELSE sec[s]]

-----------------------------------------------------------------------------
(* Steps every handler is made of.                                         *)

At(r, kinds, pc) == req[r].kind \in kinds /\ req[r].pc = pc

\* A handler's reads: request q starts in slot r, nothing is written.
Begin(r, q) ==
    /\ req[r].pc = "idle"
    /\ q.kind \in Kinds
    /\ req' = [req EXCEPT ![r] = q]
    /\ UNCHANGED <<doc, sec, edges, docLock, secLock>>

GoTo(r, pc) == req' = [req EXCEPT ![r].pc = pc]
Finish(r) == req' = [req EXCEPT ![r] = Done]

\* An error return or a rollback: nothing of the open transaction is kept.
Abandon(r) ==
    /\ Finish(r)
    /\ docLock' = Unlocked(docLock, r)
    /\ secLock' = Unlocked(secLock, r)
    /\ UNCHANGED <<doc, sec, edges>>

\* A request cut short: embedding or network error, deadline, process crash,
\* and the early returns of the duplicate guard.  The server rolls back.
Fail(r) ==
    /\ Failures
    /\ req[r].pc \notin {"idle", "done"}
    /\ Abandon(r)

-----------------------------------------------------------------------------
(* store_memory and put_section.                                           *)

StoreRead(r) ==
    \E p \in Paths, inc \in Inputs, pin \in Pins :
        Begin(r, [Idle EXCEPT !.kind = "store", !.pc = "write", !.path = p,
                  !.inc = inc, !.pin = pin, !.doc = Resolve(p),
                  !.drow = RowOf(Resolve(p)), !.ex = Preload(Resolve(p))])

PutRead(r) ==
    \E p \in Paths, h \in Headings :
        Begin(r, [Idle EXCEPT !.kind = "put", !.pc = "write", !.path = p,
                  !.inc = <<h>>, !.doc = Resolve(p), !.drow = RowOf(Resolve(p)),
                  !.ex = Preload(Resolve(p))])

\* No live document at the path when the transaction looked: create one.
CreateDoc(r) ==
    /\ At(r, {"store", "put"}, "write")
    /\ req[r].doc = 0
    /\ Unclaimed(req[r].path, {})
    /\ \E d \in UnusedDocs, f \in Fresh(DOMAIN req[r].inc) :
        /\ \A e \in UnusedDocs : d =< e
        /\ doc' = [doc EXCEPT ![d] = [st |-> "live", path |-> req[r].path,
                                      pinned |-> (req[r].pin = "true"), title |-> r]]
        /\ sec' = Written(d, {}, {}, f, req[r].inc, r)
        /\ req' = [req EXCEPT ![r] = IF req[r].path \in ChainPaths
                                     THEN [Idle EXCEPT !.kind = "store", !.pc = "chain", !.doc = d]
                                     ELSE Done]
    /\ UNCHANGED <<edges, docLock, secLock>>

\* The partial unique index refuses a second live document at the path.
CreateConflict(r) ==
    /\ At(r, {"store", "put"}, "write")
    /\ req[r].doc = 0
    /\ ~Unclaimed(req[r].path, {})
    /\ Abandon(r)

\* The row as it was read, with what this call sets.
Overwritten(q, r) == [q.drow EXCEPT !.title = r,
                                    !.pinned = IF q.pin = "unset" THEN @ ELSE q.pin = "true"]

\* Save writes every column of the row the transaction read; if the row was
\* deleted since, after Save's own count saw it, Save inserts it again.
StoreOverwrite(r) ==
    LET q == req[r] IN
    /\ At(r, {"store"}, "write")
    /\ q.doc # 0
    /\ FreeDoc(q.doc, r)
    /\ FreeSecs(Dropped(q) \cup Updated(q), r)
    /\ Unclaimed(q.path, {q.doc})
    /\ ~Collides(q)
    /\ doc' = [doc EXCEPT ![q.doc] = Overwritten(q, r)]
    /\ \E f \in Fresh(Inserted(q)) :
        sec' = Written(q.doc, Dropped(q), Updated(q), f, q.inc, r)
    /\ Finish(r)
    /\ UNCHANGED <<edges, docLock, secLock>>

StoreRejected(r) ==
    LET q == req[r] IN
    /\ At(r, {"store"}, "write")
    /\ q.doc # 0
    /\ FreeDoc(q.doc, r)
    /\ \/ ~Exists(q.doc)                          \* Save's count: not found
       \/ ~Unclaimed(q.path, {q.doc})            \* unique index
       \/ Collides(q)                             \* append_only
    /\ Abandon(r)

\* put_section stamps the document's timestamps only, then merges.
PutMergeMut(r) ==                      \* mutant: saves the document it read
    LET q == req[r] IN
    /\ At(r, {"put"}, "write")
    /\ q.doc # 0 /\ Exists(q.doc)
    /\ FreeDoc(q.doc, r)
    /\ FreeSecs(Updated(q), r)
    /\ ~Collides(q)
    /\ doc' = [doc EXCEPT ![q.doc] = q.drow]
    /\ \E f \in Fresh(Inserted(q)) :
        sec' = Written(q.doc, {}, Updated(q), f, q.inc, r)
    /\ Finish(r)
    /\ UNCHANGED <<edges, docLock, secLock>>
PutMerge(r) ==
    LET q == req[r] IN
    /\ At(r, {"put"}, "write")
    /\ q.doc # 0
    /\ FreeDoc(q.doc, r)
    /\ FreeSecs(Updated(q), r)
    /\ ~Collides(q)
    /\ Inserted(q) # {} => Exists(q.doc)          \* foreign key
    /\ \E f \in Fresh(Inserted(q)) :
        sec' = Written(q.doc, {}, Updated(q), f, q.inc, r)
    /\ Finish(r)
    /\ UNCHANGED <<doc, edges, docLock, secLock>>

PutRejected(r) ==
    LET q == req[r] IN
    /\ At(r, {"put"}, "write")
    /\ q.doc # 0
    /\ FreeDoc(q.doc, r)
    /\ Collides(q) \/ (Inserted(q) # {} /\ ~Exists(q.doc))
    /\ Abandon(r)

\* The newest live document of the chained doc_type, other than d.
PriorsMut(d) == {p \in DocIds :                          \* mutant: excludeID not passed
                    doc[p].st = "live" /\ doc[p].path \in ChainPaths}
Priors(d) == {p \in DocIds \ {d} : doc[p].st = "live" /\ doc[p].path \in ChainPaths}

\* autoChainPrevious, after the commit: a best-effort edge to the prior latest.
Chain(r) ==
    LET d == req[r].doc IN
    /\ At(r, {"store"}, "chain")
    /\ \/ /\ ~Exists(d) \/ Priors(d) = {}
          /\ UNCHANGED edges
       \/ /\ Exists(d)
          /\ \E p \in Priors(d) :
              /\ \A x \in Priors(d) : x =< p
              /\ edges' = edges \cup {[src |-> d, tgt |-> p, typ |-> "continues_from"]}
    /\ Finish(r)
    /\ UNCHANGED <<doc, sec, docLock, secLock>>

-----------------------------------------------------------------------------
(* update_section and mark_verified.                                       *)

UpdateRead(r) ==
    \E s \in SecIds, e \in SecEdits :
        /\ IsRow(s)
        /\ Begin(r, [Idle EXCEPT !.kind = "update", !.pc = "save", !.sec = s,
                     !.edit = e, !.srow = sec[s], !.doc = sec[s].doc,
                     !.drow = RowOf(sec[s].doc)])

VerifyRead(r) ==
    \E s \in SecIds :
        /\ IsRow(s)
        /\ Begin(r, [Idle EXCEPT !.kind = "verify", !.pc = "verify", !.sec = s,
                     !.doc = sec[s].doc])

Edited(q, r) == [q.srow EXCEPT !.content = IF q.edit.content THEN r ELSE @,
                               !.heading = IF q.edit.heading = NoHeading THEN @ ELSE q.edit.heading]

\* The belongs-to upsert that precedes the section: the document as it was
\* read is inserted unless the id, or a live document at its path, is there.
Reinserted(q) ==
    IF Exists(q.doc) \/ (q.drow.st = "live" /\ ~Unclaimed(q.drow.path, {}))
    THEN doc ELSE [doc EXCEPT ![q.doc] = q.drow]

AfterSave(q) == IF q.edit.verify THEN "verify" ELSE IF q.edit.content THEN "list" ELSE "done"

\* Save of the section read before the embedding: every column, and an insert
\* when the row is gone.
UpdateSave(r) ==
    LET q == req[r] IN
    /\ At(r, {"update"}, "save")
    /\ FreeSecs({q.sec}, r)
    /\ ~IsRow(q.sec) => FreeDoc(q.doc, r)
    /\ Reinserted(q)[q.doc].st \in Present
    /\ doc' = Reinserted(q)
    /\ sec' = [sec EXCEPT ![q.sec] = Edited(q, r)]
    /\ IF AfterSave(q) = "done" THEN Finish(r) ELSE GoTo(r, AfterSave(q))
    /\ UNCHANGED <<edges, docLock, secLock>>

UpdateRejected(r) ==
    LET q == req[r] IN
    /\ At(r, {"update"}, "save")
    /\ Reinserted(q)[q.doc].st \notin Present
    /\ Abandon(r)

StampVerified(r) ==
    LET s == req[r].sec IN
    /\ At(r, {"update", "verify"}, "verify")
    /\ IsRow(s)
    /\ FreeSecs({s}, r)
    /\ sec' = [sec EXCEPT ![s].verified = TRUE]
    /\ GoTo(r, "clear")
    /\ UNCHANGED <<doc, edges, docLock, secLock>>

VerifyRejected(r) ==
    /\ At(r, {"update", "verify"}, "verify")
    /\ ~IsRow(req[r].sec)
    /\ Abandon(r)

ClearFlag(r) ==
    LET s == req[r].sec IN
    /\ At(r, {"update", "verify"}, "clear")
    /\ FreeSecs({s}, r)
    /\ sec' = IF IsRow(s) THEN [sec EXCEPT ![s].flagged = FALSE] ELSE sec
    /\ GoTo(r, "revive")
    /\ UNCHANGED <<doc, edges, docLock, secLock>>

\* UnarchiveByID; a failure (the path has a live document again) is swallowed.
Revive(r) ==
    LET d == req[r].doc IN
    /\ At(r, {"update", "verify"}, "revive")
    /\ FreeDoc(d, r)
    /\ doc' = IF doc[d].st \in {"stale", "superseded"} /\ Unclaimed(doc[d].path, {})
              THEN [doc EXCEPT ![d].st = "live"] ELSE doc
    /\ IF req[r].edit.content THEN GoTo(r, "list") ELSE Finish(r)
    /\ UNCHANGED <<sec, edges, docLock, secLock>>

\* flagDependents, the detached goroutine of a content change.
ListDependents(r) ==
    /\ At(r, {"update"}, "list")
    /\ req' = [req EXCEPT ![r].pc = "flag",
                          ![r].deps = {e.src : e \in {x \in edges :
                                          x.typ = "depends_on" /\ x.tgt = req[r].doc}}]
    /\ UNCHANGED <<doc, sec, edges, docLock, secLock>>

Flagged(S) == [s \in SecIds |-> IF s \in S THEN [sec[s] EXCEPT !.flagged = TRUE] ELSE sec[s]]

FlagDependents(r) ==
    LET S == UNION {SecsOf(d) : d \in req[r].deps} IN
    /\ At(r, {"update"}, "flag")
    /\ FreeSecs(S, r)
    /\ sec' = Flagged(S)
    /\ Finish(r)
    /\ UNCHANGED <<doc, edges, docLock, secLock>>

\* FlagChanged: the hints of one section, or of all of a document, match.
FlagChanged(r) ==
    \E d \in DocIds : \E S \in {SecsOf(d)} \cup {{s} : s \in SecsOf(d)} :
        /\ req[r].pc = "idle" /\ "flag" \in Kinds
        /\ doc[d].st = "live"
        /\ FreeSecs(S, r)
        /\ sec' = Flagged(S)
        /\ Finish(r)
        /\ UNCHANGED <<doc, edges, docLock, secLock>>

-----------------------------------------------------------------------------
(* update_document_title.                                                  *)

TitleRead(r) ==
    \E d \in DocIds :
        /\ doc[d].st = "live"
        /\ Begin(r, [Idle EXCEPT !.kind = "title", !.pc = "title", !.doc = d])

TitleWrite(r) ==
    LET d == req[r].doc IN
    /\ At(r, {"title"}, "title")
    /\ FreeDoc(d, r)
    /\ doc' = IF Exists(d) THEN [doc EXCEPT ![d].title = r] ELSE doc
    /\ Finish(r)
    /\ UNCHANGED <<sec, edges, docLock, secLock>>

-----------------------------------------------------------------------------
(* DeleteDocument and DeleteDocumentByID, and the retention sweep's evict:  *)
(* the sections go first, then the document, in one transaction.           *)

DeleteRead(r) ==
    \E d \in DocIds :
        /\ doc[d].st = "live"
        /\ Begin(r, [Idle EXCEPT !.kind = "delete", !.pc = "delSecs", !.doc = d])

EvictCandidate(d) == doc[d].st = "live" /\ ~doc[d].pinned /\ doc[d].path \in Perishable

EvictRead(r) ==
    \E d \in DocIds :
        /\ EvictCandidate(d)
        /\ Begin(r, [Idle EXCEPT !.kind = "evict", !.pc = "delSecs", !.doc = d])

DeleteDocSections(r) ==
    LET S == SecsOf(req[r].doc) IN
    /\ At(r, {"delete", "evict"}, "delSecs")
    /\ FreeSecs(S, r)
    /\ secLock' = [s \in SecIds |-> IF s \in S THEN r ELSE secLock[s]]
    /\ GoTo(r, "delDoc")
    /\ UNCHANGED <<doc, sec, edges, docLock>>

\* Remove document d, the sections S and everything that references d, and
\* commit.
PurgeDoc(r, d, S) ==
    /\ doc' = [doc EXCEPT ![d] = GoneDoc]
    /\ sec' = Purged(SecsOf(d) \cup S)
    /\ edges' = edges \ Incident(d)
    /\ docLock' = Unlocked(docLock, r)
    /\ secLock' = Unlocked(secLock, r)
    /\ Finish(r)

DeleteDocRow(r) ==
    LET d == req[r].doc IN
    /\ At(r, {"delete", "evict"}, "delDoc")
    /\ FreeDoc(d, r)
    /\ FreeSecs(SecsOf(d), r)
    /\ Exists(d)
    /\ PurgeDoc(r, d, {})

DeleteRejected(r) ==
    /\ At(r, {"delete", "evict"}, "delDoc")
    /\ ~Exists(req[r].doc)
    /\ Abandon(r)

-----------------------------------------------------------------------------
(* delete_section: lock the document, delete the row, count what remains.  *)

DeleteSectionRead(r) ==
    \E s \in SecIds :
        /\ IsRow(s)
        /\ Begin(r, [Idle EXCEPT !.kind = "deleteSection", !.pc = "lock",
                     !.sec = s, !.doc = sec[s].doc])

LockParentMut(r) ==                    \* mutant: no SELECT ... FOR UPDATE
    /\ At(r, {"deleteSection"}, "lock")
    /\ GoTo(r, "delSec")
    /\ UNCHANGED <<doc, sec, edges, docLock, secLock>>
LockParent(r) ==
    LET d == req[r].doc IN
    /\ At(r, {"deleteSection"}, "lock")
    /\ FreeDoc(d, r)
    /\ docLock' = IF Exists(d) THEN [docLock EXCEPT ![d] = r] ELSE docLock
    /\ GoTo(r, "delSec")
    /\ UNCHANGED <<doc, sec, edges, secLock>>

DeleteSecRow(r) ==
    LET s == req[r].sec IN
    /\ At(r, {"deleteSection"}, "delSec")
    /\ FreeSecs({s}, r)
    /\ IsRow(s)
    /\ secLock' = [secLock EXCEPT ![s] = r]
    /\ req' = [req EXCEPT ![r].pc = "commit",
                          ![r].last = (SecsOf(req[r].doc) \ {s} = {})]
    /\ UNCHANGED <<doc, sec, edges, docLock>>

\* The section is gone, or the document it was the last of is: not found.
DeleteSecRejected(r) ==
    /\ \/ At(r, {"deleteSection"}, "delSec") /\ ~IsRow(req[r].sec)
       \/ At(r, {"deleteSection"}, "commit") /\ req[r].last /\ ~Exists(req[r].doc)
    /\ Abandon(r)

\* The count was 0: the document goes too; else its updated_at is stamped.
DeleteSecCommit(r) ==
    /\ At(r, {"deleteSection"}, "commit")
    /\ FreeDoc(req[r].doc, r)
    /\ req[r].last => Exists(req[r].doc) /\ FreeSecs(SecsOf(req[r].doc), r)
    /\ IF req[r].last
       THEN PurgeDoc(r, req[r].doc, {req[r].sec})
       ELSE /\ sec' = Purged({req[r].sec})
            /\ docLock' = Unlocked(docLock, r)
            /\ secLock' = Unlocked(secLock, r)
            /\ Finish(r)
            /\ UNCHANGED <<doc, edges>>

-----------------------------------------------------------------------------
(* MergeDocuments: move the sections to keep into the winner, delete the   *)
(* others of both documents, delete the loser, in one transaction.         *)

MergeRead(r) ==
    \E w, l \in DocIds : \E keep \in (SUBSET (SecsOf(w) \cup SecsOf(l))) \ {{}} :
        /\ w # l /\ doc[w].st = "live" /\ doc[l].st = "live"
        /\ Begin(r, [Idle EXCEPT !.kind = "merge", !.pc = "move", !.doc = l,
                     !.tgt = w, !.keep = keep])

\* What the UPDATE finds of the sections to keep, and what changes document.
Kept(q) == {s \in q.keep : IsRow(s)}
Moved(q) == {s \in Kept(q) : sec[s].doc # q.tgt}

\* The UPDATE and the DELETE; the foreign key check of a moved row locks the
\* winner.  (That lock is shared in PostgreSQL; what it lets through commutes.)
MergeMove(r) ==
    LET q == req[r]
        S == Kept(q) \cup SecsOf(q.doc) \cup SecsOf(q.tgt)
    IN
    /\ At(r, {"merge"}, "move")
    /\ FreeSecs(S, r)
    /\ Moved(q) # {} => Exists(q.tgt) /\ FreeDoc(q.tgt, r)
    /\ secLock' = [s \in SecIds |-> IF s \in S THEN r ELSE secLock[s]]
    /\ docLock' = IF Moved(q) = {} THEN docLock ELSE [docLock EXCEPT ![q.tgt] = r]
    /\ GoTo(r, "mergeDoc")
    /\ UNCHANGED <<doc, sec, edges>>

\* The sections when request r commits the merge q.
Reassigned(q, r) ==
    [s \in SecIds |->
        IF secLock[s] = r /\ s \in q.keep THEN [sec[s] EXCEPT !.doc = q.tgt]
        ELSE IF secLock[s] = r \/ s \in SecsOf(q.doc) THEN GoneSec ELSE sec[s]]

MergeCommit(r) ==
    LET q == req[r] IN
    /\ At(r, {"merge"}, "mergeDoc")
    /\ Exists(q.doc)
    /\ FreeDoc(q.doc, r)
    /\ FreeSecs(SecsOf(q.doc), r)
    /\ Exists(q.tgt) \/ \A s \in q.keep : secLock[s] # r      \* foreign key
    /\ doc' = [doc EXCEPT ![q.doc] = GoneDoc]
    /\ sec' = Reassigned(q, r)
    /\ edges' = edges \ Incident(q.doc)
    /\ docLock' = Unlocked(docLock, r)
    /\ secLock' = Unlocked(secLock, r)
    /\ Finish(r)

\* The winner is gone and a row refers to it, or the loser is not found.
MergeRejected(r) ==
    LET q == req[r] IN
    /\ \/ At(r, {"merge"}, "move") /\ Moved(q) # {} /\ ~Exists(q.tgt)
       \/ At(r, {"merge"}, "mergeDoc") /\ ~Exists(q.doc)
    /\ Abandon(r)

-----------------------------------------------------------------------------
(* link_documents and unlink_documents.                                    *)

LinkRead(r) ==
    \E a, b \in DocIds, t \in EdgeTypes :
        /\ a # b /\ Exists(a) /\ Exists(b)
        /\ Begin(r, [Idle EXCEPT !.kind = "link", !.pc = "link", !.doc = a,
                     !.tgt = b, !.typ = t])

EdgeOf(q) == [src |-> q.doc, tgt |-> q.tgt, typ |-> q.typ]

Link(r) ==
    LET q == req[r] IN
    /\ At(r, {"link"}, "link")
    /\ q.typ # "supersedes" \/ EdgeOf(q) \in edges
    /\ Exists(q.doc) /\ Exists(q.tgt)
    /\ edges' = edges \cup {EdgeOf(q)}
    /\ Finish(r)
    /\ UNCHANGED <<doc, sec, docLock, secLock>>

\* A new supersedes edge archives its target and purges the target's sections.
Supersede(r) ==
    LET q == req[r] IN
    /\ At(r, {"link"}, "link")
    /\ q.typ = "supersedes" /\ EdgeOf(q) \notin edges
    /\ Exists(q.doc) /\ Exists(q.tgt)
    /\ FreeDoc(q.tgt, r)
    /\ FreeSecs(SecsOf(q.tgt), r)
    /\ edges' = edges \cup {EdgeOf(q)}
    /\ doc' = IF doc[q.tgt].st = "live" THEN [doc EXCEPT ![q.tgt].st = "superseded"] ELSE doc
    /\ sec' = Purged(SecsOf(q.tgt))
    /\ Finish(r)
    /\ UNCHANGED <<docLock, secLock>>

LinkRejected(r) ==
    /\ At(r, {"link"}, "link")
    /\ ~(Exists(req[r].doc) /\ Exists(req[r].tgt))
    /\ Abandon(r)

Unlink(r) ==
    \E e \in edges :
        /\ req[r].pc = "idle" /\ "unlink" \in Kinds
        /\ edges' = edges \ {e}
        /\ Finish(r)
        /\ UNCHANGED <<doc, sec, docLock, secLock>>

-----------------------------------------------------------------------------
(* The archive sweep: a non-prunable document whose sections are all       *)
(* flagged past the grace is archived, its content kept.                   *)

ArchiveCandidate(d) ==
    /\ doc[d].st = "live" /\ ~doc[d].pinned /\ doc[d].path \notin Perishable
    /\ SecsOf(d) # {} /\ \A s \in SecsOf(d) : sec[s].flagged

ArchiveRead(r) ==
    \E d \in DocIds :
        /\ ArchiveCandidate(d)
        /\ Begin(r, [Idle EXCEPT !.kind = "archive", !.pc = "archive", !.doc = d])

ArchiveOne(r) ==
    LET d == req[r].doc IN
    /\ At(r, {"archive"}, "archive")
    /\ FreeDoc(d, r)
    /\ doc' = IF doc[d].st = "live" THEN [doc EXCEPT ![d].st = "stale"] ELSE doc
    /\ Finish(r)
    /\ UNCHANGED <<sec, edges, docLock, secLock>>

-----------------------------------------------------------------------------
(* PostgreSQL's deadlock detector: of two transactions that wait for each  *)
(* other's row locks, one is rolled back with an error.                    *)

WaitsFor(r) ==
    LET q == req[r]
        held == CASE q.pc = "delSecs" -> {secLock[s] : s \in SecsOf(q.doc)}
                  [] q.pc \in {"delDoc", "mergeDoc"} ->
                         {docLock[q.doc]} \cup {secLock[s] : s \in SecsOf(q.doc)}
                  [] q.pc = "lock"    -> {docLock[q.doc]}
                  [] q.pc = "delSec"  -> {secLock[q.sec]}
                  [] q.pc = "commit"  -> {docLock[q.doc]} \cup
                                         {secLock[s] : s \in IF q.last THEN SecsOf(q.doc) ELSE {}}
                  [] OTHER            -> {}
    IN  held \ {NoReq, r}

DeadlockAbortMut(r) == FALSE           \* mutant: waiters are left waiting
DeadlockAbort(r) ==
    /\ \E q \in WaitsFor(r) : r \in WaitsFor(q)
    /\ Abandon(r)

-----------------------------------------------------------------------------

Start(r) ==
    \/ StoreRead(r) \/ PutRead(r) \/ UpdateRead(r) \/ VerifyRead(r) \/ FlagChanged(r)
    \/ TitleRead(r) \/ DeleteRead(r) \/ EvictRead(r) \/ DeleteSectionRead(r)
    \/ MergeRead(r) \/ LinkRead(r) \/ Unlink(r) \/ ArchiveRead(r)

Step(r) ==
    \/ CreateDoc(r) \/ CreateConflict(r) \/ StoreOverwrite(r) \/ StoreRejected(r)
    \/ PutMerge(r) \/ PutRejected(r) \/ Chain(r)
    \/ UpdateSave(r) \/ UpdateRejected(r) \/ StampVerified(r) \/ VerifyRejected(r)
    \/ ClearFlag(r) \/ Revive(r) \/ ListDependents(r) \/ FlagDependents(r)
    \/ TitleWrite(r)
    \/ DeleteDocSections(r) \/ DeleteDocRow(r) \/ DeleteRejected(r)
    \/ LockParent(r) \/ DeleteSecRow(r) \/ DeleteSecRejected(r) \/ DeleteSecCommit(r)
    \/ MergeMove(r) \/ MergeCommit(r) \/ MergeRejected(r)
    \/ Link(r) \/ Supersede(r) \/ LinkRejected(r) \/ ArchiveOne(r)
    \/ DeadlockAbort(r)

\* No request is being served.
Quiet == (\A r \in Reqs : req[r].pc \in {"idle", "done"}) /\ UNCHANGED vars

Init ==
    /\ doc = Doc0
    /\ sec = Sec0
    /\ edges = Edge0
    /\ docLock = [d \in DocIds |-> NoReq]
    /\ secLock = [s \in SecIds |-> NoReq]
    /\ req = [r \in Reqs |-> Idle]

Next == Quiet \/ \E r \in Reqs : Start(r) \/ Step(r) \/ Fail(r)

Spec == Init /\ [][Next]_vars

\* A started handler is driven on by its goroutine, and the database lets a
\* waiter through once the row is free.
FairSpec == Spec /\ \A r \in Reqs : WF_vars(Step(r))

-----------------------------------------------------------------------------
(* What holds of every instance.                                           *)

ReqKinds == {"none", "store", "put", "update", "verify", "title", "delete",
             "evict", "deleteSection", "merge", "link", "archive"}
PCs == {"idle", "done", "write", "chain", "save", "verify", "clear", "revive",
        "list", "flag", "title", "delSecs", "delDoc", "lock", "delSec",
        "commit", "move", "mergeDoc", "link", "archive"}
Preloads == SecIds \X (Headings \cup {NoHeading})
ReqRow == [kind : ReqKinds, pc : PCs,
           doc : DocRef, sec : SecRef, path : Paths \cup {NoPath},
           inc : Seq(Headings), pin : PinValues,
           ex : SUBSET Preloads,
           drow : DocRow, srow : SecRow, edit : Edits, tgt : DocRef,
           typ : {"none", "supersedes", "depends_on", "continues_from"},
           deps : SUBSET DocIds, keep : SUBSET SecIds, last : BOOLEAN]

\* The tables hold rows of their type, and no document has an edge to itself.
TypeOK ==
    /\ doc \in [DocIds -> DocRow]
    /\ sec \in [SecIds -> SecRow]
    /\ edges \subseteq EdgeRow
    /\ docLock \in [DocIds -> Reqs \cup {NoReq}]
    /\ secLock \in [SecIds -> Reqs \cup {NoReq}]
    /\ req \in [Reqs -> ReqRow]

\* Whatever is deleted, purged, re-inserted or linked concurrently, a section
\* belongs to a document that is there, and so does each end of an edge.
RefIntegrity ==
    /\ \A s \in SecIds : IsRow(s) => sec[s].doc \in DocIds /\ Exists(sec[s].doc)
    /\ \A e \in edges : Exists(e.src) /\ Exists(e.tgt)

\* A path names at most one live document: creating, overwriting, re-inserting
\* and reviving compete for it.
OneLivePerPath ==
    \A d, e \in DocIds :
        doc[d].st = "live" /\ doc[e].st = "live" /\ doc[d].path = doc[e].path => d = e

\* When delete_section commits, what it counted is still true: it takes the
\* document along exactly when no other section is there.  That is what the
\* lock of the parent row is for; it needs the row to be there to be locked,
\* so a whole-row save that re-inserts a deleted document defeats it.
LastMeansLast ==
    \A r \in Reqs : req[r].pc = "commit" =>
        (req[r].last <=> SecsOf(req[r].doc) = {req[r].sec})

\* No step leaves a live document without the sections it had: concurrent
\* delete_section calls remove the document with its last section, and a merge
\* keeps some.
NeverEmptied ==
    [][\A d \in DocIds : ~( /\ doc[d].st = "live" /\ SecsOf(d) # {}
                            /\ doc'[d].st = "live" /\ SecsOf(d)' = {} )]_vars

\* A title is only ever replaced by that of the request taking the step; no
\* handler writes an older one back over a concurrent update_document_title.
TitleNotReverted ==
    [][\A d \in DocIds :
        Exists(d) /\ Exists(d)' /\ doc'[d].title # doc[d].title =>
            \E r \in Reqs : doc'[d].title = r /\ req[r].pc \in {"write", "title"}
                            /\ req'[r].pc # req[r].pc]_vars

\* Every request is answered, though two deletes may wait for each other's
\* row locks.
Served == \A r \in Reqs : (req[r].pc # "idle") ~> (req[r].pc = "done")

-----------------------------------------------------------------------------
(* What the code says of itself and the whole-row saves do not keep.       *)

\* A committed supersedes edge implies an archived target (CreateEdge).
SupersedeArchives ==
    \A e \in edges : e.typ = "supersedes" => doc[e.tgt].st # "live"

=============================================================================
