--------------------------- MODULE DocStoreProofs ---------------------------
(***************************************************************************)
(* What holds of DocStore for every set of requests, paths and headings,   *)
(* every pair of bounds and every starting table.                          *)
(***************************************************************************)
EXTENDS DocStore, TLAPS

\* The parts of the type invariant, so that a step names those it changes.
TablesOK == /\ doc \in [DocIds -> DocRow]
            /\ sec \in [SecIds -> SecRow]
            /\ edges \subseteq EdgeRow
LocksOK == /\ docLock \in [DocIds -> Reqs \cup {NoReq}]
           /\ secLock \in [SecIds -> Reqs \cup {NoReq}]
ReqsOK == req \in [Reqs -> ReqRow]

\* The type invariant is its three parts.
LEMMA TypeParts == TypeOK <=> TablesOK /\ LocksOK /\ ReqsOK
  BY DEF TypeOK, TablesOK, LocksOK, ReqsOK

\* A request in flight carries the ids it works on, and what it read: a row
\* that was there.
HasDoc(q) == q.pc \notin {"idle", "done", "write"} => q.doc \in DocIds
HasSec(q) == q.pc \in {"save", "verify", "clear", "lock", "delSec", "commit"} => q.sec \in SecIds
ReadLive(q) == q.pc = "write" /\ q.doc # 0 => q.drow.st = "live" /\ q.drow.path = q.path
ReadSec(q) == q.pc = "save" => q.srow.st = "row" /\ q.srow.doc = q.doc
LinkEnds(q) == q.pc = "link" => q.tgt \in DocIds /\ q.tgt # q.doc /\ q.typ # "none"
MergeEnds(q) == q.pc \in {"move", "mergeDoc"} => q.tgt \in DocIds /\ q.tgt # q.doc
ReadOK(q) == HasDoc(q) /\ HasSec(q) /\ ReadLive(q) /\ ReadSec(q) /\ LinkEnds(q)
             /\ MergeEnds(q)
ReqOK == \A r \in Reqs : ReadOK(req[r])

\* The empty and the deleted rows, and the empty edit, are rows and edits.
LEMMA NoRowsType == /\ NoDocRow \in DocRow /\ GoneDoc \in DocRow
                    /\ NoSecRow \in SecRow /\ GoneSec \in SecRow
                    /\ NoEdit \in Edits
  <1>1. 0 \in DocRef
    BY DEF DocRef
  <1>2. NoDocRow \in DocRow
    BY DEF NoDocRow, DocRow, Writers
  <1>3. GoneDoc \in DocRow
    BY DEF GoneDoc, NoDocRow, DocRow, Writers
  <1>4. NoSecRow \in SecRow
    BY <1>1 DEF NoSecRow, SecRow, Writers
  <1>5. GoneSec \in SecRow
    BY <1>1 DEF GoneSec, NoSecRow, SecRow, Writers
  <1>6. NoEdit \in Edits
    BY DEF NoEdit, Edits
  <1> QED
    BY <1>2, <1>3, <1>4, <1>5, <1>6

\* A slot before and after its request holds a well-typed record.
LEMMA IdleType == Idle \in ReqRow /\ Done \in ReqRow
  <1>1. <<>> \in Seq(Headings)
    OBVIOUS
  <1>2. Idle \in ReqRow
    BY <1>1, NoRowsType DEF Idle, ReqRow, DocRef, SecRef, ReqKinds, PCs, PinValues
  <1> QED
    BY <1>2 DEF Done, ReqRow, PCs

\* Ending a request, or moving it on, keeps the request table well typed.
LEMMA FinishType ==
  ASSUME NEW r \in Reqs, ReqsOK, Finish(r)
  PROVE  ReqsOK'
  BY IdleType DEF Finish, ReqsOK

\* So does moving it on.
LEMMA GoToType ==
  ASSUME NEW r \in Reqs, ReqsOK, NEW pc \in PCs, GoTo(r, pc)
  PROVE  ReqsOK'
  <1>1. req[r] \in ReqRow
    BY DEF ReqsOK
  <1>2. [req[r] EXCEPT !.pc = pc] \in ReqRow
    BY <1>1 DEF ReqRow
  <1>3. req' = [req EXCEPT ![r] = [req[r] EXCEPT !.pc = pc]]
    BY DEF GoTo
  <1> QED
    BY <1>2, <1>3 DEF ReqsOK

\* A read that leaves a well-typed record keeps the type invariant.
LEMMA BeginType ==
  ASSUME NEW r \in Reqs, TypeOK, NEW q \in ReqRow, Begin(r, q)
  PROVE  TypeOK'
  BY DEF Begin, TypeOK

\* Releasing the locks of a request keeps the lock tables well typed.
LEMMA UnlockedType ==
  ASSUME NEW r \in Reqs, LocksOK
  PROVE  /\ Unlocked(docLock, r) \in [DocIds -> Reqs \cup {NoReq}]
         /\ Unlocked(secLock, r) \in [SecIds -> Reqs \cup {NoReq}]
  BY DEF LocksOK, Unlocked

\* A rollback keeps the type invariant.
LEMMA AbandonType ==
  ASSUME NEW r \in Reqs, TypeOK, Abandon(r)
  PROVE  TypeOK'
  BY FinishType, UnlockedType, TypeParts DEF Abandon, TypeOK, LocksOK, ReqsOK

\* Writing sections keeps the table well typed: every id of f is new, and the
\* heading of its row is one of the incoming ones.
LEMMA WrittenType ==
  ASSUME sec \in [SecIds -> SecRow], NEW r \in Reqs, NEW d \in DocRef,
         NEW inc \in Seq(Headings), NEW I \in SUBSET (DOMAIN inc), NEW f \in Fresh(I),
         NEW drop, NEW upd
  PROVE  Written(d, drop, upd, f, inc, r) \in [SecIds -> SecRow]
  <1> SUFFICES ASSUME NEW s \in SecIds
               PROVE  Written(d, drop, upd, f, inc, r)[s] \in SecRow
    BY DEF Written
  <1>1. CASE \E i \in DOMAIN f : f[i] = s
    <2> DEFINE i == CHOOSE j \in DOMAIN f : f[j] = s
    <2>1. i \in DOMAIN f
      BY <1>1
    <2>2. DOMAIN f = I
      BY DEF Fresh
    <2>3. inc[i] \in Headings
      BY <2>1, <2>2
    <2>4. Written(d, drop, upd, f, inc, r)[s] = NewRow(d, inc[i], r)
      BY <1>1 DEF Written
    <2> QED
      BY <2>3, <2>4 DEF NewRow, SecRow, Writers
  <1>2. CASE ~(\E i \in DOMAIN f : f[i] = s)
    BY <1>2, NoRowsType DEF Written, SecRow, Writers
  <1> QED
    BY <1>1, <1>2

\* Deleting sections keeps the table well typed.
LEMMA PurgedType ==
  ASSUME sec \in [SecIds -> SecRow], NEW S
  PROVE  Purged(S) \in [SecIds -> SecRow]
  BY NoRowsType DEF Purged

\* Flagging sections keeps the table well typed.
LEMMA FlaggedType ==
  ASSUME sec \in [SecIds -> SecRow], NEW S
  PROVE  Flagged(S) \in [SecIds -> SecRow]
  BY DEF Flagged, SecRow

\* Stamping or clearing one section keeps the table well typed.
LEMMA MarkedType ==
  ASSUME sec \in [SecIds -> SecRow], NEW s
  PROVE  /\ [sec EXCEPT ![s].verified = TRUE] \in [SecIds -> SecRow]
         /\ [sec EXCEPT ![s].flagged = FALSE] \in [SecIds -> SecRow]
  <1>1. s \in SecIds => /\ [sec[s] EXCEPT !.verified = TRUE] \in SecRow
                        /\ [sec[s] EXCEPT !.flagged = FALSE] \in SecRow
    BY DEF SecRow
  <1> QED
    BY <1>1

\* What a handler reads by path.
LEMMA ResolveType ==
  ASSUME TypeOK, NEW p
  PROVE  /\ Resolve(p) \in DocRef
         /\ Resolve(p) # 0 => Resolve(p) \in LiveAt(p)
         /\ RowOf(Resolve(p)) \in DocRow
         /\ Preload(Resolve(p)) \in SUBSET Preloads
  <1>1. CASE LiveAt(p) = {}
    BY <1>1, NoRowsType DEF Resolve, RowOf, Preload, TypeOK, SecRow, SecsOf, DocRef, Preloads
  <1>2. CASE LiveAt(p) # {}
    <2>1. Resolve(p) \in LiveAt(p)
      BY <1>2 DEF Resolve
    <2>2. Resolve(p) \in DocIds /\ Resolve(p) # 0
      BY <2>1, InputAssumption DEF LiveAt, DocIds
    <2> QED
      BY <2>1, <2>2 DEF RowOf, Preload, TypeOK, SecRow, SecsOf, DocRef, Preloads
  <1> QED
    BY <1>1, <1>2

\* The records the reads leave behind are well typed.
LEMMA DocRecordType ==
  ASSUME NEW k \in ReqKinds, NEW pc \in PCs, NEW d \in DocRef
  PROVE  [Idle EXCEPT !.kind = k, !.pc = pc, !.doc = d] \in ReqRow
  BY IdleType DEF ReqRow

\* The record of mark_verified and delete_section.
LEMMA SecRecordType ==
  ASSUME NEW k \in ReqKinds, NEW pc \in PCs, NEW d \in DocRef, NEW s \in SecRef
  PROVE  [Idle EXCEPT !.kind = k, !.pc = pc, !.sec = s, !.doc = d] \in ReqRow
  BY IdleType DEF ReqRow

\* The record of update_section.
LEMMA EditRecordType ==
  ASSUME NEW k \in ReqKinds, NEW pc \in PCs, NEW d \in DocRef, NEW s \in SecRef,
         NEW e \in Edits, NEW srow \in SecRow, NEW drow \in DocRow
  PROVE  [Idle EXCEPT !.kind = k, !.pc = pc, !.sec = s, !.edit = e, !.srow = srow,
                      !.doc = d, !.drow = drow] \in ReqRow
  BY IdleType DEF ReqRow

\* The record of link_documents.
LEMMA LinkRecordType ==
  ASSUME NEW k \in ReqKinds, NEW pc \in PCs, NEW d \in DocRef, NEW t \in DocRef,
         NEW typ \in {"none", "supersedes", "depends_on", "continues_from"}
  PROVE  [Idle EXCEPT !.kind = k, !.pc = pc, !.doc = d, !.tgt = t, !.typ = typ] \in ReqRow
  BY IdleType DEF ReqRow

\* The record of a merge.
LEMMA MergeRecordType ==
  ASSUME NEW k \in ReqKinds, NEW pc \in PCs, NEW d \in DocRef, NEW t \in DocRef,
         NEW keep \in SUBSET SecIds
  PROVE  [Idle EXCEPT !.kind = k, !.pc = pc, !.doc = d, !.tgt = t, !.keep = keep] \in ReqRow
  BY IdleType DEF ReqRow

\* The record of put_section.
LEMMA PutRecordType ==
  ASSUME NEW k \in ReqKinds, NEW pc \in PCs, NEW p \in Paths, NEW inc \in Seq(Headings),
         NEW d \in DocRef, NEW drow \in DocRow,
         NEW ex \in SUBSET Preloads
  PROVE  [Idle EXCEPT !.kind = k, !.pc = pc, !.path = p, !.inc = inc,
                      !.doc = d, !.drow = drow, !.ex = ex] \in ReqRow
  BY IdleType DEF ReqRow

\* The record of store_memory.
LEMMA StoreRecordType ==
  ASSUME NEW k \in ReqKinds, NEW pc \in PCs, NEW p \in Paths, NEW inc \in Seq(Headings),
         NEW pin \in PinValues, NEW d \in DocRef, NEW drow \in DocRow,
         NEW ex \in SUBSET Preloads
  PROVE  [Idle EXCEPT !.kind = k, !.pc = pc, !.path = p, !.inc = inc, !.pin = pin,
                      !.doc = d, !.drow = drow, !.ex = ex] \in ReqRow
  BY IdleType DEF ReqRow

\* The kinds and the program counters the steps use are declared ones.
LEMMA Names ==
  /\ {"store", "put", "update", "verify", "title", "delete", "evict", "deleteSection",
      "merge", "link", "archive"} \subseteq ReqKinds
  /\ {"write", "chain", "save", "verify", "clear", "revive", "list", "flag", "title",
      "delSecs", "delDoc", "lock", "delSec", "commit", "move", "mergeDoc", "link",
      "archive"} \subseteq PCs
  BY DEF ReqKinds, PCs

\* Every kind of request starts with a well-typed record.
LEMMA StartType ==
  ASSUME NEW r \in Reqs, TypeOK, Start(r)
  PROVE  TypeOK'
  <1> USE Names
  <1>1. CASE StoreRead(r)
    <2>1. PICK p \in Paths, inc \in Inputs, pin \in Pins :
            Begin(r, [Idle EXCEPT !.kind = "store", !.pc = "write", !.path = p,
                  !.inc = inc, !.pin = pin, !.doc = Resolve(p),
                  !.drow = RowOf(Resolve(p)), !.ex = Preload(Resolve(p))])
      BY <1>1 DEF StoreRead
    <2>2. inc \in Seq(Headings) /\ pin \in PinValues
      BY InputAssumption
    <2>3. [Idle EXCEPT !.kind = "store", !.pc = "write", !.path = p,
                  !.inc = inc, !.pin = pin, !.doc = Resolve(p),
                  !.drow = RowOf(Resolve(p)), !.ex = Preload(Resolve(p))] \in ReqRow
      <3>1. Resolve(p) \in DocRef /\ RowOf(Resolve(p)) \in DocRow
        BY ResolveType
      <3>2. Preload(Resolve(p)) \in SUBSET Preloads
        BY ResolveType
      <3>3. "store" \in ReqKinds /\ "write" \in PCs
        OBVIOUS
      <3> HIDE Names
      <3> QED
        BY <2>2, <3>1, <3>2, <3>3, StoreRecordType, ZenonT(60)
    <2> QED
      BY <2>1, <2>3, BeginType
  <1>2. CASE PutRead(r)
    <2>1. PICK p \in Paths, h \in Headings :
            Begin(r, [Idle EXCEPT !.kind = "put", !.pc = "write", !.path = p,
                  !.inc = <<h>>, !.doc = Resolve(p), !.drow = RowOf(Resolve(p)),
                  !.ex = Preload(Resolve(p))])
      BY <1>2 DEF PutRead
    <2>2. <<h>> \in Seq(Headings)
      OBVIOUS
    <2>3. [Idle EXCEPT !.kind = "put", !.pc = "write", !.path = p,
                  !.inc = <<h>>, !.doc = Resolve(p), !.drow = RowOf(Resolve(p)),
                  !.ex = Preload(Resolve(p))] \in ReqRow
      <3>1. Resolve(p) \in DocRef /\ RowOf(Resolve(p)) \in DocRow
        BY ResolveType
      <3>2. Preload(Resolve(p)) \in SUBSET Preloads
        BY ResolveType
      <3>3. "put" \in ReqKinds /\ "write" \in PCs
        OBVIOUS
      <3> HIDE Names
      <3> QED
        BY <2>2, <3>1, <3>2, <3>3, PutRecordType
    <2> QED
      BY <2>1, <2>3, BeginType
  <1>3. CASE UpdateRead(r)
    <2>1. PICK s \in SecIds, e \in SecEdits :
            Begin(r, [Idle EXCEPT !.kind = "update", !.pc = "save", !.sec = s,
                     !.edit = e, !.srow = sec[s], !.doc = sec[s].doc,
                     !.drow = RowOf(sec[s].doc)])
      BY <1>3 DEF UpdateRead
    <2>2. s \in SecRef /\ e \in Edits /\ sec[s] \in SecRow
      BY InputAssumption DEF TypeOK, SecRef
    <2>3. sec[s].doc \in DocRef
      BY <2>2 DEF SecRow
    <2>4. RowOf(sec[s].doc) \in DocRow
      BY <2>3, NoRowsType DEF RowOf, TypeOK, DocRef
    <2>5. [Idle EXCEPT !.kind = "update", !.pc = "save", !.sec = s,
                     !.edit = e, !.srow = sec[s], !.doc = sec[s].doc,
                     !.drow = RowOf(sec[s].doc)] \in ReqRow
      BY <2>2, <2>3, <2>4, EditRecordType
    <2> QED
      BY <2>1, <2>5, BeginType
  <1>4. CASE VerifyRead(r)
    <2>1. PICK s \in SecIds :
            Begin(r, [Idle EXCEPT !.kind = "verify", !.pc = "verify", !.sec = s,
                     !.doc = sec[s].doc])
      BY <1>4 DEF VerifyRead
    <2>2. s \in SecRef /\ sec[s].doc \in DocRef
      BY DEF TypeOK, SecRef, SecRow
    <2>3. [Idle EXCEPT !.kind = "verify", !.pc = "verify", !.sec = s,
                     !.doc = sec[s].doc] \in ReqRow
      BY <2>2, SecRecordType
    <2> QED
      BY <2>1, <2>3, BeginType
  <1>5. CASE DeleteSectionRead(r)
    <2>1. PICK s \in SecIds :
            Begin(r, [Idle EXCEPT !.kind = "deleteSection", !.pc = "lock",
                     !.sec = s, !.doc = sec[s].doc])
      BY <1>5 DEF DeleteSectionRead
    <2>2. s \in SecRef /\ sec[s].doc \in DocRef
      BY DEF TypeOK, SecRef, SecRow
    <2>3. [Idle EXCEPT !.kind = "deleteSection", !.pc = "lock", !.sec = s,
                     !.doc = sec[s].doc] \in ReqRow
      BY <2>2, SecRecordType
    <2> QED
      BY <2>1, <2>3, BeginType
  <1>6. CASE TitleRead(r) \/ DeleteRead(r) \/ EvictRead(r) \/ ArchiveRead(r)
    <2>1. PICK k \in ReqKinds, pc \in PCs, d \in DocIds :
            Begin(r, [Idle EXCEPT !.kind = k, !.pc = pc, !.doc = d])
      BY <1>6 DEF TitleRead, DeleteRead, EvictRead, ArchiveRead
    <2>2. [Idle EXCEPT !.kind = k, !.pc = pc, !.doc = d] \in ReqRow
      BY DocRecordType DEF DocRef
    <2> QED
      BY <2>1, <2>2, BeginType
  <1>7. CASE LinkRead(r)
    <2>1. PICK a, b \in DocIds, t \in EdgeTypes :
            Begin(r, [Idle EXCEPT !.kind = "link", !.pc = "link", !.doc = a,
                     !.tgt = b, !.typ = t])
      BY <1>7 DEF LinkRead
    <2>2. [Idle EXCEPT !.kind = "link", !.pc = "link", !.doc = a,
                     !.tgt = b, !.typ = t] \in ReqRow
      BY LinkRecordType, InputAssumption DEF DocRef
    <2> QED
      BY <2>1, <2>2, BeginType
  <1>8. CASE FlagChanged(r)
    BY <1>8, FinishType, FlaggedType, TypeParts DEF FlagChanged, TypeOK, ReqsOK
  <1>9. CASE Unlink(r)
    BY <1>9, FinishType, TypeParts DEF Unlink, TypeOK, ReqsOK
  <1>10. CASE MergeRead(r)
    <2>1. PICK w \in DocIds, l \in DocIds, keep \in SUBSET SecIds :
            Begin(r, [Idle EXCEPT !.kind = "merge", !.pc = "move", !.doc = l,
                     !.tgt = w, !.keep = keep])
      BY <1>10 DEF MergeRead, SecsOf
    <2>2. [Idle EXCEPT !.kind = "merge", !.pc = "move", !.doc = l,
                     !.tgt = w, !.keep = keep] \in ReqRow
      BY MergeRecordType DEF DocRef
    <2> QED
      BY <2>1, <2>2, BeginType
  <1> QED
    BY <1>1, <1>2, <1>3, <1>4, <1>5, <1>6, <1>7, <1>8, <1>9, <1>10 DEF Start

\* New ids are section ids.
LEMMA FreshType ==
  ASSUME NEW I, NEW f \in Fresh(I)
  PROVE  f \in [I -> SecIds]
  BY DEF Fresh, UnusedSecs

\* Inserting and updating sections, the shape create, store and put share.
LEMMA WriteType ==
  ASSUME NEW r \in Reqs, TypeOK, NEW I \in SUBSET (DOMAIN req[r].inc), NEW f \in Fresh(I),
         NEW d \in DocRef, NEW drop, NEW upd
  PROVE  Written(d, drop, upd, f, req[r].inc, r) \in [SecIds -> SecRow]
  <1>1. req[r].inc \in Seq(Headings)
    BY DEF TypeOK, ReqRow
  <1> QED
    BY <1>1, WrittenType DEF TypeOK

\* Creating a document keeps the type invariant.
LEMMA CreateDocType ==
  ASSUME NEW r \in Reqs, TypeOK, CreateDoc(r)
  PROVE  TypeOK'
  <1>1. PICK d \in UnusedDocs, f \in Fresh(DOMAIN req[r].inc) :
        /\ doc' = [doc EXCEPT ![d] = [st |-> "live", path |-> req[r].path,
                                      pinned |-> (req[r].pin = "true"), title |-> r]]
        /\ sec' = Written(d, {}, {}, f, req[r].inc, r)
        /\ req' = [req EXCEPT ![r] = IF req[r].path \in ChainPaths
                                     THEN [Idle EXCEPT !.kind = "store", !.pc = "chain", !.doc = d]
                                     ELSE Done]
    BY DEF CreateDoc
  <1>2. d \in DocRef /\ d \in DocIds
    BY DEF UnusedDocs, DocRef
  <1>3. doc' \in [DocIds -> DocRow]
    <2>1. req[r].path \in Paths \cup {NoPath}
      BY DEF TypeOK, ReqRow
    <2>2. [st |-> "live", path |-> req[r].path, pinned |-> (req[r].pin = "true"), title |-> r]
            \in DocRow
      BY <2>1 DEF DocRow, Writers, Present
    <2> QED
      BY <1>1, <2>2 DEF TypeOK
  <1>4. sec' \in [SecIds -> SecRow]
    BY <1>1, <1>2, WriteType
  <1>5. [Idle EXCEPT !.kind = "store", !.pc = "chain", !.doc = d] \in ReqRow
    BY <1>2, Names, DocRecordType
  <1>6. req' \in [Reqs -> ReqRow]
    BY <1>1, <1>5, IdleType DEF TypeOK
  <1> QED
    BY <1>3, <1>4, <1>6 DEF CreateDoc, TypeOK

\* What a store inserts is part of what comes in.
LEMMA InsertedType == ASSUME NEW q PROVE Inserted(q) \in SUBSET (DOMAIN q.inc)
  BY DEF Inserted

\* The full-row save of store_memory keeps the type invariant.
LEMMA OverwriteType ==
  ASSUME NEW r \in Reqs, TypeOK, StoreOverwrite(r)
  PROVE  TypeOK'
  <1> DEFINE q == req[r]
  <1>1. PICK f \in Fresh(Inserted(q)) :
          sec' = Written(q.doc, Dropped(q), Updated(q), f, q.inc, r)
    BY DEF StoreOverwrite
  <1>2. q \in ReqRow
    BY DEF TypeOK
  <1>3. q.doc \in DocRef /\ q.drow \in DocRow
    BY <1>2 DEF ReqRow
  <1>4. sec' \in [SecIds -> SecRow]
    BY <1>1, <1>3, InsertedType, WriteType
  <1>5. Overwritten(q, r) \in DocRow
    BY <1>3 DEF Overwritten, DocRow, Writers
  <1>6. doc' = [doc EXCEPT ![q.doc] = Overwritten(q, r)]
    BY DEF StoreOverwrite
  <1>7. doc' \in [DocIds -> DocRow]
    BY <1>5, <1>6 DEF TypeOK
  <1>8. Finish(r)
    BY DEF StoreOverwrite
  <1> QED
    BY <1>4, <1>7, <1>8, FinishType DEF StoreOverwrite, TypeOK, ReqsOK

\* The merge of put_section keeps the type invariant.
LEMMA PutMergeType ==
  ASSUME NEW r \in Reqs, TypeOK, PutMerge(r)
  PROVE  TypeOK'
  <1> DEFINE q == req[r]
  <1>1. PICK f \in Fresh(Inserted(q)) : sec' = Written(q.doc, {}, Updated(q), f, q.inc, r)
    BY DEF PutMerge
  <1>2. q.doc \in DocRef
    BY DEF TypeOK, ReqRow
  <1>3. sec' \in [SecIds -> SecRow]
    BY <1>1, <1>2, InsertedType, WriteType
  <1>4. Finish(r)
    BY DEF PutMerge
  <1> QED
    BY <1>3, <1>4, FinishType DEF PutMerge, TypeOK, ReqsOK

\* The automatic edge keeps the type invariant.
LEMMA ChainType ==
  ASSUME NEW r \in Reqs, TypeOK, ReqOK, Chain(r)
  PROVE  TypeOK'
  <1> DEFINE d == req[r].doc
  <1>1. Finish(r)
    BY DEF Chain
  <1>2. d \in DocIds
    BY DEF ReqOK, ReadOK, HasDoc, Chain, At
  <1>3. edges' \subseteq EdgeRow
    BY <1>2 DEF Chain, Priors, TypeOK, EdgeRow
  <1> QED
    BY <1>1, <1>3, FinishType DEF Chain, TypeOK, ReqsOK

\* The save of update_section keeps the type invariant, re-inserted rows included.
LEMMA UpdateSaveType ==
  ASSUME NEW r \in Reqs, TypeOK, UpdateSave(r)
  PROVE  TypeOK'
  <1> DEFINE q == req[r]
  <1>1. q \in ReqRow
    BY DEF TypeOK
  <1>2. q.srow \in SecRow /\ q.drow \in DocRow /\ q.edit \in Edits
    BY <1>1 DEF ReqRow
  <1>3. Edited(q, r) \in SecRow
    BY <1>2 DEF Edited, SecRow, Edits, Writers
  <1>4. sec' \in [SecIds -> SecRow]
    BY <1>3 DEF UpdateSave, TypeOK
  <1>5. doc' \in [DocIds -> DocRow]
    BY <1>2 DEF UpdateSave, Reinserted, TypeOK
  <1>6. ReqsOK'
    <2>1. Finish(r) \/ GoTo(r, "verify") \/ GoTo(r, "list")
      BY DEF UpdateSave, AfterSave
    <2> QED
      BY <2>1, FinishType, GoToType, Names, TypeParts
  <1> QED
    BY <1>4, <1>5, <1>6 DEF UpdateSave, TypeOK, ReqsOK

\* Deleting a document keeps the type invariant.
LEMMA PurgeDocType ==
  ASSUME NEW r \in Reqs, TypeOK, NEW d, NEW S, PurgeDoc(r, d, S)
  PROVE  TypeOK'
  <1>1. doc' \in [DocIds -> DocRow]
    BY NoRowsType DEF PurgeDoc, TypeOK
  <1>2. sec' \in [SecIds -> SecRow]
    BY PurgedType DEF PurgeDoc, TypeOK
  <1>3. LocksOK'
    BY UnlockedType, TypeParts DEF PurgeDoc, LocksOK
  <1>4. ReqsOK'
    BY FinishType, TypeParts DEF PurgeDoc
  <1> QED
    BY <1>1, <1>2, <1>3, <1>4 DEF PurgeDoc, TypeOK, LocksOK, ReqsOK

\* Committing a merge keeps the type invariant.
LEMMA MergeCommitType ==
  ASSUME NEW r \in Reqs, TypeOK, ReqOK, MergeCommit(r)
  PROVE  TypeOK'
  <1> DEFINE q == req[r]
  <1>1. q.tgt \in DocRef
    BY DEF TypeOK, ReqRow
  <1>2. doc' \in [DocIds -> DocRow]
    BY NoRowsType DEF MergeCommit, TypeOK
  <1>3. sec' \in [SecIds -> SecRow]
    <2>1. ASSUME NEW s \in SecIds
          PROVE  [sec[s] EXCEPT !.doc = q.tgt] \in SecRow /\ sec[s] \in SecRow
      BY <1>1 DEF TypeOK, SecRow
    <2> HIDE DEF q
    <2>2. Reassigned(q, r) \in [SecIds -> SecRow]
      BY <2>1, NoRowsType DEF Reassigned
    <2> QED
      BY <2>2 DEF MergeCommit, q
  <1>4. LocksOK'
    BY UnlockedType, TypeParts DEF MergeCommit, LocksOK
  <1>5. ReqsOK'
    BY FinishType, TypeParts DEF MergeCommit
  <1> QED
    BY <1>2, <1>3, <1>4, <1>5 DEF MergeCommit, TypeOK, LocksOK, ReqsOK

\* The rejections and rollbacks only end the request.
Rejected(r) ==
    \/ CreateConflict(r) \/ StoreRejected(r) \/ PutRejected(r) \/ UpdateRejected(r)
    \/ VerifyRejected(r) \/ DeleteRejected(r) \/ DeleteSecRejected(r) \/ LinkRejected(r)
    \/ MergeRejected(r) \/ DeadlockAbort(r) \/ Fail(r)

\* A rejected request only rolls back.
LEMMA RejectedAbandons == ASSUME NEW r, Rejected(r) PROVE Abandon(r)
  BY DEF Rejected, CreateConflict, StoreRejected, PutRejected, UpdateRejected,
     VerifyRejected, DeleteRejected, DeleteSecRejected, LinkRejected, MergeRejected,
     DeadlockAbort, Fail

\* Every step of a handler keeps the type invariant.
LEMMA StepType ==
  ASSUME NEW r \in Reqs, TypeOK, ReqOK, Step(r) \/ Fail(r)
  PROVE  TypeOK'
  <1>1. CASE Rejected(r)
    BY <1>1, RejectedAbandons, AbandonType
  <1>2. CASE StampVerified(r)
    <2>1. GoTo(r, "clear")
      BY <1>2 DEF StampVerified
    <2>2. ReqsOK'
      BY <2>1, GoToType, Names, TypeParts
    <2>3. sec' \in [SecIds -> SecRow]
      BY <1>2, MarkedType DEF StampVerified, TypeOK
    <2> QED
      <3>1. UNCHANGED <<doc, edges, docLock, secLock>>
        BY <1>2 DEF StampVerified
      <3> QED
        BY <2>2, <2>3, <3>1 DEF TypeOK, ReqsOK
  <1>3. CASE ClearFlag(r)
    <2>1. GoTo(r, "revive")
      BY <1>3 DEF ClearFlag
    <2>2. ReqsOK'
      BY <2>1, GoToType, Names, TypeParts
    <2>3. sec' \in [SecIds -> SecRow]
      BY <1>3, MarkedType DEF ClearFlag, TypeOK
    <2> QED
      <3>1. UNCHANGED <<doc, edges, docLock, secLock>>
        BY <1>3 DEF ClearFlag
      <3> QED
        BY <2>2, <2>3, <3>1 DEF TypeOK, ReqsOK
  <1>4. CASE Revive(r)
    <2>1. GoTo(r, "list") \/ Finish(r)
      BY <1>4 DEF Revive
    <2>2. ReqsOK'
      BY <2>1, GoToType, FinishType, Names, TypeParts
    <2> DEFINE d == req[r].doc
    <2>3. doc' \in [DocIds -> DocRow]
      <3>1. d \in DocIds
        BY <1>4 DEF ReqOK, ReadOK, HasDoc, Revive, At
      <3>2. [doc[d] EXCEPT !.st = "live"] \in DocRow
        BY <3>1 DEF TypeOK, DocRow, Present
      <3> QED
        BY <1>4, <3>2 DEF Revive, TypeOK
    <2> QED
      <3>1. UNCHANGED <<sec, edges, docLock, secLock>>
        BY <1>4 DEF Revive
      <3> QED
        BY <2>2, <2>3, <3>1 DEF TypeOK, ReqsOK
  <1>5. CASE ListDependents(r)
    <2> DEFINE D == {e.src : e \in {x \in edges : x.typ = "depends_on" /\ x.tgt = req[r].doc}}
    <2>1. D \in SUBSET DocIds
      BY DEF TypeOK, EdgeRow
    <2>2. [req[r] EXCEPT !.pc = "flag", !.deps = D] \in ReqRow
      <3>1. req[r] \in ReqRow /\ "flag" \in PCs
        BY Names DEF TypeOK
      <3> HIDE DEF D
      <3> QED
        BY <2>1, <3>1 DEF ReqRow
    <2>3. req' = [req EXCEPT ![r] = [req[r] EXCEPT !.pc = "flag", !.deps = D]]
      BY <1>5 DEF ListDependents
    <2> QED
      BY <1>5, <2>2, <2>3 DEF ListDependents, TypeOK
  <1>6. CASE FlagDependents(r)
    BY <1>6, FinishType, FlaggedType DEF FlagDependents, TypeOK, ReqsOK
  <1>7. CASE TitleWrite(r)
    <2>1. doc' \in [DocIds -> DocRow]
      <3>1. req[r].doc \in DocIds
        BY <1>7 DEF ReqOK, ReadOK, HasDoc, TitleWrite, At
      <3>2. [doc[req[r].doc] EXCEPT !.title = r] \in DocRow
        BY <3>1 DEF TypeOK, DocRow, Writers
      <3> QED
        BY <1>7, <3>2 DEF TitleWrite, TypeOK
    <2> QED
      BY <1>7, <2>1, FinishType DEF TitleWrite, TypeOK, ReqsOK
  <1>8. CASE DeleteDocSections(r)
    <2>1. GoTo(r, "delDoc")
      BY <1>8 DEF DeleteDocSections
    <2>2. ReqsOK'
      BY <2>1, GoToType, Names, TypeParts
    <2>3. secLock' \in [SecIds -> Reqs \cup {NoReq}]
      BY <1>8 DEF DeleteDocSections, TypeOK
    <2> QED
      <3>1. UNCHANGED <<doc, sec, edges, docLock>>
        BY <1>8 DEF DeleteDocSections
      <3> QED
        BY <2>2, <2>3, <3>1 DEF TypeOK, ReqsOK
  <1>9. CASE DeleteDocRow(r)
    BY <1>9, PurgeDocType DEF DeleteDocRow
  <1>10. CASE LockParent(r)
    <2>1. GoTo(r, "delSec")
      BY <1>10 DEF LockParent
    <2>2. ReqsOK'
      BY <2>1, GoToType, Names, TypeParts
    <2>3. docLock' \in [DocIds -> Reqs \cup {NoReq}]
      BY <1>10 DEF LockParent, TypeOK
    <2> QED
      <3>1. UNCHANGED <<doc, sec, edges, secLock>>
        BY <1>10 DEF LockParent
      <3> QED
        BY <2>2, <2>3, <3>1 DEF TypeOK, ReqsOK
  <1>11. CASE DeleteSecRow(r)
    <2> DEFINE L == (SecsOf(req[r].doc) \ {req[r].sec} = {})
    <2>1. [req[r] EXCEPT !.pc = "commit", !.last = L] \in ReqRow
      <3>1. req[r] \in ReqRow /\ "commit" \in PCs /\ L \in BOOLEAN
        BY Names DEF TypeOK
      <3> HIDE DEF L
      <3> QED
        BY <3>1 DEF ReqRow
    <2>2. req' = [req EXCEPT ![r] = [req[r] EXCEPT !.pc = "commit", !.last = L]]
      BY <1>11 DEF DeleteSecRow
    <2>3. secLock' \in [SecIds -> Reqs \cup {NoReq}]
      BY <1>11 DEF DeleteSecRow, TypeOK
    <2>4. UNCHANGED <<doc, sec, edges, docLock>>
      BY <1>11 DEF DeleteSecRow
    <2> HIDE DEF L
    <2>5. req' \in [Reqs -> ReqRow]
      BY <2>1, <2>2 DEF TypeOK
    <2> QED
      BY <2>3, <2>4, <2>5 DEF TypeOK
  <1>12. CASE DeleteSecCommit(r)
    <2>1. CASE req[r].last
      BY <1>12, <2>1, PurgeDocType DEF DeleteSecCommit
    <2>2. CASE ~req[r].last
      BY <1>12, <2>2, PurgedType, UnlockedType, FinishType, TypeParts
         DEF DeleteSecCommit, TypeOK, LocksOK, ReqsOK
    <2> QED
      BY <2>1, <2>2
  <1>13. CASE Link(r) \/ Supersede(r)
    <2> DEFINE q == req[r]
    <2>1. Finish(r) /\ edges' = edges \cup {EdgeOf(q)}
      BY <1>13 DEF Link, Supersede
    <2>2. edges' \subseteq EdgeRow
      <3>1. q.pc = "link" /\ q \in ReqRow /\ ReadOK(q)
        BY <1>13 DEF Link, Supersede, At, ReqOK, TypeOK
      <3>2. EdgeOf(q) \in EdgeRow
        BY <3>1 DEF EdgeOf, EdgeRow, ReadOK, HasDoc, LinkEnds, ReqRow
      <3> QED
        BY <2>1, <3>2 DEF TypeOK
    <2>3. doc' \in [DocIds -> DocRow]
      BY <1>13 DEF Link, Supersede, TypeOK, DocRow, Present
    <2>4. sec' \in [SecIds -> SecRow]
      BY <1>13, PurgedType DEF Link, Supersede, TypeOK
    <2>5. UNCHANGED <<docLock, secLock>>
      BY <1>13 DEF Link, Supersede
    <2> QED
      BY <2>1, <2>2, <2>3, <2>4, <2>5, FinishType DEF TypeOK, ReqsOK
  <1>14. CASE ArchiveOne(r)
    <2> DEFINE d == req[r].doc
    <2>1. doc' \in [DocIds -> DocRow]
      <3>1. d \in DocIds
        BY <1>14 DEF ReqOK, ReadOK, HasDoc, ArchiveOne, At
      <3>2. [doc[d] EXCEPT !.st = "stale"] \in DocRow
        BY <3>1 DEF TypeOK, DocRow, Present
      <3> QED
        BY <1>14, <3>2 DEF ArchiveOne, TypeOK
    <2> QED
      BY <1>14, <2>1, FinishType DEF ArchiveOne, TypeOK, ReqsOK
  <1>15. CASE MergeMove(r)
    <2>1. GoTo(r, "mergeDoc")
      BY <1>15 DEF MergeMove
    <2>2. ReqsOK'
      BY <2>1, GoToType, Names, TypeParts
    <2>3. /\ secLock' \in [SecIds -> Reqs \cup {NoReq}]
          /\ docLock' \in [DocIds -> Reqs \cup {NoReq}]
      BY <1>15 DEF MergeMove, TypeOK
    <2> QED
      <3>1. UNCHANGED <<doc, sec, edges>>
        BY <1>15 DEF MergeMove
      <3> QED
        BY <2>2, <2>3, <3>1 DEF TypeOK, ReqsOK
  <1> QED
    BY <1>1, <1>2, <1>3, <1>4, <1>5, <1>6, <1>7, <1>8, <1>9, <1>10, <1>11, <1>12, <1>13,
       <1>14, <1>15, MergeCommitType, CreateDocType, OverwriteType, PutMergeType, ChainType, UpdateSaveType
       DEF Step, Rejected

-----------------------------------------------------------------------------
(* What a request in flight carries stays as its read left it.             *)

\* Replacing one record by one in order keeps them all in order.
LEMMA ReqStep ==
  ASSUME TypeOK, ReqOK, NEW r \in Reqs, NEW q, ReadOK(q), req' = [req EXCEPT ![r] = q]
  PROVE  ReqOK'
  BY DEF ReqOK, TypeOK

\* A finished request is in order.
LEMMA FinishOK ==
  ASSUME TypeOK, ReqOK, NEW r \in Reqs, Finish(r)
  PROVE  ReqOK'
  <1>1. ReadOK(Done)
    BY DEF ReadOK, HasDoc, HasSec, ReadLive, ReadSec, LinkEnds, MergeEnds, Done, Idle
  <1> QED
    BY <1>1, ReqStep DEF Finish

\* A request moved on is in order when it has the ids its next step needs.
LEMMA GoToOK ==
  ASSUME TypeOK, ReqOK, NEW r \in Reqs, NEW pc \in PCs \ {"write", "save", "link", "move"},
         pc = "mergeDoc" => req[r].pc = "move",
         req[r].doc \in DocIds,
         pc \in {"verify", "clear", "lock", "delSec", "commit"} => req[r].sec \in SecIds,
         GoTo(r, pc)
  PROVE  ReqOK'
  <1> DEFINE q == [req[r] EXCEPT !.pc = pc]
  <1>1. /\ q.pc = pc /\ q.doc = req[r].doc /\ q.sec = req[r].sec
        /\ q.tgt = req[r].tgt
    BY DEF TypeOK, ReqRow
  <1>2. ReadOK(q)
    <2>1. ReadOK(req[r])
      BY DEF ReqOK
    <2> HIDE DEF q
    <2> QED
      BY <1>1, <2>1 DEF ReadOK, HasDoc, HasSec, ReadLive, ReadSec, LinkEnds, MergeEnds
  <1>3. req' = [req EXCEPT ![r] = q]
    BY DEF GoTo
  <1> QED
    BY <1>2, <1>3, ReqStep

\* Every read leaves a record that is in order.
LEMMA StartOK ==
  ASSUME NEW r \in Reqs, TypeOK, ReqOK, RefIntegrity, Start(r)
  PROVE  ReqOK'
  <1> USE DEF ReadOK, HasDoc, HasSec, ReadLive, ReadSec, LinkEnds, MergeEnds
  <1>1. CASE StoreRead(r)
    <2>1. PICK p \in Paths, inc \in Inputs, pin \in Pins :
            Begin(r, [Idle EXCEPT !.kind = "store", !.pc = "write", !.path = p,
                  !.inc = inc, !.pin = pin, !.doc = Resolve(p),
                  !.drow = RowOf(Resolve(p)), !.ex = Preload(Resolve(p))])
      BY <1>1 DEF StoreRead
    <2> DEFINE q == [Idle EXCEPT !.kind = "store", !.pc = "write", !.path = p,
                  !.inc = inc, !.pin = pin, !.doc = Resolve(p),
                  !.drow = RowOf(Resolve(p)), !.ex = Preload(Resolve(p))]
    <2>2. ReadOK(q)
      BY ResolveType DEF Idle, RowOf, LiveAt
    <2>3. req' = [req EXCEPT ![r] = q]
      BY <2>1 DEF Begin
    <2> QED
      BY <2>2, <2>3, ReqStep
  <1>2. CASE PutRead(r)
    <2>1. PICK p \in Paths, h \in Headings :
            Begin(r, [Idle EXCEPT !.kind = "put", !.pc = "write", !.path = p,
                  !.inc = <<h>>, !.doc = Resolve(p), !.drow = RowOf(Resolve(p)),
                  !.ex = Preload(Resolve(p))])
      BY <1>2 DEF PutRead
    <2> DEFINE q == [Idle EXCEPT !.kind = "put", !.pc = "write", !.path = p,
                  !.inc = <<h>>, !.doc = Resolve(p), !.drow = RowOf(Resolve(p)),
                  !.ex = Preload(Resolve(p))]
    <2>2. ReadOK(q)
      BY ResolveType DEF Idle, RowOf, LiveAt
    <2>3. req' = [req EXCEPT ![r] = q]
      BY <2>1 DEF Begin
    <2> QED
      BY <2>2, <2>3, ReqStep
  <1>3. CASE UpdateRead(r)
    <2>1. PICK s \in SecIds, e \in SecEdits :
            /\ IsRow(s)
            /\ Begin(r, [Idle EXCEPT !.kind = "update", !.pc = "save", !.sec = s,
                     !.edit = e, !.srow = sec[s], !.doc = sec[s].doc,
                     !.drow = RowOf(sec[s].doc)])
      BY <1>3 DEF UpdateRead
    <2> DEFINE q == [Idle EXCEPT !.kind = "update", !.pc = "save", !.sec = s,
                     !.edit = e, !.srow = sec[s], !.doc = sec[s].doc,
                     !.drow = RowOf(sec[s].doc)]
    <2>2. ReadOK(q)
      BY <2>1 DEF Idle, IsRow, RefIntegrity
    <2>3. req' = [req EXCEPT ![r] = q]
      BY <2>1 DEF Begin
    <2> QED
      BY <2>2, <2>3, ReqStep
  <1>4. CASE VerifyRead(r) \/ DeleteSectionRead(r)
    <2>1. PICK s \in SecIds, k \in {"verify", "deleteSection"}, pc \in {"verify", "lock"} :
            /\ IsRow(s)
            /\ Begin(r, [Idle EXCEPT !.kind = k, !.pc = pc, !.sec = s, !.doc = sec[s].doc])
      BY <1>4 DEF VerifyRead, DeleteSectionRead
    <2> DEFINE q == [Idle EXCEPT !.kind = k, !.pc = pc, !.sec = s, !.doc = sec[s].doc]
    <2>2. ReadOK(q)
      BY <2>1 DEF Idle, IsRow, RefIntegrity
    <2>3. req' = [req EXCEPT ![r] = q]
      BY <2>1 DEF Begin
    <2> QED
      BY <2>2, <2>3, ReqStep
  <1>5. CASE TitleRead(r) \/ DeleteRead(r) \/ EvictRead(r) \/ ArchiveRead(r)
    <2>1. PICK k \in {"title", "delete", "evict", "archive"},
               pc \in {"title", "delSecs", "archive"}, d \in DocIds :
            Begin(r, [Idle EXCEPT !.kind = k, !.pc = pc, !.doc = d])
      BY <1>5 DEF TitleRead, DeleteRead, EvictRead, ArchiveRead
    <2> DEFINE q == [Idle EXCEPT !.kind = k, !.pc = pc, !.doc = d]
    <2>2. ReadOK(q)
      BY DEF Idle
    <2>3. req' = [req EXCEPT ![r] = q]
      BY <2>1 DEF Begin
    <2> QED
      BY <2>2, <2>3, ReqStep
  <1>6. CASE LinkRead(r)
    <2>1. PICK a, b \in DocIds, t \in EdgeTypes :
            /\ a # b
            /\ Begin(r, [Idle EXCEPT !.kind = "link", !.pc = "link", !.doc = a,
                     !.tgt = b, !.typ = t])
      BY <1>6 DEF LinkRead
    <2> DEFINE q == [Idle EXCEPT !.kind = "link", !.pc = "link", !.doc = a, !.tgt = b, !.typ = t]
    <2>2. ReadOK(q)
      BY <2>1, InputAssumption DEF Idle
    <2>3. req' = [req EXCEPT ![r] = q]
      BY <2>1 DEF Begin
    <2> QED
      BY <2>2, <2>3, ReqStep
  <1>7. CASE FlagChanged(r) \/ Unlink(r)
    BY <1>7, FinishOK DEF FlagChanged, Unlink
  <1>8. CASE MergeRead(r)
    <2>1. PICK w \in DocIds, l \in DocIds, keep \in SUBSET SecIds :
            /\ w # l
            /\ Begin(r, [Idle EXCEPT !.kind = "merge", !.pc = "move", !.doc = l,
                     !.tgt = w, !.keep = keep])
      BY <1>8 DEF MergeRead, SecsOf
    <2> DEFINE q == [Idle EXCEPT !.kind = "merge", !.pc = "move", !.doc = l,
                     !.tgt = w, !.keep = keep]
    <2>2. ReadOK(q)
      BY <2>1 DEF Idle
    <2>3. req' = [req EXCEPT ![r] = q]
      BY <2>1 DEF Begin
    <2> QED
      BY <2>2, <2>3, ReqStep
  <1> QED
    BY <1>1, <1>2, <1>3, <1>4, <1>5, <1>6, <1>7, <1>8 DEF Start

\* Every other step moves a request on to where it has what it needs.
LEMMA StepOK ==
  ASSUME NEW r \in Reqs, TypeOK, ReqOK, Step(r) \/ Fail(r)
  PROVE  ReqOK'
  <1>1. ReadOK(req[r])
    BY DEF ReqOK
  <1>2. CASE Finish(r)
    BY <1>2, FinishOK
  <1>3. CASE CreateDoc(r) /\ ~Finish(r)
    <2>1. PICK d \in UnusedDocs :
            req' = [req EXCEPT ![r] = [Idle EXCEPT !.kind = "store", !.pc = "chain", !.doc = d]]
      BY <1>3 DEF CreateDoc, Finish
    <2> DEFINE q == [Idle EXCEPT !.kind = "store", !.pc = "chain", !.doc = d]
    <2>2. ReadOK(q)
      BY DEF Idle, UnusedDocs, ReadOK, HasDoc, HasSec, ReadLive, ReadSec, LinkEnds, MergeEnds
    <2> QED
      BY <2>1, <2>2, ReqStep
  <1>4. CASE UpdateSave(r) /\ ~Finish(r)
    <2>1. GoTo(r, "verify") \/ GoTo(r, "list")
      BY <1>4 DEF UpdateSave, AfterSave
    <2>2. req[r].doc \in DocIds /\ req[r].sec \in SecIds
      BY <1>1, <1>4 DEF UpdateSave, At, ReadOK, HasDoc, HasSec
    <2> QED
      BY <2>1, <2>2, GoToOK, Names
  <1>5. CASE StampVerified(r) \/ ClearFlag(r) \/ (Revive(r) /\ ~Finish(r))
    <2>1. \/ GoTo(r, "clear") /\ req[r].pc = "verify"
          \/ GoTo(r, "revive")  /\ req[r].pc = "clear"
          \/ GoTo(r, "list") /\ req[r].pc = "revive"
      BY <1>5 DEF StampVerified, ClearFlag, Revive, At
    <2>2. req[r].doc \in DocIds /\ (req[r].pc = "verify" => req[r].sec \in SecIds)
      BY <1>1, <2>1 DEF ReadOK, HasDoc, HasSec
    <2> QED
      BY <2>1, <2>2, GoToOK, Names
  <1>6. CASE ListDependents(r)
    <2> DEFINE D == {e.src : e \in {x \in edges : x.typ = "depends_on" /\ x.tgt = req[r].doc}}
               q == [req[r] EXCEPT !.pc = "flag", !.deps = D]
    <2>1. req' = [req EXCEPT ![r] = q]
      BY <1>6 DEF ListDependents
    <2>2. req[r].pc = "list"
      BY <1>6 DEF ListDependents, At
    <2>3. q.pc = "flag" /\ q.doc = req[r].doc
      BY DEF TypeOK, ReqRow
    <2> HIDE DEF q
    <2>4. ReadOK(q)
      BY <1>1, <2>2, <2>3 DEF ReadOK, HasDoc, HasSec, ReadLive, ReadSec, LinkEnds, MergeEnds
    <2> QED
      BY <2>1, <2>4, ReqStep
  <1>7. CASE DeleteDocSections(r) \/ LockParent(r)
    <2>1. \/ GoTo(r, "delDoc") /\ req[r].pc = "delSecs"
          \/ GoTo(r, "delSec")  /\ req[r].pc = "lock"
      BY <1>7 DEF DeleteDocSections, LockParent, At
    <2>2. req[r].doc \in DocIds /\ (req[r].pc = "lock" => req[r].sec \in SecIds)
      BY <1>1, <2>1 DEF ReadOK, HasDoc, HasSec
    <2> QED
      BY <2>1, <2>2, GoToOK, Names
  <1>8. CASE DeleteSecRow(r)
    <2> DEFINE L == (SecsOf(req[r].doc) \ {req[r].sec} = {})
               q == [req[r] EXCEPT !.pc = "commit", !.last = L]
    <2>1. req' = [req EXCEPT ![r] = q]
      BY <1>8 DEF DeleteSecRow
    <2>2. req[r].pc = "delSec"
      BY <1>8 DEF DeleteSecRow, At
    <2>3. q.pc = "commit" /\ q.doc = req[r].doc /\ q.sec = req[r].sec
      BY DEF TypeOK, ReqRow
    <2> HIDE DEF q
    <2>4. ReadOK(q)
      BY <1>1, <2>2, <2>3 DEF ReadOK, HasDoc, HasSec, ReadLive, ReadSec, LinkEnds, MergeEnds
    <2> QED
      BY <2>1, <2>4, ReqStep
  <1>9. CASE MergeMove(r)
    <2>1. GoTo(r, "mergeDoc") /\ req[r].pc = "move"
      BY <1>9 DEF MergeMove, At
    <2>2. req[r].doc \in DocIds
      BY <1>1, <2>1 DEF ReadOK, HasDoc
    <2> QED
      BY <2>1, <2>2, GoToOK, Names
  <1>10. Finish(r) \/ CreateDoc(r) \/ UpdateSave(r) \/ StampVerified(r) \/ ClearFlag(r)
        \/ Revive(r) \/ ListDependents(r) \/ DeleteDocSections(r) \/ LockParent(r)
        \/ DeleteSecRow(r) \/ MergeMove(r)
    BY RejectedAbandons
       DEF Step, Rejected, Abandon, StoreOverwrite, PutMerge, Chain, FlagDependents, TitleWrite,
           DeleteDocRow, PurgeDoc, DeleteSecCommit, MergeCommit, Link, Supersede, ArchiveOne
  <1> QED
    BY <1>2, <1>3, <1>4, <1>5, <1>6, <1>7, <1>8, <1>9, <1>10

-----------------------------------------------------------------------------
(* The shapes a change of the tables takes, and why each keeps integrity.  *)

Integrity == RefIntegrity /\ OneLivePerPath

\* A document row is written only where no other live document claims its path.
LEMMA DocUpdate ==
  ASSUME TypeOK, OneLivePerPath, NEW d \in DocIds, NEW row,
         row.st = "live" => Unclaimed(row.path, {d}),
         doc' = [doc EXCEPT ![d] = row]
  PROVE  OneLivePerPath'
  BY DEF OneLivePerPath, TypeOK, Unclaimed, LiveAt

\* Documents stay, sections stay with their document or join one that is
\* there, and edges join documents that are there.
LEMMA RefKept ==
  ASSUME RefIntegrity, TypeOK,
         \A d \in DocIds : doc[d].st \in Present => doc'[d].st \in Present,
         \A s \in SecIds : sec'[s].st = "row" =>
            \/ sec[s].st = "row" /\ sec'[s].doc = sec[s].doc
            \/ sec'[s].doc \in DocIds /\ doc'[sec'[s].doc].st \in Present,
         \A e \in edges' :
            \/ e \in edges
            \/ /\ e.src \in DocIds /\ doc'[e.src].st \in Present
               /\ e.tgt \in DocIds /\ doc'[e.tgt].st \in Present
  PROVE  RefIntegrity'
  <1>1. \A e \in edges : e.src \in DocIds /\ e.tgt \in DocIds
    BY DEF TypeOK, EdgeRow
  <1> QED
    BY <1>1 DEF RefIntegrity, IsRow, Exists

\* A document leaves together with everything that references it.
LEMMA PurgeDocRef ==
  ASSUME RefIntegrity, TypeOK, NEW r, NEW d, NEW S, PurgeDoc(r, d, S)
  PROVE  RefIntegrity'
  <1>1. \A e \in edges : e.src \in DocIds /\ e.tgt \in DocIds
    BY DEF TypeOK, EdgeRow
  <1>2. \A x \in DocIds : x # d => doc'[x] = doc[x]
    BY DEF PurgeDoc, TypeOK
  <1>3. \A s \in SecIds : sec'[s].st = "row" =>
          sec[s].st = "row" /\ sec'[s].doc = sec[s].doc /\ sec[s].doc # d
    BY DEF PurgeDoc, Purged, SecsOf, IsRow, GoneSec, NoSecRow
  <1>4. \A e \in edges' : e \in edges /\ e.src # d /\ e.tgt # d
    BY DEF PurgeDoc, Incident
  <1> QED
    BY <1>1, <1>2, <1>3, <1>4 DEF RefIntegrity, IsRow, Exists

\* Deleting a document frees its path.
LEMMA PurgeDocLive ==
  ASSUME OneLivePerPath, TypeOK, NEW r, NEW d \in DocIds, NEW S, PurgeDoc(r, d, S)
  PROVE  OneLivePerPath'
  <1>1. GoneDoc.st # "live"
    BY DEF GoneDoc, NoDocRow
  <1> QED
    BY <1>1, DocUpdate DEF PurgeDoc

\* A merge leaves the moved sections with the winner, which is there, and no
\* reference to the loser.
LEMMA MergeCommitIntegrity ==
  ASSUME NEW r \in Reqs, TypeOK, ReqOK, Integrity, MergeCommit(r)
  PROVE  Integrity'
  <1> DEFINE q == req[r]
             d == q.doc
             w == q.tgt
  <1>1. d \in DocIds /\ w \in DocIds /\ w # d
    BY DEF ReqOK, ReadOK, HasDoc, MergeEnds, MergeCommit, At
  <1>2. doc' = [doc EXCEPT ![d] = GoneDoc]
    BY DEF MergeCommit
  <1>3. \A x \in DocIds : x # d => doc'[x] = doc[x]
    BY <1>2 DEF TypeOK
  <1>4. \A e \in edges : e.src \in DocIds /\ e.tgt \in DocIds
    BY DEF TypeOK, EdgeRow
  <1>5. ASSUME NEW s \in SecIds, sec'[s].st = "row"
        PROVE  sec'[s].doc \in DocIds /\ sec'[s].doc # d /\ doc[sec'[s].doc].st \in Present
    <2>1. sec' = Reassigned(q, r)
      BY DEF MergeCommit
    <2>2. CASE secLock[s] = r /\ s \in q.keep
      <3>1. sec'[s].doc = w
        BY <2>1, <2>2 DEF Reassigned, TypeOK, SecRow
      <3>2. doc[w].st \in Present
        BY <2>2 DEF MergeCommit, Exists
      <3> QED
        BY <1>1, <3>1, <3>2
    <2>3. CASE ~(secLock[s] = r /\ s \in q.keep)
      <3>1. sec'[s] = sec[s] /\ s \notin SecsOf(d)
        BY <1>5, <2>1, <2>3 DEF Reassigned, GoneSec, NoSecRow
      <3> QED
        BY <1>5, <3>1 DEF Integrity, RefIntegrity, SecsOf, IsRow, Exists
    <2> QED
      BY <2>2, <2>3
  <1>6. \A e \in edges' : e \in edges /\ e.src # d /\ e.tgt # d
    BY DEF MergeCommit, Incident
  <1>7. RefIntegrity'
    BY <1>3, <1>4, <1>5, <1>6 DEF Integrity, RefIntegrity, IsRow, Exists
  <1>8. GoneDoc.st # "live"
    BY DEF GoneDoc, NoDocRow
  <1>9. OneLivePerPath'
    BY <1>1, <1>2, <1>8, DocUpdate DEF Integrity
  <1> QED
    BY <1>7, <1>9 DEF Integrity

\* What writing sections can leave: rows that were there, and new rows of d.
LEMMA WrittenRows ==
  ASSUME TypeOK, NEW d, NEW drop, NEW upd, NEW f, NEW inc, NEW r, NEW s \in SecIds,
         Written(d, drop, upd, f, inc, r)[s].st = "row"
  PROVE  \/ sec[s].st = "row" /\ Written(d, drop, upd, f, inc, r)[s].doc = sec[s].doc
         \/ DOMAIN f # {} /\ Written(d, drop, upd, f, inc, r)[s].doc = d
  <1>1. CASE \E i \in DOMAIN f : f[i] = s
    BY <1>1 DEF Written, NewRow
  <1>2. CASE ~(\E i \in DOMAIN f : f[i] = s)
    BY <1>2 DEF Written, GoneSec, NoSecRow, IsRow, TypeOK, SecRow
  <1> QED
    BY <1>1, <1>2

\* A step that leaves documents and edges alone, and moves no section.
LEMMA SectionsOnly ==
  ASSUME TypeOK, Integrity, UNCHANGED <<doc, edges>>,
         \A s \in SecIds : sec'[s].st = "row" => sec[s].st = "row" /\ sec'[s].doc = sec[s].doc
  PROVE  Integrity'
  <1>1. RefIntegrity'
    BY RefKept DEF Integrity
  <1>2. OneLivePerPath'
    BY DEF Integrity, OneLivePerPath
  <1> QED
    BY <1>1, <1>2 DEF Integrity

\* Flagging moves no section.
LEMMA FlaggedRows ==
  ASSUME TypeOK, NEW S, sec' = Flagged(S)
  PROVE  \A s \in SecIds : sec'[s].st = "row" => sec[s].st = "row" /\ sec'[s].doc = sec[s].doc
  BY DEF Flagged, TypeOK, SecRow

\* Deleting sections moves no section.
LEMMA PurgedRows ==
  ASSUME TypeOK, NEW S, sec' = Purged(S)
  PROVE  \A s \in SecIds : sec'[s].st = "row" => sec[s].st = "row" /\ sec'[s].doc = sec[s].doc
  BY DEF Purged, GoneSec, NoSecRow

\* A step that rewrites one document row, which stays, and no section.
LEMMA OneDocument ==
  ASSUME TypeOK, Integrity, NEW d \in DocIds, NEW row, row.st \in Present,
         row.st = "live" => Unclaimed(row.path, {d}),
         doc' = [doc EXCEPT ![d] = row], UNCHANGED <<sec, edges>>
  PROVE  Integrity'
  <1>1. OneLivePerPath'
    BY DocUpdate DEF Integrity
  <1>2. \A x \in DocIds : doc[x].st \in Present => doc'[x].st \in Present
    BY DEF TypeOK
  <1>3. RefIntegrity'
    BY <1>2, RefKept DEF Integrity
  <1> QED
    BY <1>1, <1>3 DEF Integrity

\* Creating a document keeps integrity: the unique index guards its path.
LEMMA CreateDocIntegrity ==
  ASSUME NEW r \in Reqs, TypeOK, Integrity, CreateDoc(r)
  PROVE  Integrity'
  <1> DEFINE row == [st |-> "live", path |-> req[r].path,
                     pinned |-> (req[r].pin = "true"), title |-> r]
  <1>1. PICK d \in UnusedDocs, f \in Fresh(DOMAIN req[r].inc) :
        /\ doc' = [doc EXCEPT ![d] = row]
        /\ sec' = Written(d, {}, {}, f, req[r].inc, r)
    BY DEF CreateDoc
  <1>2. d \in DocIds
    BY DEF UnusedDocs
  <1>3. Unclaimed(row.path, {d}) /\ row.st = "live"
    BY DEF CreateDoc, Unclaimed
  <1> HIDE DEF row
  <1>4. OneLivePerPath'
    BY <1>1, <1>2, <1>3, DocUpdate DEF Integrity
  <1>5. doc'[d].st \in Present /\ \A x \in DocIds : doc[x].st \in Present => doc'[x].st \in Present
    BY <1>1, <1>2, <1>3 DEF TypeOK, Present
  <1>6. \A s \in SecIds : sec'[s].st = "row" =>
            (sec[s].st = "row" /\ sec'[s].doc = sec[s].doc) \/ sec'[s].doc = d
    BY <1>1, WrittenRows
  <1>7. RefIntegrity'
    BY <1>2, <1>5, <1>6, RefKept DEF Integrity, CreateDoc
  <1> QED
    BY <1>4, <1>7 DEF Integrity

\* The row Save writes carries the path it was read at, which the unique index
\* keeps from any other live document; so do the rows it inserts.
LEMMA StoreOverwriteIntegrity ==
  ASSUME NEW r \in Reqs, TypeOK, ReqOK, Integrity, StoreOverwrite(r)
  PROVE  Integrity'
  <1> DEFINE q == req[r]
             row == Overwritten(q, r)
  <1>1. q \in ReqRow /\ ReadOK(q)
    BY DEF TypeOK, ReqOK
  <1>2. q.pc = "write" /\ q.doc # 0 /\ Unclaimed(q.path, {q.doc})
    BY DEF StoreOverwrite, At
  <1>3. q.doc \in DocIds
    BY <1>1, <1>2 DEF ReqRow, DocRef
  <1>4. row.st = "live" /\ row.path = q.path
    BY <1>1, <1>2 DEF ReadOK, ReadLive, Overwritten, ReqRow, DocRow
  <1>5. doc' = [doc EXCEPT ![q.doc] = row]
    BY DEF StoreOverwrite
  <1>6. PICK f : sec' = Written(q.doc, Dropped(q), Updated(q), f, q.inc, r)
    BY DEF StoreOverwrite
  <1> DEFINE d == q.doc
  <1>10. UNCHANGED edges
    BY DEF StoreOverwrite
  <1> HIDE DEF row
  <1>7. OneLivePerPath'
    BY <1>2, <1>3, <1>4, <1>5, DocUpdate DEF Integrity
  <1>8. doc'[d].st \in Present /\ \A x \in DocIds : doc[x].st \in Present => doc'[x].st \in Present
    BY <1>3, <1>4, <1>5 DEF TypeOK, Present
  <1>9. \A s \in SecIds : sec'[s].st = "row" =>
            (sec[s].st = "row" /\ sec'[s].doc = sec[s].doc) \/ sec'[s].doc = d
    BY <1>6, WrittenRows
  <1>11. RefIntegrity'
    BY <1>3, <1>8, <1>9, <1>10, RefKept DEF Integrity
  <1> QED
    BY <1>7, <1>11 DEF Integrity

\* The merge of put_section keeps integrity: the foreign key guards its inserts.
LEMMA PutMergeIntegrity ==
  ASSUME NEW r \in Reqs, TypeOK, Integrity, PutMerge(r)
  PROVE  Integrity'
  <1> DEFINE q == req[r]
  <1>1. q.doc \in DocIds
    BY DEF TypeOK, ReqRow, PutMerge, DocRef
  <1>2. PICK f \in Fresh(Inserted(q)) : sec' = Written(q.doc, {}, Updated(q), f, q.inc, r)
    BY DEF PutMerge
  <1>3. DOMAIN f # {} => doc[q.doc].st \in Present
    BY DEF PutMerge, Fresh, Exists
  <1>4. \A s \in SecIds : sec'[s].st = "row" =>
            (sec[s].st = "row" /\ sec'[s].doc = sec[s].doc) \/ (DOMAIN f # {} /\ sec'[s].doc = q.doc)
    BY <1>2, WrittenRows
  <1>5. UNCHANGED <<doc, edges>>
    BY DEF PutMerge
  <1>6. RefIntegrity'
    BY <1>1, <1>3, <1>4, <1>5, RefKept DEF Integrity
  <1>7. OneLivePerPath'
    BY <1>5 DEF Integrity, OneLivePerPath
  <1> QED
    BY <1>6, <1>7 DEF Integrity

\* The save of update_section keeps integrity even when it re-inserts the
\* section, and the document above it, from what it read.
LEMMA UpdateSaveIntegrity ==
  ASSUME NEW r \in Reqs, TypeOK, ReqOK, Integrity, UpdateSave(r)
  PROVE  Integrity'
  <1> DEFINE q == req[r]
  <1>1. q \in ReqRow /\ ReadOK(q) /\ q.pc = "save"
    BY DEF TypeOK, ReqOK, UpdateSave, At
  <1>2. q.doc \in DocIds /\ q.sec \in SecIds /\ q.srow.st = "row" /\ q.srow.doc = q.doc
    BY <1>1 DEF ReadOK, HasDoc, HasSec, ReadSec
  <1>3. Edited(q, r).doc = q.doc
    BY <1>1, <1>2 DEF Edited, ReqRow, SecRow
  <1>4. doc'[q.doc].st \in Present
    BY DEF UpdateSave
  <1>5. doc' = doc \/ (doc' = [doc EXCEPT ![q.doc] = q.drow]
                       /\ (q.drow.st = "live" => Unclaimed(q.drow.path, {})))
    BY DEF UpdateSave, Reinserted
  <1>6. \A x \in DocIds : doc[x].st \in Present => doc'[x].st \in Present
    BY <1>4, <1>5 DEF TypeOK
  <1>7. \A s \in SecIds : sec'[s].st = "row" =>
            (sec[s].st = "row" /\ sec'[s].doc = sec[s].doc) \/ sec'[s].doc = q.doc
    BY <1>3 DEF UpdateSave, TypeOK
  <1>8. RefIntegrity'
    BY <1>2, <1>4, <1>6, <1>7, RefKept DEF Integrity, UpdateSave
  <1>9. OneLivePerPath'
    <2>1. CASE doc' = doc
      BY <2>1 DEF Integrity, OneLivePerPath
    <2>2. CASE doc' # doc
      <3>1. q.drow.st = "live" => Unclaimed(q.drow.path, {q.doc})
        BY <1>5, <2>2 DEF Unclaimed
      <3> QED
        BY <1>2, <1>5, <2>2, <3>1, DocUpdate DEF Integrity
    <2> QED
      BY <2>1, <2>2
  <1> QED
    BY <1>8, <1>9 DEF Integrity

\* No read, flagging or unlinking breaks integrity.
LEMMA StartIntegrity ==
  ASSUME NEW r \in Reqs, TypeOK, Integrity, Start(r)
  PROVE  Integrity'
  <1>1. CASE FlagChanged(r)
    <2>1. PICK S : sec' = Flagged(S)
      BY <1>1 DEF FlagChanged
    <2> QED
      BY <1>1, <2>1, FlaggedRows, SectionsOnly DEF FlagChanged
  <1>2. CASE Unlink(r)
    <2>1. edges' \subseteq edges /\ UNCHANGED <<doc, sec>>
      BY <1>2 DEF Unlink
    <2>2. RefIntegrity'
      BY <2>1, RefKept DEF Integrity
    <2> QED
      BY <2>1, <2>2 DEF Integrity, OneLivePerPath
  <1>3. CASE UNCHANGED <<doc, sec, edges>>
    BY <1>3, SectionsOnly
  <1> QED
    BY <1>1, <1>2, <1>3
       DEF Start, StoreRead, PutRead, UpdateRead, VerifyRead, TitleRead, DeleteRead,
           EvictRead, DeleteSectionRead, MergeRead, LinkRead, ArchiveRead, Begin

\* No step of a handler breaks integrity.
LEMMA StepIntegrity ==
  ASSUME NEW r \in Reqs, TypeOK, ReqOK, Integrity, Step(r) \/ Fail(r)
  PROVE  Integrity'
  <1> DEFINE d == req[r].doc
  <1>0. ReadOK(req[r])
    BY DEF ReqOK
  <1>1. CASE UNCHANGED <<doc, sec, edges>>
    BY <1>1, SectionsOnly
  <1>2. CASE Chain(r)
    <2>1. \A e \in edges' : e \in edges \/ (e.src \in DocIds /\ doc[e.src].st \in Present
                                            /\ e.tgt \in DocIds /\ doc[e.tgt].st \in Present)
      <3>1. d \in DocIds
        BY <1>0, <1>2 DEF Chain, At, ReadOK, HasDoc
      <3> QED
        BY <1>2, <3>1 DEF Chain, Priors, Exists, Present
    <2>2. UNCHANGED <<doc, sec>>
      BY <1>2 DEF Chain
    <2>3. RefIntegrity'
      BY <2>1, <2>2, RefKept DEF Integrity
    <2> QED
      BY <2>2, <2>3 DEF Integrity, OneLivePerPath
  <1>3. CASE StampVerified(r) \/ ClearFlag(r)
    <2>1. UNCHANGED <<doc, edges>>
      BY <1>3 DEF StampVerified, ClearFlag
    <2>2. \A s \in SecIds : sec'[s].st = "row" => sec[s].st = "row" /\ sec'[s].doc = sec[s].doc
      BY <1>3 DEF StampVerified, ClearFlag, TypeOK, SecRow
    <2> QED
      BY <2>1, <2>2, SectionsOnly
  <1>4. CASE Revive(r)
    <2>1. d \in DocIds
      BY <1>0, <1>4 DEF Revive, At, ReadOK, HasDoc
    <2>2. CASE doc' = doc
      BY <1>1, <1>4, <2>2 DEF Revive
    <2>3. CASE doc' # doc
      <3> DEFINE row == [doc[d] EXCEPT !.st = "live"]
      <3>1. doc' = [doc EXCEPT ![d] = row] /\ Unclaimed(doc[d].path, {})
        BY <1>4, <2>3 DEF Revive
      <3>2. row.st = "live" /\ row.path = doc[d].path
        BY <2>1 DEF TypeOK, DocRow
      <3>3. UNCHANGED <<sec, edges>>
        BY <1>4 DEF Revive
      <3>4. row.st \in Present
        BY <3>2 DEF Present
      <3>5. row.st = "live" => Unclaimed(row.path, {d})
        BY <3>1, <3>2 DEF Unclaimed
      <3> HIDE DEF row, d
      <3> QED
        BY <2>1, <3>1, <3>3, <3>4, <3>5, OneDocument
    <2> QED
      BY <2>2, <2>3
  <1>5. CASE FlagDependents(r)
    <2>1. PICK S : sec' = Flagged(S)
      BY <1>5 DEF FlagDependents
    <2> QED
      BY <1>5, <2>1, FlaggedRows, SectionsOnly DEF FlagDependents
  <1>6. CASE TitleWrite(r) /\ doc' # doc
    <2> DEFINE row == [doc[d] EXCEPT !.title = r]
    <2>1. d \in DocIds
      BY <1>0, <1>6 DEF TitleWrite, At, ReadOK, HasDoc
    <2>2. doc' = [doc EXCEPT ![d] = row] /\ doc[d].st \in Present
      BY <1>6 DEF TitleWrite, Exists
    <2>3. row.st = doc[d].st /\ row.path = doc[d].path
      BY <2>1 DEF TypeOK, DocRow
    <2>4. UNCHANGED <<sec, edges>>
      BY <1>6 DEF TitleWrite
    <2>5. row.st = "live" => Unclaimed(row.path, {d})
      BY <2>1, <2>3 DEF Integrity, OneLivePerPath, Unclaimed, LiveAt
    <2> HIDE DEF row
    <2> QED
      BY <2>1, <2>2, <2>3, <2>4, <2>5, OneDocument
  <1>7. CASE DeleteDocRow(r) \/ (DeleteSecCommit(r) /\ req[r].last)
    <2>1. d \in DocIds
      BY <1>0, <1>7 DEF DeleteDocRow, DeleteSecCommit, At, ReadOK, HasDoc
    <2>2. \E S : PurgeDoc(r, d, S)
      BY <1>7 DEF DeleteDocRow, DeleteSecCommit
    <2> QED
      BY <2>1, <2>2, PurgeDocRef, PurgeDocLive DEF Integrity
  <1>8. CASE DeleteSecCommit(r) /\ ~req[r].last
    <2>1. sec' = Purged({req[r].sec}) /\ UNCHANGED <<doc, edges>>
      BY <1>8 DEF DeleteSecCommit
    <2> QED
      BY <2>1, PurgedRows, SectionsOnly
  <1>9. CASE Link(r) \/ Supersede(r)
    <2> DEFINE q == req[r]
    <2>1. q.doc \in DocIds /\ q.tgt \in DocIds
      BY <1>0, <1>9 DEF Link, Supersede, At, ReadOK, HasDoc, LinkEnds
    <2>2. edges' = edges \cup {EdgeOf(q)}
      BY <1>9 DEF Link, Supersede
    <2>3. \/ doc' = doc
          \/ doc[q.tgt].st = "live" /\ doc' = [doc EXCEPT ![q.tgt].st = "superseded"]
      BY <1>9 DEF Link, Supersede
    <2>4. doc[q.doc].st \in Present /\ doc[q.tgt].st \in Present
      BY <1>9 DEF Link, Supersede, Exists
    <2>5. ASSUME NEW x \in DocIds, doc[x].st \in Present
          PROVE  doc'[x].st \in Present
      <3>1. CASE x # q.tgt \/ doc' = doc
        BY <2>3, <2>5, <3>1 DEF TypeOK
      <3>2. CASE x = q.tgt /\ doc' # doc
        BY <2>1, <2>3, <3>2 DEF TypeOK, DocRow, Present
      <3> QED
        BY <3>1, <3>2
    <2>6. \A s \in SecIds : sec'[s].st = "row" => sec[s].st = "row" /\ sec'[s].doc = sec[s].doc
      BY <1>9, PurgedRows DEF Link, Supersede
    <2>7. RefIntegrity'
      BY <2>1, <2>2, <2>4, <2>5, <2>6, RefKept DEF Integrity, EdgeOf
    <2>8. OneLivePerPath'
      BY <2>1, <2>3 DEF Integrity, OneLivePerPath, TypeOK, DocRow
    <2> QED
      BY <2>7, <2>8 DEF Integrity
  <1>10. CASE ArchiveOne(r) /\ doc' # doc
    <2> DEFINE row == [doc[d] EXCEPT !.st = "stale"]
    <2>1. d \in DocIds
      BY <1>0, <1>10 DEF ArchiveOne, At, ReadOK, HasDoc
    <2>2. doc' = [doc EXCEPT ![d] = row] /\ UNCHANGED <<sec, edges>>
      BY <1>10 DEF ArchiveOne
    <2>3. row.st = "stale" /\ row.st \in Present
      BY <2>1 DEF TypeOK, DocRow, Present
    <2> HIDE DEF row, d
    <2> QED
      BY <2>1, <2>2, <2>3, OneDocument
  <1>11. \/ UNCHANGED <<doc, sec, edges>>
         \/ CreateDoc(r) \/ StoreOverwrite(r) \/ PutMerge(r) \/ Chain(r) \/ UpdateSave(r)
         \/ StampVerified(r) \/ ClearFlag(r) \/ Revive(r) \/ FlagDependents(r)
         \/ TitleWrite(r) /\ doc' # doc
         \/ DeleteDocRow(r) \/ DeleteSecCommit(r) \/ MergeCommit(r) \/ Link(r) \/ Supersede(r)
         \/ ArchiveOne(r) /\ doc' # doc
    BY RejectedAbandons
       DEF Step, Rejected, Abandon, TitleWrite, ArchiveOne, ListDependents, DeleteDocSections,
           LockParent, DeleteSecRow, MergeMove
  <1> QED
    BY <1>1, <1>2, <1>3, <1>4, <1>5, <1>6, <1>7, <1>8, <1>9, <1>10, <1>11,
       CreateDocIntegrity, MergeCommitIntegrity, StoreOverwriteIntegrity, PutMergeIntegrity, UpdateSaveIntegrity

-----------------------------------------------------------------------------
(* The inductive invariant and the theorems.                               *)

Inv == TypeOK /\ ReqOK /\ Integrity

\* The starting tables satisfy the inductive invariant.
LEMMA InitInv == Init => Inv
  <1> SUFFICES ASSUME Init PROVE Inv
    OBVIOUS
  <1>1. TypeOK
    <2>1. req \in [Reqs -> ReqRow]
      BY IdleType DEF Init
    <2>2. doc \in [DocIds -> DocRow] /\ sec \in [SecIds -> SecRow] /\ edges \subseteq EdgeRow
      BY TableAssumption DEF Init
    <2> QED
      BY <2>1, <2>2 DEF Init, TypeOK
  <1>2. ReqOK
    <2>1. ReadOK(Idle)
      BY DEF ReadOK, HasDoc, HasSec, ReadLive, ReadSec, LinkEnds, MergeEnds, Idle
    <2> QED
      BY <2>1 DEF Init, ReqOK
  <1>3. Integrity
    BY TableAssumption DEF Init, Integrity, RefIntegrity, OneLivePerPath, IsRow, Exists
  <1> QED
    BY <1>1, <1>2, <1>3 DEF Inv

\* Every step preserves it.
LEMMA NextInv == Inv /\ [Next]_vars => Inv'
  <1> SUFFICES ASSUME Inv, [Next]_vars PROVE Inv'
    OBVIOUS
  <1>1. TypeOK /\ ReqOK /\ Integrity /\ RefIntegrity
    BY DEF Inv, Integrity
  <1>2. CASE UNCHANGED vars
    <2>1. UNCHANGED <<doc, sec, edges, docLock, secLock, req>>
      BY <1>2 DEF vars
    <2>2. TypeOK'
      BY <1>1, <2>1 DEF TypeOK
    <2>3. ReqOK'
      BY <1>1, <2>1 DEF ReqOK
    <2>4. Integrity'
      BY <1>1, <2>1, SectionsOnly
    <2> QED
      BY <2>2, <2>3, <2>4 DEF Inv
  <1>3. ASSUME NEW r \in Reqs, Start(r)
        PROVE  Inv'
    BY <1>1, <1>3, StartType, StartOK, StartIntegrity DEF Inv
  <1>4. ASSUME NEW r \in Reqs, Step(r) \/ Fail(r)
        PROVE  Inv'
    BY <1>1, <1>4, StepType, StepOK, StepIntegrity DEF Inv
  <1> QED
    BY <1>2, <1>3, <1>4 DEF Next, Quiet

\* Whatever the handlers do to each other, the tables and the requests stay
\* well typed: no handler writes a row with a foreign value, or an edge from a
\* document to itself.
THEOREM TypeCorrect == Spec => []TypeOK
  <1>1. Inv => TypeOK
    BY DEF Inv
  <1> QED
    BY <1>1, InitInv, NextInv, PTL DEF Spec

\* No interleaving of deletes, re-inserts, purges, links and merges leaves a
\* section or an edge whose document is gone.
THEOREM ReferencesHold == Spec => []RefIntegrity
  <1>1. Inv => RefIntegrity
    BY DEF Inv, Integrity
  <1> QED
    BY <1>1, InitInv, NextInv, PTL DEF Spec

\* At every moment a path names at most one live document, though creations,
\* whole-row saves, re-inserts and revivals race for it.
THEOREM PathsUnique == Spec => []OneLivePerPath
  <1>1. Inv => OneLivePerPath
    BY DEF Inv, Integrity
  <1> QED
    BY <1>1, InitInv, NextInv, PTL DEF Spec

-----------------------------------------------------------------------------
(* Titles.                                                                 *)

\* A step of request r gives an existing document d no title but its own, and
\* only where r writes titles.
OwnTitle(r, d) ==
    Exists(d) /\ Exists(d)' /\ doc'[d].title # doc[d].title =>
        doc'[d].title = r /\ req[r].pc \in {"write", "title"} /\ req'[r].pc # req[r].pc

\* Starting a request writes no document.
LEMMA StartTitles ==
  ASSUME NEW r \in Reqs, Start(r)
  PROVE  UNCHANGED doc
  BY Zenon DEF Start, StoreRead, PutRead, UpdateRead, VerifyRead, FlagChanged, TitleRead, DeleteRead,
         EvictRead, DeleteSectionRead, MergeRead, LinkRead, Unlink, ArchiveRead, Begin

\* A new document takes an id that nothing had.
LEMMA CreateTitles ==
  ASSUME NEW r \in Reqs, TypeOK, CreateDoc(r), NEW d \in DocIds
  PROVE  OwnTitle(r, d)
  <1>1. PICK e \in UnusedDocs : \A x \in DocIds : x # e => doc'[x] = doc[x]
    BY DEF CreateDoc, TypeOK
  <1>2. ~Exists(e)
    BY <1>1 DEF UnusedDocs, Exists, Present
  <1> QED
    BY <1>1, <1>2 DEF OwnTitle

\* An overwrite and a title edit write the title of their request, and move it on.
LEMMA WriterTitles ==
  ASSUME NEW r \in Reqs, TypeOK, StoreOverwrite(r) \/ TitleWrite(r), NEW d \in DocIds
  PROVE  OwnTitle(r, d)
  <1> DEFINE q == req[r]
  <1>1. q.pc \in {"write", "title"} /\ req'[r].pc = "done"
    BY DEF StoreOverwrite, TitleWrite, At, Finish, Done, Idle, TypeOK
  <1>2. CASE d = q.doc
    <2>1. q.drow \in DocRow /\ doc[d] \in DocRow
      BY DEF TypeOK, ReqRow
    <2>2. Overwritten(q, r).title = r
      BY <2>1 DEF Overwritten, DocRow
    <2>3. [doc[d] EXCEPT !.title = r].title = r
      BY <2>1 DEF DocRow
    <2>4. doc'[d].title \in {r, doc[d].title}
      BY <1>2, <2>2, <2>3 DEF StoreOverwrite, TitleWrite, TypeOK
    <2> QED
      BY <1>1, <2>4 DEF OwnTitle
  <1>3. CASE d # q.doc
    <2>1. doc'[d] = doc[d]
      BY <1>3 DEF StoreOverwrite, TitleWrite, TypeOK
    <2> QED
      BY <2>1 DEF OwnTitle
  <1> QED
    BY <1>2, <1>3

\* The other writes of a document keep its title, or bring in or remove a row.
LEMMA OtherTitles ==
  ASSUME NEW r \in Reqs, TypeOK, NEW d \in DocIds,
         \/ UNCHANGED doc
         \/ UpdateSave(r) \/ Revive(r) \/ Supersede(r) \/ ArchiveOne(r)
         \/ DeleteDocRow(r) \/ DeleteSecCommit(r) \/ MergeCommit(r)
  PROVE  OwnTitle(r, d)
  <1> DEFINE q == req[r]
             keeps == doc'[d].title = doc[d].title
  <1>1. doc[d] \in DocRow /\ doc[q.tgt] \in DocRow \cup {doc[q.tgt]}
    BY DEF TypeOK
  <1>2. CASE UNCHANGED doc
    BY <1>2 DEF OwnTitle
  <1>3. CASE UpdateSave(r)
    <2>1. doc' = doc \/ (~Exists(q.doc) /\ doc' = [doc EXCEPT ![q.doc] = q.drow])
      BY <1>3 DEF UpdateSave, Reinserted
    <2> QED
      BY <2>1 DEF OwnTitle, TypeOK
  <1>4. CASE Revive(r) \/ Supersede(r) \/ ArchiveOne(r)
    <2>1. \E x, v : doc' = doc \/ doc' = [doc EXCEPT ![x].st = v]
      BY <1>4 DEF Revive, Supersede, ArchiveOne
    <2>2. keeps
      BY <1>1, <2>1 DEF TypeOK, DocRow
    <2> QED
      BY <2>2 DEF OwnTitle
  <1>5. CASE DeleteDocRow(r) \/ DeleteSecCommit(r) \/ MergeCommit(r)
    <2>1. doc' = doc \/ doc' = [doc EXCEPT ![q.doc] = GoneDoc]
      BY <1>5 DEF DeleteDocRow, DeleteSecCommit, MergeCommit, PurgeDoc
    <2>2. GoneDoc.st \notin Present
      BY DEF GoneDoc, NoDocRow, Present
    <2>3. doc'[d] \in {doc[d], GoneDoc}
      BY <2>1 DEF TypeOK
    <2> QED
      BY <2>2, <2>3 DEF OwnTitle, Exists
  <1> QED
    BY <1>2, <1>3, <1>4, <1>5

\* Every step of a request gives a document no title but the request's own.
LEMMA StepTitles ==
  ASSUME NEW r \in Reqs, TypeOK, Step(r) \/ Fail(r), NEW d \in DocIds
  PROVE  OwnTitle(r, d)
  <1>1. \/ UNCHANGED doc
        \/ CreateDoc(r) \/ StoreOverwrite(r) \/ TitleWrite(r) \/ UpdateSave(r) \/ Revive(r)
        \/ Supersede(r) \/ ArchiveOne(r)
        \/ DeleteDocRow(r) \/ DeleteSecCommit(r) \/ MergeCommit(r)
    BY RejectedAbandons
       DEF Step, Rejected, Abandon, PutMerge, Chain, StampVerified, ClearFlag, ListDependents,
           FlagDependents, DeleteDocSections, LockParent, DeleteSecRow, MergeMove, Link
  <1> QED
    BY <1>1, CreateTitles, WriterTitles, OtherTitles

\* No handler writes back the title it read: a title that changes is that of the
\* request taking the step, for any number of requests.
THEOREM TitlesKept == Spec => TitleNotReverted
  <1> DEFINE titles == \A d \in DocIds :
                         Exists(d) /\ Exists(d)' /\ doc'[d].title # doc[d].title =>
                           \E r \in Reqs : doc'[d].title = r /\ req[r].pc \in {"write", "title"}
                                           /\ req'[r].pc # req[r].pc
  <1>1. Inv /\ [Next]_vars => [titles]_vars
    <2> SUFFICES ASSUME Inv, Next, NEW d \in DocIds
                 PROVE  Exists(d) /\ Exists(d)' /\ doc'[d].title # doc[d].title =>
                          \E r \in Reqs : doc'[d].title = r /\ req[r].pc \in {"write", "title"}
                                          /\ req'[r].pc # req[r].pc
      OBVIOUS
    <2>1. CASE UNCHANGED vars
      BY <2>1 DEF vars
    <2>2. ASSUME NEW r \in Reqs, Start(r)
          PROVE  UNCHANGED doc
      BY <2>2, StartTitles
    <2>3. ASSUME NEW r \in Reqs, Step(r) \/ Fail(r)
          PROVE  OwnTitle(r, d)
      BY <2>3, StepTitles DEF Inv
    <2> QED
      BY <2>1, <2>2, <2>3 DEF Next, Quiet, OwnTitle
  <1> QED
    BY <1>1, InitInv, NextInv, PTL DEF Spec, TitleNotReverted

-----------------------------------------------------------------------------
(* The last section: what delete_section counted is still true when it     *)
(* commits.                                                                *)

\* The requests that hold the id of a section, at the steps that use it.
OnSection(q) == q.pc \in {"save", "verify", "clear", "lock", "delSec", "commit"}

\* Its row was there when it was read, in the document the request names, and
\* a row never changes document.
SectionKnown == \A r \in Reqs : OnSection(req[r]) =>
    /\ doc[req[r].doc].st # "unused" /\ sec[req[r].sec].st # "unused"
    /\ IsRow(req[r].sec) => sec[req[r].sec].doc = req[r].doc
SameParent == \A r, t \in Reqs :
    OnSection(req[r]) /\ OnSection(req[t]) /\ req[r].sec = req[t].sec => req[r].doc = req[t].doc
\* delete_section holds the lock of its document, if there is one to lock, and
\* of the section once it deleted it.
ParentHeld == \A r \in Reqs :
    req[r].pc \in {"delSec", "commit"} /\ Exists(req[r].doc) => docLock[req[r].doc] = r
SectionHeld == \A r \in Reqs :
    req[r].pc = "commit" => IsRow(req[r].sec) /\ secLock[req[r].sec] = r
NoMerge == \A r \in Reqs : req[r].kind # "merge"
LastInv == SectionKnown /\ SameParent /\ ParentHeld /\ SectionHeld /\ LastMeansLast /\ NoMerge

\* A document that was gone when delete_section came to lock it is not inserted
\* again, by a save of what was read before, until the section is deleted.
NoRebirth == \A r \in Reqs :
    req[r].pc = "delSec" /\ doc[req[r].doc].st \notin Present => doc'[req[r].doc].st \notin Present

\* What a step of request r may do to section s: keep it where it is, insert it
\* with a new id, delete it with the locks of both rows, or insert it again.
SecStep(r, s) ==
    \/ sec'[s].st = sec[s].st /\ sec'[s].doc = sec[s].doc
    \/ /\ sec[s].st = "unused" /\ sec'[s].st = "row" /\ sec'[s].doc \in DocIds
       /\ doc[sec'[s].doc].st = "unused" \/ FreeDoc(sec'[s].doc, r)
    \/ /\ sec[s].st = "row" /\ sec'[s].st = "gone"
       /\ FreeSecs({s}, r) /\ FreeDoc(sec[s].doc, r)
    \/ /\ sec[s].st = "gone" /\ sec'[s].st = "row" /\ sec'[s].doc = req[r].doc
       /\ req[r].pc = "save" /\ s = req[r].sec /\ FreeDoc(req[r].doc, r)

\* A write of sections drops rows of its document only, and inserts new ones.
LEMMA WrittenSteps ==
  ASSUME TypeOK, NEW r \in Reqs, NEW d \in DocIds, NEW drop \in SUBSET SecsOf(d), NEW upd,
         NEW I, NEW f \in Fresh(I), NEW inc, sec' = Written(d, drop, upd, f, inc, r),
         FreeSecs(drop, r), drop # {} => FreeDoc(d, r), doc[d].st = "unused" \/ FreeDoc(d, r),
         NEW s \in SecIds
  PROVE  SecStep(r, s)
  <1>1. CASE \E i \in DOMAIN f : f[i] = s
    <2>1. sec[s].st = "unused"
      BY <1>1 DEF Fresh, UnusedSecs
    <2>2. sec'[s].st = "row" /\ sec'[s].doc = d
      BY <1>1 DEF Written, NewRow
    <2> QED
      BY <2>1, <2>2 DEF SecStep
  <1>2. CASE ~(\E i \in DOMAIN f : f[i] = s) /\ s \in drop
    <2>1. sec'[s].st = "gone"
      BY <1>2 DEF Written, GoneSec, NoSecRow
    <2>2. sec[s].st = "row" /\ sec[s].doc = d
      BY <1>2 DEF SecsOf, IsRow
    <2> QED
      BY <1>2, <2>1, <2>2 DEF SecStep, FreeSecs
  <1>3. CASE ~(\E i \in DOMAIN f : f[i] = s) /\ s \notin drop
    <2>1. sec'[s].st = sec[s].st /\ sec'[s].doc = sec[s].doc
      BY <1>3 DEF Written, TypeOK, SecRow
    <2> QED
      BY <2>1 DEF SecStep
  <1> QED
    BY <1>1, <1>2, <1>3

\* Deleting rows of documents whose row is free.
LEMMA PurgedSteps ==
  ASSUME TypeOK, NEW r \in Reqs, NEW S \in SUBSET SecIds, sec' = Purged(S), FreeSecs(S, r),
         \A x \in S : IsRow(x) /\ FreeDoc(sec[x].doc, r),
         NEW s \in SecIds
  PROVE  SecStep(r, s)
  <1>1. CASE s \in S
    <2>1. sec'[s].st = "gone"
      BY <1>1 DEF Purged, GoneSec, NoSecRow
    <2> QED
      BY <1>1, <2>1 DEF SecStep, FreeSecs, IsRow
  <1>2. CASE s \notin S
    BY <1>2 DEF SecStep, Purged
  <1> QED
    BY <1>1, <1>2

\* A step that changes neither the document nor the presence of any section.
LEMMA KeptSteps ==
  ASSUME TypeOK, NEW r \in Reqs,
         \/ UNCHANGED sec
         \/ \E S : sec' = Flagged(S)
         \/ \E x : sec' = [sec EXCEPT ![x].verified = TRUE] \/ sec' = [sec EXCEPT ![x].flagged = FALSE],
         NEW s \in SecIds
  PROVE  SecStep(r, s)
  <1>1. sec[s] \in SecRow
    BY DEF TypeOK
  <1>2. sec'[s].st = sec[s].st /\ sec'[s].doc = sec[s].doc
    BY <1>1 DEF TypeOK, Flagged, SecRow
  <1> QED
    BY <1>2 DEF SecStep

\* The save of update_section keeps a row that is there in its document.
LEMMA UpdateSteps ==
  ASSUME TypeOK, ReqOK, SectionKnown, NEW r \in Reqs, UpdateSave(r), NEW s \in SecIds
  PROVE  SecStep(r, s)
  <1> DEFINE q == req[r]
  <1>1. q \in ReqRow /\ ReadOK(q) /\ q.pc = "save"
    BY DEF TypeOK, ReqOK, UpdateSave, At
  <1>2. q.doc \in DocIds /\ q.sec \in SecIds /\ q.srow.st = "row" /\ q.srow.doc = q.doc
    BY <1>1 DEF ReadOK, HasDoc, HasSec, ReadSec
  <1>3. Edited(q, r).doc = q.doc /\ Edited(q, r).st = "row"
    BY <1>1, <1>2 DEF Edited, ReqRow, SecRow
  <1>4. sec' = [sec EXCEPT ![q.sec] = Edited(q, r)] /\ (~IsRow(q.sec) => FreeDoc(q.doc, r))
    BY DEF UpdateSave
  <1>5. CASE s # q.sec
    BY <1>4, <1>5 DEF SecStep, TypeOK
  <1>6. CASE s = q.sec
    <2>1. sec'[s].st = "row" /\ sec'[s].doc = q.doc
      BY <1>3, <1>4, <1>6 DEF TypeOK
    <2>2. sec[s].st # "unused" /\ (IsRow(s) => sec[s].doc = q.doc)
      BY <1>1, <1>6 DEF SectionKnown, OnSection
    <2>3. sec[s].st \in {"unused", "row", "gone"}
      BY DEF TypeOK, SecRow
    <2> QED
      BY <1>1, <1>4, <1>6, <2>1, <2>2, <2>3 DEF SecStep, IsRow
  <1> QED
    BY <1>5, <1>6

\* What is there of a document's sections.
LEMMA SecsOfRows ==
  \A d \in DocIds : SecsOf(d) \subseteq SecIds /\ \A x \in SecsOf(d) : IsRow(x) /\ sec[x].doc = d
  BY DEF SecsOf

\* The commit of delete_section deletes the section, or all of the document.
LEMMA DeleteSteps ==
  ASSUME TypeOK, ReqOK, SectionKnown, SectionHeld, NEW r \in Reqs, DeleteSecCommit(r),
         NEW s \in SecIds
  PROVE  SecStep(r, s)
  <1> DEFINE q == req[r]
             S == IF q.last THEN SecsOf(q.doc) \cup {q.sec} ELSE {q.sec}
  <1>1. ReadOK(q) /\ q.pc = "commit"
    BY DEF ReqOK, DeleteSecCommit, At
  <1>2. q.doc \in DocIds /\ q.sec \in SecIds
    BY <1>1 DEF ReadOK, HasDoc, HasSec
  <1>3. IsRow(q.sec) /\ secLock[q.sec] = r /\ sec[q.sec].doc = q.doc /\ FreeDoc(q.doc, r)
    BY <1>1 DEF SectionHeld, SectionKnown, OnSection, DeleteSecCommit
  <1>4. sec' = Purged(S)
    BY DEF DeleteSecCommit, PurgeDoc
  <1>5. FreeSecs(S, r)
    BY <1>3 DEF DeleteSecCommit, FreeSecs
  <1>6. S \subseteq SecIds /\ \A x \in S : IsRow(x) /\ sec[x].doc = q.doc
    BY <1>2, <1>3, SecsOfRows
  <1> HIDE DEF S
  <1> QED
    BY <1>3, <1>4, <1>5, <1>6, PurgedSteps

\* Every step of a request treats every section that way.
LEMMA SecSteps ==
  ASSUME Inv, SectionKnown, SectionHeld, NoMerge, NEW r \in Reqs, Start(r) \/ Step(r) \/ Fail(r),
         NEW s \in SecIds
  PROVE  SecStep(r, s)
  <1> DEFINE q == req[r]
  <1>0. TypeOK /\ ReqOK /\ q \in ReqRow /\ ReadOK(q)
    BY DEF Inv, TypeOK, ReqOK
  <1>1. CASE CreateDoc(r)
    <2>1. PICK d \in UnusedDocs, f \in Fresh(DOMAIN q.inc) : sec' = Written(d, {}, {}, f, q.inc, r)
      BY <1>1 DEF CreateDoc
    <2> QED
      BY <1>0, <2>1, WrittenSteps DEF UnusedDocs, FreeSecs
  <1>2. CASE StoreOverwrite(r)
    <2>1. PICK f \in Fresh(Inserted(q)) : sec' = Written(q.doc, Dropped(q), Updated(q), f, q.inc, r)
      BY <1>2 DEF StoreOverwrite
    <2>2. q.doc \in DocIds /\ FreeDoc(q.doc, r) /\ FreeSecs(Dropped(q), r)
      BY <1>0, <1>2 DEF StoreOverwrite, ReqRow, DocRef, FreeSecs
    <2>3. Dropped(q) \in SUBSET SecsOf(q.doc)
      BY DEF Dropped
    <2> QED
      BY <1>0, <2>1, <2>2, <2>3, WrittenSteps
  <1>3. CASE PutMerge(r)
    <2>1. PICK f \in Fresh(Inserted(q)) : sec' = Written(q.doc, {}, Updated(q), f, q.inc, r)
      BY <1>3 DEF PutMerge
    <2>2. q.doc \in DocIds /\ FreeDoc(q.doc, r)
      BY <1>0, <1>3 DEF PutMerge, ReqRow, DocRef
    <2> QED
      BY <1>0, <2>1, <2>2, WrittenSteps DEF FreeSecs
  <1>4. CASE UpdateSave(r)
    BY <1>0, <1>4, UpdateSteps
  <1>5. CASE DeleteSecCommit(r)
    BY <1>0, <1>5, DeleteSteps
  <1>6. CASE DeleteDocRow(r)
    <2>1. q.doc \in DocIds /\ FreeDoc(q.doc, r) /\ FreeSecs(SecsOf(q.doc), r)
      BY <1>0, <1>6 DEF DeleteDocRow, At, ReadOK, HasDoc
    <2>2. sec' = Purged(SecsOf(q.doc))
      BY <1>6 DEF DeleteDocRow, PurgeDoc
    <2> QED
      BY <1>0, <2>1, <2>2, PurgedSteps, SecsOfRows
  <1>7. CASE Supersede(r)
    <2>1. q.tgt \in DocIds /\ FreeDoc(q.tgt, r) /\ FreeSecs(SecsOf(q.tgt), r)
      BY <1>0, <1>7 DEF Supersede, At, ReadOK, LinkEnds
    <2>2. sec' = Purged(SecsOf(q.tgt))
      BY <1>7 DEF Supersede
    <2> QED
      BY <1>0, <2>1, <2>2, PurgedSteps, SecsOfRows
  <1>8. CASE StampVerified(r) \/ ClearFlag(r) \/ FlagDependents(r) \/ FlagChanged(r)
    <2>1. \/ UNCHANGED sec
          \/ \E S : sec' = Flagged(S)
          \/ \E x : sec' = [sec EXCEPT ![x].verified = TRUE] \/ sec' = [sec EXCEPT ![x].flagged = FALSE]
      BY <1>8 DEF StampVerified, ClearFlag, FlagDependents, FlagChanged
    <2> QED
      BY <1>0, <2>1, KeptSteps
  <1>9. CASE UNCHANGED sec
    BY <1>0, <1>9, KeptSteps
  <1>10. ~MergeCommit(r)
    BY DEF MergeCommit, At, NoMerge
  <1>11. Start(r) => FlagChanged(r) \/ UNCHANGED sec
    BY Zenon DEF Start, StoreRead, PutRead, UpdateRead, VerifyRead, TitleRead, DeleteRead,
           EvictRead, DeleteSectionRead, MergeRead, LinkRead, Unlink, ArchiveRead, Begin
  <1>12. Step(r) \/ Fail(r) =>
           \/ UNCHANGED sec \/ CreateDoc(r) \/ StoreOverwrite(r) \/ PutMerge(r) \/ UpdateSave(r)
           \/ StampVerified(r) \/ ClearFlag(r) \/ FlagDependents(r)
           \/ DeleteDocRow(r) \/ DeleteSecCommit(r) \/ MergeCommit(r) \/ Supersede(r)
    BY RejectedAbandons
       DEF Step, Rejected, Abandon, TitleWrite, ArchiveOne, ListDependents, DeleteDocSections,
           LockParent, DeleteSecRow, MergeMove, Chain, Revive, Link
  <1> QED
    BY <1>1, <1>2, <1>3, <1>4, <1>5, <1>6, <1>7, <1>8, <1>9, <1>10, <1>11, <1>12

\* No step returns an id of a document to the unused ones.
LEMMA DocSteps ==
  ASSUME Inv, NoMerge, NEW r \in Reqs, Start(r) \/ Step(r) \/ Fail(r),
         NEW d \in DocIds, doc[d].st # "unused"
  PROVE  doc'[d].st # "unused"
  <1> DEFINE q == req[r]
  <1>0. TypeOK /\ ReqOK /\ q \in ReqRow /\ ReadOK(q) /\ doc[d] \in DocRow
    BY DEF Inv, TypeOK, ReqOK
  <1>1. CASE CreateDoc(r)
    <2>1. PICK e \in UnusedDocs : \A x \in DocIds : x # e => doc'[x] = doc[x]
      BY <1>0, <1>1 DEF CreateDoc, TypeOK
    <2> QED
      BY <2>1 DEF UnusedDocs
  <1>2. CASE StoreOverwrite(r)
    <2>1. Overwritten(q, r).st = "live"
      BY <1>0, <1>2 DEF StoreOverwrite, At, ReadOK, ReadLive, Overwritten, ReqRow, DocRow
    <2>2. doc' = [doc EXCEPT ![q.doc] = Overwritten(q, r)]
      BY <1>2 DEF StoreOverwrite
    <2>3. doc'[d] \in {doc[d], Overwritten(q, r)}
      BY <1>0, <2>2 DEF TypeOK
    <2> QED
      BY <2>1, <2>3
  <1>3. CASE UpdateSave(r)
    <2>1. doc' = doc \/ (doc' = [doc EXCEPT ![q.doc] = q.drow] /\ doc'[q.doc].st \in Present)
      BY <1>3 DEF UpdateSave, Reinserted
    <2>2. "unused" \notin Present
      BY DEF Present
    <2> QED
      BY <1>0, <2>1, <2>2 DEF TypeOK
  <1>4. CASE Revive(r) \/ Supersede(r) \/ ArchiveOne(r)
    <2>1. \/ doc' = doc
          \/ \E x, v : v \in {"live", "superseded", "stale"} /\ doc' = [doc EXCEPT ![x].st = v]
      BY <1>4 DEF Revive, Supersede, ArchiveOne
    <2> QED
      BY <1>0, <2>1 DEF TypeOK, DocRow
  <1>5. CASE DeleteDocRow(r) \/ DeleteSecCommit(r)
    <2>1. doc' = doc \/ doc' = [doc EXCEPT ![q.doc] = GoneDoc]
      BY <1>5 DEF DeleteDocRow, DeleteSecCommit, PurgeDoc
    <2>2. doc'[d] \in {doc[d], GoneDoc}
      BY <1>0, <2>1 DEF TypeOK
    <2> QED
      BY <2>2 DEF GoneDoc, NoDocRow
  <1>6. CASE TitleWrite(r)
    <2>1. doc' = doc \/ \E x : doc' = [doc EXCEPT ![x].title = r]
      BY <1>6 DEF TitleWrite
    <2> QED
      BY <1>0, <2>1 DEF TypeOK, DocRow
  <1>7. ~MergeCommit(r)
    BY DEF MergeCommit, At, NoMerge
  <1>8. Start(r) => UNCHANGED doc
    BY StartTitles
  <1>9. Step(r) \/ Fail(r) =>
        \/ UNCHANGED doc
        \/ CreateDoc(r) \/ StoreOverwrite(r) \/ TitleWrite(r) \/ UpdateSave(r) \/ Revive(r)
        \/ Supersede(r) \/ ArchiveOne(r)
        \/ DeleteDocRow(r) \/ DeleteSecCommit(r) \/ MergeCommit(r)
    BY RejectedAbandons
       DEF Step, Rejected, Abandon, PutMerge, Chain, StampVerified, ClearFlag, ListDependents,
           FlagDependents, DeleteDocSections, LockParent, DeleteSecRow, MergeMove, Link
  <1> QED
    BY <1>1, <1>2, <1>3, <1>4, <1>5, <1>6, <1>7, <1>8, <1>9

\* No step takes a lock another request holds, or releases it.
LEMMA LockSteps ==
  ASSUME Inv, NoMerge, NEW r \in Reqs, Start(r) \/ Step(r) \/ Fail(r), NEW t \in Reqs \ {r}
  PROVE  /\ \A d \in DocIds : docLock[d] = t => docLock'[d] = t
         /\ \A s \in SecIds : secLock[s] = t => secLock'[s] = t
  <1>0. TypeOK /\ ReqOK /\ t # NoReq
    BY InputAssumption DEF Inv
  <1>1. CASE UNCHANGED <<docLock, secLock>>
    BY <1>1
  <1>2. CASE docLock' = Unlocked(docLock, r) /\ secLock' = Unlocked(secLock, r)
    BY <1>0, <1>2 DEF Unlocked, TypeOK
  <1>3. CASE LockParent(r)
    BY <1>0, <1>3 DEF LockParent, FreeDoc, TypeOK
  <1>4. CASE DeleteDocSections(r)
    BY <1>0, <1>4 DEF DeleteDocSections, FreeSecs, TypeOK
  <1>5. CASE DeleteSecRow(r)
    BY <1>0, <1>5 DEF DeleteSecRow, FreeSecs, TypeOK
  <1>6. ~MergeCommit(r) /\ ~MergeMove(r)
    BY DEF MergeCommit, MergeMove, At, NoMerge
  <1>7. Start(r) => UNCHANGED <<docLock, secLock>>
    BY Zenon DEF Start, StoreRead, PutRead, UpdateRead, VerifyRead, FlagChanged, TitleRead, DeleteRead,
           EvictRead, DeleteSectionRead, MergeRead, LinkRead, Unlink, ArchiveRead, Begin
  <1>8. Step(r) \/ Fail(r) =>
        \/ UNCHANGED <<docLock, secLock>>
        \/ docLock' = Unlocked(docLock, r) /\ secLock' = Unlocked(secLock, r)
        \/ LockParent(r) \/ DeleteDocSections(r) \/ DeleteSecRow(r) \/ MergeCommit(r) \/ MergeMove(r)
    BY RejectedAbandons
       DEF Step, Rejected, Abandon, PutMerge, Chain, StampVerified, ClearFlag, ListDependents,
           FlagDependents, Link, CreateDoc, StoreOverwrite, TitleWrite, UpdateSave, Revive,
           Supersede, ArchiveOne, DeleteDocRow, DeleteSecCommit, PurgeDoc
  <1> QED
    BY <1>1, <1>2, <1>3, <1>4, <1>5, <1>6, <1>7, <1>8

\* Where a step takes its request: it keeps the section it works on, or has
\* just read one that is there.
Moves(r) ==
    LET q == req[r]
        n == req'[r]
    IN /\ \A t \in Reqs \ {r} : req'[t] = req[t]
       /\ n.kind \in {q.kind, "none", "store"} \cup Kinds
       /\ \/ ~OnSection(n)
          \/ OnSection(q) /\ n.sec = q.sec /\ n.doc = q.doc
          \/ /\ n.pc \in {"save", "verify", "lock"} /\ n.sec \in SecIds
             /\ IsRow(n.sec) /\ n.doc = sec[n.sec].doc /\ UNCHANGED <<doc, sec>>
       /\ n.pc = "delSec" => LockParent(r)
       /\ n.pc = "commit" => DeleteSecRow(r)
       /\ n.pc = "write" => StoreRead(r) \/ PutRead(r)

\* Every read moves its request so.
LEMMA StartMoves ==
  ASSUME TypeOK, NEW r \in Reqs, Start(r)
  PROVE  Moves(r)
  <1> DEFINE n == req'[r]
  <1>1. ASSUME NEW q, Begin(r, q)
        PROVE  /\ n = q /\ q.kind \in Kinds /\ UNCHANGED <<doc, sec>>
               /\ \A t \in Reqs \ {r} : req'[t] = req[t]
    BY <1>1 DEF Begin, TypeOK
  <1>2. CASE FlagChanged(r) \/ Unlink(r)
    BY <1>2 DEF FlagChanged, Unlink, Finish, Done, Idle, TypeOK, Moves, OnSection
  <1>3. CASE UpdateRead(r)
    <2>1. PICK s \in SecIds, e \in SecEdits :
            /\ IsRow(s)
            /\ Begin(r, [Idle EXCEPT !.kind = "update", !.pc = "save", !.sec = s,
                     !.edit = e, !.srow = sec[s], !.doc = sec[s].doc,
                     !.drow = RowOf(sec[s].doc)])
      BY <1>3 DEF UpdateRead
    <2> DEFINE q == [Idle EXCEPT !.kind = "update", !.pc = "save", !.sec = s,
                     !.edit = e, !.srow = sec[s], !.doc = sec[s].doc,
                     !.drow = RowOf(sec[s].doc)]
    <2>2. q.pc = "save" /\ q.sec = s /\ q.doc = sec[s].doc
      BY DEF Idle
    <2>3. IsRow(s) /\ Begin(r, q)
      BY <2>1
    <2> HIDE DEF q
    <2> QED
      BY <1>1, <2>2, <2>3 DEF Moves
  <1>4. CASE VerifyRead(r) \/ DeleteSectionRead(r)
    <2>1. PICK s \in SecIds, k \in {"verify", "deleteSection"}, pc \in {"verify", "lock"} :
            /\ IsRow(s)
            /\ Begin(r, [Idle EXCEPT !.kind = k, !.pc = pc, !.sec = s, !.doc = sec[s].doc])
      BY <1>4 DEF VerifyRead, DeleteSectionRead
    <2> DEFINE q == [Idle EXCEPT !.kind = k, !.pc = pc, !.sec = s, !.doc = sec[s].doc]
    <2>2. q.pc = pc /\ q.sec = s /\ q.doc = sec[s].doc
      BY DEF Idle
    <2>3. IsRow(s) /\ Begin(r, q)
      BY <2>1
    <2> HIDE DEF q
    <2> QED
      BY <1>1, <2>2, <2>3 DEF Moves
  <1>5. CASE StoreRead(r) \/ PutRead(r) \/ TitleRead(r) \/ DeleteRead(r) \/ EvictRead(r)
             \/ MergeRead(r) \/ LinkRead(r) \/ ArchiveRead(r)
    <2>1. PICK q : /\ Begin(r, q) /\ q.pc \in {"write", "title", "delSecs", "move", "link", "archive"}
                   /\ q.pc = "write" => StoreRead(r) \/ PutRead(r)
      <3>1. CASE StoreRead(r) \/ PutRead(r)
        BY <3>1, Zenon DEF StoreRead, PutRead, Idle
      <3>2. CASE TitleRead(r) \/ DeleteRead(r) \/ EvictRead(r) \/ ArchiveRead(r)
        <4>1. PICK k \in {"title", "delete", "evict", "archive"},
               pc \in {"title", "delSecs", "archive"}, d \in DocIds :
                Begin(r, [Idle EXCEPT !.kind = k, !.pc = pc, !.doc = d])
          BY <3>2 DEF TitleRead, DeleteRead, EvictRead, ArchiveRead
        <4>2. [Idle EXCEPT !.kind = k, !.pc = pc, !.doc = d].pc = pc
          BY DEF Idle
        <4> QED
          BY <4>1, <4>2
      <3>3. CASE MergeRead(r)
        <4>1. PICK w, l \in DocIds : \E keep \in (SUBSET (SecsOf(w) \cup SecsOf(l))) \ {{}} :
                Begin(r, [Idle EXCEPT !.kind = "merge", !.pc = "move", !.doc = l, !.tgt = w,
                          !.keep = keep])
          BY <3>3 DEF MergeRead
        <4>2. PICK keep \in (SUBSET (SecsOf(w) \cup SecsOf(l))) \ {{}} :
                Begin(r, [Idle EXCEPT !.kind = "merge", !.pc = "move", !.doc = l, !.tgt = w,
                          !.keep = keep])
          BY <4>1
        <4> DEFINE q == [Idle EXCEPT !.kind = "merge", !.pc = "move", !.doc = l, !.tgt = w,
                         !.keep = keep]
        <4>3. q.pc = "move"
          BY DEF Idle
        <4>4. Begin(r, q)
          BY <4>2
        <4> HIDE DEF q
        <4> QED
          BY <4>3, <4>4
      <3>4. CASE LinkRead(r)
        <4>1. PICK a, b \in DocIds, t \in EdgeTypes :
                Begin(r, [Idle EXCEPT !.kind = "link", !.pc = "link", !.doc = a, !.tgt = b,
                          !.typ = t])
          BY <3>4 DEF LinkRead
        <4> DEFINE q == [Idle EXCEPT !.kind = "link", !.pc = "link", !.doc = a, !.tgt = b,
                         !.typ = t]
        <4>2. q.pc = "link"
          BY DEF Idle
        <4>3. Begin(r, q)
          BY <4>1
        <4> HIDE DEF q
        <4> QED
          BY <4>2, <4>3
      <3> QED
        BY <1>5, <3>1, <3>2, <3>3, <3>4
    <2> QED
      BY <1>1, <2>1 DEF Moves, OnSection
  <1> QED
    BY <1>2, <1>3, <1>4, <1>5 DEF Start

\* So does every other step.
LEMMA StepMoves ==
  ASSUME TypeOK, NEW r \in Reqs, Step(r) \/ Fail(r)
  PROVE  Moves(r)
  <1> DEFINE q == req[r]
             n == req'[r]
  <1>0. q \in ReqRow
    BY DEF TypeOK
  <1>1. CASE Finish(r)
    BY <1>1 DEF Finish, Done, Idle, TypeOK, Moves, OnSection
  <1>2. CASE CreateDoc(r) /\ ~Finish(r)
    <2>1. PICK d \in UnusedDocs :
            req' = [req EXCEPT ![r] = [Idle EXCEPT !.kind = "store", !.pc = "chain", !.doc = d]]
      BY <1>2 DEF CreateDoc, Finish
    <2>2. n.kind = "store" /\ n.pc = "chain" /\ \A t \in Reqs \ {r} : req'[t] = req[t]
      BY <2>1 DEF TypeOK, Idle
    <2> QED
      BY <2>2 DEF Moves, OnSection
  <1>3. CASE ListDependents(r)
    <2>1. n.kind = q.kind /\ n.pc = "flag" /\ \A t \in Reqs \ {r} : req'[t] = req[t]
      BY <1>0, <1>3 DEF ListDependents, TypeOK, ReqRow
    <2> QED
      BY <2>1 DEF Moves, OnSection
  <1>4. CASE DeleteSecRow(r)
    <2>1. n.kind = q.kind /\ n.sec = q.sec /\ n.doc = q.doc /\ n.pc = "commit" /\ q.pc = "delSec"
      BY <1>0, <1>4 DEF DeleteSecRow, At, TypeOK, ReqRow
    <2>2. \A t \in Reqs \ {r} : req'[t] = req[t]
      BY <1>4 DEF DeleteSecRow, TypeOK
    <2> QED
      BY <1>4, <2>1, <2>2 DEF Moves, OnSection
  <1>5. ASSUME NEW pc, GoTo(r, pc)
        PROVE  /\ n.kind = q.kind /\ n.sec = q.sec /\ n.doc = q.doc /\ n.pc = pc
               /\ \A t \in Reqs \ {r} : req'[t] = req[t]
    BY <1>0, <1>5 DEF GoTo, TypeOK, ReqRow
  <1>6. CASE \/ GoTo(r, "verify") /\ q.pc = "save"
             \/ GoTo(r, "clear") /\ q.pc = "verify"
             \/ GoTo(r, "delSec") /\ q.pc = "lock" /\ LockParent(r)
             \/ \E pc \in {"list", "revive", "delDoc", "mergeDoc"} : GoTo(r, pc)
    BY <1>5, <1>6 DEF Moves, OnSection
  <1>7. Finish(r) \/ CreateDoc(r) \/ UpdateSave(r) \/ StampVerified(r) \/ ClearFlag(r)
        \/ Revive(r) \/ ListDependents(r) \/ DeleteDocSections(r) \/ LockParent(r)
        \/ DeleteSecRow(r) \/ MergeMove(r)
    BY RejectedAbandons
       DEF Step, Rejected, Abandon, StoreOverwrite, PutMerge, Chain, FlagDependents, TitleWrite,
           DeleteDocRow, PurgeDoc, DeleteSecCommit, MergeCommit, Link, Supersede, ArchiveOne
  <1>8. UpdateSave(r) => Finish(r) \/ (GoTo(r, "verify") /\ q.pc = "save") \/ GoTo(r, "list")
    BY DEF UpdateSave, AfterSave, At
  <1>9. StampVerified(r) \/ ClearFlag(r) \/ Revive(r) =>
          Finish(r) \/ (GoTo(r, "clear") /\ q.pc = "verify") \/ GoTo(r, "revive") \/ GoTo(r, "list")
    BY DEF StampVerified, ClearFlag, Revive, At
  <1>10. /\ DeleteDocSections(r) => GoTo(r, "delDoc")
         /\ LockParent(r) => GoTo(r, "delSec") /\ q.pc = "lock"
         /\ MergeMove(r) => GoTo(r, "mergeDoc")
    BY DEF DeleteDocSections, LockParent, MergeMove, At
  <1> QED
    BY <1>1, <1>2, <1>3, <1>4, <1>6, <1>7, <1>8, <1>9, <1>10

\* A request that holds a section id still knows its row after any step.
LEMMA KnownAfter ==
  ASSUME Inv, LastInv, NEW r \in Reqs, Start(r) \/ Step(r) \/ Fail(r),
         NEW t \in Reqs, OnSection(req[t])
  PROVE  /\ doc'[req[t].doc].st # "unused" /\ sec'[req[t].sec].st # "unused"
         /\ sec'[req[t].sec].st = "row" => sec'[req[t].sec].doc = req[t].doc
  <1> DEFINE s == req[t].sec
             d == req[t].doc
  <1>1. s \in SecIds /\ d \in DocIds
    BY DEF Inv, ReqOK, ReadOK, HasDoc, HasSec, OnSection
  <1>2. doc[d].st # "unused" /\ sec[s].st # "unused" /\ (sec[s].st = "row" => sec[s].doc = d)
    BY DEF LastInv, SectionKnown, IsRow
  <1>3. doc'[d].st # "unused"
    BY <1>1, <1>2, DocSteps DEF LastInv
  <1>4. SecStep(r, s)
    BY <1>1, SecSteps DEF LastInv
  <1>5. req[r].pc = "save" /\ s = req[r].sec => req[r].doc = d
    BY DEF LastInv, SameParent, OnSection
  <1> QED
    BY <1>2, <1>3, <1>4, <1>5 DEF SecStep

\* The sections of a document after a step.
SecsAfter(d) == {s \in SecIds : sec'[s].st = "row" /\ sec'[s].doc = d}

\* While a request holds the lock of a document, no other changes its sections.
LEMMA SecsFixed ==
  ASSUME Inv, LastInv, NEW r \in Reqs, Start(r) \/ Step(r) \/ Fail(r),
         NEW t \in Reqs \ {r}, NEW d \in DocIds, docLock[d] = t, doc[d].st # "unused"
  PROVE  SecsAfter(d) = SecsOf(d)
  <1>1. ~FreeDoc(d, r)
    BY InputAssumption DEF FreeDoc
  <1>2. ASSUME NEW s \in SecIds
        PROVE  s \in SecsAfter(d) <=> s \in SecsOf(d)
    <2>1. SecStep(r, s)
      BY SecSteps DEF LastInv
    <2>2. /\ s \in SecsAfter(d) <=> sec'[s].st = "row" /\ sec'[s].doc = d
          /\ s \in SecsOf(d) <=> sec[s].st = "row" /\ sec[s].doc = d
      BY DEF SecsOf, SecsAfter, IsRow
    <2> QED
      BY <1>1, <2>1, <2>2 DEF SecStep
  <1>3. SecsAfter(d) \subseteq SecIds /\ SecsOf(d) \subseteq SecIds
    BY DEF SecsOf, SecsAfter
  <1> QED
    BY <1>2, <1>3

\* At the commit the section is there, and so is the document it is locked in.
LEMMA CommitHolds ==
  ASSUME Inv, LastInv, NEW t \in Reqs, req[t].pc = "commit"
  PROVE  LET q == req[t] IN
         /\ q.doc \in DocIds /\ q.sec \in SecIds /\ doc[q.doc].st \in Present
         /\ docLock[q.doc] = t /\ secLock[q.sec] = t /\ q.sec \in SecsOf(q.doc)
  <1> DEFINE q == req[t]
  <1>1. q.doc \in DocIds /\ q.sec \in SecIds
    BY DEF Inv, ReqOK, ReadOK, HasDoc, HasSec
  <1>2. IsRow(q.sec) /\ secLock[q.sec] = t
    BY DEF LastInv, SectionHeld
  <1>3. sec[q.sec].doc = q.doc
    BY <1>2 DEF LastInv, SectionKnown, OnSection
  <1>4. Exists(q.doc)
    BY <1>1, <1>2, <1>3 DEF Inv, Integrity, RefIntegrity
  <1>5. docLock[q.doc] = t
    BY <1>4 DEF LastInv, ParentHeld
  <1> QED
    BY <1>1, <1>2, <1>3, <1>4, <1>5 DEF SecsOf, Exists

\* What delete_section finds and takes when it deletes the section.
LEMMA CommitStarts ==
  ASSUME Inv, LastInv, NEW r \in Reqs, DeleteSecRow(r)
  PROVE  LET n == req'[r] IN
         /\ sec'[n.sec].st = "row" /\ secLock'[n.sec] = r
         /\ n.last <=> SecsAfter(n.doc) = {n.sec}
         /\ doc'[n.doc].st \in Present => docLock'[n.doc] = r
  <1> DEFINE q == req[r]
             n == req'[r]
  <1>1. q \in ReqRow /\ q.pc = "delSec" /\ q.sec \in SecIds /\ q.doc \in DocIds
    BY DEF Inv, TypeOK, DeleteSecRow, At, ReqOK, ReadOK, HasSec, HasDoc
  <1>2. n.sec = q.sec /\ n.doc = q.doc /\ n.last = (SecsOf(q.doc) \ {q.sec} = {})
    BY <1>1 DEF DeleteSecRow, Inv, TypeOK, ReqRow
  <1>3. IsRow(q.sec) /\ sec[q.sec].doc = q.doc
    BY <1>1 DEF DeleteSecRow, LastInv, SectionKnown, OnSection
  <1>4. q.sec \in SecsOf(q.doc)
    BY <1>1, <1>3 DEF SecsOf
  <1>5. UNCHANGED <<doc, sec, docLock>> /\ secLock' = [secLock EXCEPT ![q.sec] = r]
    BY DEF DeleteSecRow
  <1>7. sec'[n.sec].st = "row"
    BY <1>2, <1>3, <1>5 DEF IsRow
  <1>8. SecsAfter(n.doc) = SecsOf(q.doc)
    BY <1>2, <1>5 DEF SecsOf, SecsAfter, IsRow
  <1>9. n.last <=> SecsAfter(n.doc) = {n.sec}
    BY <1>2, <1>4, <1>8
  <1>10. secLock'[n.sec] = r
    BY <1>1, <1>2, <1>5 DEF Inv, TypeOK
  <1>11. doc'[n.doc].st \in Present => docLock'[n.doc] = r
    BY <1>1, <1>2, <1>5 DEF LastInv, ParentHeld, Exists
  <1> QED
    BY <1>7, <1>9, <1>10, <1>11

\* Every step moves its request as described.
LEMMA AllMoves ==
  ASSUME TypeOK, NEW r \in Reqs, Start(r) \/ Step(r) \/ Fail(r)
  PROVE  Moves(r)
  BY StartMoves, StepMoves

\* The invariant of the last section is kept by every step of a request.
LEMMA LastStep ==
  ASSUME "merge" \notin Kinds, Inv, LastInv, NoRebirth,
         NEW r \in Reqs, Start(r) \/ Step(r) \/ Fail(r)
  PROVE  LastInv'
  <1>0. Moves(r)
    BY AllMoves DEF Inv
  <1>1. ASSUME NEW t \in Reqs, OnSection(req'[t])
        PROVE  \/ OnSection(req[t]) /\ req'[t].sec = req[t].sec /\ req'[t].doc = req[t].doc
               \/ /\ t = r /\ UNCHANGED <<doc, sec>> /\ req'[t].sec \in SecIds
                  /\ IsRow(req'[t].sec) /\ req'[t].doc = sec[req'[t].sec].doc
    BY <1>0, <1>1 DEF Moves
  <1>2. SectionKnown'
    <2> SUFFICES ASSUME NEW t \in Reqs, OnSection(req'[t])
                 PROVE  /\ doc'[req'[t].doc].st # "unused" /\ sec'[req'[t].sec].st # "unused"
                        /\ sec'[req'[t].sec].st = "row" => sec'[req'[t].sec].doc = req'[t].doc
      BY DEF SectionKnown, OnSection, IsRow
    <2>1. CASE OnSection(req[t]) /\ req'[t].sec = req[t].sec /\ req'[t].doc = req[t].doc
      BY <2>1, KnownAfter
    <2>2. CASE /\ UNCHANGED <<doc, sec>> /\ req'[t].sec \in SecIds
               /\ IsRow(req'[t].sec) /\ req'[t].doc = sec[req'[t].sec].doc
      <3>1. doc[req'[t].doc].st \in Present
        BY <2>2 DEF Inv, Integrity, RefIntegrity, Exists
      <3> QED
        BY <2>2, <3>1 DEF IsRow, Present
    <2> QED
      BY <1>1, <2>1, <2>2
  <1>3. SameParent'
    <2> SUFFICES ASSUME NEW a \in Reqs, NEW b \in Reqs, OnSection(req'[a]), OnSection(req'[b]),
                        req'[a].sec = req'[b].sec
                 PROVE  req'[a].doc = req'[b].doc
      BY DEF SameParent, OnSection
    <2> DEFINE Old(t) == OnSection(req[t]) /\ req'[t].sec = req[t].sec /\ req'[t].doc = req[t].doc
               New(t) == t = r /\ IsRow(req'[t].sec) /\ req'[t].doc = sec[req'[t].sec].doc
    <2>1. (Old(a) \/ New(a)) /\ (Old(b) \/ New(b))
      BY <1>1
    <2>2. \A t \in Reqs : Old(t) /\ IsRow(req'[t].sec) => sec[req'[t].sec].doc = req'[t].doc
      BY DEF LastInv, SectionKnown
    <2>3. CASE Old(a) /\ Old(b)
      BY <2>3 DEF LastInv, SameParent
    <2>4. CASE New(a) \/ New(b)
      BY <2>1, <2>2, <2>4
    <2> QED
      BY <2>1, <2>3, <2>4
  <1>4. ASSUME NEW t \in Reqs, t # r
        PROVE  /\ req'[t] = req[t]
               /\ \A d \in DocIds : docLock[d] = t => docLock'[d] = t
               /\ \A s \in SecIds : secLock[s] = t => secLock'[s] = t
    BY <1>0, <1>4, LockSteps DEF Moves, LastInv
  <1>5. ParentHeld'
    <2> SUFFICES ASSUME NEW t \in Reqs, req'[t].pc \in {"delSec", "commit"},
                        doc'[req'[t].doc].st \in Present
                 PROVE  docLock'[req'[t].doc] = t
      BY DEF ParentHeld, Exists
    <2>1. CASE t # r
      <3>1. req[t].doc \in DocIds
        BY <1>4, <2>1 DEF Inv, ReqOK, ReadOK, HasDoc
      <3>2. doc[req[t].doc].st \in Present
        BY <1>4, <2>1, CommitHolds DEF NoRebirth
      <3> QED
        BY <1>4, <2>1, <3>1, <3>2 DEF LastInv, ParentHeld, Exists
    <2>2. CASE t = r /\ req'[t].pc = "commit"
      BY <1>0, <2>2, CommitStarts DEF Moves
    <2>3. CASE t = r /\ req'[t].pc = "delSec"
      <3>1. LockParent(r) /\ req[r].pc = "lock" /\ req[r].doc \in DocIds
        BY <1>0, <2>3 DEF Moves, LockParent, At, Inv, ReqOK, ReadOK, HasDoc
      <3>2. req'[r].doc = req[r].doc
        BY <3>1 DEF LockParent, GoTo, Inv, TypeOK, ReqRow
      <3> QED
        BY <2>3, <3>1, <3>2 DEF LockParent, Exists, Inv, TypeOK
    <2> QED
      BY <2>1, <2>2, <2>3
  <1>6. SectionHeld'
    <2> SUFFICES ASSUME NEW t \in Reqs, req'[t].pc = "commit"
                 PROVE  sec'[req'[t].sec].st = "row" /\ secLock'[req'[t].sec] = t
      BY DEF SectionHeld, IsRow
    <2>1. CASE t # r
      <3> DEFINE s == req[t].sec
      <3>1. s \in SecIds /\ secLock[s] = t /\ sec[s].st = "row" /\ req'[t] = req[t]
        BY <1>4, <2>1, CommitHolds DEF SecsOf, IsRow
      <3>2. SecStep(r, s)
        BY <3>1, SecSteps DEF LastInv
      <3>3. ~FreeSecs({s}, r)
        BY <2>1, <3>1, InputAssumption DEF FreeSecs
      <3>4. sec'[s].st = "row"
        BY <3>1, <3>2, <3>3 DEF SecStep
      <3> QED
        BY <1>4, <2>1, <3>1, <3>4
    <2>2. CASE t = r
      BY <1>0, <2>2, CommitStarts DEF Moves, IsRow
    <2> QED
      BY <2>1, <2>2
  <1>7. LastMeansLast'
    <2> SUFFICES ASSUME NEW t \in Reqs, req'[t].pc = "commit"
                 PROVE  req'[t].last <=> SecsAfter(req'[t].doc) = {req'[t].sec}
      BY DEF LastMeansLast, SecsOf, SecsAfter, IsRow
    <2>1. CASE t # r
      <3>1. /\ req[t].doc \in DocIds /\ doc[req[t].doc].st \in Present
            /\ docLock[req[t].doc] = t /\ req'[t] = req[t] /\ req[t].pc = "commit"
        BY <1>4, <2>1, CommitHolds
      <3>2. SecsAfter(req[t].doc) = SecsOf(req[t].doc)
        BY <2>1, <3>1, SecsFixed DEF Present
      <3> QED
        BY <3>1, <3>2 DEF LastInv, LastMeansLast
    <2>2. CASE t = r
      BY <1>0, <2>2, CommitStarts DEF Moves
    <2> QED
      BY <2>1, <2>2
  <1>8. NoMerge'
    <2> SUFFICES ASSUME NEW t \in Reqs PROVE req'[t].kind # "merge"
      BY DEF NoMerge
    <2> QED
      BY <1>0, <1>4 DEF Moves, LastInv, NoMerge
  <1> QED
    BY <1>2, <1>3, <1>5, <1>6, <1>7, <1>8 DEF LastInv

\* The starting tables satisfy it.
LEMMA LastInit == Init => LastInv
  <1> SUFFICES ASSUME Init PROVE LastInv
    OBVIOUS
  <1>1. \A r \in Reqs : req[r].pc = "idle" /\ req[r].kind = "none"
    BY DEF Init, Idle
  <1> QED
    BY <1>1 DEF LastInv, SectionKnown, SameParent, ParentHeld, SectionHeld, LastMeansLast,
                NoMerge, OnSection

\* Every step preserves it.
LEMMA LastNext ==
  ASSUME "merge" \notin Kinds
  PROVE  Inv /\ LastInv /\ [Next]_vars /\ [NoRebirth]_vars => LastInv'
  <1> SUFFICES ASSUME Inv, LastInv, [Next]_vars, [NoRebirth]_vars PROVE LastInv'
    OBVIOUS
  <1>1. CASE UNCHANGED vars
    BY <1>1 DEF vars, LastInv, SectionKnown, SameParent, ParentHeld, SectionHeld, LastMeansLast,
                NoMerge, OnSection, IsRow, Exists, SecsOf
  <1>2. ASSUME NEW r \in Reqs, Start(r) \/ Step(r) \/ Fail(r), NoRebirth
        PROVE  LastInv'
    BY <1>2, LastStep
  <1> QED
    BY <1>1, <1>2 DEF Next, Quiet

\* For any number of requests, any of them cut short anywhere, delete_section
\* takes its document along exactly when it deletes the last section: the lock
\* of the document row makes the count hold until the commit.  The one thing it
\* needs is what LastMeansLast names, that no save re-inserts a document whose
\* row was already gone when delete_section came to lock it; without merges,
\* which delete sections of a document they may not have locked.
THEOREM LastCounted ==
  "merge" \notin Kinds => (Spec /\ [][NoRebirth]_vars => []LastMeansLast)
  <1> SUFFICES ASSUME "merge" \notin Kinds
               PROVE  Spec /\ [][NoRebirth]_vars => []LastMeansLast
    OBVIOUS
  <1>1. Inv /\ LastInv /\ [Next]_vars /\ [NoRebirth]_vars => LastInv'
    BY LastNext
  <1>2. LastInv => LastMeansLast
    BY DEF LastInv
  <1> QED
    BY <1>1, <1>2, LastInit, InitInv, NextInv, PTL DEF Spec

-----------------------------------------------------------------------------
(* Documents keep a section.                                               *)

\* What a store or put brings has at least one section.
Brings == \A r \in Reqs : req[r].pc = "write" => req[r].inc # <<>>

\* The reads of store_memory and put_section see to that.
LEMMA BringsStep ==
  ASSUME <<>> \notin Inputs, TypeOK, Brings, NEW r \in Reqs, Start(r) \/ Step(r) \/ Fail(r)
  PROVE  Brings'
  <1>1. Moves(r)
    BY AllMoves
  <1> SUFFICES ASSUME NEW t \in Reqs, req'[t].pc = "write" PROVE req'[t].inc # <<>>
    BY DEF Brings
  <1>2. CASE t # r
    BY <1>1, <1>2 DEF Moves, Brings
  <1>3. CASE t = r /\ StoreRead(r)
    <2>1. PICK p \in Paths, inc \in Inputs, pin \in Pins :
            Begin(r, [Idle EXCEPT !.kind = "store", !.pc = "write", !.path = p,
                  !.inc = inc, !.pin = pin, !.doc = Resolve(p),
                  !.drow = RowOf(Resolve(p)), !.ex = Preload(Resolve(p))])
      BY <1>3, Zenon DEF StoreRead
    <2> DEFINE q == [Idle EXCEPT !.kind = "store", !.pc = "write", !.path = p,
                  !.inc = inc, !.pin = pin, !.doc = Resolve(p),
                  !.drow = RowOf(Resolve(p)), !.ex = Preload(Resolve(p))]
    <2>2. q.inc = inc
      BY DEF Idle
    <2>3. Begin(r, q)
      BY <2>1
    <2> HIDE DEF q
    <2> QED
      BY <1>3, <2>2, <2>3 DEF Begin, TypeOK
  <1>4. CASE t = r /\ PutRead(r)
    <2>1. PICK p \in Paths, h \in Headings :
            Begin(r, [Idle EXCEPT !.kind = "put", !.pc = "write", !.path = p,
                  !.inc = <<h>>, !.doc = Resolve(p), !.drow = RowOf(Resolve(p)),
                  !.ex = Preload(Resolve(p))])
      BY <1>4, Zenon DEF PutRead
    <2> DEFINE q == [Idle EXCEPT !.kind = "put", !.pc = "write", !.path = p,
                  !.inc = <<h>>, !.doc = Resolve(p), !.drow = RowOf(Resolve(p)),
                  !.ex = Preload(Resolve(p))]
    <2>2. q.inc = <<h>> /\ <<h>> # <<>>
      BY DEF Idle
    <2>3. Begin(r, q)
      BY <2>1
    <2> HIDE DEF q
    <2> QED
      BY <1>4, <2>2, <2>3 DEF Begin, TypeOK
  <1> QED
    BY <1>1, <1>2, <1>3, <1>4 DEF Moves

\* A section a step does not delete stays in its document.
LEMMA StaysIn ==
  ASSUME Inv, LastInv, NEW r \in Reqs, Start(r) \/ Step(r) \/ Fail(r),
         NEW d \in DocIds, NEW s \in SecsOf(d), sec'[s].st # "gone"
  PROVE  s \in SecsAfter(d)
  <1>1. s \in SecIds /\ sec[s].st = "row" /\ sec[s].doc = d
    BY DEF SecsOf, IsRow
  <1>2. SecStep(r, s)
    BY <1>1, SecSteps DEF LastInv
  <1> QED
    BY <1>1, <1>2 DEF SecStep, SecsAfter

\* What the writes of store and put leave of a document's sections.
LEMMA WrittenKeeps ==
  ASSUME TypeOK, NEW d, NEW drop, NEW upd, NEW I, NEW f \in Fresh(I), NEW inc, NEW r,
         sec' = Written(d, drop, upd, f, inc, r)
  PROVE  /\ \A s \in SecIds \ drop : sec[s].st = "row" => sec'[s].st = "row"
         /\ \A i \in I : f[i] \in SecsAfter(d)
  <1>1. ASSUME NEW s \in SecIds \ drop, sec[s].st = "row"
        PROVE  sec'[s].st = "row"
    <2>1. CASE \E i \in DOMAIN f : f[i] = s
      BY <2>1 DEF Written, NewRow
    <2>2. CASE ~(\E i \in DOMAIN f : f[i] = s)
      BY <1>1, <2>2 DEF Written, TypeOK, SecRow
    <2> QED
      BY <2>1, <2>2
  <1>2. ASSUME NEW i \in I
        PROVE  f[i] \in SecsAfter(d)
    <2> DEFINE s == f[i]
    <2>1. i \in DOMAIN f /\ s \in SecIds
      BY DEF Fresh, UnusedSecs
    <2>2. sec'[s] = NewRow(d, inc[CHOOSE j \in DOMAIN f : f[j] = s], r)
      BY <2>1 DEF Written
    <2>3. sec'[s].st = "row" /\ sec'[s].doc = d
      BY <2>2 DEF NewRow
    <2> QED
      BY <2>1, <2>3 DEF SecsAfter
  <1> QED
    BY <1>1, <1>2

\* No step of a request leaves a live document without the sections it had.
LEMMA KeepsSome ==
  ASSUME Inv, LastInv, Brings, NEW r \in Reqs, Start(r) \/ Step(r) \/ Fail(r),
         NEW d \in DocIds, doc[d].st = "live", SecsOf(d) # {}, doc'[d].st = "live"
  PROVE  SecsAfter(d) # {}
  <1> DEFINE q == req[r]
  <1>0. TypeOK /\ ReqOK /\ q \in ReqRow /\ ReadOK(q)
    BY DEF Inv, TypeOK, ReqOK
  <1>1. PICK s \in SecsOf(d) : TRUE
    OBVIOUS
  <1>2. s \in SecIds /\ sec[s].st = "row" /\ sec[s].doc = d
    BY <1>1 DEF SecsOf, IsRow
  <1>3. CASE sec'[s].st # "gone"
    BY <1>3, StaysIn
  <1>4. CASE StoreOverwrite(r)
    <2>1. PICK f \in Fresh(Inserted(q)) : sec' = Written(q.doc, Dropped(q), Updated(q), f, q.inc, r)
      BY <1>4 DEF StoreOverwrite
    <2>2. CASE s \notin Dropped(q)
      <3>1. sec'[s].st = "row"
        BY <1>0, <1>2, <2>1, <2>2, WrittenKeeps
      <3> QED
        BY <1>3, <3>1
    <2>3. CASE s \in Dropped(q)
      <3>1. Inserted(q) = DOMAIN q.inc /\ q.doc = d
        BY <1>2, <2>3 DEF Dropped, Inserted, SecsOf
      <3>2. q.inc # <<>> /\ q.inc \in Seq(Headings)
        BY <1>0, <1>4 DEF Brings, StoreOverwrite, At, ReqRow
      <3>3. 1 \in DOMAIN q.inc
        BY <3>2
      <3> QED
        BY <1>0, <2>1, <3>1, <3>3, WrittenKeeps
    <2> QED
      BY <2>2, <2>3
  <1>5. CASE CreateDoc(r) \/ PutMerge(r)
    <2>1. CASE CreateDoc(r)
      <3>1. PICK e \in UnusedDocs, f \in Fresh(DOMAIN q.inc) :
              sec' = Written(e, {}, {}, f, q.inc, r)
        BY <2>1 DEF CreateDoc
      <3>2. sec'[s].st = "row"
        <4>1. s \in SecIds \ {}
          BY <1>2
        <4>2. \A x \in SecIds \ {} : sec[x].st = "row" => sec'[x].st = "row"
          BY <1>0, <3>1, WrittenKeeps
        <4> QED
          BY <1>2, <4>1, <4>2
      <3> QED
        BY <1>3, <3>2
    <2>2. CASE PutMerge(r)
      <3>1. PICK f \in Fresh(Inserted(q)) : sec' = Written(q.doc, {}, Updated(q), f, q.inc, r)
        BY <2>2 DEF PutMerge
      <3>2. sec'[s].st = "row"
        <4>1. s \in SecIds \ {}
          BY <1>2
        <4>2. \A x \in SecIds \ {} : sec[x].st = "row" => sec'[x].st = "row"
          BY <1>0, <3>1, WrittenKeeps
        <4> QED
          BY <1>2, <4>1, <4>2
      <3> QED
        BY <1>3, <3>2
    <2> QED
      BY <1>5, <2>1, <2>2
  <1>6. CASE DeleteDocRow(r) \/ (DeleteSecCommit(r) /\ q.last)
    <2>1. q.doc \in DocIds
      BY <1>0, <1>6 DEF DeleteDocRow, DeleteSecCommit, At, ReadOK, HasDoc
    <2>2. doc' = [doc EXCEPT ![q.doc] = GoneDoc] /\ \E S : sec' = Purged(SecsOf(q.doc) \cup S)
      BY <1>6 DEF DeleteDocRow, DeleteSecCommit, PurgeDoc
    <2>3. d # q.doc
      BY <1>0, <2>2 DEF GoneDoc, NoDocRow, TypeOK
    <2>4. CASE DeleteDocRow(r)
      <3>1. sec' = Purged(SecsOf(q.doc) \cup {}) /\ s \notin SecsOf(q.doc) \cup {}
        BY <1>2, <2>3, <2>4 DEF DeleteDocRow, PurgeDoc, SecsOf
      <3> QED
        BY <1>2, <1>3, <3>1 DEF Purged
    <2>5. CASE DeleteSecCommit(r)
      <3>1. sec' = Purged(SecsOf(q.doc) \cup {q.sec})
        BY <1>6, <2>3, <2>5 DEF DeleteDocRow, At, DeleteSecCommit, PurgeDoc
      <3>2. sec[q.sec].doc = q.doc
        BY <2>5, CommitHolds DEF DeleteSecCommit, At, SecsOf
      <3>3. s \notin SecsOf(q.doc) \cup {q.sec}
        BY <1>2, <2>3, <3>2 DEF SecsOf
      <3> QED
        BY <1>2, <1>3, <3>1, <3>3 DEF Purged
    <2> QED
      BY <1>6, <2>4, <2>5
  <1>7. CASE DeleteSecCommit(r) /\ ~q.last
    <2>1. sec' = Purged({q.sec}) /\ q.pc = "commit"
      BY <1>7 DEF DeleteSecCommit, At
    <2>2. q.sec \in SecsOf(q.doc) /\ SecsOf(q.doc) # {q.sec}
      BY <1>7, <2>1, CommitHolds DEF LastInv, LastMeansLast
    <2>3. PICK x \in SecsOf(d) : x # q.sec
      <3>1. CASE d = q.doc
        BY <2>2, <3>1
      <3>2. CASE d # q.doc
        BY <1>1, <1>2, <2>2, <3>2 DEF SecsOf
      <3> QED
        BY <3>1, <3>2
    <2>4. x \in SecIds /\ sec[x].st = "row"
      BY <2>3 DEF SecsOf, IsRow
    <2>5. sec'[x].st # "gone"
      BY <2>1, <2>3, <2>4 DEF Purged
    <2> QED
      BY <2>3, <2>5, StaysIn
  <1>8. CASE Supersede(r)
    <2>1. sec' = Purged(SecsOf(q.tgt)) /\ q.tgt \in DocIds
      BY <1>0, <1>8 DEF Supersede, At, ReadOK, LinkEnds
    <2>2. CASE d = q.tgt
      <3>1. doc' = [doc EXCEPT ![d].st = "superseded"]
        BY <1>8, <2>2 DEF Supersede
      <3>2. doc'[d].st = "superseded"
        BY <1>0, <3>1 DEF TypeOK, DocRow
      <3> QED
        BY <3>2
    <2>3. CASE d # q.tgt
      <3>1. s \notin SecsOf(q.tgt)
        BY <1>2, <2>3 DEF SecsOf
      <3> QED
        BY <1>2, <1>3, <2>1, <3>1 DEF Purged
    <2> QED
      BY <2>2, <2>3
  <1>9. CASE UpdateSave(r)
    <2>1. q.srow.st = "row" /\ q.srow \in SecRow
      BY <1>0, <1>9 DEF UpdateSave, At, ReadOK, ReadSec, ReqRow
    <2>2. Edited(q, r).st = "row"
      BY <2>1 DEF Edited, SecRow
    <2>3. sec'[s] \in {sec[s], Edited(q, r)}
      BY <1>0, <1>2, <1>9 DEF UpdateSave, TypeOK
    <2> QED
      BY <1>2, <1>3, <2>2, <2>3
  <1>10. CASE \/ UNCHANGED sec
              \/ \E S : sec' = Flagged(S)
              \/ \E x : sec' = [sec EXCEPT ![x].verified = TRUE] \/ sec' = [sec EXCEPT ![x].flagged = FALSE]
    <2>1. sec[s] \in SecRow
      BY <1>0, <1>2 DEF TypeOK
    <2>2. sec'[s].st = sec[s].st
      BY <1>0, <1>2, <1>10, <2>1 DEF TypeOK, Flagged, SecRow
    <2> QED
      BY <1>2, <1>3, <2>2
  <1>11. ~MergeCommit(r)
    BY DEF MergeCommit, At, LastInv, NoMerge
  <1>12. Start(r) => FlagChanged(r) \/ UNCHANGED sec
    BY Zenon DEF Start, StoreRead, PutRead, UpdateRead, VerifyRead, TitleRead, DeleteRead,
           EvictRead, DeleteSectionRead, MergeRead, LinkRead, Unlink, ArchiveRead, Begin
  <1>13. StampVerified(r) \/ ClearFlag(r) \/ FlagDependents(r) \/ FlagChanged(r) =>
          \/ UNCHANGED sec
          \/ \E S : sec' = Flagged(S)
          \/ \E x : sec' = [sec EXCEPT ![x].verified = TRUE] \/ sec' = [sec EXCEPT ![x].flagged = FALSE]
    BY DEF StampVerified, ClearFlag, FlagDependents, FlagChanged
  <1>14. Step(r) \/ Fail(r) =>
           \/ UNCHANGED sec \/ CreateDoc(r) \/ StoreOverwrite(r) \/ PutMerge(r) \/ UpdateSave(r)
           \/ StampVerified(r) \/ ClearFlag(r) \/ FlagDependents(r)
           \/ DeleteDocRow(r) \/ DeleteSecCommit(r) \/ MergeCommit(r) \/ Supersede(r)
    BY RejectedAbandons
       DEF Step, Rejected, Abandon, TitleWrite, ArchiveOne, ListDependents, DeleteDocSections,
           LockParent, DeleteSecRow, MergeMove, Chain, Revive, Link
  <1> QED
    BY <1>4, <1>5, <1>6, <1>7, <1>8, <1>9, <1>10, <1>11, <1>12, <1>13, <1>14

\* Under the same conditions, and when every text that is stored parses to at
\* least one section, no step of any request leaves a live document without the
\* sections it had: two concurrent delete_section calls cannot both think that
\* the other's section remains.
THEOREM SomeRemain ==
  "merge" \notin Kinds /\ <<>> \notin Inputs => (Spec /\ [][NoRebirth]_vars => NeverEmptied)
  <1> SUFFICES ASSUME "merge" \notin Kinds, <<>> \notin Inputs
               PROVE  Spec /\ [][NoRebirth]_vars => NeverEmptied
    OBVIOUS
  <1> DEFINE keeps == \A d \in DocIds : ~( /\ doc[d].st = "live" /\ SecsOf(d) # {}
                                           /\ doc'[d].st = "live" /\ SecsOf(d)' = {} )
  <1>1. Inv /\ LastInv /\ [Next]_vars /\ [NoRebirth]_vars => LastInv'
    BY LastNext
  <1>2. Init => Brings
    BY DEF Init, Brings, Idle
  <1>3. Inv /\ Brings /\ [Next]_vars => Brings'
    <2> SUFFICES ASSUME Inv, Brings, [Next]_vars PROVE Brings'
      OBVIOUS
    <2>1. CASE UNCHANGED vars
      BY <2>1 DEF vars, Brings
    <2>2. ASSUME NEW r \in Reqs, Start(r) \/ Step(r) \/ Fail(r)
          PROVE  Brings'
      BY <2>2, BringsStep DEF Inv
    <2> QED
      BY <2>1, <2>2 DEF Next, Quiet
  <1>4. Inv /\ LastInv /\ Brings /\ [Next]_vars => [keeps]_vars
    <2> SUFFICES ASSUME Inv, LastInv, Brings, Next, ~UNCHANGED vars, NEW d \in DocIds,
                        doc[d].st = "live", SecsOf(d) # {}, doc'[d].st = "live"
                 PROVE  SecsOf(d)' # {}
      OBVIOUS
    <2>1. PICK r \in Reqs : Start(r) \/ Step(r) \/ Fail(r)
      BY DEF Next, Quiet
    <2>2. SecsAfter(d) # {}
      BY <2>1, KeepsSome
    <2> QED
      BY <2>2 DEF SecsAfter, SecsOf, IsRow
  <1> QED
    BY <1>1, <1>2, <1>3, <1>4, LastInit, InitInv, NextInv, PTL DEF Spec, NeverEmptied
=============================================================================
