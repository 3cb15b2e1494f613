# Verification of memory-system

memory-system is a Go server that keeps Markdown memories of agents in
PostgreSQL and serves them over HTTP and MCP to many tenants. This directory
holds TLA+ models of its concurrent parts, the TLC runs that check them on
small instances, and theorems about them that TLAPS checks for every instance.

    tlc -workers 2 -config MCDocStore.cfg MCDocStore      # one run
    tlapm DocStoreProofs.tla                              # one proof module

`PROJECT.json` maps every definition that models code to the lines it models,
and lists the runs, the mutants each property was tried on, the hazards and
the theorems.

| module | what it is |
| --- | --- |
| `DocStore` | documents, sections and edges, and every handler that writes them |
| `MCDocStore` | instances of `DocStore` for TLC |
| `DocStoreProofs` | theorems about `DocStore` |
| `AuthzCheck` | the walk of the authorization engine, for any namespace |
| `AuthzNamespace` | the namespace the service hands to that engine |
| `MCAuthzCheck` | an instance of both for TLC |
| `AuthzCheckProofs` | theorems about `AuthzCheck` |
| `Tenancy` | tenants, their users, API keys, the tuples kept beside them, bootstrap, the start of a replica |
| `MCTenancy` | the scenarios of `Tenancy` for TLC |
| `TenancyProofs` | theorems about `Tenancy`: types, owners, keys, bootstrap |
| `TenancyRoleProofs` | theorems about roles and their tuples; extends `TenancyProofs` |
| `OneTime` | abstract: a store of one-time credentials |
| `OAuthTokens` | authorization codes, refresh tokens and the token endpoint; refines `OneTime` |
| `OAuthLogin` | sign-in: from an upstream identity to a user row and a code |
| `OAuth` | both, with the client row of the web UI and the signing keys |
| `MCOAuth` | an instance of `OAuth` for TLC |
| `OAuthTokensProofs`, `OAuthProofs` | theorems about the two |
| `Replica` | what the background modules share: which replicas run |
| `ImportJobs` | the import queue, its workers, the ingestion of an archive |
| `CleanupQueue` | the scan for near-duplicates, its queue, the agents that work it off |
| `ConfigCache` | the two configuration caches, their writers and the listener |
| `Background` | the composition of the last three with the starts and stops of replicas |
| `MCBackground` | instances of `Background` for TLC |
| `ImportJobsProofs`, `BackgroundProofs` | theorems about them |

## The system

Every request is a goroutine of the HTTP server that calls one method of
`MemoryService`. The methods share no memory worth naming: they meet in the
database, at the isolation level READ COMMITTED, where each statement sees what
was committed before it began. Few of them lock what they read. What goes wrong
here goes wrong between two statements of a handler. Beside the requests run a
cleanup scanner (a ticker), import workers (tickers), a goroutine that listens
for configuration changes, and detached goroutines that flag dependent
documents. Several replicas of the server may run on one database.

Calls go one way: surface -> middleware -> service -> repositories -> tables.
The service asks the authorization engine before it acts; the engine reads
`relation_tuples`, which the service writes when it creates tenants, users,
keys and documents. The configuration caches are read everywhere and reloaded
after a write or a notification.

### Inventory

**Document store** (`service/memory.go`, `service/write_path.go`,
`service/cleanup.go`, `repository/document.go`, `section.go`, `edge.go`).
State: the tables `documents`, `sections`, `document_edges`. Operations:
store, put section, update section, mark verified, retitle, delete document,
delete section, merge documents, link, unlink, flag. Hard: handlers read rows,
call an embedding service, and write long after they read, some of them whole
rows that gorm inserts again when they were deleted meanwhile; two of
them lock rows in opposite orders. Correct when: one live document per path;
nothing refers to a deleted document; no handler undoes another's change with
what it read before it; no live document is left empty; every request is
answered. *Modelled in `DocStore`.*

**Retention and archive sweeps** (`repository/retention.go`,
`cleanup/scanner.go`). State: none of their own. Operations: select expired
documents, evict each in a transaction; select documents whose sections are all
flagged, archive each. Hard: candidates go stale between the selection and the
deletion; one failure ends the sweep of a tenant. Correct when: an eviction
leaves no reference behind, and the sweep makes progress. *One eviction and one
archival are requests of `DocStore`; the loop over them is not modelled.*

**Search and ranking** (`repository/section.go`, `similarity.go`,
`service/memory.go`). State: none. Operations: hybrid search, reciprocal-rank
fusion, maximal marginal relevance, staleness weighting. Hard: ties, empty
lists, limits beyond the pool. Correct when: fusion and re-ranking return a
permutation of a part of their input, in the order their definition gives.
*Not modelled, see the end.*

**Cleanup queue and scanner** (`repository/cleanup_queue.go`,
`cleanup/scanner.go`, `service/cleanup.go`, `cleanup/notifier.go`). State:
`cleanup_queue`, the scanner's mutex. Operations: scan, upsert a pair, resolve,
dismiss. Hard: an upsert is two lookups and an insert; documents disappear while
a scan runs; nothing asks whether an entry is resolved already. Correct when: a
pair is pending once; a dismissed pair stays dismissed; a pending pair names
documents that exist. *Modelled in `CleanupQueue`.*

**Tenants, grants and bootstrap** (`service/memory.go`,
`service/provisioning.go`, `repository/tenant.go`, `server/bootstrap.go`).
State: `tenants`, `tenant_users`, and the relation tuples that mirror them.
Operations: create and delete a tenant, grant, change and revoke a user's role,
grant and revoke access to a tenant or a document, bootstrap, reset. Hard: the
tuple store commits apart from the transaction that writes the row, so a
rollback undoes one and not the other; roles are read before the transaction
that acts on them; a service principal follows a count of administrators. Correct
when, at rest: tuples agree with rows in the direction that denies; a personal
tenant has one user; one bootstrap succeeds. *Modelled in `Tenancy`.*

**Authorization check** (`authz/check.go`, `config.go`, `store.go`,
`store_pg.go`, `tuple.go`, `model.go`). State: `relation_tuples`; during a
check, the path, the memo. Operations: check, write tuples. Hard: cycles, the
memo, the depth cap, failing reads, tuples that change during a walk. Correct
when: a grant is justified by tuples that were there, a denial is not refuted by
tuples that were there all along, and every check returns. *Modelled in
`AuthzCheck` and `AuthzNamespace`.*

**Authorization seeding** (`authzseed/authzseed.go`). State: none. Operations:
backfill of tuples and administrators at start-up. Hard: it runs at every
restart over rows that may have been revoked. Correct when: it brings back
nothing that was revoked. *Modelled in `Tenancy` as the start of a replica.*

**API keys** (`auth/apikey.go`, `repository/apikey.go`, `service/memory.go`).
State: `api_keys`. Operations: create, rotate with a grace period, revoke,
delete, purge. Hard: rotating twice; the grace of a key that was about to
expire. Correct when: a key has one replacement, and no operation lengthens the
life of a dead key. *Modelled in `Tenancy`.*

**OAuth server** (`authletas/`). State: rows of `tenant_users`, which it looks
up, stamps with an identity and creates. Operations: resolve a login, attach the
claims of a user, authenticate a request. Hard: a login is several statements;
an address passes to another identity between two of them; refresh tokens
outlive memberships. Correct when: an identity is never resolved to the row of
another; a removed user gets no claims. *Modelled in `OAuthLogin` and `OAuth`;
the protocol engine is an external library.*

**OAuth stores** (`authletstore/`). State: codes, refresh tokens, revoked
families, signing keys, clients. Operations: save, consume once, mark used,
revoke a family, activate and retire a key, expire. Hard: single use under
concurrent redemption; reuse detection against rotation; two replicas that
activate keys. Correct when: a code is redeemed once; a family in which a token
was used twice ends revoked; one key is active. *Modelled in `OAuthTokens` and
`OAuth`.*

**Import jobs** (`service/import.go`, `import_worker.go`,
`repository/import_job.go`). State: `import_jobs`. Operations: enqueue, claim,
progress, finish, sweep. Hard: crashes between claim and finish; a sweep by
another replica while the worker is alive. Correct when: a job is run once, a
final state is final, and a claimed job reaches one. *Modelled in `ImportJobs`.*

**Configuration caches** (`globalconfig/`, `staleness/`, `pgnotify/`,
`models/doc_type_policy.go`, `repository/instance_config.go`). State: a
snapshot pointer per cache, the listener's connection. Operations: load, refresh
after a write, reload on notification, reconnect. Hard: two loads at once store
in the wrong order; notifications sent during a reconnect are lost. Correct
when: a cache equals the table once writes stop, and who has written reads at
least his write. *Modelled in `ConfigCache`.*

**Schema migration** (`database/database.go`). One transaction of DDL at
start-up, under an advisory lock. *Not modelled; its unique indexes and foreign
keys are guards of `DocStore`, `Tenancy` and `CleanupQueue`; its backfill is a
step of `Tenancy`.*

**HTTP and MCP surface** (`server/`, `mcp/`). Decoding of arguments and mapping
of errors around one service call. *Not modelled: no state.*

**Middleware** (`middleware/`, `panicguard/`). State: the rate limiter's map of
visitors, cleared when it is full. *Not modelled.*

**History, metrics and audit** (`repository/mutation_history.go`,
`metric_events.go`, `override_log.go`, `service/metrics.go`). Append-only rows
that no handler decides on. *Not modelled.*

**Read-side views** (`service/includes.go`, `snippet.go`,
`staleness_view.go`, `list_options.go`, `tenant_listing.go`,
`repository/lint.go`). *Not modelled: reads only.*

**Embedding providers** (`service/embedder*.go`, `embedding.go`). External
services; in `DocStore` a call to one succeeds or fails the request. *Not
modelled further.*

**Configuration and start-up** (`config/`, `cmd/server/main.go`). *The order of
a start is in `Background`, its writes to tenants in `Tenancy`; reading the
environment is not modelled.*

**Browser user interface** (`server/ui_embed.go`), **benchmarks**
(`benchmarks/longmemeval`). *Not modelled: a client, a separate program.*

## DocStore

### State

`doc`, `sec` and `edges` are the three tables, for one tenant. A row of `doc`
is `unused` before its id is handed out, `gone` after its deletion, `live`, or
archived (`stale` by the sweep, `superseded` by an edge); archived rows keep
their columns. A path stands for category, subcategory and slug. The title of a
document and the content of a section are the request that wrote them, which is
all the properties need to know of text. `docLock` and `secLock` say which open
transaction holds a row. `req` is a record per request: its program counter, and
everything it has read, so that a later step works with old values exactly where
the code does.

### Actions

One action is one statement or one short transaction. A read action (`StoreRead`,
`UpdateRead`, ...) starts a request. The steps that follow are the transactions
of the handler in the order of the code, each with its rejections
(`StoreRejected`, `CreateConflict`, ...), which roll back. `Fail` cuts a request
short anywhere: an error of the embedding service, a deadline, a crash of the
process. Transactions that hold row locks over several statements are split at
them: the document deletes (sections, then document), `DeleteSection` (document,
section, count, commit), `MergeDocuments` (sections and winner, then loser).

| handler | actions |
| --- | --- |
| `StoreDocumentScoped` | `StoreRead`, `CreateDoc`, `CreateConflict`, `StoreOverwrite`, `StoreRejected`, `Chain` |
| `PutSection` | `PutRead`, `CreateDoc`, `CreateConflict`, `PutMerge`, `PutRejected`, `Chain` |
| `UpdateSection`, `flagDependents` | `UpdateRead`, `UpdateSave`, `UpdateRejected`, then the steps of `MarkVerified`, `ListDependents`, `FlagDependents` |
| `MarkVerified` | `VerifyRead`, `StampVerified`, `VerifyRejected`, `ClearFlag`, `Revive` |
| `FlagChangedPaths` | `FlagChanged` |
| `UpdateDocumentTitle` | `TitleRead`, `TitleWrite` |
| `DeleteDocument(ByID)`, `evict` | `DeleteRead`, `EvictRead`, `DeleteDocSections`, `DeleteDocRow`, `DeleteRejected` |
| `DeleteSection` | `DeleteSectionRead`, `LockParent`, `DeleteSecRow`, `DeleteSecRejected`, `DeleteSecCommit` |
| `MergeDocuments` | `MergeRead`, `MergeMove`, `MergeCommit`, `MergeRejected` |
| `CreateEdge`, `DeleteEdge` | `LinkRead`, `Link`, `Supersede`, `LinkRejected`, `Unlink` |
| `ArchiveExpiredStale` | `ArchiveRead`, `ArchiveOne` |
| PostgreSQL | guards `FreeDoc`, `FreeSecs` (row locks), `Unclaimed` (the partial unique index on live paths), foreign keys, `DeadlockAbort` |

`writeSections` is the helpers `Group` to `Dropped`: it pairs incoming sections
with existing ones by heading and by position among equal headings, and then
updates, inserts or replaces by the write mode of the document type.

gorm's `Save` is the least obvious part. `Save` of a document or a section
writes every column, and inserts the row when the update finds none, so a
handler that read a row before another request deleted it brings the row back.
`sections.Update` goes further: its `Save` first inserts the document the
section was read with. `StoreOverwrite` and `UpdateSave` do what these do.

### Properties

- `TypeOK`: rows keep their type, and no edge joins a document to itself,
  automatic edges included.
- `RefIntegrity`: a section, and each end of an edge, names a document that is
  there, whatever is deleted, merged, purged or inserted again at once.
- `OneLivePerPath`: at most one live document per path.
- `TitleNotReverted`: a step that changes a title sets that of its own request.
  `put_section` holds a row it read before; it must not write it back.
- `LastMeansLast`: what `delete_section` counted is still true when it commits.
  This is what its lock of the parent row is for.
- `NeverEmptied`: no step leaves a live document without the sections it had.
- `Served`: every request is answered, though deletions wait for each other.
- `SupersedeArchives`: the target of a `supersedes` edge is not live.

### Runs

| run | instance | shows |
| --- | --- | --- |
| `MCDocStore` | two requests of every kind, failures at any step, two live documents and an archived one, an edge, three paths, two headings | `TypeOK`, `RefIntegrity`, `OneLivePerPath`, `TitleNotReverted`, `Served` hold |
| `DocStoreThree` | three requests of every kind but merge, one document with two sections | `LastMeansLast`, `NeverEmptied`, `OneLivePerPath` hold |
| `DocStoreMerge` | a merge beside a `delete_section` | `NeverEmptied` fails |
| `DocStoreSupersede` | a store beside a link | `SupersedeArchives` fails |

*Bounds.* `MaxDoc` and `MaxSec` exceed what the requests of a run can create,
so no creation is refused for want of an id. Two requests show every
interleaving of two handlers: most hazards here are a read, a foreign commit and
a write. A race of section counts or of a path needs a third request to upset two others,
so `DocStoreThree` has three; `OneLivePerPath` is proved for any number. Two headings and two incoming shapes
make `writeSections` update, insert and collide. Two sections per document are
the smallest case in which "the last section" depends on an order.

*Fairness.* `FairSpec` is weak fairness of each request's own steps: the
goroutine of a handler runs on, and PostgreSQL grants a row lock once it is
free. Starting a request and failing are not fair. `Served` needs
`DeadlockAbort`: `delete_document` locks sections before the document, and
`delete_section` the document before the section, so they can wait for each
other, and only the deadlock detector of the database ends that.

*Deadlock.* `Quiet` is a step of the model when nothing is in flight, so TLC's
deadlock check finds requests that are stuck and nothing else.

### Findings

1. `DocStoreMerge`. `MergeDocuments` checks that the sections to keep belong to
   one of its documents, then updates them and deletes all others, without a
   lock on the sections and without looking at how many rows it updated. A
   `delete_section` of a kept section that commits in between is not noticed:
   the winner ends live and empty. The comment (`cleanup.go:65`) promises that
   the operation is rejected.
2. `DocStoreSupersede`. The comment in `CreateEdge` (`memory.go:3658`) says a
   committed supersedes edge implies a committed archive. A store that read its
   document before writes `archived_at` back as it read it.

More races are in the model without a property of their own. An `append_only`
document can get a heading twice. An eviction can take a document that was
pinned after the selection. The save of `update_section` clears a
needs-verification flag that was set while the section was embedded
(`memory.go:1658`). When that save inserts a deleted document again, one
`delete_section` that found no parent row works without the lock beside one that
holds it, and both sections go (`memory.go:1935`); that takes five requests, so
the three of `DocStoreThree` do not get there.

### Proofs

`DocStoreProofs` proves `TypeCorrect`, `ReferencesHold`, `PathsUnique` and
`TitlesKept`: `TypeOK`, `RefIntegrity`, `OneLivePerPath` and the action property
`TitleNotReverted` hold of `Spec` for every set of requests, paths, headings,
bounds, modes and starting tables. The assumptions are
`InputAssumption` (the inputs are ones the API accepts) and `TableAssumption`
(the starting tables have integrity and unique live paths).

The inductive invariant is `Inv == TypeOK /\ ReqOK /\ Integrity`, where
`Integrity` is the last two. They are not inductive alone, because requests act
on what they read. `ReqOK` says what survives of a read until it is used: a row
held for a whole-row save was live at the path the request names (`ReadLive`),
so the unique index that is checked for that path guards the row that is
written; a section held for a save belongs to the document the save inserts
first (`ReadSec`); the two documents of a link or a merge differ (`LinkEnds`,
`MergeEnds`). No fact about the current tables survives, and none is claimed:
foreign keys and the index are the guards that carry each step. The steps are
grouped by the shape of their change to the tables (`RefKept`, `SectionsOnly`,
`OneDocument`, `PurgeDocRef`, `DocUpdate`), with a lemma per shape and one case
per action. `TitlesKept` follows from the types alone: `OwnTitle` says of one step
and one document what the property says, and the re-insert of `update_section`
satisfies it because it writes only where no document is.

`LastMeansLast` and `NeverEmptied` are not true of every instance: beside a merge
`NeverEmptied` fails with two requests (`DocStoreMerge`), and with five the
re-insert of a deleted document defeats the lock (see the observations above).
`LastCounted` and `SomeRemain` say that nothing else does: both hold of
`Spec /\ [][NoRebirth]_vars` for any number of requests of every other kind.
`NoRebirth` excludes one thing: that a save inserts a document again which was gone
when `delete_section` came to lock it, before that call has deleted its section.
`SomeRemain` also needs that every stored text has a section
(`<<>> \notin Inputs`). The invariant is `LastInv`, beside `Inv`:

- `SectionKnown`, `SameParent`: a request on a section names the document the
  row is in, and two requests on one section name the same document, since no row
  changes document (a merge would move it, without its document's lock).
- `ParentHeld`, `SectionHeld`: between the lock and the commit `delete_section`
  holds the document's row if there is one, and then the section's.
- `LastMeansLast`: so between the count and the commit nobody else deletes
  a section of the document, and whoever inserts one has to wait for the lock.

Each action is first shown to do one of a few things to a section (`SecStep`) and to
a request (`Moves`); the invariant is then proved of those. TLC finds `LastInv`
violated without `NoRebirth` and holding with it on `DocStoreThree`'s instance.

`Served` is liveness and stays with TLC.

### Left out

Ordinals, timestamps, embeddings, history and audit rows; the decision of the
duplicate guard (its early return is `Fail`); tenant scopes; the rows of
`relation_tuples` and `cleanup_queue` that a deletion prunes (they are in
`Tenancy` and `CleanupQueue`); the deletion of a whole tenant (in `Tenancy`). The shared lock of a
foreign-key check is modelled as exclusive where a merge takes it; what a shared
lock would let through commutes with the merge.

## AuthzCheck

### State and actions

`tuples` is the table. `stack` is the recursion of `check`: a frame per open
node with the next clause of its union, the tuples read and not yet looked at,
and the first error. `memo` is the per-check memo; every rewrite is a union, so
the first grant ends the check and only denials are ever read from it. `outcome`
is what `Check` returns. Two history variables, `ever` and `always`, are the
tuples stored at some moment and throughout the current check.

`Ask` is the call of `Check`. `EvalComputed`, `Read`, `Grant`, `Visit` and
`Return` are the clauses of `evalRewrite`, `evalThis` and `evalTupleToUserset`:
a read takes what the table holds at that moment (or fails), and the loop visits
the rows in whatever order they came. `Verdict` is the prologue of `check` in its
order: depth cap, memo, cycle, definition. `Commit` is a transaction of another
request on the tuples, at any point of the walk.

`AuthzNamespace` is `DefaultNamespace` of `config.go`, the types system, tenant
and document with their relations. `config.go:31-33` calls the subject types of a
relation documentation that `Check` does not enforce; `evalThis` does enforce
the wildcard (`check.go:148`), and so does `Names`.

### Properties

`Member(n, T)` is the reference definition of membership: `n` is in every set of
nodes closed under the rewrites over the tuples `T`. No recursion, path or memo.

- `Exact`: a grant implies `Member(root, ever)`; a denial without an error
  implies `~Member(root, always)`. With no concurrent commit the two are the
  same set, and the answer is exactly membership. A check beside a swap of roles
  may deny a user who holds one role or the other at every moment; this is the
  most a walk of separate reads can promise, and `Exact` says so.
- `Returns`: every check returns, cyclic usersets included, under weak fairness
  of the walk (`FairSpec`): the goroutine runs on. Commits are not fair.

### Runs

| run | instance | shows |
| --- | --- | --- |
| `MCAuthzCheck` | the service's namespace, a tenant, a document, 32 starting tables, three queries, failing reads, one commit out of a grant, a revocation and the deletion of the tenant | `TypeOK`, `Exact`, `Returns` hold |

*Bounds.* The tables contain every kind of row that `evalThis` and
`evalTupleToUserset` treat differently: direct, wildcard permitted and not,
userset, a cycle over two objects, a parent edge to a userset, a userset of an
undefined relation. `MaxDepth` is 5, less than the longest path, so the cap is
met. One commit is enough for a walk to see two states of the table; the theorem
is for any number.

*Observation.* A node between the start of a cycle and the node that closes it
is remembered as denied though the denial came from the prune, which the comment
(`check.go:58-61`) rules out. The answer is still right, and the proof shows why.

### Proofs

`AuthzCheckProofs` proves `TypeCorrect` and `CheckExact` (`Exact`) for every
namespace, table, depth and sequence of commits, from `ModelAssumption`,
`NamespaceAssumption` and `StoreAssumption`. The inductive invariant is
`Inv == TypeOK /\ Window /\ Path /\ Barrier /\ Exact`:

- `Window`: `always` is within the table and the table within `ever`.
- `Path`: the tuples a frame holds were stored during this check, and each open
  node justifies the root: every closed set of nodes over `ever` that contains
  the node contains the root. A grant at the top is then a grant of the root.
- `Barrier`: as long as no frame has met an error, everything the walk has
  denied or left behind, a memo node or a clause that is done, leads over
  `always` only to nodes that are denied themselves or still open on the path. A single denial may rest on a prune and
  be wrong; the set of them is not. When the root's frame returns, nothing is
  open any more, so the complement of the denied nodes is closed under the
  rewrites, and the root is not in it.

This is why the memo may hold a node that the subject does hold: such a node leads
to an open node that has yet to be evaluated in full. `Returns` is liveness and
is model-checked only.

## Tenancy

### State

`tenants`, `users`, `keys` and `docs` are rows; `tuples` is `relation_tuples`. A
row is `pending` between its insert and the commit of its transaction. A request
is a record of what it has read, what it will do to the tuples (`todo`) and how
far it is; row locks are read off these records (`UserLocked`, `KeyLocked`,
`TenantShared`, `TupleLocked`). `boot` is the start of each replica, `armed` the
replicas that hold a bootstrap token.

The code uses two stores. `Bootstrap`, `ResetBootstrap`, `Provision` and
`CreateTenant` bind the tuple store to their transaction: they are single steps.
`GrantTenantUser`, `UpdateTenantUserRole`, `RevokeTenantUser` and `RotateAPIKey`
write rows in a transaction and tuples through the pool: each tuple is a step
that is visible at once (`TxnTuple`), on a second connection of the pool
(`FreeConn`; `Conns` is its size), and stays when the transaction is rolled back (`Abandon`).

| handler | actions |
| --- | --- |
| `GrantTenantUser` | `GrantRead`, `BeginTxn`, `GrantInsert`, `GrantError`, `TxnTuple`, `SyncServicePrincipalAdmin`, `CommitUser` |
| `UpdateTenantUserRole`, `RevokeTenantUser` | `UserRead`, `BeginTxn`, `ChangeUser`, `TxnTuple`, `SyncServicePrincipalAdmin`, `CommitUser` |
| `CreateTenant`, `Provision` | `CreateRead`, `ProvisionRead`, `CreateTenant`, `CreateRefused` |
| `UpdateTenant`, `DeleteTenant` | `UpdateTenantRead`, `SaveTenant`, `DeleteTenantRead`, `Prune`, `DropTenant`, `DropError` |
| grants and revocations of access | `GrantTenantAccess`, `RevokeTenantAccess`, `DocumentAccess`, `AclWrite` |
| API keys | `CreateKeyRead`, `InsertKey`, `SeedKeyTuple`, `RotateRead`, `RotateMint`, `RotateGone`, `RotateRetire`, `RotateRevoked`, `RevokeAPIKey`, `DeleteKeyRead`, `DeleteKey`, `PurgeDeadKeys`, `Expire` |
| `POST /bootstrap` | `BootstrapStart`, `BootstrapCheck`, `Bootstrap`, `BootstrapRefused` |
| start of a replica | `BackfillRead`, `BackfillCommit`, `SeedRead`, `SeedWrite`, `SelfCheck`, `ResetRead`, `ResetCommit`, `Arm`; `Stop` |

### Properties

- `SingleOwner`: a personal tenant has one user, whatever grants, first logins
  and bootstraps overlap, unless an admin changed a tenant's type.
- `FoundedOnce`: a founding key appears only when nobody is an admin.
- `RoleAgrees`: without failures, a committed role and the stored tuples name the
  same role, whatever changes of it overlap.
- `OneSuccessor`: a key rotated without a grace period has one replacement.
- `Served`: every request is answered, those that wait for the rows, tuples and
  connections of others included, unless the server ends in one of two waits that
  nothing ends: `Starved` (the pool is held by transactions, and one of them needs
  a second connection) or `Crossed` (the deletion of a tenant waits for a row of a
  transaction whose next tuple the deletion has deleted).
- `KeepsReach`: the founding key stays an admin as long as it exists.

### Runs

`MCTenancy` runs the scenarios of `AllStarts`: each is a content of the tables
and the kinds of request that meet. Two requests, one replica that may stop once,
three users, three keys, four tenants. The scenarios are the pairs of handlers in
which one locks, deletes or counts a row that the other refers to: grants beside
first logins, role changes, retyping, rotation and key creation; deletions beside
grants, role changes, revocations, delegated access, rotation, retyping and key
creation; rotation beside revocation and deletion of the key; two bootstraps.
Role changes beside retyping, and three requests at once, are in no scenario: the
safety properties hold of them by the theorems below, and of `Served` nothing is
known there. `TenancyRearm` is one scenario in which `KeepsReach` fails.

*Fairness* (`FairSpec`): a request in progress and a replica that starts go on;
the database rolls back what a stopped replica had open.

*Hangs.* Both exceptions of `Served` are reached, and TLC reports either when it
is left out. `Starved`: `MaxConns` is a pool with room for the two requests and
their second connections; a scenario with "crowd" has `Few = 2`, as if other
requests held the rest of the ten (`database.go:57`). Two transactions that each
hold a connection and need another for their tuples (`memory.go:3442`) then wait
until a client gives up, also when one of them waits for a row of the other; a rotation beside
the deletion of another tenant, which needs one connection only, waits and goes
on. `Crossed`: a role change, a revocation or a grant holds a user row and waits,
over its second connection, for a tuple that the deletion of the tenant has
deleted; the deletion waits for the user row. The database sees two waits and no
cycle. What the run shows is that nothing else ends so: no other meeting of row
locks, tuples and connections in the scenarios.

*Finding.* `TenancyRearm`: the founding tenant has an owner and no admin user, so
the first change of a role in it takes the system grant from the founding key,
which `database.go:452` means to keep. With no other admin, `/bootstrap` is armed
at the next start.

*Observations without a property.* Two role changes of one tenant each count
admins the other has not committed, so the grant of the service principal can
outlast the last admin (`memory.go:419`). A promotion whose later tuple write
fails keeps the admin tuple written before; `RoleAgrees` says "without failures"
for that reason. The backfill of one replica that starts beside requests to
another writes tuples of users who have been revoked since it read
(`authzseed.go:208`); the run has one replica, whose requests end before it
stops, so `RoleAgrees` does not see it. With a grace period every rotation of a
key mints another one.

### Proofs

`TenancyProofs` proves `TypeOK`, `SingleOwner` and `OneSuccessor` (`TypesHold`,
`OnePersonalUser`, `OneReplacement`) of `Spec` for any tenants, emails, requests,
replicas, scenarios and pool sizes. The assumptions are `Bounds`, `Inputs` (roles
and pins are ones the API accepts) and `Sound`: the starting tables have no open
transaction, their foreign keys hold, and a personal tenant has one user.

The inductive invariant is `Whole == Typed /\ Owners /\ Keyring`.

- `Owners`. `SingleOwner` counts committed users; `Alone` says the same of rows,
  committed or not, which an insert needs. `Grants`: a grant with a row has one of
  its own, pending, of the tenant it names (so committing it adds none), and the
  type it read is still the tenant's unless an admin changed it. A grant that read
  "shared" takes no lock and does not count; that is safe only because of this.
- `Keyring`. `Replaced`: who replaces a key is unique, and the replaced key is
  revoked or gone. `Rotations`, `KeysApart`, `Pruned` and `Doomed` say why a
  rotation that commits finds its key as it locked it: two rotations are never of
  one key, and no deletion of a key or a tenant holds a key that is being rotated.
  `SetExpiry` and `Revoke` refuse a key that is revoked already, so a replaced key
  is not replaced again.

`RoleAgrees` and `FoundedOnce` do not hold for all values of the constants; the
theorems name what each needs.

`FoundedUnderLock` (`TenancyProofs`): the advisory lock of `/bootstrap` keeps
bootstraps apart, and nothing else. `FoundedOnce` holds of `Spec` if, between the
count of a bootstrap and its commit, an admin tuple comes from a bootstrap only
(`NoRival`): a grant whose admin was removed while it was under way, or a replica
that seeds the allowlist, writes one without the lock. With two replicas and three
requests TLC finds the first in 30 states (grant, demotion of the last admin, start
of the second replica, bootstrap). The invariant `Sole`: one
bootstrap is past its count, and what it counted is still true.

`TenancyRoleProofs` proves `RoleAgrees` for one replica (`RolesAgreeAlone`), and
for any number as long as `Calm` holds (`RolesAgree`): while a replica migrates, no
grant, role change, removal, retyping or deletion of a tenant is under way. Without
`Calm` two replicas break it: one has read the rows for its backfill, an admin
retypes a tenant on the other, and the backfill's commit deletes the admin tuples
of what is a personal tenant by now and keeps the roles. One replica is always
calm, for it serves nothing while it migrates (`Lull`), unless something fails.

The invariant is `Tracked`, which says for every request what it has still to do
(`RequestOK`) and for every user that the tuples and the row agree unless someone is
at work on him (`UserOK`): what is stored is what the row says, changed by the
operations that are done; no two requests work on one row (`Apart`); and what a
migration is about to write is what the rows say (`MigrationOK`). It adds the
assumptions `Namespaces` (the object of a tuple carries its type, so the system is
no tenant and a document is none) and `InStep` (starting tables in which nothing
has failed yet are in agreement).

`Served` is liveness and stays with TLC.

### Left out

Names, search defaults, listings; the statements of `DeleteTenant` before the
last one are one step (`Prune`); `SetTenantSelfService` is the constant
`Policy`. The documents of a tenant are only what its tuples refer to.

## OAuth

### State and actions

`OAuthTokens` is the two stores and the token endpoint. The endpoint itself is an
external library: it is modelled from how it calls the stores, in both orders in
which it may save a successor and mark the token used. `ConsumeOnce` is
`ReadCode` (a plain SELECT; the guard is in the delete, of which one request sees
a row), `DeleteCode` or `CodeExpired`, `CommitCode`; a
failure in between rolls back, the delete of an expired code included
(`codes.go:57`). A rotation is `GetToken`, `MarkUsed`, `SaveToken`;
`AlreadyConsumed` leads to `RevokeFamily`. `SweepCodes` and `SweepTokens` forget
what is old, and `Tick` is time. `closed` records which families were ever
revoked, `held` what clients hold.

`OAuthLogin` is `MemoryUserResolver`: by subject (`LookupSubject`,
`RefreshEmail`), by address (`EmailOwn`, `EmailMismatch`, `EmailAdopt`,
`StampSubject`), by provisioning (`Provision`), then a code (`IssueCode`).
Between two statements rows are granted and revoked and an address passes to
another identity (`Reassign`).

`OAuth` adds the start of a replica (`SeedGet`, `SeedCreate`, `SeedUpdate` of the
client row; `ReadSigner`, `Deactivate`, `InsertKey`, `Retire` of signing keys),
the tending of keys afterwards, the sweep of clients, and the claims of an
exchanged token (`Claims`).

### Properties

- `RedeemedOnce`: the stores implement `OneTime`, in which a redemption is one
  atomic step: a credential is redeemed by at most one request, and what is
  redeemed or lapsed stays so.
- `ReuseRevokes`: a token presented again after its use leaves its family
  revoked, once that request is answered.
- `NoRevival`: a request that comes after the family was revoked rotates nothing,
  also when the revocation has been forgotten.
- `SubjectFirst`, `NotAnothers`: who has a row is resolved to that row, whatever
  address he comes with; nobody is resolved to the row of another.
- `Powerless`: a refresh token of a removed user buys no claims.
- `Ready`: a replica that is up finds one active signer and its client row.
- `Settles`: every login, every request and every start comes to an end.

### Run

`MCOAuth` moves one part per behaviour (`MCWork`): two logins of two identities
with two addresses; three requests to the token endpoint, from nothing or with a
family in use; two replicas that start, rotate keys and stop. The parts share
the tables but not their hazards. A request spans at most one tick.
`Retention = 2` is the least that keeps `NoRevival` with `TokenTTL = 1`
(the code: 90 days and 30), so the margin of the code is exercised at its edge.
Fairness is of the steps of a request, a login and a start.

*Observations.* Two identities that come with one address can both find its row
without a subject. Both stamp it; `subject IS NULL` lets the first stamp win
(`resolver.go:238`), and the other login is answered with that row as well: nobody
looks at the affected rows. `NotAnothers` is about rows that were another's when
the login began, so it says nothing of this. `Spared` asks whether the UI client
is public; the sweep (`clients.go:83`) spares what never expires. The server
seeds the row with both, so the two differ only for a row somebody wrote by hand.

### Proofs

`OAuthTokensProofs` proves `RedeemedOnce`, `ReuseRevokes` and `NoRevival` for any
number of requests, codes and tokens; `OAuthProofs` carries them over to `OAuth`
(`TokenEndpoint`) and proves `SubjectFirst` (`IdentityIsAnchor`), `NotAnothers`
(`OwnRowOnly`), `Powerless` (`RemovedArePowerless`), `Ready` (`OneSigner`) and
`TypeOK` (`TypesHold`).

The invariant of the token endpoint (`Shapes`, `CodesOK`, `TokensOK`, `ReqsOK`)
says what a request may still do: who is to commit a code holds its row; who is
to save a successor holds the mark of its token. `RedeemedOnce` then maps each
step to one of `OneTime` or a stutter. `NoRevival` rests on `Families`: whoever
may still save into a revoked family read its token before the revocation, so
what he saves ends by that time plus one tick plus `TokenTTL`; `Outlast`, the
assumption that the retention is longer than that, closes the argument.
`Ready` needs that a replica which rotates keys inserts its key in the
transaction that deactivates the others. The parts are joined in one invariant
(`WholeInvariant`). `Settles` is liveness and stays with TLC.

## Background

### State and actions

`ImportJobs`: `job` has a status, counters and the time it was last written;
`worker` the job in hand. `Claim` takes the oldest queued row that nobody has
locked (`Locked`: `FOR UPDATE SKIP LOCKED`); `Ingest` reads entry by entry and
`Outcome` decides; `Finish` writes only a row that is still running. A worker
panics or stops (`WorkerFails`, `StopWorkers`); `StartWorkers` is a start, whose
sweep fails orphans that were not written for `Stale` hours.

`CleanupQueue`: `docs`, `entry` (the queue), `scan` per replica, `agent`.
`ScanFind` takes the near pairs of one tenant; an `Upsert` is three statements:
is the pair pending (`UpsertExisting`), was it dismissed (`UpsertDismissed`), and
the insert (`UpsertInsert`) that the partial unique index guards. Agents take an
entry, merge and resolve it; documents are archived, revived and deleted, and a
deletion takes the entries along (`Pruned`).

`ConfigCache`: `table` has two configurations with versions, `cache` what each
replica serves, `lst` its listener, `adm` the administrators. A load is a read
(`Reload`, `RefreshRead`, `BootRead`) and, later, a store (`Swap`): nothing orders
two loads of one replica. The listener loses its session (`Disconnect`), and what
is notified meanwhile is lost; a new session reloads everything (`HeardAnew`).
A policy row is read, patched, validated and written whole.

`Background` composes them over `Replica`: a start loads the caches and then
starts the workers and the scanner, `Stop` ends it anywhere.

### Properties

- `RunOnce`, `Accounted`: a job is claimed once; what a finished job reports is
  what was stored, and a success is not one in which everything failed.
- `FinalStays`, `SparesLive`: a final row is never overwritten; a worker whose job
  was failed under it had not written to it within the threshold. The latter
  compares what the worker did (`wrote`, a history variable) with the row, and not
  the column the sweep tests with itself: it fails if the claim leaves
  `updated_at` alone.
- `Drained`: as long as a replica is up, every upload ends, or its worker was
  interrupted and no start has swept since it was old enough.
- `OnePending`, `StaysDismissed`: a pair is pending once; a scan that began after
  a dismissal does not file the pair again.
- `NoDangling`: a pending pair names documents that exist, except for what a scan
  inserts that began before the deletion.
- `AppliesLive`: a replica that answered a write serves it or something newer,
  unless an older load came in after it (`Overtaken`).
- `NeverMissed`: a replica that has started and heard of everything serves what
  the table holds. It fails.
- `ServesValid`, `CatchesUp`: policies in service are valid; once nothing fails, a
  replica with a session serves what the table holds, unless an older load came
  in later, its reload failed (`deaf`), or the table is not valid.

### Runs

`MCBackground` moves one part per behaviour, with two replicas, each with a
worker and a scanner: two jobs over four archives (not a zip; a path that is
refused; a broken entry; more entries than allowed); three documents in two near
pairs that share one; two administrators, one per replica, with one fault (a lost
session, a failed statement, a stop). `Stale` is 0 and `Hours` 1: one hour is the
threshold, and the clock passes it once. Two patches are enough for two edits of
which each is valid and both are not. Fairness is of the steps of a worker, a
start and a listener; uploads, scans, agents and faults are not fair.

| violation | finding |
| --- | --- |
| `ImportBoot`, `NextBootFails` | a replica that restarts at once spares its own interrupted job, which stays running until a start an hour later; the docs say the next boot fails it |
| `StartupMissed`, `NeverMissed` | the load of a start that read before a change is stored after the listener's, though `main.go:243-245` says that a change committed during start-up is never missed |
| `ConfigSkew`, `PoliciesValid` | two edits, each valid beside the rows before the other, leave policies that no replica loads |

*Observations without a property.* Of two edits of one policy row at once the
later writes back the columns it read (`write_path.go:167`). The load after a
write and one of the listener are not ordered either (`Overtaken`), and
`AppliesLive` and `CatchesUp` exempt what an older load has overtaken. A reload
that fails is not tried again (`listener.go:202`). Merging a pair deletes its
entry with the loser (`document.go:297`), so the `mark_cleanup_done` that
`mcp/tools.go:119` tells an agent to call finds nothing.
`Resolve` does not ask whether the entry is resolved already
(`cleanup_queue.go:154`). The docs show counters of an import that is under way;
they stay 0 until it ends.

### Proofs

`ImportJobsProofs` proves `RunOnce`, `Accounted`, `FinalStays` and `SparesLive` of
`ImportSpec` for any workers, jobs and archives. Its invariant `IndInv` says that
a running job is in the hands of exactly one worker that can still finish it or
of none that can (`Owned`), that the counters of a worker count the entries
behind it (`Tallies`), and that a running job bears the hour of its worker's last
word or a later one (`Words`): the claim and the total write both, and a sweep
goes by the row. From that follows `SparesLive`.

`BackgroundProofs` shows that `Background` implements `ImportSpec`
(`ImportsInPlace`), so the four hold of it (`ImportsHold`), and proves
`OnePending` (`PendingOnce`), `NoDangling` (`DeletedArePruned`), `StaysDismissed`
(`DismissedForGood`), `AppliesLive` (`AnsweredIsServed`), `ServesValid`
(`ValidIsServed`) and `TypeOK` (`TypesHold`). `QueueInv`: entries in
use name two documents, no pair is pending twice, a scan about to insert has asked
after dismissals it knows of. `ConfigInv`: what an administrator wrote is in the
table, then in what he loaded, then at most as new as the best his replica has
ever stored; every snapshot is valid. `Quiet`: a part that does not move is as it
was started.

`Drained` and `CatchesUp` are liveness and are model-checked only.

## Not modelled

- *Search and ranking, read-side views, history, metrics, audit.* They change no
  state another handler decides on. Fusion and re-ranking are pure functions over
  floating-point scores; what could go wrong in them is a matter of numbers, and
  the repository's unit tests reach it.
- *The surface.* Handlers of HTTP and MCP decode arguments and map errors around
  one service call.
- *The rate limiter.* One map under one mutex that is cleared when it is full
  (`ratelimit.go:76`): a reset by design.
- *The loop of the retention sweep.* It gives up on a tenant when a candidate was
  deleted by someone else (`retention.go:119`); the next sweep starts over. One
  eviction is a request of `DocStore`.
- *The protocol engine of OAuth, PostgreSQL, the embedding services.* External;
  modelled as far as the code in `src/` relies on them: row locks, unique
  indexes, foreign keys, the deadlock detector, notifications.
- *Schema migration* beyond the backfill, *environment, user interface,
  benchmarks*.

## What is left

- *Proofs.* Every safety property of a passing run is a theorem, three of them
  under a hypothesis about steps (`NoRebirth`, `NoRival`, `Calm`). What replaces
  `RoleAgrees` where two replicas start at different times is not stated.
  Liveness (`Served` of `DocStore` and of `Tenancy`, `Returns`, `Settles`,
  `Drained`, `CatchesUp`) stays with TLC.
- *Models.* The loop of the retention sweep over its candidates. A second replica
  in `MCTenancy`, with the weaker agreement of roles and tuples that holds then.
