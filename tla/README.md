# A formal model of Jaybase

Jaybase is an append-only event store in Go: a library (`storage.go`,
`snapshot.go`, `migration.go`, `lock_*.go`), an HTTP server around it (`server/`)
and one command (`cmd/jaybase-server`). This directory holds TLA+ models of its
parts, TLC configurations that check them on small instances, and TLAPS proofs of
the results that matter most. `PROJECT.json` maps each definition to the lines it
models and lists every run, mutant, finding, hazard and theorem.

Run `tlc -workers 2 -config <run>.cfg <module>` for a run and `tlapm <module>.tla`
for the proofs of one of the eight modules whose names end in `Proofs`.

## 1. Inventory

| Part | State | Operations | Interacts with |
| --- | --- | --- | --- |
| Store core (`storage.go`) | on disk: node files, `refs/root`; in memory: `history`, `historyIndex`, `metadata`, `requestIndex`, a mutex | open (walk, rebuild indexes), `Append`, `AppendAt`, `AppendIdempotent`, `Close` | the file system; takes the writer lock |
| Named refs (`storage.go`) | one file per name under `refs/named` | `WriteNamedRef`, `WriteNamedRefAt`, `NamedRef`, `CurrentRoot` | node files, the store mutex |
| Replay (`storage.go`, `server.go`) | none of its own | `MetadataEventPageAt`, `EventPayloadsBounded` | the indexes under the read lock, node files without it |
| Writer locks (`lock_unix.go`, `lock_fcntl.go`, `lock_other.go`) | `.writer.lock`, a kernel lock, for fcntl a map per process | `acquireStoreLock`, `Close` | `openStore`, `Store.Close`, process death |
| Server life (`main.go` `serve`) | the process, its handlers | start, SIGTERM, exit | store, lock, `http.Server` |
| Catalog (`catalog.go`, `catalog_http.go`, `main.go`) | the catalog file, the server's copy | `Install`, `Remove`, `SetEnforced`, `authorize` | HTTP routes, host command, append route |
| Append route (`server.go`) | none | decode, authorize, `AppendIdempotent` | credentials, catalog, store |
| Readiness and verification (`storage.go`, `server.go`) | the pinned minimum root | `VerifyHead`, `VerifyAll`, `ContainsRoot`, `ready`, `requireMutation` | root on disk against the indexes |
| Rate limiter (`limiter.go`) | a window and a count per key | `Allow` | authentication middleware |
| Credentials (`auth.go`), allow scopes (`allow.go`) | the credential file, the server's copy | `AddToken`, `RevokeToken`, `Authenticate`, matching | host command, every route |
| Snapshots (`snapshot.go`, `server.go`) | archive files | `CreateSnapshot`, `pruneSnapshots` | store under the read lock, disk space, clock |
| Migration (`migration.go`) | a second store | `MigrateDataKey` | both stores, named refs |

What makes each part correct:

* the store can be reopened whatever instant it stopped at; what was confirmed
  stays; one request is one node; the indexes never disagree with the disk
  unnoticed;
* named refs name readable nodes of the live history;
* a scan in pages is one gapless chain that ends at the root it began with;
* one owner per directory, and nothing left behind by a failure;
* a process that stops neither loses what it accepted nor writes beside its
  successor;
* a ready store works, and a pinned root is not reported missing;
* an archive restores, and pruning spares the one that was just answered;
* a migration gives a whole copy or says that it did not;
* acknowledged edits of the catalog and of the credentials stay, and neither
  file can be edited into a state that keeps the server, or everybody, out;
* a call is served exactly when its credential entitles to it;
* the limiter admits at most its limit per window and refuses nobody early.

The hard behaviours are crashes and power losses between two system calls,
errors after a rename, lost answers and retries, readers between the steps of a
scan, two processes on one volume, whole-file rewrites from stale copies, and
clocks that are set back.
They are listed line by line under `hazards` in `PROJECT.json`.

## 2. Modules

| Module | Models | Notes |
| --- | --- | --- |
| `JaybaseStore` | the store core, readiness and verification | the detailed specification that the next eight build on |
| `EventLog` | what the store promises | an abstract log with a settled prefix |
| `StoreLog` | the refinement mapping | `Log == INSTANCE EventLog WITH ...` |
| `StoreInvariant` | the inductive invariant | used by TLC and by the proofs |
| `StoreProofs` | theorems about the store | the refinement of `EventLog` too |
| `NamedRefs` | named refs on the store's disk | extends `JaybaseStore`, one mutex for both |
| `Replay` | pages and payload batches | extends `NamedRefs`, plus a client |
| `KeyMigration` | `migration.go`, `migrate-key` | extends `NamedRefs`, plus a destination |
| `Snapshots` | `snapshot.go`, the snapshot route, pruning | extends `JaybaseStore`, plus a backup volume and a clock |
| `FcntlLock`, `FcntlLockProofs` | `lock_fcntl.go` | |
| `ServeLifecycle` | `serve`, with the locks of `lock_unix.go` and `lock_other.go` | an append is its checks, the rename and the index here |
| `CatalogWrites` | catalog, its HTTP routes, host command | |
| `CatalogAppends` | the append route: the catalog's check, then the store | extends `CatalogWrites` |
| `CredentialFile` | credentials, their commands, roles, allow scopes | |
| `FixedWindowLimiter` | `limiter.go` | |
| `ClientProofs` | theorems about `NamedRefs`, `Replay`, `KeyMigration` | extends `StoreProofs` |
| `SnapshotProofs` | theorems about `Snapshots` | extends `StoreProofs` |
| `ServeProofs`, `CatalogProofs`, `CredentialProofs`, `LimiterProofs` | theorems about the module each is named after | |
| `MC*` | instances for TLC | symmetry sets and model values only |

### The store

A node is a number. The code's hash covers a freshly encrypted payload, so every
append makes a new hash; numbers handed out in order keep exactly that. `node`
holds each node's parent, request ID and request hash. Payload, actor, times and
the hash computation are left out: no property tells them apart.

The disk has two views. `files` and `root` are what the running kernel shows;
`durable` and `rootSurvivors` are what a power loss may leave: a directory entry
that was never synced may vanish, and `refs/root` may hold any value since the
last sync of its directory. A file's contents are synced before it gets its name
(`tmp.Sync` before `Link` and `Rename`), so no file is ever torn.

An append holds the mutex from its first check to its return, so other operations
never see its middle, but a crash, a power loss or an error does. Its steps are
the calls that change the disk, in order:

    MintNode -> LinkNode -> SyncNodesDir -> RenameRoot -> SyncRefsDir
    (append)    (atomicCreateFile)          (atomicWriteFile, then the indexes)

`AppendIOError` can end it at each of them; nothing is undone, as in the code.
`OpenStore`, `WalkStep` and `RebuildIndexes` are `openStore`, one iteration of
`nodesFromRoot`, and `rebuildIndexes`; `OpenFails` is a node that cannot be read
or comes twice, or a request ID that occurs twice. A node has at most one parent, as
`append` writes it, so that the refusal of merges has nothing to refuse. `reply` and
`acks` record what callers saw and are read by properties only.

The writer lock is not repeated here: one process has the store.

`VerifyHead`, `VerifyAll`, `ContainsRoot`, `MinimumRootPresent` and `Ready` are
predicates: the code reads under the read lock and changes nothing. Damage to
files by something other than Jaybase is outside the model.

### Readers, refs, locks, lifecycle, catalog, credentials, limiter

`NamedRefs` adds the ref files with their own survivors after a power loss. A
client can send only hashes that it has learned, or ones of no file. `Replay` extends
it by the client of `llm.md`: it pages with `after` set to its last event and `root` to
the root of its first page, and discards its checkpoint on 404 or 409. Payloads
are selected in one step and read one event at a time after it.

`FcntlLock` keeps the process map, the record lock and where each `Store` instance
is in `acquireStoreLock` or `Close`. `AfterClose` is the POSIX rule that closing
any descriptor drops the lock of the process. An unlock that fails is not modelled
apart: the close right after it has the same effect.

`ServeLifecycle` has two processes on one volume. `ListenAndServe` returns when
the listener is closed, not when the handlers are done; from then on the deferred
`store.Close` and the exit race with them, and the next process may be started at
any time. An append makes the checks of `AppendIdempotent` in their order
(`AnswerIndexed`, `RefuseAppend`, `RootChanged`, `BeginAppend`), renames the root and
updates the index, all under the process's mutex; `AppendFails` ends it before or
after the rename, and leaves the process behind its own disk in the second case.
Clients send a key again, with the same or another expected root, to whichever process
serves, also while the first request is still running. `kernel` says which lock the
build has: the kernel's, dropped when a process is killed, or a file, which stays until
the operator removes it. `late` records for the properties that a handler used a
closed store.

`CatalogWrites` has the file, the server's copy, and what each run of the host
command has loaded. Edits are functions from a catalog to a catalog. `ok = FALSE`
is an edit whose rename happened and whose directory sync failed. `entriesMay` and
`enforcedMay` record which values the answers so far allow, and `behind` the
writers whose copy misses what another has written: what such a writer writes is
allowed too. The properties thereby excuse a writer that undoes edits which it has not
seen. A server is behind when the host command has edited the file and the server was
not recreated as the command asks ("Recreate Jaybase if it was already running"), or
when its own edit failed after the rename. What the server then writes brings back its
whole copy, entries and enforcement flag: a removal over HTTP can then turn enforcement
off in the file, although `security.md` leaves that to the host.

`CatalogAppends` puts the append route beside these edits: `AuthorizeAppend` or
`DenyAppend` with the server's copy, then `AnswerAppend` or `FailAppend` from the
store, with edits and restarts between the two. A retry is authorized before it is
recognized: the finding `catalog_retry`.

`CredentialFile` has the file, how far each `add-token` or `revoke-token` is, the
server's copy and a clock. An edit reads the file (`LoadFile`), checks and changes what
it read (`AddToken`, `RevokeToken`) and renames the new file into place
(`WriteCredentialFile`); the clock and other edits move between these steps, so that
the credential which the check has found active may have expired at the rename.
`issued` says which credential a token stands for, drawn
from a few combinations of role, expiry and scope. Like the catalog's editors, an
edit that is `behind` undoes what it has not seen, and `may` keeps what the answers
allow. `Verdict` is what `require` and the handler answer to a call; `Entitled`
says the same from the documented table of roles and reading of scopes, without
looking at the file. A list in a scope may be absent, or present and empty, and then
it refuses everything; the second kind is dropped when the file is rewritten
(`omitempty`), and the scope then allows everything. `ServedAreEntitled` allows this
only for a file that an edit has written, and the finding `access_scope` shows it.

### Snapshots and migration

A request for a snapshot holds the route's mutex through `SnapshotSizeEstimate`,
`CheckSpace`, `CreateSnapshot` and `PruneSnapshots`; the store takes its own lock in
the first and the third only, and appends, fails or crashes between them. Sizes are
numbers of node files, `HasSpace` is computed modulo `2^Width`. An archive is
the root on disk and all node files; its name is the clock, which `ClockMoves` sets
forward or back. `pins` keeps the roots of answered snapshots which no power loss
could take back when the archive was made; a root that a crashed append
left unsynced is not among them, for the reason given under the finding
`store_replay_lost`.

`KeyMigration` runs `MigrateDataKey` on the source of `NamedRefs`. The call holds the
source's read lock, so that the source's own steps come between calls only. The
destination is a store too, and is not modelled down to its files a second time:
its appends and ref writes are atomic, and one that a crash cuts off has happened
or not, which is what the other runs show of a store. `leftover` is a temporary
file that a crash in `atomicWriteFile` leaves in `refs/named`, whole or cut short;
the loop over `refs/named` takes it for a ref. `outcome` is what the operator sees:
also that the result could not be written to stdout, which leaves a whole destination
without a manifest. `RemoveAll` removes files in any order, so that `Remains` has an
empty store, a whole one, and one whose `refs/root` is left without its nodes, which is
`broken` and does not open. The destination's own directory and the `objects/` and
`refs/` below it are new, and no call syncs the directories that hold their entries:
`Survives` lets a power loss take each of them away, and `removed` lets it bring a
removed destination back. `cut` says that power was lost since the destination was
made.

`FixedWindowLimiter` has a discrete clock; a call reads it and changes its entry in
one step, as under the limiter's mutex. `admitted` keeps the ticks at which each key
was let in, for the properties.

## 3. Runs

| Run | Checks | Bounds |
| --- | --- | --- |
| `store_faults` | types, recovery, indexes, readiness, durability of confirmed nodes, one node per request, meaning of "root changed", the inductive invariant, the refinement of `EventLog` | 2 requests, of which plain appends carry one too, 2 contents, 3 nodes, all faults |
| `store_uses` | clients: refs resolve, the client's view, the end of a scan, payload reads | 3 events, 1 name, page limits 1 and 2, all faults |
| | migrations: a printed result is complete until power is lost, what is left otherwise is reported and a prefix or does not open, when a ref leads astray | 2 events, 1 name and a leftover, 2 calls, all faults |
| | snapshots: archives restore, pinned roots stay, the answered archive is kept, the reserve is left | 3 events, 3 readings of the clock, retention 1, volume of 5, reserve of 2, 3 bits |
| `lock_fcntl` | exclusion, agreement, cleanup, termination | 2 processes with 2 instances each |
| `serve` | exclusive service, linear history, one answer per request | 2 processes, 2 handlers, 2 keys, 3 nodes; started, stopped and killed at any time, appends that fail, either lock |
| `catalog_edits` | acknowledged edits stay, in the file and in the server; the file always loads | 3 types, 1 command, at most 2 entries, the server and 2 host commands |
| `access` | edits hold, nobody is locked out, what is served is what credentials entitle to, and the other way round | 3 tokens, 3 ways to issue them, 2 edits, 3 ticks |
| `limiter` | admissions and refusals | 2 keys, limit 2, window 3 of 7 ticks, eviction above 1 entry |

`store_uses` puts the three modules that extend the store into one run: a behaviour
has clients, migrations or snapshots, since these have nothing in common but the store.
Its view leaves out the records of answers, on which nothing in it depends.

Three nodes are enough for a settled node, one left by a failed append and one
appended after it; two requests for a retry beside another request, and for one that
only `AppendIdempotent` takes beside one that plain appends repeat. Three events and
limits of one and two give scans of one, two and three pages with an append between any
two. Two overlapping windows and a third started
at the boundary fit in seven ticks. Three types with room for two entries let a
full catalog meet another install. Two handlers and two keys give a retry beside its
first request and one beside another client's; three nodes a root that another process
has moved past what the first had indexed. The tokens of `access` cover every role,
unscoped, exact and wildcard scopes, lists that are absent, empty and filled, and
one ID given to a second token after the first was revoked; three ticks let
credentials expire before, between and after two edits. Two events are enough for a
migration cut off before, between and after its copies, and two calls for one that
meets what the other left. Retention 1 with three names gives a surplus of
one and, after a removal that failed, of two; the volume is full after one or two
archives, and with the reserve above what is left the subtraction wraps.
Bounds are named: `MaxNodes`, `MaxTime`, `MaxCalls`, `MaxClock`, `MaxAttempts`,
`MaxMigrated`, `Limits`. The limiter's run does not check deadlock, since its clock
stops at `MaxTime`.

`OneNodePerRequest` leaves out answers whose node a power loss has taken away: by
`FreshAcksSurvive` those are replays, and the first finding shows them.
`LinearHistory` speaks of the time before a handler uses a closed store; the
finding `serve_drain` shows that one can; `RetriesAgree` has the same limit.
`ManifestIsComplete` speaks of the time before a power loss, and the finding
`migrate_power_loss` of the time after. `AnsweredArchiveKept` speaks of a clock that
was not set back: after that, pruning in name order can remove the archive that is
being answered. `StrayRefNeedsFault` allows what it names, a power loss or a leftover
file: after either, a migration may refuse a store whose history is whole.

### Findings

Five runs are expected to end in a violation; each shows one disagreement between
the code and a sentence of the repository, which `PROJECT.json` quotes.

* `store_replay_lost`: crash between the rename of `refs/root` and its sync; the
  reopened store answers the retry as replayed; a power loss takes the node away.
  `openStore` never syncs `refs/`.
* `serve_drain`: `serve` does not wait for `Shutdown`; it closes the store, gives up
  the volume lock and exits while handlers are running.
* `catalog_retry`: a request commits, the catalog is edited, and the retry is answered
  403 and not with the original hash.
* `access_scope`: a scope with an empty list refuses everything until any other
  credential is added or revoked; then the list is gone and the scope allows everything.
* `migrate_power_loss`: after a migration has printed its result, a power loss takes
  the new directory, or its `refs/` or `objects/`, away.

## 4. Fairness

`FcntlLock` assumes weak fairness of each step of an instance inside
`acquireStoreLock` or `Close`: code that waits for nothing but its own system calls,
since `F_SETLK` does not wait. An owner need never close. The other models state
safety only. That a walk, an append or a migration ends is not stated: each is a
loop over a finite list without waiting, and the walk has its cycle check, so that
a property would only repeat the fairness assumed.

## 5. Proofs

Every safety property of a passing run is a theorem, for every value of the
constants; `PROJECT.json` lists which theorem states which property.

### Assumptions

Each module names the assumptions on its constants, and TLC evaluates them in the
runs. Most say that bounds are numbers and that a placeholder is not an element of
the set it stands beside. Four say more:

* `RequestsAreIdempotent` is a hypothesis of `AlwaysRecoverable` and
  `OpeningSucceeds` only: plain appends carry no request ID. It is needed:
  `AppendAt` keeps `AppendOptions.RequestID` and does not look it up, so a repeated
  one makes `rebuildIndexes` refuse the history. Without it
  `AlwaysRecoverableButForPlain` says that this is all that can go wrong then.
  `RefAssumption` and a part of `SnapshotAssumption` are the same for the modules
  that build on the store: the server only appends through `AppendIdempotent`.
* `LimiterAssumption`: a window is not empty.
* `SnapshotAssumption`: sizes fit in the width of the integers, which `statfs`
  gives, and at least one archive is retained: `server.New` turns anything else
  into its default.
* `IssueAssumption`: the credentials the model may issue have known roles and
  well-formed scopes, which `add-token` checks, and the calls are of routes that exist.

### The store (`StoreProofs`)

* `TypeCorrect`: `Spec => []TypeOK`.
* `Durability`, `ConfirmedIsDurable`: `FreshAcksSurvive` alone is not inductive. Its
  strengthening is `DurabilityInv`: every root that may survive is durable, every
  linked node has a durable parent (`DiskInv`), and the pending node extends the
  indexed chain and is as far on disk as the step says (`PendingInv`). The argument
  uses the chain below a root as the least parent-closed set that holds it
  (`InChain`), so no recursion is needed: a closed set that holds a child holds its
  parent's chain.
* `StoreInvariance`, `AlwaysRecoverableButForPlain`, `AlwaysRecoverable`:
  `Recoverable` needs that a request ID is not repeated along a chain. `HistoryInv`
  says so of every linked node (`RequestInv`), of the indexes (`IndexInv`), of the
  pending append (`PendingRequestInv`) and of the walk that fills the indexes
  (`WalkInv`). Each part is preserved using the others: the append checks the
  request against the index, the index is a whole chain because the walk was, and
  the walk finds a whole chain because what was linked was one. What plain
  appends may repeat is excepted in each part, so that the invariant holds of
  every instance.
* `OpeningSucceeds`: from it, the failure exits of `openStore` are unreachable.
* `IndexesDescribeDisk`, `ReadinessIsSound`: an open store's root is the indexed one
  or a durable child of it (`TipInv`), so that the index misses at most what a
  failed append has left.
* `RequestsHaveOneNode`: an answer names a node with the request and the content
  that was asked for (`AckInv`), and no chain that may be loaded has a request twice.
* `RejectedIsAbsent`: an action property, from `StoreInv` and the step that answers.
* `StoreImplementsLog`: the refinement `LogRefinement`. The log is the path of
  nodes below `refs/root`, which `PathTo` computes by recursion over parents. No
  induction over that data is available, so what `PathTo` computes is carried
  along the behaviour. `PathInv` says that the recursive equation has one solution
  and that its values are paths of ever newer nodes of one chain. Nodes are
  minted one at a time on nodes that exist, so `MintNode` extends the solution by
  one value and every other step leaves it alone. `OldestInv` says that one of the
  roots that may survive a power loss is the oldest. By `StoreInv` all of them lie in
  the chain below the root on disk, so the path to the oldest is a prefix of the
  log: its settled part. Then each
  action is a step of `EventLog` or none: `RenameRoot` commits, `SyncRefsDir`
  settles, an answer from the index replays, a power loss cuts the end off.

### On top of the store

A step of `NamedRefs`, `Replay`, `KeyMigration` or `Snapshots` is a step of the store
or leaves the store alone, so `TypeOK` and `StoreInv` carry over and each proof adds
only what is new.

* `RefsAlwaysResolve`: `RefInv`. A ref and everything it may fall back to is durable,
  because a client can send only hashes that it has learned, and a root or an
  answer names a node whose directory entry has been synced.
* `ReplayIsGapless`, `ScansComplete`, `PayloadsReadable`: `ReplayInv`. The view and
  what is selected are durable, and positions in the index only grow at the end
  while the store is open, or start over from the same chain.
* `ManifestsAreComplete`, `PartialsArePrefixes`, `StrayRefsAreExplained`:
  `MigrationInv`. A call has the source to itself (`CallInv`); what is copied is a
  prefix of the index and the map is its inverse (`CopyInv`); every ref is still
  listed or translated (`TranslationInv`); whatever a call left is a prefix
  (`DestInv`) or was one before it was removed (`RemovedInv`), which a power loss can
  undo, and a printed manifest describes it until then (`ManifestInv`). Without a power
  loss, refs lie in the history.
* `ArchivesAlwaysRestore`, `PinnedRootsStay`, `AnswersAreKept`, `ReserveIsKept`:
  `SnapInv`. What restores keeps restoring since node records never change
  (`ArchiveInv`); a settled root stays in every chain that may survive (`PinInv`);
  with a clock that only advances, the newest name is the one just written and
  pruning takes the oldest (`KeptInv`); what `CheckSpace` has found free is still
  free when the archive is written, but for the appends in between (`ReserveInv`).

### The others

* `FcntlLockProofs`: `LockInvariance`, `Exclusion`, `Freed`, for any number of
  processes and instances. `LockInv` adds to exclusion that a reservation belongs to
  exactly one instance under way and that the record lock is with the process of an
  instance that took it.
* `ServeProofs`: `VolumeHasOneServer`, `HistoryIsLinear`, `RetriesHaveOneAnswer`.
  `NodeInv` describes the chain of each node and says that no chain has a key twice;
  `HandlerInv` ties an append under way to a living process and its mutex; `LinearInv`
  says that, until a handler uses a closed store, the process with the volume has
  the root indexed or is one node of its own behind, that what is minted extends the
  root with a key which its chain does not have, and that answers lie in the history.
  A process that is behind refuses, and so cannot append a request again which its
  failed append has committed.
* `CatalogProofs`: `CatInv`. All copies are sound, an editor that is not behind has
  the file's contents, and the file, and the server's copy if it is not behind,
  has values that the answers allow.
* `CredentialProofs`: `CredInv`. The same for the credential file, and every record
  in any copy is one that was issued, up to the lists a rewrite drops; before the first
  edit nothing is dropped (`Untouched`). What an edit is about to write loads, holds a
  credential that was active when it was checked, and differs from the file in the edit's
  own token only, unless the edit is behind (`EditOK`).
* `LimiterProofs`: `LimInv`. An entry forgets the windows before it, so the bound on
  any stretch is not inductive. `Fits` says of each key what the forgotten part can
  still contribute: at most a limit's worth within a window's length before the open
  window (`Open`), or before now if none is open (`Spent`). A stretch meets at most
  two windows, which gives twice the limit (`Calm`).

### Only model-checked

`AttemptEnds`: liveness under fairness is out of the prover's reach. The properties of
the findings are violated, and have no theorem.

## 6. Not modelled

* Encryption and hashing: library code; the models use only that an append makes
  a new hash.
* The access log, response headers, body decoding, size limits and the syntax of
  names, patterns and tokens: they reject or print, and change no state.
* `init-secrets`, `hash-token`, `healthcheck`: file creation and output before or
  beside the system.
* Files damaged or rolled back by something other than Jaybase, which is what
  `VerifyAll` and the pinned root are there to detect: the models show that they
  raise no false alarm, not what they find.
* The append route with all its checks in one module: `CatalogAppends` has the
  catalog's check and then the append; the credential's check, which depends on
  nothing that an append changes, is in `CredentialFile`.
* Directories made by `openStore` that a power loss removes from their parents.
  `JaybaseStore` assumes that the store's directories are durable. A store that is not
  older than the last sync of its file system can lose them, and with them confirmed
  appends: without `refs/` it opens as an empty one, without `objects/` it does not
  open, and without both it is a fresh one. `KeyMigration`, where the destination is
  always new, has these cases.

## 7. Plan

Done: the store, its abstract log, its invariant and proofs; readiness and
verification; refs; replay; migration; snapshots; the locks; lifecycle with retries;
catalog and the appends that it governs; credentials and scopes; limiter.

Every safety property and the refinement are proved as well. Left are:

1. `Loadable`, `ReadyIsSound` and the restore of an archive are stated with the chain
   as a closed set; `PathTo` now allows stating what the walk returns as a sequence,
   and proving that `nodesFromRoot` computes it.
2. An abstract specification for a scan in pages, which `Replay` would implement.
3. Shorter proofs where two components repeat an argument: the catalog's and the
   credentials' editors share the treatment of copies that are behind.
