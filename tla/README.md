# MotoManager API in TLA+

MotoManager is a Rust service (axum, sqlx, one SQLite database) that keeps a
household's motorcycles: maintenance, parts, storage, documents, figures, backups,
and an OAuth-protected MCP endpoint. These modules model the parts of it whose
correctness depends on the order in which requests, background tasks, crashes
and offline clients act, and the computations behind its pages of figures. TLC
checks them on small instances, and TLAPS proves every invariant of the passing runs,
and both refinements, for every value of the constants.

Paths below are relative to the crate (`handlers/x.rs` is `src/src/handlers/x.rs`);
line numbers are of the modelled commit. `PROJECT.json` maps every definition to
the lines it stands for, and lists the hazards the properties are about.

Contents: [what the concurrency is](#what-runs-concurrently) ·
[inventory](#inventory) · [modules](#modules) · [runs](#runs) ·
[fairness](#fairness) · [proofs](#proofs) · [divergences](#where-code-and-documents-disagree) ·
[not modelled](#not-modelled) · [plan](#plan) · [how to run](#how-to-run)

## What runs concurrently

Handlers are async functions on a multi-threaded runtime and share a pool of ten
connections. The modules all follow the same reading of that:

* A SQL statement outside a transaction commits by itself. Between two
  statements of one handler any other handler may run. So **a handler is a
  sequence of actions, one per statement that matters**, joined by a `pc` in
  `req[r]`; what the handler read earlier is kept in its record and may be stale.
* `pool.begin()` is a DEFERRED transaction. One that begins with a write takes
  the write lock at once and is a single action. One that first reads has a
  snapshot; its later write fails with SQLITE_BUSY_SNAPSHOT if anybody committed
  in between (`stale`, `RefuseStale` in `PartsInventory`).
* Foreign keys are enforced (`main.rs:54`): a statement that names a missing row,
  or would leave one behind, is refused as a whole.
* A dropped connection drops the handler's future at an await: what was
  committed stays, the rest never runs (`Abort`, `Cancel`, `HangUp`, `CutOff`,
  `DropFill`). A `spawn_blocking` task is not stopped by it.
* A read that only decides what the same handler does next, on columns nothing
  rewrites, is part of the statement it precedes. A request that is refused
  without writing is no step.
* There is one process. Only backups keep state outside the database that a
  restart must repair (a guard in memory, archives on disk), so only there a crash
  and a restart are actions of their own; elsewhere a crash is every request in
  flight being aborted.

## Inventory

| Component | State | Operations | Hard because | Module |
|---|---|---|---|---|
| OAuth server (`oauth/`) | `oauthClients`, `oauthAuthorizationCodes`, `apiTokens` | register, consent, exchange, refresh, revoke, pruning | five statements per exchange without a transaction; replay; expiry | `OAuthGrants` |
| Personal tokens (`handlers/api_tokens.rs`) | `apiTokens` | create, revoke | the limit is shared with grants | `OAuthGrants` |
| Backups (`backup.rs`, `handlers/backups.rs`) | `backups`, archives, snapshots, guard | scheduler, manual run, delete, retention, startup reset | crash, dropped connection, blocking task, timer | `BackupRuns`, `DocumentFiles` |
| Parts inventory (`handlers/parts.rs`) | `parts`, `partStocks`, `partConsumptions`, `partsCost` | book, edit, delete, cascade, recompute | check then act; derived value stored after the commit | `PartsInventory` |
| Maintenance and delta sync (`handlers/maintenance.rs`) | `maintenanceRecords`, the client's copy and cursor | create (idempotent), update with bundled items, delete, `?since=`, fuel chain | stamps and commits in different orders; retries; tombstones; row-by-row recalculation | `MaintenanceSync`, `FuelChain` |
| Storage locations (`handlers/storage_locations.rs`) | `storageLocations`, `partStocks.storageLocationId` | create, relink, move, delete | a walk over a tree that moves under it | `StorageTree` |
| Documents and files (`handlers/documents.rs`, `admin.rs`) | `documents`, their links, upload directories | upload, edit, replace, delete, previews | rows and files change in separate steps | `DocumentFiles` |
| Accounts, sessions, passkeys (`auth/`, `handlers/auth.rs`, `passkey.rs`, `admin.rs`) | `users`, `sessions`, challenges, passkeys | register, login, impersonate, passkeys, passwords, admin edits | count before insert; read-modify-write; single use; a second lookup | `Accounts` |
| Motorcycles (`handlers/motorcycles.rs`) | `motorcycles`, `data/images` | create, update, image, delete with its cascade | a name read earlier is written back; rows that hold a delete | `Garage` |
| Locations (`handlers/locations.rs`) | `locations` and rows that refer to them | create, merge, delete | rewrites rows of other tables | `Garage` |
| Expenses (`handlers/expenses.rs`) | `expenses`, `expenseMotorcycles` | create, update, delete | junction rows for motorcycles verified earlier | `Garage`, `BikeRecords` |
| Issues, torque specs, details, previous owners | one table each | create (idempotent), import, update, delete, reorder | read-modify-write of every column; tombstones; an order checked before it is written | `BikeRecords` |
| MCP server (`mcp/`) | `mcpAuditLog` | tools over the handlers' tables | retries; an audit row after the tool | `McpTools` |
| Map, fleet, statistics, home (`map_analysis.rs`, `fleet_analysis.rs`, `handlers/stats.rs`, `home.rs`) | none | computations over the rows of a user | any order of entries, gaps, sales, typos, three sets of rules | `RideMap`, `FleetStats` |
| Tire pressure | one row per motorcycle | one atomic upsert | nothing | not modelled |
| Currencies, settings | single rows | admin edits, an external rate | nothing | not modelled |
| Catalogue imports, OCR | none | parse external pages and images | parsing | not modelled |
| Configuration, routing, errors | none | startup | order in `main.rs` (in `BackupRuns`) | not modelled |

How they interact: everything meets in the database. Backups copy what all
handlers write (`VACUUM INTO`, then the upload directories; `DocumentFiles` puts a
backup beside the document handlers). Deleting a maintenance record gives its
parts back (maintenance → parts); deleting a storage location detaches purchases
(storage → parts); deleting a motorcycle clears what refers to it, deleting or
merging places repoints it (`Garage`). The MCP endpoint runs under a grant and
calls the queries of the HTTP handlers: `McpTools` extends `BikeRecords` and uses
its actions, with the apps' requests beside them. The pages of figures read what
the handlers write; `MCStatistics` puts the fuel chain and the three pages into
one run. Every synced table follows the `updatedAt`/`deletedAt` protocol that
`MaintenanceSync` models for its richest table.

What makes each component correct:

* **OAuth**: a code is spent once; a grant is what the user approved, and stays
  so through refreshes; reuse of a code ends the grant; rotations do not fork;
  revocation is final; pruning takes no client that is in use.
* **Backups**: runs do not overlap; a listed success is whole; it has the file of every
  row of its snapshot that nobody deleted or gave another file while it was made (the
  document on backups promises more, see
  [divergences](#where-code-and-documents-disagree)); retention keeps a restore point; a
  skip means the data is saved; no run blocks the next for good.
* **Parts**: nobody books what is not there; the stored cost is that of the live
  consumptions; deletions give back and leave nothing behind.
* **Sync**: after a pull the client has what the server shows; a create sent
  twice is one record; the trips of the fuel records are those of their order.
* **Storage**: the locations form a forest of live nodes; a place is on roots.
* **Documents**: a row's file and preview are on the disk.
* **Accounts**: a challenge serves once; a password counts only if somebody chose it; no
  session or passkey outlives its user; in the session of an impersonated user no
  route of that user's own changes a password or passkey. An admin may set anybody's
  password with `update_user`, and so may whoever impersonates an admin.
* **Garage**: an image that a motorcycle names is on the disk; links follow their
  place through merges; an expense is charged to whom it was said; nothing holds
  a delete.
* **Records and MCP**: a markup spells its text; a tombstone is final; the order of
  owners has no ties; repeated calls get one row; every write is audited.
* **Figures**: no kilometre, day, stop or amount is lost or counted twice, and pages
  that show the same figure agree.

## Modules

Each component module declares its constants with named assumptions, its
variables, one action per statement or transaction of a handler, and its
properties. `MC*` modules add symmetry sets and say which kinds of history a run
mixes. An operator named like a neighbour with another ending or a suffix
(`ExchangeClaimUnchecked`, `PruneOffByOne`, `NextOrderByCount`) is what a slip at
that line would be; no action uses it, it shows that a property can fail.

**`GrantLifecycle`** (abstract) – what the authorization server promises about a
grant without tables or clock: *approve, spend once, mint once on the approved
terms, rotate while live, end*.

**`OAuthGrants`** – `oauth/token.rs`, `oauth/clients.rs`, `oauth/authorize.rs`,
`handlers/api_tokens.rs`.
`exchange_code` is `BeginExchange` (lookup and checks), `ExchangeClaim` (the
conditional UPDATE of `usedAt`), `ExchangeSupersede`, `ExchangeCount`,
`ExchangeInsert`, `ExchangeLink`, `Respond`; reuse is `BeginReuse`/`RevokeIssued`
or `RefuseReuse`; `refresh` is `BeginRefresh`/`RefreshRotate`, with
`BeginSpentRefresh`/`RefreshReplay` for a token no row carries. A secret is a
generation number (both secrets of a row are replaced together), a clock stands
for the timestamps, and a deleted row keeps its fields as history so that
properties can speak about it. A client presents only secrets some answer
delivered. Refines `GrantLifecycle` through the mapping at the end of the module.

**`BackupRuns`** – `backup.rs`, `handlers/backups.rs`, startup in `main.rs`.
`perform_backup` is `Begin` (try_lock and INSERT), `Vacuum`, `Fingerprint`, `Skip`
or `Archive`, the writer task (`WriterDone`/`WriterFails`), `Prune`, `Record`;
errors are `RunFails`, `RecordFails`; `Cancel` is a manual run's dropped
connection, which frees the guard but not the writer; `Crash`/`Restart` lose the
memory and run `reset_stale_running`. The scheduler is `Poll`, `SchedulerBusy`,
`Resume` with its timer `wake`. The data is two growing versions, of the database
and of the uploads, so fingerprints are equal exactly when versions are. A stamp
is the second a run starts in and names its archive and snapshot, as in the code.

**`PartsInventory`** – `handlers/parts.rs`, and `delete_maintenance`.
`create_part_consumption` is `BeginUse` (part and record exist), `CheckUse`
(BEGIN, on-hand), `InsertUse` (unless stale), then `ReadCost`/`WriteCost` per
record. Prices are left out: a stored cost is the quantities per part it was
computed from, which tells apart exactly the costs that differ for some prices. A sum
of quantities (`Total`) is the number of single units the rows stand for.

**`OfflineReplica`** (abstract) – the server changes, a pull makes the client's
copy equal to it.

**`MaintenanceSync`** – `handlers/maintenance.rs` for one motorcycle, and an
offline client (external: it keeps what a listing returned and the newest
`updatedAt` in it). A handler takes its stamp when it starts (`Start`) and
commits later; bundled children are inserted, kept, removed as
`update_maintenance` does, including the NULL `updatedAt` of added children
(stamp 0). `Shown`/`Held` map it to `OfflineReplica`.

**`FuelChain`** – `recalculate_fuel_chain` and the handlers that call it. A write of
a fill (`CreateFill`, `WriteFill`, `DeleteFill`) is one step; then `ReadChain` reads the
fills and plans what changes, and each `WriteNext` writes the next row of the plan. The
loop over the query's result is written by what it hands each row: the odometer of the
row just before it in the query's order (`Preceding`). `ChainIsCurrent` states what the
trips should be without that order, from the nearest lower fill of each.

**`StorageTree`** – `handlers/storage_locations.rs` and the location of a
purchase. `verify_no_cycle` is `Walk`, one node per step; `Delete` moves the
children to the parent that was read before the transaction. It shares the constants of
`Inventory` with `PartsInventory`, and a prefix `Tree` keeps their names apart.

**`DocumentFiles`** – `handlers/documents.rs`, the regeneration of previews in
`handlers/admin.rs`, and a backup's snapshot and archive. `create_document` is
`BeginCreate` (the file is saved), `Preview`, `Insert`, `Link`; an update is `BeginEdit`
or `BeginReplace` (read row, save file), `Preview`, `RemoveOld`, `Update` (every column
it read is written back), `Unlink`, `Link`; a delete is `BeginDelete`, `DeleteRow`,
`RemoveDeleted`. A row written back after it changed is marked in `damaged`.

**`Accounts`** – `auth/mod.rs`, `handlers/auth.rs`, `passkey.rs`, `admin.rs`. A handler
that authenticates carries the session and the user it found; `Guard` is the second
lookup of `NotImpersonated`; `Take` removes a challenge and carries it to `AddKey`,
`OpenSession`; `BeginUpdate`/`UpdateUser` is the admin's read-modify-write. `Outdate`
marks, as history, what a handler holds and another step has changed since.

**`Garage`** – `handlers/motorcycles.rs`, `locations.rs`, `expenses.rs` and the handlers
that link a row to a motorcycle or a place. Verifying (`VerifyBike`, `VerifyPlace`) and
writing (`InsertRow`, `WriteRow`) are separate steps; `KeysHold` is what the foreign keys
check at the write. `DeleteBike`, `MergePlaces`, `DeletePlace`, `InsertExpense` and
`WriteExpense` are transactions and one action each; the image file is saved before the
row is written and removed after it (`UploadImage`, `RemoveImage`).

**`BikeRecords`** – `handlers/issues.rs`, `torque_specs.rs`, `details.rs`, `expenses.rs`,
`previous_owners.rs`, `markup.rs`, as one state machine: they share the shape *look up
the key, insert* and *read the row, merge the body, write every column back*, and
differ in the columns a table has (`Keyed`, `Plain`) and in what each `Update*`
writes. `ResolveMarkup` is the merge of a text and its markup; `CheckOrder` and
`WriteOrder` are the check of an owners' order and its numbering.

**`McpTools`** – the gate of `mcp/server.rs`: `CallTool` compares the scope with the
tool's annotation, the tools `CreateIssue`, `UpdateIssueStatus`, `AddExpense` and the
listings run handler actions of `BikeRecords` in the slot of their call, `Audit` writes
the audit row, `CutOff` drops the call anywhere.

**`Logbook`**, **`RideMap`**, **`FleetStats`** – `map_analysis.rs`; `fleet_analysis.rs`,
`handlers/stats.rs`, `handlers/home.rs`. The state is the rows the pages read, grown by
one entry at a time in any order; a page's figures are operators over it, written as
the code computes them: rows are put in order (`Ranked`, a sort by a total order), the
walk over a route and the spread of kilometres over days are recursive functions on the
sorted rows (`Runs`, `DailyDistance`), figures are sums (`Total`). A run of the tour walk is
kept by its positions on the route, as `stop_indices` is. Each property gives a second
definition that does not follow the code: the way between the lowest and the highest
reading, whole rides, what the odometer gained between two days, the amounts entered.
`Columns` holds what the tables share, `Logbook` what the pages share.

## Runs

A run is one configuration that shows all its properties at once. Where a
component's histories split into kinds that share nothing, an extra variable of the
`MC` module (`alone`, `deleting`, `retrying`, `half`, `about`, `kind`) is chosen at the start and
says of which kind a history is. Every property has a mutant: a definition
replaced by what a plausible slip would make it, under which TLC finds the
property violated in the same configuration.

| Run | Instance | Shows |
|---|---|---|
| `oauth_exchange` | 2 clients, 1 user, 1 code, 2 tokens, 2 overlapping requests, clock 0..2 (code life 1, client retention 1) | `CodeSpentOnce`, `LateReuseEndsGrant`, `RotationIsSequential`, `ConsentStands`, refinement `GrantsFollowLifecycle` |
| `backup_runs` | scheduler, one manual request, 2 rows, one kept archive, changing data, one fault of any kind, clock 0..2; or with one delete request and clock 0..1 (`deleting`) | `RunsAreSerial`, `RunningIsThisProcess`, `SuccessIsWhole`; without deletes `RestorePointKept`, `SkipsAreCovered`, `BackupsGoOn` |
| `inventory` | parts: 2 requests one after the other over 2 parts, 2 purchases, 1 record, 2 consumptions (`alone`), or overlapping over one part and purchase, one aborted; or storage (`kind`): 4 locations, 1 purchase, depth bound 2, one request at a time | `CostIsCurrentAlone`, `DeletionsCascadeAlone`, `NeverOverbookedAlone`; for both kinds of parts history `NewUseIsCovered`; `Rooted`, `SubtreesIntact` |
| `sync_serial` | 3 records, one bundled item, one client, 5 stamps; one request at a time with pulls anywhere, or two overlapping ones without pulls (`retrying`) | `PullsAreExact` (refinement), `OneRowPerKey` |
| `sync_bundle` | 2 records, one request at a time | violates `BundledAreExact` |
| `tree_cycle` | 2 locations, two overlapping moves | violates `Rooted` |
| `documents` | 1 document, 2 files, 2 users, 2 overlapping requests, one aborted, one preview made again, one backup | `RowsHaveTheirFiles`, `ArchiveHasItsFiles` |
| `backup_dangling` | 1 document, 1 file, 1 user, 1 request, one backup | violates `ArchiveNeverDangles` |
| `accounts` | 2 users, 2 sessions, 1 challenge, 1 passkey, 2 overlapping requests, one more password; from no users at all, or from one admin who has a passkey | `ChallengeOnce`, `NobodyOutlivesTheirUser`, `CredentialsByTheirUser`, `PasswordsAreChosen` |
| `garage` | 2 motorcycles, 2 images, 3 places, 1 linked row, 1 expense, 2 overlapping requests; a history uploads and charges, or links and merges (`half`) | `ImagesOnDisk`, `ExpensesWhole`, `LinksFollowMerges`, `DeletesGoThrough` |
| `records` | 3 rows of one table, 2 texts, 1 key, 2 overlapping requests; or tool calls over 2 rows with a log of 2 (`about`) | `MarkupFits`, `TombstonesStay`, `OwnersInOrder`, `RetriesAgree`, `WritesAreAudited` |
| `statistics` | logbooks of up to 5 stops and 2 markers, 3 records and 2 expenses, or 3 fills; seven kinds of history (`about`) | `LegsAreTheWayRidden`, `ToursCoverTheRides`, `EveryKilometreOnce`, `PagesAgree`, `EveryCostOnce`, `ChainIsCurrent` |

What the less obvious ones say:

* `ConsentStands` joins `GrantMatchesConsent`, `GrantsKeepTheirClient` and
  `RevokedIsFinal`: at any time a grant has its user's, client's and scope's consent
  behind it, its client is registered, and a revoked one is not rotated.
* `DeletionsCascade` joins `NothingLiveOnDeletedPart` and `DeletedRecordGivesBack`;
  `SubtreesIntact` joins `LiveParents`, `PlaceAtRoot` and `StoredAtLive`.
* `RowsHaveTheirFiles` excepts exactly what the code does not prevent: the window
  between removing the old file and updating the row, and a row that was written
  back stale.
* `ArchiveHasItsFiles` says what the order *rows first, then files* does secure: of the
  documents in the snapshot that are still stored with the file it names, and are not
  being replaced, the archive has every file. What it does not secure is the run
  `backup_dangling`.
* `CredentialsByTheirUser` looks at every step that changes a password or a user's
  passkeys, whatever route it is on. It allows the user's own request in a session that
  nobody impersonates, or in one that ended between its two lookups, and `update_user`
  by an admin, which asks for the role of the session's user and not whether that user
  is impersonated. `PasswordsAreChosen` excepts the stale `update_user`. Both exceptions
  are under [divergences](#where-code-and-documents-disagree), and the mutants
  show that they are not wide.
* `NobodyOutlivesTheirUser`: the user of a login, an impersonation or a new passkey may
  be deleted between the statement that read them and the one that writes.
* `LinksFollowMerges`: a row that was linked to a place is linked to the place that
  one was folded into, through any number of merges, or to none if that was deleted.
* `LegsAreTheWayRidden` also says that every record is counted at one place, as not yet
  geocoded, or as unlocated. Its part on the length of the way is for bikes whose
  odometer never falls; the rest holds for all of them.
* `EveryKilometreOnce` holds for any readings: one that falls adds nothing, and up to the
  day of any reading that is highest so far the days hold exactly what was gained.
* `EveryCostOnce` counts what is dated up to the current year; entries dated ahead are in
  no year of the page.
* `PagesAgree` compares the fleet, statistics and home page for bikes on which their
  rules coincide (bought by now, not sold, nothing of an earlier owner above the first
  own reading); this year's distance and the years' sum only while no reading is dated
  ahead.
* `ChainIsCurrent` holds whenever no handler is in flight and none has overlapped or
  been dropped since the last recalculation that ran alone: the next one repairs
  whatever an interrupted one left.

**Why the bounds suffice.** Every hazard listed in `PROJECT.json` needs at most
two requests acting on the same row, so two requests and one or two rows of a
kind reach it; a third row is there where a count, an order or a chain needs it
(owners, a merge of a merged place, a chain longer than the depth bound, a fill
between two). The clock bounds are one more than the longest life compared with
it. The logbooks reach a tour that is too long in days, one that is left open, a ride
that starts away from home, two bikes on one day, a reading that falls, a sale, a
year boundary, an entry before the purchase and one dated after the current year (`Today`
is day 10, `LastDay` 12); `Unit` (27720) is divisible by every number of days up to
`LastDay`, so spreading is exact. Rows are never reused in a model except `backups.id`,
which the code reuses: a row id stands for one INSERT. `Stop` (`Exhausted`, `SmallStop`,
`RetriesStop`) marks the end of the bounded history, so that deadlock checking stays
on for everything before it; only `statistics`, whose logbooks just stop growing, is
run without.

**"One request at a time"** is a bound on the requests (`Requests`, `Writers`) or on the
histories of the `MC` module, not a change of the component: the same actions with two requests violate the
property, by the interleavings listed under
[divergences](#where-code-and-documents-disagree). These histories show that the
handlers are right when not interleaved, aborted ones included where a run has aborts.

**Assumptions of a model.** `SuccessIsWhole`, `RestorePointRemains` and `SkipCovered` are
stated for runs that start at least a second apart (`Spaced`): archive names have that
resolution. `MaintenanceSync` gives every stamp a millisecond of its own. `parentId`
of a record is set by bundling only. All rows belong to one user in `Garage`,
`BikeRecords`, `PartsInventory` and `StorageTree`: ownership is a condition of every
query there and no statement changes it. In `DocumentFiles` each user has one motorcycle; previews
are a cache and not part of an archive. A client of `BikeRecords` sends a markup only with
the text it spells (`markup.rs:38-39` accepts any).

## Fairness

Only `BackupRuns` has liveness properties, for only there does something have to
happen without a request. `Fairness` assumes weak fairness of each run's next step and
of the archive task (a spawned task and a request being served are polled until they
finish), of the scheduler's own steps and of its taking a free guard, of the restart
(the container restarts the process) and of time. It assumes nothing about manual
requests, deletions, data changes or faults. `BackupsGoOn` is two leads-to properties:
`RunsEnd`, whoever takes the guard gives it back, and `SchedulerSurvives`, the scheduler
polls again. The second exempts the end of the bounded clock and table, where the
model stops. Both are about histories without deletes: with a delete request the
bounded table never fills and manual runs could take the guard at one and the same
second for ever, which the clock of the code excludes.

## Proofs

`tlapm` checks these for all values of the constants (any number of clients,
codes, tokens, requests, rows, users, any bounds):

| Module | Theorems |
|---|---|
| `OAuthGrants_proofs` | `TypeCorrect`, `CodesAreSpentOnce`, `GrantsMatchConsent`, `ClientsOfGrantsStay`, `RotationsAreSequential`, `RevocationIsFinal`, and from these `ConsentsStand`; `LateReuseEnds`, `GrantsImplementLifecycle` (the refinement) |
| `BackupRuns_proofs` | `TypeCorrect`, `SerialRuns`, `RunningRowsAreThisProcess`, `SuccessesAreWhole`; without deletes: `RetentionKeepsARestorePoint`, `SkipsAreSafe`, and the same of the checked histories, `RestorePointIsKept`, `SkippedRunsAreCovered` |
| `Inventory_proofs` | of `PartsInventory`: `TypeCorrect`, `NewUsesAreCovered`; of the histories without overlap: `CostsAreCurrent`, `DeletionsDoCascade`, `NothingIsOverbooked`; of `StorageTree`: `TreeTypes`, `PlacesStayOnRoots`; alone: `TreeStaysRooted`, `SubtreesSurvive` |
| `Logbook_proofs` | of `MaintenanceSync`: `TypeCorrect`, `OneRowForEachKey`; alone: `SyncImplementsReplica` (the refinement). Of `FuelChain`: `ChainTypeCorrect`, `ChainStaysCurrent`. Of `FleetStats`: `FleetTypeCorrect`, `CostsAreCountedOnce`, `KilometresAreDrivenOnce`, `PagesDoAgree`. Of `RideMap`: `MapTypeCorrect`, `MapHoldsTheWay`, `ToursHoldTheRides` |
| `Accounts_proofs` | `TypeCorrect`, `ChallengesAreUsedOnce`, `SessionsEndWithTheirUser`, `CredentialsStayTheUsers`, `PasswordsChange` |
| `Garage_proofs` | `TypeCorrect`, `ImagesStayOnDisk`, `ExpensesStayWhole`, `NothingHoldsADelete`, `LinksAreKept` |
| `McpTools_proofs` | of `BikeRecords`: `TypeCorrect`, `MarkupsSpellTheirText`, `TombstonesAreFinal`, `OwnersStayInOrder`; of `McpTools`: `ToolsAreHandlers`, `RetriesGetOneRow`, `EveryWriteIsAudited` |
| `DocumentFiles_proofs` | `TypeCorrect`, `StoredRowsHaveFiles`, `ArchivesAreComplete`, `FilesHaveOneDocument` |

They rest on the modules' named assumptions only. "Alone" is the assumption `Alone` or
`OneRequest` of those three theorems (at most one request in flight at a time); with two
requests TLC refutes them, as listed under divergences. Pulls still happen anywhere, and
every other constant is arbitrary. The three theorems on `PartsInventory` without overlap
are about the histories that `MCPartsInventory` marks `alone`: any number of requests, one
after the other, none of them aborted. All the other theorems hold for any overlap.

Each proof has one step per action. Where many actions do the same thing to what an
invariant mentions, they share a lemma about *one handler going on* (`Goes`, `Typed`),
stated with what it leaves alone. A property like `CodeSpentOnce` is about history and
not inductive: what makes it true is held by handlers in flight, so the inductive
invariants say what a handler carries between its statements.

**OAuth.** Between the claim and the insert *the request* carries the right to mint.
The inductive invariant says, for every code, that at most one request is past the
claim and not past the insert, that the code is then marked used and has no token
yet, and that a stored token's code is used. The claim (a conditional UPDATE) is the
only step that creates such a right and needs an unused code; the insert is the only
one that consumes it. `GrantMatchesConsent` adds that a request past the claim carries
the columns of its code, which no statement rewrites. `GrantsKeepTheirClient` needs that
`Unused` sees the token row as soon as it exists, and that until then the foreign key
stops the insert. `RotationIsSequential` and `RevokedIsFinal` follow from the WHERE of
the rotating UPDATE being evaluated on the current row. `LateReuseEndsGrant` needs
`HandedAreLinked`: a secret is delivered, or about to be, only after its grant was
recorded at its code, so a reuse that comes later finds what to revoke (`DeliveryInv`).
The refinement maps a claim to *spend*, the insert to *mint*, a rotation to *rotate*,
and every other step to the end of some grants, possibly of none (`Ending`): that
includes pruning, revoking and superseding. Minting is allowed because the right to
mint is carried by one request, whose columns are the approved terms.

**Backups.** `RunsAreSerial` needs that whoever is inside `perform_backup` holds the
guard, that the process is up, and that the guard is released only together with
leaving it. `RunningIsThisProcess` adds that the row of a run in progress is stored as
running or was deleted, and that every way to leave a run without recording its end is
remembered until the restart, which clears the running rows in the same step.
`SuccessIsWhole` is about the archive tasks that outlive their run. While runs are
`Spaced` a stamp is used once, so a run owns its row and its stamp, and a task shares
its stamp only with the run that still awaits it, never with a recorded success
(`SpacedInv`). What is kept through retention is `AllCovered`: every success has a
whole archive on disk that is not older and has its database and uploads or newer
ones. Pruning keeps it because the archive of the pruning run is the newest there is
and covers every success before it (`RunAfter`, `FileOfRun`). A skip needs the same
cover to be no newer than what the run has seen: two fingerprints that agree then
pin it down.

**Parts.** What a request has read of the stock holds until somebody commits, and then
its snapshot is stale (`Covered`): so when it inserts, what is on hand still covers the
quantity, and the insert takes exactly that much (`InsertTakes`). That takes sums over
the rows in use, which are finitely many at any time: as cardinalities of sets of
units they grow by the quantity of a row that joins them (`AddRow`). Without overlap
`Carries` says that what a handler carries is what the tables hold: the delta of an edit,
the records a deletion of a part will have to recompute, the cost about to be written.
`Lone` adds that every other stored cost is current and nothing live hangs on a deleted
row. A write then changes the cost of the records the handler goes on to recompute and
of no others (`BookedSame`, `OneUse`), and the last recomputation leaves none stale.

**Storage.** `PlaceAtRoot` needs `PlaceInv`: a request that carries a place to write
carries no parent with it, and a parent once stored is a stored node, whatever has
been moved or deleted meanwhile (`Carried`); nothing in this depends on what the request
read being current, so it holds for any overlap. `Rooted` needs the walk of
`verify_no_cycle`: while a request walks, there is a set of nodes, closed under parent,
that avoids the node being moved and holds the target or everything above the nodes
the walk has passed (`Cleared`). When the walk ends at a root, that set certifies that
the new edge closes no cycle. Without overlap the tree stands still under the walk,
so the set survives until the write. The depth bound only refuses moves, so it plays no
role. `SubtreesSurvive` needs that what a lone request verified is still live when it
writes, and that a delete detaches children and purchases in the step that takes
their node.

**Sync.** `OneRowPerKey` needs that only top-level rows have a clientId (`KeyedAreTop`):
the rows an update removes for good are children, so a row with a key stays stored, its
answers keep naming it, and the unique index refuses a second. The sync theorems need
`Latest`: a stamp about to be written is newer than every row and every cursor;
`UpToDate`: what a cursor has passed, its client holds; and that unused row ids are
blank for every client, because a row that becomes a child leaves the compared part
of the copy. `Latest` is where overlap breaks the argument: a second request may commit
a newer stamp in between.

**Fuel chain.** A trip depends on another row, and a handler writes it from a plan it
made earlier. The inductive invariant says of every state that is not `overlapped` that it
is `Settled`: at most one handler is busy; if it is about to recalculate, nothing is owed;
if it writes, every trip is the gap to the fill below or still in its plan, and the plan
holds only such gaps; otherwise every trip is its gap. That the plan is
right is a fact about one state: the row just before a row in the query's order has the
nearest lower odometer, or the same one, and then there is no trip on either side
(`PlannedIsGap`). Overlap and dropped handlers leave `Settled`, and the ghost says so
until a recalculation finds itself alone; reading the table afresh it owes nothing to
what went before.

**Figures.** The state of `FleetStats` only grows, and what needs an invariant is that the rows
are finitely many with numbers in their columns (`FleetTypeOK`). Everything else is said
of one such state. Sums over finite sets are handled by a few lemmas, by induction over
the subsets of a set or the prefixes of a sequence: the induction is stated for sets
(`UpTo`: a set that holds 0 and with every number the next holds all), because the library's
theorems about predicates are out of reach. A sum may be divided by the value of
any function of its terms, exchanged with a sum inside it, and multiplied through
(`TotalFibres`, `TotalSwap`, `TotalScaled`). `EveryCostOnce` divides the entries by bike, year and expense, where
the shares of an expense make the whole because `Unit` divides. `EveryKilometreOnce`
follows `daily_distance` over the sorted readings: after each prefix the base is the
highest reading so far, no day after the base's has kilometres, and the sum over the days
is what was gained (`Gone`). That the sort is one (`Ranked` lists every row once, in order) is shown
for any total order on a finite set. `PagesAgree` then compares highest readings: those
of the years telescope to that of the whole life.

**Map.** `LegsAreTheWayRidden` telescopes over the route: with readings that never fall the
order by day, odometer and id is one by odometer, the legs are all its rises, and a leg
determines its place on the route. `ToursCoverTheRides` needs an invariant of the tour walk
over the prefixes of a route: the finished runs and the one under way follow the route
without long gaps, meet the home side only at the ends, end where a run may end, come
one after the other, and hold every away stop passed. A stop taken along at the start
of a run is either no away stop or the end of the run before, and this is
where `ShareAtMostHome` comes from (`Ridden`).

**Accounts.** `ChallengeOnce` needs that a taken challenge is carried by one handler, and
that a challenge that is not taken, or still carried, has served nobody.
`NobodyOutlivesTheirUser` is inductive beside the types: a session or passkey is written
under the foreign keys, and the deletion of a user takes theirs in the same step. For the
other two, what a handler carries must be what the tables say unless the history marks it
`stale` or `unseen`: a guarded request that was let through was read from a session
nobody had opened for its user, or from one that has ended since (`CarriesSession`,
`Typed`), and the password an update writes back is the stored one (`CarriesUsers`).
`CredentialsStayTheUsers` then goes through the steps that write `users` or `keys`:
every one but `update_user` comes after the guard.

**Garage.** `ImagesOnDisk` is about who may still put an image into a row (`Keeps`) and
who may still remove its file (`Removes`). Uploads give every file a name of its own, so
an image that is carried is no other motorcycle's, and two handlers with one image have
it from one motorcycle; a handler that will remove a file took it from the row of a
motorcycle that is gone, and a handler that would write the name back then finds no row.
`ExpensesWhole` needs that nobody is charged who did not exist when the body was
accepted; that the foreign key turns a motorcycle deleted since into a refused
transaction; and that deleting a motorcycle takes its junction rows. `DeletesGoThrough`
needs that every row that refers to a motorcycle or a place is of a table whose
delete or merge clears it.

`LinksFollowMerges` speaks of the *heirs* of a place, the least set closed under
`mergedInto`. The proof needs that only a live place has no heir but itself, that what
a merge points to has been there, and that a chain has one end (`OneEnd`): whatever is
reached from a place reaches that end too. Then a merge moves the end of exactly the
chains that ended at the merged place, which are the rows it repoints.

**Documents.** A file belongs to one document, though rows, requests and a backup may
all know its name, and what an upload has just saved nobody else knows (`Naming`). So a
handler that removes what it read takes a file of its own document, and then either
it is a replacement on its way to the row, which the property excepts, or the row is
gone. `Carries` says what each step holds; the important part is that a handler that
will write a row back and was not marked stale has read the row as it is. The archive
has what `ArchiveHasItsFiles` says because the snapshot is taken before the files are
copied: a row of the snapshot that is still stored and names the same file either has it
or is being replaced.

**Records.** `MarkupFits` needs that what a handler carries fits as well: the merge of
text and markup is right on the row *it read*, and text and markup are always
written together, so it does not matter what was written in between.
`TombstonesStay` rests on the conditions of the writing statements. `OwnersInOrder`
needs that the next order is above all others, and for that a last owner to exist:
the ids in use are finite at any time (`Highest`: a function from a finite set to the
naturals has a greatest value).

**MCP.** `ToolsAreHandlers` shows `McpSpec => Spec`: forget calls and log, and a step of a
tool is a step of a handler of `BikeRecords` or none, so everything proved of the
handlers holds with the server beside them. `RetriesAgree` needs that a row's key stays
and names one row, so that what a call was told stays true; `WritesAreAudited` that a row
is owed from its insert until the audit row of the same call.

**Model-checked only.** Liveness and everything with ENABLED are out of the prover's
reach, so `BackupsGoOn` and the fairness it rests on stay with TLC. So do the three runs that
must fail; `tree_cycle` shows that a theorem about handlers alone does not extend to
overlapping ones. The proofs of the pages are about the sorted rows as a function; that the
sort and the maps of the Rust library do what they say is taken as given.

## Where code and documents disagree

Kept as runs that must fail:

* `sync_bundle`: changing the bundled items of a record deletes children without
  a tombstone, inserts them without `updatedAt` and changes kept ones without
  moving it: a `?since=` client sees none of it (`handlers/maintenance.rs:466`).
* `tree_cycle`: two moves both pass `verify_no_cycle` and make each other's
  location their parent (`handlers/storage_locations.rs:215`).
* `backup_dangling`: a document is deleted, or its file replaced, after the snapshot of
  the rows and before the archive of the directories: the archive holds a row whose file
  it has not (`backup.rs:192`). `BACKUP_PROPOSAL.md:38` says of this order that it
  "gives a restore that never has a dangling DB reference".

Met while modelling, without a run of their own. The modules have the behaviour; a
property that would forbid it is either not stated or carries the exception:

* *OAuth.* A code repeated before it is linked to its grant, or after it was pruned,
  ends nothing (`oauth/token.rs:204`), and only the refresh token one rotation back is
  recognised (`oauth/token.rs:323`); the project README promises that a replay
  revokes the grant. Supersede, count and insert are separate statements
  (`oauth/token.rs:244-284`), so two requests can leave two live grants and pass the
  limit of tokens.
* *Backups.* A manual run whose connection drops frees the guard while its archive
  task writes on, and leaves its row running (`handlers/backups.rs:101`). The id of
  the deleted newest row is given to the next run before a second DELETE of it
  (`handlers/backups.rs:190`).
* *Parts.* `update_part_consumption` computes its delta from a quantity read before
  BEGIN; two edits of one consumption take on-hand below zero
  (`handlers/parts.rs:1526`). With overlaps `CostIsCurrent` and `DeletionsCascade` fail:
  two recomputations written in the wrong order; a record or a part deleted between
  a check and an insert.
* *Sync.* The stamp is taken before the transaction, so the commit that comes last may
  carry the older stamp, behind a cursor: with two requests `PullsAreExact`
  fails (`handlers/maintenance.rs:403`). A tombstone counts as an existing child, and
  an item stored as "general" is deleted when listed again
  (`handlers/maintenance.rs:451-466`). Overlapping writes of fills can leave a stale
  trip until the next write (`handlers/maintenance.rs:60`).
* *Storage.* A location is deleted between the check and the write of what is put
  under it or into it (`LiveParents`, `StoredAtLive` with 2 requests).
* *Documents.* `update_document` removes the old file before it updates the row, and a
  title-only edit writes back the path it read (`handlers/documents.rs:547-555`): a row
  may name a file that is gone. The stored file of a failed insert stays.
* *Accounts.* An impersonation session must not change passwords or passkeys, says
  `auth/mod.rs:88-91`. But an admin may impersonate another admin
  (`handlers/admin.rs:213-229`), and in that session `update_user` sets the password of
  anybody, the impersonated admin included (`handlers/admin.rs:140-176`):
  `CredentialsByTheirUser` without its exception for `update` fails by exactly that.
  "The first registered account becomes the administrator" (`main.rs:48`), but two
  overlapping first registrations both do (`handlers/auth.rs:150`). `update_user` writes back the password hash it read, and
  undoes a change in between (`handlers/admin.rs:167`). `NotImpersonated` looks the
  session up again, and one that ended in between counts as not impersonated
  (`auth/mod.rs:106`). A session that still names an admin as its impersonator
  stops the admin's deletion by its foreign key, and so do the records, issues
  and markers of a user's motorcycles.
* *MCP.* The description of the issue tool says the status is "the only field an MCP
  client can change on an issue", but the update writes back every column it read, and
  the server says every tool call is logged, which a call cut off before its audit row
  or with a failing insert is not (`mcp/server.rs`).
* *Figures.* Months are rounded separately, so they need not add up to the year as the
  module comment says (`fleet_analysis.rs:8-12`). A bike without a purchase date counts
  from the first year of the page in `stats.rs` and otherwise on the home page; the home
  cost leaves out `partsCost`; entries dated after the current year are in no year.

## Not modelled

* *Data the properties do not tell apart*: redirect URIs, PKCE arithmetic, hashing and
  the WebAuthn arithmetic (a wrong value is a refused request); contents of scopes;
  profile fields; part master data, images, series, prices; master data of a
  motorcycle; names, addresses and coordinates of places; litres, consumption, prices,
  rounding and currency conversion of the figures.
* *No state of their own*: validation and wording of messages, listings without
  `?since=`, serving files and the cache of resized images, the download stream and
  the contents of an archive beyond the documents, configuration, routing, rate limits.
* *One atomic statement each*: tire pressure, currencies and settings; a single upsert
  or update has no interleaving to get wrong.
* *External input*: catalogue imports, OCR, geocoding and the exchange rate parse what
  another service returns and then call a modelled handler or fill in a form.
* *More of the same*: the MCP tools over maintenance, fuel, parts and the garage
  overview are calls of handlers through the same gate; retention of the audit log is
  one DELETE.

## Plan

1. Every component with state that several statements or actors share has its module;
   the components above that have none need none.
2. Every invariant of the passing runs and both refinements are proved. What is left for
   proofs is the MCP tools over maintenance, fuel and parts, if they are modelled.
3. Larger instances where an hour of TLC is affordable: two codes and three tokens in
   `oauth_exchange`, two documents in `documents`.

## How to run

```
tlc -workers 2 -config OAuth_exchange.cfg MCOAuthGrants.tla
tlapm OAuthGrants_proofs.tla
```

`PROJECT.json` names the module and the `.cfg` of every run. A run takes from a few
seconds to about three minutes, a proof module from one to ten minutes.
