# A TLA+ development of memory-platform

memory-platform keeps the memories of software agents (events, documents,
sessions, experiences, procedures) in a local PostgreSQL, answers a REST API
and an MCP server from it, and mirrors it to a hosted PostgreSQL ("Neon",
"the target") with a command, `neon-sync`. This directory models the parts of
it where order, concurrency and failure decide whether data survives, checks
them with TLC on small instances and proves the main results with TLAPS for
every instance. Paths below are relative to the repository.

## Inventory

| component | state it keeps | operations | what makes it correct |
|---|---|---|---|
| Event ingestion (`src/api/handlers/events.rs`, `src/queue/mod.rs`, `src/main.rs`) | SQLite table `pending_events`; `memories` rows | `POST /events`, drain every 30 s | a captured event is never lost silently, replies are true, duplicates have a cause |
| Outbox push and audit (`src/bin/neon-sync.rs`) | `sync_meta.outbox`, `leases`, the target's tables | capture trigger, `push_once`/`run_queue`, `audit_page` | no change forgotten; what is acknowledged was pushed; one writer of the target |
| Shared events (`neon-sync` `push_event_batch`, `pull_events`, `bootstrap`; migrations 010, 013) | `sync_meta.events` here and there, cursors | publish, pull, replay | each event reaches each device once, and is applied |
| Memories and contradictions (`src/services/contradiction.rs`, `src/mcp/tools.rs`, migrations 016-020) | `memories`, `contradictions` | store, restate, detect, resolve, auto-resolve, forget, expire | one row per pair; what a reply called gone is not served; something goes on being believed |
| Procedures, experiences, confidence (`src/services/{procedure,experience}.rs`) | `procedures`, `experiences` | record, rate, promote, look up, execute | no pair promoted twice; what cannot be promoted has a cause |
| Documents and their vectors (`src/services/ingestion.rs`, `upsert_document` in `src/db/postgres.rs`, `src/bin/repair_embeddings.rs`) | `documents`, `embeddings` | import, upsert, embed, repair, reindex | a vector belongs to the text it stands beside; repair repairs |
| Ingestion pipelines (`src/ingest/`, `src/bin/ingest.rs`, `vault-sync`) | checksums of what was ingested | scan the vault, sessions, logs | nothing skipped, nothing stored twice |
| Migrations (`src/migrations/mod.rs`) | `_migrations`, the schema | run at the start of most programs | an upgrade loses nothing and ends at the current schema |
| Search (`src/search/`, `src/services/decay.rs`) | none | two rankers, fusion, decay, relative time | secondary signals adjust a ranking and do not replace it |
| Embeddings (`src/services/embedding.rs`, `src/config.rs`) | an LRU cache | choose a backend, embed, retry | a call gets the vector of its own text; local-only stays local |
| MCP server (`src/mcp/`) | a session on standard input, posts | read, dispatch, answer | one answer per request, in order, with its id |
| REST API, database layer, models | none of their own | one statement per handler | in the modules of the components that use them |
| Snapshots, archive encryption, dashboards, statistics, scripts, schedulers, desktop application | files | I/O | not modelled, see below |

Interaction: HTTP handlers, the drain, MCP tools and the ingestion pipelines
write local PostgreSQL. A trigger on every synchronised table adds to
`sync_meta.outbox` in the writer's own transaction. A timer (launchd, systemd,
Task Scheduler) or a person starts `neon-sync sync`, which reads the outbox and
the rows it names, writes the target, and acknowledges. Other devices do the
same against one target and exchange `sync_meta.events` through it.

Hard behaviour: tasks of one tokio process interleave at each `.await`;
statements that belong together are often not one transaction; the process, the
network and PostgreSQL fail between any two of them; replies are lost after a
commit; timers start a second run while a first is at work. `PROJECT.json`
lists each hazard at its line and the property that covers it.

## Modules

| module | what it is |
|---|---|
| `DurableIngest` | abstract: what `POST /events` promises |
| `EventQueue` | the handlers, the queue, the drain, and their faults |
| `EventQueueProps` | its properties, and the refinement of `DurableIngest` |
| `MCEventQueue` | an instance for TLC: interchangeable events |
| `EventQueueProofs` | theorems about it |
| `Mirror` | abstract: a projection with marks |
| `OutboxSync` | capture trigger, outbox, lease, push, audit |
| `OutboxSyncProps` | its properties, and the refinement of `Mirror` |
| `MCOutboxSync` | instances for TLC: agents, a session and its summary; memories that supersede each other |
| `OutboxSyncProofs` | theorems about it |
| `SharedLog` | abstract: one log, and how far each device has read it |
| `EventExchange` | devices that push and pull `sync_meta.events` |
| `EventExchangeProps` | its properties, and the refinement of `SharedLog` |
| `MCEventExchange` | an instance for TLC: two devices, a row older than the triggers |
| `EventExchangeProofs` | theorems about it |
| `Memories` | the life of a memory, from storing it to forgetting it |
| `MemoriesProps` | its properties |
| `MCMemories` | an instance for TLC: two texts that oppose each other |
| `MemoriesProofs` | theorems about it |
| `Procedures` | experiences, their promotion, procedures and their execution |
| `ProceduresProofs` | theorems about it |
| `Documents` | files, `documents`, vectors, and the four kinds of program that write them |
| `DocumentsProofs` | theorems about it |
| `Transcripts` | ingestion of Codex archives and OpenCode sessions |
| `TranscriptsProofs` | theorems about it |
| `Migrations` | `Migrator::run` by several programs at once |
| `Search` | one search: rankers, fusions, decay, relative time, the page |
| `Embeddings` | configuration, backends, cache, retries |
| `McpServer` | JSON-RPC over standard input and over HTTP |
| `Platform` | these services side by side |
| `MCPlatform` | an instance of them for TLC |
| `PlatformProofs` | theorems about `Migrations`, `Embeddings`, `McpServer`, `Search`, and about `Platform` |

The modules from `Procedures` on hold their properties at their end, after the
next-state relation. Operators under a comment "Mutant" are plausible faults of the definition that
follows them. No behaviour uses them; each shows that a property notices.

### EventQueue

A worker is a request handler or the drain, and an action lasts from one
`.await` to the next. One request carries one event, which names it.

| model | code |
|---|---|
| `queue`, `lastId` | `pending_events` and its AUTOINCREMENT counter |
| `stored`, `pgUp` | `memories` rows per event; can PostgreSQL be reached |
| `pc`, `row`, `reply` | where a handler is, its `queue_id`, the status it sent |
| `batch`, `job` | what `drain_pending` has read, and the row in hand |
| `Enqueue`, `EnqueueFails`, `Accept`, `Disconnect` | `ingest_event` |
| `InsertMemory`, `InsertReplyLost`, `InsertFails`, `StoreEmbedding`, `StoreEmbeddingFails` | `store_event`, with the two statements of `store_memory` |
| `ReadBatch`, `TakeRow`, `DropUnreadable`, `DrainStored`, `DrainDone` | `drain_pending` |
| `Age`, `Crash`, `Restart`, `Outage`, `Recover` | time and faults |

`discarded`, `slow` and `faults` record history for the properties. An event's
content is its name: nothing depends on the text. The embedder only decides
whether there is a second statement.

### OutboxSync

A key is a row of some table. `TableOf` orders the tables as `TABLES` does. A row
has a value, which stands for its columns (in a table with a natural key, as
`agents.name`, for the name, since only that is compared with other rows), the
embedding it holds, and the rows it references. `ParentOf` gives the row it
references with ON DELETE CASCADE, `refs` those with ON DELETE SET NULL, of an
earlier table or of its own (`memories.superseded_by`,
`sessions.parent_session_id`); `MayHold` says which rows a key may hold. The
same schema is on both sides, so its foreign keys act at home, where the trigger
sees what they do, and on the target (`Without`), where nothing does.

`apply_batch` writes the embedding of a row only if there is one (`Over`), so a
vector cleared at home stays on the target beside the new text until another is
pushed, and the audit, which leaves embeddings out of its hash, never finds it.
Every property below compares rows but for that (`Agrees`).

| model | code |
|---|---|
| `local`, `active` | local rows, and those with `storage_tier='active'` |
| `outbox` | `sync_meta.outbox`: generation, operation, `changed_at` |
| `target`, `dropped` | the target's rows; those its foreign keys deleted or changed by themselves (history) |
| `owner`, `live` | `sync_meta.leases`: the run with the last generation, not yet expired |
| `pc`, `items`, `todo`, `batch`, `attempt` | the local variables of one `run_queue` |
| `page` | the page `audit_page` has read |

Each transaction on either database is an action, so that other writers come
between reading an entry, reading its row, writing the target and acknowledging
the entry. `RunFails` ends a run at any of these points, by an error or by the
death of the process. `ApplyFails` covers rejection by a foreign key, a
failure, and a commit whose reply is lost. The rows of a batch are written in any
order (`Ranks`), since `source_rows` asks for none, and one that comes before a row it
references is rejected. A writer's transaction is taken as
one step that captures at its commit: `changed_at` decides which entries a full
outbox yields first and nothing else. The archive table, the run log and the
`attempts` column are written and not read, and are left out.

### EventExchange

The other half of a push, and the pull. An event is its identity (`id`, which
stands for `event_id` and `logical_time` and is counted in the order of
commits), the time its transaction began (`created`), its device, row and
operation; the payload is the row as that event wrote it, so a row's value is
the event that wrote it last. Devices share `target`; everything else is a
function on devices.

| model | code |
|---|---|
| `rows`, `known`, `unpushed` | local tables, `sync_meta.events`, its `pushed_at IS NULL` |
| `baseline` | the page `bootstrap_events` has read |
| `target`, `nextSeq` | `sync_meta.events` of the target and the sequence behind `neon_seq` |
| `holder` | `sync_meta.leases`: the device whose lease has not expired |
| `pc`, `out`, `todo`, `tx` | where a push is, `to_push`, what is not inserted yet, the open transaction |
| `cursor`, `newest`, `page`, `hand` | `cursors.neon_pull`, the local variables of `pull_events` |
| `Write`, `BootstrapRead`, `BootstrapRow` | `capture_change`, `bootstrap_events` |
| `AcquireLease` ... `ReleaseLease` | `push_once` with `push_event_batch` |
| `PullRead`, `PullInsert`, `PullApply`, `MoveCursor` | `pull_events`, `apply_remote_event` |
| `PushFails`, `PullFails`, `LeaseExpires` | errors, timeouts, deaths, lost replies, time |

The transaction that publishes a batch is the one place where a transaction is
more than one action: a number is drawn when a row is inserted and seen when
the transaction commits, and whether a cursor is safe depends on that gap. The
`queue` step of `pc` is `run_queue`, which `OutboxSync` models. `OutboxSync`
likewise starts after the events have been pushed. A device runs one push and
one pull at a time; `outbox_sync_overlap` looks at two pushes. A second lease of
the same device changes its generation, which matters only then, so `holder` is
a device. `replayed` and `faults` record history for the properties. The model
takes a row's category as fixed; `category_allowed` reads it from the payload.
It is asked only by the push: `docs/WINDOWS_PORT.md:221-222` says the pull asks
it too.

### Memories

A caller is one MCP or REST call and runs one statement of PostgreSQL at a
time; `pc` is the statement it is at and `job` its local variables. A memory's
text is a model value. A process has an embedding service or none
(`embeds`); without one `memory_store` looks for no near-duplicate and caches no
vector. `Near` relates texts that embed within the threshold of
near-duplicates (every text is near itself; `NearDuplicate` takes the one match
that the query's LIMIT 1 leaves), `Opposed` those that `find_candidates` takes for a
contradiction.

| model | code |
|---|---|
| `mem` | `memories`: `content`, `valid_at`, `created_at`, `superseded_by`, `invalid_at`, the cached vector, `expiration_date`, the tag `forgotten` and the date `forget` keeps in the metadata |
| `contradiction` | `contradictions`, a state for each unordered pair |
| `BeginMemoryStore`, `BeginPost`, `InsertMemory`, `CacheVector`, `SupersedeRestated` | MCP `memory_store`, `POST /memories`, `store_memory` |
| `Detect`, `StorePair` | `ContradictionDetector::detect`, `store_contradiction` |
| `BeginResolve`, `BeginAuto`, `ReadB`, `SupersedeLoser`, `MarkResolved` | `resolve`, `auto_resolve` with `pick_winner` |
| `Forget`, `NextDay`, `Fail` | `forget`, the date, a statement that fails or a process that dies |
| `SearchServes`, `CoreServes`, `PreviewServes`, `ResourceServes` | the filters of the queries, which the code repeats in each |

`gone`, `kept`, `named` and `overlapped` record history for the properties; so do
`given`, `tagged` (stored with the tag `forgotten`) and `unchecked` (stored without a
search for near-duplicates, or with another call at work) in a row. `forget` puts every
memory into `gone`, since its reply is "forgotten" whether or not its UPDATE
found a row to hide. The processes use one embedding model; what a switch does is in
`Documents`. `resolve` does not ask whether the
contradiction is resolved, and neither does the model.

### Procedures

Statement by statement again: `promote_from_experiences` reads the similar
pairs once, then creates a procedure and marks its two experiences, pair by
pair (`BeginPromote`, `CreatePromoted`, `MarkPair`); an execution looks a
procedure up among the candidates a search by name yields and then counts
(`FindByName`, `RecordExecution`). The candidates are the five used most, so a
procedure that exists can be reported as not found, see the hazards. Confidence is
in percent, clamped as the UPDATE does it.

### Documents

`disk` is what the files hold; `documents` the rows with the vector in their
column (the NVIDIA backend only) and those in table `embeddings`, one for each
model; a search reads the one of its own model. A vector is the text it was computed
from, a checksum its text. Four kinds of program run as workers: `sync_vault`
(`BeginSync`, `Compare`, `Rename`, `WriteNote`), `insert_document` of logs and
configuration (`BeginImport`, `ImportUpdate`, `ImportInsert`), `reindex_all`
(`BeginReindex`, `Upsert`, `Cache`) and `repair_null_embeddings` (`BeginRepair`,
`WriteColumn`, `Cache`), the last two with any backend. Files change, programs
die, texts are passed over, and rows are changed by a pull of another device's events
(`Pull`), which takes no vector away.

The scan of the vault passes over notes in silence: those it cannot read, that are
not UTF-8, or that are not among the newest `limit` (100 by default for `vault-sync`, no
limit for `ingest`). So `BeginSync` reads any set of notes, and `seen` is what
`SyncedMeansMirrored` speaks of. `LegacyPaths` are the paths of an
earlier version (`%/obsidian-vault/%`), which `sync_vault` takes for moved.

`late` records the rows that got a vector of, or went back to, a text that a program
had read before the row changed; `pulled` those with vectors whose text a pull changed;
`torn` those that kept a column without the vector. The first is the race of
`reindex_all` and `repair_null_embeddings` with every writer. All three are possible
in the code, the properties name them, and the hazards list them as open.

### Transcripts

An archive or an OpenCode session is the version it has reached; a row holds the
version it was written for. Both grow at any time. `ingest_codex_sessions` is one action
per statement, from the comparison of the checksum to the last insert;
`process_session` (OpenCode) ignores the error of each of its inserts and goes on,
`IgnoreError`. The version of an OpenCode session is the number of its user's prompts,
each of which becomes a memory, then the summary. `extract_sessions.py` exports
sessions that are still going on, and a session some memory names is skipped for ever
(`LookForConversation`), so what it says later never gets in: `ConversationOnce`
claims only that what got in is of one time. A session without timestamps is skipped
like a known one and leaves no trace.

### Migrations

Of the scripts, those are modelled that touch the cache of vectors or the full-text
functions: the dimension of the column, the two unique indexes, the functions with or
without the guard of 012, and the vectors a script leaves (`Left`). 004 deletes all
but the newest vector of a row; 001 and 002, executed again, put back the functions without
the guard. 005 and 011 are to rebuild the table only if its dimension is wrong
(005:1-2), but compare `atttypmod` with 2052, while pgvector stores the dimension, 2048,
without an offset: they always rebuild. Their comment calls the cache rebuildable from the columns, so
`UpgradeIsSafe` speaks of vectors stored since 011 was recorded, when other models'
vectors, in no column, can be among them. 007 refuses when `code_changes` holds vectors and
ends the run like any error. A database may come from any release, also
from one before 2048 dimensions. `StartMigrator` reads the recorded versions once,
`Execute` and `Record` are the two statements for a version, `Abort` a death between them.

### Search

Scores are integers (a fused score in ten-thousandths, factors in percent), and
the stages follow `search` in `src/search/mod.rs`: fetch one list or both and
fuse them, decay, boost, truncate. `Sorted` is Rust's stable sort, `Orders` the
arbitrary order in which a `HashMap` yields its entries.

### Embeddings

`Accepted` is what `Config::from_env` lets through, `StartApi` and `StartMcp`
the two ways to a backend. A call asks the cache, embeds its text piece by
piece with retries and puts the average in the cache. A vector is known by its
text, purpose, pieces and the machine it came from.

### McpServer

`inbox` is what the client has written, `due` what `listen` has read of it that
calls for an answer (`CallsForAnswer`), `replies` what it wrote. A request may be oversize, no JSON, invalid, unknown or
a notification. Posts to `/mcp` are answered concurrently.

## What the runs show

| run | instance | result |
|---|---|---|
| `event_queue` | 3 events, 1 of them rejected for ever, room for 2, batches of 1, 2 faults of any kind | invariants, refinement, no deadlock |
| `event_queue_live` | 2 events, 3 faults | what is queued, with nothing rejected ahead of it, is stored |
| `event_queue_crash_only` | 1 event, 1 fault | counterexample: a duplicate without a crash, by a client that hangs up |
| `event_queue_head_of_line` | 2 events, 1 of them rejected | counterexample: a row that always fails starves those behind it |
| `outbox_sync` | 2 named rows, a row that references one and may have a vector, its child, 2 names, 4 captures, 1 fault | invariants, refinement, no deadlock |
| `outbox_sync_live` | 2 memories that may supersede each other, 1 of them archivable, a contradiction, reads of 1 entry, audit, 4 captures, 1 fault | nothing forgotten; the target ends up as the projection, or the queue is stuck for a named reason |
| `outbox_sync_overlap` | 1 row, 2 runs of one device | counterexample: the lease does not fence writes |
| `outbox_sync_cascade` | a session and its summary | counterexample: archiving drops rows of the target for good |
| `event_exchange` | 2 devices, a shared and an unshared row, one of them older than the triggers, 2 events, batches of up to 2, transactions that overlap, 1 fault | invariants, refinement, no deadlock |
| `event_exchange_overwrite` | 2 devices, 1 row, 2 events, no fault | counterexample: an older event replaces a newer row |
| `services` | 2 concurrent callers or programs of every service, see below | 16 invariants, 2 action properties |
| `memories_keep_both` | 2 memories, 1 caller, no failure | counterexample: the memory named last is not served |

Bounds and why they suffice. Three events are the fewest that have one handler
and the drain at work and the queue full at the same time. With two faults,
a crash can follow an outage or a disk error. Two named rows are the fewest
that can swap names; a row that references one of them shows a reference cleared on
the target, its child a row that goes with it; four captures let a row be written,
changed between read and acknowledgement, deleted and written again. `MaxRetries = 2`
splits a batch of two and then fails on a single row. The read limit of 2 is below the
number of rows, so that a read leaves entries behind; the audit is left to
`outbox_sync_live`, since with it the run is too large. There entries are read one at a
time, the hardest case for the order in which a row and what it references are
pushed: each clause of `Blocked` and `Stuck` is needed in this run, but for the one about
a batch with a row and another of its table that it references, which needs reads of two
(with them the property holds as well). The names are symmetric in the
`outbox_sync` run and the events that are not rejected in `event_queue`; neither
has a liveness property.

What can stop the queue for good is worth a list. A row that references one that has
been archived is rejected on every run, since the archived row is not on the target. So is
one of a table that references another of its table, as long as the batch has them in
that order or in two batches of that order. An entry older than that of a row it
references waits for it, and if the entries before fill the LIMIT of 200, for ever. And
entries that the audit queued for rows that were deleted meanwhile are never
acknowledged; 200 of them fill the LIMIT.

In `event_exchange`, two events let two devices push into the same log, one
device push twice with a cut between, and a pull read a page that ends before
the log does; the excluded row is skipped and its event stamped; the row older
than the triggers is baselined. A batch of two is a transaction with two
inserts, whose open numbers a reader cannot see; `MaxLag = 1` lets writers
overlap. One fault is enough to lose the reply to a COMMIT and push again, or to
stop a pull between the insert and the apply. `OneAtATime` in `MCEventExchange`
keeps the run small: overlapping writers and batches of two are explored with
the shared row of one device, and together with them, or with an unshared row,
nothing fails.

The services share no state but the database that keeps their tables apart, so
`MCPlatform` composes them by a `focus` that is chosen at the start: the service
it names moves. The types of all, and the properties of each, are invariants of
the one run. `MCPlatform` and `MCMemories` name in guards what is explored
separately:

- Memories (`MemoriesBound`): two memories with two callers; a third memory, a
  given `valid_at`, a date or an overlap are explored one at a time, but for calls of
  `memory_store`, which overlap and fail with three memories. Two
  resolutions of one pair, a resolution of a pair that a restatement has
  changed, and a chain of three are all within it.
- Procedures (`ProceduresBound`): three experiences, each similar to the others,
  two callers, one failure; ratings apart from promotions, executions apart
  from promotions.
- Documents (`DocumentsBound`): two notes or one log, a row of an earlier version, two
  contents, two backends, two programs, one edit or pull, one death or passed-over text;
  an edit without a failure, and with vectors without a second note; the second backend
  with one program at a time. If one sync follows another and nothing is
  embedded (`SyncsOnly`), two notes and two edits, so that notes can swap, share
  a text, or be moved onto each other. What a third note adds to vectors is left
  to the theorems `VectorsMatch`, `Mirrored` and `Repaired`.
- Transcripts (`TranscriptsBound`): an archive or a conversation, two versions of it,
  two processes, two failures.
- Migrations: two programs, three starts, from what each earlier release left, with
  vectors or without, of 2048 dimensions or another number.
- Search: three rows in both lists, pages of two, so that a page is cut; with
  the weights, `rrf_k`, floor and boost of the default configuration. There a row
  that the fusion scored at least 1.35 times as high as another comes before it,
  whatever their ages; that this includes every row of both lists against every
  row of one holds for the first places only and is not claimed.
- Embeddings (`EmbeddingsBound`): texts of no, one and two pieces, a cache of
  one, two attempts, three calls of two clients, every configuration.
- McpServer (`McpServerBound`): three requests of every kind on standard input,
  or two posts at once.

Callers and notes are interchangeable, and the run uses that symmetry; it has no
liveness property. Bounded counters stop every service in the end, so deadlock
is not checked there; each call can always end, with an error if need be.

`LeaseMayLapse = FALSE` says that the lease, renewed for ten minutes just before
BEGIN, does not run out before COMMIT: at most 25 inserts and a COMMIT of
`QUERY_TIMEOUT` (20 s) each are less than that. It can run out at any other point
of a push. A machine that sleeps between BEGIN and COMMIT breaks the assumption,
and then the numbers of two devices no longer appear in order: TLC finds
`CursorIsSafe` violated with `LeaseMayLapse = TRUE`.

Fairness. `event_queue_live` assumes that the drain loop goes on
(`tokio::time::interval` in `main`, every await of it bounded by the timeouts
of the embedder's client and of the connections), that thirty seconds pass, that a
supervisor restarts the process and that PostgreSQL comes back; nothing is
assumed of a handler. `outbox_sync_live` assumes that a timer starts pushes and
that their statements return or time out (`QUERY_TIMEOUT`). Faults and changes
are bounded, so each eventually stops; nothing forces them.

## What is proved

`EventQueueProofs`, from `EventAssumption` alone, for any number of events,
queue size and faults:

- `TypeCorrect`, `Durability` (`NoSilentLoss`), `TruthfulReplies`
  (`ReplyIsTrue`), `OneOwner` (`RowsHaveOneOwner`), `NoDuplicates`
  (`DuplicateHasCause`), and `Refinement` (`ImplementsDurableIngest`).

The invariants are not inductive alone. The strengthening says that ids never
exceed `lastId` and differ between rows, that what the drain holds was once
queued under the id it remembers, and that a worker past its INSERT has a stored
event, so that whoever removes a row by id removes the row of an event
that has been stored. `NoDuplicates` has one of its own (`DInv`): while nothing has
failed (`Calm`), an event whose row was never too old for its handler is out of the
drain's reach (`Undrained`) as long as its handler is at work, and has no row
afterwards (`Prompt`).

`OutboxSyncProofs`, from `OutboxAssumption`, for any rows, tables, limits and
batch sizes:

- `TypeCorrect` and `UniqueNames` (`NamesAreUnique`), for any number of
  overlapping pushers.
- `NothingForgotten` (`NoChangeForgotten`), `AcknowledgedIsCurrent`
  (`BatchIsCurrent`) and `Refinement` (`ImplementsMirror`), under `OnePusher`:
  at most one run at a time. The assumption is needed: `outbox_sync_overlap`
  shows what happens without it, and a second run can also acknowledge an
  entry, which then starts again at generation 1 and is acknowledged by the
  first run, still holding generation 1.

The strengthening of the second group (`JInv`) rests on `Fresh`: while a run
holds an entry or a row, the outbox's generation is no smaller; as long as it
is equal, the operation and the row are still the ones read; and a row that has
since taken a name the run is about to write is queued itself. `Committed` says
that a run about to acknowledge has its batch on the target, but for rows
that were queued again. Refinement maps outbox entries to `Mirror`'s marks and
`dropped` to its losses. `Mirror` says what acknowledging promises: the target shows the
row, perhaps with the vector it had before (`Shows`). The lemmas `WithoutEffect` and `OverShows`
are about the foreign keys and the vectors: a deletion takes rows away or makes them
less (`Reduced`), and what is written over a row shows the new one.

`EventExchangeProofs`, from `ExchangeAssumption`, for any devices, rows, batch
size, overlap of writers and faults:

- `TypeCorrect`, `Published` (`NothingUnpublished`), `Once` (`AppliedOnce`) and
  `NothingSkipped` (`KnownIsApplied`), whatever leases do.
- `SafeCursor` (`CursorIsSafe`), `Refinement` (`ImplementsSharedLog`) and
  `Sorted` (`NoRegression`), under `ShortTransactions`, which is
  `~LeaseMayLapse`.

The strengthening of the first group (`IInv`) says that a push holds only unpushed
events of shared categories, all of which are on the target when it comes to the
stamp; that numbers and events of the target and of open transactions are
paired one to one; and that what a device has applied or in hand it knows. `JInv`
adds that a device with an open transaction holds the lease and numbers its
events above every number that can be seen, and that everything on the target up to
the newest entry of a page is on that page or known. `OInv` adds that no event
still unpushed was committed before the transaction of a pushed one began, and
that pulls apply in the order of the target's numbers.

`MemoriesProofs`, from `MemoriesAssumption`, for any memories, texts, callers at
once, dates and failures:

- `MemoriesTypeCorrect`, `StaysGone` (`GoneIsNotServed`), `Reversible`
  (`ForgetIsReversible`), `Resolved` (`ResolvedMeansHidden`), `Stands`
  (`SomethingStands`) and `NoPile` (`NoCopiesPileUp`).

The rows only grow (`Grows`): none is removed, none that is superseded stands
again, none that is forgotten gets another date. What a call works on is stored,
and a call about to mark a contradiction has its loser superseded (`JobOK`). A
memory that was called gone is therefore superseded, forgotten with a date
that has passed, or was stored with the tag that makes `forget` do nothing
(`Hidden`), and days only add to that. `Stands` needs more (`TurnInv`): while no calls
overlap and no caller named a memory, one call is at work at a time (`OneAtWork`), and
the memory it is about to supersede is not the one it leaves standing (`LeavesOne`).
`NoPile` counts, calls that overlap and fail included (`Orderly`): of the copies of a text
that are served, but for one about to be superseded (`Leaving`), at most one is neither
stored unchecked (`Excused`) nor left by a failure (`Lost`); a call about to add one
has found the one there was (`Room`), and only one call at a time has looked with nobody
else at work (`OneChecked`).

`ProceduresProofs`, from `ProceduresAssumption`, for any experiences, names,
callers and failures:

- `ProceduresTypeCorrect`, `Promotions` (`PromotedOnce`) and `Causes`
  (`StuckHasCause`).

Names are unique among the rows (`NamesDiffer`), a promoted procedure has the
name of its first experience's goal (`NamedForGoal`), and that experience is
marked, is about to be, or a call has failed (`Accounted`).

`DocumentsProofs`, from `DocumentsAssumption`, for any files, texts, programs,
edits and failures:

- `DocumentsTypeCorrect`, `VectorsMatch` (`VectorsMatchText`), `Mirrored`
  (`SyncedMeansMirrored`) and `Repaired` (`RepairedIsFound`).

The vectors of a row, of every model and in its column, are of its text, or the row is in
`late` or `pulled` (`Matches`): every writer of a text takes the vectors with the
old one. A row never written has none (`Blanks`), and a path has one row
(`OneRowPerPath`). What a program has in hand is a row in use (`Knows`). The other two
theorems are about the step that ends a program under which nothing changed, and say
what it has still to do (`RunInv`): a note that the sync has seen and that has no row is
in its list or in its hand (`Syncing`); a row without a column that search does not find
is in the list of the repair or in its hand (`Repairing`); and a row with a column has
its vector of nvidia's model, is about to get it, or is in `torn`, `late` or `pulled`
(`ColumnKept`), so that a repair with nvidia, which looks at the column alone, misses
no other. With another backend a repair passes over the rows nvidia embedded before;
`RepairedIsFound` sets them apart.

`TranscriptsProofs`, from `TranscriptsAssumption` (a transcript is not an archive
and a conversation), for any transcripts, processes and failures:

- `TranscriptsTypeCorrect`, `ArchivesWhole` (`ArchiveIsWhole`), `OneRowPerSource`
  (`NoSecondRow`) and `Conversed` (`ConversationOnce`).

Of each transcript (`Sound`): two processes were at it at once (`Noticed`), or it has no
second rows (`Short`), the only process at it has written what its place says
(`SoFar`), and with no process at it, it is absent, whole or known to be
incomplete (`Rests`). Whole means the rows of one version: the one of the document for an
archive, for a conversation one that it has had, however far it has grown since (`Whole`).

`PlatformProofs`, from the assumptions of each module, for any number of programs,
clients, requests, rows and bounds:

- Migrations: `MigrationsTypeCorrect`, `Upgrades` (`UpgradeIsSafe`). However many
  programs start together, from whatever release, the recorded versions are the first n,
  and every program at work is at version n + 1 or an earlier one that others have
  recorded meanwhile (`RecordedInOrder`). What a script did lasts from its execution
  (`Done`) unless one of a few named scripts was executed after another program had
  recorded it (`Undone`): `Lasting` says which undo what. No vector stored since 011 was
  recorded goes but by 004, 005 or 011 executed so.
- Embeddings: `EmbeddingsTypeCorrect`, `OwnVector` (`VectorIsWhatWasAsked`). Nothing is
  embedded before a configuration was accepted (`Started`), the cache has one entry
  for a key and each is of its key (`OneEntryEach`, `TrueEntries`), and what a call is
  about to put there or return is of its own text and purpose (`CallOK`).
- McpServer: `McpServerTypeCorrect`, `Answers` (`AnsweredOnceInOrder`). The replies are
  those to the first of `due`, in order, and fall behind it by the one that a dying
  transport has swallowed (`RepliesInOrder`); a post is answered with its own id or,
  when it could not be read, with none (`OwnId`).
- Search: `SearchTypeCorrect`, `OnlyAdjusted` (`SecondarySignalsOnlyAdjust`). The lemma
  `Sorting` says that a stable sort by score is a permutation that ranks. The invariant
  says what each stage has made of the score of the fusion (`Unadjusted`, `Decayed`,
  `Adjusted`); the property is what is left of it once a page is ranked.
- Platform: `PlatformTypeCorrect` (`PlatformTypeOK`) and `PlatformSafe`: a step of the
  composition is a step of one service and a stutter of the others, so each service
  alone is implemented by it (`MemoriesAlone` and the like), and all of the
  properties above hold of it.

Only model-checked: the two liveness properties, `QueuedIsEventuallyStored` and
`EventuallyMirrored`, since their proofs need fairness and ENABLED. The properties of
the six runs that expect a counterexample are false, and of those only their
counterexamples are shown.

## Findings

- `events.rs:136-140` calls duplicates a crash-only case. A client that hangs up
  once `store_memory` has inserted drops the handler before it removes the queue row, and
  the drain stores the event again; a failing second statement of `store_memory`, a
  lost reply or a failing `remove` lead to the same.
- `events.rs:52` says that a drain task will retry every queued event. It
  will not if an older one is rejected for ever.
- `migrations/010_shared_event_sync.sql:31` calls the lease a fencing token. It
  is compared before a round of up to 200 entries, not when they are written.
- `docs/OPERATIONS_STATUS.md:16` says the target holds the active projection. Pushing the
  archival of a session takes the active `summaries` that reference it
  (`001_initial.sql:214`) from the target, and nothing queues them.
- `IMPLEMENTATIONS_AND_IMPROVEMENTS.md:356` says that newer events supersede older
  ones. `apply_remote_event` lets the event that is pulled last win.
- `contradiction.rs:202` says that a resolution records what is true now, and
  `tools.rs:261` that the memory named is the correct one. `resolve` never clears
  `superseded_by` of the memory it keeps (`contradiction.rs:235`): a
  contradiction resolved once for each side leaves both superseded, and search
  serves neither.

Met while modelling, and without a run of their own, since one step shows them:

- `tools.rs:144` says that `forget` expires a memory "so it no longer appears", and
  `tools.rs:1019-1022` answers so. Of a memory its caller stored with the tag
  `forgotten`, the UPDATE matches nothing, and it is served on. `gone` holds every memory
  that was answered for, and `GoneIsNotServed` excepts these.
- `tools.rs:98` and `tools.rs:806` speak of an exact name tried first. The lookup is among
  the five most used procedures whose name or description contains the name, so one that
  exists can be reported as not found.
- `005_embeddings_2048.sql:1-2` is to rebuild only a table of the wrong dimension.
  Its test of `atttypmod` is true of any, so 005 and 011 always rebuild.
- `extract_sessions.py` exports sessions that are still active, `sessions.rs` records them as
  completed, and `sessions.rs:174` skips them ever after.
- A vector that is cleared with its text at home stays on the target beside the new text
  (`neon-sync.rs:869`), until a later one replaces it.
- A pull replaces `documents.content` and leaves the vectors of the old text
  (`neon-sync.rs:645`); nothing embeds the row again but `reindex_all`.

## Not modelled, and why

- Parsing of transcripts, Markdown and Git logs, of dates in a question, rendering
  of answers and dashboards: pure functions of text.
- Embedding vectors and PostgreSQL's scores: TLC has no reals. Their order and
  identity are modelled.
- `decay_scores` and `update_confidence` of the detector and of the experience
  service: one UPDATE that multiplies stored scores by a factor that is no
  integer. The multiplier of a search is modelled.
- Access counts, tags other than `forgotten` and `critical`, sessions and their
  lineage: written by one statement each, and read by no decision above.
- `ingest_vault`, `ingest_file` and `chunk_markdown` of the ingestion service:
  nothing calls them. Repair of `memories`, `experiences` and `sessions`: the same
  two statements as for `documents`.
- Authentication and the conversion of request bodies; settings other than those
  that choose an embedding backend.
- Encryption, snapshots, statistics, the desktop application, installation
  scripts: I/O without a protocol.
- `full`, `reset-target`, `rebuild-derived` and `migrate` of `neon-sync`: a loop over
  modelled operations, or a person's administration of the target.
- UNIQUE names of rows that a pull applies: a violation ends the pull like any
  other error, see the hazards.
- Redis and Neo4j: `main` connects to them, and nothing uses the clients after.
- Rows of a type that the target's schema lacks: `neon-sync` fails at that row on every
  run. Rows that its foreign keys reject are modelled.

## Plan

What is left, in this order:

1. `EventExchange` and `OutboxSync` composed on one target with two devices, and with
   it the eventual delivery of every shared event to every device.
2. UNIQUE names of rows that a pull applies.
3. The hazards without a property: an entry that starts again at generation 1, a lease
   that a transaction outlasts, a row deleted while it is baselined.
