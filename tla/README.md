# A TLA+ model of pg_duckdb

pg_duckdb puts a DuckDB instance inside every Postgres backend that needs one.
Queries, DML and DDL on DuckDB and MotherDuck tables are routed to it, DuckDB
reads Postgres tables through a scan function, and a background worker keeps
Postgres "shell" tables in step with the MotherDuck catalog.  This directory
models the parts of it where the order of steps matters, checks them with TLC
and proves most of the safety results with TLAPS.

## Inventory

| component | source | state | operations | hard because |
|---|---|---|---|---|
| transaction control | `pgduckdb_xact.cpp` | `next_expected_command_id`, `top_level_statement`, `force_allow_writes`, temporary table sets | claims, transaction and subtransaction callbacks | globals of the process outlive a transaction; resets are skipped on some paths |
| executor and planner hooks | `pgduckdb_hooks.cpp`, `pgduckdb_planner.cpp` | `executor_nest_level` | planner hook, executor start and finish | an error skips the finish hook |
| DDL hooks and triggers | `pgduckdb_ddl.cpp` | `top_level_duckdb_ddl_type` | utility hook before and after, event triggers for CREATE, ALTER, DROP | one command passes a hook, Postgres, a trigger and DuckDB; each may fail |
| DuckDB instance | `pgduckdb_duckdb.cpp`, `pgduckdb_utils.cpp` | database, connection, its transaction, loaded extensions, secrets | Initialize, GetConnection, Reset | DuckDB has no subtransactions |
| custom scan node | `pgduckdb_node.cpp` | prepared statement, pending result, current chunk, held interrupts | begin, execute, fetch, end | several portals share one connection; cancels and errors between any two calls |
| COPY | `utility/copy.cpp` | none | rewrite and run | runs before the rest of the utility hook |
| table access method | `pgduckdb_table_am.cpp` | none | TRUNCATE; every other callback refuses | reached from Postgres without a claim |
| administrative functions | `pgduckdb_options.cpp` | none | `raw_query`, `recycle_ddb`, caches, installs | recycle in the middle of other state |
| background worker | `pgduckdb_background_worker.cpp` 1-541 | shared entry per database, lock file, activity count, session hint | start, loop, restart, trigger, hint reuse | crashes and restarts against live backends |
| catalog sync | `pgduckdb_background_worker.cpp` 542-1357 | known versions, labels in `duckdb.tables` | version check, schema and table steps, cleanup, forced sync | a round commits after each table; everything else changes meanwhile |
| Postgres table scan | `scan/*.cpp` | readers, queues, local states, process lock, latch; the query text | init, fetch, convert, wait, cleanup; filters and columns become SQL | DuckDB threads against Postgres processes; a condition is evaluated by another database |
| metadata and user data caches | `pgduckdb_metadata_cache.cpp`, `pgduckdb_userdata_cache.cpp` | validity, cached oids | load, invalidate | invalidation during a load |
| secrets, extensions, FDW | `pgduckdb_secrets_helper.cpp`, `pgduckdb_extensions.cpp`, `pgduckdb_fdw.cpp` | flags that something changed | refresh at the next connection | stale flags |
| storage extension for Postgres tables | `catalog/*.cpp` | schemas and tables of one DuckDB transaction | lookup, commit, rollback | lifetime of relations opened by lookups |
| value conversion | `pgduckdb_types.cpp` | DuckDB vectors being filled | types, rows, results, parameters | widths, offsets, infinities and nesting at their limits |
| deparsing, settings, wrappers | `pgduckdb_ruleutils.cpp`, `vendor/`, `pgduckdb_guc.cpp`, `pg/*.cpp` | none | pure functions | breadth, not order |

How they interact.  The hooks and triggers call transaction control (a claim)
and then the DuckDB instance (`GetConnection`, which may begin a DuckDB
transaction).  Postgres calls back into transaction control at the end of the
transaction and at the start of a subtransaction.  A query of DuckDB may scan
Postgres tables, from several DuckDB threads.  Every initialisation of DuckDB
in a backend triggers activity of the background worker through shared memory
and may borrow its session hint.  The worker runs catalog rounds, whose
CREATEs pass through the DDL hooks with `doing_motherduck_sync` set.

What makes each correct: a block does not write to both stores, and what it
aborts leaves no trace in DuckDB (transactions); the nest level counts running
executors (hooks); at most one worker owns the entry of a database, and its
activity is served (worker); every tuple arrives once or an error is reported,
no memory is used after cleanup, and the scan ends (scan); the shells become
what MotherDuck has, and no shell is dropped whose table is still there (sync);
rows reach Postgres once and in order, and a cancel, an error or another portal
leaves nothing behind (custom scan); Postgres evaluates a filter as DuckDB would
(filters); a value comes back as what it was and compares as it did (values);
what a statement uses of the caches, the secrets and the extensions is as new
as its transaction (refresh).

## Modules

| module | models | run by | proofs |
|---|---|---|---|
| `DuckdbXact` | one backend: transactions, claims, hooks, DDL, DuckDB transaction | `MCDuckdbXact` | `DuckdbXactProofs` |
| `BgWorker` | workers and backends of one database | `MCBgWorker` | `BgWorkerProofs` |
| `PostgresScan` | one scan: DuckDB threads, Postgres workers, reader | `MCPostgresScan` | `PostgresScanProofs` |
| `ScanPromise` | what a scan promises to DuckDB (abstract) | `MCPostgresScan` | |
| `FilterPushdown` | the query of a scan: columns, filters, expressions | `MCFilterPushdown` | `FilterPushdownProofs` |
| `DuckdbScan` | one backend: planning and custom scans of several portals, the relations they bind | `MCDuckdbScan` | `DuckdbScanProofs` |
| `TimeConversion` | dates, timestamps, times with zone, UUIDs | `MCValueConversion` | `ValueConversionProofs` |
| `DecimalConversion` | NUMERIC and DECIMAL | `MCValueConversion` | TLC only |
| `ListConversion` | arrays and lists | `MCValueConversion` | `ValueConversionProofs` (one dimension) |
| `ValueConversion` | a column on its way through DuckDB; composes the three | `MCValueConversion` | `ValueConversionProofs` (scalars, arrays of one dimension) |
| `InstanceRefresh` | one backend: the two caches, the DuckDB instance, its secrets and extensions | `MCInstanceRefresh` | `InstanceRefreshProofs` |
| `MotherDuckSync` | rounds of one MotherDuck database, its users and clients | `MCMotherDuckSync` | `MotherDuckSyncProofs` |

### DuckdbXact

Variables keep the names of the globals (`nextExpected`, `topLevel`,
`forceAllow`, `nest`, `ddlType`, `tempTables`, `tempOld`, `tempModified`), plus
what Postgres knows (`blockState`, `subDepth`, `cid`, `cidUsed`, `pgWrote`,
`openExec`, `inDo`), what DuckDB knows (`ddbInit`, `ddbTx`, `ddbWrote`,
`ddbDurable`) and three history variables.  One action is one statement with
all hooks it passes, or one transaction event.  An error is two steps: the
statement stops with the globals as they are at the throw (`failing`), then
Postgres aborts the subtransaction (`AbortSub`, which runs no code of the
extension) or the transaction (`AbortXact`, which runs the callback).
Statements inside a function or a DO block are the same actions between
`PgQueryOpen` and `PgQueryClose` or `DoOpen` and `DoClose`.

Whether Postgres wrote is read from the command counter: each DuckDB write
claims the id it uses, and an id beyond the last claim is the write of somebody
else.  `evidenceLost` records the three ways in which that reasoning fails:

* `stale`: the transaction began with a claim left by an earlier one, because
  the callback returns early when DuckDB is not initialized
  (`pgduckdb_xact.cpp` 226);
* `force`: an error between `force_allow_writes = true` and its reset, caught
  by a subtransaction;
* `unchecked`: a trigger claims by force although no hook checked before.

`GetConnection` loads the secrets when they are not valid, always for the first
time in a backend, and the hooks fill the caches of the extension.  Both run
queries through SPI, whose planning marks the statement as not top level
(`pgduckdb_hooks.cpp` 293).  `TopAfterRefresh` is what the flag may be after a
connection that decides without `force_transaction`, and `LoadCaches` the load
by a hook; both are left out inside a block, where `IsInTransactionBlock` is true
whatever the flag says.  A backend that never connected before always takes the first with
FALSE, which the model does not enforce: its first state may also be that of a
backend that has been reset.  A SELECT or DML asks for the connection twice and
the last call decides, so on a cold backend its DuckDB transaction is opened;
COPY asks once, and decides by the flag before the load.  The drop trigger and
the utility hook restore the flag after their own SPI queries.

DROP OWNED may take Postgres relations or objects along with a DuckDB table
(`alsoPg`); the trigger refuses that after it has dropped the table in DuckDB
(`DropMixes`, `pgduckdb_ddl.cpp` 1645-1654), inside the DuckDB transaction.

A rename of a DuckDB table is the same as ALTER when no DDL is under way.
Views, `CREATE TABLE AS` and drops of permanent tables pass the same claims
and are folded into CREATE, ALTER and DROP.  The fallback to Postgres after a
failed DuckDB plan under `duckdb.force_execution` is in `DuckdbScan`.

### BgWorker

A worker is a slot of the postmaster with a program counter (`wstate`).  The
file lock, the shared entry (`entry`, `activity`, `reused`) and the local
variables of workers and backends are variables.  An ERROR runs the
`PG_FINALLY` block and removes the entry; a FATAL exit does not; both are
restarted.  `owed` is a history variable: activity nobody has acted on yet.
The latch is left out, since the wait also ends by timeout.

### PostgresScan

Tuples are numbers; `delivered` counts how often each reached a batch.
Threads take the process lock for a batch, look at the readers in turn, wait
for the latch when all are empty, and convert without the lock.  A worker that
fails detaches its queue, which is all its reader can see; the error is raised
when the reader is shut down.  The last thread that unregisters runs the
cleanup; DuckDB may create threads later, and may destroy the scan early.

`ScanPromise` is the same scan without threads, workers, queues and locks: a
tuple is handed over at most once, a scan completes when all were, and it may
be abandoned or fail.  `PostgresScan` implements it (`KeepsPromise`): `rows` is
`delivered`, and `ScanState` tells a scan that ended from one that failed.  An
error of a worker that is raised again by the cleanup counts as failed; when
the destructor of the reader runs that cleanup during unwinding, which the
comment at `pgduckdb_node.cpp` 223 warns of, the scan is abandoned already.
`ScanPromise` has no fairness: `KeepsPromise` is pure safety, and that a scan
ends is `ScanTerminates`.  `Convert` is the loop of `InsertTuplesIntoChunk` over
a batch; an error of a conversion is not a step of it (which values raise one is
the subject of `ValueConversion`), and the error paths of a thread are those of
the fetch.

### FilterPushdown

DuckDB hands a scan the columns to read, the positions to put out, and filters,
and does not look at the filters again.  An input is a tree; what Postgres
evaluates is the tree it parses from the text, so `EscapeNeedle` and the
missing parentheses of `Comparison` are modelled by their effect.  Text is a
sequence over a few characters: a letter in both cases, the two wildcards and
the backslash.  `Like`, `Compare` and `Eval` are the two databases, which
differ in the escape of `~~` and in the collation.  `Optimize` is DuckDB asking
`PostgresScanPushdownExpression`; `ConstructTableScanQuery` builds the query,
and `ScanRow` lets Postgres look at one row.

What is computed along a tree (`Eval`, `ExpressionToString`,
`ExtractQueryFilters`, `Holds`, `Nodes`, `Parts`) is a recursive function over the
trees of a depth, which applies an operator to a node and to the results of its
children; a loop of the code (`QuoteLoop`, `JoinLoop`) is one over its rounds.
`MaxDepth` bounds the trees DuckDB asks for; a condition is deeper, since
`ExpressionToString` writes up to three levels for one and `ExtractQueryFilters`
puts the filter's ANDs and ORs around it (`CondDepth`).  `WellTyped` says which
arguments fit an operator.

A comparison or BETWEEN with an IS NULL on its right is written without
parentheses around it (`postgres_scan.cpp` 148, 165, 188), and Postgres takes it
for an IS NULL of the comparison, which it may refuse when the types do not fit.
The model leaves open what it makes of such a query (`Misread`): each row may be
sent or not, and the query may be refused (`RefuseQuery`).

`Differs` names the expressions that Postgres evaluates in another way: a
backslash in a pattern of `~~` (DuckDB has no escape character there, Postgres
has), a NOT on the left of an order comparison, a BETWEEN or an IS [NOT]
DISTINCT (written without parentheses, lines 135 and 151; for `=` and `<>` the
two readings have the same value), an order comparison under a collation other
than C, and an IS NULL right of a comparison (`NodeMisread`).

The letters are ASCII.  Under the collation C, `lower` and `upper` of Postgres
leave other letters as they are and those of DuckDB do not, as the comment at
`postgres_scan.cpp` 225-226 says; `LowerOf` and the properties do not cover those.

### DuckdbScan

A portal walks through `st`: planned, begun, running, ready, done.  All portals
share the connection; preparing or starting a query ends the one that is
`active`.  `reads` are the Postgres tables a query reads: those of its range
table (`ranged`) and those named inside `duckdb.query()` (`inner`), of which
Postgres knows nothing.  `AllowStreamResult` looks at the range table only, as
`ContainsPostgresTable` does.  `scan` is the `DuckdbScanState`, with the chunk as its size, the
current row and `pulled`, the rows fetched so far; a row is its number.
`ExecuteQuery` starts the query, and then either a task completes it, it fails,
or the loop sees a cancel (`InterruptTasks`), drains the tasks and raises
(`QueryCancelled`).  When cancels are held off, which they are unless an error
reset the count, `ProcessInterrupts` returns and an exception follows;
otherwise Postgres jumps out past the cleanup.  `cached` are the relations that
catalog lookups opened; DuckDB calls `QueryEnd` at the end of a query and the
transaction manager at the end of a transaction.  Errors are two steps, as in
`DuckdbXact`: the call stops (`failing`), then a subtransaction catches it or
the transaction aborts.  `orphans` and `lostHold` are history: a ROLLBACK with
open cursors raises no error and ends no scan, so their holdoffs stay behind;
an error that is caught resets the count while older scans are still open.
A start that the executor's hook refuses after `BeginCustomScan`
(`BeginRaises`) leaves the prepared statement to the memory context; no node is
there to clean up, and `FailedScanIsClean` speaks only of scans that were
executed.

### ValueConversion

A column of a Postgres table is planned (`PlanColumn`), its rows are inserted
into a vector one after the other (`InsertTuple`), parameters are bound beside
it (`BindParameter`), DuckDB passes the column on, and the result is returned
(`ReturnValue`); or the result comes from DuckDB alone.  Widths, offsets,
ranges and bases are constants, so that every boundary of the 8 to 128 bit
values is met with small numbers: `TimeConversion` states what it needs of them
and gives the real numbers in comments.  `DecimalConversion` keeps digits to a
base with weight and scale, `ListConversion` the entries and sizes of list
vectors at each depth.  Types whose conversion copies the value (integers,
floats, intervals, bit strings, bytes) are copied; such a value is a number.
STRUCT, UNION and MAP have no case on the way into DuckDB and raise
(`NestedIds`, `pgduckdb_types.cpp` 2037); on the way out they are text, which is
copied too.  The products that change seconds and milliseconds into microseconds
are two's complement (`WrapProduct`; the build flags of Postgres, which the
extension inherits, include `-fwrapv`).  An array is converted element by element: its cells lie behind
those of the arrays before it (`ElementOffset`), and `Expected`, `StandsFor` and
the causes of a throw are stated of each element.  `ColumnAssumption` says which
values a column may hold, `ArrayValues` that an array without dimensions is empty
and one of one dimension has as many elements as that says, and
`SpecialAssumption` that NULL, an unwritten cell and a throw are no values,
lists or arrays.

Values that do not survive are named in `KnownLoss`, `ShiftOverflows`,
`ProductWraps`, `SquareTooLarge`, `ArrayBelow` and `KnownParameter`; see the list below.

### MotherDuckSync

A definition of a table is named by the catalog version that introduced it, so
comparing definitions is comparing numbers.  `shell[t]` is the Postgres shell
with the label `motherduck_catalog_version` (0 for NULL).  A round is
`FetchVersion` or `ForceSync`, `BeginSync` (the snapshot of the catalog),
`EnterSchema`, one `SyncTable` for each relation, each its own Postgres
transaction, and `Cleanup`.  A user's CREATE or DROP is two steps, because
DuckDB commits before Postgres does; rounds wait for the second one
(`SyncTableRaced`).  `pinned`, `conflict` and `access` are the reasons for
which a step of the round fails; each is changed by users at any time.
One MotherDuck database, whose schemas exist throughout; a round whose version
query fails changes nothing.

The default database is an option of the server.  An instance reads it once, when
it is created, so a change (`ChangeDefault`) reaches a syncer with its next
instance (`Restart`, `Abort` of a worker; `dflt`), while sessions go on with any
value that was ever set (`inForce`).  A shell carries the default database of
whoever made it, and a cleanup selects the shells with another version or another
default database (`NotOfThisRound`): a shell of a user has no version, but is
selected by the second.  That the modelled database itself becomes the default
one, by which its schemas move, is not modelled; `IsDefaultDb` is a constant, and
then the option does not change.

### InstanceRefresh

Each catalog is a version: the generation of the extension (`extGen`), the
servers and user mappings (`fdw`), `duckdb.extensions` (`tab`) with the sequence
that counts its changes (`seq`).  Other sessions raise them and put messages
into `pending`.  The backend takes all messages when it starts a transaction
(`AcceptMessages`) and may take them at any step of a statement (`Accept`).
A statement walks through `pc`: `IsExtensionRegistered` and what it fills,
`DuckDBManager::Get` with `Initialize`, `GetConnection`, and the reads and loads
of `RefreshConnectionState`; an error may end it anywhere.  `LoadExtensions`
reads with the snapshot of the statement, and the sequence is read as it is now.
The servers are listed by queries through SPI, which use the snapshot of the
transaction: a new one under READ COMMITTED, the first one under REPEATABLE READ
(`KeepsSnapshot`, `ReadServers`; `Levels` says which of the two are used, and
SERIALIZABLE reads as REPEATABLE READ does).  Options and user mappings of a
listed server come from the syscache, which is newer; the version that the model
records for a load is the one of the list, a lower bound of what was read.  Both
loads use the mappings of `GetUserId()`, and nothing is loaded again when that
changes.  Which role it is does not matter to the versions: a change of it, by SET
ROLE (`SetRole`) or by the end of a block that had set it (`roleSet`), is one of
the causes below.  Secrets are entries of DuckDB's catalog, so `RollbackTx` undoes
them.

`start` is what was committed when the transaction began, and `lost` the parts
that the code leaves stale, each set by one of these causes and cleared by the
next load:

* `meta`: a message taken while the cache is being filled; a queue overflow
  (the callback gets the hash value 0); an error while `initializing` is set;
* `ud`: a message taken between the two lookups, or after the check that
  MotherDuck is enabled and before the instance is opened; a load under
  REPEATABLE READ that does not see the change whose message was taken already
  (`Behind`); a change of the role (`RoleParts`);
* `secrets`: a message taken between listing the servers and setting the flag;
  a rollback of the transaction that loaded them; an instance that was reset; a
  load under REPEATABLE READ and a change of the role, as above;
* `exts`: the sequence counted a change the snapshot does not see; CREATE
  EXTENSION restarted the sequence; `Initialize` failed while loading.

The properties say that the model has no other way to be stale.  Callback
registration is not a step: before it nothing is valid.  `IsExtensionRegistered`
answers in an aborted block, outside a transaction, and without a snapshot
without touching the cache (`pgduckdb_metadata_cache.cpp` 233-242); no statement
that these properties speak of gets there, and the branches are left out.  So are
own DDL of the backend on servers, the temporary connection of
`CreateConnection`, SECURITY DEFINER functions (which change `GetUserId()` as
`SetRole` does, but during a statement) and the background worker, which uses
the mapping of the owner of the server.

## Runs

All bounds are constants of the modules and named in the `.cfg` files.

| run | bounds | properties |
|---|---|---|
| `XactSavepoints` | 2 statements, 1 subtransaction, no nesting, 8 command ids, MotherDuck on | `NoMixedBlockCommit`, `DdbTxContained`, `TempTracked`, `BlockAbortLeavesNoTrace` |
| `XactExceptions` | 1 top level statement, 1 nested level, 1 subtransaction, 6 command ids, execution in functions allowed | `NestCoversExecutors`, `EvidenceInv`, `GlobalsEndWithTransaction` |
| `BgwRestarts` | 2 backends, 2 workers, 2 failures, 2 activities, fair | `EntryIsOwn`, `HintNotLeaked`, `ActivityIsServed` |
| `ScanBatches` | 3 threads, 2 workers, 3 tuples, queues and batches of 2, fair | `TypeOK`, `ReaderAlive`, `ScanIsComplete`, `ScanTerminates`, `KeepsPromise` |
| `ScanPortals` | 2 portals, 1 table, 3 rows, chunks of 2, 1 subtransaction, 1 holdoff left behind, fair | `TypeOK`, `HoldoffBalanced`, `RowsInOrder`, `RangedReadsContained`, `FailedScanIsClean`, `RelationsBelongToTransaction`, `CancelStopsQuery` |
| `ValuePaths` | up to 2 rows of each type, all boundary values, integer arrays of up to 4 dimensions of 2, arrays of two elements of every type with a conversion, lists of up to 3 values, decimals of 1 to 5 digits in types for 2 and 5 | `TypeOK`, `RowsPreserved`, `ResultsFaithful`, `RaisedForCause`, `OrderPreserved`, `ParameterAgrees` |
| `PushdownFilters` | expressions and filters of up to 3 levels, texts of up to 2 characters of 5, 3 columns, 2 collations | `FiltersAgree`, `OutputAligned`, `RefusedForCause` |
| `RefreshStatements` | extension dropped and created once, 2 versions of servers and of extensions, 3 sequence values, both isolation levels | `ExtensionsFresh`, `DecisionIsCurrent`, `SecretsFresh`, `UserDataFresh` |
| `SyncRound` | 1 worker, not the default database, 2 names, 3 versions, 2 default databases, 1 change between them, 1 failure, no failing schema, fair | `SkipIsSafe`, `DefaultFollowed`, `DropsOnlyDeleted`, `Converges` |
| `SyncTroubles` | 1 worker and 1 session, default database, 3 versions, failing schemas and revokes | `DependentsKept` |

Why the bounds are enough to meet the interesting cases.  Two statements of
one block are the least that can mix writes, and state that leaks across
transactions is met because transactions follow each other without bound.  One
subtransaction shows everything a second one does, since DuckDB code runs only
at its start.  Two workers are the least that can race for the lock, two
failures the least that restart a restarted worker.  Two workers and two
threads are the least for a reader to be removed while the other is in use;
the third thread comes late or after the cleanup.  Three versions, of
which the first is there at the start, let a relation be changed and then dropped,
or another one be made and dropped, in one round or between two, while the default
database changes; rounds follow each other without bound, and the three safety
properties of `SyncRound` are also proved for any number of versions;
what two rounds or a failing schema do to each other is met only in
`SyncTroubles` and `SyncSchema`.  For the refresh, two versions tell old from new, a third
sequence value separates a change that commits from one that does not, and
statements, errors, blocks and recycled instances follow each other without
bound.  Two
portals are the least that can take the connection from each other, three rows
in chunks of two the least with a full and a partial chunk.  Two rows show
what one row of a vector does to the next.  Every boundary value of a type is
a row, and the scaled constants keep the order of the real ones, which the
assumptions state.  Two characters are enough for an escape and what it
escapes, and depth 5 holds the trees that are enumerated.

Every property has a mutant, an operator beside the original that changes it
the way a plausible slip in the code would, and TLC refutes the property with
it (`mutants` in `PROJECT.json`).

### Fairness

`BgWorker`: weak fairness of what a worker does by itself; the operating
system runs it and the postmaster restarts it.  Backends, failures and settings
need not happen.  `PostgresScan`: weak fairness of workers and of each thread
as a whole; the lock may go to any thread.  DuckDB calls the scan again
until it is exhausted, but may also stop.  `MotherDuckSync`: the worker polls,
and the commit of a user ends.  `DuckdbScan`: weak fairness of the loop that
sees a cancel and of the drain after it, since each call of `ExecuteTask`
returns; nothing says that a query ends by itself, that a user cancels, or
that Postgres fetches on.  `Converges` assumes of the environment only
what it says: from some time on rounds do not fail.

### Disagreements between the code and what is said of it

Runs expected to fail, each with a finding in `PROJECT.json`:

* `XactDoBlock`: statements in a DO block count as top level and commit in
  DuckDB one by one.  The run needs a backend whose secrets and caches are loaded,
  or COPY: a SELECT or DML that has to load them first opens a transaction.
* `SyncSchema`: a schema that could not be entered does not stop the cleanup.

Met while modelling, and visible in the modules, most of them as a named
exception of a property.  A named exception documents the hazard and does not
catch it: the property says that nothing but the listed causes does harm, and the
`note` of the hazard in `PROJECT.json` says which exception it is:

* DROP OWNED reaches the forced claim of the drop trigger without the check
  that the comment at `pgduckdb_ddl.cpp` 438 asks for (`unchecked`, an
  exception of `EvidenceInv` and `NoMixedBlockCommit`);
* an instance created after `recycle_ddb` has no secrets, against
  `docs/secrets.md` 76 (`secrets` in `lost`, an exception of `SecretsFresh`);
* `duckdb.query($$ FROM pgduckdb.public.t $$)` is streamed while it reads a Postgres
  table, against the comment at `pgduckdb_node.cpp` 197-200: only the range table
  is looked at (`AllowStreamResult`; `RangedReadsContained` says no more);
* the cleanup in the destructor of the reader can raise the error of a worker
  during unwinding (`Destroy`), against `pgduckdb_node.cpp` 223;
* a ROLLBACK with open cursors leaves their cancel holdoffs behind, and an
  error that is caught takes the holdoffs of scans that go on (`orphans`,
  `lostHold`; the comment at `pgduckdb_node.cpp` 337 knows of the second); a
  cancel then jumps past the cleanup of the scan (`FailedScanIsClean`);
* the fraction of a DECIMAL overflows its type when the largest scales are
  rounded up to whole digits, as for DECIMAL(9,9), (18,17) or (38,37)
  (`ShiftOverflows`, `pgduckdb_types.cpp` 427);
* a numeric NaN becomes 0, a `"char"` column or array writes two bytes for each of
  its one-byte cells, and a domain hides that its base type is padded or binary
  (`KnownLoss`);
* an array of three or more dimensions loses elements when a dimension before
  the last two is not 1 (`ListsWritten`, `pgduckdb_types.cpp` 1992); a list of more than 11585
  elements asks for the square of its size (`ExpectedValues`, 1000); an ARRAY
  inside a LIST cannot be returned (`ArrayBelow`, 1013);
* infinite dates and timestamps, and padded BPCHARs, compare differently as
  parameters than as rows (`KnownParameter`, 1826); a finite timestamp parameter
  is not checked, and one at the end of the range of Postgres is shifted onto an
  infinity of DuckDB and equals the infinite rows (1828; met by the proof of
  `TimestampParameterAgrees`, confirmed by TLC);
* arrays of `timestamptz` are not supported, although `docs/types.md` says that
  arrays of all types are;
* seconds and milliseconds too large for microseconds wrap, and may come back as
  a time within the range (`ProductWraps`, `pgduckdb_types.cpp` 326 and 334;
  DuckDB's own casts normally keep the values smaller);
* a filter with a backslash in `~~`, a NOT left of a comparison, an IS NULL right
  of one, or an order under another collation means something else in Postgres or
  is refused (`Differs`);
* a commit outside an explicit block may mix writes (`MixedCommit` without
  `last.explicit`), also in functions, against `transactions.sql` 151 and 172;
* a claim is left for the next transaction (`stale` above);
* an error of Postgres after the pre-commit callback leaves `tempTables`
  without the undo copy (`commitFailed`), against the comment at
  `pgduckdb_xact.cpp` 184;
* the DDL type of REFRESH is not reset after the REFRESH (`PgRefresh`), against
  `pgduckdb_ddl.cpp` 604;
* an error caught inside a function leaves the nest level raised, and later top
  level statements are refused as if inside a function (`StatementError`);
* TRUNCATE uses a command id nobody claims, so the commit of a block that wrote
  only to DuckDB is refused (`Truncate`);
* the flag that should keep the exit hook from being registered twice is never
  set (`hooks`, `pgduckdb_background_worker.cpp` 536);
* a restarted worker forgets that a backend has its session hint, and hands it
  to a second one (`WorkerSetState`), against
  `pgduckdb_background_worker.cpp` 513;
* under REPEATABLE READ a reload reads the old list of servers, and what it made
  is taken for valid by the next transaction (`Behind`); after SET ROLE the
  secrets and the MotherDuck token of the other role are used (`RoleParts`);
* a secrets refresh that is rolled back, an extension counted too early, a flag
  left set by an error and an ignored overflow (`lost` above) leave a backend
  stale until the next change or, for the flag, until it ends;
* a forced round and the worker drop shells the other has just labelled, since
  nothing excludes them (`Cleanup` with two syncers);
* a shell without a label is dropped after its table is gone only when its
  default database is another one, and then also when the table is still there
  (`NotOfThisRound`).

## Proofs

The proof modules hold for every value of the constants that satisfies the
assumptions of the module: any number of statements, subtransactions, nested
executors, tables, workers, backends, versions, threads, tuples, portals, rows.
The assumptions are types and non-emptiness, that threads and workers of a scan
are finitely many (`ScanAssumption`; the reader counts them), and the order of
the widths and ranges of the value conversion; TLC evaluates each of them.
Every inductive invariant but `ScanInv`, whose sets of trees are slow to
evaluate, was checked by TLC on the instance of its run before it was proved.

`DuckdbXactProofs`.  The type invariant is proved in four parts; the counters
need `CounterInv`, which adds that the nest level covers the running executors
(`ExecutorsCounted`), since a finish hook lowers both.  `TxInv` says where a
DuckDB transaction may be open; `DdbTxContained` follows (`TxContained`).
`NoMixedBlockCommit` speaks of transactions that have ended, and is not
inductive.  `EvidenceInv` carries the argument: in a block that has not lost
evidence the claims are not ahead of the command ids, a Postgres write leaves
the ids strictly ahead, and nothing is durable in DuckDB before the pre-commit
callback; so the callback either finds the ids ahead and refuses, or Postgres
wrote nothing (`EvidenceIntact`, `NoMixedBlocks`).  The same invariant gives
`BlockAborts`.  The thirty statements have one effect on command ids in common,
stated once in `StatementCids` and `StatementIsSafe`.  `GlobalsReset` adds that
the resets are already done once the pre-commit callback has succeeded
(`GlobalsInv`), and that nothing is under way before the first statement
(`FreshInv`).  `TempAlwaysTracked` needs `TempInv`: the temporary tables an abort
brings back are in the copy that the abort callback restores, and without a
DuckDB transaction none was taken away or added.

`BgWorkerProofs`.  `EntryIsOwn` is inductive given the types: the entry is set
and removed only by the holder of the lock (`EntryOwned`).  `HintNotLeaked` is
proved on top of it (`HintKept`): the flag is set with the hint and its hook,
and reset by the hook, by a reset, or with the entry.

`PostgresScanProofs`.  `IInv` has the types and five parts.  `RegisterInv`: the
count of registered local states is the number of threads between registering
and unregistering, so the clean-up runs once and after the last of them.
`ThreadInv` and `ReaderInv`: who holds the lock, and which readers are left.
`TupleInv`: no tuple is delivered twice, and a queued one is undelivered and in
one place of one queue.  `LossInv`: as long as the reader is in use, no worker
failed and nothing was raised, every tuple is in the table, in a queue, or
delivered.  `ReaderStaysAlive` and `ScanCompletes` follow.  `ScanKeepsPromise` is
the refinement of `ScanPromise`, which is a safety property: under `IInv` a step that
delivers is `Promise!Deliver`, a step that ends, fails or abandons the scan is
its counterpart, and all others change neither `delivered` nor `ScanState`.

`DuckdbScanProofs`.  `HoldoffsBalance` counts: the cardinality of the open scans
changes by one with each begin and end.  `RowsArriveInOrder` relates what
Postgres got to the position in the chunk and the rows fetched so far
(`RowInv`).  `OneBusy` says that at most one portal runs or drains, none while an
ERROR is thrown, and that failed portals are gone once it is caught.  The
invariants of `ReadsContained`, `FailuresClean` and `RelationsClosed` are
inductive beside them.  `ReadsContained` is about the tables of the range table;
of those inside `duckdb.query()` the claim is false, since they are streamed.

`MotherDuckSyncProofs`.  Types, with `TodoSeen` (a round works only on what it
saw); then `DependentsAreKept`, for any number of syncers, failures and changes:
a shell with dependents keeps its row through every step but those of a forced
round with `drop_with_cascade`, since users do not touch it, `SyncTable` and
`Cleanup` find it pinned, and only sessions cascade (`PinInv`).
`SkippingIsSafe`, `DefaultIsFollowed` and `DropsAreDeleted` are theorems
for one syncer whose schemas can be entered (`Undisturbed`); without either
they are false, since two rounds overwrite each other's labels and a schema
that fails is passed over (`SyncSchema`).  `RoundInv` follows a round: a
shell with the label of MotherDuck's version has its definition (`LabelInv`),
while that version is the one fetched the snapshot is the catalog (`SnapInv`), a
relation that was passed has the label of the round unless a user dropped or
created it afterwards or something failed (`PassedInv`), and after a complete round the shells are
what the catalog was at the version it recorded (`CurrentInv`, `SkipInv`), made
with the default database of the worker, which forgets the versions it knows
whenever it reads that option again.

`InstanceRefreshProofs`.  `IInv` has one part for each thing that is refreshed,
over `Ordered` (what was read is not newer than what is there).  The parts have
one form: a flag that is valid and not lost means the newest version, or a
message in the queue that will withdraw it; a load under way has read such a
version.  Taking the messages at the start of a transaction turns "newest or a
message" into "newest".  A load that reads an old snapshot after the message
was taken is the cause `Behind`, and what was made for another role is lost too.
`ExtensionsInv` has no message to rely on: a recorded sequence value equal to the current one means that no change is open, that the
snapshot sees everything, and that the instance has loaded it.  The four
properties follow (`SecretsAreFresh`, `ExtensionsAreFresh`, `UserDataIsFresh`,
`DecisionsAreCurrent`).

`FilterPushdownProofs`.  All three properties of `FilterPushdown`
(`ScanFiltersAgree`, `ScanOutputAligned`, `ScanRefusesForCause`), for expressions
and filters of every shape and depth, any texts, columns and tables.  The trees
call for induction over data, and the induction theorems of the library take an
operator as a parameter; `SetInduction` has a set in its place, and follows from
the well-foundedness of the naturals.  With it each recursive function is shown
to exist, level by level, and so to satisfy its recursion (`EvalUnfolds` and the
eight lemmas after it), and a claim about a tree follows from the same claim about
its children.  The argument has four layers:

* `QuoteAt` says where each character of a needle stands in the escaped text, and
  `LikeMatch` that such a pattern matches it and nothing else, whatever wildcards
  and backslashes the needle holds; so the patterns that `FuncArgToLikeString`
  makes stand for `prefix`, `suffix` and `contains` (`NeedlesMatchLiterally`);
* `EvalAgrees`: without a known difference the two databases give an expression
  the same value; `StringType` and `StringValue`: what `ExpressionToString` writes
  is a condition of the same type, at most three times as deep, and has the value
  of the expression.  Together `PushedExpressionsAgree`;
* `ExtractMeans`: what `ExtractQueryFilters` returns for a filter is an error, for
  which a part that is not optional is the cause, or nothing, when no part of the
  filter has to hold, or a condition that is true where all of the filter is, and
  only where what is not optional of it is.  `JoinIs` says how the loop over the
  children of an AND or OR ends;
* `ScanInv`, the inductive invariant of the scan: the query is what the filters
  became, the rows sent so far are those that all its conditions accept, each
  beside its tuple.

`ValueConversionProofs`, dates and timestamps.  For every offset and every pair of ranges that satisfy
`DateAssumption` and `TimestampAssumption` (the real ones do; TLC evaluates both
on the scaled ones): a date comes back as it was and keeps its place in the
order (`DateRoundTrip`, `DateOrder`); `AppendTimestamp` adds the offset before
it checks the range, and the proof is that a sum that wraps lands below the
range, so that exactly the timestamps DuckDB cannot hold are refused
(`TimestampShift`, `TimestampBoundsCheck`) and every other one comes back in its
order (`TimestampRoundTrip`, `TimestampOrder`).  Parameters, which are not
checked, agree with the rows (`DateParameterAgrees`,
`TimestampParameterAgrees`); UUIDs keep their order as signed integers because
the top bit is flipped (`UUIDRoundTrip`, `UUIDOrder`); results in seconds,
milliseconds and nanoseconds are the same time to the microsecond, unless the
product of the change of the unit wraps (`TimestampResults`: what is refused is out
of the range, what is returned is a finite time of Postgres, and what is out of
the range is refused, the last two up to `ProductWraps`).

`ValueConversionProofs`, columns.  The six properties of `ValueConversion` for columns and
results that are neither arrays nor decimals (`Scalar`), for any number of rows,
and four of them also for arrays of one dimension and lists of DuckDB of depth
one (`Flat`), of any length: `ColumnTypes`, `RowsComeBack`, `ResultsStand`,
`RaisesHaveCause` for both, `RowsKeepOrder`, `ParametersAgree` for scalars
(arrays are neither bound nor among the ordered types).  `ScalarCell` says of one
value what its cell holds and what that is returned as, type by type, from the
results above.  Two invariants lift it to vectors.

* `IInv`: each row has its own cell or is marked NULL, and a later row does not
  disturb it (`CellInv`; the cells of a `"char"`, written two bytes at a time, are
  the exception); DuckDB has what the rows read as (`DuckInv`), and the output is
  what that is converted to (`OutInv`).
* `ListInv`: each row has a list entry whose cells lie within the size of the
  child vector (`HasList`).  That bound is the strengthening that makes it
  inductive: the next array is written from that size on (`WrittenList`), so no
  entry written before reads other elements (`ListKept`).  The recursive
  definitions of `ListConversion` are unfolded once (`ReadOnce`, `ConvertOnce`,
  `NestOnce`, `SquareOnce`), which is why the theorems stop at one dimension.
  Arrays of other dimensions in such a column are covered: they are refused.

Only model-checked:

* the liveness properties `ScanTerminates`, `CancelStopsQuery`, `ActivityIsServed` and `Converges`:
  liveness and ENABLED are out of the reach of the prover;
* `ValueConversion` for decimals, for arrays of decimals and of `"char"`, and for
  columns of two or more dimensions: products of digits and powers are nonlinear,
  which the SMT solver does not decide, and the entries of nested lists would need
  an induction over the depth with several vectors at once.

## Not modelled, and why

Deparsing (`pgduckdb_ruleutils.cpp` and the vendored code) turns parse trees
into text; settings and wrappers call one Postgres function each.  The FDW code
validates options and builds SQL, and so does most of COPY.  Subscripting
rewrites expressions of DuckDB's own types.  EXPLAIN only prints.  Of the value
conversion, detoasting is Postgres code, and numerics as doubles and floats
would need real numbers.  The signal mask of DuckDB's threads has no effect on
a state of the models.

## Plan

Done: every module of the list above, with its runs; the safety properties of
`DuckdbXact`, `BgWorker`, `InstanceRefresh`, `DuckdbScan` and `PostgresScan`,
the refinement of `ScanPromise`, those of `MotherDuckSync` as far as they hold,
those of `FilterPushdown`, and those of `ValueConversion` for scalars and arrays of
one dimension, as theorems.

Next, proving: arrays of more dimensions in `ValueConversion`, by induction over
the depth as in `FilterPushdownProofs`.

Left for the models: own DDL on servers and `CreateConnection` in
`InstanceRefresh`; DuckDB's own temporary tables in `DuckdbXact`, and
`recycle_ddb` on them; users altering tables, and several MotherDuck databases,
in `MotherDuckSync`; an abstract atomic two-store transaction that `DuckdbXact`
implements for blocks that lose no evidence.
