----------------------------- MODULE DuckdbXact -----------------------------
(***************************************************************************)
(* One Postgres backend in which pg_duckdb runs: how the DuckDB            *)
(* transaction is kept in step with the Postgres transaction, and how      *)
(* writing to both stores in one transaction block is detected.            *)
(*                                                                         *)
(* The detection is indirect.  Postgres gives every writing command a      *)
(* command id; pg_duckdb "claims" the ids its own writes use, and a        *)
(* command id that is ahead of the last claim means Postgres wrote.  The   *)
(* claims are process globals that are reset by the transaction callback,  *)
(* so the interesting behaviours are sequences of transactions in which a  *)
(* reset is skipped, a claim is forced, or an error leaves a handler half  *)
(* way.  An error inside a statement is therefore two steps here: the      *)
(* handler stops with the state it has reached (failing # "no"), and then  *)
(* Postgres aborts the subtransaction or the transaction.                  *)
(*                                                                         *)
(* The extension is installed in the database and the backend is not the   *)
(* MotherDuck background worker (doing_motherduck_sync is false).          *)
(***************************************************************************)
EXTENDS Naturals, FiniteSets

CONSTANTS
    Tables,             \* oids a DuckDB temporary table may get
    UnsafeMixed,        \* duckdb.unsafe_allow_mixed_transactions
    UnsafeInFunctions,  \* duckdb.unsafe_allow_execution_inside_functions
    MotherDuckEnabled,  \* IsMotherDuckEnabled()
    MaxCid,             \* bound: command ids used by one transaction
    MaxStmts,           \* bound: top level statements of one transaction
    MaxNest,            \* bound: nested executor runs
    MaxSub              \* bound: nested subtransactions

ASSUME ConstantsAssumption ==
    /\ UnsafeMixed \in BOOLEAN
    /\ UnsafeInFunctions \in BOOLEAN
    /\ MotherDuckEnabled \in BOOLEAN
    /\ MaxCid \in Nat /\ MaxStmts \in Nat /\ MaxNest \in Nat /\ MaxSub \in Nat

VARIABLES
    \* Postgres transaction state (external)
    blockState,     \* idle, started, implicit, inblock, aborted or committing
    explicit,       \* the transaction was opened with BEGIN
    subDepth,       \* open subtransactions
    levelAt,        \* levelAt[d]: nesting level at which subtransaction d began
    stmts,          \* top level statements run in this transaction
    cid,            \* the current command id
    cidUsed,        \* 1 when a write has already used cid, else 0
    pgWrote,        \* subtransaction levels holding uncommitted user writes
    openExec,       \* Postgres queries whose executor is running
    inDo,           \* 1 while a DO block is running under them, else 0
    failing,        \* "no", or the error being raised: "error" or "mixed"
    \* process globals of the extension
    nextExpected,   \* next_expected_command_id
    topLevel,       \* top_level_statement
    savedTop,       \* prev_top_level_ddl of the running DO block
    forceAllow,     \* force_allow_writes
    nest,           \* executor_nest_level
    ddlType,        \* top_level_duckdb_ddl_type
    \* the DuckDB instance of the backend
    ddbInit,        \* DuckDBManager::IsInitialized()
    ddbTx,          \* the connection has an active transaction
    ddbWrote,       \* that transaction modified a database
    ddbDurable,     \* DuckDB writes of this Postgres transaction are durable
    \* temporary DuckDB tables
    tempTables,     \* temporary_duckdb_tables
    tempOld,        \* temporary_duckdb_tables_old
    tempModified,   \* modified_temporary_duckdb_tables
    pgTemp,         \* tables that exist for Postgres, in this transaction
    pgTempSaved,    \* tables that exist for Postgres, committed
    \* history
    evidenceLost,   \* why command ids no longer tell whether Postgres wrote:
                    \* "no", or "stale", "force" or "unchecked"
    commitFailed,   \* a commit failed after the undo copy was given up
    last            \* how the last transaction ended

xactVars == <<blockState, explicit, subDepth, levelAt, openExec, inDo>>
cidVars  == <<cid, cidUsed, nextExpected>>
globVars == <<topLevel, savedTop, forceAllow, nest, ddlType>>
ddbVars  == <<ddbInit, ddbTx, ddbWrote, ddbDurable>>
tempVars == <<tempTables, tempOld, tempModified>>
pgTempVars == <<pgTemp, pgTempSaved>>
histVars == <<evidenceLost, commitFailed, last>>
vars == <<xactVars, stmts, cidVars, pgWrote, failing, globVars, ddbVars,
          tempVars, pgTempVars, histVars>>

FirstCommandId == 0
NoOutcome == [pg |-> "none", explicit |-> FALSE, pgWrote |-> FALSE,
              ddbDurable |-> FALSE, lost |-> "no", late |-> FALSE]

-----------------------------------------------------------------------------
(* What Postgres and the extension's helpers answer.                       *)

\* A subtransaction or a running statement is at this nesting level.
Level == openExec + inDo
AtTop == Level = 0
Running == blockState \in {"started", "implicit", "inblock"} /\ failing = "no"

\* IsInTransactionBlock(is_top_level) of Postgres.
IsInTransactionBlock(top) ==
    blockState \in {"implicit", "inblock"} \/ subDepth > 0 \/ ~top

\* CommandCounterIncrement before a (nested) command starts.
StartCid == cid + cidUsed

MixedWritesAllowed(top) ==
    ~IsInTransactionBlock(top) \/ UnsafeMixed \/ forceAllow

\* Mutant: one unclaimed command id is tolerated.
PgDidWritesOffByOne(c) == c > nextExpected + 1
PgDidWrites(c) == c > nextExpected
DdbDidWrites == ddbTx /\ ddbWrote

AllowWrites == MixedWritesAllowed(topLevel) \/ ~DdbDidWrites

DidDisallowedMixedWrites(top) ==
    ~MixedWritesAllowed(top) /\ PgDidWrites(cid) /\ DdbDidWrites

\* Mutant: a claim is refused only for a command id already claimed.
ClaimRefusedLax(c, top) == c < nextExpected /\ ~MixedWritesAllowed(top)
\* The unforced ClaimCurrentCommandId throws.
ClaimRefused(c, top) == c # nextExpected /\ ~MixedWritesAllowed(top)

\* The effect of n claims, the last of which sees command id c.
Claim(c) == cid' = c + 1 /\ nextExpected' = c + 1 /\ cidUsed' = 0

\* Mutant: GetConnection does not look for a subtransaction.
CanConnectAnywhere == TRUE
\* GetConnection: refuses to open a DuckDB transaction in a subtransaction.
CanConnect == ddbTx \/ subDepth = 0
\* Mutant: only a forced GetConnection begins a DuckDB transaction.
ConnectOpensTxForced(force, top) == ddbTx \/ force
ConnectOpensTx(force, top) == ddbTx \/ force \/ IsInTransactionBlock(top)

\* The planner's refusal to use DuckDB below a running executor.
NestAllowed == nest = 0 \/ UnsafeInFunctions

\* A DuckDB write goes to the open transaction or is durable at once.
DdbWrite(tx) ==
    /\ ddbInit' = TRUE
    /\ ddbTx' = tx
    /\ ddbWrote' = (ddbWrote \/ tx)
    /\ ddbDurable' = (ddbDurable \/ ~tx)

\* GetConnection alone.
Connect(tx) == ddbInit' = TRUE /\ ddbTx' = tx /\ UNCHANGED <<ddbWrote, ddbDurable>>

\* The top-level flag after GetConnection, which may have to load the secrets
\* and always does so the first time in a backend: a query through SPI, whose
\* planning marks the statement as not top level.  The flag is read only by
\* IsInTransactionBlock, so inside a block, where it decides nothing until the end
\* of the transaction resets it, the mark is left out.
TopAfterRefresh ==
    IF blockState = "started" THEN {topLevel, FALSE} ELSE {topLevel}

\* Guard and bookkeeping of the start of any statement.
MayRun ==
    /\ Running
    /\ cid + 4 <= MaxCid
    /\ nest <= MaxNest
    /\ AtTop => stmts < (IF blockState = "started" THEN 1 ELSE MaxStmts)
CountStmt == stmts' = IF AtTop THEN stmts + 1 ELSE stmts

Raise(what) == failing' = what

\* History only: the first way in which the command ids became misleading.
LossReasons == {"no", "stale", "force", "unchecked"}
LoseEvidence(cond, why) ==
    evidenceLost' = IF cond /\ evidenceLost = "no" THEN why ELSE evidenceLost

\* A DuckDB table that a statement can name.
HasDuckdbTable == MotherDuckEnabled \/ pgTemp # {}

\* Mutant: the hook counts after its early return for Postgres plans.
ExecutorEnterUncounted == openExec' = openExec + 1 /\ nest' = nest
\* The ExecutorStart hook counts every executor run, DuckDB plan or not.
ExecutorEnter == openExec' = openExec + 1 /\ nest' = nest + 1
-----------------------------------------------------------------------------
(* Transaction start.                                                      *)

Open(state) ==
    /\ blockState = "idle"
    /\ blockState' = state
    /\ explicit' = (state = "inblock")
    /\ evidenceLost' = IF nextExpected # FirstCommandId \/ forceAllow
                       THEN "stale" ELSE "no"
    /\ last' = NoOutcome
    /\ UNCHANGED <<subDepth, levelAt, openExec, inDo, stmts, cidVars, pgWrote,
                   failing, globVars, ddbVars, tempVars, pgTempVars,
                   commitFailed>>

Begin == Open("inblock")            \* BEGIN
BeginImplicit == Open("implicit")   \* a multi-statement query message
BeginSingle == Open("started")      \* a lone statement

-----------------------------------------------------------------------------
(* Statements Postgres executes itself.                                    *)

\* Planner and ExecutorStart hooks for a query with a Postgres plan.  A plan
\* from the plan cache (planned = FALSE) does not pass the planner hook.
PgQueryOpen(write, planned) ==
    /\ MayRun
    /\ nest < MaxNest
    /\ CountStmt
    /\ \/ /\ planned /\ write /\ ~AllowWrites
          /\ Raise("mixed")
          /\ UNCHANGED <<openExec, cid, cidUsed, pgWrote, topLevel, nest>>
       \/ /\ ~(planned /\ write /\ ~AllowWrites)
          /\ ExecutorEnter
          /\ topLevel' = FALSE
          /\ cid' = StartCid
          /\ cidUsed' = IF write THEN 1 ELSE 0
          /\ pgWrote' = IF write THEN pgWrote \cup {subDepth} ELSE pgWrote
          /\ UNCHANGED failing
    /\ UNCHANGED <<blockState, explicit, subDepth, levelAt, inDo, nextExpected,
                   savedTop, forceAllow, ddlType, ddbVars, tempVars,
                   pgTempVars, histVars>>

\* ExecutorFinish hook for a Postgres plan, then CommandCounterIncrement.
PgQueryClose ==
    /\ Running
    /\ openExec > 0
    /\ \A d \in 1..subDepth : levelAt[d] < Level
    /\ openExec' = openExec - 1
    /\ nest' = nest - 1
    /\ cid' = StartCid
    /\ cidUsed' = 0
    /\ UNCHANGED <<blockState, explicit, subDepth, levelAt, inDo, stmts,
                   nextExpected, pgWrote, failing, topLevel, savedTop,
                   forceAllow, ddlType, ddbVars, tempVars, pgTempVars,
                   histVars>>

\* CREATE TABLE of a Postgres table.  The utility hook restores the top level
\* flag; the create trigger resets the DDL type for any table.
PgCreateTable ==
    /\ MayRun
    /\ CountStmt
    /\ cid' = StartCid + 1
    /\ cidUsed' = 0
    /\ pgWrote' = pgWrote \cup {subDepth}
    /\ ddlType' = "none"
    /\ UNCHANGED <<xactVars, nextExpected, failing, topLevel, savedTop,
                   forceAllow, nest, ddbVars, tempVars, pgTempVars, histVars>>

\* REFRESH MATERIALIZED VIEW: marks the DDL type, nothing ever clears it
\* before the end of the transaction.
PgRefresh ==
    /\ MayRun
    /\ CountStmt
    /\ cid' = StartCid + 1
    /\ cidUsed' = 0
    /\ pgWrote' = pgWrote \cup {subDepth}
    /\ ddlType' = "refresh"
    /\ UNCHANGED <<xactVars, nextExpected, failing, topLevel, savedTop,
                   forceAllow, nest, ddbVars, tempVars, pgTempVars, histVars>>

\* DROP TABLE of a Postgres table: the drop trigger deletes from duckdb.tables
\* with writes forcibly allowed, and an error there leaves them allowed.
PgDropTable ==
    /\ MayRun
    /\ CountStmt
    /\ \/ /\ cid' = StartCid + 2
          /\ cidUsed' = 0
          /\ pgWrote' = pgWrote \cup {subDepth}
          /\ forceAllow' = FALSE
          /\ UNCHANGED <<failing, topLevel, nest>>
       \/ /\ Raise("error")
          /\ cid' = StartCid + 1
          /\ cidUsed' = 1
          /\ forceAllow' = TRUE
          /\ topLevel' = FALSE
          /\ (nest' = nest \/ nest' = nest + 1)
          /\ UNCHANGED pgWrote
    /\ UNCHANGED <<xactVars, nextExpected, savedTop, ddlType, ddbVars,
                   tempVars, pgTempVars, histVars>>

\* DO: a top level utility statement that runs nested statements.
DoOpen ==
    /\ MayRun /\ AtTop
    /\ CountStmt
    /\ inDo' = 1
    /\ savedTop' = topLevel
    /\ topLevel' = TRUE
    /\ UNCHANGED <<blockState, explicit, subDepth, levelAt, openExec, cidVars,
                   pgWrote, failing, forceAllow, nest, ddlType, ddbVars,
                   tempVars, pgTempVars, histVars>>

DoClose ==
    /\ Running
    /\ inDo = 1 /\ openExec = 0
    /\ \A d \in 1..subDepth : levelAt[d] < Level
    /\ inDo' = 0
    /\ topLevel' = savedTop
    /\ savedTop' = TRUE
    /\ UNCHANGED <<blockState, explicit, subDepth, levelAt, openExec, stmts,
                   cidVars, pgWrote, failing, forceAllow, nest,
                   ddlType, ddbVars, tempVars, pgTempVars, histVars>>

\* The hooks of a statement find the metadata or the user data cache invalid.
\* They fill it, which runs a query through SPI and so marks the statement as
\* not top level, before they do anything else (in a block the mark is left out,
\* as in TopAfterRefresh).
LoadCaches ==
    /\ MayRun
    /\ blockState = "started"
    /\ topLevel /\ topLevel' = FALSE
    /\ UNCHANGED <<xactVars, stmts, cidVars, pgWrote, failing, savedTop, forceAllow,
                   nest, ddlType, ddbVars, tempVars, pgTempVars, histVars>>

\* Any statement may fail for reasons of its own: before its hooks ran, in a
\* utility statement, or in a running executor (whose ExecutorFinish is skipped).
StatementError ==
    /\ MayRun
    /\ CountStmt
    /\ Raise("error")
    /\ \/ UNCHANGED <<topLevel, nest>>
       \/ topLevel' = AtTop /\ UNCHANGED nest
       \/ topLevel' = FALSE /\ nest' = nest + 1
    /\ UNCHANGED <<xactVars, cidVars, pgWrote, savedTop, forceAllow, ddlType,
                   ddbVars, tempVars, pgTempVars, histVars>>

-----------------------------------------------------------------------------
(* Queries with a DuckDB plan.                                             *)

\* SELECT: planner hook, BeginCustomScan, ExecutorFinish hook.  When the
\* DuckDB transaction has written already, even a SELECT claims at its end.
\* GetConnection is called twice at least, and the last call, which sees what
\* a reload made of the top level, decides whether a transaction is opened.
DdbSelect(planned, top) ==
    /\ MayRun
    /\ CountStmt
    /\ \/ /\ planned /\ ~NestAllowed
          /\ Raise("error")
          /\ UNCHANGED <<cidVars, topLevel, nest, ddbVars>>
       \/ /\ planned => NestAllowed
          /\ ~CanConnect
          /\ Raise("error")
          /\ ddbInit' = TRUE
          /\ IF planned THEN nest' = nest ELSE nest' = nest + 1
          /\ UNCHANGED <<cidVars, topLevel, ddbTx, ddbWrote, ddbDurable>>
       \/ /\ planned => NestAllowed
          /\ CanConnect
          /\ Raise("error")        \* DuckDB fails to plan or to execute
          /\ \E seen \in {topLevel, top} : Connect(ConnectOpensTx(FALSE, seen))
          /\ topLevel' = top
          /\ (nest' = nest + 1) \/ (planned /\ nest' = nest)
          /\ UNCHANGED cidVars
       \/ /\ planned => NestAllowed
          /\ CanConnect
          /\ Connect(ConnectOpensTx(FALSE, top))
          /\ topLevel' = top
          /\ UNCHANGED nest
          /\ \/ /\ ~DdbDidWrites
                /\ cid' = StartCid /\ cidUsed' = 0
                /\ UNCHANGED <<nextExpected, failing>>
             \/ /\ DdbDidWrites
                /\ ClaimRefused(StartCid, top)
                /\ Raise("mixed")
                /\ cid' = StartCid /\ cidUsed' = 1
                /\ UNCHANGED nextExpected
             \/ /\ DdbDidWrites
                /\ ~ClaimRefused(StartCid, top)
                /\ Claim(StartCid)
                /\ UNCHANGED failing
    /\ UNCHANGED <<xactVars, pgWrote, savedTop, forceAllow, ddlType, tempVars,
                   pgTempVars, histVars>>

\* INSERT, UPDATE or DELETE on a DuckDB table: the planner looks for mixed
\* writes, ExecutorStart claims, ExecutorFinish claims once more if the write
\* went to an open DuckDB transaction.
DdbDml(planned, top) ==
    LET allowed == planned => NestAllowed /\ ~DidDisallowedMixedWrites(topLevel)
        tx      == ConnectOpensTx(FALSE, top)
    IN  /\ MayRun
        /\ HasDuckdbTable
        /\ CountStmt
        /\ \/ /\ ~allowed
              /\ Raise(IF DidDisallowedMixedWrites(topLevel) THEN "mixed"
                       ELSE "error")
              /\ UNCHANGED <<cidVars, topLevel, nest, ddbVars>>
           \/ /\ allowed /\ ~CanConnect
              /\ Raise("error")
              /\ ddbInit' = TRUE
              /\ IF planned THEN nest' = nest ELSE nest' = nest + 1
              /\ UNCHANGED <<cidVars, topLevel, ddbTx, ddbWrote, ddbDurable>>
           \/ /\ allowed /\ CanConnect
              /\ topLevel' = top
              /\ \/ /\ ClaimRefused(StartCid, top)
                    /\ Connect(tx)
                    /\ Raise("mixed")
                    /\ cid' = StartCid /\ cidUsed' = 1
                    /\ nest' = nest + 1
                    /\ UNCHANGED nextExpected
                 \/ /\ ~ClaimRefused(StartCid, top)
                    /\ Connect(tx)      \* DuckDB fails while executing
                    /\ Raise("error")
                    /\ Claim(StartCid)
                    /\ nest' = nest + 1
                 \/ /\ ~ClaimRefused(StartCid, top)
                    /\ DdbWrite(tx)
                    /\ Claim(IF tx THEN StartCid + 1 ELSE StartCid)
                    /\ UNCHANGED <<failing, nest>>
        /\ UNCHANGED <<xactVars, pgWrote, savedTop, forceAllow, ddlType, tempVars,
                       pgTempVars, histVars>>

-----------------------------------------------------------------------------
(* Writes to DuckDB that claim nothing.                                    *)

\* duckdb.raw_query, a function called by a running Postgres query.
RawQuery ==
    /\ Running
    /\ openExec > 0
    /\ \/ /\ ~CanConnect
          /\ Raise("error")
          /\ ddbInit' = TRUE
          /\ UNCHANGED <<ddbTx, ddbWrote, ddbDurable>>
       \/ /\ CanConnect
          /\ DdbWrite(ConnectOpensTx(FALSE, topLevel))
          /\ UNCHANGED failing
    /\ UNCHANGED <<xactVars, stmts, cidVars, pgWrote, globVars, tempVars,
                   pgTempVars, histVars>>

\* COPY duckdb_table FROM: the utility hook returns before it sets the top
\* level flag.  There is one GetConnection, which looks at it before a reload.
CopyFrom(top) ==
    /\ MayRun
    /\ HasDuckdbTable
    /\ CountStmt
    /\ \/ /\ ~CanConnect
          /\ Raise("error")
          /\ ddbInit' = TRUE
          /\ UNCHANGED <<topLevel, ddbTx, ddbWrote, ddbDurable>>
       \/ /\ CanConnect
          /\ DdbWrite(ConnectOpensTx(FALSE, topLevel))
          /\ topLevel' = top
          /\ UNCHANGED failing
    /\ UNCHANGED <<xactVars, cidVars, pgWrote, savedTop, forceAllow, nest, ddlType,
                   tempVars, pgTempVars, histVars>>

\* TRUNCATE of a DuckDB table: DuckDB truncates, and Postgres gives the shell
\* table a new storage file, unless this transaction created or already
\* truncated the table.
Truncate ==
    /\ MayRun
    /\ HasDuckdbTable
    /\ CountStmt
    /\ \/ /\ ~CanConnect
          /\ Raise("error")
          /\ ddbInit' = TRUE
          /\ topLevel' = AtTop
          /\ UNCHANGED <<cid, cidUsed, ddbTx, ddbWrote, ddbDurable>>
       \/ /\ CanConnect
          /\ DdbWrite(ConnectOpensTx(FALSE, AtTop))
          /\ \/ /\ MotherDuckEnabled \/ pgTemp \cap pgTempSaved # {}
                /\ cid' = StartCid + 1
             \/ /\ ddbWrote \/ ddbDurable
                /\ cid' = StartCid
          /\ cidUsed' = 0
          /\ UNCHANGED <<failing, topLevel>>
    /\ UNCHANGED <<xactVars, nextExpected, pgWrote, savedTop, forceAllow, nest,
                   ddlType, tempVars, pgTempVars, histVars>>

-----------------------------------------------------------------------------
(* DDL on DuckDB tables: a checked claim before Postgres executes the       *)
(* command, a forced claim in the event trigger after it, and only then the *)
(* DuckDB transaction.                                                      *)

\* Mutant: every change overwrites the undo copy, not only the first.
SaveTempAlways == tempModified' = TRUE /\ tempOld' = tempTables
\* RegisterDuckdbTempTable and UnregisterDuckdbTempTable keep the undo copy.
SaveTemp ==
    /\ tempModified' = TRUE
    /\ tempOld' = IF tempModified THEN tempOld ELSE tempTables
RegisterDuckdbTempTable(t) == SaveTemp /\ tempTables' = tempTables \cup {t}
UnregisterDuckdbTempTable(t) == SaveTemp /\ tempTables' = tempTables \ {t}

\* The utility hook refuses CREATE TABLE ... USING duckdb: another DuckDB DDL
\* is under way, or the claim throws.
CreateRefused ==
    /\ MayRun
    /\ CountStmt
    /\ topLevel' = AtTop
    /\ \/ /\ ddlType # "none"
          /\ Raise("error")
          /\ UNCHANGED <<cid, cidUsed, ddlType>>
       \/ /\ ddlType = "none"
          /\ ClaimRefused(StartCid, AtTop)
          /\ Raise("mixed")
          /\ ddlType' = "create"
          /\ cid' = StartCid /\ cidUsed' = 1
    /\ UNCHANGED <<xactVars, nextExpected, pgWrote, savedTop, forceAllow, nest,
                   ddbVars, tempVars, pgTempVars, histVars>>

CreateClaimed ==
    MayRun /\ CountStmt /\ ddlType = "none" /\ ~ClaimRefused(StartCid, AtTop)

\* Postgres rejects the definition after the claim, before the trigger.
CreateFailsInPostgres ==
    /\ CreateClaimed
    /\ Raise("error")
    /\ Claim(StartCid)
    /\ ddlType' = "create"
    /\ topLevel' = AtTop
    /\ UNCHANGED <<xactVars, pgWrote, savedTop, forceAllow, nest, ddbVars,
                   tempVars, pgTempVars, histVars>>

\* A permanent table: only with MotherDuck, and recorded in duckdb.tables with
\* writes forcibly allowed.
CreatePermanentFails ==
    /\ CreateClaimed
    /\ Raise("error")
    /\ nextExpected' = StartCid + 1
    /\ cid' = StartCid + 2
    /\ ddlType' = "none"
    /\ topLevel' = FALSE
    /\ \/ /\ ~MotherDuckEnabled
          /\ cidUsed' = 0
          /\ UNCHANGED <<forceAllow, nest, ddbInit>>
       \/ /\ MotherDuckEnabled      \* the INSERT into duckdb.tables fails
          /\ cidUsed' = 1
          /\ forceAllow' = TRUE
          /\ (nest' = nest \/ nest' = nest + 1)
          /\ ddbInit' = TRUE
    /\ UNCHANGED <<xactVars, pgWrote, savedTop, ddbTx, ddbWrote, ddbDurable,
                   tempVars, pgTempVars, histVars>>

CreatePermanent ==
    /\ CreateClaimed
    /\ MotherDuckEnabled
    /\ Claim(StartCid + 3)
    /\ forceAllow' = FALSE
    /\ ddlType' = "none"
    /\ \/ /\ CanConnect
          /\ DdbWrite(TRUE)
          /\ UNCHANGED <<failing, topLevel>>
       \/ /\ ~CanConnect
          /\ Raise("error")
          /\ ddbInit' = TRUE
          /\ topLevel' = FALSE
          /\ UNCHANGED <<ddbTx, ddbWrote, ddbDurable>>
    /\ UNCHANGED <<xactVars, pgWrote, savedTop, nest, tempVars, pgTempVars,
                   histVars>>

\* A temporary table: registered first, then claimed, then the definition is
\* checked, and only then the DuckDB transaction is opened.
CreateTemp(t) ==
    /\ CreateClaimed
    /\ t \notin pgTemp
    /\ RegisterDuckdbTempTable(t)
    /\ Claim(StartCid + 2)
    /\ ddlType' = "none"
    /\ \/ /\ Raise("error")         \* ON COMMIT DROP, unsupported definition
          /\ topLevel' = FALSE
          /\ UNCHANGED <<ddbVars, pgTemp>>
       \/ /\ ~CanConnect
          /\ Raise("error")
          /\ ddbInit' = TRUE
          /\ topLevel' = FALSE
          /\ UNCHANGED <<ddbTx, ddbWrote, ddbDurable, pgTemp>>
       \/ /\ CanConnect             \* DuckDB rejects the table
          /\ Raise("error")
          /\ Connect(TRUE)
          /\ topLevel' = FALSE
          /\ UNCHANGED pgTemp
       \/ /\ CanConnect
          /\ DdbWrite(TRUE)
          /\ pgTemp' = pgTemp \cup {t}
          /\ UNCHANGED <<failing, topLevel>>
    /\ UNCHANGED <<xactVars, pgWrote, savedTop, forceAllow, nest, pgTempSaved,
                   histVars>>

\* ALTER TABLE of a DuckDB table.  The hook marks the DDL type and claims, but
\* only when no other DuckDB DDL is under way.
AlterRefused ==
    /\ MayRun
    /\ HasDuckdbTable
    /\ CountStmt
    /\ \/ /\ ddlType = "none" /\ ClaimRefused(StartCid, AtTop)
          /\ Raise("mixed")
          /\ ddlType' = "alter"
          /\ topLevel' = AtTop
          /\ cid' = StartCid /\ cidUsed' = 1
          /\ UNCHANGED nextExpected
       \/ /\ ddlType = "none" /\ ~ClaimRefused(StartCid, AtTop)
          /\ Raise("error")         \* Postgres rejects the command
          /\ ddlType' = "alter"
          /\ topLevel' = AtTop
          /\ Claim(StartCid)
       \/ /\ ddlType \notin {"none", "alter"}
          /\ Raise("error")         \* the trigger rejects the command
          /\ ddlType' = "none"
          /\ topLevel' = FALSE
          /\ cid' = StartCid + 1 /\ cidUsed' = 0
          /\ UNCHANGED nextExpected
    /\ UNCHANGED <<xactVars, pgWrote, savedTop, forceAllow, nest, ddbVars,
                   tempVars, pgTempVars, histVars>>

\* A DDL type left behind by an ALTER that failed in a subtransaction lets the
\* next ALTER reach the forced claim of the trigger without the checked one.
AlterTable ==
    LET checked == ddlType = "none"
    IN  /\ MayRun
        /\ HasDuckdbTable
        /\ CountStmt
        /\ ddlType = "alter" \/ (checked /\ ~ClaimRefused(StartCid, AtTop))
        /\ Claim(StartCid + (IF checked THEN 2 ELSE 1))
        /\ LoseEvidence(~checked /\ StartCid # nextExpected, "unchecked")
        /\ ddlType' = "none"
        /\ \/ /\ ~CanConnect
              /\ Raise("error")
              /\ ddbInit' = TRUE
              /\ topLevel' = FALSE
              /\ UNCHANGED <<ddbTx, ddbWrote, ddbDurable>>
           \/ /\ CanConnect
              /\ DdbWrite(TRUE)
              /\ UNCHANGED <<failing, topLevel>>
        /\ UNCHANGED <<xactVars, pgWrote, savedTop, forceAllow, nest, tempVars,
                       pgTempVars, commitFailed, last>>

\* The drop of other relations or objects with t is refused by the trigger.  It
\* has reset force_allow_writes by then.
DropMixes(alsoPg) == alsoPg /\ IsInTransactionBlock(AtTop) /\ ~UnsafeMixed

\* The drop trigger, run after Postgres dropped t at command id c, and alsoPg
\* what is not DuckDB's; e is what the hook left in next_expected_command_id,
\* and checked says whether the hook made its own checked claim.
DropTrigger(t, c, e, checked, alsoPg) ==
    \/ /\ Raise("error")            \* DELETE FROM duckdb.tables fails
       /\ cid' = c /\ cidUsed' = 1 /\ nextExpected' = e
       /\ forceAllow' = TRUE
       /\ topLevel' = FALSE
       /\ (nest' = nest \/ nest' = nest + 1)
       /\ UNCHANGED <<ddbVars, tempVars, pgTemp, evidenceLost>>
    \/ /\ t \in tempTables          \* no connection, or DuckDB fails
       /\ Raise("error")
       /\ cid' = c + 1 /\ cidUsed' = 0 /\ nextExpected' = e
       /\ forceAllow' = FALSE
       /\ topLevel' = FALSE
       /\ ddbInit' = TRUE
       /\ ddbTx' = CanConnect
       /\ UNCHANGED <<nest, ddbWrote, ddbDurable, tempVars, pgTemp,
                      evidenceLost>>
    \/ /\ t \in tempTables
       /\ CanConnect
       /\ DdbWrite(TRUE)
       /\ UnregisterDuckdbTempTable(t)
       /\ pgTemp' = pgTemp \ {t}
       /\ forceAllow' = FALSE
       /\ \/ /\ DropMixes(alsoPg)
             /\ Raise("error")
             /\ cid' = c + 1 /\ cidUsed' = 0 /\ nextExpected' = e
             /\ topLevel' = AtTop
             /\ UNCHANGED evidenceLost
          \/ /\ ~DropMixes(alsoPg)
             /\ Claim(c + 1)
             /\ LoseEvidence(~checked /\ StartCid # nextExpected, "unchecked")
             /\ UNCHANGED <<failing, topLevel>>
       /\ UNCHANGED nest
    \/ /\ t \notin tempTables       \* taken for a Postgres table
       /\ pgTemp' = pgTemp \ {t}
       /\ cid' = c + 1 /\ cidUsed' = 0 /\ nextExpected' = e
       /\ forceAllow' = FALSE
       /\ UNCHANGED <<failing, topLevel, nest, ddbVars, tempVars, evidenceLost>>

\* DROP TABLE with DropTablePreCheck; alsoPg: the command names a Postgres
\* table too.
DropTable(t, alsoPg) ==
    /\ MayRun
    /\ t \in pgTemp
    /\ CountStmt
    /\ \/ /\ \/ ClaimRefused(StartCid, AtTop)
             \/ alsoPg /\ ~MixedWritesAllowed(AtTop)
          /\ Raise("mixed")
          /\ topLevel' = AtTop
          /\ IF ClaimRefused(StartCid, AtTop)
             THEN cid' = StartCid /\ cidUsed' = 1 /\ UNCHANGED nextExpected
             ELSE Claim(StartCid)
          /\ UNCHANGED <<pgWrote, forceAllow, nest, ddbVars, tempVars, pgTemp,
                         evidenceLost>>
       \/ /\ ~ClaimRefused(StartCid, AtTop)
          /\ ~(alsoPg /\ ~MixedWritesAllowed(AtTop))
          /\ pgWrote' = IF alsoPg THEN pgWrote \cup {subDepth} ELSE pgWrote
          /\ DropTrigger(t, StartCid + 2, StartCid + 1, TRUE, alsoPg)
    /\ UNCHANGED <<xactVars, savedTop, ddlType, pgTempSaved, commitFailed, last>>

\* A drop that is not a DROP TABLE (DROP OWNED): no pre-check, same trigger.
DropOwned(t, alsoPg) ==
    /\ MayRun
    /\ t \in pgTemp
    /\ CountStmt
    /\ pgWrote' = IF alsoPg THEN pgWrote \cup {subDepth} ELSE pgWrote
    /\ DropTrigger(t, StartCid + 1, nextExpected, FALSE, alsoPg)
    /\ UNCHANGED <<xactVars, savedTop, ddlType, pgTempSaved, commitFailed, last>>

\* CALL duckdb.recycle_ddb().
RecycleDdb ==
    /\ MayRun
    /\ CountStmt
    /\ \/ /\ IsInTransactionBlock(AtTop)
          /\ Raise("error")
          /\ topLevel' = AtTop
          /\ UNCHANGED ddbVars
       \/ /\ ~IsInTransactionBlock(AtTop)
          /\ ddbInit' = FALSE
          /\ ddbTx' = FALSE
          /\ ddbWrote' = FALSE
          /\ UNCHANGED <<failing, topLevel, ddbDurable>>
    /\ UNCHANGED <<xactVars, cidVars, pgWrote, savedTop, forceAllow, nest,
                   ddlType, tempVars, pgTempVars, histVars>>

-----------------------------------------------------------------------------
(* Subtransactions: SAVEPOINT in a block, or an exception block of a        *)
(* function.  Only their start runs extension code.                         *)

StartSub ==
    /\ MayRun
    /\ subDepth < MaxSub
    /\ AtTop => blockState = "inblock"
    /\ CountStmt
    /\ \/ /\ ddbInit /\ ddbTx         \* DuckdbSubXactCallback throws
          /\ Raise("error")
          /\ UNCHANGED <<subDepth, levelAt>>
       \/ /\ ~(ddbInit /\ ddbTx)
          /\ subDepth' = subDepth + 1
          /\ levelAt' = [levelAt EXCEPT ![subDepth + 1] = Level]
          /\ UNCHANGED failing
    /\ UNCHANGED <<blockState, explicit, openExec, inDo, cidVars, pgWrote,
                   globVars, ddbVars, tempVars, pgTempVars, histVars>>

\* The levels holding writes once subtransaction d is released.
Released(d) ==
    (pgWrote \ {d}) \cup (IF d \in pgWrote THEN {d - 1} ELSE {})

ReleaseSub ==
    /\ Running
    /\ subDepth > 0
    /\ levelAt[subDepth] = Level
    /\ subDepth' = subDepth - 1
    /\ levelAt' = [levelAt EXCEPT ![subDepth] = 0]
    /\ pgWrote' = Released(subDepth)
    /\ UNCHANGED <<blockState, explicit, openExec, inDo, stmts,
                   cidVars, failing, globVars, ddbVars, tempVars, pgTempVars,
                   histVars>>

\* The error is caught by the innermost subtransaction: Postgres undoes its
\* writes and drops the statements running in it; command ids, claims and all
\* globals of the extension stay as the error left them.
AbortSub ==
    /\ failing # "no"
    /\ subDepth > 0
    /\ subDepth' = subDepth - 1
    /\ levelAt' = [levelAt EXCEPT ![subDepth] = 0]
    /\ pgWrote' = pgWrote \ {subDepth}
    /\ inDo' = IF levelAt[subDepth] > 0 THEN inDo ELSE 0
    /\ openExec' = levelAt[subDepth] - inDo'
    /\ failing' = "no"
    /\ cid' = StartCid
    /\ cidUsed' = 0
    /\ LoseEvidence(forceAllow, "force")
    /\ savedTop' = (savedTop \/ inDo' = 0)
    /\ UNCHANGED <<blockState, explicit, stmts, nextExpected, topLevel,
                   forceAllow, nest, ddlType, ddbVars, tempVars, pgTempVars, commitFailed, last>>

-----------------------------------------------------------------------------
(* The end of the transaction and DuckdbXactCallback.                       *)

\* Mutant: the DDL type is left to the statement that set it.
XactResetKeepingDdl == topLevel' = TRUE /\ ddlType' = ddlType /\ nest' = 0
\* Reset on every event, whether or not DuckDB is initialized.
XactReset == topLevel' = TRUE /\ ddlType' = "none" /\ nest' = 0

EndXact(state, result, late) ==
    /\ blockState' = state
    /\ explicit' = FALSE
    /\ subDepth' = 0
    /\ levelAt' = [d \in DOMAIN levelAt |-> 0]
    /\ openExec' = 0
    /\ inDo' = 0
    /\ savedTop' = TRUE
    /\ stmts' = 0
    /\ cid' = FirstCommandId
    /\ cidUsed' = 0
    /\ pgWrote' = {}
    /\ failing' = "no"
    /\ ddbDurable' = FALSE
    /\ evidenceLost' = "no"
    /\ last' = [pg |-> result, explicit |-> explicit, pgWrote |-> pgWrote # {},
                ddbDurable |-> ddbDurable, lost |-> evidenceLost, late |-> late]

\* XACT_EVENT_ABORT.
AbortEvent ==
    IF ddbInit
    THEN /\ nextExpected' = FirstCommandId
         /\ forceAllow' = FALSE
         /\ tempModified' = FALSE
         /\ tempTables' = IF tempModified THEN tempOld ELSE tempTables
         /\ tempOld' = IF tempModified THEN {} ELSE tempOld
         /\ ddbTx' = FALSE
         /\ ddbWrote' = FALSE
    ELSE UNCHANGED <<nextExpected, forceAllow, tempVars, ddbTx, ddbWrote>>

\* An error that no subtransaction catches.
AbortXact ==
    /\ failing # "no"
    /\ XactReset
    /\ AbortEvent
    /\ EndXact(IF blockState = "inblock" THEN "aborted" ELSE "idle", "abort",
               blockState = "committing")
    /\ pgTemp' = pgTempSaved
    /\ UNCHANGED <<ddbInit, pgTempSaved, commitFailed>>

\* ROLLBACK.
Rollback ==
    /\ Running /\ AtTop
    /\ blockState = "inblock"
    /\ XactReset
    /\ AbortEvent
    /\ EndXact("idle", "abort", FALSE)
    /\ pgTemp' = pgTempSaved
    /\ UNCHANGED <<ddbInit, pgTempSaved, commitFailed>>

\* ROLLBACK (or COMMIT) of a block that has failed already.
LeaveAborted ==
    /\ blockState = "aborted"
    /\ blockState' = "idle"
    /\ UNCHANGED <<explicit, subDepth, levelAt, openExec, inDo, stmts, cidVars,
                   pgWrote, failing, globVars, ddbVars, tempVars, pgTempVars,
                   histVars>>

\* CheckForDisallowedMixedWrites as PRE_COMMIT evaluates it: the top level
\* flag was reset just before, and Postgres commits an implicit block like a
\* single statement.
CommitRefused ==
    /\ blockState = "inblock"
    /\ ~UnsafeMixed /\ ~forceAllow
    /\ PgDidWrites(cid) /\ DdbDidWrites

\* XACT_EVENT_PRE_COMMIT.
PreCommit ==
    /\ Running /\ AtTop /\ subDepth = 0
    /\ blockState' = "committing"
    /\ XactReset
    /\ \/ /\ ~ddbInit
          /\ UNCHANGED <<nextExpected, forceAllow, tempVars, ddbVars, failing,
                         commitFailed>>
       \/ /\ ddbInit /\ CommitRefused
          /\ Raise("mixed")
          /\ UNCHANGED <<nextExpected, forceAllow, tempVars, ddbVars,
                         commitFailed>>
       \/ /\ ddbInit /\ ~CommitRefused
          /\ nextExpected' = FirstCommandId
          /\ forceAllow' = FALSE
          /\ tempModified' = FALSE
          /\ tempOld' = IF tempModified THEN {} ELSE tempOld
          /\ ddbTx' = FALSE
          /\ ddbWrote' = FALSE
          /\ \/ /\ ddbDurable' = (ddbDurable \/ DdbDidWrites)
                /\ UNCHANGED <<failing, commitFailed>>
             \/ /\ ddbTx                \* DuckDB fails to commit
                /\ Raise("error")
                /\ commitFailed' = TRUE
                /\ UNCHANGED ddbDurable
          /\ UNCHANGED <<tempTables, ddbInit>>
    /\ UNCHANGED <<explicit, subDepth, levelAt, openExec, inDo, stmts, cid,
                   cidUsed, pgWrote, savedTop, pgTempVars, evidenceLost, last>>

\* Postgres may still fail after PRE_COMMIT (e.g. a serialization failure).
CommitFailsLate ==
    /\ blockState = "committing" /\ failing = "no"
    /\ Raise("error")
    /\ commitFailed' = TRUE
    /\ UNCHANGED <<xactVars, stmts, cidVars, pgWrote, globVars, ddbVars,
                   tempVars, pgTempVars, evidenceLost, last>>

\* XACT_EVENT_COMMIT.
CommitDone ==
    /\ blockState = "committing" /\ failing = "no"
    /\ XactReset
    /\ EndXact("idle", "commit", FALSE)
    /\ pgTempSaved' = pgTemp
    /\ UNCHANGED <<nextExpected, forceAllow, ddbInit, ddbTx,
                   ddbWrote, tempVars, pgTemp, commitFailed>>

\* PREPARE TRANSACTION: refused with an open DuckDB transaction; otherwise
\* only what every event resets is reset.  Postgres refuses it for
\* transactions that touched temporary tables.
Prepare ==
    /\ Running /\ AtTop /\ subDepth = 0
    /\ blockState = "inblock"
    /\ pgTemp = pgTempSaved
    /\ XactReset
    /\ \/ /\ ddbInit /\ ddbTx
          /\ Raise("error")
          /\ blockState' = "committing"
          /\ UNCHANGED <<explicit, subDepth, levelAt, openExec, inDo, stmts,
                         cid, cidUsed, pgWrote, savedTop, ddbDurable,
                         evidenceLost, last>>
       \/ /\ ~(ddbInit /\ ddbTx)
          /\ EndXact("idle", "prepare", FALSE)
    /\ UNCHANGED <<nextExpected, forceAllow, ddbInit, ddbTx,
                   ddbWrote, tempVars, pgTempVars, commitFailed>>

-----------------------------------------------------------------------------
Init ==
    /\ blockState = "idle"
    /\ explicit = FALSE
    /\ subDepth = 0
    /\ levelAt = [d \in 1..MaxSub |-> 0]
    /\ stmts = 0
    /\ cid = FirstCommandId
    /\ cidUsed = 0
    /\ pgWrote = {}
    /\ openExec = 0
    /\ inDo = 0
    /\ failing = "no"
    /\ nextExpected = FirstCommandId
    /\ topLevel = TRUE
    /\ savedTop = TRUE
    /\ forceAllow = FALSE
    /\ nest = 0
    /\ ddlType = "none"
    /\ ddbInit = FALSE
    /\ ddbTx = FALSE
    /\ ddbWrote = FALSE
    /\ ddbDurable = FALSE
    /\ tempTables = {}
    /\ tempOld = {}
    /\ tempModified = FALSE
    /\ pgTemp = {}
    /\ pgTempSaved = {}
    /\ evidenceLost = "no"
    /\ commitFailed = FALSE
    /\ last = NoOutcome

Starts == Begin \/ BeginImplicit \/ BeginSingle

PgStatements ==
    \/ \E write, planned \in BOOLEAN : PgQueryOpen(write, planned)
    \/ PgQueryClose \/ PgCreateTable \/ PgRefresh \/ PgDropTable
    \/ DoOpen \/ DoClose \/ LoadCaches \/ StatementError

DuckdbStatements ==
    \/ \E planned \in BOOLEAN, top \in TopAfterRefresh :
          DdbSelect(planned, top) \/ DdbDml(planned, top)
    \/ \E top \in TopAfterRefresh : CopyFrom(top)
    \/ RawQuery \/ Truncate \/ RecycleDdb

DuckdbDdl ==
    \/ CreateRefused \/ CreateFailsInPostgres
    \/ CreatePermanentFails \/ CreatePermanent
    \/ AlterRefused \/ AlterTable
    \/ \E t \in Tables :
          \/ CreateTemp(t)
          \/ \E alsoPg \in BOOLEAN : DropTable(t, alsoPg) \/ DropOwned(t, alsoPg)

Subtransactions == StartSub \/ ReleaseSub \/ AbortSub

Ends ==
    \/ AbortXact \/ Rollback \/ LeaveAborted
    \/ PreCommit \/ CommitFailsLate \/ CommitDone \/ Prepare

Next ==
    \/ Starts \/ PgStatements \/ DuckdbStatements \/ DuckdbDdl
    \/ Subtransactions \/ Ends

Spec == Init /\ [][Next]_vars

-----------------------------------------------------------------------------
CounterTypes ==
    /\ subDepth \in 0..MaxSub
    /\ levelAt \in [1..MaxSub -> Nat]
    /\ stmts \in Nat
    /\ cid \in Nat /\ cidUsed \in {0, 1} /\ nextExpected \in Nat
    /\ pgWrote \subseteq Nat
    /\ openExec \in Nat /\ inDo \in {0, 1}
    /\ nest \in Nat

FlagTypes ==
    /\ explicit \in BOOLEAN
    /\ topLevel \in BOOLEAN /\ savedTop \in BOOLEAN
    /\ forceAllow \in BOOLEAN
    /\ ddbInit \in BOOLEAN /\ ddbTx \in BOOLEAN /\ ddbWrote \in BOOLEAN
    /\ ddbDurable \in BOOLEAN
    /\ tempModified \in BOOLEAN
    /\ commitFailed \in BOOLEAN

ValueTypes ==
    /\ blockState \in {"idle", "started", "implicit", "inblock", "aborted",
                       "committing"}
    /\ failing \in {"no", "error", "mixed"}
    /\ ddlType \in {"none", "create", "alter", "refresh"}
    /\ tempTables \subseteq Tables /\ tempOld \subseteq Tables
    /\ pgTemp \subseteq Tables /\ pgTempSaved \subseteq Tables
    /\ evidenceLost \in LossReasons

OutcomeTypes ==
    last \in [pg : {"none", "commit", "abort", "prepare"},
              explicit : BOOLEAN, pgWrote : BOOLEAN, ddbDurable : BOOLEAN,
              lost : LossReasons, late : BOOLEAN]

\* The type of every variable.
TypeOK == CounterTypes /\ FlagTypes /\ ValueTypes /\ OutcomeTypes

\* A transaction committed user writes to Postgres and to DuckDB.
MixedCommit ==
    ~UnsafeMixed /\ last.pg = "commit" /\ last.pgWrote /\ last.ddbDurable

\* A BEGIN ... COMMIT block never makes user writes to both stores durable,
\* unless the command id evidence was lost on the way (a stale claim at the
\* start, a force flag left by a failed subtransaction, or a forced claim
\* without the checked one).
NoMixedBlockCommit ==
    MixedCommit /\ last.explicit => last.lost # "no"

\* A DuckDB transaction lives inside one Postgres transaction and never spans
\* a subtransaction boundary.
DdbTxContained ==
    ddbTx => /\ ddbInit
             /\ subDepth = 0
             /\ Running \/ failing # "no"

\* When a BEGIN block aborts before its commit point nothing it wrote to
\* DuckDB is durable.
BlockAbortLeavesNoTrace ==
    last.pg = "abort" /\ last.explicit /\ last.ddbDurable => last.late

\* Every temporary DuckDB table that exists for Postgres is tracked, so that
\* its DROP reaches DuckDB, as long as no commit has failed; also while an
\* error is being raised, which a subtransaction may catch.
TempTracked == ~commitFailed => pgTemp \subseteq tempTables

\* ExecutorFinish never meets a nest level of zero (its Assert): the level
\* covers every running executor, through errors, savepoints and DO blocks.
NestCoversExecutors == failing = "no" => nest >= openExec

\* Where the DuckDB transaction may be open, in inductive form: never beside a
\* subtransaction, and outside a running transaction only while an error is on
\* its way to the abort callback.
TxInv ==
    /\ ddbTx => ddbInit /\ subDepth = 0
    /\ ddbTx /\ failing = "no" => blockState \in {"started", "implicit", "inblock"}
    /\ blockState \in {"idle", "aborted"} => failing = "no"

\* Command ids tell whether Postgres wrote: no claim is ahead of them, and a
\* Postgres write leaves them ahead of the last claim.
Evidence ==
    /\ StartCid >= nextExpected
    /\ pgWrote # {} => StartCid > nextExpected

\* Why no block mixes writes, in inductive form: the evidence is intact and
\* writes are not forcibly allowed in a block that has not lost it, nothing a
\* block writes to DuckDB is durable before PRE_COMMIT, and PRE_COMMIT sees
\* the evidence because no command id is in use between statements.
EvidenceInv ==
    /\ blockState \in {"idle", "aborted"} =>
          cid = FirstCommandId /\ cidUsed = 0 /\ pgWrote = {} /\ ~ddbDurable
    /\ blockState = "inblock" => explicit /\ ~ddbDurable
    /\ blockState \in {"idle", "aborted", "started", "implicit"} => ~explicit
    /\ blockState \in {"idle", "aborted", "committing"} => subDepth = 0
    /\ openExec = 0 /\ failing = "no" => cidUsed = 0
    /\ blockState = "inblock" /\ evidenceLost = "no" /\ ~UnsafeMixed =>
          Evidence /\ (forceAllow => failing # "no")
    /\ blockState = "committing" /\ explicit /\ evidenceLost = "no"
          /\ ~UnsafeMixed /\ failing = "no" => pgWrote = {} \/ ~ddbDurable

\* What a transaction leaves in the globals of the process, whichever of its
\* statements failed and whoever caught the error: the DDL type of a REFRESH
\* or of a DDL that failed, a raised nest level and a withdrawn top level end
\* with it.  Claims, forced writes and the undo copy end with it too, unless
\* DuckDB was not initialized then or the transaction was prepared
\* (DuckdbXactCallback returns early).
GlobalsEndWithTransaction ==
    blockState \in {"idle", "aborted"} =>
        /\ topLevel /\ nest = 0 /\ ddlType = "none"
        /\ nextExpected # FirstCommandId \/ forceAllow \/ tempModified =>
              ~ddbInit \/ last.pg = "prepare"

-----------------------------------------------------------------------------
(* What the documentation, comments and tests say and the code does not do. *)

\* A statement in a function or DO block does not autocommit: when the
\* transaction aborts before its commit point DuckDB keeps nothing.
AbortLeavesNoTrace ==
    last.pg = "abort" /\ last.ddbDurable => last.late
=============================================================================
