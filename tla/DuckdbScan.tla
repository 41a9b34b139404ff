----------------------------- MODULE DuckdbScan -----------------------------
(***************************************************************************)
(* The DuckDBScan custom scan node of one backend (pgduckdb_node.cpp), the *)
(* planning that makes it (pgduckdb_planner.cpp) and the Postgres tables   *)
(* its queries bind (catalog/).  Several portals, such as cursors or the   *)
(* loops of a DO block, share one DuckDB connection, and Postgres may      *)
(* cancel, raise an error, catch one in a subtransaction or roll back      *)
(* between any two calls.                                                  *)
(*                                                                         *)
(* DuckDB runs one query of a connection at a time: preparing or starting  *)
(* a query ends the one before it, and a streamed result can only be read  *)
(* while its query is the active one.  Postgres resets its holdoff counter *)
(* on every ERROR, and ends the scans of a portal unless the portal failed *)
(* or its transaction rolls back.                                          *)
(***************************************************************************)
EXTENDS Naturals, FiniteSets, Sequences

CONSTANTS
  Portals,    \* portals that may hold a DuckDBScan
  Tables,     \* Postgres tables the queries may read
  NoPortal,
  Orphan,     \* the query of a scan that is gone
  Rows,       \* rows of every result
  MaxChunk,   \* rows of the largest chunk of a result
  MaxSub,     \* bound on nested subtransactions
  MaxHold     \* bound on the holdoffs left behind by rollbacks

ASSUME PortalsAssumption ==
  /\ IsFiniteSet(Portals)
  /\ NoPortal \notin Portals /\ Orphan \notin Portals /\ NoPortal # Orphan
ASSUME BoundsAssumption ==
  Rows \in Nat /\ MaxChunk \in Nat \ {0} /\ MaxSub \in Nat /\ MaxHold \in Nat

VARIABLES
  inBlock,    \* pg::IsInTransactionBlock()
  subDepth,   \* open subtransactions
  failing,    \* "no", or the ERROR being thrown: "error", or "cancel", which no handler traps
  holdoff,    \* QueryCancelHoldoffCount
  cancel,     \* QueryCancelPending
  st,         \* how far each portal is
  reads,      \* the Postgres tables of its query: ranged, in the range table of
              \* the Postgres query, and inner, named only inside duckdb.query()
  scan,       \* its DuckdbScanState
  got,        \* the rows it passed to Postgres (history)
  active,     \* the portal whose query the connection is running
  ddbTx,      \* a DuckDB transaction was begun explicitly
  cached,     \* PostgresContextState::schemas, the relations it keeps open
  orphans,    \* holdoffs left behind by rollbacks (history)
  lostHold    \* an ERROR was caught while scans were open (history)

pgVars  == <<inBlock, subDepth, failing, holdoff, cancel>>
scanVars == <<st, reads, scan, got>>
ddbVars == <<active, ddbTx, cached>>
history == <<orphans, lostHold>>
vars == <<pgVars, scanVars, ddbVars, history>>

-----------------------------------------------------------------------------
\* A DuckdbScanState as newNode makes it, and as the cleanup leaves it.
ZeroState == [stmt |-> FALSE, res |-> "none", size |-> 0, row |-> 0,
              next |-> FALSE, pulled |-> 0]

\* The Postgres tables DuckDB opens for the query of p.
NoReads == [ranged |-> {}, inner |-> {}]
TablesOf(p) == reads[p].ranged \cup reads[p].inner

\* Scans that began and were neither ended nor dropped.
Held == {p \in Portals : st[p] \in {"begun", "running", "drain", "ready", "done"}}
Busy == \E p \in Portals : st[p] \in {"running", "drain"}
\* Postgres is between two calls of the extension.
Free == ~Busy /\ failing = "no"

\* context.transaction.HasActiveTransaction(): a query that is not finished
\* keeps its own transaction open.
HasActiveTransaction == ddbTx \/ active # NoPortal

\* An ERROR leaves the current call; Postgres forgets all holdoffs.
Raise(kind) == failing' = kind /\ holdoff' = 0 /\ orphans' = 0

\* CleanupDuckdbScanState, then the exception becomes an ERROR of the portal.
CleanupForgotten(p) == scan' = scan
CleanupDuckdbScanState(p) == scan' = [scan EXCEPT ![p] = ZeroState]
ExecError(p) ==
  /\ CleanupDuckdbScanState(p)
  /\ st' = [st EXCEPT ![p] = "failed"]
  /\ Raise("error")

-----------------------------------------------------------------------------
(* The connection *)

\* GetConnection refuses to start inside a subtransaction.
ConnectionRefused == ~HasActiveTransaction /\ subDepth > 0

\* GetConnection in a transaction block begins a DuckDB transaction.
BeginsTransaction == ddbTx \/ (inBlock /\ ~HasActiveTransaction)

\* The end of a query or of a transaction closes the relations.
QueryEndForgotten == cached' = cached
QueryEnd == cached' = {}

\* PostgresCatalog::GetSchema and SchemaItems::GetTable: each table the query
\* names is opened once and kept beside the others.
GetTables(kept, tables) == kept \cup tables

\* GetConnection and Prepare: the active query ends, the tables are looked up
\* and opened, and without a transaction they are closed again.
DuckdbPrepare(tables) ==
  /\ ~ConnectionRefused
  /\ ddbTx' = BeginsTransaction
  /\ active' = NoPortal
  /\ \E kept \in {cached, {}} :
       /\ active # NoPortal => kept = {}
       /\ cached' = IF BeginsTransaction THEN GetTables(kept, tables) ELSE {}

-----------------------------------------------------------------------------
(* Planning and starting a scan *)

\* DuckdbPlanNode makes a plan.
PlanQuery(p, ranged, inner) ==
  /\ Free /\ st[p] = "none"
  /\ DuckdbPrepare(ranged \cup inner)
  /\ st' = [st EXCEPT ![p] = "planned"]
  /\ reads' = [reads EXCEPT ![p] = [ranged |-> ranged, inner |-> inner]]
  /\ UNCHANGED <<pgVars, scan, got, history>>

\* GetConnection throws, or Prepare returned an error for a query that
\* needs DuckDB.
PlanRaises ==
  /\ Free
  /\ \/ ConnectionRefused /\ UNCHANGED ddbVars
     \/ DuckdbPrepare({})
  /\ Raise("error")
  /\ UNCHANGED <<inBlock, subDepth, cancel, scanVars, lostHold>>

\* Under duckdb.force_execution an error of Prepare is a warning: Postgres
\* plans the query itself, which is then no top level DuckDB statement.
PlanFallsBack ==
  /\ Free
  /\ DuckdbPrepare({})
  /\ inBlock' = TRUE
  /\ UNCHANGED <<subDepth, failing, holdoff, cancel, scanVars, history>>

\* Duckdb_BeginCustomScan prepares again and holds cancel interrupts.
HoldForgotten == holdoff' = holdoff
HoldCancelInterrupts == holdoff' = holdoff + 1
BeginCustomScan(p) ==
  /\ Free /\ st[p] = "planned"
  /\ DuckdbPrepare(TablesOf(p))
  /\ st' = [st EXCEPT ![p] = "begun"]
  /\ scan' = [scan EXCEPT ![p] = [ZeroState EXCEPT !.stmt = TRUE, !.next = TRUE]]
  /\ HoldCancelInterrupts
  /\ UNCHANGED <<inBlock, subDepth, failing, cancel, reads, got, history>>

\* It fails before the hold: no connection, a query that no longer plans, or
\* one with other columns; or the start hook of the executor refuses the
\* write after it, when nothing ends the scan any more.
BeginRaises(p) ==
  /\ Free /\ st[p] = "planned"
  /\ \/ /\ ConnectionRefused
        /\ st' = [st EXCEPT ![p] = "failed"]
        /\ UNCHANGED <<ddbVars, scan>>
     \/ /\ DuckdbPrepare(TablesOf(p))
        /\ st' = [st EXCEPT ![p] = "failed"]
        /\ UNCHANGED scan
     \/ /\ DuckdbPrepare(TablesOf(p))
        /\ st' = [st EXCEPT ![p] = "begun"]
        /\ scan' = [scan EXCEPT ![p] = [ZeroState EXCEPT !.stmt = TRUE, !.next = TRUE]]
  /\ Raise("error")
  /\ UNCHANGED <<inBlock, subDepth, cancel, reads, got, lostHold>>

-----------------------------------------------------------------------------
(* ExecuteQuery *)

\* Mutant: a query may always stream.
AlwaysStream(p) == TRUE
\* ContainsPostgresTable: a query with Postgres tables in its range table may
\* not stream; it does not look into the text given to duckdb.query().
AllowStreamResult(p) == reads[p].ranged = {}

\* The first Duckdb_ExecCustomScan starts the query.
ExecuteQuery(p) ==
  /\ Free /\ st[p] = "begun"
  /\ st' = [st EXCEPT ![p] = "running"]
  /\ active' = p
  /\ \E kept \in {cached, {}} :
       /\ active # NoPortal => kept = {}
       /\ cached' = GetTables(kept, TablesOf(p))
  /\ UNCHANGED <<pgVars, reads, scan, got, ddbTx, history>>

\* A parameter cannot be converted, or the query does not start.
ExecuteRaises(p) ==
  /\ Free /\ st[p] = "begun"
  /\ ExecError(p)
  /\ \/ UNCHANGED ddbVars
     \/ active' = NoPortal /\ QueryEnd /\ UNCHANGED ddbTx
  /\ UNCHANGED <<inBlock, subDepth, cancel, reads, got, lostHold>>

\* A task completes the result, which stays active only as a stream.
TaskReady(p) ==
  /\ st[p] = "running"
  /\ st' = [st EXCEPT ![p] = "ready"]
  /\ IF AllowStreamResult(p)
     THEN /\ scan' = [scan EXCEPT ![p].res = "stream"]
          /\ UNCHANGED <<active, cached>>
     ELSE /\ scan' = [scan EXCEPT ![p].res = "materialized"]
          /\ active' = NoPortal
          /\ QueryEnd
  /\ UNCHANGED <<pgVars, reads, got, ddbTx, history>>

TaskFails(p) ==
  /\ st[p] = "running"
  /\ ExecError(p)
  /\ active' = NoPortal
  /\ QueryEnd
  /\ UNCHANGED <<inBlock, subDepth, cancel, reads, got, ddbTx, lostHold>>

\* The result is not ready and a cancel is pending: interrupt the connection
\* and consume the tasks that are left.
SeesCancelUnlessHeld(p) == st[p] = "running" /\ cancel /\ holdoff = 0
SeesCancel(p) == st[p] = "running" /\ cancel
InterruptTasks(p) ==
  /\ SeesCancel(p)
  /\ st' = [st EXCEPT ![p] = "drain"]
  /\ UNCHANGED <<pgVars, reads, scan, got, ddbVars, history>>

\* No task is left.  ProcessInterrupts throws by itself only when cancels
\* are not held off, past the cleanup; otherwise an exception is thrown.
TasksAreGone == active' \in {NoPortal, Orphan}
QueryCancelled(p) ==
  /\ st[p] = "drain"
  /\ TasksAreGone
  /\ cached' \in {cached, {}}
  /\ active' = NoPortal => cached' = {}
  /\ IF holdoff = 0
     THEN /\ cancel' = FALSE
          /\ st' = [st EXCEPT ![p] = "failed"]
          /\ Raise("cancel")
          /\ UNCHANGED scan
     ELSE /\ ExecError(p)
          /\ UNCHANGED cancel
  /\ UNCHANGED <<inBlock, subDepth, reads, got, ddbTx, lostHold>>

-----------------------------------------------------------------------------
(* Fetching and ending *)

\* The state after the row at current_row has been passed on.
AdvanceRowPastChunk(s) ==
  IF s.row + 1 > s.size
  THEN [s EXCEPT !.row = @ + 1, !.size = 0, !.next = TRUE]
  ELSE [s EXCEPT !.row = @ + 1]
AdvanceRow(s) ==
  IF s.row + 1 >= s.size
  THEN [s EXCEPT !.row = @ + 1, !.size = 0, !.next = TRUE]
  ELSE [s EXCEPT !.row = @ + 1]

\* A closed stream cannot be fetched from.
CanFetch(p) == scan[p].res = "stream" => active = p

\* The states after the fetch: a chunk with rows.
Fetched(p) ==
  IF scan[p].next
  THEN {[scan[p] EXCEPT !.size = n, !.row = 0, !.next = FALSE, !.pulled = @ + n] :
          n \in {n \in 1..MaxChunk : scan[p].pulled + n <= Rows /\ CanFetch(p)}}
  ELSE {scan[p]}

\* Duckdb_ExecCustomScan passes the next row to Postgres.
FetchRow(p) ==
  /\ Free /\ st[p] = "ready"
  /\ \E s \in Fetched(p) :
       /\ got' = [got EXCEPT ![p] = Append(@, s.pulled - s.size + s.row + 1)]
       /\ scan' = [scan EXCEPT ![p] = AdvanceRow(s)]
  /\ UNCHANGED <<pgVars, st, reads, ddbVars, history>>

\* The fetch finds the end of the result; a stream's query is over.
FetchEnd(p) ==
  /\ Free /\ st[p] = "ready"
  /\ scan[p].next /\ scan[p].pulled = Rows /\ CanFetch(p)
  /\ st' = [st EXCEPT ![p] = "done"]
  /\ scan' = [scan EXCEPT ![p].size = 0, ![p].row = 0, ![p].next = FALSE]
  /\ IF scan[p].res = "stream"
     THEN active' = NoPortal /\ QueryEnd
     ELSE UNCHANGED <<active, cached>>
  /\ UNCHANGED <<pgVars, reads, got, ddbTx, history>>

\* The fetch throws, in a stream that was closed for instance, or a value
\* cannot be converted.
FetchRaises(p) ==
  /\ Free /\ st[p] = "ready"
  /\ ExecError(p)
  /\ \/ UNCHANGED ddbVars
     \/ /\ active = p
        /\ active' = NoPortal /\ QueryEnd /\ UNCHANGED ddbTx
  /\ UNCHANGED <<inBlock, subDepth, cancel, reads, got, lostHold>>

\* Duckdb_EndCustomScan releases a holdoff when there is one.
ResumeUnchecked == holdoff' = holdoff - 1
ResumeCancelInterrupts == holdoff' = IF holdoff > 0 THEN holdoff - 1 ELSE 0
EndCustomScan(p) ==
  /\ Free /\ st[p] \in {"begun", "ready", "done"}
  /\ CleanupDuckdbScanState(p)
  /\ ResumeCancelInterrupts
  /\ st' = [st EXCEPT ![p] = "none"]
  /\ got' = [got EXCEPT ![p] = <<>>]
  /\ active' = IF active = p THEN Orphan ELSE active
  /\ lostHold' = (lostHold /\ Held # {p})
  /\ UNCHANGED <<inBlock, subDepth, failing, cancel, reads, ddbTx, cached, orphans>>

-----------------------------------------------------------------------------
(* Postgres around it *)

\* The user or a timeout asks for a cancel.
CancelRequest ==
  /\ ~cancel
  /\ cancel' = TRUE
  /\ UNCHANGED <<inBlock, subDepth, failing, holdoff, scanVars, ddbVars, history>>

\* Postgres sees it between two calls, unless cancels are held off.
CheckForInterrupts ==
  /\ Free /\ cancel /\ holdoff = 0
  /\ cancel' = FALSE
  /\ Raise("cancel")
  /\ UNCHANGED <<inBlock, subDepth, scanVars, ddbVars, lostHold>>

\* A statement of Postgres runs: what follows is no top level statement.
PgStatement ==
  /\ Free /\ ~inBlock
  /\ inBlock' = TRUE
  /\ UNCHANGED <<subDepth, failing, holdoff, cancel, scanVars, ddbVars, history>>

\* Some other statement fails.
PgError ==
  /\ Free
  /\ Raise("error")
  /\ UNCHANGED <<inBlock, subDepth, cancel, scanVars, ddbVars, lostHold>>

\* The callback refuses a subtransaction while DuckDB has a transaction.
StartSub ==
  /\ Free /\ subDepth < MaxSub
  /\ ~HasActiveTransaction
  /\ subDepth' = subDepth + 1
  /\ UNCHANGED <<inBlock, failing, holdoff, cancel, scanVars, ddbVars, history>>
StartSubRaises ==
  /\ Free /\ HasActiveTransaction
  /\ Raise("error")
  /\ UNCHANGED <<inBlock, subDepth, cancel, scanVars, ddbVars, lostHold>>

ReleaseSub ==
  /\ Free /\ subDepth > 0
  /\ subDepth' = subDepth - 1
  /\ UNCHANGED <<inBlock, failing, holdoff, cancel, scanVars, ddbVars, history>>

\* The error is caught: the portal that failed is gone, the others, which
\* were opened before the subtransaction, go on.
AbortSub ==
  /\ failing = "error" /\ subDepth > 0
  /\ failing' = "no"
  /\ subDepth' = subDepth - 1
  /\ st' = [p \in Portals |-> IF st[p] = "failed" THEN "none" ELSE st[p]]
  /\ scan' = [p \in Portals |-> IF st[p] = "failed" THEN ZeroState ELSE scan[p]]
  /\ got' = [p \in Portals |-> IF st[p] = "failed" THEN <<>> ELSE got[p]]
  /\ lostHold' = (Held # {})
  /\ UNCHANGED <<inBlock, holdoff, cancel, reads, ddbVars, orphans>>

\* The transaction ends: every portal is gone, and the DuckDB transaction is
\* committed or rolled back with the relations it opened.
EndXact ==
  /\ failing' = "no" /\ subDepth' = 0
  /\ inBlock' \in BOOLEAN
  /\ st' = [p \in Portals |-> "none"]
  /\ reads' = [p \in Portals |-> NoReads]
  /\ scan' = [p \in Portals |-> ZeroState]
  /\ got' = [p \in Portals |-> <<>>]
  /\ active' = NoPortal /\ ddbTx' = FALSE
  /\ QueryEnd
  /\ lostHold' = FALSE

CommitXact ==
  /\ Free /\ subDepth = 0
  /\ Held = {}
  /\ EndXact
  /\ cancel' = (cancel /\ holdoff # 0)
  /\ UNCHANGED <<holdoff, orphans>>

AbortXact ==
  /\ failing # "no"
  /\ EndXact
  /\ cancel' = FALSE
  /\ UNCHANGED <<holdoff, orphans>>

\* ROLLBACK raises no ERROR, and no scan of an open cursor is ended.
UserRollback ==
  /\ Free /\ inBlock /\ holdoff <= MaxHold
  /\ EndXact
  /\ orphans' = holdoff
  /\ cancel' = (cancel /\ holdoff # 0)
  /\ UNCHANGED holdoff

-----------------------------------------------------------------------------
Init ==
  /\ inBlock \in BOOLEAN
  /\ subDepth = 0 /\ failing = "no" /\ holdoff = 0 /\ cancel = FALSE
  /\ st = [p \in Portals |-> "none"]
  /\ reads = [p \in Portals |-> NoReads]
  /\ scan = [p \in Portals |-> ZeroState]
  /\ got = [p \in Portals |-> <<>>]
  /\ active = NoPortal /\ ddbTx = FALSE /\ cached = {}
  /\ orphans = 0 /\ lostHold = FALSE

ScanStep(p) ==
  \/ \E ranged \in SUBSET Tables, inner \in SUBSET Tables :
       ranged \cap inner = {} /\ PlanQuery(p, ranged, inner)
  \/ BeginCustomScan(p) \/ BeginRaises(p)
  \/ ExecuteQuery(p) \/ ExecuteRaises(p)
  \/ TaskReady(p) \/ TaskFails(p) \/ InterruptTasks(p) \/ QueryCancelled(p)
  \/ FetchRow(p) \/ FetchEnd(p) \/ FetchRaises(p)
  \/ EndCustomScan(p)

PgStep ==
  \/ PlanRaises \/ PlanFallsBack
  \/ CancelRequest \/ CheckForInterrupts
  \/ PgStatement \/ PgError
  \/ StartSub \/ StartSubRaises \/ ReleaseSub \/ AbortSub
  \/ CommitXact \/ AbortXact \/ UserRollback

Next == PgStep \/ \E p \in Portals : ScanStep(p)

Spec == Init /\ [][Next]_vars

\* Each call of ExecuteTask returns, so the loop is left or comes to its check
\* of the cancel; nothing says that a query ends by itself.  After an
\* interrupt the tasks that are left run out.
Fairness == \A p \in Portals :
  /\ WF_vars(InterruptTasks(p))
  /\ WF_vars(QueryCancelled(p))

FairSpec == Spec /\ Fairness

-----------------------------------------------------------------------------
(* Properties *)

States == {"none", "planned", "begun", "running", "drain", "ready", "done", "failed"}

\* Every variable has its type (pgduckdb_node.cpp 37-48 for the scan state).
TypeOK ==
  /\ inBlock \in BOOLEAN /\ cancel \in BOOLEAN /\ ddbTx \in BOOLEAN /\ lostHold \in BOOLEAN
  /\ subDepth \in Nat /\ holdoff \in Nat /\ orphans \in Nat
  /\ failing \in {"no", "error", "cancel"}
  /\ st \in [Portals -> States]
  /\ reads \in [Portals -> [ranged : SUBSET Tables, inner : SUBSET Tables]]
  /\ scan \in [Portals -> [stmt : BOOLEAN, res : {"none", "stream", "materialized"},
                           size : 0..MaxChunk, row : Nat, next : BOOLEAN, pulled : Nat]]
  /\ got \in [Portals -> Seq(Nat)]
  /\ active \in Portals \cup {NoPortal, Orphan}
  /\ cached \subseteq Tables

\* Cancel interrupts are held once for each open scan, beside what rollbacks
\* left behind; only an ERROR that was caught while scans were open makes it
\* less (HOLD and RESUME in Duckdb_BeginCustomScan and Duckdb_EndCustomScan).
HoldoffBalanced ==
  /\ failing # "no" => holdoff = 0
  /\ failing = "no" =>
       /\ holdoff <= Cardinality(Held) + orphans
       /\ ~lostHold => holdoff = Cardinality(Held) + orphans

\* The rows of a result reach Postgres in order, none twice and none left
\* out, whatever other portals do to the connection; a scan that reports its
\* end has passed on all of them (Duckdb_ExecCustomScan).
RowsInOrder == \A p \in Portals :
  /\ \A i \in 1..Len(got[p]) : got[p][i] = i
  /\ st[p] = "done" => Len(got[p]) = Rows

\* DuckDB works on a query with Postgres tables in its range table only while
\* ExecuteQuery waits for it, and no longer when an error leaves it, whatever
\* else it reads and other portals do (allow_stream_result, the pending tasks).
RangedReadsContained ==
  active \in Portals /\ reads[active].ranged # {} => st[active] \in {"running", "drain"}

\* An error of Duckdb_ExecCustomScan leaves no prepared statement behind, unless
\* the holdoff was lost and Postgres jumps out of ProcessInterrupts.  It says
\* nothing of a scan that the executor refuses once it has begun (BeginRaises),
\* whose statement is left.
FailedScanIsClean ==
  (\E p \in Portals : st[p] = "failed" /\ scan[p].stmt) => lostHold

\* Relations stay open only inside a DuckDB transaction, whose end closes
\* them (PostgresTransactionManager, PostgresContextState::QueryEnd).
RelationsBelongToTransaction == cached # {} => HasActiveTransaction

\* A cancel ends the query that is running, held off or not.
CancelStopsQuery == \A p \in Portals :
  (st[p] = "running" /\ cancel) ~> (st[p] \notin {"running", "drain"})
=============================================================================
