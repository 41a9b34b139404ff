-------------------------- MODULE DuckdbScanProofs --------------------------
(***************************************************************************)
(* Proofs about DuckdbScan for any portals, tables, chunk sizes and bounds.*)
(* Three arguments are independent of each other: the rows of one portal,  *)
(* the query the connection runs, and the holdoffs, which need to know     *)
(* that at most one portal is inside ExecuteQuery and none while an error  *)
(* is on its way.                                                          *)
(***************************************************************************)
EXTENDS DuckdbScan, TLAPS, FiniteSetTheorems

ScanStates == [stmt : BOOLEAN, res : {"none", "stream", "materialized"},
               size : 0..MaxChunk, row : Nat, next : BOOLEAN, pulled : Nat]

\* The variables of Postgres, of the connection and of the history.
BackendTypes ==
  /\ inBlock \in BOOLEAN /\ cancel \in BOOLEAN /\ ddbTx \in BOOLEAN /\ lostHold \in BOOLEAN
  /\ subDepth \in Nat /\ holdoff \in Nat /\ orphans \in Nat
  /\ failing \in {"no", "error", "cancel"}
  /\ active \in Portals \cup {NoPortal, Orphan}
  /\ cached \subseteq Tables

\* The variables of the portals.
PortalTypes ==
  /\ st \in [Portals -> States]
  /\ reads \in [Portals -> [ranged : SUBSET Tables, inner : SUBSET Tables]]
  /\ scan \in [Portals -> ScanStates]
  /\ got \in [Portals -> Seq(Nat)]

\* What one portal has passed on: nothing before its query is ready, and then
\* all rows of the chunks before the current one and those of the current one
\* before current_row.
Passed(p) ==
  /\ st[p] \in {"none", "planned"} => scan[p] = ZeroState /\ got[p] = <<>>
  /\ st[p] \in {"begun", "running", "drain"} =>
       /\ scan[p].next /\ scan[p].size = 0 /\ scan[p].pulled = 0
       /\ got[p] = <<>>
  /\ st[p] = "ready" /\ scan[p].next =>
       scan[p].size = 0 /\ Len(got[p]) = scan[p].pulled
  /\ st[p] = "ready" /\ ~scan[p].next =>
       /\ scan[p].row < scan[p].size /\ scan[p].size <= scan[p].pulled
       /\ Len(got[p]) = scan[p].pulled - scan[p].size + scan[p].row

RowInv == PortalTypes /\ RowsInOrder /\ \A p \in Portals : Passed(p)

\* One portal at a time is inside ExecuteQuery, none while an ERROR is thrown,
\* and a portal that failed is gone once the ERROR is caught.
OneBusy ==
  /\ \A p, q \in Portals :
       st[p] \in {"running", "drain"} /\ st[q] \in {"running", "drain"} => p = q
  /\ failing # "no" => ~Busy
  /\ failing = "no" => \A p \in Portals : st[p] # "failed"

\* Why the holdoffs balance: an ERROR clears what rollbacks left behind, and
\* holdoffs are missing only as long as scans from before the ERROR are open.
HoldInv ==
  /\ HoldoffBalanced
  /\ failing # "no" => orphans = 0
  /\ failing = "no" /\ lostHold => Held # {} /\ orphans = 0

IInv ==
  /\ BackendTypes /\ RowInv
  /\ RangedReadsContained /\ RelationsBelongToTransaction
  /\ OneBusy /\ HoldInv /\ FailedScanIsClean

-----------------------------------------------------------------------------
(* The connection.                                                          *)

\* Preparing a query ends the active one and keeps relations open only inside
\* the transaction it begins.
LEMMA PrepareFacts ==
  ASSUME BackendTypes, NEW tables \in SUBSET Tables, DuckdbPrepare(tables)
  PROVE  /\ ddbTx' \in BOOLEAN /\ active' = NoPortal /\ cached' \subseteq Tables
         /\ cached' # {} => ddbTx'
<1>1. ddbTx' = BeginsTransaction /\ active' = NoPortal
  BY DEF DuckdbPrepare
<1>2. BeginsTransaction \in BOOLEAN
  BY DEF BeginsTransaction
<1>3. cached' \subseteq Tables /\ (cached' # {} => BeginsTransaction)
  BY DEF DuckdbPrepare, GetTables, BackendTypes
<1> QED
  BY <1>1, <1>2, <1>3

\* The steps of Postgres that leave every portal alone.
QuietPgStep ==
  \/ PlanRaises \/ PlanFallsBack
  \/ CancelRequest \/ CheckForInterrupts
  \/ PgStatement \/ PgError
  \/ StartSub \/ StartSubRaises \/ ReleaseSub

\* The end of a transaction, however it ends.
XactEnds == CommitXact \/ AbortXact \/ UserRollback

LEMMA StepCases ==
  ASSUME [Next]_vars
  PROVE  \/ UNCHANGED vars \/ QuietPgStep \/ AbortSub \/ XactEnds
         \/ \E p \in Portals : ScanStep(p)
  BY DEF Next, PgStep, QuietPgStep, XactEnds

\* Every step keeps the types of Postgres, the connection and the history.
LEMMA BackendStep ==
  ASSUME BackendTypes, PortalTypes, [Next]_vars
  PROVE  BackendTypes'
<1> USE DEF BackendTypes
<1>1. CASE UNCHANGED vars
  BY <1>1 DEF vars, pgVars, ddbVars, history
<1>2. CASE QuietPgStep
  <2>1. {} \in SUBSET Tables
    OBVIOUS
  <2>2. CASE PlanRaises
    <3>1. ddbTx' \in BOOLEAN /\ active' \in Portals \cup {NoPortal, Orphan} /\ cached' \subseteq Tables
      BY <2>1, <2>2, PrepareFacts DEF PlanRaises, ddbVars
    <3> QED
      BY <2>2, <3>1 DEF PlanRaises, Raise
  <2>3. CASE PlanFallsBack
    <3>1. ddbTx' \in BOOLEAN /\ active' = NoPortal /\ cached' \subseteq Tables
      BY <2>1, <2>3, PrepareFacts DEF PlanFallsBack
    <3> QED
      BY <2>3, <3>1 DEF PlanFallsBack, history
  <2>4. CASE CancelRequest \/ PgStatement
    BY <2>4, Zenon DEF CancelRequest, PgStatement, ddbVars, history
  <2>6. CASE CheckForInterrupts \/ PgError
    <3>1. failing' \in {"no", "error", "cancel"} /\ holdoff' = 0 /\ orphans' = 0
      BY <2>6 DEF CheckForInterrupts, PgError, Raise
    <3>2. cancel' \in BOOLEAN /\ UNCHANGED <<inBlock, subDepth, ddbVars, lostHold>>
      BY <2>6 DEF CheckForInterrupts, PgError
    <3> QED
      BY <3>1, <3>2 DEF ddbVars
  <2>5. CASE StartSub \/ StartSubRaises \/ ReleaseSub
    BY <2>5 DEF StartSub, StartSubRaises, ReleaseSub, Raise, ddbVars, history
  <2> QED
    BY <1>2, <2>2, <2>3, <2>4, <2>5, <2>6 DEF QuietPgStep
<1>3. CASE AbortSub
  <2>1. lostHold' \in BOOLEAN
    BY <1>3 DEF AbortSub
  <2> QED
    BY <1>3, <2>1 DEF AbortSub, ddbVars
<1>4. CASE XactEnds
  <2>1. EndXact /\ UNCHANGED holdoff
    BY <1>4 DEF XactEnds, CommitXact, AbortXact, UserRollback
  <2>2. cancel' \in BOOLEAN
    BY <1>4 DEF XactEnds, CommitXact, AbortXact, UserRollback
  <2>3. orphans' \in Nat
    BY <1>4 DEF XactEnds, CommitXact, AbortXact, UserRollback
  <2> QED
    BY <2>1, <2>2, <2>3 DEF EndXact, QueryEnd
<1>5. ASSUME NEW p \in Portals, ScanStep(p)
      PROVE  BackendTypes'
  <2>1. TablesOf(p) \in SUBSET Tables
    BY DEF PortalTypes, TablesOf
  <2>2. CASE \E ranged, inner \in SUBSET Tables : PlanQuery(p, ranged, inner)
    BY <2>2, PrepareFacts DEF PlanQuery, pgVars, history
  <2>3. CASE BeginCustomScan(p)
    BY <2>1, <2>3, PrepareFacts DEF BeginCustomScan, HoldCancelInterrupts, history
  <2>4. CASE BeginRaises(p)
    <3>1. ddbTx' \in BOOLEAN /\ active' \in Portals \cup {NoPortal, Orphan} /\ cached' \subseteq Tables
      BY <2>1, <2>4, PrepareFacts DEF BeginRaises, ddbVars
    <3> QED
      BY <2>4, <3>1 DEF BeginRaises, Raise
  <2>5. CASE ExecuteQuery(p)
    BY <2>1, <2>5 DEF ExecuteQuery, GetTables, pgVars, history
  <2>6. CASE ExecuteRaises(p) \/ FetchRaises(p)
    BY <2>6 DEF ExecuteRaises, FetchRaises, ExecError, Raise, QueryEnd, ddbVars
  <2>7. CASE TaskReady(p) \/ TaskFails(p)
    BY <2>7 DEF TaskReady, TaskFails, ExecError, Raise, QueryEnd, pgVars, history
  <2>8. CASE InterruptTasks(p)
    BY <2>8 DEF InterruptTasks, pgVars, ddbVars, history
  <2>9. CASE QueryCancelled(p)
    <3>1. /\ failing' \in {"no", "error", "cancel"} /\ holdoff' = 0 /\ orphans' = 0
          /\ UNCHANGED <<inBlock, subDepth, ddbTx, lostHold>>
      BY <2>9 DEF QueryCancelled, ExecError, Raise
    <3>2. cancel' \in BOOLEAN
      BY <2>9 DEF QueryCancelled
    <3>3. active' \in {NoPortal, Orphan} /\ cached' \subseteq Tables
      BY <2>9 DEF QueryCancelled, TasksAreGone
    <3> QED
      BY <3>1, <3>2, <3>3
  <2>10. CASE FetchRow(p) \/ FetchEnd(p)
    BY <2>10 DEF FetchRow, FetchEnd, QueryEnd, pgVars, ddbVars, history
  <2>11. CASE EndCustomScan(p)
    <3>1. lostHold' \in BOOLEAN
      BY <2>11 DEF EndCustomScan
    <3> QED
      BY <2>11, <3>1 DEF EndCustomScan, ResumeCancelInterrupts
  <2> QED
    BY <1>5, <2>2, <2>3, <2>4, <2>5, <2>6, <2>7, <2>8, <2>9, <2>10, <2>11
    DEF ScanStep
<1> QED
  BY <1>1, <1>2, <1>3, <1>4, <1>5, StepCases

-----------------------------------------------------------------------------
(* The rows of a portal.                                                    *)

\* The part of RowsInOrder that is about one portal.
Ordered(p) ==
  /\ \A i \in 1..Len(got[p]) : got[p][i] = i
  /\ st[p] = "done" => Len(got[p]) = Rows

LEMMA ZeroStateType == ZeroState \in ScanStates
  BY BoundsAssumption DEF ZeroState, ScanStates

\* A scan state with a new position is a scan state.
LEMMA ScanUpdate ==
  ASSUME NEW r \in ScanStates, NEW a \in 0..MaxChunk, NEW b \in Nat,
         NEW c \in BOOLEAN, NEW d \in Nat
  PROVE  /\ [r EXCEPT !.size = a, !.row = b, !.next = c, !.pulled = d] \in ScanStates
         /\ [r EXCEPT !.row = b, !.size = a, !.next = c] \in ScanStates
         /\ [r EXCEPT !.size = a, !.row = b, !.next = c] \in ScanStates
         /\ [r EXCEPT !.row = b] \in ScanStates
  BY DEF ScanStates

\* A step of one portal leaves the rows and the progress of the others alone.
LEMMA OwnPortalOnly ==
  ASSUME PortalTypes, NEW p \in Portals, ScanStep(p), NEW q \in Portals, q # p
  PROVE  st'[q] = st[q] /\ scan'[q] = scan[q] /\ got'[q] = got[q] /\ reads'[q] = reads[q]
<1> USE DEF PortalTypes
<1>1. CASE \E ranged, inner \in SUBSET Tables : PlanQuery(p, ranged, inner)
  BY <1>1 DEF PlanQuery
<1>2. CASE BeginCustomScan(p) \/ BeginRaises(p) \/ ExecuteQuery(p)
  BY <1>2 DEF BeginCustomScan, BeginRaises, ExecuteQuery
<1>3. CASE ExecuteRaises(p) \/ TaskFails(p) \/ QueryCancelled(p) \/ FetchRaises(p)
  BY <1>3 DEF ExecuteRaises, TaskFails, QueryCancelled, FetchRaises, ExecError,
     CleanupDuckdbScanState
<1>4. CASE TaskReady(p) \/ InterruptTasks(p)
  BY <1>4 DEF TaskReady, InterruptTasks
<1>5. CASE FetchRow(p) \/ FetchEnd(p)
  BY <1>5 DEF FetchRow, FetchEnd
<1>6. CASE EndCustomScan(p)
  BY <1>6 DEF EndCustomScan, CleanupDuckdbScanState
<1> QED
  BY <1>1, <1>2, <1>3, <1>4, <1>5, <1>6 DEF ScanStep

\* What a fetch leaves behind: a state whose current row is inside the chunk.
LEMMA FetchedFacts ==
  ASSUME RowInv, NEW p \in Portals, st[p] = "ready", NEW s \in Fetched(p)
  PROVE  /\ s \in ScanStates /\ ~s.next
         /\ s.row < s.size /\ s.size <= s.pulled
         /\ Len(got[p]) = s.pulled - s.size + s.row
<1> USE DEF RowInv, PortalTypes, ScanStates
<1>1. scan[p] \in ScanStates /\ Passed(p)
  OBVIOUS
<1>2. CASE scan[p].next
  <2>1. PICK n \in 1..MaxChunk :
          s = [scan[p] EXCEPT !.size = n, !.row = 0, !.next = FALSE, !.pulled = @ + n]
    BY <1>2 DEF Fetched
  <2>2. scan[p].size = 0 /\ Len(got[p]) = scan[p].pulled /\ scan[p].pulled \in Nat
    BY <1>1, <1>2 DEF Passed
  <2>3. n \in Nat /\ 0 < n /\ n \in 0..MaxChunk
    BY BoundsAssumption
  <2>4. s \in ScanStates
    <3>1. scan[p].pulled + n \in Nat
      BY <2>2, <2>3
    <3>2. s = [scan[p] EXCEPT !.size = n, !.row = 0, !.next = FALSE,
                              !.pulled = scan[p].pulled + n]
      BY <2>1
    <3> HIDE DEF ScanStates
    <3> QED
      BY <1>1, <2>3, <3>1, <3>2, ScanUpdate
  <2>5. s.row = 0 /\ s.size = n /\ s.next = FALSE /\ s.pulled = scan[p].pulled + n
    BY <1>1, <2>1
  <2> QED
    BY <2>2, <2>3, <2>4, <2>5
<1>3. CASE ~scan[p].next
  BY <1>1, <1>3 DEF Fetched, Passed
<1> QED
  BY <1>2, <1>3

\* Passing on one row keeps the rows in order.
LEMMA FetchRowStep ==
  ASSUME RowInv, NEW p \in Portals, FetchRow(p)
  PROVE  PortalTypes' /\ Passed(p)' /\ Ordered(p)'
<1>1. PICK s \in Fetched(p) :
        /\ got' = [got EXCEPT ![p] = Append(@, s.pulled - s.size + s.row + 1)]
        /\ scan' = [scan EXCEPT ![p] = AdvanceRow(s)]
  BY DEF FetchRow
<1>2. st[p] = "ready" /\ UNCHANGED <<st, reads>>
  BY DEF FetchRow
<1>3. /\ s \in ScanStates /\ ~s.next
      /\ s.row < s.size /\ s.size <= s.pulled
      /\ Len(got[p]) = s.pulled - s.size + s.row
  BY <1>2, FetchedFacts
<1> DEFINE n == Len(got[p]) + 1
<1>4. got[p] \in Seq(Nat) /\ n \in Nat /\ n = s.pulled - s.size + s.row + 1
  BY <1>3 DEF RowInv, PortalTypes, ScanStates
<1>5. got' = [got EXCEPT ![p] = Append(got[p], n)]
  BY <1>1, <1>4
<1>6. Append(got[p], n) \in Seq(Nat) /\ got'[p] = Append(got[p], n) /\ Len(got'[p]) = n
  BY <1>4, <1>5 DEF RowInv, PortalTypes
<1>7. \A i \in 1..n : got'[p][i] = i
  <2>1. \A i \in 1..Len(got[p]) : got[p][i] = i
    BY DEF RowInv, RowsInOrder
  <2> QED
    BY <1>4, <1>6, <2>1
<1>8. AdvanceRow(s) \in ScanStates
  <2>1. s.row + 1 \in Nat /\ 0 \in 0..MaxChunk
    BY <1>3, BoundsAssumption DEF ScanStates
  <2> QED
    BY <1>3, <2>1, ScanUpdate DEF AdvanceRow
<1>9. /\ AdvanceRow(s).pulled = s.pulled
      /\ AdvanceRow(s).next => AdvanceRow(s).size = 0 /\ s.row + 1 = s.size
      /\ ~AdvanceRow(s).next =>
           /\ AdvanceRow(s).size = s.size /\ AdvanceRow(s).row = s.row + 1
           /\ s.row + 1 < s.size
  BY <1>3, BoundsAssumption DEF AdvanceRow, ScanStates
<1>10. PortalTypes'
  BY <1>1, <1>2, <1>5, <1>6, <1>8 DEF RowInv, PortalTypes
<1>11. scan'[p] = AdvanceRow(s) /\ st'[p] = "ready"
  BY <1>1, <1>2 DEF RowInv, PortalTypes
<1>12. Passed(p)'
  <2>1. scan'[p].next => scan'[p].size = 0 /\ Len(got'[p]) = scan'[p].pulled
    <3>1. s.row \in Nat /\ s.size \in Nat /\ s.pulled \in Nat
      BY <1>3, BoundsAssumption DEF ScanStates
    <3> QED
      BY <1>4, <1>6, <1>9, <1>11, <3>1
  <2>2. ~scan'[p].next =>
          /\ scan'[p].row < scan'[p].size /\ scan'[p].size <= scan'[p].pulled
          /\ Len(got'[p]) = scan'[p].pulled - scan'[p].size + scan'[p].row
    <3>1. s.row \in Nat /\ s.size \in Nat /\ s.pulled \in Nat
      BY <1>3, BoundsAssumption DEF ScanStates
    <3> QED
      BY <1>3, <1>4, <1>6, <1>9, <1>11, <3>1
  <2> QED
    BY <1>11, <2>1, <2>2 DEF Passed
<1>13. Ordered(p)'
  BY <1>6, <1>7, <1>11 DEF Ordered
<1> QED
  BY <1>10, <1>12, <1>13

\* Every step of a portal keeps its rows in order.
LEMMA RowScanStep ==
  ASSUME RowInv, NEW p \in Portals, ScanStep(p)
  PROVE  RowInv'
<1>1. PortalTypes' /\ Passed(p)' /\ Ordered(p)'
  <2>1. CASE FetchRow(p)
    BY <2>1, FetchRowStep
  <2> USE ZeroStateType DEF RowInv, PortalTypes
  <2>a. Passed(p) /\ Ordered(p) /\ scan[p] \in ScanStates /\ got[p] \in Seq(Nat)
    BY DEF RowsInOrder, Ordered
  <2>b. ASSUME got[p] = <<>>, UNCHANGED got, st'[p] # "done"
        PROVE  Ordered(p)'
    BY <2>b DEF Ordered
  <2>c. ASSUME UNCHANGED got, st'[p] # "done"
        PROVE  Ordered(p)'
    BY <2>a, <2>c DEF Ordered
  <2>2. CASE \E ranged, inner \in SUBSET Tables : PlanQuery(p, ranged, inner)
    BY <2>a, <2>2, <2>c DEF PlanQuery, Passed, States
  <2>3. CASE BeginCustomScan(p) \/ BeginRaises(p)
    <3> DEFINE begun == [ZeroState EXCEPT !.stmt = TRUE, !.next = TRUE]
    <3>1. /\ begun \in ScanStates
          /\ begun.next /\ begun.size = 0 /\ begun.pulled = 0
      BY BoundsAssumption DEF ZeroState, ScanStates
    <3>2. /\ st[p] = "planned" /\ UNCHANGED <<reads, got>>
          /\ \/ st' = [st EXCEPT ![p] = "failed"] /\ UNCHANGED scan
             \/ st' = [st EXCEPT ![p] = "begun"] /\ scan' = [scan EXCEPT ![p] = begun]
      BY <2>3 DEF BeginCustomScan, BeginRaises
    <3>3. got[p] = <<>>
      BY <2>a, <3>2 DEF Passed
    <3> HIDE DEF begun
    <3>4. PortalTypes'
      BY <3>1, <3>2 DEF States
    <3>5. Passed(p)'
      BY <3>1, <3>2, <3>3 DEF Passed
    <3>6. Ordered(p)'
      BY <2>c, <3>2
    <3> QED
      BY <3>4, <3>5, <3>6
  <2>4. CASE ExecuteQuery(p) \/ InterruptTasks(p)
    <3>1. /\ \/ st[p] = "begun" /\ st' = [st EXCEPT ![p] = "running"]
             \/ st[p] = "running" /\ st' = [st EXCEPT ![p] = "drain"]
          /\ UNCHANGED <<reads, scan, got>>
      BY <2>4 DEF ExecuteQuery, InterruptTasks, SeesCancel
    <3>2. PortalTypes'
      BY <3>1 DEF States
    <3>3. Passed(p)'
      BY <2>a, <3>1 DEF Passed
    <3>4. Ordered(p)'
      BY <2>c, <3>1
    <3> QED
      BY <3>2, <3>3, <3>4
  <2>5. CASE ExecuteRaises(p) \/ TaskFails(p) \/ QueryCancelled(p) \/ FetchRaises(p)
    <3>1. /\ st' = [st EXCEPT ![p] = "failed"] /\ UNCHANGED <<reads, got>>
          /\ UNCHANGED scan \/ scan' = [scan EXCEPT ![p] = ZeroState]
      BY <2>5 DEF ExecuteRaises, TaskFails, QueryCancelled, FetchRaises, ExecError,
         CleanupDuckdbScanState
    <3>2. PortalTypes'
      BY <3>1 DEF States
    <3>3. Passed(p)'
      BY <3>1 DEF Passed
    <3>4. Ordered(p)'
      BY <2>c, <3>1
    <3> QED
      BY <3>2, <3>3, <3>4
  <2>6. CASE TaskReady(p)
    <3>1. PICK r \in {"stream", "materialized"} :
            /\ st[p] = "running" /\ st' = [st EXCEPT ![p] = "ready"]
            /\ scan' = [scan EXCEPT ![p].res = r] /\ UNCHANGED <<reads, got>>
      BY <2>6 DEF TaskReady
    <3>2. PortalTypes'
      BY <2>a, <3>1 DEF States, ScanStates
    <3>3. /\ scan'[p].next = scan[p].next /\ scan'[p].size = scan[p].size
          /\ scan'[p].pulled = scan[p].pulled
      BY <2>a, <3>1 DEF ScanStates
    <3>4. scan[p].next /\ scan[p].size = 0 /\ scan[p].pulled = 0 /\ got[p] = <<>>
      BY <2>a, <3>1 DEF Passed
    <3>5. Passed(p)'
      BY <3>1, <3>3, <3>4 DEF Passed
    <3>6. Ordered(p)'
      BY <2>c, <3>1
    <3> QED
      BY <3>2, <3>5, <3>6
  <2>7. CASE FetchEnd(p)
    <3>1. /\ st[p] = "ready" /\ scan[p].next /\ scan[p].pulled = Rows
          /\ st' = [st EXCEPT ![p] = "done"] /\ UNCHANGED <<reads, got>>
          /\ scan' = [scan EXCEPT ![p].size = 0, ![p].row = 0, ![p].next = FALSE]
      BY <2>7 DEF FetchEnd
    <3>2. PortalTypes'
      <4>1. scan' \in [Portals -> ScanStates]
        <5>1. scan' = [scan EXCEPT ![p] = [scan[p] EXCEPT !.size = 0, !.row = 0, !.next = FALSE]]
          BY <2>a, <3>1 DEF ScanStates
        <5>2. 0 \in 0..MaxChunk /\ 0 \in Nat
          BY BoundsAssumption
        <5>3. [scan[p] EXCEPT !.size = 0, !.row = 0, !.next = FALSE] \in ScanStates
          BY <2>a, <5>2, ScanUpdate
        <5> QED
          BY <5>1, <5>3
      <4> QED
        BY <3>1, <4>1 DEF States
    <3>3. Passed(p)'
      BY <3>1 DEF Passed
    <3>4. Len(got[p]) = Rows
      BY <2>a, <3>1 DEF Passed
    <3>5. Ordered(p)'
      BY <2>a, <3>1, <3>4 DEF Ordered
    <3> QED
      BY <3>2, <3>3, <3>5
  <2>8. CASE EndCustomScan(p)
    <3>1. /\ scan' = [scan EXCEPT ![p] = ZeroState] /\ st' = [st EXCEPT ![p] = "none"]
          /\ got' = [got EXCEPT ![p] = <<>>] /\ UNCHANGED reads
      BY <2>8 DEF EndCustomScan, CleanupDuckdbScanState
    <3>2. PortalTypes'
      BY <3>1 DEF States
    <3>3. Passed(p)' /\ Ordered(p)'
      BY <3>1 DEF Passed, Ordered
    <3> QED
      BY <3>2, <3>3
  <2> QED
    BY <2>1, <2>2, <2>3, <2>4, <2>5, <2>6, <2>7, <2>8 DEF ScanStep
<1>2. ASSUME NEW q \in Portals, q # p
      PROVE  Passed(q)' /\ Ordered(q)'
  <2>1. st'[q] = st[q] /\ scan'[q] = scan[q] /\ got'[q] = got[q]
    BY <1>2, OwnPortalOnly DEF RowInv
  <2>2. Passed(q) /\ Ordered(q)
    BY DEF RowInv, RowsInOrder, Ordered
  <2> QED
    BY <2>1, <2>2 DEF Passed, Ordered
<1> QED
  BY <1>1, <1>2 DEF RowInv, RowsInOrder, Ordered

\* Steps of Postgres leave the rows alone or end portals.
LEMMA RowStep ==
  ASSUME RowInv, [Next]_vars
  PROVE  RowInv'
<1>1. CASE UNCHANGED vars \/ QuietPgStep
  <2>1. UNCHANGED scanVars
    BY <1>1 DEF vars, QuietPgStep, PlanRaises, PlanFallsBack, CancelRequest,
       CheckForInterrupts, PgStatement, PgError, StartSub, StartSubRaises, ReleaseSub
  <2> QED
    BY <2>1 DEF scanVars, RowInv, PortalTypes, RowsInOrder, Passed
<1>2. CASE AbortSub
  <2>1. /\ st' = [p \in Portals |-> IF st[p] = "failed" THEN "none" ELSE st[p]]
        /\ scan' = [p \in Portals |-> IF st[p] = "failed" THEN ZeroState ELSE scan[p]]
        /\ got' = [p \in Portals |-> IF st[p] = "failed" THEN <<>> ELSE got[p]]
        /\ UNCHANGED reads
    BY <1>2 DEF AbortSub
  <2>2. PortalTypes'
    BY <2>1, ZeroStateType DEF RowInv, PortalTypes, States
  <2>3. ASSUME NEW p \in Portals PROVE Passed(p)' /\ Ordered(p)'
    <3>1. Passed(p) /\ Ordered(p)
      BY DEF RowInv, RowsInOrder, Ordered
    <3> QED
      BY <2>1, <3>1 DEF Passed, Ordered
  <2> QED
    BY <2>2, <2>3 DEF RowInv, RowsInOrder, Ordered
<1>3. CASE XactEnds
  <2>1. EndXact
    BY <1>3 DEF XactEnds, CommitXact, AbortXact, UserRollback
  <2>2. PortalTypes'
    BY <2>1, ZeroStateType DEF EndXact, NoReads, RowInv, PortalTypes, States
  <2>3. ASSUME NEW p \in Portals PROVE Passed(p)' /\ Ordered(p)'
    BY <2>1 DEF EndXact, Passed, Ordered
  <2> QED
    BY <2>2, <2>3 DEF RowInv, RowsInOrder, Ordered
<1>4. CASE \E p \in Portals : ScanStep(p)
  BY <1>4, RowScanStep
<1> QED
  BY <1>1, <1>2, <1>3, <1>4, StepCases

-----------------------------------------------------------------------------
(* The query the connection runs.                                           *)

\* A query with Postgres tables in its range table is active only inside
\* ExecuteQuery.
LEMMA ReadsStep ==
  ASSUME BackendTypes, PortalTypes, RangedReadsContained, [Next]_vars
  PROVE  RangedReadsContained'
<1> USE PortalsAssumption DEF RangedReadsContained
<1>a. ASSUME active' = NoPortal \/ active' = Orphan PROVE RangedReadsContained'
  BY <1>a
<1>1. CASE UNCHANGED vars
  BY <1>1 DEF vars, ddbVars, scanVars
<1>2. CASE QuietPgStep
  <2>1. UNCHANGED <<st, reads>> /\ (UNCHANGED active \/ active' = NoPortal)
    BY <1>2 DEF QuietPgStep, PlanRaises, PlanFallsBack, CancelRequest,
       CheckForInterrupts, PgStatement, PgError, StartSub, StartSubRaises,
       ReleaseSub, DuckdbPrepare, ddbVars, scanVars
  <2> QED
    BY <1>a, <2>1
<1>3. CASE AbortSub
  BY <1>3 DEF AbortSub, ddbVars, PortalTypes
<1>4. CASE XactEnds
  BY <1>4, <1>a DEF XactEnds, CommitXact, AbortXact, UserRollback, EndXact
<1>5. ASSUME NEW p \in Portals, ScanStep(p)
      PROVE  RangedReadsContained'
  <2> USE DEF PortalTypes
  <2>a. ASSUME active' = active, active # p PROVE RangedReadsContained'
    BY <1>5, <2>a, OwnPortalOnly DEF BackendTypes
  <2>b. ASSUME active' = active, active = p, reads[p].ranged = {}, UNCHANGED reads
        PROVE  RangedReadsContained'
    BY <2>b
  <2>c. ASSUME active' = active, UNCHANGED reads, st[p] \notin {"running", "drain"}
        PROVE  RangedReadsContained'
    BY <2>a, <2>b, <2>c
  <2>1. CASE \E ranged, inner \in SUBSET Tables : PlanQuery(p, ranged, inner)
    BY <1>a, <2>1 DEF PlanQuery, DuckdbPrepare
  <2>2. CASE BeginCustomScan(p)
    BY <1>a, <2>2 DEF BeginCustomScan, DuckdbPrepare
  <2>3. CASE BeginRaises(p)
    BY <1>a, <2>3, <2>c DEF BeginRaises, DuckdbPrepare, ddbVars
  <2>4. CASE ExecuteQuery(p)
    BY <2>4 DEF ExecuteQuery
  <2>5. CASE ExecuteRaises(p) \/ FetchRaises(p)
    BY <1>a, <2>5, <2>c DEF ExecuteRaises, FetchRaises, ddbVars
  <2>6. CASE TaskReady(p)
    BY <1>a, <2>6, <2>a, <2>b DEF TaskReady, AllowStreamResult
  <2>7. CASE TaskFails(p) \/ QueryCancelled(p)
    BY <1>a, <2>7 DEF TaskFails, QueryCancelled, TasksAreGone
  <2>8. CASE InterruptTasks(p)
    BY <2>8, <2>a DEF InterruptTasks, ddbVars
  <2>9. CASE FetchRow(p) \/ FetchEnd(p)
    BY <1>a, <2>9, <2>c DEF FetchRow, FetchEnd, ddbVars
  <2>10. CASE EndCustomScan(p)
    BY <1>a, <2>10, <2>a DEF EndCustomScan
  <2> QED
    BY <1>5, <2>1, <2>2, <2>3, <2>4, <2>5, <2>6, <2>7, <2>8, <2>9, <2>10 DEF ScanStep
<1> QED
  BY <1>1, <1>2, <1>3, <1>4, <1>5, StepCases

\* Whatever ends a query or a transaction closes its relations.
LEMMA RelationsStep ==
  ASSUME BackendTypes, PortalTypes, RelationsBelongToTransaction, [Next]_vars
  PROVE  RelationsBelongToTransaction'
<1> USE PortalsAssumption DEF RelationsBelongToTransaction, HasActiveTransaction
<1>0. {} \in SUBSET Tables
  OBVIOUS
<1>a. ASSUME UNCHANGED ddbVars PROVE RelationsBelongToTransaction'
  BY <1>a DEF ddbVars
<1>b. ASSUME QueryEnd PROVE RelationsBelongToTransaction'
  BY <1>b DEF QueryEnd
<1>c. ASSUME NEW tables \in SUBSET Tables, DuckdbPrepare(tables)
      PROVE  RelationsBelongToTransaction'
  BY <1>c, PrepareFacts
<1>1. CASE UNCHANGED vars
  BY <1>1, <1>a DEF vars
<1>2. CASE QuietPgStep
  BY <1>0, <1>2, <1>a, <1>c DEF QuietPgStep, PlanRaises, PlanFallsBack,
     CancelRequest, CheckForInterrupts, PgStatement, PgError, StartSub,
     StartSubRaises, ReleaseSub
<1>3. CASE AbortSub
  BY <1>3, <1>a DEF AbortSub
<1>4. CASE XactEnds
  BY <1>4, <1>b DEF XactEnds, CommitXact, AbortXact, UserRollback, EndXact
<1>5. ASSUME NEW p \in Portals, ScanStep(p)
      PROVE  RelationsBelongToTransaction'
  <2>0. TablesOf(p) \in SUBSET Tables
    BY DEF PortalTypes, TablesOf
  <2>1. CASE \E ranged, inner \in SUBSET Tables : PlanQuery(p, ranged, inner)
    BY <2>1, <1>c DEF PlanQuery
  <2>2. CASE BeginCustomScan(p) \/ BeginRaises(p)
    BY <2>0, <2>2, <1>a, <1>c DEF BeginCustomScan, BeginRaises
  <2>3. CASE ExecuteQuery(p)
    BY <2>3 DEF ExecuteQuery
  <2>4. CASE ExecuteRaises(p) \/ FetchRaises(p) \/ TaskFails(p)
    BY <2>4, <1>a, <1>b DEF ExecuteRaises, FetchRaises, TaskFails
  <2>5. CASE TaskReady(p)
    BY <2>5, <1>a, <1>b DEF TaskReady, ddbVars
  <2>6. CASE QueryCancelled(p)
    BY <2>6 DEF QueryCancelled, TasksAreGone
  <2>7. CASE InterruptTasks(p) \/ FetchRow(p)
    BY <2>7, <1>a DEF InterruptTasks, FetchRow
  <2>8. CASE FetchEnd(p)
    BY <2>8, <1>a, <1>b DEF FetchEnd, ddbVars
  <2>9. CASE EndCustomScan(p)
    BY <2>9 DEF EndCustomScan
  <2> QED
    BY <1>5, <2>1, <2>2, <2>3, <2>4, <2>5, <2>6, <2>7, <2>8, <2>9 DEF ScanStep
<1> QED
  BY <1>1, <1>2, <1>3, <1>4, <1>5, StepCases

-----------------------------------------------------------------------------
(* Errors and holdoffs.                                                     *)

\* Only Free lets a portal into ExecuteQuery, and every ERROR leaves it.
LEMMA OneBusyStep ==
  ASSUME BackendTypes, PortalTypes, OneBusy, [Next]_vars
  PROVE  OneBusy'
<1> USE DEF OneBusy, Busy, PortalTypes
<1>1. CASE UNCHANGED vars
  BY <1>1 DEF vars, pgVars, scanVars
<1>2. CASE QuietPgStep
  <2>1. UNCHANGED st /\ (UNCHANGED failing \/ (failing' # "no" /\ ~Busy))
    BY <1>2 DEF QuietPgStep, PlanRaises, PlanFallsBack, CancelRequest,
       CheckForInterrupts, PgStatement, PgError, StartSub, StartSubRaises,
       ReleaseSub, Raise, Free, pgVars, scanVars
  <2> QED
    BY <2>1
<1>3. CASE AbortSub
  BY <1>3 DEF AbortSub
<1>4. CASE XactEnds
  BY <1>4 DEF XactEnds, CommitXact, AbortXact, UserRollback, EndXact
<1>5. ASSUME NEW p \in Portals, ScanStep(p)
      PROVE  OneBusy'
  <2>0. \A q \in Portals : q # p => st'[q] = st[q]
    BY <1>5, OwnPortalOnly
  <2>a. ASSUME Free, st'[p] \notin {"running", "drain", "failed"}, UNCHANGED failing
        PROVE  OneBusy'
    BY <2>0, <2>a DEF Free
  <2>b. ASSUME Free \/ st[p] \in {"running", "drain"}, failing' # "no",
               st'[p] \notin {"running", "drain"}
        PROVE  OneBusy'
    BY <2>0, <2>b DEF Free
  <2>1. CASE \E ranged, inner \in SUBSET Tables : PlanQuery(p, ranged, inner)
    BY <2>1, <2>a DEF PlanQuery, pgVars
  <2>2. CASE BeginCustomScan(p) \/ EndCustomScan(p) \/ FetchRow(p) \/ FetchEnd(p)
    BY <2>2, <2>a DEF BeginCustomScan, EndCustomScan, FetchRow, FetchEnd, pgVars
  <2>3. CASE BeginRaises(p)
    BY <2>3, <2>b DEF BeginRaises, Raise
  <2>4. CASE ExecuteRaises(p) \/ FetchRaises(p) \/ TaskFails(p)
    BY <2>4, <2>b DEF ExecuteRaises, FetchRaises, TaskFails, ExecError, Raise
  <2>5. CASE QueryCancelled(p)
    BY <2>5, <2>b DEF QueryCancelled, ExecError, Raise
  <2>6. CASE ExecuteQuery(p)
    BY <2>0, <2>6 DEF ExecuteQuery, Free, pgVars
  <2>7. CASE TaskReady(p) \/ InterruptTasks(p)
    <3>1. /\ st[p] \in {"running", "drain"} /\ UNCHANGED failing
          /\ st'[p] \in {"ready", "drain"}
      BY <2>7 DEF TaskReady, InterruptTasks, SeesCancel, pgVars
    <3> QED
      BY <2>0, <3>1
  <2> QED
    BY <1>5, <2>1, <2>2, <2>3, <2>4, <2>5, <2>6, <2>7 DEF ScanStep
<1> QED
  BY <1>1, <1>2, <1>3, <1>4, <1>5, StepCases

\* Open scans are finitely many; one more or one less counts as one.
LEMMA HeldFacts ==
  /\ IsFiniteSet(Held) /\ Cardinality(Held) \in Nat
  /\ Held = {} <=> Cardinality(Held) = 0
  /\ \A p \in Portals : Held = {p} => Cardinality(Held) = 1
<1>1. Held \in SUBSET Portals
  BY DEF Held
<1>2. IsFiniteSet(Held)
  BY <1>1, PortalsAssumption, FS_Subset
<1> QED
  BY <1>2, FS_CardinalityType, FS_EmptySet, FS_Singleton

LEMMA HeldChange ==
  ASSUME NEW p \in Portals
  PROVE  /\ Held' = Held \cup {p} /\ p \notin Held =>
              Cardinality(Held') = Cardinality(Held) + 1
         /\ Held' = Held \ {p} /\ p \in Held =>
              Cardinality(Held') = Cardinality(Held) - 1
  BY HeldFacts, FS_AddElement, FS_RemoveElement

\* Each open scan holds cancels off once, unless an ERROR was caught.
LEMMA HoldStep ==
  ASSUME BackendTypes, PortalTypes, OneBusy, HoldInv, [Next]_vars
  PROVE  HoldInv'
<1> USE DEF HoldInv, HoldoffBalanced
<1>a. ASSUME Raise("error") \/ Raise("cancel") PROVE HoldInv'
  BY <1>a DEF Raise
<1>b. ASSUME UNCHANGED <<failing, holdoff, orphans, lostHold>>, Held' = Held
      PROVE  HoldInv'
  BY <1>b
<1>1. CASE UNCHANGED vars
  BY <1>1, <1>b DEF vars, pgVars, scanVars, history, Held
<1>2. CASE QuietPgStep
  <2>1. Held' = Held
    BY <1>2 DEF QuietPgStep, PlanRaises, PlanFallsBack, CancelRequest,
       CheckForInterrupts, PgStatement, PgError, StartSub, StartSubRaises,
       ReleaseSub, scanVars, Held
  <2>2. \/ Raise("error") \/ Raise("cancel")
        \/ UNCHANGED <<failing, holdoff, orphans, lostHold>>
    BY <1>2 DEF QuietPgStep, PlanRaises, PlanFallsBack, CancelRequest,
       CheckForInterrupts, PgStatement, PgError, StartSub, StartSubRaises,
       ReleaseSub, history
  <2> QED
    BY <1>a, <1>b, <2>1, <2>2
<1>3. CASE AbortSub
  <2>1. Held' = Held
    BY <1>3 DEF AbortSub, Held, PortalTypes
  <2>2. /\ failing = "error" /\ failing' = "no" /\ lostHold' = (Held # {})
        /\ UNCHANGED <<holdoff, orphans>>
    BY <1>3 DEF AbortSub
  <2>3. holdoff = 0 /\ orphans = 0
    BY <2>2
  <2>4. Cardinality(Held) \in Nat /\ (Held = {} => Cardinality(Held) = 0)
    BY HeldFacts
  <2>5. failing' = "no" /\ holdoff' = 0 /\ orphans' = 0
    BY <2>2, <2>3
  <2>6. HoldoffBalanced'
    <3>1. CASE Held = {}
      BY <2>1, <2>4, <2>5, <3>1
    <3>2. CASE Held # {}
      <4>1. lostHold'
        BY <2>2, <3>2
      <4>2. holdoff' <= Cardinality(Held') + orphans'
        BY <2>1, <2>4, <2>5
      <4> QED
        BY <2>5, <4>1, <4>2
    <3> QED
      BY <3>1, <3>2
  <2>7. lostHold' => Held' # {}
    BY <2>1, <2>2
  <2> QED
    BY <2>5, <2>6, <2>7
<1>4. CASE XactEnds
  <2>1. EndXact
    BY <1>4 DEF XactEnds, CommitXact, AbortXact, UserRollback
  <2>2. Held' = {} /\ failing' = "no" /\ ~lostHold'
    BY <2>1 DEF EndXact, Held
  <2>3. holdoff' = orphans' /\ holdoff' \in Nat
    <3>1. CASE CommitXact
      <4>1. failing = "no" /\ Held = {} /\ UNCHANGED <<holdoff, orphans>>
        BY <3>1 DEF CommitXact, Free
      <4> QED
        BY <4>1, HeldFacts DEF BackendTypes
    <3>2. CASE AbortXact
      BY <3>2 DEF AbortXact
    <3>3. CASE UserRollback
      BY <3>3 DEF UserRollback, BackendTypes
    <3> QED
      BY <1>4, <3>1, <3>2, <3>3 DEF XactEnds
  <2>4. Cardinality(Held') = 0
    BY <2>2, FS_EmptySet
  <2> QED
    BY <2>2, <2>3, <2>4
<1>5. ASSUME NEW p \in Portals, ScanStep(p)
      PROVE  HoldInv'
  <2>0. \A q \in Portals : q # p => st'[q] = st[q]
    BY <1>5, OwnPortalOnly
  <2>c. ASSUME p \in Held <=> p \in Held' PROVE Held' = Held
    BY <2>0, <2>c DEF Held
  <2>d. ASSUME p \in Held' PROVE Held' = Held \cup {p}
    BY <2>0, <2>d DEF Held
  <2>e. ASSUME p \notin Held' PROVE Held' = Held \ {p}
    BY <2>0, <2>e DEF Held
  <2>1. CASE \E ranged, inner \in SUBSET Tables : PlanQuery(p, ranged, inner)
    <3>1. p \notin Held /\ p \notin Held'
      BY <2>1 DEF PlanQuery, Held, PortalTypes
    <3> QED
      BY <1>b, <2>1, <2>c, <3>1 DEF PlanQuery, pgVars, history
  <2>2. CASE BeginCustomScan(p)
    <3>1. p \notin Held /\ p \in Held'
      BY <2>2 DEF BeginCustomScan, Held, PortalTypes
    <3>2. Cardinality(Held') = Cardinality(Held) + 1
      BY <2>d, <3>1, HeldChange
    <3>3. failing = "no" /\ holdoff' = holdoff + 1 /\ UNCHANGED <<failing, orphans, lostHold>>
      BY <2>2 DEF BeginCustomScan, HoldCancelInterrupts, Free, history
    <3>4. Held' # {} /\ Cardinality(Held) \in Nat
      BY <3>1, HeldFacts
    <3> QED
      BY <3>2, <3>3, <3>4 DEF BackendTypes
  <2>3. CASE \/ BeginRaises(p) \/ ExecuteRaises(p) \/ FetchRaises(p)
             \/ TaskFails(p) \/ QueryCancelled(p)
    BY <1>a, <2>3 DEF BeginRaises, ExecuteRaises, FetchRaises, TaskFails,
       QueryCancelled, ExecError
  <2>4. CASE ExecuteQuery(p) \/ TaskReady(p) \/ InterruptTasks(p)
             \/ FetchRow(p) \/ FetchEnd(p)
    <3>1. p \in Held /\ p \in Held'
      BY <2>4 DEF ExecuteQuery, TaskReady, InterruptTasks, SeesCancel, FetchRow,
         FetchEnd, Held, PortalTypes
    <3>2. UNCHANGED <<failing, holdoff, orphans, lostHold>>
      BY <2>4 DEF ExecuteQuery, TaskReady, InterruptTasks, FetchRow, FetchEnd,
         pgVars, history
    <3> QED
      BY <1>b, <2>c, <3>1, <3>2
  <2>5. CASE EndCustomScan(p)
    <3>1. p \in Held /\ p \notin Held'
      BY <2>5 DEF EndCustomScan, Held, PortalTypes
    <3>2. Held' = Held \ {p} /\ Cardinality(Held') = Cardinality(Held) - 1
      BY <2>e, <3>1, HeldChange
    <3>3. /\ failing = "no" /\ lostHold' = (lostHold /\ Held # {p})
          /\ holdoff' = (IF holdoff > 0 THEN holdoff - 1 ELSE 0)
          /\ UNCHANGED <<failing, orphans>>
      BY <2>5 DEF EndCustomScan, ResumeCancelInterrupts, Free
    <3>4. /\ Cardinality(Held) \in Nat /\ Cardinality(Held) # 0
          /\ Held = {p} => Cardinality(Held) = 1
      BY <3>1, HeldFacts
    <3>5. CASE lostHold /\ Held # {p}
      <4>1. Held' # {} /\ orphans = 0 /\ holdoff <= Cardinality(Held) + orphans
        BY <3>1, <3>2, <3>3, <3>5
      <4>2. lostHold'
        BY <3>3, <3>5
      <4>3. holdoff' <= Cardinality(Held') + orphans'
        BY <3>2, <3>3, <3>4, <4>1 DEF BackendTypes
      <4> QED
        BY <3>3, <4>1, <4>2, <4>3
    <3>6. CASE lostHold /\ Held = {p}
      <4>1. orphans = 0 /\ holdoff <= Cardinality(Held) + orphans /\ Cardinality(Held) = 1
        BY <3>3, <3>4, <3>6
      <4>2. ~lostHold'
        BY <3>3, <3>6
      <4>3. holdoff' = Cardinality(Held') + orphans' /\ holdoff' \in Nat
        BY <3>2, <3>3, <4>1 DEF BackendTypes
      <4> QED
        BY <3>3, <4>2, <4>3
    <3>7. CASE ~lostHold
      <4>1. holdoff = Cardinality(Held) + orphans
        BY <3>3, <3>7
      <4> QED
        BY <3>2, <3>3, <3>4, <3>7, <4>1 DEF BackendTypes
    <3> QED
      BY <3>5, <3>6, <3>7
  <2> QED
    BY <1>5, <2>1, <2>2, <2>3, <2>4, <2>5 DEF ScanStep
<1> QED
  BY <1>1, <1>2, <1>3, <1>4, <1>5, StepCases

\* Only a cancel that is not held off jumps past the cleanup; it can only be
\* seen inside ExecuteQuery when the holdoff of that very scan was lost.
LEMMA CleanStep ==
  ASSUME BackendTypes, RowInv, OneBusy, HoldInv, FailedScanIsClean, [Next]_vars
  PROVE  FailedScanIsClean'
<1> USE DEF FailedScanIsClean, RowInv, PortalTypes
<1>a. ASSUME \A p \in Portals : st'[p] # "failed" PROVE FailedScanIsClean'
  BY <1>a
<1>1. CASE UNCHANGED vars
  BY <1>1 DEF vars, scanVars, history
<1>2. CASE QuietPgStep
  <2>1. UNCHANGED <<st, scan, lostHold>>
    BY <1>2 DEF QuietPgStep, PlanRaises, PlanFallsBack, CancelRequest,
       CheckForInterrupts, PgStatement, PgError, StartSub, StartSubRaises,
       ReleaseSub, scanVars, history
  <2> QED
    BY <2>1
<1>3. CASE AbortSub \/ XactEnds
  BY <1>3, <1>a DEF AbortSub, XactEnds, CommitXact, AbortXact, UserRollback, EndXact
<1>5. ASSUME NEW p \in Portals, ScanStep(p)
      PROVE  FailedScanIsClean'
  <2>0. \A q \in Portals : q # p => st'[q] = st[q] /\ scan'[q] = scan[q]
    BY <1>5, OwnPortalOnly
  <2>b. ASSUME UNCHANGED lostHold, st'[p] = "failed" => ~scan'[p].stmt
        PROVE  FailedScanIsClean'
    BY <2>0, <2>b
  <2>1. CASE \E ranged, inner \in SUBSET Tables : PlanQuery(p, ranged, inner)
    BY <2>1, <2>b DEF PlanQuery, history
  <2>2. CASE \/ BeginCustomScan(p) \/ ExecuteQuery(p) \/ TaskReady(p)
             \/ InterruptTasks(p) \/ FetchRow(p) \/ FetchEnd(p)
    <3>1. UNCHANGED lostHold /\ st'[p] # "failed"
      BY <2>2 DEF BeginCustomScan, ExecuteQuery, TaskReady, InterruptTasks,
         FetchRow, FetchEnd, history
    <3> QED
      BY <2>b, <3>1
  <2>3. CASE BeginRaises(p)
    <3>1. st[p] = "planned" /\ UNCHANGED lostHold
          /\ (st'[p] = "failed" => UNCHANGED scan)
      BY <2>3 DEF BeginRaises
    <3>2. ~scan[p].stmt
      BY <3>1 DEF Passed, ZeroState
    <3> QED
      BY <2>b, <3>1, <3>2
  <2>4. CASE ExecuteRaises(p) \/ FetchRaises(p) \/ TaskFails(p)
    <3>1. UNCHANGED lostHold /\ scan'[p] = ZeroState
      BY <2>4 DEF ExecuteRaises, FetchRaises, TaskFails, ExecError,
         CleanupDuckdbScanState
    <3> QED
      BY <2>b, <3>1 DEF ZeroState
  <2>5. CASE QueryCancelled(p)
    <3>0. UNCHANGED lostHold /\ st[p] = "drain"
      BY <2>5 DEF QueryCancelled
    <3>1. CASE holdoff = 0
      <4>1. failing = "no" /\ p \in Held
        BY <3>0 DEF OneBusy, Busy, Held
      <4>2. Cardinality(Held) \in Nat /\ Cardinality(Held) # 0
        BY <4>1, HeldFacts
      <4>3. lostHold
        BY <3>1, <4>1, <4>2 DEF HoldInv, HoldoffBalanced, BackendTypes
      <4> QED
        BY <3>0, <4>3
    <3>2. CASE holdoff # 0
      <4>1. scan'[p] = ZeroState
        BY <2>5, <3>2 DEF QueryCancelled, ExecError, CleanupDuckdbScanState
      <4> QED
        BY <2>b, <3>0, <4>1 DEF ZeroState
    <3> QED
      BY <3>1, <3>2
  <2>6. CASE EndCustomScan(p)
    <3>1. failing = "no" /\ st'[p] = "none"
      BY <2>6 DEF EndCustomScan, Free
    <3> QED
      BY <1>a, <2>0, <3>1 DEF OneBusy
  <2> QED
    BY <1>5, <2>1, <2>2, <2>3, <2>4, <2>5, <2>6 DEF ScanStep
<1> QED
  BY <1>1, <1>2, <1>3, <1>5, StepCases

-----------------------------------------------------------------------------
(* The theorems.                                                            *)

LEMMA InitIInv == Init => IInv
<1> SUFFICES ASSUME Init PROVE IInv
  OBVIOUS
<1> USE DEF Init
<1>1. BackendTypes
  BY DEF BackendTypes
<1>2. RowInv
  <2>1. PortalTypes
    BY ZeroStateType DEF PortalTypes, States, NoReads
  <2>2. \A p \in Portals : Passed(p)
    BY DEF Passed
  <2>3. RowsInOrder
    BY DEF RowsInOrder
  <2> QED
    BY <2>1, <2>2, <2>3 DEF RowInv
<1>3. RangedReadsContained /\ RelationsBelongToTransaction
  BY PortalsAssumption DEF RangedReadsContained, RelationsBelongToTransaction
<1>4. OneBusy /\ FailedScanIsClean
  BY DEF OneBusy, Busy, FailedScanIsClean
<1>5. HoldInv
  <2>1. Held = {}
    BY DEF Held
  <2> QED
    BY <2>1, FS_EmptySet DEF HoldInv, HoldoffBalanced
<1> QED
  BY <1>1, <1>2, <1>3, <1>4, <1>5 DEF IInv

LEMMA IInvAlways == Spec => []IInv
<1>1. IInv /\ [Next]_vars => IInv'
  BY BackendStep, RowStep, ReadsStep, RelationsStep, OneBusyStep, HoldStep,
     CleanStep DEF IInv, RowInv
<1> QED
  BY <1>1, InitIInv, PTL DEF Spec

\* Every variable has its type, the fields of the scan state included: the
\* size of a chunk stays within a chunk and no row number is negative.
THEOREM TypeCorrect == Spec => []TypeOK
<1>1. IInv => TypeOK
  BY DEF IInv, RowInv, BackendTypes, PortalTypes, ScanStates, TypeOK
<1> QED
  BY <1>1, IInvAlways, PTL

\* HOLD and RESUME of cancel interrupts balance, whatever errors, savepoints
\* and rollbacks come between the begin and the end of the scans.
THEOREM HoldoffsBalance == Spec => []HoldoffBalanced
<1>1. IInv => HoldoffBalanced
  BY DEF IInv, HoldInv
<1> QED
  BY <1>1, IInvAlways, PTL

\* Duckdb_ExecCustomScan passes on every row once and in order, however the
\* result is cut into chunks and whatever else uses the connection.
THEOREM RowsArriveInOrder == Spec => []RowsInOrder
<1>1. IInv => RowsInOrder
  BY DEF IInv, RowInv
<1> QED
  BY <1>1, IInvAlways, PTL

\* DuckDB works on a query that has Postgres tables in its range table only while
\* ExecuteQuery waits for it or drains its tasks.
THEOREM ReadsContained == Spec => []RangedReadsContained
<1>1. IInv => RangedReadsContained
  BY DEF IInv
<1> QED
  BY <1>1, IInvAlways, PTL

\* A scan that fails is cleaned up, unless its holdoff was lost to an earlier
\* ERROR and ProcessInterrupts jumps past the cleanup.
THEOREM FailuresClean == Spec => []FailedScanIsClean
<1>1. IInv => FailedScanIsClean
  BY DEF IInv
<1> QED
  BY <1>1, IInvAlways, PTL

\* No relation stays open beyond the DuckDB transaction that opened it.
THEOREM RelationsClosed == Spec => []RelationsBelongToTransaction
<1>1. IInv => RelationsBelongToTransaction
  BY DEF IInv
<1> QED
  BY <1>1, IInvAlways, PTL
=============================================================================
