-------------------------- MODULE DuckdbXactProofs --------------------------
(***************************************************************************)
(* Proofs about DuckdbXact, for every set of tables and every value of the *)
(* settings and bounds.  The argument has layers: the counters (types, the *)
(* stack of subtransactions, the executor count), the other types, and on  *)
(* top of them what holds of the DuckDB transaction and of command ids.    *)
(***************************************************************************)
EXTENDS DuckdbXact, TLAPS

\* The levels at which subtransactions began are ordered and none is above
\* the current nesting level.
StackOK ==
    /\ \A d \in 1..subDepth : levelAt[d] <= Level
    /\ \A d, e \in 1..subDepth : d <= e => levelAt[d] <= levelAt[e]

\* NestCoversExecutors, also while an error is being raised.
NestOK == nest >= openExec

CounterInv == CounterTypes /\ StackOK /\ NestOK

\* The actions that run one statement, or one step of it, without changing
\* which statements and subtransactions are under way.
Statement ==
    \/ PgCreateTable \/ PgRefresh \/ PgDropTable \/ LoadCaches \/ StatementError
    \/ DuckdbStatements \/ DuckdbDdl

\* What all of those have in common, as far as the counters go.
StatementShape ==
    /\ UNCHANGED <<subDepth, levelAt, openExec, inDo>>
    /\ UNCHANGED stmts \/ CountStmt
    /\ UNCHANGED pgWrote \/ pgWrote' = pgWrote \cup {subDepth}
    /\ UNCHANGED nest \/ nest' = nest + 1
    /\ UNCHANGED cidUsed \/ cidUsed' = 0 \/ cidUsed' = 1
    /\ \/ UNCHANGED cid \/ cid' = StartCid \/ cid' = StartCid + 1
       \/ cid' = StartCid + 2 \/ cid' = StartCid + 3 \/ cid' = StartCid + 4
    /\ \/ UNCHANGED nextExpected \/ nextExpected' = StartCid + 1
       \/ nextExpected' = StartCid + 2 \/ nextExpected' = StartCid + 3
       \/ nextExpected' = StartCid + 4

-----------------------------------------------------------------------------
(* The counters.                                                            *)

\* The drop trigger's effect on command ids: an error before or after the
\* DELETE on duckdb.tables, a claim, or no claim.
LEMMA DropTriggerCids ==
  ASSUME NEW t, NEW c, NEW e, NEW k, NEW a, DropTrigger(t, c, e, k, a)
  PROVE  /\ UNCHANGED nest \/ nest' = nest + 1
         /\ \/ cid' = c /\ cidUsed' = 1 /\ nextExpected' = e
            \/ cid' = c + 1 /\ cidUsed' = 0 /\ nextExpected' = e
            \/ /\ cid' = (c + 1) + 1 /\ cidUsed' = 0
               /\ nextExpected' = (c + 1) + 1
  BY DEF DropTrigger, Claim

\* Every statement has the common shape.
LEMMA StatementHasShape ==
  ASSUME StartCid \in Nat, Statement
  PROVE  StatementShape
<1> USE DEF StatementShape, xactVars, cidVars, globVars
<1>1. CASE PgCreateTable
  BY <1>1
  DEF PgCreateTable
<1>2. CASE PgRefresh
  BY <1>2
  DEF PgRefresh
<1>3. CASE PgDropTable
  BY <1>3
  DEF PgDropTable
<1>lc. CASE LoadCaches
  BY <1>lc
  DEF LoadCaches
<1>4. CASE StatementError
  BY <1>4
  DEF StatementError, AtTop, Level
<1>5. CASE \E planned \in BOOLEAN, top \in TopAfterRefresh : DdbSelect(planned, top)
  BY <1>5
  DEF DdbSelect, Claim
<1>6. CASE \E planned \in BOOLEAN, top \in TopAfterRefresh : DdbDml(planned, top)
  <2> PICK planned \in BOOLEAN, top \in TopAfterRefresh : DdbDml(planned, top)
    BY <1>6
  <2>1. /\ CountStmt /\ UNCHANGED <<xactVars, pgWrote>>
        /\ UNCHANGED nest \/ nest' = nest + 1
        /\ \/ UNCHANGED <<cid, cidUsed, nextExpected>>
           \/ cid' = StartCid /\ cidUsed' = 1 /\ UNCHANGED nextExpected
           \/ Claim(StartCid) \/ Claim(StartCid + 1)
    BY DEF DdbDml
  <2>2. StartCid + 1 + 1 = StartCid + 2
    OBVIOUS
  <2> QED
    BY <2>1, <2>2 DEF Claim
<1>7. CASE RawQuery
  BY <1>7
  DEF RawQuery
<1>8. CASE \E top \in TopAfterRefresh : CopyFrom(top)
  BY <1>8
  DEF CopyFrom
<1>9. CASE Truncate
  BY <1>9
  DEF Truncate, AtTop, Level
<1>10. CASE RecycleDdb
  BY <1>10
  DEF RecycleDdb, AtTop, Level
<1>11. CASE CreateRefused
  BY <1>11
  DEF CreateRefused, AtTop, Level
<1>12. CASE CreateFailsInPostgres
  BY <1>12
  DEF CreateFailsInPostgres, CreateClaimed, Claim, AtTop, Level
<1>13. CASE CreatePermanentFails
  BY <1>13
  DEF CreatePermanentFails, CreateClaimed, AtTop, Level
<1>14. CASE CreatePermanent
  BY <1>14
  DEF CreatePermanent, CreateClaimed, Claim, AtTop, Level
<1>15. CASE AlterRefused
  BY <1>15
  DEF AlterRefused, AtTop, Claim, Level
<1>16. CASE AlterTable
  BY <1>16
  DEF AlterTable, AtTop, Claim, Level
<1>17. CASE \E t \in Tables : CreateTemp(t)
  BY <1>17
  DEF CreateTemp, CreateClaimed, Claim, AtTop, Level
<1>18. CASE \E t \in Tables, alsoPg \in BOOLEAN : DropOwned(t, alsoPg)
  <2> PICK t \in Tables, alsoPg \in BOOLEAN : DropOwned(t, alsoPg)
    BY <1>18
  <2>1. DropTrigger(t, StartCid + 1, nextExpected, FALSE, alsoPg)
    BY DEF DropOwned
  <2>2. /\ UNCHANGED nest \/ nest' = nest + 1
        /\ \/ /\ cid' = StartCid + 1 /\ cidUsed' = 1
              /\ UNCHANGED nextExpected
           \/ /\ cid' = StartCid + 2 /\ cidUsed' = 0
              /\ UNCHANGED nextExpected
           \/ /\ cid' = StartCid + 3 /\ cidUsed' = 0
              /\ nextExpected' = StartCid + 3
    <3>1. StartCid + 1 + 1 = StartCid + 2 /\ StartCid + 1 + 1 + 1 = StartCid + 3
      OBVIOUS
    <3> QED
      BY <2>1, <3>1, DropTriggerCids
  <2>3. /\ CountStmt /\ UNCHANGED xactVars
        /\ UNCHANGED pgWrote \/ pgWrote' = pgWrote \cup {subDepth}
    BY DEF DropOwned
  <2> QED
    BY <2>2, <2>3
<1>19. CASE \E t \in Tables, alsoPg \in BOOLEAN : DropTable(t, alsoPg)
  <2> PICK t \in Tables, alsoPg \in BOOLEAN : DropTable(t, alsoPg)
    BY <1>19
  <2>1. CASE DropTrigger(t, StartCid + 2, StartCid + 1, TRUE, alsoPg)
    <3>1. StartCid + 2 + 1 = StartCid + 3 /\ StartCid + 2 + 1 + 1 = StartCid + 4
      OBVIOUS
    <3>2. /\ UNCHANGED nest \/ nest' = nest + 1
          /\ \/ /\ cid' = StartCid + 2 /\ cidUsed' = 1
                /\ nextExpected' = StartCid + 1
             \/ /\ cid' = StartCid + 3 /\ cidUsed' = 0
                /\ nextExpected' = StartCid + 1
             \/ /\ cid' = StartCid + 4 /\ cidUsed' = 0
                /\ nextExpected' = StartCid + 4
      BY <2>1, <3>1, DropTriggerCids
    <3>3. /\ CountStmt /\ UNCHANGED xactVars
          /\ UNCHANGED pgWrote \/ pgWrote' = pgWrote \cup {subDepth}
      BY DEF DropTable
    <3> QED
      BY <3>2, <3>3
  <2>2. CASE ~DropTrigger(t, StartCid + 2, StartCid + 1, TRUE, alsoPg)
    <3>1. /\ CountStmt /\ UNCHANGED <<xactVars, nest, pgWrote>>
          /\ \/ cid' = StartCid /\ cidUsed' = 1 /\ UNCHANGED nextExpected
             \/ cid' = StartCid + 1 /\ cidUsed' = 0 /\ nextExpected' = StartCid + 1
      BY <2>2 DEF DropTable, Claim
    <3> QED
      BY <3>1
  <2> QED
    BY <2>1, <2>2
<1> QED
  BY <1>1, <1>2, <1>3, <1>4, <1>5, <1>6, <1>7, <1>8, <1>9, <1>10, <1>11,
     <1>12, <1>13, <1>14, <1>15, <1>16, <1>17, <1>18, <1>19, <1>lc
  DEF Statement, DuckdbStatements, DuckdbDdl

LEMMA StartCidNat == CounterTypes => StartCid \in Nat
  BY DEF StartCid, CounterTypes

\* The common shape keeps the counters in order.
LEMMA StatementCounters ==
  ASSUME CounterInv, StatementShape
  PROVE  CounterInv'
<1>1. StartCid \in Nat
  BY StartCidNat DEF CounterInv
<1>2. CountStmt => stmts' \in Nat
  BY DEF CountStmt, CounterInv, CounterTypes
<1>3. pgWrote' \subseteq Nat
  <2>1. subDepth \in Nat
    BY ConstantsAssumption DEF CounterInv, CounterTypes
  <2> QED
    BY <2>1 DEF CounterInv, CounterTypes, StatementShape
<1>4. cid' \in Nat /\ nextExpected' \in Nat
  BY <1>1 DEF CounterInv, CounterTypes, StatementShape
<1>5. CounterTypes'
  BY <1>2, <1>3, <1>4 DEF CounterInv, CounterTypes, StatementShape
<1>6. StackOK'
  BY DEF CounterInv, StackOK, StatementShape, Level
<1>7. NestOK'
  BY DEF CounterInv, NestOK, StatementShape, CounterTypes
<1> QED
  BY <1>5, <1>6, <1>7 DEF CounterInv

\* Every step keeps the counters in order: PgQueryClose and DoClose rely on
\* the stack, AbortSub goes back to the level at which it began.
LEMMA CountersStep ==
  ASSUME CounterInv, [Next]_vars
  PROVE  CounterInv'
<1>a. StartCid \in Nat
  BY StartCidNat DEF CounterInv
<1>b. CountStmt => stmts' \in Nat
  BY DEF CountStmt, CounterInv, CounterTypes
<1>s. CASE Statement
  BY <1>a, <1>s, StatementHasShape, StatementCounters
<1>u. CASE UNCHANGED vars
  BY <1>u DEF CounterInv, CounterTypes, StackOK, NestOK, Level, vars,
      xactVars, cidVars, globVars
<1> USE ConstantsAssumption
    DEF CounterInv, CounterTypes, StackOK, NestOK, Level, AtTop, xactVars,
        cidVars, globVars
<1>1. CASE Begin
  BY <1>1
  DEF Begin, Open, FirstCommandId
<1>2. CASE BeginImplicit
  BY <1>2
  DEF BeginImplicit, Open, FirstCommandId
<1>3. CASE BeginSingle
  BY <1>3
  DEF BeginSingle, Open, FirstCommandId
<1>4. CASE \E write, planned \in BOOLEAN : PgQueryOpen(write, planned)
  <2> PICK write, planned \in BOOLEAN : PgQueryOpen(write, planned)
    BY <1>4
  <2>1. /\ CountStmt /\ UNCHANGED <<subDepth, levelAt, inDo, nextExpected>>
        /\ UNCHANGED pgWrote \/ pgWrote' = pgWrote \cup {subDepth}
        /\ \/ UNCHANGED <<openExec, nest, cid, cidUsed>>
           \/ /\ openExec' = openExec + 1 /\ nest' = nest + 1
              /\ cid' = StartCid /\ (cidUsed' = 0 \/ cidUsed' = 1)
    BY DEF PgQueryOpen, ExecutorEnter
  <2>2. pgWrote' \subseteq Nat
    <3>1. subDepth \in Nat
      OBVIOUS
    <3> QED
      BY <2>1, <3>1
  <2>3. CounterTypes' /\ NestOK'
    BY <1>a, <1>b, <2>1, <2>2
  <2>4. StackOK'
    BY <2>1
  <2> QED
    BY <2>3, <2>4
<1>5. CASE PgQueryClose
  <2>1. CounterTypes' /\ NestOK'
    BY <1>a, <1>5 DEF PgQueryClose
  <2>2. StackOK'
    BY <1>5 DEF PgQueryClose
  <2> QED
    BY <2>1, <2>2
<1>6. CASE DoOpen
  <2>1. CounterTypes' /\ NestOK'
    BY <1>b, <1>6 DEF DoOpen
  <2>2. StackOK'
    BY <1>6 DEF DoOpen
  <2> QED
    BY <2>1, <2>2
<1>7. CASE DoClose
  <2>1. CounterTypes' /\ NestOK'
    BY <1>7 DEF DoClose
  <2>2. StackOK'
    BY <1>7 DEF DoClose
  <2> QED
    BY <2>1, <2>2
<1>8. CASE StartSub
  <2>1. CASE UNCHANGED <<subDepth, levelAt>>
    BY <1>b, <1>8, <2>1 DEF StartSub, ddbVars
  <2>2. CASE subDepth' = subDepth + 1
    <3>1. /\ levelAt' = [levelAt EXCEPT ![subDepth + 1] = Level]
          /\ subDepth < MaxSub
          /\ UNCHANGED <<openExec, inDo, nest, cid, cidUsed, nextExpected, pgWrote>>
      BY <1>8, <2>2 DEF StartSub
    <3>2. CounterTypes' /\ NestOK'
      BY <1>b, <1>8, <2>2, <3>1 DEF StartSub
    <3>3. StackOK'
      BY <2>2, <3>1
    <3> QED
      BY <3>2, <3>3
  <2> QED
    BY <1>8, <2>1, <2>2 DEF StartSub
<1>9. CASE ReleaseSub
  <2>1. Released(subDepth) \subseteq Nat
    BY <1>9 DEF ReleaseSub, Released
  <2>2. CounterTypes' /\ NestOK'
    BY <1>9, <2>1 DEF ReleaseSub
  <2>3. StackOK'
    BY <1>9 DEF ReleaseSub
  <2> QED
    BY <2>2, <2>3
<1>10. CASE AbortSub
  <2> DEFINE L == levelAt[subDepth]
  <2>1. subDepth \in 1..MaxSub /\ L \in Nat /\ L <= openExec + inDo
    BY <1>10 DEF AbortSub
  <2>2. /\ inDo' = (IF L > 0 THEN inDo ELSE 0) /\ openExec' = L - inDo'
        /\ subDepth' = subDepth - 1
        /\ levelAt' = [levelAt EXCEPT ![subDepth] = 0]
        /\ pgWrote' = pgWrote \ {subDepth}
        /\ cid' = StartCid /\ cidUsed' = 0
        /\ UNCHANGED <<stmts, nextExpected, nest>>
    BY <1>10 DEF AbortSub
  <2>3. openExec' \in Nat /\ openExec' <= openExec
    BY <2>1, <2>2
  <2>4. CounterTypes' /\ NestOK'
    BY <1>a, <2>1, <2>2, <2>3
  <2>5. StackOK'
    <3>1. openExec' + inDo' = L
      BY <2>1, <2>2
    <3>2. \A d \in 1..(subDepth - 1) : levelAt[d] <= L /\ levelAt'[d] = levelAt[d]
      BY <2>1, <2>2
    <3> QED
      BY <2>1, <2>2, <3>1, <3>2
  <2> QED
    BY <2>4, <2>5
<1>11. CASE AbortXact
  <2>1. /\ subDepth' = 0 /\ levelAt' = [d \in DOMAIN levelAt |-> 0]
        /\ openExec' = 0 /\ inDo' = 0 /\ stmts' = 0 /\ cid' = 0
        /\ cidUsed' = 0 /\ pgWrote' = {} /\ nest' = 0
        /\ UNCHANGED nextExpected \/ nextExpected' = 0
    BY <1>11 DEF AbortXact, EndXact, XactReset, FirstCommandId, AbortEvent
  <2> QED
    BY <2>1
<1>12. CASE Rollback
  <2>1. /\ subDepth' = 0 /\ levelAt' = [d \in DOMAIN levelAt |-> 0]
        /\ openExec' = 0 /\ inDo' = 0 /\ stmts' = 0 /\ cid' = 0
        /\ cidUsed' = 0 /\ pgWrote' = {} /\ nest' = 0
        /\ UNCHANGED nextExpected \/ nextExpected' = 0
    BY <1>12 DEF Rollback, EndXact, XactReset, FirstCommandId, AbortEvent
  <2> QED
    BY <2>1
<1>13. CASE LeaveAborted
  BY <1>13
  DEF LeaveAborted
<1>14. CASE PreCommit
  BY <1>14
  DEF PreCommit, XactReset, FirstCommandId
<1>15. CASE CommitFailsLate
  BY <1>15
  DEF CommitFailsLate
<1>16. CASE CommitDone
  <2>1. /\ subDepth' = 0 /\ levelAt' = [d \in DOMAIN levelAt |-> 0]
        /\ openExec' = 0 /\ inDo' = 0 /\ stmts' = 0 /\ cid' = 0
        /\ cidUsed' = 0 /\ pgWrote' = {} /\ nest' = 0
        /\ UNCHANGED nextExpected \/ nextExpected' = 0
    BY <1>16 DEF CommitDone, EndXact, XactReset, FirstCommandId
  <2> QED
    BY <2>1
<1>17. CASE Prepare
  <2>1. CASE EndXact("idle", "prepare", FALSE)
    <3>1. /\ subDepth' = 0 /\ levelAt' = [d \in DOMAIN levelAt |-> 0]
          /\ openExec' = 0 /\ inDo' = 0 /\ stmts' = 0 /\ cid' = 0
          /\ cidUsed' = 0 /\ pgWrote' = {} /\ nest' = 0
          /\ UNCHANGED nextExpected
      BY <1>17, <2>1 DEF Prepare, EndXact, XactReset, FirstCommandId
    <3> QED
      BY <3>1
  <2>2. CASE ~EndXact("idle", "prepare", FALSE)
    <3>1. /\ UNCHANGED <<subDepth, levelAt, openExec, inDo, stmts, cidVars, pgWrote>>
          /\ openExec + inDo = 0 /\ nest' = 0
      BY <1>17, <2>2 DEF Prepare, XactReset
    <3>2. openExec = 0
      BY <3>1
    <3> QED
      BY <3>1, <3>2
  <2> QED
    BY <2>1, <2>2
<1> QED
  BY <1>s, <1>u, <1>1, <1>2, <1>3, <1>4, <1>5, <1>6, <1>7, <1>8, <1>9,
     <1>10, <1>11, <1>12, <1>13, <1>14, <1>15, <1>16, <1>17
  DEF Next, Starts, PgStatements, Subtransactions, Ends, Statement

-----------------------------------------------------------------------------
(* The other types.                                                         *)

\* Every step keeps the flags Boolean.
LEMMA FlagsStep ==
  ASSUME FlagTypes, [Next]_vars
  PROVE  FlagTypes'
<1>tx. \A force, top : ConnectOpensTx(force, top) \in BOOLEAN
  BY Zenon DEF ConnectOpensTx
<1> USE DEF FlagTypes, xactVars, cidVars, globVars, ddbVars, tempVars, histVars
<1>u. CASE UNCHANGED vars
  BY <1>u, Zenon DEF vars
<1>1. CASE Begin
  BY <1>1, Zenon
  DEF Begin, Open
<1>2. CASE BeginImplicit
  BY <1>2, Zenon
  DEF BeginImplicit, Open
<1>3. CASE BeginSingle
  BY <1>3, Zenon
  DEF BeginSingle, Open
<1>4. CASE \E write, planned \in BOOLEAN : PgQueryOpen(write, planned)
  BY <1>4, Zenon
  DEF PgQueryOpen
<1>5. CASE PgQueryClose
  BY <1>5, Zenon
  DEF PgQueryClose
<1>6. CASE PgCreateTable
  BY <1>6, Zenon
  DEF PgCreateTable
<1>7. CASE PgRefresh
  BY <1>7, Zenon
  DEF PgRefresh
<1>8. CASE PgDropTable
  BY <1>8, Zenon
  DEF PgDropTable
<1>9. CASE DoOpen
  BY <1>9, Zenon
  DEF DoOpen, AtTop
<1>10. CASE DoClose
  BY <1>10, Zenon
  DEF DoClose
<1>lc. CASE LoadCaches
  BY <1>lc, Zenon
  DEF LoadCaches
<1>11. CASE StatementError
  BY <1>11, Zenon
  DEF StatementError, AtTop
<1>12. CASE \E planned \in BOOLEAN, top \in TopAfterRefresh : DdbSelect(planned, top)
  <2> PICK planned \in BOOLEAN, top \in TopAfterRefresh : DdbSelect(planned, top)
    BY <1>12, Zenon
  <2>1. top \in BOOLEAN
    BY Zenon DEF TopAfterRefresh
  <2>2. /\ UNCHANGED <<explicit, savedTop, forceAllow, ddbWrote, ddbDurable,
                       tempModified, commitFailed>>
        /\ (ddbInit' = ddbInit) \/ (ddbInit' = TRUE)
        /\ (topLevel' = topLevel) \/ (topLevel' = top)
        /\ (ddbTx' = ddbTx) \/ (\E seen : ddbTx' = ConnectOpensTx(FALSE, seen))
    BY Zenon DEF DdbSelect, Connect
  <2> QED
    BY <1>tx, <2>1, <2>2, Zenon
<1>13. CASE \E planned \in BOOLEAN, top \in TopAfterRefresh : DdbDml(planned, top)
  <2> PICK planned \in BOOLEAN, top \in TopAfterRefresh : DdbDml(planned, top)
    BY <1>13, Zenon
  <2>1. top \in BOOLEAN
    BY Zenon DEF TopAfterRefresh
  <2> DEFINE tx == ConnectOpensTx(FALSE, top)
  <2>2. /\ UNCHANGED <<explicit, savedTop, forceAllow, tempModified, commitFailed>>
        /\ (topLevel' = topLevel) \/ (topLevel' = top)
        /\ \/ /\ UNCHANGED <<ddbTx, ddbWrote, ddbDurable>>
              /\ (ddbInit' = ddbInit) \/ (ddbInit' = TRUE)
           \/ Connect(tx) \/ DdbWrite(tx)
    BY Zenon DEF DdbDml
  <2>3. tx \in BOOLEAN
    BY <1>tx, Zenon
  <2> QED
    BY <2>1, <2>2, <2>3, Zenon DEF Connect, DdbWrite
<1>14. CASE RawQuery
  BY <1>14, Zenon
  DEF RawQuery, CanConnect, DdbWrite, ConnectOpensTx
<1>15. CASE \E top \in TopAfterRefresh : CopyFrom(top)
  BY <1>15, Zenon
  DEF TopAfterRefresh, CopyFrom, CanConnect, DdbWrite, ConnectOpensTx
<1>16. CASE Truncate
  BY <1>16, Zenon
  DEF Truncate, CanConnect, AtTop, DdbWrite, ConnectOpensTx
<1>17. CASE RecycleDdb
  BY <1>17, Zenon
  DEF RecycleDdb, AtTop
<1>18. CASE CreateRefused
  BY <1>18, Zenon
  DEF CreateRefused, AtTop
<1>19. CASE CreateFailsInPostgres
  BY <1>19, Zenon
  DEF CreateFailsInPostgres, CreateClaimed, AtTop
<1>20. CASE CreatePermanentFails
  BY <1>20, Zenon
  DEF CreatePermanentFails, CreateClaimed, AtTop
<1>21. CASE CreatePermanent
  BY <1>21, Zenon
  DEF CreatePermanent, CreateClaimed, CanConnect, DdbWrite, AtTop
<1>22. CASE AlterRefused
  BY <1>22, Zenon
  DEF AlterRefused, AtTop
<1>23. CASE AlterTable
  BY <1>23, Zenon
  DEF AlterTable, AtTop, CanConnect, DdbWrite
<1>24. CASE \E t \in Tables : CreateTemp(t)
  BY <1>24, Zenon
  DEF CreateTemp, CreateClaimed, RegisterDuckdbTempTable, CanConnect,
      Connect, DdbWrite, AtTop, SaveTemp
<1>25. CASE \E t \in Tables, alsoPg \in BOOLEAN : DropOwned(t, alsoPg)
  BY <1>25, Zenon
  DEF DropOwned, AtTop, DropTrigger, CanConnect, DdbWrite,
      UnregisterDuckdbTempTable, SaveTemp
<1>26. CASE \E t \in Tables, alsoPg \in BOOLEAN : DropTable(t, alsoPg)
  BY <1>26, Zenon
  DEF DropTable, AtTop, DropTrigger, CanConnect, DdbWrite,
      UnregisterDuckdbTempTable, SaveTemp
<1>27. CASE StartSub
  BY <1>27, Zenon
  DEF StartSub, AtTop
<1>28. CASE ReleaseSub
  BY <1>28, Zenon
  DEF ReleaseSub
<1>29. CASE AbortSub
  BY <1>29, Zenon
  DEF AbortSub
<1>30. CASE AbortXact
  BY <1>30, Zenon
  DEF AbortXact, XactReset, AbortEvent, EndXact
<1>31. CASE Rollback
  BY <1>31, Zenon
  DEF Rollback, AtTop, XactReset, AbortEvent, EndXact
<1>32. CASE LeaveAborted
  BY <1>32, Zenon
  DEF LeaveAborted
<1>33. CASE PreCommit
  BY <1>33, Zenon
  DEF PreCommit, AtTop, XactReset
<1>34. CASE CommitFailsLate
  BY <1>34, Zenon
  DEF CommitFailsLate
<1>35. CASE CommitDone
  BY <1>35, Zenon
  DEF CommitDone, XactReset, EndXact
<1>36. CASE Prepare
  BY <1>36, Zenon
  DEF Prepare, AtTop, XactReset, EndXact
<1> QED
  BY <1>u, <1>1, <1>2, <1>3, <1>4, <1>5, <1>6, <1>7, <1>8, <1>9, <1>10,
     <1>11, <1>12, <1>13, <1>14, <1>15, <1>16, <1>17, <1>18, <1>19, <1>20,
     <1>21, <1>22, <1>23, <1>24, <1>25, <1>26, <1>27, <1>28, <1>29, <1>30,
     <1>31, <1>32, <1>33, <1>34, <1>35, <1>36, <1>lc
  DEF Next, Starts, PgStatements, DuckdbStatements, DuckdbDdl,
      Subtransactions, Ends

\* Every step keeps the states, the sets of tables and the history in type.
LEMMA ValuesStep ==
  ASSUME ValueTypes, [Next]_vars
  PROVE  ValueTypes'
<1> USE DEF ValueTypes, LossReasons, xactVars, globVars, tempVars, pgTempVars,
        histVars
<1>u. CASE UNCHANGED vars
  BY <1>u DEF vars
<1>1. CASE Begin
  BY <1>1
  DEF Begin, Open
<1>2. CASE BeginImplicit
  BY <1>2
  DEF BeginImplicit, Open
<1>3. CASE BeginSingle
  BY <1>3
  DEF BeginSingle, Open
<1>4. CASE \E write, planned \in BOOLEAN : PgQueryOpen(write, planned)
  BY <1>4
  DEF PgQueryOpen, Raise
<1>5. CASE PgQueryClose
  BY <1>5
  DEF PgQueryClose
<1>6. CASE PgCreateTable
  BY <1>6
  DEF PgCreateTable
<1>7. CASE PgRefresh
  BY <1>7
  DEF PgRefresh
<1>8. CASE PgDropTable
  BY <1>8
  DEF PgDropTable, Raise
<1>9. CASE DoOpen
  BY <1>9
  DEF DoOpen
<1>10. CASE DoClose
  BY <1>10
  DEF DoClose
<1>lc. CASE LoadCaches
  BY <1>lc
  DEF LoadCaches
<1>11. CASE StatementError
  BY <1>11
  DEF StatementError, Raise
<1>12. CASE \E planned \in BOOLEAN, top \in TopAfterRefresh : DdbSelect(planned, top)
  BY <1>12
  DEF DdbSelect, Raise
<1>13. CASE \E planned \in BOOLEAN, top \in TopAfterRefresh : DdbDml(planned, top)
  BY <1>13
  DEF DdbDml, Raise
<1>14. CASE RawQuery
  BY <1>14
  DEF RawQuery, Raise
<1>15. CASE \E top \in TopAfterRefresh : CopyFrom(top)
  BY <1>15
  DEF CopyFrom, Raise
<1>16. CASE Truncate
  BY <1>16
  DEF Truncate, Raise
<1>17. CASE RecycleDdb
  BY <1>17
  DEF RecycleDdb, Raise
<1>18. CASE CreateRefused
  BY <1>18
  DEF CreateRefused, Raise
<1>19. CASE CreateFailsInPostgres
  BY <1>19
  DEF CreateFailsInPostgres, CreateClaimed, Raise
<1>20. CASE CreatePermanentFails
  BY <1>20
  DEF CreatePermanentFails, CreateClaimed, Raise
<1>21. CASE CreatePermanent
  BY <1>21
  DEF CreatePermanent, CreateClaimed, Raise
<1>22. CASE AlterRefused
  BY <1>22
  DEF AlterRefused, Raise
<1>23. CASE AlterTable
  BY <1>23
  DEF AlterTable, LoseEvidence, Raise
<1>24. CASE \E t \in Tables : CreateTemp(t)
  BY <1>24
  DEF CreateTemp, CreateClaimed, RegisterDuckdbTempTable, Raise, SaveTemp
<1>25. CASE \E t \in Tables, alsoPg \in BOOLEAN : DropOwned(t, alsoPg)
  BY <1>25
  DEF DropOwned, DropTrigger, Raise, UnregisterDuckdbTempTable,
      LoseEvidence, SaveTemp
<1>26. CASE \E t \in Tables, alsoPg \in BOOLEAN : DropTable(t, alsoPg)
  BY <1>26
  DEF DropTable, Raise, DropTrigger, UnregisterDuckdbTempTable,
      LoseEvidence, SaveTemp
<1>27. CASE StartSub
  BY <1>27
  DEF StartSub, Raise
<1>28. CASE ReleaseSub
  BY <1>28
  DEF ReleaseSub
<1>29. CASE AbortSub
  BY <1>29
  DEF AbortSub, LoseEvidence
<1>30. CASE AbortXact
  BY <1>30
  DEF AbortXact, XactReset, AbortEvent, EndXact
<1>31. CASE Rollback
  BY <1>31
  DEF Rollback, XactReset, AbortEvent, EndXact
<1>32. CASE LeaveAborted
  BY <1>32
  DEF LeaveAborted
<1>33. CASE PreCommit
  BY <1>33
  DEF PreCommit, XactReset, Raise
<1>34. CASE CommitFailsLate
  BY <1>34
  DEF CommitFailsLate, Raise
<1>35. CASE CommitDone
  BY <1>35
  DEF CommitDone, XactReset, EndXact
<1>36. CASE Prepare
  BY <1>36
  DEF Prepare, XactReset, Raise, EndXact
<1> QED
  BY <1>u, <1>1, <1>2, <1>3, <1>4, <1>5, <1>6, <1>7, <1>8, <1>9, <1>10,
     <1>11, <1>12, <1>13, <1>14, <1>15, <1>16, <1>17, <1>18, <1>19, <1>20,
     <1>21, <1>22, <1>23, <1>24, <1>25, <1>26, <1>27, <1>28, <1>29, <1>30,
     <1>31, <1>32, <1>33, <1>34, <1>35, <1>36, <1>lc
  DEF Next, Starts, PgStatements, DuckdbStatements, DuckdbDdl,
      Subtransactions, Ends

\* Only the end of a transaction records an outcome, its start clears it.
LEMMA OutcomeRecorded ==
  ASSUME [Next]_vars
  PROVE  \/ UNCHANGED last
         \/ Starts \/ AbortXact \/ Rollback \/ CommitDone \/ Prepare
<1> USE DEF histVars
<1>u. CASE UNCHANGED vars
  BY <1>u DEF vars
<1>1. CASE \E write, planned \in BOOLEAN : PgQueryOpen(write, planned)
  BY <1>1
  DEF PgQueryOpen
<1>2. CASE PgQueryClose
  BY <1>2
  DEF PgQueryClose
<1>3. CASE PgCreateTable
  BY <1>3
  DEF PgCreateTable
<1>4. CASE PgRefresh
  BY <1>4
  DEF PgRefresh
<1>5. CASE PgDropTable
  BY <1>5
  DEF PgDropTable
<1>6. CASE DoOpen
  BY <1>6
  DEF DoOpen
<1>7. CASE DoClose
  BY <1>7
  DEF DoClose
<1>lc. CASE LoadCaches
  BY <1>lc
  DEF LoadCaches
<1>8. CASE StatementError
  BY <1>8
  DEF StatementError
<1>9. CASE \E planned \in BOOLEAN, top \in TopAfterRefresh : DdbSelect(planned, top)
  BY <1>9
  DEF DdbSelect
<1>10. CASE \E planned \in BOOLEAN, top \in TopAfterRefresh : DdbDml(planned, top)
  BY <1>10
  DEF DdbDml
<1>11. CASE RawQuery
  BY <1>11
  DEF RawQuery
<1>12. CASE \E top \in TopAfterRefresh : CopyFrom(top)
  BY <1>12
  DEF CopyFrom
<1>13. CASE Truncate
  BY <1>13
  DEF Truncate
<1>14. CASE RecycleDdb
  BY <1>14
  DEF RecycleDdb
<1>15. CASE CreateRefused
  BY <1>15
  DEF CreateRefused
<1>16. CASE CreateFailsInPostgres
  BY <1>16
  DEF CreateFailsInPostgres
<1>17. CASE CreatePermanentFails
  BY <1>17
  DEF CreatePermanentFails
<1>18. CASE CreatePermanent
  BY <1>18
  DEF CreatePermanent
<1>19. CASE AlterRefused
  BY <1>19
  DEF AlterRefused
<1>20. CASE AlterTable
  BY <1>20
  DEF AlterTable
<1>21. CASE \E t \in Tables : CreateTemp(t)
  BY <1>21
  DEF CreateTemp
<1>22. CASE \E t \in Tables, alsoPg \in BOOLEAN : DropOwned(t, alsoPg)
  BY <1>22 DEF DropOwned
<1>23. CASE \E t \in Tables, alsoPg \in BOOLEAN : DropTable(t, alsoPg)
  BY <1>23 DEF DropTable
<1>24. CASE StartSub
  BY <1>24
  DEF StartSub
<1>25. CASE ReleaseSub
  BY <1>25
  DEF ReleaseSub
<1>26. CASE AbortSub
  BY <1>26
  DEF AbortSub
<1>27. CASE LeaveAborted
  BY <1>27
  DEF LeaveAborted
<1>28. CASE PreCommit
  BY <1>28
  DEF PreCommit
<1>29. CASE CommitFailsLate
  BY <1>29
  DEF CommitFailsLate
<1> QED
  BY <1>u, <1>1, <1>2, <1>3, <1>4, <1>5, <1>6, <1>7, <1>8, <1>9, <1>10,
     <1>11, <1>12, <1>13, <1>14, <1>15, <1>16, <1>17, <1>18, <1>19, <1>20,
     <1>21, <1>22, <1>23, <1>24, <1>25, <1>26, <1>27, <1>28, <1>29, <1>lc
  DEF Next, PgStatements, DuckdbStatements, DuckdbDdl, Subtransactions, Ends

\* The recorded outcome is well typed.
LEMMA OutcomeStep ==
  ASSUME FlagTypes, ValueTypes, OutcomeTypes, [Next]_vars
  PROVE  OutcomeTypes'
<1>1. CASE Starts
  <2>1. last' = NoOutcome
    BY <1>1 DEF Starts, Begin, BeginImplicit, BeginSingle, Open
  <2> QED
    BY <2>1 DEF NoOutcome, OutcomeTypes, LossReasons
<1>2. ASSUME NEW state, NEW result \in {"commit", "abort", "prepare"},
             NEW late \in BOOLEAN, EndXact(state, result, late)
      PROVE  OutcomeTypes'
  BY <1>2 DEF EndXact, OutcomeTypes, FlagTypes, ValueTypes
<1>3. CASE AbortXact \/ Rollback \/ CommitDone \/ Prepare
  <2>1. CASE AbortXact
    <3>1. EndXact(IF blockState = "inblock" THEN "aborted" ELSE "idle",
                  "abort", blockState = "committing")
      BY <2>1 DEF AbortXact
    <3>2. (blockState = "committing") \in BOOLEAN
      BY Zenon
    <3> QED
      BY <3>1, <3>2, <1>2, Zenon
  <2>2. CASE Rollback
    BY <2>2, <1>2, Zenon DEF Rollback
  <2>3. CASE CommitDone
    BY <2>3, <1>2, Zenon DEF CommitDone
  <2>4. CASE Prepare
    <3>1. CASE EndXact("idle", "prepare", FALSE)
      BY <3>1, <1>2, Zenon
    <3>2. CASE ~EndXact("idle", "prepare", FALSE)
      BY <2>4, <3>2 DEF Prepare, OutcomeTypes
    <3> QED
      BY <3>1, <3>2
  <2> QED
    BY <1>3, <2>1, <2>2, <2>3, <2>4
<1>4. CASE UNCHANGED last
  BY <1>4 DEF OutcomeTypes
<1> QED
  BY <1>1, <1>3, <1>4, OutcomeRecorded

LEMMA InitTypes == Init => CounterInv /\ FlagTypes /\ ValueTypes /\ OutcomeTypes
<1> SUFFICES ASSUME Init
             PROVE  CounterInv /\ FlagTypes /\ ValueTypes /\ OutcomeTypes
  OBVIOUS
<1>1. CounterTypes
  BY ConstantsAssumption DEF Init, CounterTypes, FirstCommandId
<1>2. StackOK /\ NestOK
  BY DEF Init, StackOK, NestOK
<1>3. FlagTypes
  BY Zenon DEF Init, FlagTypes
<1>4. ValueTypes
  BY DEF Init, ValueTypes, LossReasons
<1>5. OutcomeTypes
  BY DEF Init, OutcomeTypes, LossReasons, NoOutcome
<1> QED
  BY <1>1, <1>2, <1>3, <1>4, <1>5 DEF CounterInv

\* The type invariant of the module, with the order of the counters it needs:
\* types alone are not inductive, because ExecutorFinish decrements the nest
\* level and AbortSub computes a nesting level by subtraction.
THEOREM TypeCorrect == Spec => []TypeOK
<1> DEFINE Inv == CounterInv /\ FlagTypes /\ ValueTypes /\ OutcomeTypes
<1>1. Init => Inv
  BY InitTypes
<1>2. Inv /\ [Next]_vars => Inv'
  BY CountersStep, FlagsStep, ValuesStep, OutcomeStep
<1>3. Inv => TypeOK
  BY DEF TypeOK, CounterInv
<1> QED
  BY <1>1, <1>2, <1>3, PTL DEF Spec

\* ExecutorFinish never meets a nest level of zero: the level covers every
\* running executor whatever errors, savepoints, functions and DO blocks do.
THEOREM ExecutorsCounted == Spec => []NestCoversExecutors
<1>1. Init => CounterInv
  BY InitTypes
<1>2. CounterInv /\ [Next]_vars => CounterInv'
  BY CountersStep
<1>3. CounterInv => NestCoversExecutors
  BY DEF CounterInv, NestOK, NestCoversExecutors
<1> QED
  BY <1>1, <1>2, <1>3, PTL DEF Spec

-----------------------------------------------------------------------------
(* The DuckDB transaction.                                                  *)

LEMMA DropTriggerTx ==
  ASSUME NEW t, NEW c, NEW e, NEW k, NEW a, DropTrigger(t, c, e, k, a)
  PROVE  /\ UNCHANGED failing \/ failing' = "error"
         /\ \/ UNCHANGED <<ddbInit, ddbTx>>
            \/ ddbInit' /\ (ddbTx' => CanConnect)
  BY DEF DropTrigger, Raise, ddbVars, DdbWrite

LEMMA TxInvStep ==
  ASSUME CounterInv, TxInv, [Next]_vars
  PROVE  TxInv'
<1>a. subDepth \in Nat
  BY ConstantsAssumption DEF CounterInv, CounterTypes
<1> USE <1>a DEF TxInv, xactVars, ddbVars, globVars
<1>u. CASE UNCHANGED vars
  BY <1>u DEF vars
<1>1. CASE Begin
  BY <1>1
  DEF Begin, Open
<1>2. CASE BeginImplicit
  BY <1>2
  DEF BeginImplicit, Open
<1>3. CASE BeginSingle
  BY <1>3
  DEF BeginSingle, Open
<1>4. CASE \E write, planned \in BOOLEAN : PgQueryOpen(write, planned)
  BY <1>4
  DEF PgQueryOpen, MayRun, Raise, Running
<1>5. CASE PgQueryClose
  BY <1>5
  DEF PgQueryClose, Running
<1>6. CASE PgCreateTable
  BY <1>6
  DEF PgCreateTable, MayRun, Running
<1>7. CASE PgRefresh
  BY <1>7
  DEF PgRefresh, MayRun, Running
<1>8. CASE PgDropTable
  BY <1>8
  DEF PgDropTable, MayRun, Raise, Running
<1>9. CASE DoOpen
  BY <1>9
  DEF DoOpen, MayRun, Running
<1>10. CASE DoClose
  BY <1>10
  DEF DoClose, Running
<1>lc. CASE LoadCaches
  BY <1>lc
  DEF LoadCaches, MayRun, Running
<1>11. CASE StatementError
  BY <1>11
  DEF StatementError, MayRun, Raise, Running
<1>12. CASE \E planned \in BOOLEAN, top \in TopAfterRefresh : DdbSelect(planned, top)
  BY <1>12
  DEF DdbSelect, MayRun, Raise, CanConnect, Connect, ConnectOpensTx, Running
<1>13. CASE \E planned \in BOOLEAN, top \in TopAfterRefresh : DdbDml(planned, top)
  BY <1>13
  DEF DdbDml, ConnectOpensTx, MayRun, Raise, CanConnect, Connect, DdbWrite,
      Running
<1>14. CASE RawQuery
  BY <1>14
  DEF RawQuery, Running, CanConnect, Raise, DdbWrite, ConnectOpensTx
<1>15. CASE \E top \in TopAfterRefresh : CopyFrom(top)
  BY <1>15
  DEF CopyFrom, MayRun, CanConnect, Raise, DdbWrite, ConnectOpensTx, Running
<1>16. CASE Truncate
  BY <1>16
  DEF Truncate, MayRun, CanConnect, Raise, DdbWrite, ConnectOpensTx, Running
<1>17. CASE RecycleDdb
  BY <1>17
  DEF RecycleDdb, MayRun, Raise, Running
<1>18. CASE CreateRefused
  BY <1>18
  DEF CreateRefused, MayRun, Raise, Running
<1>19. CASE CreateFailsInPostgres
  BY <1>19
  DEF CreateFailsInPostgres, CreateClaimed, Raise, MayRun, Running
<1>20. CASE CreatePermanentFails
  BY <1>20
  DEF CreatePermanentFails, CreateClaimed, Raise, MayRun, Running
<1>21. CASE CreatePermanent
  BY <1>21
  DEF CreatePermanent, CreateClaimed, CanConnect, DdbWrite, Raise, MayRun,
      Running
<1>22. CASE AlterRefused
  BY <1>22
  DEF AlterRefused, MayRun, Raise, Running
<1>23. CASE AlterTable
  BY <1>23
  DEF AlterTable, MayRun, CanConnect, Raise, DdbWrite, Running
<1>24. CASE \E t \in Tables : CreateTemp(t)
  BY <1>24
  DEF CreateTemp, CreateClaimed, Raise, CanConnect, Connect, DdbWrite,
      MayRun, Running
<1>25. CASE \E t \in Tables, alsoPg \in BOOLEAN : DropOwned(t, alsoPg)
  <2> PICK t \in Tables, alsoPg \in BOOLEAN : DropOwned(t, alsoPg)
    BY <1>25
  <2>1. DropTrigger(t, StartCid + 1, nextExpected, FALSE, alsoPg)
    BY DEF DropOwned
  <2>2. /\ UNCHANGED failing \/ failing' = "error"
        /\ \/ UNCHANGED <<ddbInit, ddbTx>>
           \/ ddbInit' /\ (ddbTx' => CanConnect)
    BY <2>1, DropTriggerTx
  <2>3. Running /\ UNCHANGED <<blockState, subDepth>>
    BY DEF DropOwned, MayRun
  <2> QED
    BY <2>2, <2>3 DEF Running, CanConnect
<1>26. CASE \E t \in Tables, alsoPg \in BOOLEAN : DropTable(t, alsoPg)
  <2> PICK t \in Tables, alsoPg \in BOOLEAN : DropTable(t, alsoPg)
    BY <1>26
  <2>1. /\ \/ DropTrigger(t, StartCid + 2, StartCid + 1, TRUE, alsoPg)
           \/ failing' = "mixed" /\ UNCHANGED <<ddbInit, ddbTx>>
        /\ Running /\ UNCHANGED <<blockState, subDepth>>
    BY DEF DropTable, MayRun, Raise
  <2>2. \/ /\ UNCHANGED failing \/ failing' = "error"
           /\ \/ UNCHANGED <<ddbInit, ddbTx>>
              \/ ddbInit' /\ (ddbTx' => CanConnect)
        \/ failing' = "mixed" /\ UNCHANGED <<ddbInit, ddbTx>>
    BY <2>1, DropTriggerTx
  <2> QED
    BY <2>1, <2>2 DEF Running, CanConnect
<1>27. CASE StartSub
  BY <1>27
  DEF StartSub, MayRun, Raise, Running
<1>28. CASE ReleaseSub
  BY <1>28
  DEF ReleaseSub, Running
<1>29. CASE AbortSub
  BY <1>29
  DEF AbortSub
<1>30. CASE AbortXact
  BY <1>30
  DEF AbortXact, AbortEvent, EndXact
<1>31. CASE Rollback
  BY <1>31
  DEF Rollback, Running, AbortEvent, EndXact
<1>32. CASE LeaveAborted
  BY <1>32
  DEF LeaveAborted
<1>33. CASE PreCommit
  BY <1>33
  DEF PreCommit, Running, Raise
<1>34. CASE CommitFailsLate
  BY <1>34
  DEF CommitFailsLate, Raise
<1>35. CASE CommitDone
  BY <1>35
  DEF CommitDone, EndXact
<1>36. CASE Prepare
  BY <1>36
  DEF Prepare, Running, Raise, EndXact
<1> QED
  BY <1>u, <1>1, <1>2, <1>3, <1>4, <1>5, <1>6, <1>7, <1>8, <1>9, <1>10,
     <1>11, <1>12, <1>13, <1>14, <1>15, <1>16, <1>17, <1>18, <1>19, <1>20,
     <1>21, <1>22, <1>23, <1>24, <1>25, <1>26, <1>27, <1>28, <1>29, <1>30,
     <1>31, <1>32, <1>33, <1>34, <1>35, <1>36, <1>lc
  DEF Next, Starts, PgStatements, DuckdbStatements, DuckdbDdl,
      Subtransactions, Ends

\* The DuckDB transaction lives inside one Postgres transaction and never
\* spans a subtransaction: GetConnection and the subtransaction callback
\* between them keep the two apart.
THEOREM TxContained == Spec => []DdbTxContained
<1>1. Init => CounterInv /\ TxInv
  <2>1. Init => TxInv
    BY DEF Init, TxInv
  <2> QED
    BY <2>1, InitTypes
<1>2. CounterInv /\ TxInv /\ [Next]_vars => (CounterInv /\ TxInv)'
  BY CountersStep, TxInvStep
<1>3. TxInv => DdbTxContained
  BY DEF TxInv, DdbTxContained, Running
<1> QED
  BY <1>1, <1>2, <1>3, PTL DEF Spec

-----------------------------------------------------------------------------
(* Command ids as evidence of Postgres writes.                              *)

\* What a statement does to the command ids in a block with intact evidence:
\* it claims nothing, or it claims with the evidence clean, or it loses it.
CidStep ==
    \/ /\ UNCHANGED nextExpected
       /\ \/ UNCHANGED pgWrote /\ cid' + cidUsed' >= StartCid
          \/ /\ pgWrote' = pgWrote \cup {subDepth}
             /\ cid' + cidUsed' > StartCid
    \/ /\ StartCid = nextExpected
       /\ UNCHANGED pgWrote
       /\ cid' + cidUsed' >= nextExpected'
    \/ evidenceLost' # "no"

\* What no statement does, in any transaction.
StatementSafe ==
    /\ Running /\ UNCHANGED <<blockState, explicit, subDepth, openExec>>
    /\ failing' = "no" => cidUsed' = 0 \/ UNCHANGED cidUsed
    /\ forceAllow' => failing' # "no" \/ forceAllow
    /\ evidenceLost' = "no" => evidenceLost = "no"

\* In a block only the setting and the force flag allow mixed writes.
LEMMA BlockForbidsMixing ==
  ASSUME blockState = "inblock", ~UnsafeMixed, ~forceAllow, NEW top
  PROVE  ~MixedWritesAllowed(top)
  BY DEF MixedWritesAllowed, IsInTransactionBlock

\* In a block an accepted claim finds the command id it expects.
LEMMA BlockClaim ==
  ASSUME blockState = "inblock", ~UnsafeMixed, ~forceAllow, NEW top,
         ~ClaimRefused(StartCid, top)
  PROVE  StartCid = nextExpected
  BY BlockForbidsMixing DEF ClaimRefused

LEMMA StatementCids ==
  ASSUME CounterInv, blockState = "inblock", ~UnsafeMixed, ~forceAllow,
         Statement
  PROVE  CidStep
<1>a. StartCid \in Nat /\ cid \in Nat /\ cid + cidUsed = StartCid
  BY StartCidNat DEF CounterInv, CounterTypes, StartCid
<1>c. \A top : ~ClaimRefused(StartCid, top) => StartCid = nextExpected
  BY BlockClaim
<1> USE <1>a DEF CidStep, xactVars, cidVars, globVars, histVars
<1>1. CASE PgCreateTable
  BY <1>1
  DEF PgCreateTable
<1>2. CASE PgRefresh
  BY <1>2
  DEF PgRefresh
<1>3. CASE PgDropTable
  <2>1. /\ UNCHANGED nextExpected
        /\ \/ /\ cid' = StartCid + 2 /\ cidUsed' = 0
              /\ pgWrote' = pgWrote \cup {subDepth}
           \/ cid' = StartCid + 1 /\ cidUsed' = 1 /\ UNCHANGED pgWrote
    BY <1>3 DEF PgDropTable
  <2> QED
    BY <2>1
<1>lc. CASE LoadCaches
  BY <1>lc
  DEF LoadCaches
<1>4. CASE StatementError
  BY <1>4
  DEF StatementError, AtTop, Level
<1>5. CASE \E planned \in BOOLEAN, top \in TopAfterRefresh : DdbSelect(planned, top)
  <2> PICK planned \in BOOLEAN, top \in TopAfterRefresh : DdbSelect(planned, top)
    BY <1>5
  <2>1. /\ UNCHANGED pgWrote
        /\ \/ UNCHANGED <<cid, cidUsed, nextExpected>>
           \/ /\ cid' = StartCid /\ (cidUsed' = 0 \/ cidUsed' = 1)
              /\ UNCHANGED nextExpected
           \/ ~ClaimRefused(StartCid, top) /\ Claim(StartCid)
    BY DEF DdbSelect
  <2> QED
    BY <1>c, <2>1 DEF Claim
<1>6. CASE \E planned \in BOOLEAN, top \in TopAfterRefresh : DdbDml(planned, top)
  <2> PICK planned \in BOOLEAN, top \in TopAfterRefresh : DdbDml(planned, top)
    BY <1>6
  <2>1. /\ UNCHANGED pgWrote
        /\ \/ UNCHANGED <<cid, cidUsed, nextExpected>>
           \/ cid' = StartCid /\ cidUsed' = 1 /\ UNCHANGED nextExpected
           \/ /\ ~ClaimRefused(StartCid, top)
              /\ Claim(StartCid) \/ Claim(StartCid + 1)
    BY DEF DdbDml
  <2> QED
    BY <1>c, <2>1 DEF Claim
<1>7. CASE RawQuery
  BY <1>7
  DEF RawQuery
<1>8. CASE \E top \in TopAfterRefresh : CopyFrom(top)
  BY <1>8
  DEF CopyFrom
<1>9. CASE Truncate
  <2>1. /\ UNCHANGED <<pgWrote, nextExpected>>
        /\ \/ UNCHANGED <<cid, cidUsed>>
           \/ cidUsed' = 0 /\ (cid' = StartCid \/ cid' = StartCid + 1)
    BY <1>9 DEF Truncate
  <2> QED
    BY <2>1
<1>10. CASE RecycleDdb
  BY <1>10
  DEF RecycleDdb, AtTop, Level
<1>11. CASE CreateRefused
  BY <1>11
  DEF CreateRefused, AtTop, Level
<1>12. CASE CreateFailsInPostgres
  <2>1. ~ClaimRefused(StartCid, AtTop) /\ Claim(StartCid) /\ UNCHANGED pgWrote
    BY <1>12 DEF CreateFailsInPostgres, CreateClaimed
  <2> QED
    BY <1>c, <2>1 DEF Claim
<1>13. CASE CreatePermanentFails
  <2>1. /\ ~ClaimRefused(StartCid, AtTop) /\ UNCHANGED pgWrote
        /\ nextExpected' = StartCid + 1 /\ cid' = StartCid + 2
        /\ cidUsed' = 0 \/ cidUsed' = 1
    BY <1>13 DEF CreatePermanentFails, CreateClaimed
  <2> QED
    BY <1>c, <2>1
<1>14. CASE CreatePermanent
  <2>1. ~ClaimRefused(StartCid, AtTop) /\ Claim(StartCid + 3) /\ UNCHANGED pgWrote
    BY <1>14 DEF CreatePermanent, CreateClaimed
  <2> QED
    BY <1>c, <2>1 DEF Claim
<1>15. CASE AlterRefused
  <2>1. /\ UNCHANGED pgWrote
        /\ \/ cid' = StartCid /\ cidUsed' = 1 /\ UNCHANGED nextExpected
           \/ ~ClaimRefused(StartCid, AtTop) /\ Claim(StartCid)
           \/ cid' = StartCid + 1 /\ cidUsed' = 0 /\ UNCHANGED nextExpected
    BY <1>15 DEF AlterRefused
  <2> QED
    BY <1>c, <2>1 DEF Claim
<1>16. CASE AlterTable
  <2>1. /\ UNCHANGED pgWrote
        /\ Claim(StartCid + 2) \/ Claim(StartCid + 1)
        /\ \/ ~ClaimRefused(StartCid, AtTop)
           \/ StartCid = nextExpected \/ evidenceLost' # "no"
    <3>1. CASE ddlType = "none"
      BY <1>16, <3>1 DEF AlterTable
    <3>2. CASE ddlType # "none"
      BY <1>16, <3>2 DEF AlterTable, LoseEvidence
    <3> QED
      BY <3>1, <3>2
  <2> QED
    BY <1>c, <2>1 DEF Claim
<1>17. CASE \E t \in Tables : CreateTemp(t)
  <2> PICK t \in Tables : CreateTemp(t)
    BY <1>17
  <2>1. ~ClaimRefused(StartCid, AtTop) /\ Claim(StartCid + 2) /\ UNCHANGED pgWrote
    BY <1>17 DEF CreateTemp, CreateClaimed
  <2> QED
    BY <1>c, <2>1 DEF Claim
<1>18. CASE \E t \in Tables, alsoPg \in BOOLEAN : DropOwned(t, alsoPg)
  <2> PICK t \in Tables, alsoPg \in BOOLEAN : DropOwned(t, alsoPg)
    BY <1>18
  <2>0. alsoPg => DropMixes(alsoPg)
    BY BlockForbidsMixing DEF DropMixes, MixedWritesAllowed
  <2>1. /\ DropTrigger(t, StartCid + 1, nextExpected, FALSE, alsoPg)
        /\ pgWrote' = IF alsoPg THEN pgWrote \cup {subDepth} ELSE pgWrote
    BY DEF DropOwned
  <2>2. \/ /\ UNCHANGED nextExpected
           /\ \/ cid' = StartCid + 1 /\ cidUsed' = 1
              \/ cid' = StartCid + 1 + 1 /\ cidUsed' = 0
        \/ /\ Claim(StartCid + 1 + 1)
           /\ StartCid = nextExpected \/ evidenceLost' # "no"
           /\ UNCHANGED pgWrote
    BY <2>0, <2>1 DEF DropTrigger, LoseEvidence
  <2> QED
    BY <2>1, <2>2 DEF Claim
<1>19. CASE \E t \in Tables, alsoPg \in BOOLEAN : DropTable(t, alsoPg)
  <2> PICK t \in Tables, alsoPg \in BOOLEAN : DropTable(t, alsoPg)
    BY <1>19
  <2>0. ~MixedWritesAllowed(AtTop)
    BY BlockForbidsMixing
  <2>1. \/ /\ UNCHANGED <<pgWrote, nextExpected>>
           /\ cid' = StartCid /\ cidUsed' = 1
        \/ ~ClaimRefused(StartCid, AtTop) /\ Claim(StartCid) /\ UNCHANGED pgWrote
        \/ /\ ~ClaimRefused(StartCid, AtTop) /\ UNCHANGED pgWrote
           /\ DropTrigger(t, StartCid + 2, StartCid + 1, TRUE, alsoPg)
    BY <2>0 DEF DropTable
  <2>2. CASE DropTrigger(t, StartCid + 2, StartCid + 1, TRUE, alsoPg)
    <3>1. \/ /\ nextExpected' = StartCid + 1
             /\ \/ cid' = StartCid + 2 /\ cidUsed' = 1
                \/ cid' = StartCid + 2 + 1 /\ cidUsed' = 0
          \/ /\ cid' = StartCid + 2 + 1 + 1 /\ cidUsed' = 0
             /\ nextExpected' = StartCid + 2 + 1 + 1
      BY <2>2 DEF DropTrigger, Claim
    <3>2. StartCid = nextExpected /\ UNCHANGED pgWrote
      <4>1. \/ UNCHANGED <<pgWrote, nextExpected>> /\ cid' = StartCid
            \/ ~ClaimRefused(StartCid, AtTop) /\ UNCHANGED pgWrote
        BY <2>1
      <4>2. cid' # StartCid
        BY <3>1
      <4> QED
        BY <1>c, <4>1, <4>2
    <3> QED
      BY <3>1, <3>2
  <2>3. CASE ~DropTrigger(t, StartCid + 2, StartCid + 1, TRUE, alsoPg)
    <3>1. \/ /\ UNCHANGED <<pgWrote, nextExpected>>
             /\ cid' = StartCid /\ cidUsed' = 1
          \/ /\ StartCid = nextExpected /\ UNCHANGED pgWrote
             /\ cid' = StartCid + 1 /\ cidUsed' = 0
             /\ nextExpected' = StartCid + 1
      BY <1>c, <2>1, <2>3, Zenon DEF Claim
    <3> QED
      BY <3>1
  <2> QED
    BY <2>2, <2>3
<1> QED
  BY <1>1, <1>2, <1>3, <1>4, <1>5, <1>6, <1>7, <1>8, <1>9, <1>10, <1>11,
     <1>12, <1>13, <1>14, <1>15, <1>16, <1>17, <1>18, <1>19, <1>lc
  DEF Statement, DuckdbStatements, DuckdbDdl

LEMMA DropTriggerSafe ==
  ASSUME NEW t, NEW c, NEW e, NEW k, NEW a, DropTrigger(t, c, e, k, a)
  PROVE  /\ failing' = "no" => cidUsed' = 0
         /\ forceAllow' => failing' # "no"
         /\ evidenceLost' = "no" => evidenceLost = "no"
  BY DEF DropTrigger, Raise, Claim, LoseEvidence

LEMMA StatementIsSafe ==
  ASSUME Statement
  PROVE  StatementSafe
<1> USE DEF StatementSafe, xactVars, cidVars, globVars, histVars
<1>1. CASE PgCreateTable
  BY <1>1
  DEF PgCreateTable, MayRun
<1>2. CASE PgRefresh
  BY <1>2
  DEF PgRefresh, MayRun
<1>3. CASE PgDropTable
  BY <1>3
  DEF PgDropTable, MayRun, Raise
<1>lc. CASE LoadCaches
  BY <1>lc
  DEF LoadCaches, MayRun
<1>4. CASE StatementError
  BY <1>4
  DEF StatementError, MayRun, Raise
<1>5. CASE \E planned \in BOOLEAN, top \in TopAfterRefresh : DdbSelect(planned, top)
  <2> PICK planned \in BOOLEAN, top \in TopAfterRefresh : DdbSelect(planned, top)
    BY <1>5
  <2>1. MayRun /\ UNCHANGED <<xactVars, forceAllow, histVars>>
    BY DEF DdbSelect
  <2>2. \/ failing' = "error" \/ failing' = "mixed"
        \/ cidUsed' = 0
    BY DEF DdbSelect, Raise, Claim
  <2> QED
    BY <2>1, <2>2 DEF MayRun
<1>6. CASE \E planned \in BOOLEAN, top \in TopAfterRefresh : DdbDml(planned, top)
  <2> PICK planned \in BOOLEAN, top \in TopAfterRefresh : DdbDml(planned, top)
    BY <1>6
  <2>1. MayRun /\ UNCHANGED <<xactVars, forceAllow, histVars>>
    BY DEF DdbDml
  <2>2. \/ failing' = "error" \/ failing' = "mixed"
        \/ cidUsed' = 0
    BY DEF DdbDml, Raise, Claim
  <2> QED
    BY <2>1, <2>2 DEF MayRun
<1>7. CASE RawQuery
  BY <1>7
  DEF RawQuery, Raise
<1>8. CASE \E top \in TopAfterRefresh : CopyFrom(top)
  BY <1>8
  DEF CopyFrom, MayRun, Raise
<1>9. CASE Truncate
  BY <1>9
  DEF Truncate, MayRun, Raise
<1>10. CASE RecycleDdb
  BY <1>10
  DEF RecycleDdb, MayRun, Raise
<1>11. CASE CreateRefused
  BY <1>11
  DEF CreateRefused, MayRun, Raise
<1>12. CASE CreateFailsInPostgres
  BY <1>12
  DEF CreateFailsInPostgres, CreateClaimed, Raise, Claim, MayRun
<1>13. CASE CreatePermanentFails
  BY <1>13
  DEF CreatePermanentFails, CreateClaimed, Raise, MayRun
<1>14. CASE CreatePermanent
  BY <1>14
  DEF CreatePermanent, CreateClaimed, Claim, Raise, MayRun
<1>15. CASE AlterRefused
  BY <1>15
  DEF AlterRefused, MayRun, Raise, Claim
<1>16. CASE AlterTable
  <2>1. /\ MayRun /\ UNCHANGED <<xactVars, forceAllow>> /\ cidUsed' = 0
        /\ evidenceLost' = "no" => evidenceLost = "no"
    BY <1>16 DEF AlterTable, Claim, LoseEvidence
  <2> QED
    BY <2>1 DEF MayRun
<1>17. CASE \E t \in Tables : CreateTemp(t)
  BY <1>17
  DEF CreateTemp, CreateClaimed, Claim, Raise, MayRun
<1>18. CASE \E t \in Tables, alsoPg \in BOOLEAN : DropOwned(t, alsoPg)
  <2> PICK t \in Tables, alsoPg \in BOOLEAN : DropOwned(t, alsoPg)
    BY <1>18
  <2>1. DropTrigger(t, StartCid + 1, nextExpected, FALSE, alsoPg)
    BY DEF DropOwned
  <2>2. /\ failing' = "no" => cidUsed' = 0
        /\ forceAllow' => failing' # "no"
        /\ evidenceLost' = "no" => evidenceLost = "no"
    BY <2>1, DropTriggerSafe
  <2>3. MayRun /\ UNCHANGED xactVars
    BY DEF DropOwned
  <2> QED
    BY <2>2, <2>3 DEF MayRun
<1>19. CASE \E t \in Tables, alsoPg \in BOOLEAN : DropTable(t, alsoPg)
  <2> PICK t \in Tables, alsoPg \in BOOLEAN : DropTable(t, alsoPg)
    BY <1>19
  <2>1. /\ \/ DropTrigger(t, StartCid + 2, StartCid + 1, TRUE, alsoPg)
           \/ failing' = "mixed" /\ UNCHANGED <<forceAllow, evidenceLost>>
        /\ MayRun /\ UNCHANGED xactVars
    BY DEF DropTable, Raise
  <2>2. CASE DropTrigger(t, StartCid + 2, StartCid + 1, TRUE, alsoPg)
    <3>1. /\ failing' = "no" => cidUsed' = 0
          /\ forceAllow' => failing' # "no"
          /\ evidenceLost' = "no" => evidenceLost = "no"
      BY <2>2, DropTriggerSafe
    <3> QED
      BY <2>1, <3>1 DEF MayRun
  <2>3. CASE ~DropTrigger(t, StartCid + 2, StartCid + 1, TRUE, alsoPg)
    BY <2>1, <2>3 DEF MayRun
  <2> QED
    BY <2>2, <2>3
<1> QED
  BY <1>1, <1>2, <1>3, <1>4, <1>5, <1>6, <1>7, <1>8, <1>9, <1>10, <1>11,
     <1>12, <1>13, <1>14, <1>15, <1>16, <1>17, <1>18, <1>19, <1>lc
  DEF Statement, DuckdbStatements, DuckdbDdl

\* In a block every DuckDB write goes to the open DuckDB transaction.
LEMMA BlockWritesNotDurable ==
  ASSUME Statement, blockState = "inblock"
  PROVE  ddbDurable' => ddbDurable
<1>t. \A force, top : ConnectOpensTx(force, top)
  BY DEF ConnectOpensTx, IsInTransactionBlock
<1> USE DEF ddbVars
<1>1. CASE PgCreateTable
  BY <1>1, Zenon
  DEF PgCreateTable
<1>2. CASE PgRefresh
  BY <1>2, Zenon
  DEF PgRefresh
<1>3. CASE PgDropTable
  BY <1>3, Zenon
  DEF PgDropTable
<1>lc. CASE LoadCaches
  BY <1>lc, Zenon
  DEF LoadCaches
<1>4. CASE StatementError
  BY <1>4, Zenon
  DEF StatementError
<1>5. CASE \E planned \in BOOLEAN, top \in TopAfterRefresh : DdbSelect(planned, top)
  BY <1>5, <1>t, Zenon DEF DdbSelect, DdbWrite, Connect, ddbVars
<1>6. CASE \E planned \in BOOLEAN, top \in TopAfterRefresh : DdbDml(planned, top)
  BY <1>6, <1>t, Zenon DEF DdbDml, DdbWrite, Connect, ddbVars
<1>7. CASE RawQuery
  BY <1>7, <1>t, Zenon DEF RawQuery, DdbWrite, ddbVars
<1>8. CASE \E top \in TopAfterRefresh : CopyFrom(top)
  BY <1>8, <1>t, Zenon DEF CopyFrom, DdbWrite, ddbVars
<1>9. CASE Truncate
  BY <1>9, <1>t, Zenon DEF Truncate, DdbWrite, ddbVars
<1>10. CASE RecycleDdb
  BY <1>10, Zenon
  DEF RecycleDdb
<1>11. CASE CreateRefused
  BY <1>11, Zenon
  DEF CreateRefused
<1>12. CASE CreateFailsInPostgres
  BY <1>12, Zenon
  DEF CreateFailsInPostgres
<1>13. CASE CreatePermanentFails
  BY <1>13, Zenon
  DEF CreatePermanentFails
<1>14. CASE CreatePermanent
  BY <1>14, Zenon
  DEF CreatePermanent, DdbWrite
<1>15. CASE AlterRefused
  BY <1>15, Zenon
  DEF AlterRefused
<1>16. CASE AlterTable
  BY <1>16, Zenon
  DEF AlterTable, DdbWrite
<1>17. CASE \E t \in Tables : CreateTemp(t)
  BY <1>17, Zenon
  DEF CreateTemp, Connect, DdbWrite
<1>18. CASE \E t \in Tables, alsoPg \in BOOLEAN : DropOwned(t, alsoPg)
  BY <1>18, Zenon
  DEF DropOwned, DropTrigger, DdbWrite
<1>19. CASE \E t \in Tables, alsoPg \in BOOLEAN : DropTable(t, alsoPg)
  BY <1>19, Zenon
  DEF DropTable, DropTrigger, DdbWrite
<1> QED
  BY <1>1, <1>2, <1>3, <1>4, <1>5, <1>6, <1>7, <1>8, <1>9, <1>10, <1>11,
     <1>12, <1>13, <1>14, <1>15, <1>16, <1>17, <1>18, <1>19, <1>lc
  DEF Statement, DuckdbStatements, DuckdbDdl

-----------------------------------------------------------------------------
(* The invariant.                                                           *)

\* A statement in a block keeps the evidence.
LEMMA StatementEvidence ==
  ASSUME CounterInv, EvidenceInv, Statement
  PROVE  EvidenceInv'
<1>1. StatementSafe
  BY StatementIsSafe
<1>2. /\ blockState \in {"started", "implicit", "inblock"}
      /\ UNCHANGED <<blockState, explicit, subDepth, openExec>>
      /\ failing = "no"
  BY <1>1 DEF StatementSafe, Running
<1>3. openExec' = 0 /\ failing' = "no" => cidUsed' = 0
  BY <1>1, <1>2 DEF StatementSafe, EvidenceInv
<1>4. blockState = "inblock" => explicit' /\ ~ddbDurable'
  BY <1>2, BlockWritesNotDurable DEF EvidenceInv
<1>5. blockState' \in {"idle", "aborted", "started", "implicit"} => ~explicit'
  BY <1>2 DEF EvidenceInv
<1>6. ASSUME blockState' = "inblock", evidenceLost' = "no", ~UnsafeMixed
      PROVE  Evidence' /\ (forceAllow' => failing' # "no")
  <2>1. blockState = "inblock" /\ evidenceLost = "no"
    BY <1>1, <1>2, <1>6 DEF StatementSafe
  <2>2. Evidence /\ ~forceAllow
    BY <1>2, <1>6, <2>1 DEF EvidenceInv
  <2>3. CidStep
    BY <1>6, <2>1, <2>2, StatementCids
  <2>4. StartCid \in Nat /\ nextExpected \in Nat
    BY StartCidNat DEF CounterInv, CounterTypes
  <2>5. cid' + cidUsed' \in Nat /\ nextExpected' \in Nat
    <3>1. CounterInv'
      BY <2>4, StatementHasShape, StatementCounters
    <3>2. cid' \in Nat /\ (cidUsed' = 0 \/ cidUsed' = 1) /\ nextExpected' \in Nat
      BY <3>1 DEF CounterInv, CounterTypes
    <3> QED
      BY <3>2
  <2>6. Evidence'
    <3>1. \/ /\ UNCHANGED nextExpected
             /\ \/ UNCHANGED pgWrote /\ cid' + cidUsed' >= StartCid
                \/ cid' + cidUsed' > StartCid
          \/ /\ StartCid = nextExpected /\ UNCHANGED pgWrote
             /\ cid' + cidUsed' >= nextExpected'
      BY <1>6, <2>3 DEF CidStep
    <3>2. StartCid >= nextExpected /\ (pgWrote # {} => StartCid > nextExpected)
      BY <2>2 DEF Evidence
    <3>3. /\ cid' + cidUsed' >= nextExpected'
          /\ pgWrote' # {} => cid' + cidUsed' > nextExpected'
      BY <2>4, <2>5, <3>1, <3>2
    <3> QED
      BY <3>3 DEF Evidence, StartCid
  <2> QED
    BY <1>1, <2>2, <2>6 DEF StatementSafe
<1> QED
  BY <1>2, <1>3, <1>4, <1>5, <1>6 DEF EvidenceInv

\* A step between statements of a running transaction that claims nothing and
\* never moves a command id backwards keeps the evidence.
LEMMA NoClaimEvidence ==
  ASSUME CounterInv, EvidenceInv, Running,
         UNCHANGED <<blockState, explicit, ddbDurable, evidenceLost>>,
         UNCHANGED <<nextExpected, forceAllow>>,
         StartCid' \in Nat, StartCid' >= StartCid,
         pgWrote' # {} => pgWrote # {} \/ StartCid' > StartCid,
         openExec' = 0 /\ failing' = "no" => cidUsed' = 0
  PROVE  EvidenceInv'
<1>1. StartCid \in Nat /\ nextExpected \in Nat
  BY StartCidNat DEF CounterInv, CounterTypes
<1>2. Evidence => Evidence'
  <2> SUFFICES ASSUME StartCid >= nextExpected,
                      pgWrote # {} => StartCid > nextExpected
               PROVE  /\ StartCid' >= nextExpected'
                      /\ pgWrote' # {} => StartCid' > nextExpected'
    BY DEF Evidence
  <2> QED
    BY <1>1
<1>3. blockState \in {"started", "implicit", "inblock"} /\ failing = "no"
  BY DEF Running
<1> HIDE DEF Running
<1>4. /\ blockState' = "inblock" => explicit' /\ ~ddbDurable'
      /\ blockState' \in {"idle", "aborted", "started", "implicit"} => ~explicit'
      /\ blockState' \notin {"idle", "aborted", "committing"}
  BY <1>3 DEF EvidenceInv
<1>5. ASSUME blockState' = "inblock", evidenceLost' = "no", ~UnsafeMixed
      PROVE  Evidence' /\ (forceAllow' => failing' # "no")
  BY <1>2, <1>3, <1>5 DEF EvidenceInv
<1> QED
  BY <1>4, <1>5 DEF EvidenceInv

\* Every step keeps the invariant.
LEMMA EvidenceStep ==
  ASSUME CounterInv, TxInv, EvidenceInv, [Next]_vars
  PROVE  EvidenceInv'
<1>a. /\ StartCid \in Nat /\ nextExpected \in Nat /\ cid \in Nat
      /\ openExec \in Nat /\ inDo \in Nat /\ StartCid = cid + cidUsed
  BY StartCidNat DEF CounterInv, CounterTypes, StartCid
<1>s. CASE Statement
  BY <1>s, StatementEvidence
<1>u. CASE UNCHANGED vars
  BY <1>u DEF EvidenceInv, Evidence, StartCid, vars, xactVars, cidVars,
      globVars, ddbVars, histVars
<1>1. CASE Begin
  <2>1. /\ blockState = "idle" /\ blockState' = "inblock" /\ explicit'
        /\ UNCHANGED <<cid, cidUsed, nextExpected, pgWrote, ddbDurable,
                       forceAllow, openExec, failing>>
        /\ evidenceLost' = "no" => nextExpected = 0 /\ ~forceAllow
    BY <1>1 DEF Begin, Open, cidVars, globVars, ddbVars, FirstCommandId
  <2>2. cid = 0 /\ cidUsed = 0 /\ pgWrote = {} /\ ~ddbDurable
    BY <2>1 DEF EvidenceInv, FirstCommandId
  <2>3. StartCid' = 0
    BY <2>1, <2>2 DEF StartCid
  <2>4. evidenceLost' = "no" => Evidence' /\ ~forceAllow'
    BY <2>1, <2>2, <2>3 DEF Evidence
  <2> QED
    BY <2>1, <2>2, <2>4 DEF EvidenceInv
<1>2. CASE BeginImplicit
  BY <1>2, <1>a
  DEF EvidenceInv, Evidence, BeginImplicit, Open, FirstCommandId, cidVars,
      globVars, ddbVars, tempVars, pgTempVars
<1>3. CASE BeginSingle
  BY <1>3, <1>a
  DEF EvidenceInv, Evidence, BeginSingle, Open, FirstCommandId, cidVars,
      globVars, ddbVars, tempVars, pgTempVars
<1>4. CASE \E write, planned \in BOOLEAN : PgQueryOpen(write, planned)
  <2> PICK write, planned \in BOOLEAN : PgQueryOpen(write, planned)
    BY <1>4
  <2>1. /\ Running
        /\ UNCHANGED <<blockState, explicit, ddbDurable, evidenceLost,
                       nextExpected, forceAllow>>
    BY DEF PgQueryOpen, MayRun, ddbVars, histVars
  <2>2. \/ UNCHANGED <<cid, cidUsed, pgWrote>> /\ failing' = "mixed"
        \/ /\ cid' = StartCid /\ openExec' = openExec + 1
           /\ \/ cidUsed' = 0 /\ UNCHANGED pgWrote
              \/ cidUsed' = 1 /\ pgWrote' = pgWrote \cup {subDepth}
    BY DEF PgQueryOpen, Raise, ExecutorEnter
  <2>3. \/ StartCid' = StartCid /\ UNCHANGED pgWrote
        \/ StartCid' = StartCid + 1
    BY <1>a, <2>2 DEF StartCid
  <2>4. openExec' = 0 /\ failing' = "no" => cidUsed' = 0
    BY <1>a, <2>2
  <2>5. /\ StartCid' \in Nat /\ StartCid' >= StartCid
        /\ pgWrote' # {} => pgWrote # {} \/ StartCid' > StartCid
    BY <1>a, <2>3
  <2> QED
    BY <2>1, <2>4, <2>5, NoClaimEvidence
<1>5. CASE PgQueryClose
  <2>1. /\ Running
        /\ UNCHANGED <<blockState, explicit, ddbDurable, evidenceLost,
                       nextExpected, forceAllow, pgWrote>>
        /\ cid' = StartCid /\ cidUsed' = 0
    BY <1>5 DEF PgQueryClose, ddbVars, histVars
  <2>2. StartCid' = StartCid
    BY <1>a, <2>1 DEF StartCid
  <2> QED
    BY <1>a, <2>1, <2>2, NoClaimEvidence
<1>6. CASE DoOpen
  <2>1. /\ Running
        /\ UNCHANGED <<blockState, explicit, ddbDurable, evidenceLost,
                       nextExpected, forceAllow>>
        /\ UNCHANGED <<cid, cidUsed, openExec>> /\ UNCHANGED pgWrote
    BY <1>6 DEF DoOpen, MayRun, cidVars, ddbVars, histVars
  <2>2. UNCHANGED StartCid
    BY <2>1 DEF StartCid
  <2>3. openExec' = 0 /\ failing' = "no" => cidUsed' = 0
    BY <2>1 DEF Running, EvidenceInv
  <2> QED
    BY <1>a, <2>1, <2>2, <2>3, NoClaimEvidence
<1>7. CASE DoClose
  <2>1. /\ Running
        /\ UNCHANGED <<blockState, explicit, ddbDurable, evidenceLost,
                       nextExpected, forceAllow>>
        /\ UNCHANGED <<cid, cidUsed, openExec>> /\ UNCHANGED pgWrote
    BY <1>7 DEF DoClose, cidVars, ddbVars, histVars
  <2>2. UNCHANGED StartCid
    BY <2>1 DEF StartCid
  <2>3. openExec' = 0 /\ failing' = "no" => cidUsed' = 0
    BY <2>1 DEF Running, EvidenceInv
  <2> QED
    BY <1>a, <2>1, <2>2, <2>3, NoClaimEvidence
<1>8. CASE StartSub
  <2>1. /\ Running
        /\ UNCHANGED <<blockState, explicit, ddbDurable, evidenceLost,
                       nextExpected, forceAllow>>
        /\ UNCHANGED <<cid, cidUsed, openExec>> /\ UNCHANGED pgWrote
    BY <1>8 DEF StartSub, MayRun, cidVars, ddbVars, histVars, globVars
  <2>2. UNCHANGED StartCid
    BY <2>1 DEF StartCid
  <2>3. openExec' = 0 /\ failing' = "no" => cidUsed' = 0
    BY <2>1 DEF Running, EvidenceInv
  <2> QED
    BY <1>a, <2>1, <2>2, <2>3, NoClaimEvidence
<1>9. CASE ReleaseSub
  <2>1. /\ Running
        /\ UNCHANGED <<blockState, explicit, ddbDurable, evidenceLost,
                       nextExpected, forceAllow>>
        /\ UNCHANGED <<cid, cidUsed, openExec>> /\ (pgWrote' # {} => pgWrote # {})
    BY <1>9 DEF ReleaseSub, Released, cidVars, ddbVars, histVars, globVars
  <2>2. UNCHANGED StartCid
    BY <2>1 DEF StartCid
  <2>3. openExec' = 0 /\ failing' = "no" => cidUsed' = 0
    BY <2>1 DEF Running, EvidenceInv
  <2> QED
    BY <1>a, <2>1, <2>2, <2>3, NoClaimEvidence
<1>10. CASE AbortSub
  <2>1. /\ failing # "no" /\ failing' = "no" /\ subDepth > 0
        /\ subDepth' = subDepth - 1
        /\ UNCHANGED <<blockState, explicit, ddbDurable, nextExpected, forceAllow>>
        /\ cid' = StartCid /\ cidUsed' = 0 /\ pgWrote' = pgWrote \ {subDepth}
        /\ evidenceLost' = "no" => evidenceLost = "no" /\ ~forceAllow
    BY <1>10 DEF AbortSub, ddbVars, LoseEvidence
  <2>2. blockState \notin {"idle", "aborted", "committing"}
    BY <2>1 DEF EvidenceInv
  <2>3. StartCid' = StartCid
    BY <1>a, <2>1 DEF StartCid
  <2>4. Evidence => Evidence'
    BY <2>1, <2>3 DEF Evidence
  <2>5. ASSUME blockState' = "inblock", evidenceLost' = "no", ~UnsafeMixed
        PROVE  Evidence' /\ ~forceAllow'
    BY <2>1, <2>4, <2>5 DEF EvidenceInv
  <2>6. /\ blockState' = "inblock" => explicit' /\ ~ddbDurable'
        /\ blockState' \in {"idle", "aborted", "started", "implicit"} => ~explicit'
    BY <2>1 DEF EvidenceInv
  <2> QED
    BY <2>1, <2>2, <2>5, <2>6 DEF EvidenceInv
<1>11. CASE AbortXact
  BY <1>11, <1>a
  DEF EvidenceInv, Evidence, AbortXact, AbortEvent, EndXact, FirstCommandId,
      tempVars
<1>12. CASE Rollback
  BY <1>12, <1>a
  DEF EvidenceInv, Evidence, Rollback, Running, AtTop, AbortEvent, EndXact,
      FirstCommandId, tempVars
<1>13. CASE LeaveAborted
  BY <1>13, <1>a
  DEF EvidenceInv, Evidence, LeaveAborted, cidVars, globVars, ddbVars,
      tempVars, pgTempVars, histVars
<1>14. CASE PreCommit
  <2>1. /\ Running /\ AtTop /\ subDepth = 0 /\ blockState' = "committing"
        /\ UNCHANGED <<subDepth, explicit, openExec, cid, cidUsed, pgWrote,
                       evidenceLost>>
    BY <1>14 DEF PreCommit
  <2>2. openExec = 0 /\ cidUsed = 0
    <3>1. openExec = 0
      BY <1>a, <2>1 DEF AtTop, Level
    <3> QED
      BY <2>1, <3>1 DEF Running, EvidenceInv
  <2>3. ASSUME explicit', evidenceLost' = "no", ~UnsafeMixed, failing' = "no"
        PROVE  pgWrote' = {} \/ ~ddbDurable'
    <3>1. blockState = "inblock" /\ ~ddbDurable /\ evidenceLost = "no"
      BY <2>1, <2>3 DEF Running, EvidenceInv
    <3>2. Evidence /\ ~forceAllow
      BY <2>1, <2>3, <3>1 DEF Running, EvidenceInv
    <3>3. CASE ~DdbDidWrites \/ ~ddbInit
      BY <1>14, <2>3, <3>1, <3>3 DEF PreCommit, ddbVars
    <3>4. CASE DdbDidWrites /\ ddbInit
      <4>1. ~CommitRefused
        BY <1>14, <2>3, <3>4 DEF PreCommit, Raise
      <4>2. ~(cid > nextExpected)
        BY <2>3, <3>1, <3>2, <3>4, <4>1 DEF CommitRefused, PgDidWrites
      <4>3. StartCid = cid
        BY <1>a, <2>2
      <4> QED
        BY <2>1, <3>2, <4>2, <4>3 DEF Evidence
    <3> QED
      BY <3>3, <3>4
  <2> QED
    BY <2>1, <2>2, <2>3 DEF EvidenceInv
<1>15. CASE CommitFailsLate
  BY <1>15, <1>a
  DEF EvidenceInv, Evidence, CommitFailsLate, Raise, xactVars, cidVars,
      globVars, ddbVars, tempVars, pgTempVars
<1>16. CASE CommitDone
  BY <1>16, <1>a
  DEF EvidenceInv, Evidence, CommitDone, EndXact, tempVars, FirstCommandId
<1>17. CASE Prepare
  BY <1>17, <1>a
  DEF EvidenceInv, Evidence, Prepare, Running, AtTop, Raise, EndXact,
      tempVars, pgTempVars, FirstCommandId
<1> QED
  BY <1>s, <1>u, <1>1, <1>2, <1>3, <1>4, <1>5, <1>6, <1>7, <1>8, <1>9,
     <1>10, <1>11, <1>12, <1>13, <1>14, <1>15, <1>16, <1>17
  DEF Next, Starts, PgStatements, Subtransactions, Ends, Statement

LEMMA EvidenceAlways == Spec => [](CounterInv /\ TxInv /\ EvidenceInv)
<1>1. Init => CounterInv /\ TxInv /\ EvidenceInv
  <2>1. Init => TxInv
    BY DEF Init, TxInv
  <2>2. Init => EvidenceInv
    BY DEF Init, EvidenceInv
  <2> QED
    BY <2>1, <2>2, InitTypes
<1>2. CounterInv /\ TxInv /\ EvidenceInv /\ [Next]_vars
        => (CounterInv /\ TxInv /\ EvidenceInv)'
  BY CountersStep, TxInvStep, EvidenceStep
<1> QED
  BY <1>1, <1>2, PTL DEF Spec

\* A BEGIN ... COMMIT block never makes user writes to both Postgres and
\* DuckDB durable while the command id evidence is intact: the claims of the
\* DDL hooks and of the executor hooks and the check in the commit callback
\* together forbid mixed writes, for any number of statements, functions and
\* savepoints.
THEOREM NoMixedBlocks == Spec => []NoMixedBlockCommit
<1>1. Init => NoMixedBlockCommit
  BY DEF Init, NoMixedBlockCommit, MixedCommit, NoOutcome
<1>2. ASSUME EvidenceInv, NoMixedBlockCommit, [Next]_vars
      PROVE  NoMixedBlockCommit'
  <2>1. CASE UNCHANGED last
    BY <1>2, <2>1 DEF NoMixedBlockCommit, MixedCommit
  <2>2. CASE Starts
    <3>1. last' = NoOutcome
      BY <2>2 DEF Starts, Begin, BeginImplicit, BeginSingle, Open
    <3> QED
      BY <3>1 DEF NoMixedBlockCommit, MixedCommit, NoOutcome
  <2>3. CASE AbortXact \/ Rollback \/ Prepare
    <3>1. UNCHANGED last \/ last'.pg \in {"abort", "prepare"}
      BY <2>3 DEF AbortXact, Rollback, Prepare, EndXact
    <3> QED
      BY <1>2, <3>1 DEF NoMixedBlockCommit, MixedCommit
  <2>4. CASE CommitDone
    <3>1. /\ blockState = "committing" /\ failing = "no"
          /\ last'.explicit = explicit /\ last'.pgWrote = (pgWrote # {})
          /\ last'.ddbDurable = ddbDurable /\ last'.lost = evidenceLost
      BY <2>4 DEF CommitDone, EndXact
    <3>2. explicit /\ evidenceLost = "no" /\ ~UnsafeMixed
            => pgWrote = {} \/ ~ddbDurable
      BY <1>2, <3>1 DEF EvidenceInv
    <3> QED
      BY <3>1, <3>2 DEF NoMixedBlockCommit, MixedCommit
  <2> QED
    BY <1>2, <2>1, <2>2, <2>3, <2>4, OutcomeRecorded
<1>3. EvidenceInv /\ NoMixedBlockCommit /\ [Next]_vars => NoMixedBlockCommit'
  BY <1>2
<1> QED
  BY <1>1, <1>3, EvidenceAlways, PTL DEF Spec

\* A BEGIN block that aborts before its commit point leaves nothing in DuckDB:
\* every DuckDB write of a block goes to the DuckDB transaction, which the
\* abort callback rolls back.
THEOREM BlockAborts == Spec => []BlockAbortLeavesNoTrace
<1>1. Init => BlockAbortLeavesNoTrace
  BY DEF Init, BlockAbortLeavesNoTrace, NoOutcome
<1>2. ASSUME EvidenceInv, TxInv, ValueTypes, BlockAbortLeavesNoTrace, [Next]_vars
      PROVE  BlockAbortLeavesNoTrace'
  <2>1. CASE UNCHANGED last
    BY <1>2, <2>1 DEF BlockAbortLeavesNoTrace
  <2>2. CASE Starts
    <3>1. last' = NoOutcome
      BY <2>2 DEF Starts, Begin, BeginImplicit, BeginSingle, Open
    <3> QED
      BY <3>1 DEF BlockAbortLeavesNoTrace, NoOutcome
  <2>3. CASE CommitDone \/ Prepare
    <3>1. UNCHANGED last \/ last'.pg \in {"commit", "prepare"}
      BY <2>3 DEF CommitDone, Prepare, EndXact
    <3> QED
      BY <1>2, <3>1 DEF BlockAbortLeavesNoTrace
  <2>4. CASE AbortXact
    <3>1. /\ failing # "no" /\ last'.explicit = explicit
          /\ last'.ddbDurable = ddbDurable
          /\ last'.late = (blockState = "committing")
      BY <2>4 DEF AbortXact, EndXact
    <3>2. blockState \notin {"idle", "aborted"}
      BY <1>2, <3>1 DEF TxInv
    <3>3. explicit => blockState \notin {"started", "implicit"}
      BY <1>2 DEF EvidenceInv
    <3>4. blockState = "inblock" => ~ddbDurable
      BY <1>2 DEF EvidenceInv
    <3>5. blockState \in {"idle", "started", "implicit", "inblock", "aborted",
                          "committing"}
      BY <1>2 DEF ValueTypes
    <3> QED
      BY <3>1, <3>2, <3>3, <3>4, <3>5 DEF BlockAbortLeavesNoTrace
  <2>5. CASE Rollback
    <3>1. blockState = "inblock" /\ last'.ddbDurable = ddbDurable
      BY <2>5 DEF Rollback, EndXact
    <3> QED
      BY <1>2, <3>1 DEF EvidenceInv, BlockAbortLeavesNoTrace
  <2> QED
    BY <1>2, <2>1, <2>2, <2>3, <2>4, <2>5, OutcomeRecorded
<1>3. EvidenceInv /\ TxInv /\ ValueTypes /\ BlockAbortLeavesNoTrace /\ [Next]_vars
        => BlockAbortLeavesNoTrace'
  BY <1>2
<1>4. Spec => []ValueTypes
  BY TypeCorrect, PTL DEF TypeOK
<1> QED
  BY <1>1, <1>3, <1>4, EvidenceAlways, PTL DEF Spec

\* The command ids stay evidence of Postgres writes, statement by statement,
\* in a block that has lost none: the inductive form of NoMixedBlockCommit
\* that TLC checks too.
THEOREM EvidenceIntact == Spec => []EvidenceInv
  BY EvidenceAlways, PTL

-----------------------------------------------------------------------------
(* The end of a transaction.                                                *)

\* GlobalsEndWithTransaction, from PRE_COMMIT on.
GlobalsInv ==
    /\ GlobalsEndWithTransaction
    /\ blockState = "committing" /\ failing = "no" /\ ddbInit =>
          nextExpected = FirstCommandId /\ ~forceAllow /\ ~tempModified

\* Before the first statement nothing is under way.
FreshInv == stmts = 0 => Level = 0 /\ ~ddbTx

\* The temporary tables that exist for Postgres are tracked, the ones that an
\* abort brings back are in the copy the abort callback restores, and without
\* a DuckDB transaction neither has been taken away nor added anything.
TempInv ==
    ~commitFailed =>
        /\ pgTemp \subseteq tempTables
        /\ \/ blockState = "committing" /\ failing = "no" /\ ddbInit
           \/ pgTempSaved \subseteq (IF tempModified THEN tempOld ELSE tempTables)
        /\ ~ddbTx /\ tempModified => tempOld \subseteq tempTables
        /\ ~ddbTx /\ (blockState # "committing" \/ ~ddbInit) =>
              pgTemp \subseteq pgTempSaved

\* The steps inside a transaction that is neither starting nor ending.
Inside ==
    \/ Statement \/ PgQueryClose \/ DoOpen \/ DoClose \/ StartSub \/ ReleaseSub
    \/ AbortSub
    \/ \E write, planned \in BOOLEAN : PgQueryOpen(write, planned)

LEMMA StepKinds ==
  ASSUME [Next]_vars
  PROVE  \/ UNCHANGED vars \/ Inside \/ Starts
         \/ AbortXact \/ Rollback \/ LeaveAborted
         \/ PreCommit \/ CommitFailsLate \/ CommitDone \/ Prepare
  BY DEF Next, PgStatements, Subtransactions, Ends, Statement, Inside

\* Such steps are taken in a transaction that runs, and it goes on.
LEMMA InsideRuns ==
  ASSUME EvidenceInv, Inside
  PROVE  /\ UNCHANGED blockState
         /\ blockState \notin {"idle", "aborted", "committing"}
<1>1. CASE Statement
  BY <1>1, StatementIsSafe DEF StatementSafe, Running
<1>2. CASE PgQueryClose
  BY <1>2 DEF PgQueryClose, Running
<1>3. CASE DoOpen
  BY <1>3 DEF DoOpen, MayRun, Running
<1>4. CASE DoClose
  BY <1>4 DEF DoClose, Running
<1>5. CASE StartSub
  BY <1>5 DEF StartSub, MayRun, Running
<1>6. CASE ReleaseSub
  BY <1>6 DEF ReleaseSub, Running
<1>7. CASE AbortSub
  BY <1>7 DEF AbortSub, EvidenceInv
<1>8. CASE \E write, planned \in BOOLEAN : PgQueryOpen(write, planned)
  BY <1>8 DEF PgQueryOpen, MayRun, Running
<1> QED
  BY <1>1, <1>2, <1>3, <1>4, <1>5, <1>6, <1>7, <1>8 DEF Inside

\* A transaction starts from idle.
LEMMA StartsFacts ==
  ASSUME Starts
  PROVE  /\ blockState = "idle" /\ blockState' \in {"inblock", "implicit", "started"}
         /\ UNCHANGED <<subDepth, levelAt, openExec, inDo, stmts, failing, ddbVars,
                        tempVars, pgTempVars, commitFailed>>
  BY DEF Starts, Begin, BeginImplicit, BeginSingle, Open

\* What an abort leaves of the globals.
LEMMA AbortFacts ==
  ASSUME AbortXact \/ Rollback
  PROVE  /\ blockState' \in {"idle", "aborted"}
         /\ topLevel' /\ nest' = 0 /\ ddlType' = "none"
         /\ stmts' = 0 /\ openExec' = 0 /\ inDo' = 0
         /\ pgTemp' = pgTempSaved
         /\ UNCHANGED <<ddbInit, pgTempSaved, commitFailed>>
         /\ ddbInit => /\ nextExpected' = FirstCommandId /\ ~forceAllow' /\ ~tempModified'
                       /\ tempTables' = (IF tempModified THEN tempOld ELSE tempTables)
                       /\ ~ddbTx'
         /\ ~ddbInit => UNCHANGED <<tempVars, ddbTx>>
<1>1. AbortEvent /\ XactReset /\ UNCHANGED <<ddbInit, pgTempSaved, commitFailed>>
  BY DEF AbortXact, Rollback
<1>2. /\ blockState' \in {"idle", "aborted"} /\ pgTemp' = pgTempSaved
      /\ stmts' = 0 /\ openExec' = 0 /\ inDo' = 0
  BY DEF AbortXact, Rollback, EndXact
<1> QED
  BY <1>1, <1>2 DEF AbortEvent, XactReset

LEMMA GlobalsStep ==
  ASSUME EvidenceInv, GlobalsInv, [Next]_vars
  PROVE  GlobalsInv'
<1> USE DEF GlobalsInv, GlobalsEndWithTransaction
<1>1. CASE UNCHANGED vars
  BY <1>1 DEF vars, xactVars, cidVars, globVars, ddbVars, tempVars, histVars
<1>2. CASE Inside
  BY <1>2, InsideRuns
<1>3. CASE Starts
  BY <1>3, StartsFacts
<1>4. CASE AbortXact \/ Rollback
  BY <1>4, AbortFacts
<1>5. CASE LeaveAborted
  BY <1>5 DEF LeaveAborted, cidVars, globVars, ddbVars, tempVars, histVars
<1>6. CASE PreCommit
  BY <1>6 DEF PreCommit, Raise, ddbVars
<1>7. CASE CommitFailsLate
  BY <1>7 DEF CommitFailsLate, Raise, xactVars
<1>8. CASE CommitDone
  <2>1. /\ blockState = "committing" /\ failing = "no" /\ blockState' = "idle"
        /\ topLevel' /\ nest' = 0 /\ ddlType' = "none"
        /\ UNCHANGED <<nextExpected, forceAllow, ddbInit, tempModified>>
    BY <1>8 DEF CommitDone, EndXact, XactReset, tempVars
  <2> QED
    BY <2>1
<1>9. CASE Prepare
  <2>1. /\ topLevel' /\ nest' = 0 /\ ddlType' = "none"
        /\ \/ blockState' = "committing" /\ failing' = "error"
           \/ blockState' = "idle" /\ last'.pg = "prepare"
    BY <1>9 DEF Prepare, EndXact, XactReset, Raise
  <2> QED
    BY <2>1
<1> QED
  BY <1>1, <1>2, <1>3, <1>4, <1>5, <1>6, <1>7, <1>8, <1>9, StepKinds

\* No transaction leaves its DDL type, nest level or top level flag in the
\* globals of the process, and none leaves claims, forced writes or the undo
\* copy, unless DuckdbXactCallback returned early.
THEOREM GlobalsReset == Spec => []GlobalsEndWithTransaction
<1>1. Init => GlobalsInv
  BY DEF Init, GlobalsInv, GlobalsEndWithTransaction
<1>2. EvidenceInv /\ GlobalsInv /\ [Next]_vars => GlobalsInv'
  BY GlobalsStep
<1>3. GlobalsInv => GlobalsEndWithTransaction
  BY DEF GlobalsInv
<1> QED
  BY <1>1, <1>2, <1>3, EvidenceAlways, PTL DEF Spec

-----------------------------------------------------------------------------
(* Temporary tables.                                                        *)

\* Every statement but a call of raw_query, and a load of the caches, is counted.
LEMMA StatementCounted ==
  ASSUME Statement
  PROVE  CountStmt \/ RawQuery \/ LoadCaches
<1>1. CASE PgCreateTable \/ PgRefresh \/ PgDropTable \/ StatementError
  BY <1>1 DEF PgCreateTable, PgRefresh, PgDropTable, StatementError
<1>2. CASE DuckdbStatements
  BY <1>2 DEF DuckdbStatements, DdbSelect, DdbDml, CopyFrom, Truncate, RecycleDdb
<1>3. CASE DuckdbDdl
  BY <1>3 DEF DuckdbDdl, CreateRefused, CreateFailsInPostgres, CreatePermanentFails,
     CreatePermanent, CreateClaimed, AlterRefused, AlterTable, CreateTemp, DropOwned,
     DropTable
<1> QED
  BY <1>1, <1>2, <1>3 DEF Statement

\* A counted statement leaves the count above zero.
LEMMA CountedFacts ==
  ASSUME CounterInv, FreshInv, CountStmt
  PROVE  stmts' # 0
  BY DEF CounterInv, CounterTypes, FreshInv, CountStmt, AtTop

LEMMA FreshStep ==
  ASSUME CounterInv, TxInv, FreshInv, [Next]_vars
  PROVE  FreshInv'
<1>0. openExec \in Nat /\ inDo \in Nat /\ stmts \in Nat
  BY DEF CounterInv, CounterTypes
<1>1. CASE UNCHANGED vars
  BY <1>1 DEF vars, xactVars, ddbVars, FreshInv, Level
<1>2. CASE Inside
  <2>1. ASSUME (Statement /\ ~LoadCaches) \/ DoOpen \/ StartSub
               \/ \E write, planned \in BOOLEAN : PgQueryOpen(write, planned)
        PROVE  stmts' # 0
    <3>1. CountStmt \/ RawQuery
      BY <2>1, StatementCounted DEF DoOpen, StartSub, PgQueryOpen
    <3>2. CASE RawQuery
      BY <1>0, <3>2 DEF RawQuery, FreshInv, Level
    <3> QED
      BY <3>1, <3>2, CountedFacts
  <2>2. ASSUME PgQueryClose \/ DoClose
        PROVE  stmts' # 0
    BY <1>0, <2>2 DEF PgQueryClose, DoClose, FreshInv, Level
  <2>lc. ASSUME LoadCaches PROVE FreshInv'
    BY <2>lc DEF LoadCaches, FreshInv, Level, xactVars, ddbVars
  <2>3. ASSUME ReleaseSub PROVE FreshInv'
    BY <2>3 DEF ReleaseSub, FreshInv, Level, ddbVars
  <2>4. ASSUME AbortSub PROVE FreshInv'
    <3>1. /\ subDepth > 0 /\ UNCHANGED <<stmts, ddbTx>>
          /\ inDo' = IF levelAt[subDepth] > 0 THEN inDo ELSE 0
          /\ openExec' = levelAt[subDepth] - inDo'
      BY <2>4 DEF AbortSub, ddbVars
    <3>2. levelAt[subDepth] \in Nat /\ levelAt[subDepth] <= openExec + inDo
      BY <3>1 DEF CounterInv, CounterTypes, StackOK, Level
    <3>3. Level = 0 => Level' = 0
      BY <1>0, <3>1, <3>2 DEF Level
    <3> QED
      BY <3>1, <3>3 DEF FreshInv
  <2> QED
    BY <1>2, <2>1, <2>2, <2>3, <2>4, <2>lc DEF Inside, FreshInv
<1>3. CASE Starts
  BY <1>3, StartsFacts DEF FreshInv, Level, ddbVars
<1>4. CASE AbortXact \/ Rollback
  BY <1>4, AbortFacts DEF TxInv, FreshInv, Level
<1>5. CASE LeaveAborted
  BY <1>5 DEF LeaveAborted, FreshInv, Level, ddbVars
<1>6. CASE PreCommit
  <2>1. UNCHANGED <<stmts, openExec, inDo>> /\ (ddbTx' => ddbTx)
    BY <1>6 DEF PreCommit, ddbVars
  <2> QED
    BY <2>1 DEF FreshInv, Level
<1>7. CASE CommitFailsLate
  BY <1>7 DEF CommitFailsLate, xactVars, ddbVars, FreshInv, Level
<1>8. CASE CommitDone
  <2>1. openExec' = 0 /\ inDo' = 0 /\ UNCHANGED ddbTx /\ ~ddbTx
    BY <1>8 DEF CommitDone, EndXact, TxInv
  <2> QED
    BY <2>1 DEF FreshInv, Level
<1>9. CASE Prepare
  <2>1. /\ UNCHANGED ddbTx
        /\ \/ UNCHANGED <<openExec, inDo, stmts>>
           \/ ~ddbTx /\ openExec' = 0 /\ inDo' = 0
    BY <1>9 DEF Prepare, EndXact, TxInv
  <2> QED
    BY <2>1 DEF FreshInv, Level
<1> QED
  BY <1>1, <1>2, <1>3, <1>4, <1>5, <1>6, <1>7, <1>8, <1>9, StepKinds

\* What a statement does to the temporary tables: nothing to the ones that are
\* tracked, or it tracks one more, or it gives one up with a DuckDB transaction
\* open.  A DuckDB transaction stays open.
TempEffect ==
    /\ UNCHANGED <<pgTempSaved, commitFailed>>
    /\ ddbTx => ddbTx'
    /\ \/ UNCHANGED tempVars /\ pgTemp' \subseteq pgTemp
       \/ \E t \in Tables :
             /\ RegisterDuckdbTempTable(t)
             /\ UNCHANGED pgTemp \/ (pgTemp' = pgTemp \cup {t} /\ ddbTx')
       \/ \E t \in Tables :
             UnregisterDuckdbTempTable(t) /\ pgTemp' = pgTemp \ {t} /\ ddbTx'

\* duckdb.recycle_ddb is refused where a DuckDB transaction may be open.
LEMMA RecycleFacts ==
  ASSUME CounterInv, FreshInv, RecycleDdb
  PROVE  ddbTx => ddbTx'
<1>1. CASE IsInTransactionBlock(AtTop)
  BY <1>1 DEF RecycleDdb, ddbVars
<1>2. CASE ~IsInTransactionBlock(AtTop)
  <2>1. MayRun /\ AtTop /\ blockState = "started"
    BY <1>2 DEF RecycleDdb, IsInTransactionBlock, MayRun, Running
  <2>2. stmts < 1 /\ stmts \in Nat
    BY <2>1 DEF MayRun, CounterInv, CounterTypes
  <2> QED
    BY <2>2 DEF FreshInv
<1> QED
  BY <1>1, <1>2

\* The drop trigger, as far as the temporary tables go.
LEMMA DropTriggerTemp ==
  ASSUME NEW t \in Tables, NEW c, NEW e, NEW k, NEW a, DropTrigger(t, c, e, k, a),
         UNCHANGED <<pgTempSaved, commitFailed>>
  PROVE  TempEffect
<1>1. CASE UNCHANGED <<ddbTx, tempVars, pgTemp>>
  BY <1>1 DEF TempEffect
<1>2. CASE UNCHANGED <<tempVars, pgTemp>> /\ ddbTx' = CanConnect
  BY <1>2 DEF TempEffect, CanConnect
<1>3. CASE UnregisterDuckdbTempTable(t) /\ pgTemp' = pgTemp \ {t} /\ ddbTx' = TRUE
  BY <1>3 DEF TempEffect
<1>4. CASE UNCHANGED <<ddbTx, tempVars>> /\ pgTemp' = pgTemp \ {t}
  BY <1>4 DEF TempEffect
<1>5. \/ UNCHANGED <<ddbTx, tempVars, pgTemp>>
      \/ UNCHANGED <<tempVars, pgTemp>> /\ ddbTx' = CanConnect
      \/ UnregisterDuckdbTempTable(t) /\ pgTemp' = pgTemp \ {t} /\ ddbTx' = TRUE
      \/ UNCHANGED <<ddbTx, tempVars>> /\ pgTemp' = pgTemp \ {t}
  BY DEF DropTrigger, ddbVars, DdbWrite
<1> QED
  BY <1>1, <1>2, <1>3, <1>4, <1>5

\* A connection is never opened without the transaction that is open already.
LEMMA ConnectKeepsTx ==
  ASSUME (ddbTx' = ddbTx) \/ (\E seen : ddbTx' = ConnectOpensTx(FALSE, seen))
  PROVE  ddbTx => ddbTx'
<1>1. CASE ddbTx' = ddbTx
  BY <1>1
<1>2. ASSUME NEW seen, ddbTx' = ConnectOpensTx(FALSE, seen)
      PROVE  ddbTx => ddbTx'
  <2>1. ddbTx => ConnectOpensTx(FALSE, seen)
    BY DEF ConnectOpensTx
  <2> QED
    BY <1>2, <2>1
<1> QED
  BY <1>1, <1>2, Zenon

LEMMA StatementTemp ==
  ASSUME CounterInv, FreshInv, Statement
  PROVE  TempEffect
<1> USE DEF ddbVars, histVars, pgTempVars
<1>0. ASSUME UNCHANGED <<tempVars, pgTemp, pgTempSaved, commitFailed>>, ddbTx => ddbTx'
      PROVE  TempEffect
  BY <1>0 DEF TempEffect
<1>1. CASE PgCreateTable \/ PgRefresh \/ PgDropTable \/ LoadCaches \/ StatementError
  BY <1>0, <1>1
  DEF PgCreateTable, PgRefresh, PgDropTable, LoadCaches, StatementError
<1>2. CASE DuckdbStatements
  <2>1. CASE RecycleDdb
    <3>1. UNCHANGED <<tempVars, pgTemp, pgTempSaved, commitFailed>>
      BY <2>1 DEF RecycleDdb
    <3>2. ddbTx => ddbTx'
      BY <2>1, RecycleFacts
    <3> QED
      BY <1>0, <3>1, <3>2
  <2>2. CASE \E planned \in BOOLEAN, top \in TopAfterRefresh : DdbSelect(planned, top)
    <3>1. /\ UNCHANGED <<tempVars, pgTemp, pgTempSaved, commitFailed>>
          /\ (ddbTx' = ddbTx) \/ (\E seen : ddbTx' = ConnectOpensTx(FALSE, seen))
      BY <2>2 DEF DdbSelect, Connect
    <3>2. ddbTx => ddbTx'
      BY <3>1, ConnectKeepsTx
    <3> QED
      BY <1>0, <3>1, <3>2
  <2>3. CASE \E planned \in BOOLEAN, top \in TopAfterRefresh : DdbDml(planned, top)
    <3>1. /\ UNCHANGED <<tempVars, pgTemp, pgTempSaved, commitFailed>>
          /\ (ddbTx' = ddbTx) \/ (\E seen : ddbTx' = ConnectOpensTx(FALSE, seen))
      BY <2>3 DEF DdbDml, Connect, DdbWrite
    <3>2. ddbTx => ddbTx'
      BY <3>1, ConnectKeepsTx
    <3> QED
      BY <1>0, <3>1, <3>2
  <2>4. CASE RawQuery \/ Truncate \/ \E top \in TopAfterRefresh : CopyFrom(top)
    BY <1>0, <2>4 DEF RawQuery, CopyFrom, Truncate, ConnectOpensTx, DdbWrite
  <2> QED
    BY <1>2, <2>1, <2>2, <2>3, <2>4 DEF DuckdbStatements
<1>3. CASE CreateRefused \/ CreateFailsInPostgres \/ CreatePermanentFails
           \/ CreatePermanent
  BY <1>0, <1>3 DEF CreateRefused, CreateFailsInPostgres, CreatePermanentFails,
     CreatePermanent, DdbWrite
<1>4. CASE AlterRefused \/ AlterTable
  BY <1>0, <1>4 DEF AlterRefused, AlterTable, DdbWrite
<1>5. ASSUME NEW t \in Tables, CreateTemp(t)
      PROVE  TempEffect
  <2>1. /\ RegisterDuckdbTempTable(t) /\ UNCHANGED <<pgTempSaved, commitFailed>>
        /\ \/ UNCHANGED pgTemp /\ (UNCHANGED ddbTx \/ ddbTx' = TRUE)
           \/ pgTemp' = pgTemp \cup {t} /\ ddbTx' = TRUE
    BY <1>5 DEF CreateTemp, Connect, DdbWrite
  <2> QED
    BY <2>1 DEF TempEffect
<1>6. ASSUME NEW t \in Tables, NEW alsoPg \in BOOLEAN, DropOwned(t, alsoPg)
      PROVE  TempEffect
  BY <1>6, DropTriggerTemp DEF DropOwned
<1>7. ASSUME NEW t \in Tables, NEW alsoPg \in BOOLEAN, DropTable(t, alsoPg)
      PROVE  TempEffect
  <2>1. /\ UNCHANGED <<pgTempSaved, commitFailed>>
        /\ \/ DropTrigger(t, StartCid + 2, StartCid + 1, TRUE, alsoPg)
           \/ UNCHANGED <<ddbVars, tempVars, pgTemp>>
    BY <1>7 DEF DropTable
  <2> QED
    BY <1>0, <2>1, DropTriggerTemp
<1> QED
  BY <1>1, <1>2, <1>3, <1>4, <1>5, <1>6, <1>7 DEF Statement, DuckdbDdl

\* A step of a running transaction keeps the tables tracked.
LEMMA TempEffectKeeps ==
  ASSUME TempInv, TempEffect, UNCHANGED blockState, blockState # "committing"
  PROVE  TempInv'
<1>0. SUFFICES ASSUME ~commitFailed
               PROVE  TempInv'
  BY DEF TempInv, TempEffect
<1>1. /\ pgTemp \subseteq tempTables
      /\ pgTempSaved \subseteq (IF tempModified THEN tempOld ELSE tempTables)
      /\ ~ddbTx /\ tempModified => tempOld \subseteq tempTables
      /\ ~ddbTx => pgTemp \subseteq pgTempSaved
  BY <1>0 DEF TempInv
<1>2. UNCHANGED pgTempSaved /\ (~ddbTx' => ~ddbTx)
  BY DEF TempEffect
<1>3. CASE UNCHANGED tempVars /\ pgTemp' \subseteq pgTemp
  BY <1>1, <1>2, <1>3 DEF TempInv, tempVars
<1>4. ASSUME NEW t \in Tables, RegisterDuckdbTempTable(t),
             UNCHANGED pgTemp \/ (pgTemp' = pgTemp \cup {t} /\ ddbTx')
      PROVE  TempInv'
  <2>1. /\ tempModified' /\ tempTables' = tempTables \cup {t}
        /\ tempOld' = IF tempModified THEN tempOld ELSE tempTables
    BY <1>4 DEF RegisterDuckdbTempTable, SaveTemp
  <2> QED
    BY <1>1, <1>2, <1>4, <2>1 DEF TempInv
<1>5. ASSUME NEW t \in Tables, UnregisterDuckdbTempTable(t), pgTemp' = pgTemp \ {t}, ddbTx'
      PROVE  TempInv'
  <2>1. /\ tempModified' /\ tempTables' = tempTables \ {t}
        /\ tempOld' = IF tempModified THEN tempOld ELSE tempTables
    BY <1>5 DEF UnregisterDuckdbTempTable, SaveTemp
  <2> QED
    BY <1>1, <1>2, <1>5, <2>1 DEF TempInv
<1> QED
  BY <1>3, <1>4, <1>5 DEF TempEffect

LEMMA TempStep ==
  ASSUME CounterInv, TxInv, EvidenceInv, GlobalsInv, FreshInv, TempInv, [Next]_vars
  PROVE  TempInv'
<1>1. CASE UNCHANGED vars
  BY <1>1 DEF vars, xactVars, ddbVars, tempVars, pgTempVars, histVars, TempInv
<1>2. CASE Inside
  <2>1. UNCHANGED blockState /\ blockState # "committing"
    BY <1>2, InsideRuns
  <2>2. CASE Statement
    BY <2>1, <2>2, StatementTemp, TempEffectKeeps
  <2>3. CASE ~Statement
    <3>1. UNCHANGED <<tempVars, pgTemp, pgTempSaved, commitFailed, ddbTx>>
      BY <1>2, <2>3 DEF Inside, PgQueryClose, DoOpen, DoClose, StartSub, ReleaseSub,
         AbortSub, PgQueryOpen, ddbVars, pgTempVars, histVars
    <3>2. TempEffect
      BY <3>1 DEF TempEffect
    <3> QED
      BY <2>1, <3>2, TempEffectKeeps
  <2> QED
    BY <2>2, <2>3
<1>3. CASE Starts
  BY <1>3, StartsFacts DEF TempInv, tempVars, ddbVars, pgTempVars
<1>4. CASE AbortXact \/ Rollback
  <2>0. SUFFICES ASSUME ~commitFailed
                 PROVE  TempInv'
    BY <1>4, AbortFacts DEF TempInv
  <2>1. blockState = "committing" => failing # "no"
    BY <1>4 DEF AbortXact, Rollback, Running
  <2>2. /\ pgTempSaved \subseteq (IF tempModified THEN tempOld ELSE tempTables)
        /\ ~ddbTx /\ tempModified => tempOld \subseteq tempTables
    BY <2>0, <2>1 DEF TempInv
  <2>3. ~ddbInit => ~ddbTx
    BY DEF TxInv
  <2>4. pgTemp' = pgTempSaved /\ UNCHANGED <<ddbInit, pgTempSaved, commitFailed>>
    BY <1>4, AbortFacts
  <2>5. CASE ddbInit
    <3>1. /\ ~tempModified'
          /\ tempTables' = (IF tempModified THEN tempOld ELSE tempTables)
      BY <1>4, <2>5, AbortFacts
    <3> QED
      BY <2>2, <2>4, <3>1 DEF TempInv
  <2>6. CASE ~ddbInit
    <3>1. UNCHANGED <<tempVars, ddbTx>>
      BY <1>4, <2>6, AbortFacts
    <3> QED
      BY <2>2, <2>3, <2>4, <2>6, <3>1 DEF TempInv, tempVars
  <2> QED
    BY <2>5, <2>6
<1>5. CASE LeaveAborted
  BY <1>5 DEF LeaveAborted, ddbVars, tempVars, pgTempVars, histVars, TempInv
<1>6. CASE PreCommit
  <2>1. /\ blockState \notin {"idle", "committing"} /\ blockState' = "committing"
        /\ UNCHANGED <<pgTemp, pgTempSaved>>
    BY <1>6 DEF PreCommit, Running, pgTempVars
  <2>2. CASE UNCHANGED <<tempVars, ddbVars, commitFailed>> /\ (~ddbInit \/ failing' # "no")
    BY <2>1, <2>2 DEF TempInv, tempVars, ddbVars, TxInv
  <2>3. CASE /\ ddbInit /\ ddbInit' /\ ~tempModified' /\ UNCHANGED tempTables
             /\ UNCHANGED <<failing, commitFailed>> \/ commitFailed'
    <3>1. failing = "no"
      BY <1>6 DEF PreCommit, Running
    <3> QED
      BY <2>1, <2>3, <3>1 DEF TempInv
  <2> QED
    BY <1>6, <2>2, <2>3 DEF PreCommit, Raise
<1>7. CASE CommitFailsLate
  BY <1>7 DEF CommitFailsLate, TempInv
<1>8. CASE CommitDone
  <2>1. /\ blockState = "committing" /\ failing = "no" /\ blockState' = "idle"
        /\ pgTempSaved' = pgTemp
        /\ UNCHANGED <<ddbInit, ddbTx, tempTables, tempOld, tempModified, pgTemp,
                       commitFailed>>
    BY <1>8 DEF CommitDone, EndXact, tempVars
  <2>2. ddbInit => ~tempModified
    BY <2>1 DEF GlobalsInv
  <2>3. ~ddbTx
    BY <2>1 DEF TxInv
  <2> QED
    BY <2>1, <2>2, <2>3 DEF TempInv
<1>9. CASE Prepare
  <2>1. /\ pgTemp = pgTempSaved /\ blockState # "committing"
        /\ UNCHANGED <<ddbInit, ddbTx, tempTables, tempOld, tempModified, pgTemp,
                       pgTempSaved, commitFailed>>
        /\ blockState' = "idle" \/ failing' # "no"
    BY <1>9 DEF Prepare, Running, Raise, EndXact, tempVars, pgTempVars
  <2> QED
    BY <2>1 DEF TempInv
<1> QED
  BY <1>1, <1>2, <1>3, <1>4, <1>5, <1>6, <1>7, <1>8, <1>9, StepKinds

\* As long as no commit has failed, the set of temporary DuckDB tables of the
\* backend covers every one that Postgres knows, through failed statements,
\* subtransactions, aborts and recycled instances: its undo copy is restored
\* exactly when it has to be.
THEOREM TempAlwaysTracked == Spec => []TempTracked
<1>1. Init => GlobalsInv /\ FreshInv /\ TempInv
  BY DEF Init, GlobalsInv, GlobalsEndWithTransaction, FreshInv, Level, TempInv
<1>2. CounterInv /\ TxInv /\ EvidenceInv /\ GlobalsInv /\ FreshInv /\ TempInv
        /\ [Next]_vars => (GlobalsInv /\ FreshInv /\ TempInv)'
  BY GlobalsStep, FreshStep, TempStep
<1>3. TempInv => TempTracked
  BY DEF TempInv, TempTracked
<1> QED
  BY <1>1, <1>2, <1>3, EvidenceAlways, PTL DEF Spec
=============================================================================
