------------------------- MODULE InstanceRefreshProofs -------------------------
(***************************************************************************)
(* Proofs about InstanceRefresh, for any number of changes of the catalogs *)
(* and any value of the sequence: what a statement sees is as new as its   *)
(* transaction, unless one of the causes recorded in lost applies.         *)
(***************************************************************************)
EXTENDS InstanceRefresh, TLAPS

\* The helpers that TypeOK needs only the type of.
LEMMA NoTransactionType == NoTransaction \in Starts
<1>1. 1 \in 1..MaxGen /\ 1 \in 1..MaxFdw /\ 1 \in 1..MaxTab
  BY BoundsAssumption DEF BoundsAssumption
<1> QED
  BY <1>1, Zenon DEF NoTransaction, Starts

LEMMA AtStartType ==
  ASSUME TypeOK
  PROVE  AtStart \in Starts
BY Zenon DEF TypeOK, Flags, Values, Session, AtStart, Starts

LEMMA LostToParts == LostTo(pending) \subseteq Parts
BY DEF LostTo, Parts

LEMMA AcceptType ==
  ASSUME Values, AcceptMessages
  PROVE  /\ metaGen' \in 0..MaxGen /\ udVer' \in 0..MaxFdw
         /\ pending' \subseteq Messages /\ lost' \subseteq Parts
<1>1. metaGen' \in 0..MaxGen
  BY BoundsAssumption
  DEF BoundsAssumption, Values, AcceptMessages, InvalidateCaches, meta
<1>2. udVer' \in 0..MaxFdw
  BY BoundsAssumption
  DEF BoundsAssumption, Values, AcceptMessages, InvalidateCache, ud
<1>3. pending' \subseteq Messages /\ lost' \subseteq Parts
  BY LostToParts, Zenon DEF Values, AcceptMessages
<1> QED
  BY <1>1, <1>2, <1>3

LEMMA InitType == Init => TypeOK
<1>1. Init => Flags
  BY Zenon DEF Init, Flags
<1>2. Init => Values
  BY NoTransactionType, BoundsAssumption
  DEF Init, Values, Places, Messages, Parts, BoundsAssumption
<1>3. Init => Session
  BY DEF Init, Session
<1> QED
  BY <1>1, <1>2, <1>3 DEF TypeOK

LEMMA SessionStep ==
  ASSUME TypeOK, [Next]_vars
  PROVE  Session'
<1> USE DEF TypeOK, Session, Parts, world, meta, ud, made, inst, session,
          snaps, reads, backend
<1>1. CASE ChangeForeign
  BY <1>1 DEF ChangeForeign
<1>2. CASE WriteExtensions
  BY <1>2 DEF WriteExtensions
<1>3. CASE EndWriteExtensions
  BY <1>3 DEF EndWriteExtensions
<1>4. CASE DropExtension
  BY <1>4 DEF DropExtension
<1>5. CASE CreateExtension
  BY <1>5 DEF CreateExtension
<1>6. CASE Overflow
  BY <1>6 DEF Overflow
<1>7. CASE Accept
  BY <1>7 DEF Accept, AcceptMessages, InvalidateCaches, InvalidateCache, LostTo,
         InvalidatesMeta, IsOurSchema
<1>8. CASE StartStatement
  BY <1>8, BoundsAssumption
  DEF BoundsAssumption, StartStatement, KeepsSnapshot, AcceptMessages,
         InvalidateCaches, InvalidateCache, LostTo,
         InvalidatesMeta, IsOurSchema, AtStart
<1>9. CASE EndStatement
  BY <1>9 DEF EndStatement, CommitTx, LeaveStatement, EndTransaction, NoTransaction
<1>10. CASE StatementError
  BY <1>10 DEF StatementError, RollbackTx, LostByRollback, UndoesSecrets,
       RoleParts, LeaveStatement, EndTransaction, NoTransaction
<1>11. CASE BeginBlock
  BY <1>11, BoundsAssumption
  DEF BoundsAssumption, BeginBlock, AcceptMessages, InvalidateCaches,
         InvalidateCache, LostTo,
         InvalidatesMeta, IsOurSchema, AtStart
<1>12. CASE EndBlock
  BY <1>12 DEF EndBlock, CommitTx, RollbackTx, LostByRollback, UndoesSecrets,
         RoleParts, LeaveStatement, EndTransaction, NoTransaction
<1>13. CASE IsRegisteredCached
  BY <1>13 DEF IsRegisteredCached
<1>14. CASE IsRegisteredLoad
  BY <1>14 DEF IsRegisteredLoad
<1>15. CASE IsRegisteredAbsent
  BY <1>15 DEF IsRegisteredAbsent, Reset
<1>16. CASE LoadServer
  BY <1>16 DEF LoadServer, ReadServers, Behind
<1>17. CASE LoadMapping
  BY <1>17 DEF LoadMapping
<1>18. CASE BuildFunctions
  BY <1>18 DEF BuildFunctions
<1>19. CASE GetInstance
  BY <1>19 DEF GetInstance
<1>20. CASE RecycleDdb
  BY <1>20 DEF RecycleDdb, Reset
<1>21. CASE CreateInstance
  BY <1>21 DEF CreateInstance
<1>22. CASE AttachAndLoad
  BY <1>22 DEF AttachAndLoad, ReadServers, Behind
<1>23. CASE BeginTx
  BY <1>23 DEF BeginTx
<1>24. CASE CheckExtensions
  BY <1>24 DEF CheckExtensions
<1>25. CASE LoadExtensions
  BY <1>25 DEF LoadExtensions
<1>26. CASE DropSecrets
  BY <1>26 DEF DropSecrets, SetSecrets
<1>27. CASE ListSecrets
  BY <1>27 DEF ListSecrets, ReadServers, Behind
<1>28. CASE MakeSecrets
  BY <1>28 DEF MakeSecrets, SetSecrets
<1>29. CASE UNCHANGED vars
  BY <1>29 DEF vars
<1>30. CASE SetRole
  BY <1>30 DEF SetRole, RoleParts
<1> QED
  BY <1>1, <1>2, <1>3, <1>4, <1>5, <1>6, <1>7, <1>8,
     <1>9, <1>10, <1>11, <1>12, <1>13, <1>14, <1>15, <1>16,
     <1>17, <1>18, <1>19, <1>20, <1>21, <1>22, <1>23, <1>24,
     <1>25, <1>26, <1>27, <1>28, <1>29, <1>30
  DEF Next

LEMMA TypeStep ==
  ASSUME TypeOK, [Next]_vars, BoundsAssumption
  PROVE  TypeOK'
<1> SUFFICES Flags' /\ Values'
  BY SessionStep DEF TypeOK
<1> USE DEF world, meta, ud, made, inst, session,
          snaps, reads, backend
<1>1. CASE ChangeForeign
  <2>1. Flags'
    BY <1>1, Zenon DEF TypeOK, Flags,
       ChangeForeign
  <2>2. Values'
    BY <1>1 DEF TypeOK, Flags, Values, Places, Messages, Parts,
       BoundsAssumption, ChangeForeign
  <2> QED
    BY <2>1, <2>2
<1>2. CASE WriteExtensions
  <2>1. Flags'
    BY <1>2, Zenon DEF TypeOK, Flags,
       WriteExtensions
  <2>2. Values'
    BY <1>2 DEF TypeOK, Flags, Values, Places, Messages, Parts,
       BoundsAssumption, WriteExtensions
  <2> QED
    BY <2>1, <2>2
<1>3. CASE EndWriteExtensions
  <2>1. Flags'
    BY <1>3, Zenon DEF TypeOK, Flags,
       EndWriteExtensions
  <2>2. Values'
    BY <1>3 DEF TypeOK, Flags, Values, Places, Messages, Parts,
       BoundsAssumption, EndWriteExtensions
  <2> QED
    BY <2>1, <2>2
<1>4. CASE DropExtension
  <2>1. Flags'
    BY <1>4, Zenon DEF TypeOK, Flags,
       DropExtension
  <2>2. Values'
    BY <1>4 DEF TypeOK, Flags, Values, Places, Messages, Parts,
       BoundsAssumption, DropExtension
  <2> QED
    BY <2>1, <2>2
<1>5. CASE CreateExtension
  <2>1. Flags'
    BY <1>5, Zenon DEF TypeOK, Flags,
       CreateExtension
  <2>2. Values'
    BY <1>5 DEF TypeOK, Flags, Values, Places, Messages, Parts,
       BoundsAssumption, CreateExtension
  <2> QED
    BY <2>1, <2>2
<1>6. CASE Overflow
  <2>1. Flags'
    BY <1>6, Zenon DEF TypeOK, Flags,
       Overflow
  <2>2. Values'
    BY <1>6 DEF TypeOK, Flags, Values, Places, Messages, Parts,
       BoundsAssumption, Overflow
  <2> QED
    BY <2>1, <2>2
<1>7. CASE Accept
  <2>1. Flags'
    BY <1>7, Zenon DEF TypeOK, Flags,
       Accept, AcceptMessages, InvalidateCaches, InvalidateCache
  <2>2. Values'
    BY <1>7, AcceptType, AtStartType DEF TypeOK, Values, Places, Accept
  <2> QED
    BY <2>1, <2>2
<1>8. CASE StartStatement
  <2>1. Flags'
    BY <1>8, Zenon DEF TypeOK, Flags,
       StartStatement, KeepsSnapshot, AcceptMessages, InvalidateCaches, InvalidateCache
  <2>2. Values'
    BY <1>8, AcceptType, AtStartType DEF TypeOK, Values, Places, StartStatement,
       KeepsSnapshot
  <2> QED
    BY <2>1, <2>2
<1>9. CASE EndStatement
  <2>1. Flags'
    BY <1>9, Zenon DEF TypeOK, Flags,
       EndStatement, CommitTx, LeaveStatement, EndTransaction
  <2>2. Values'
    BY <1>9, NoTransactionType DEF TypeOK, Values, Places,
       BoundsAssumption, EndStatement, CommitTx, LeaveStatement, EndTransaction
  <2> QED
    BY <2>1, <2>2
<1>10. CASE StatementError
  <2>1. Flags'
    BY <1>10, Zenon DEF TypeOK, Flags,
       StatementError, RollbackTx, LostByRollback, UndoesSecrets,
       RoleParts, LeaveStatement, EndTransaction
  <2>2. Values'
    BY <1>10, NoTransactionType DEF TypeOK, Flags, Values, Places, Messages, Parts,
       BoundsAssumption, StatementError, RollbackTx, LostByRollback, UndoesSecrets,
       RoleParts, LeaveStatement, EndTransaction
  <2> QED
    BY <2>1, <2>2
<1>11. CASE BeginBlock
  <2>1. Flags'
    BY <1>11, Zenon DEF TypeOK, Flags,
       BeginBlock, AcceptMessages, InvalidateCaches, InvalidateCache
  <2>2. Values'
    BY <1>11, AcceptType, AtStartType DEF TypeOK, Values, Places, BeginBlock
  <2> QED
    BY <2>1, <2>2
<1>12. CASE EndBlock
  <2>1. Flags'
    BY <1>12, Zenon DEF TypeOK, Flags,
       EndBlock, CommitTx, RollbackTx, LostByRollback, UndoesSecrets,
         RoleParts, LeaveStatement, EndTransaction
  <2>2. lost' \subseteq Parts
    BY <1>12 DEF TypeOK, Values, Parts, EndBlock, LostByRollback, RoleParts
  <2>3. secrets' \in 0..MaxFdw /\ saved' \in {Untouched} \union 0..MaxFdw
    BY <1>12 DEF TypeOK, Values, EndBlock, CommitTx, RollbackTx
  <2>4. snapTab' \in 0..MaxTab /\ snapFdw' \in 0..MaxFdw
    BY <1>12 DEF TypeOK, Values, EndBlock, LeaveStatement, BoundsAssumption
  <2>5. Values'
    BY <1>12, <2>2, <2>3, <2>4, NoTransactionType DEF TypeOK, Values, Places,
       BoundsAssumption, EndBlock, LeaveStatement, EndTransaction
  <2> QED
    BY <2>1, <2>5
<1>13. CASE IsRegisteredCached
  <2>1. Flags'
    BY <1>13, Zenon DEF TypeOK, Flags,
       IsRegisteredCached
  <2>2. Values'
    BY <1>13 DEF TypeOK, Flags, Values, Places, Messages, Parts,
       BoundsAssumption, IsRegisteredCached
  <2> QED
    BY <2>1, <2>2
<1>14. CASE IsRegisteredLoad
  <2>1. Flags'
    BY <1>14, Zenon DEF TypeOK, Flags,
       IsRegisteredLoad
  <2>2. Values'
    BY <1>14 DEF TypeOK, Flags, Values, Places, Messages, Parts,
       BoundsAssumption, IsRegisteredLoad
  <2> QED
    BY <2>1, <2>2
<1>15. CASE IsRegisteredAbsent
  <2>1. Flags'
    BY <1>15, Zenon DEF TypeOK, Flags,
       IsRegisteredAbsent, Reset
  <2>2. lost' \subseteq Parts
    BY <1>15 DEF TypeOK, Values, Parts, IsRegisteredAbsent, Reset
  <2>3. Values'
    BY <1>15, <2>2 DEF TypeOK, Values, Places,
       BoundsAssumption, IsRegisteredAbsent, Reset
  <2> QED
    BY <2>1, <2>3
<1>16. CASE LoadServer
  <2>1. Flags'
    BY <1>16, Zenon DEF TypeOK, Flags,
       LoadServer
  <2>2. Values'
    BY <1>16 DEF TypeOK, Flags, Values, Places, Messages, Parts,
       BoundsAssumption, LoadServer, ReadServers, Behind
  <2> QED
    BY <2>1, <2>2
<1>17. CASE LoadMapping
  <2>1. Flags'
    BY <1>17, Zenon DEF TypeOK, Flags,
       LoadMapping
  <2>2. Values'
    BY <1>17 DEF TypeOK, Flags, Values, Places, Messages, Parts,
       BoundsAssumption, LoadMapping
  <2> QED
    BY <2>1, <2>2
<1>18. CASE BuildFunctions
  <2>1. Flags'
    BY <1>18, Zenon DEF TypeOK, Flags,
       BuildFunctions
  <2>2. Values'
    BY <1>18 DEF TypeOK, Flags, Values, Places, Messages, Parts,
       BoundsAssumption, BuildFunctions
  <2> QED
    BY <2>1, <2>2
<1>19. CASE GetInstance
  <2>1. Flags'
    BY <1>19, Zenon DEF TypeOK, Flags,
       GetInstance
  <2>2. Values'
    BY <1>19 DEF TypeOK, Flags, Values, Places, Messages, Parts,
       BoundsAssumption, GetInstance
  <2> QED
    BY <2>1, <2>2
<1>20. CASE RecycleDdb
  <2>1. Flags'
    BY <1>20, Zenon DEF TypeOK, Flags,
       RecycleDdb, Reset
  <2>2. Values'
    BY <1>20 DEF TypeOK, Flags, Values, Places, Messages, Parts,
       BoundsAssumption, RecycleDdb, Reset
  <2> QED
    BY <2>1, <2>2
<1>21. CASE CreateInstance
  <2>1. Flags'
    BY <1>21, Zenon DEF TypeOK, Flags,
       CreateInstance
  <2>2. Values'
    BY <1>21 DEF TypeOK, Flags, Values, Places, Messages, Parts,
       BoundsAssumption, CreateInstance
  <2> QED
    BY <2>1, <2>2
<1>22. CASE AttachAndLoad
  <2>1. Flags'
    BY <1>22, Zenon DEF TypeOK, Flags,
       AttachAndLoad
  <2>2. lost' \subseteq Parts
    BY <1>22 DEF TypeOK, Values, Parts, AttachAndLoad, Behind
  <2>3. Values'
    BY <1>22, <2>2 DEF TypeOK, Values, Places, BoundsAssumption, AttachAndLoad,
       ReadServers
  <2> QED
    BY <2>1, <2>3
<1>23. CASE BeginTx
  <2>1. Flags'
    BY <1>23, Zenon DEF TypeOK, Flags,
       BeginTx
  <2>2. Values'
    BY <1>23 DEF TypeOK, Flags, Values, Places, Messages, Parts,
       BoundsAssumption, BeginTx
  <2> QED
    BY <2>1, <2>2
<1>24. CASE CheckExtensions
  <2>1. Flags'
    BY <1>24, Zenon DEF TypeOK, Flags,
       CheckExtensions
  <2>2. Values'
    BY <1>24 DEF TypeOK, Flags, Values, Places, Messages, Parts,
       BoundsAssumption, CheckExtensions
  <2> QED
    BY <2>1, <2>2
<1>25. CASE LoadExtensions
  <2>1. Flags'
    BY <1>25, Zenon DEF TypeOK, Flags,
       LoadExtensions
  <2>2. Values'
    BY <1>25 DEF TypeOK, Flags, Values, Places, Messages, Parts,
       BoundsAssumption, LoadExtensions
  <2> QED
    BY <2>1, <2>2
<1>26. CASE DropSecrets
  <2>1. Flags'
    BY <1>26, Zenon DEF TypeOK, Flags,
       DropSecrets, SetSecrets
  <2>2. Values'
    BY <1>26 DEF TypeOK, Flags, Values, Places, Messages, Parts,
       BoundsAssumption, DropSecrets, SetSecrets
  <2> QED
    BY <2>1, <2>2
<1>27. CASE ListSecrets
  <2>1. Flags'
    BY <1>27, Zenon DEF TypeOK, Flags,
       ListSecrets
  <2>2. Values'
    BY <1>27 DEF TypeOK, Flags, Values, Places, Messages, Parts,
       BoundsAssumption, ListSecrets, ReadServers, Behind
  <2> QED
    BY <2>1, <2>2
<1>28. CASE MakeSecrets
  <2>1. Flags'
    BY <1>28, Zenon DEF TypeOK, Flags,
       MakeSecrets, SetSecrets
  <2>2. Values'
    BY <1>28 DEF TypeOK, Flags, Values, Places, Messages, Parts,
       BoundsAssumption, MakeSecrets, SetSecrets
  <2> QED
    BY <2>1, <2>2
<1>29. CASE UNCHANGED vars
  BY <1>29 DEF vars, TypeOK, Flags, Values
<1>30. CASE SetRole
  <2>1. Flags'
    BY <1>30, Zenon DEF TypeOK, Flags,
       SetRole
  <2>2. Values'
    BY <1>30 DEF TypeOK, Values, Places, Parts, SetRole, RoleParts
  <2> QED
    BY <2>1, <2>2
<1> QED
  BY <1>1, <1>2, <1>3, <1>4, <1>5, <1>6, <1>7, <1>8,
     <1>9, <1>10, <1>11, <1>12, <1>13, <1>14, <1>15, <1>16,
     <1>17, <1>18, <1>19, <1>20, <1>21, <1>22, <1>23, <1>24,
     <1>25, <1>26, <1>27, <1>28, <1>29, <1>30
  DEF Next

\* Every variable keeps its type, and every version its bound, in all
\* statements and errors of a backend.
THEOREM TypeCorrect == Spec => []TypeOK
<1> USE BoundsAssumption DEF BoundsAssumption
<1>1. Init => TypeOK
  BY InitType
<1>2. TypeOK /\ [Next]_vars => TypeOK'
  BY TypeStep
<1> QED
  BY <1>1, <1>2, PTL DEF Spec

LEMMA OrderedStep ==
  ASSUME TypeOK, Ordered, [Next]_vars, pc = "make" => readFdw <= fdw
  PROVE  Ordered'
<1> USE DEF TypeOK, Ordered, Untouched, Flags, Values, Starts, world, meta, ud,
          made, inst, session, snaps, reads, backend
<1>1. CASE ChangeForeign
  BY <1>1 DEF ChangeForeign
<1>2. CASE WriteExtensions
  BY <1>2 DEF WriteExtensions
<1>3. CASE EndWriteExtensions
  BY <1>3 DEF EndWriteExtensions
<1>4. CASE DropExtension
  BY <1>4 DEF DropExtension
<1>5. CASE CreateExtension
  BY <1>5 DEF CreateExtension
<1>6. CASE Overflow
  BY <1>6 DEF Overflow
<1>7. CASE Accept
  BY <1>7 DEF Accept, AcceptMessages, InvalidateCaches, InvalidateCache, LostTo,
         InvalidatesMeta, IsOurSchema
<1>8. CASE StartStatement
  BY <1>8 DEF StartStatement, KeepsSnapshot, AcceptMessages, InvalidateCaches,
         InvalidateCache, LostTo, InvalidatesMeta, IsOurSchema, AtStart
<1>9. CASE EndStatement
  BY <1>9 DEF EndStatement, CommitTx, LeaveStatement, EndTransaction, NoTransaction
<1>10. CASE StatementError
  BY <1>10 DEF StatementError, RollbackTx, LostByRollback, UndoesSecrets,
       RoleParts, LeaveStatement, EndTransaction, NoTransaction
<1>11. CASE BeginBlock
  BY <1>11 DEF BeginBlock, AcceptMessages, InvalidateCaches, InvalidateCache, LostTo,
         InvalidatesMeta, IsOurSchema, AtStart
<1>12. CASE EndBlock
  BY <1>12 DEF EndBlock, CommitTx, RollbackTx, LostByRollback, UndoesSecrets,
         RoleParts, LeaveStatement, EndTransaction, NoTransaction
<1>13. CASE IsRegisteredCached
  BY <1>13 DEF IsRegisteredCached
<1>14. CASE IsRegisteredLoad
  BY <1>14 DEF IsRegisteredLoad
<1>15. CASE IsRegisteredAbsent
  BY <1>15 DEF IsRegisteredAbsent, Reset
<1>16. CASE LoadServer
  BY <1>16 DEF LoadServer, ReadServers, Behind
<1>17. CASE LoadMapping
  BY <1>17 DEF LoadMapping
<1>18. CASE BuildFunctions
  BY <1>18 DEF BuildFunctions
<1>19. CASE GetInstance
  BY <1>19 DEF GetInstance
<1>20. CASE RecycleDdb
  BY <1>20 DEF RecycleDdb, Reset
<1>21. CASE CreateInstance
  BY <1>21 DEF CreateInstance
<1>22. CASE AttachAndLoad
  BY <1>22 DEF AttachAndLoad, ReadServers, Behind
<1>23. CASE BeginTx
  BY <1>23 DEF BeginTx
<1>24. CASE CheckExtensions
  BY <1>24 DEF CheckExtensions
<1>25. CASE LoadExtensions
  BY <1>25 DEF LoadExtensions
<1>26. CASE DropSecrets
  BY <1>26 DEF DropSecrets, SetSecrets
<1>27. CASE ListSecrets
  BY <1>27 DEF ListSecrets, ReadServers, Behind
<1>28. CASE MakeSecrets
  BY <1>28 DEF MakeSecrets, SetSecrets
<1>29. CASE UNCHANGED vars
  BY <1>29 DEF vars
<1>30. CASE SetRole
  BY <1>30 DEF SetRole, RoleParts
<1> QED
  BY <1>1, <1>2, <1>3, <1>4, <1>5, <1>6, <1>7, <1>8,
     <1>9, <1>10, <1>11, <1>12, <1>13, <1>14, <1>15, <1>16,
     <1>17, <1>18, <1>19, <1>20, <1>21, <1>22, <1>23, <1>24,
     <1>25, <1>26, <1>27, <1>28, <1>29, <1>30
  DEF Next

LEMMA SecretsStep ==
  ASSUME TypeOK, Ordered, SecretsInv, [Next]_vars
  PROVE  SecretsInv'
<1> USE DEF TypeOK, Ordered, SecretsInv, SecretsFresh, Current, HasInstance,
          Flags, Values, Starts, world, meta, ud, made, inst, session,
          snaps, reads, backend
<1>1. CASE ChangeForeign
  BY <1>1 DEF ChangeForeign
<1>2. CASE WriteExtensions
  BY <1>2 DEF WriteExtensions
<1>3. CASE EndWriteExtensions
  BY <1>3 DEF EndWriteExtensions
<1>4. CASE DropExtension
  BY <1>4 DEF DropExtension
<1>5. CASE CreateExtension
  BY <1>5 DEF CreateExtension
<1>6. CASE Overflow
  BY <1>6 DEF Overflow
<1>7. CASE Accept
  BY <1>7 DEF Accept, AcceptMessages, InvalidateCaches, InvalidateCache, LostTo,
         InvalidatesMeta, IsOurSchema
<1>8. CASE StartStatement
  BY <1>8 DEF StartStatement, KeepsSnapshot, AcceptMessages, InvalidateCaches,
         InvalidateCache, LostTo, InvalidatesMeta, IsOurSchema, AtStart
<1>9. CASE EndStatement
  BY <1>9 DEF EndStatement, CommitTx, LeaveStatement, EndTransaction, NoTransaction
<1>10. CASE StatementError
  BY <1>10 DEF StatementError, RollbackTx, LostByRollback, UndoesSecrets,
       RoleParts, LeaveStatement, EndTransaction, NoTransaction
<1>11. CASE BeginBlock
  BY <1>11 DEF BeginBlock, AcceptMessages, InvalidateCaches, InvalidateCache, LostTo,
         InvalidatesMeta, IsOurSchema, AtStart
<1>12. CASE EndBlock
  BY <1>12 DEF EndBlock, CommitTx, RollbackTx, LostByRollback, UndoesSecrets,
         RoleParts, LeaveStatement, EndTransaction, NoTransaction
<1>13. CASE IsRegisteredCached
  BY <1>13 DEF IsRegisteredCached
<1>14. CASE IsRegisteredLoad
  BY <1>14 DEF IsRegisteredLoad
<1>15. CASE IsRegisteredAbsent
  BY <1>15 DEF IsRegisteredAbsent, Reset
<1>16. CASE LoadServer
  BY <1>16 DEF LoadServer, ReadServers, Behind
<1>17. CASE LoadMapping
  BY <1>17 DEF LoadMapping
<1>18. CASE BuildFunctions
  BY <1>18 DEF BuildFunctions
<1>19. CASE GetInstance
  BY <1>19 DEF GetInstance
<1>20. CASE RecycleDdb
  BY <1>20 DEF RecycleDdb, Reset
<1>21. CASE CreateInstance
  BY <1>21 DEF CreateInstance
<1>22. CASE AttachAndLoad
  BY <1>22 DEF AttachAndLoad, ReadServers, Behind
<1>23. CASE BeginTx
  BY <1>23 DEF BeginTx
<1>24. CASE CheckExtensions
  BY <1>24 DEF CheckExtensions
<1>25. CASE LoadExtensions
  BY <1>25 DEF LoadExtensions
<1>26. CASE DropSecrets
  BY <1>26 DEF DropSecrets, SetSecrets
<1>27. CASE ListSecrets
  BY <1>27 DEF ListSecrets, ReadServers, Behind
<1>28. CASE MakeSecrets
  BY <1>28 DEF MakeSecrets, SetSecrets
<1>29. CASE UNCHANGED vars
  BY <1>29 DEF vars
<1>30. CASE SetRole
  BY <1>30 DEF SetRole, RoleParts
<1> QED
  BY <1>1, <1>2, <1>3, <1>4, <1>5, <1>6, <1>7, <1>8,
     <1>9, <1>10, <1>11, <1>12, <1>13, <1>14, <1>15, <1>16,
     <1>17, <1>18, <1>19, <1>20, <1>21, <1>22, <1>23, <1>24,
     <1>25, <1>26, <1>27, <1>28, <1>29, <1>30
  DEF Next

LEMMA UserDataStep ==
  ASSUME TypeOK, Ordered, UserDataInv, [Next]_vars
  PROVE  UserDataInv'
<1> USE DEF TypeOK, Ordered, UserDataInv, Current,
          Flags, Values, Starts, world, meta, ud, made, inst, session,
          snaps, reads, backend
<1>1. CASE ChangeForeign
  BY <1>1 DEF ChangeForeign
<1>2. CASE WriteExtensions
  BY <1>2 DEF WriteExtensions
<1>3. CASE EndWriteExtensions
  BY <1>3 DEF EndWriteExtensions
<1>4. CASE DropExtension
  BY <1>4 DEF DropExtension
<1>5. CASE CreateExtension
  BY <1>5 DEF CreateExtension
<1>6. CASE Overflow
  BY <1>6 DEF Overflow
<1>7. CASE Accept
  BY <1>7 DEF Accept, AcceptMessages, InvalidateCaches, InvalidateCache, LostTo,
         InvalidatesMeta, IsOurSchema
<1>8. CASE StartStatement
  BY <1>8 DEF StartStatement, KeepsSnapshot, AcceptMessages, InvalidateCaches,
         InvalidateCache, LostTo, InvalidatesMeta, IsOurSchema, AtStart
<1>9. CASE EndStatement
  BY <1>9 DEF EndStatement, CommitTx, LeaveStatement, EndTransaction, NoTransaction
<1>10. CASE StatementError
  BY <1>10 DEF StatementError, RollbackTx, LostByRollback, UndoesSecrets,
       RoleParts, LeaveStatement, EndTransaction, NoTransaction
<1>11. CASE BeginBlock
  BY <1>11 DEF BeginBlock, AcceptMessages, InvalidateCaches, InvalidateCache, LostTo,
         InvalidatesMeta, IsOurSchema, AtStart
<1>12. CASE EndBlock
  BY <1>12 DEF EndBlock, CommitTx, RollbackTx, LostByRollback, UndoesSecrets,
         RoleParts, LeaveStatement, EndTransaction, NoTransaction
<1>13. CASE IsRegisteredCached
  BY <1>13 DEF IsRegisteredCached
<1>14. CASE IsRegisteredLoad
  BY <1>14 DEF IsRegisteredLoad
<1>15. CASE IsRegisteredAbsent
  BY <1>15 DEF IsRegisteredAbsent, Reset
<1>16. CASE LoadServer
  BY <1>16 DEF LoadServer, ReadServers, Behind
<1>17. CASE LoadMapping
  BY <1>17 DEF LoadMapping
<1>18. CASE BuildFunctions
  BY <1>18 DEF BuildFunctions
<1>19. CASE GetInstance
  BY <1>19 DEF GetInstance
<1>20. CASE RecycleDdb
  BY <1>20 DEF RecycleDdb, Reset
<1>21. CASE CreateInstance
  BY <1>21 DEF CreateInstance
<1>22. CASE AttachAndLoad
  BY <1>22 DEF AttachAndLoad, ReadServers, Behind
<1>23. CASE BeginTx
  BY <1>23 DEF BeginTx
<1>24. CASE CheckExtensions
  BY <1>24 DEF CheckExtensions
<1>25. CASE LoadExtensions
  BY <1>25 DEF LoadExtensions
<1>26. CASE DropSecrets
  BY <1>26 DEF DropSecrets, SetSecrets
<1>27. CASE ListSecrets
  BY <1>27 DEF ListSecrets, ReadServers, Behind
<1>28. CASE MakeSecrets
  BY <1>28 DEF MakeSecrets, SetSecrets
<1>29. CASE UNCHANGED vars
  BY <1>29 DEF vars
<1>30. CASE SetRole
  BY <1>30 DEF SetRole, RoleParts
<1> QED
  BY <1>1, <1>2, <1>3, <1>4, <1>5, <1>6, <1>7, <1>8,
     <1>9, <1>10, <1>11, <1>12, <1>13, <1>14, <1>15, <1>16,
     <1>17, <1>18, <1>19, <1>20, <1>21, <1>22, <1>23, <1>24,
     <1>25, <1>26, <1>27, <1>28, <1>29, <1>30
  DEF Next

LEMMA MetaStep ==
  ASSUME TypeOK, Ordered, MetaInv, [Next]_vars
  PROVE  MetaInv'
<1> USE DEF TypeOK, Ordered, MetaInv, Current, Installed,
          Flags, Values, Starts, world, meta, ud, made, inst, session,
          snaps, reads, backend
<1>1. CASE ChangeForeign
  BY <1>1 DEF ChangeForeign
<1>2. CASE WriteExtensions
  BY <1>2 DEF WriteExtensions
<1>3. CASE EndWriteExtensions
  BY <1>3 DEF EndWriteExtensions
<1>4. CASE DropExtension
  BY <1>4 DEF DropExtension
<1>5. CASE CreateExtension
  BY <1>5 DEF CreateExtension
<1>6. CASE Overflow
  BY <1>6 DEF Overflow
<1>7. CASE Accept
  BY <1>7 DEF Accept, AcceptMessages, InvalidateCaches, InvalidateCache, LostTo,
         InvalidatesMeta, IsOurSchema
<1>8. CASE StartStatement
  BY <1>8 DEF StartStatement, KeepsSnapshot, AcceptMessages, InvalidateCaches,
         InvalidateCache, LostTo, InvalidatesMeta, IsOurSchema, AtStart
<1>9. CASE EndStatement
  BY <1>9 DEF EndStatement, CommitTx, LeaveStatement, EndTransaction, NoTransaction
<1>10. CASE StatementError
  BY <1>10 DEF StatementError, RollbackTx, LostByRollback, UndoesSecrets,
       RoleParts, LeaveStatement, EndTransaction, NoTransaction
<1>11. CASE BeginBlock
  BY <1>11 DEF BeginBlock, AcceptMessages, InvalidateCaches, InvalidateCache, LostTo,
         InvalidatesMeta, IsOurSchema, AtStart
<1>12. CASE EndBlock
  BY <1>12 DEF EndBlock, CommitTx, RollbackTx, LostByRollback, UndoesSecrets,
         RoleParts, LeaveStatement, EndTransaction, NoTransaction
<1>13. CASE IsRegisteredCached
  BY <1>13 DEF IsRegisteredCached
<1>14. CASE IsRegisteredLoad
  BY <1>14 DEF IsRegisteredLoad
<1>15. CASE IsRegisteredAbsent
  BY <1>15 DEF IsRegisteredAbsent, Reset
<1>16. CASE LoadServer
  BY <1>16 DEF LoadServer, ReadServers, Behind
<1>17. CASE LoadMapping
  BY <1>17 DEF LoadMapping
<1>18. CASE BuildFunctions
  BY <1>18 DEF BuildFunctions
<1>19. CASE GetInstance
  BY <1>19 DEF GetInstance
<1>20. CASE RecycleDdb
  BY <1>20 DEF RecycleDdb, Reset
<1>21. CASE CreateInstance
  BY <1>21 DEF CreateInstance
<1>22. CASE AttachAndLoad
  BY <1>22 DEF AttachAndLoad, ReadServers, Behind
<1>23. CASE BeginTx
  BY <1>23 DEF BeginTx
<1>24. CASE CheckExtensions
  BY <1>24 DEF CheckExtensions
<1>25. CASE LoadExtensions
  BY <1>25 DEF LoadExtensions
<1>26. CASE DropSecrets
  BY <1>26 DEF DropSecrets, SetSecrets
<1>27. CASE ListSecrets
  BY <1>27 DEF ListSecrets, ReadServers, Behind
<1>28. CASE MakeSecrets
  BY <1>28 DEF MakeSecrets, SetSecrets
<1>29. CASE UNCHANGED vars
  BY <1>29 DEF vars
<1>30. CASE SetRole
  BY <1>30 DEF SetRole, RoleParts
<1> QED
  BY <1>1, <1>2, <1>3, <1>4, <1>5, <1>6, <1>7, <1>8,
     <1>9, <1>10, <1>11, <1>12, <1>13, <1>14, <1>15, <1>16,
     <1>17, <1>18, <1>19, <1>20, <1>21, <1>22, <1>23, <1>24,
     <1>25, <1>26, <1>27, <1>28, <1>29, <1>30
  DEF Next

LEMMA ExtensionsStep ==
  ASSUME TypeOK, Ordered, SecretsInv, ExtensionsInv, [Next]_vars
  PROVE  ExtensionsInv'
<1> USE DEF TypeOK, Ordered, ExtensionsInv,
          Flags, Values, Starts, world, meta, ud, made, inst, session,
          snaps, reads, backend
<1>1. CASE ChangeForeign
  BY <1>1 DEF ChangeForeign
<1>2. CASE WriteExtensions
  BY <1>2 DEF WriteExtensions
<1>3. CASE EndWriteExtensions
  BY <1>3 DEF EndWriteExtensions
<1>4. CASE DropExtension
  BY <1>4 DEF DropExtension
<1>5. CASE CreateExtension
  BY <1>5 DEF CreateExtension
<1>6. CASE Overflow
  BY <1>6 DEF Overflow
<1>7. CASE Accept
  BY <1>7 DEF Accept, AcceptMessages, InvalidateCaches, InvalidateCache, LostTo,
         InvalidatesMeta, IsOurSchema
<1>8. CASE StartStatement
  BY <1>8 DEF StartStatement, KeepsSnapshot, AcceptMessages, InvalidateCaches,
         InvalidateCache, LostTo, InvalidatesMeta, IsOurSchema, AtStart
<1>9. CASE EndStatement
  BY <1>9 DEF EndStatement, CommitTx, LeaveStatement, EndTransaction, NoTransaction
<1>10. CASE StatementError
  BY <1>10 DEF StatementError, RollbackTx, LostByRollback, UndoesSecrets,
       RoleParts, LeaveStatement, EndTransaction, NoTransaction
<1>11. CASE BeginBlock
  BY <1>11 DEF BeginBlock, AcceptMessages, InvalidateCaches, InvalidateCache, LostTo,
         InvalidatesMeta, IsOurSchema, AtStart
<1>12. CASE EndBlock
  BY <1>12 DEF EndBlock, CommitTx, RollbackTx, LostByRollback, UndoesSecrets,
         RoleParts, LeaveStatement, EndTransaction, NoTransaction
<1>13. CASE IsRegisteredCached
  BY <1>13 DEF IsRegisteredCached
<1>14. CASE IsRegisteredLoad
  BY <1>14 DEF IsRegisteredLoad
<1>15. CASE IsRegisteredAbsent
  BY <1>15 DEF IsRegisteredAbsent, Reset
<1>16. CASE LoadServer
  BY <1>16 DEF LoadServer, ReadServers, Behind
<1>17. CASE LoadMapping
  BY <1>17 DEF LoadMapping
<1>18. CASE BuildFunctions
  BY <1>18 DEF BuildFunctions
<1>19. CASE GetInstance
  BY <1>19 DEF GetInstance
<1>20. CASE RecycleDdb
  BY <1>20 DEF RecycleDdb, Reset
<1>21. CASE CreateInstance
  BY <1>21 DEF CreateInstance
<1>22. CASE AttachAndLoad
  BY <1>22 DEF AttachAndLoad, ReadServers, Behind
<1>23. CASE BeginTx
  BY <1>23 DEF BeginTx
<1>24. CASE CheckExtensions
  BY <1>24 DEF CheckExtensions, SecretsInv, HasInstance
<1>25. CASE LoadExtensions
  BY <1>25 DEF LoadExtensions
<1>26. CASE DropSecrets
  BY <1>26 DEF DropSecrets, SetSecrets
<1>27. CASE ListSecrets
  BY <1>27 DEF ListSecrets, ReadServers, Behind
<1>28. CASE MakeSecrets
  BY <1>28 DEF MakeSecrets, SetSecrets
<1>29. CASE UNCHANGED vars
  BY <1>29 DEF vars
<1>30. CASE SetRole
  BY <1>30 DEF SetRole, RoleParts
<1> QED
  BY <1>1, <1>2, <1>3, <1>4, <1>5, <1>6, <1>7, <1>8,
     <1>9, <1>10, <1>11, <1>12, <1>13, <1>14, <1>15, <1>16,
     <1>17, <1>18, <1>19, <1>20, <1>21, <1>22, <1>23, <1>24,
     <1>25, <1>26, <1>27, <1>28, <1>29, <1>30
  DEF Next

\* The inductive invariant: types, the order of the versions, and one part per
\* thing that is refreshed.
IInv ==
    TypeOK /\ Ordered /\ SecretsInv /\ UserDataInv /\ MetaInv /\ ExtensionsInv

LEMMA IInvHolds == Spec => []IInv
<1> USE BoundsAssumption DEF BoundsAssumption
<1>1. ASSUME Init PROVE IInv
  <2>1. TypeOK
    BY <1>1, InitType
  <2>2. Ordered /\ ExtensionsInv
    BY <1>1 DEF Init, Ordered, Untouched, ExtensionsInv, NoTransaction
  <2>3. SecretsInv /\ UserDataInv /\ MetaInv
    BY <1>1 DEF Init, SecretsInv, SecretsFresh, UserDataInv, MetaInv, HasInstance
  <2> QED
    BY <2>1, <2>2, <2>3 DEF IInv
<1>2. ASSUME IInv, [Next]_vars PROVE IInv'
  <2>1. pc = "make" => readFdw <= fdw
    BY <1>2 DEF IInv, SecretsInv
  <2> QED
    BY <1>2, <2>1, TypeStep, OrderedStep, SecretsStep, UserDataStep, MetaStep,
       ExtensionsStep
    DEF IInv
<1> QED
  BY <1>1, <1>2, PTL DEF Spec

\* A statement that DuckDB runs sees secrets at least as new as its transaction
\* (RefreshConnectionState and the syscache callback), except after a recycled
\* instance, a rolled back refresh, a message taken during the load, a load
\* with a snapshot older than a message taken before, or a change of the role
\* after the load.
THEOREM SecretsAreFresh == Spec => []SecretsFresh
<1>1. IInv => SecretsFresh
  BY DEF IInv, SecretsInv
<1> QED
  BY <1>1, IInvHolds, PTL

\* A statement that DuckDB runs has the extensions that were listed when its
\* transaction started (IsExtensionsSeqLessThan and UpdateExtensionsSeq).
THEOREM ExtensionsAreFresh == Spec => []ExtensionsFresh
<1>1. IInv => ExtensionsFresh
  BY DEF IInv, ExtensionsInv, ExtensionsFresh
<1> QED
  BY <1>1, IInvHolds, PTL

\* An instance is created with user data at least as new as the transaction
\* (InitUserDataCache and its callback), except after a message taken during the
\* load, a load with a snapshot older than a message taken before, or a change
\* of the role after the load.
THEOREM UserDataIsFresh == Spec => []UserDataFresh
<1>1. IInv => UserDataFresh
  BY DEF IInv, UserDataInv, UserDataFresh
<1> QED
  BY <1>1, IInvHolds, PTL

\* Whether DuckDB or Postgres runs a statement follows what is true of the
\* extension since the transaction started (IsExtensionRegistered).
THEOREM DecisionsAreCurrent == Spec => []DecisionIsCurrent
<1>1. IInv => DecisionIsCurrent
  BY DEF IInv, MetaInv, TypeOK, Values, Starts, DecisionIsCurrent
<1> QED
  BY <1>1, IInvHolds, PTL

================================================================================
