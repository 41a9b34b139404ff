---------------------------- MODULE BgWorkerProofs ----------------------------
(***************************************************************************)
(* Proofs about BgWorker, for any number of backends and worker slots, and *)
(* any number of failures and restarts.                                    *)
(***************************************************************************)
EXTENDS BgWorker, TLAPS

LEMMA ShapeStep ==
  ASSUME Shape, [Next]_vars
  PROVE  Shape'
<1> USE DEF Shape, WorkerStates
<1>1. ASSUME NEW w \in Workers, StartBackgroundWorkerIfNeeded(w) PROVE Shape'
  BY <1>1 DEF StartBackgroundWorkerIfNeeded, Step, evars, bvars
<1>2. ASSUME NEW w \in Workers, WorkerStart(w) PROVE Shape'
  BY <1>2 DEF WorkerStart, CanTakeBgwLockForDatabase, Step, evars, bvars
<1>3. ASSUME NEW w \in Workers, WorkerConnect(w) PROVE Shape'
  BY <1>3 DEF WorkerConnect, Step, evars, bvars
<1>4. ASSUME NEW w \in Workers, WorkerSetState(w) PROVE Shape'
  BY <1>4 DEF WorkerSetState, Step, evars, bvars
<1>5. ASSUME NEW w \in Workers, WorkerGivesUp(w) PROVE Shape'
  BY <1>5 DEF WorkerGivesUp, Step, evars, bvars
<1>6. ASSUME NEW w \in Workers, WorkerConnectionFails(w) PROVE Shape'
  BY <1>6 DEF WorkerConnectionFails, Step, evars, bvars
<1>7. ASSUME NEW w \in Workers, WorkerCheck(w) PROVE Shape'
  BY <1>7 DEF WorkerCheck, Step, evars, bvars
<1>8. ASSUME NEW w \in Workers, WorkerWake(w) PROVE Shape'
  BY <1>8 DEF WorkerWake, Step, evars, bvars
<1>9. ASSUME NEW w \in Workers, WorkerError(w) PROVE Shape'
  BY <1>9 DEF WorkerError, Step, evars, bvars
<1>10. ASSUME NEW w \in Workers, WorkerFatal(w) PROVE Shape'
  BY <1>10 DEF WorkerFatal, Step, evars, bvars
<1>11. ASSUME NEW w \in Workers, WorkerRemoveState(w) PROVE Shape'
  BY <1>11 DEF WorkerRemoveState, Step, evars, bvars
<1>12. ASSUME NEW w \in Workers, WorkerExit(w) PROVE Shape'
  BY <1>12 DEF WorkerExit, Step, evars, bvars
<1>13. CASE TriggerActivity
  BY <1>13 DEF TriggerActivity, Step, evars, bvars
<1>14. ASSUME NEW b \in Backends, PossiblyReuseBgwSessionHint(b) PROVE Shape'
  BY <1>14 DEF PossiblyReuseBgwSessionHint, Step, evars, bvars
<1>15. ASSUME NEW b \in Backends, ResetDuckdb(b) PROVE Shape'
  BY <1>15 DEF ResetDuckdb, Step, evars, bvars
<1>16. ASSUME NEW b \in Backends, BackendExit(b) PROVE Shape'
  BY <1>16 DEF BackendExit, Step, evars, bvars
<1>17. ASSUME NEW b \in Backends, BackendStart(b) PROVE Shape'
  BY <1>17 DEF BackendStart, Step, evars, bvars
<1>18. CASE ToggleMotherDuck
  BY <1>18 DEF ToggleMotherDuck, Step, evars, bvars
<1>u. CASE UNCHANGED vars
  BY <1>u DEF vars, evars, bvars
<1> QED
  BY <1>u, <1>1, <1>2, <1>3, <1>4, <1>5, <1>6, <1>7, <1>8, <1>9,
     <1>10, <1>11, <1>12, <1>13, <1>14, <1>15, <1>16, <1>17, <1>18
  DEF Next, WorkerStep, BackendStep

LEMMA CountsStep ==
  ASSUME Counts, [Next]_vars
  PROVE  Counts'
<1> USE DEF Counts
<1>1. ASSUME NEW w \in Workers, StartBackgroundWorkerIfNeeded(w) PROVE Counts'
  BY <1>1 DEF StartBackgroundWorkerIfNeeded, Step, evars, bvars
<1>2. ASSUME NEW w \in Workers, WorkerStart(w) PROVE Counts'
  BY <1>2 DEF WorkerStart, evars, bvars
<1>3. ASSUME NEW w \in Workers, WorkerConnect(w) PROVE Counts'
  BY <1>3 DEF WorkerConnect, Step, evars, bvars
<1>4. ASSUME NEW w \in Workers, WorkerSetState(w) PROVE Counts'
  BY <1>4 DEF WorkerSetState, ForceCheck, bvars
<1>5. ASSUME NEW w \in Workers, WorkerGivesUp(w) PROVE Counts'
  BY <1>5 DEF WorkerGivesUp, Step, evars, bvars
<1>6. ASSUME NEW w \in Workers, WorkerConnectionFails(w) PROVE Counts'
  BY <1>6 DEF WorkerConnectionFails, Step, evars, bvars
<1>7. ASSUME NEW w \in Workers, WorkerCheck(w) PROVE Counts'
  BY <1>7 DEF WorkerCheck, Step, evars, bvars
<1>8. ASSUME NEW w \in Workers, WorkerWake(w) PROVE Counts'
  BY <1>8 DEF WorkerWake, Step, evars, bvars
<1>9. ASSUME NEW w \in Workers, WorkerError(w) PROVE Counts'
  BY <1>9 DEF WorkerError, Step, evars, bvars
<1>10. ASSUME NEW w \in Workers, WorkerFatal(w) PROVE Counts'
  BY <1>10 DEF WorkerFatal, Step, evars, bvars
<1>11. ASSUME NEW w \in Workers, WorkerRemoveState(w) PROVE Counts'
  BY <1>11 DEF WorkerRemoveState, Step, evars, bvars
<1>12. ASSUME NEW w \in Workers, WorkerExit(w) PROVE Counts'
  BY <1>12 DEF WorkerExit, Step, evars, bvars
<1>13. CASE TriggerActivity
  BY <1>13 DEF TriggerActivity, Step, evars, bvars
<1>14. ASSUME NEW b \in Backends, PossiblyReuseBgwSessionHint(b) PROVE Counts'
  BY <1>14 DEF PossiblyReuseBgwSessionHint, Step, evars, bvars
<1>15. ASSUME NEW b \in Backends, ResetDuckdb(b) PROVE Counts'
  BY <1>15 DEF ResetDuckdb, Step, evars, bvars
<1>16. ASSUME NEW b \in Backends, BackendExit(b) PROVE Counts'
  BY <1>16 DEF BackendExit, Step, evars, bvars
<1>17. ASSUME NEW b \in Backends, BackendStart(b) PROVE Counts'
  BY <1>17 DEF BackendStart, Step, evars, bvars
<1>18. CASE ToggleMotherDuck
  BY <1>18 DEF ToggleMotherDuck, Step, evars, bvars
<1>u. CASE UNCHANGED vars
  BY <1>u DEF vars, evars, bvars
<1> QED
  BY <1>u, <1>1, <1>2, <1>3, <1>4, <1>5, <1>6, <1>7, <1>8, <1>9,
     <1>10, <1>11, <1>12, <1>13, <1>14, <1>15, <1>16, <1>17, <1>18
  DEF Next, WorkerStep, BackendStep

LEMMA FlagsStep ==
  ASSUME Flags, [Next]_vars
  PROVE  Flags'
<1> USE DEF Flags
<1>1. ASSUME NEW w \in Workers, StartBackgroundWorkerIfNeeded(w) PROVE Flags'
  BY <1>1, Zenon DEF StartBackgroundWorkerIfNeeded, evars
<1>2. ASSUME NEW w \in Workers, WorkerStart(w) PROVE Flags'
  BY <1>2, Zenon DEF WorkerStart, evars
<1>3. ASSUME NEW w \in Workers, WorkerConnect(w) PROVE Flags'
  BY <1>3, Zenon DEF WorkerConnect, evars
<1>4. ASSUME NEW w \in Workers, WorkerSetState(w) PROVE Flags'
  BY <1>4, Zenon DEF WorkerSetState, evars
<1>5. ASSUME NEW w \in Workers, WorkerGivesUp(w) PROVE Flags'
  BY <1>5, Zenon DEF WorkerGivesUp, evars
<1>6. ASSUME NEW w \in Workers, WorkerConnectionFails(w) PROVE Flags'
  BY <1>6, Zenon DEF WorkerConnectionFails, evars
<1>7. ASSUME NEW w \in Workers, WorkerCheck(w) PROVE Flags'
  BY <1>7, Zenon DEF WorkerCheck, evars
<1>8. ASSUME NEW w \in Workers, WorkerWake(w) PROVE Flags'
  BY <1>8, Zenon DEF WorkerWake, evars
<1>9. ASSUME NEW w \in Workers, WorkerError(w) PROVE Flags'
  BY <1>9, Zenon DEF WorkerError, evars
<1>10. ASSUME NEW w \in Workers, WorkerFatal(w) PROVE Flags'
  BY <1>10, Zenon DEF WorkerFatal, evars
<1>11. ASSUME NEW w \in Workers, WorkerRemoveState(w) PROVE Flags'
  BY <1>11, Zenon DEF WorkerRemoveState, evars
<1>12. ASSUME NEW w \in Workers, WorkerExit(w) PROVE Flags'
  BY <1>12, Zenon DEF WorkerExit, evars
<1>13. CASE TriggerActivity
  BY <1>13, Zenon DEF TriggerActivity, evars
<1>14. ASSUME NEW b \in Backends, PossiblyReuseBgwSessionHint(b) PROVE Flags'
  BY <1>14, Zenon DEF PossiblyReuseBgwSessionHint, evars
<1>15. ASSUME NEW b \in Backends, ResetDuckdb(b) PROVE Flags'
  BY <1>15, Zenon DEF ResetDuckdb, UnclaimBgwSessionHint
<1>16. ASSUME NEW b \in Backends, BackendExit(b) PROVE Flags'
  BY <1>16, Zenon DEF BackendExit, UnclaimBgwSessionHint
<1>17. ASSUME NEW b \in Backends, BackendStart(b) PROVE Flags'
  BY <1>17, Zenon DEF BackendStart, evars
<1>18. CASE ToggleMotherDuck
  BY <1>18, Zenon DEF ToggleMotherDuck, evars
<1>u. CASE UNCHANGED vars
  BY <1>u, Zenon DEF vars, evars, bvars
<1> QED
  BY <1>u, <1>1, <1>2, <1>3, <1>4, <1>5, <1>6, <1>7, <1>8, <1>9,
     <1>10, <1>11, <1>12, <1>13, <1>14, <1>15, <1>16, <1>17, <1>18
  DEF Next, WorkerStep, BackendStep

\* Every variable keeps its type.
THEOREM TypeCorrect == Spec => []TypeOK
<1>1. Init => TypeOK
  <2>1. Init => Shape /\ Counts
    BY DEF Init, Shape, Counts, WorkerStates, ForceCheck
  <2>2. Init => Flags
    BY Zenon DEF Init, Flags
  <2> QED
    BY <2>1, <2>2 DEF TypeOK
<1>2. TypeOK /\ [Next]_vars => TypeOK'
  BY ShapeStep, CountsStep, FlagsStep DEF TypeOK
<1> QED
  BY <1>1, <1>2, PTL DEF Spec

\* Only the worker that has the lock file gets past it, so the entry is set and
\* removed by one worker at a time.
LEMMA EntryStep ==
  ASSUME Shape, EntryIsOwn, [Next]_vars
  PROVE  EntryIsOwn'
<1> USE WorkersAssumption DEF Shape, EntryIsOwn, WorkerStates
<1>1. ASSUME NEW w \in Workers, StartBackgroundWorkerIfNeeded(w) PROVE EntryIsOwn'
  BY <1>1 DEF StartBackgroundWorkerIfNeeded, Step, evars, bvars
<1>2. ASSUME NEW w \in Workers, WorkerStart(w) PROVE EntryIsOwn'
  BY <1>2 DEF WorkerStart, CanTakeBgwLockForDatabase, Step, evars, bvars
<1>3. ASSUME NEW w \in Workers, WorkerConnect(w) PROVE EntryIsOwn'
  BY <1>3 DEF WorkerConnect, Step, evars, bvars
<1>4. ASSUME NEW w \in Workers, WorkerSetState(w) PROVE EntryIsOwn'
  BY <1>4 DEF WorkerSetState, Step, evars, bvars
<1>5. ASSUME NEW w \in Workers, WorkerGivesUp(w) PROVE EntryIsOwn'
  BY <1>5 DEF WorkerGivesUp, Step, evars, bvars
<1>6. ASSUME NEW w \in Workers, WorkerConnectionFails(w) PROVE EntryIsOwn'
  BY <1>6 DEF WorkerConnectionFails, Step, evars, bvars
<1>7. ASSUME NEW w \in Workers, WorkerCheck(w) PROVE EntryIsOwn'
  BY <1>7 DEF WorkerCheck, Step, evars, bvars
<1>8. ASSUME NEW w \in Workers, WorkerWake(w) PROVE EntryIsOwn'
  BY <1>8 DEF WorkerWake, Step, evars, bvars
<1>9. ASSUME NEW w \in Workers, WorkerError(w) PROVE EntryIsOwn'
  BY <1>9 DEF WorkerError, Step, evars, bvars
<1>10. ASSUME NEW w \in Workers, WorkerFatal(w) PROVE EntryIsOwn'
  BY <1>10 DEF WorkerFatal, Step, evars, bvars
<1>11. ASSUME NEW w \in Workers, WorkerRemoveState(w) PROVE EntryIsOwn'
  BY <1>11 DEF WorkerRemoveState, Step, evars, bvars
<1>12. ASSUME NEW w \in Workers, WorkerExit(w) PROVE EntryIsOwn'
  BY <1>12 DEF WorkerExit, Step, evars, bvars
<1>13. CASE TriggerActivity
  BY <1>13 DEF TriggerActivity, Step, evars, bvars
<1>14. ASSUME NEW b \in Backends, PossiblyReuseBgwSessionHint(b) PROVE EntryIsOwn'
  BY <1>14 DEF PossiblyReuseBgwSessionHint, Step, evars, bvars
<1>15. ASSUME NEW b \in Backends, ResetDuckdb(b) PROVE EntryIsOwn'
  BY <1>15 DEF ResetDuckdb, Step, evars, bvars
<1>16. ASSUME NEW b \in Backends, BackendExit(b) PROVE EntryIsOwn'
  BY <1>16 DEF BackendExit, Step, evars, bvars
<1>17. ASSUME NEW b \in Backends, BackendStart(b) PROVE EntryIsOwn'
  BY <1>17 DEF BackendStart, Step, evars, bvars
<1>18. CASE ToggleMotherDuck
  BY <1>18 DEF ToggleMotherDuck, Step, evars, bvars
<1>u. CASE UNCHANGED vars
  BY <1>u DEF vars, evars, bvars
<1> QED
  BY <1>u, <1>1, <1>2, <1>3, <1>4, <1>5, <1>6, <1>7, <1>8, <1>9,
     <1>10, <1>11, <1>12, <1>13, <1>14, <1>15, <1>16, <1>17, <1>18
  DEF Next, WorkerStep, BackendStep

\* Through every race of registrations, failures and restarts, the worker in
\* the loop has the lock file and its own entry in shared memory: GetState
\* never fails, and PG_FINALLY never removes the entry of another worker.
THEOREM EntryOwned == Spec => []EntryIsOwn
<1>1. Init => Shape /\ EntryIsOwn
  BY DEF Init, Shape, EntryIsOwn, WorkerStates
<1>2. Shape /\ EntryIsOwn /\ [Next]_vars => (Shape /\ EntryIsOwn)'
  BY ShapeStep, EntryStep
<1> QED
  BY <1>1, <1>2, PTL DEF Spec

LEMMA HintStep ==
  ASSUME Shape, HintNotLeaked, [Next]_vars
  PROVE  HintNotLeaked'
<1> USE WorkersAssumption DEF Shape, HintNotLeaked
<1>1. ASSUME NEW w \in Workers, StartBackgroundWorkerIfNeeded(w) PROVE HintNotLeaked'
  BY <1>1 DEF StartBackgroundWorkerIfNeeded, Step, evars, bvars
<1>2. ASSUME NEW w \in Workers, WorkerStart(w) PROVE HintNotLeaked'
  BY <1>2 DEF WorkerStart, evars, bvars
<1>3. ASSUME NEW w \in Workers, WorkerConnect(w) PROVE HintNotLeaked'
  BY <1>3 DEF WorkerConnect, Step, evars, bvars
<1>4. ASSUME NEW w \in Workers, WorkerSetState(w) PROVE HintNotLeaked'
  BY <1>4 DEF WorkerSetState, Step, evars, bvars
<1>5. ASSUME NEW w \in Workers, WorkerGivesUp(w) PROVE HintNotLeaked'
  BY <1>5 DEF WorkerGivesUp, Step, evars, bvars
<1>6. ASSUME NEW w \in Workers, WorkerConnectionFails(w) PROVE HintNotLeaked'
  BY <1>6 DEF WorkerConnectionFails, Step, evars, bvars
<1>7. ASSUME NEW w \in Workers, WorkerCheck(w) PROVE HintNotLeaked'
  BY <1>7 DEF WorkerCheck, Step, evars, bvars
<1>8. ASSUME NEW w \in Workers, WorkerWake(w) PROVE HintNotLeaked'
  BY <1>8 DEF WorkerWake, Step, evars, bvars
<1>9. ASSUME NEW w \in Workers, WorkerError(w) PROVE HintNotLeaked'
  BY <1>9 DEF WorkerError, Step, evars, bvars
<1>10. ASSUME NEW w \in Workers, WorkerFatal(w) PROVE HintNotLeaked'
  BY <1>10 DEF WorkerFatal, Step, evars, bvars
<1>11. ASSUME NEW w \in Workers, WorkerRemoveState(w) PROVE HintNotLeaked'
  BY <1>11 DEF WorkerRemoveState, Step, evars, bvars
<1>12. ASSUME NEW w \in Workers, WorkerExit(w) PROVE HintNotLeaked'
  BY <1>12 DEF WorkerExit, Step, evars, bvars
<1>13. CASE TriggerActivity
  BY <1>13 DEF TriggerActivity, Step, evars, bvars
<1>14. ASSUME NEW b \in Backends, PossiblyReuseBgwSessionHint(b) PROVE HintNotLeaked'
  BY <1>14 DEF PossiblyReuseBgwSessionHint, Step, evars, bvars
<1>15. ASSUME NEW b \in Backends, ResetDuckdb(b) PROVE HintNotLeaked'
  BY <1>15 DEF ResetDuckdb, UnclaimBgwSessionHint
<1>16. ASSUME NEW b \in Backends, BackendExit(b) PROVE HintNotLeaked'
  <2> SUFFICES ASSUME reused' PROVE HintNotLeaked'
    OBVIOUS
  <2>1. reused /\ (hint[b] => ~(hooks[b] > 0))
    <3>1. CASE hooks[b] > 0
      <4>1. reused' = (reused /\ ~(hint[b] /\ entry # None))
        BY <1>16, <3>1 DEF BackendExit, UnclaimBgwSessionHint
      <4> QED
        BY <4>1
    <3>2. CASE ~(hooks[b] > 0)
      BY <1>16, <3>2 DEF BackendExit
    <3> QED
      BY <3>1, <3>2
  <2>2. PICK c \in alive : hint[c] /\ hooks[c] > 0
    BY <2>1
  <2>3. c # b
    BY <2>1, <2>2
  <2>4. c \in alive' /\ hint'[c] = hint[c] /\ hooks'[c] = hooks[c] /\ UNCHANGED entry
    BY <1>16, <2>3 DEF BackendExit
  <2> QED
    BY <2>1, <2>2, <2>4
<1>17. ASSUME NEW b \in Backends, BackendStart(b) PROVE HintNotLeaked'
  BY <1>17 DEF BackendStart, Step, evars, bvars
<1>18. CASE ToggleMotherDuck
  BY <1>18 DEF ToggleMotherDuck, Step, evars, bvars
<1>u. CASE UNCHANGED vars
  BY <1>u DEF vars, evars, bvars
<1> QED
  BY <1>u, <1>1, <1>2, <1>3, <1>4, <1>5, <1>6, <1>7, <1>8, <1>9,
     <1>10, <1>11, <1>12, <1>13, <1>14, <1>15, <1>16, <1>17, <1>18
  DEF Next, WorkerStep, BackendStep

\* The session hint is never lost: while it is marked as reused, a connected
\* backend has it and will give it back at its exit.
THEOREM HintKept == Spec => []HintNotLeaked
<1>1. Init => Shape /\ HintNotLeaked
  BY DEF Init, Shape, HintNotLeaked, WorkerStates
<1>2. Shape /\ HintNotLeaked /\ [Next]_vars => (Shape /\ HintNotLeaked)'
  BY ShapeStep, HintStep
<1> QED
  BY <1>1, <1>2, PTL DEF Spec
=============================================================================
