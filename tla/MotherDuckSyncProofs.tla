------------------------ MODULE MotherDuckSyncProofs ------------------------
(***************************************************************************)
(* Proofs about MotherDuckSync for any schemas, names, workers, sessions   *)
(* and bounds.                                                             *)
(***************************************************************************)
EXTENDS MotherDuckSync, TLAPS

\* The inductive invariant.
SyncInv == TypeOK /\ TodoSeen

\* The versions the bounds leave room for.
LEMMA VersionFacts ==
    /\ 0 \in Versions /\ 1 \in Versions
    /\ \A v \in Versions : v < MaxVersion => v + 1 \in Versions
  BY SyncAssumption DEF Versions

LEMMA InitSync == Init => SyncInv
<1> SUFFICES ASSUME Init PROVE SyncInv
  OBVIOUS
<1>1. NoShell \in Rows
  BY VersionFacts DEF NoShell, Rows
<1>2. CatalogTypes
  BY <1>1, VersionFacts DEF Init, CatalogTypes
<1>3. RoundTypes /\ BoundTypes
  BY VersionFacts DEF Init, RoundTypes, BoundTypes
<1> QED
  BY <1>2, <1>3 DEF Init, SyncInv, TypeOK, TodoSeen

\* The rows that CREATE and DROP leave in duckdb.tables are rows.
LEMMA ShellTypes ==
    ASSUME TypeOK
    PROVE  /\ NoShell \in Rows
           /\ \A t \in Tables, d \in inForce : UserShell(t, d) \in Rows
           /\ \A s \in Syncers, t \in Tables : SyncedShell(s, t) \in Rows
           /\ [t \in Tables |-> Syncable(t)] \in [Tables -> Versions]
<1> USE VersionFacts DEF TypeOK, Rows
<1>1. NoShell \in Rows
  BY DEF NoShell
<1>2. \A t \in Tables, d \in inForce : UserShell(t, d) \in Rows
  BY DEF UserShell, CatalogTypes
<1>3. \A s \in Syncers, t \in Tables : SyncedShell(s, t) \in Rows
  <2> SUFFICES ASSUME NEW s \in Syncers, NEW t \in Tables
               PROVE  SyncedShell(s, t) \in Rows
    OBVIOUS
  <2>1. ver[s] \in Versions /\ snap[s] \in [Tables -> Versions] /\ dflt[s] \in Defaults
    BY DEF RoundTypes
  <2> QED
    BY <2>1 DEF SyncedShell
<1>4. [t \in Tables |-> Syncable(t)] \in [Tables -> Versions]
  BY DEF Syncable, CatalogTypes
<1> QED
  BY <1>1, <1>2, <1>3, <1>4

\* Steps of users and other MotherDuck clients leave the rounds alone.
LEMMA UserTypes ==
    ASSUME SyncInv,
           \/ \E t \in Tables : UserStep(t) \/ UserEnds(t)
           \/ \E x \in Schemas : Revoke(x)
           \/ ChangeDefault
    PROVE  SyncInv'
<1> USE VersionFacts DEF SyncInv, TypeOK
<1>1. UNCHANGED roundVars /\ BoundTypes'
  <2>1. ASSUME NEW t \in Tables, UserStep(t)
        PROVE  UNCHANGED <<roundVars, boundVars, optVars>>
    BY <2>1 DEF UserStep, MdChange, UserCreate, UserDrop, UserPin, UserConflict
  <2>2. ASSUME NEW t \in Tables, UserEnds(t)
        PROVE  UNCHANGED roundVars /\ BoundTypes'
    BY <2>2 DEF UserEnds, UserCreateEnds, UserDropEnds, PgCommits, optVars, BoundTypes
  <2>3. ASSUME NEW x \in Schemas, Revoke(x)
        PROVE  UNCHANGED roundVars /\ BoundTypes'
    BY <2>3 DEF Revoke, optVars, BoundTypes
  <2>4. CASE ChangeDefault
    BY <2>4 DEF ChangeDefault, boundVars, BoundTypes
  <2> QED
    BY <2>1, <2>2, <2>3, <2>4 DEF boundVars, optVars, BoundTypes
<1>2. RoundTypes' /\ TodoSeen'
  BY <1>1 DEF roundVars, RoundTypes, TodoSeen
<1>3. CatalogTypes'
  <2> USE DEF optVars
  <2>1. ASSUME NEW t \in Tables, MdChange(t) \/ UserCreate(t)
        PROVE  CatalogTypes'
    <3>1. mdVersion' \in Versions /\ md' \in [Tables -> Versions]
      BY <2>1 DEF MdChange, UserCreate, CatalogTypes
    <3>2. creating' \in [Tables -> Versions]
      BY <2>1 DEF MdChange, UserCreate, userVars, CatalogTypes
    <3>3. unsupported' \subseteq Tables /\ UNCHANGED <<optVars, dropping, pgVars>>
      BY <2>1 DEF MdChange, UserCreate, userVars, CatalogTypes
    <3> QED
      BY <3>1, <3>2, <3>3 DEF pgVars, CatalogTypes
  <2>2. ASSUME NEW t \in Tables, UserDrop(t)
        PROVE  CatalogTypes'
    <3>1. mdVersion' \in Versions /\ md' \in [Tables -> Versions]
      BY <2>2 DEF UserDrop, mdVars, CatalogTypes
    <3>2. unsupported' \subseteq Tables /\ dropping' \subseteq Tables
      BY <2>2 DEF UserDrop, mdVars, CatalogTypes
    <3> QED
      BY <2>2, <3>1, <3>2 DEF UserDrop, pgVars, CatalogTypes
  <2>3. ASSUME NEW t \in Tables, UserPin(t) \/ UserConflict(t)
        PROVE  CatalogTypes'
    BY <2>3 DEF UserPin, UserConflict, mdVars, userVars, CatalogTypes
  <2>4. ASSUME NEW t \in Tables, UserEnds(t)
        PROVE  CatalogTypes'
    <3>1. \E new \in Rows : PgCommits(t, new)
      BY <2>4, ShellTypes DEF UserEnds, UserCreateEnds, UserDropEnds
    <3>2. shell' \in [Tables -> Rows]
      BY <3>1 DEF PgCommits, CatalogTypes
    <3>3. creating' \in [Tables -> Versions] /\ dropping' \subseteq Tables
      BY <2>4 DEF UserEnds, UserCreateEnds, UserDropEnds, CatalogTypes
    <3>4. UNCHANGED <<mdVars, optVars, pinned, conflict, pgSchemas, access>>
      BY <2>4 DEF UserEnds, UserCreateEnds, UserDropEnds
    <3> QED
      BY <3>2, <3>3, <3>4 DEF mdVars, CatalogTypes
  <2>5. ASSUME NEW x \in Schemas, Revoke(x)
        PROVE  CatalogTypes'
    BY <2>5 DEF Revoke, mdVars, userVars, CatalogTypes
  <2>6. CASE ChangeDefault
    BY <2>6 DEF ChangeDefault, mdVars, userVars, pgVars, CatalogTypes
  <2> QED
    BY <2>1, <2>2, <2>3, <2>4, <2>5, <2>6 DEF UserStep
<1> QED
  BY <1>1, <1>2, <1>3

\* The steps with which a round starts or is given up, and those in between.
LEMMA RoundStartTypes ==
    ASSUME SyncInv, NEW s \in Syncers,
           \/ FetchVersion(s) \/ BeginSync(s) \/ Abort(s) \/ Restart(s)
           \/ \E c \in BOOLEAN : ForceSync(s, c)
    PROVE  SyncInv'
<1> USE VersionFacts DEF SyncInv, TypeOK
<1>1. UNCHANGED <<mdVars, optVars, userVars, pgVars>> /\ BoundTypes'
  BY DEF FetchVersion, BeginSync, Abort, Restart, ForceSync, boundVars, optVars,
         BoundTypes
<1>2. CatalogTypes'
  BY <1>1 DEF mdVars, optVars, userVars, pgVars, CatalogTypes
<1>3. CASE FetchVersion(s) \/ \E c \in BOOLEAN : ForceSync(s, c)
  <2>1. ver' \in [Syncers -> Versions] /\ lastKnown' \in [Syncers -> Versions]
    <3>1. ver' = [ver EXCEPT ![s] = mdVersion]
      BY <1>3 DEF FetchVersion, ForceSync
    <3>2. UNCHANGED lastKnown \/ lastKnown' = [lastKnown EXCEPT ![s] = 0]
      BY <1>3 DEF FetchVersion, ForceSync
    <3> QED
      BY <3>1, <3>2 DEF CatalogTypes, RoundTypes
  <2>2. /\ pc' \in [Syncers -> {"idle", "fetched", "syncing"}]
        /\ cascade' \in [Syncers -> BOOLEAN]
    BY <1>3 DEF FetchVersion, ForceSync, RoundTypes
  <2>3. UNCHANGED <<snap, schemasLeft, todo, ok, dflt, outcome>>
    BY <1>3 DEF FetchVersion, ForceSync
  <2> QED
    BY <1>1, <1>2, <2>1, <2>2, <2>3 DEF RoundTypes, TodoSeen
<1>4. CASE BeginSync(s)
  <2>1. lastKnown' \in [Syncers -> Versions] /\ UNCHANGED <<ver, cascade, dflt>>
    <3>1. UNCHANGED lastKnown \/ lastKnown' = [lastKnown EXCEPT ![s] = ver[s]]
      BY <1>4 DEF BeginSync, KnownVersion
    <3>2. UNCHANGED <<ver, cascade, dflt>>
      BY <1>4 DEF BeginSync
    <3> QED
      BY <3>1, <3>2 DEF RoundTypes
  <2>2. /\ pc' \in [Syncers -> {"idle", "fetched", "syncing"}]
        /\ outcome' \in [Syncers -> {"none", "full", "partial"}]
    BY <1>4 DEF BeginSync, RoundTypes
  <2>s. schemasLeft' \in [Syncers -> SUBSET Schemas]
    BY <1>4 DEF BeginSync, RoundTypes
  <2>o. ok' \in [Syncers -> BOOLEAN]
    BY <1>4 DEF BeginSync, RoundTypes
  <2>3. \/ UNCHANGED <<snap, todo>>
        \/ /\ snap' = [snap EXCEPT ![s] = [t \in Tables |-> Syncable(t)]]
           /\ todo' = [todo EXCEPT ![s] = {}]
    BY <1>4 DEF BeginSync
  <2>4. /\ snap' \in [Syncers -> [Tables -> Versions]]
        /\ todo' \in [Syncers -> SUBSET Tables]
        /\ TodoSeen'
    <3> DEFINE seen == [t \in Tables |-> Syncable(t)]
    <3>1. seen \in [Tables -> Versions]
      BY ShellTypes
    <3>2. \/ UNCHANGED <<snap, todo>>
          \/ snap' = [snap EXCEPT ![s] = seen] /\ todo' = [todo EXCEPT ![s] = {}]
      BY <2>3
    <3> HIDE DEF seen
    <3>3. snap' \in [Syncers -> [Tables -> Versions]]
      BY <3>1, <3>2 DEF RoundTypes
    <3>4. todo' \in [Syncers -> SUBSET Tables]
      BY <3>2 DEF RoundTypes
    <3>5. \A r \in Syncers : todo'[r] = {} \/ (todo'[r] = todo[r] /\ snap'[r] = snap[r])
      BY <3>2 DEF RoundTypes
    <3>6. TodoSeen'
      BY <3>5 DEF TodoSeen
    <3> QED
      BY <3>3, <3>4, <3>6
  <2> QED
    BY <1>1, <1>2, <2>1, <2>2, <2>s, <2>o, <2>4 DEF RoundTypes
<1>5. CASE Abort(s)
  <2>1. /\ pc' \in [Syncers -> {"idle", "fetched", "syncing"}]
        /\ lastKnown' \in [Syncers -> Versions]
        /\ schemasLeft' \in [Syncers -> SUBSET Schemas]
        /\ outcome' \in [Syncers -> {"none", "full", "partial"}]
    BY <1>5 DEF Abort, RoundTypes
  <2>2. todo' = [todo EXCEPT ![s] = {}] /\ UNCHANGED <<ver, snap, ok, cascade>>
    BY <1>5 DEF Abort
  <2>3. dflt' \in [Syncers -> Defaults]
    BY <1>5 DEF Abort, CatalogTypes, RoundTypes
  <2> QED
    BY <1>1, <1>2, <2>1, <2>2, <2>3 DEF RoundTypes, TodoSeen
<1>6. CASE Restart(s)
  <2>1. lastKnown' \in [Syncers -> Versions] /\ dflt' \in [Syncers -> Defaults]
    BY <1>6 DEF Restart, CatalogTypes, RoundTypes
  <2>2. UNCHANGED <<pc, ver, snap, schemasLeft, todo, ok, cascade, outcome>>
    BY <1>6 DEF Restart
  <2> QED
    BY <1>1, <1>2, <2>1, <2>2 DEF RoundTypes, TodoSeen
<1> QED
  BY <1>3, <1>4, <1>5, <1>6

\* The steps of a round in progress.
LEMMA RoundTypesKept ==
    ASSUME SyncInv, NEW s \in Syncers,
           \/ \E x \in Schemas : EnterSchema(s, x)
           \/ \E t \in Tables : SyncTable(s, t) \/ SyncTableRaced(s, t)
           \/ Cleanup(s)
    PROVE  SyncInv'
<1> USE VersionFacts DEF SyncInv, TypeOK
<1>1. ASSUME NEW x \in Schemas, EnterSchema(s, x)
      PROVE  SyncInv'
  <2>1. UNCHANGED <<mdVars, optVars, userVars, shell, pinned, conflict, pc, lastKnown,
                    ver, snap, ok, cascade, dflt, outcome>>
    BY <1>1 DEF EnterSchema
  <2>2. \/ UNCHANGED todo
        \/ todo' = [todo EXCEPT ![s] = {t \in Tables : t[1] = x /\ snap[s][t] # 0}]
    BY <1>1 DEF EnterSchema
  <2>3. todo' \in [Syncers -> SUBSET Tables] /\ TodoSeen'
    <3> DEFINE found == {t \in Tables : t[1] = x /\ snap[s][t] # 0}
    <3>1. found \subseteq Tables /\ \A t \in found : snap[s][t] # 0
      OBVIOUS
    <3>2. UNCHANGED todo \/ todo' = [todo EXCEPT ![s] = found]
      BY <2>2
    <3> HIDE DEF found
    <3> QED
      BY <2>1, <3>1, <3>2 DEF RoundTypes, TodoSeen
  <2>4. schemasLeft' \in [Syncers -> SUBSET Schemas]
    BY <1>1 DEF EnterSchema, RoundTypes
  <2>5. pgSchemas' \subseteq Schemas /\ access' \subseteq pgSchemas'
    BY <1>1 DEF EnterSchema, CatalogTypes
  <2>6. BoundTypes'
    BY <1>1 DEF EnterSchema, optVars, BoundTypes
  <2> QED
    BY <2>1, <2>3, <2>4, <2>5, <2>6 DEF mdVars, optVars, userVars, CatalogTypes,
                                        RoundTypes
<1>2. ASSUME NEW t \in Tables, SyncTable(s, t) \/ SyncTableRaced(s, t)
      PROVE  SyncInv'
  <2>1. UNCHANGED <<mdVars, optVars, conflict, pgSchemas, access, pc, lastKnown, ver,
                    snap, schemasLeft, cascade, dflt, outcome>>
    BY <1>2 DEF SyncTable, SyncTableRaced
  <2>2. todo' = [todo EXCEPT ![s] = @ \ {t}]
    BY <1>2 DEF SyncTable, SyncTableRaced
  <2>3. todo' \in [Syncers -> SUBSET Tables] /\ TodoSeen'
    BY <2>1, <2>2 DEF RoundTypes, TodoSeen
  <2>4. ok' \in [Syncers -> BOOLEAN]
    BY <1>2 DEF SyncTable, SyncTableRaced, NotOk, RoundTypes
  <2>5. UNCHANGED shell \/ \E new \in Rows : shell' = [shell EXCEPT ![t] = new]
    BY <1>2, ShellTypes DEF SyncTable, SyncTableRaced
  <2>6. shell' \in [Tables -> Rows]
    BY <2>5 DEF CatalogTypes
  <2>7. creating' \in [Tables -> Versions] /\ dropping' \subseteq Tables
    BY <1>2 DEF SyncTable, SyncTableRaced, userVars, CatalogTypes
  <2>8. pinned' \subseteq Tables /\ BoundTypes'
    BY <1>2, <2>1 DEF SyncTable, SyncTableRaced, boundVars, optVars, CatalogTypes,
                      BoundTypes
  <2> QED
    BY <2>1, <2>3, <2>4, <2>6, <2>7, <2>8 DEF mdVars, optVars, CatalogTypes, RoundTypes
<1>3. CASE Cleanup(s)
  <2>1. UNCHANGED <<mdVars, optVars, userVars, conflict, pgSchemas, access, lastKnown,
                    ver, snap, schemasLeft, todo, ok, cascade, dflt, boundVars>>
    BY <1>3 DEF Cleanup
  <2>2. /\ pc' \in [Syncers -> {"idle", "fetched", "syncing"}]
        /\ outcome' \in [Syncers -> {"none", "full", "partial"}]
    BY <1>3 DEF Cleanup, RoundTypes
  <2>3. shell' \in [Tables -> Rows] /\ pinned' \subseteq Tables
    BY <1>3, ShellTypes DEF Cleanup, CatalogTypes
  <2> QED
    BY <2>1, <2>2, <2>3 DEF mdVars, optVars, userVars, boundVars, CatalogTypes,
                            RoundTypes, BoundTypes, TodoSeen
<1> QED
  BY <1>1, <1>2, <1>3

\* Every step keeps the inductive invariant.
LEMMA StepSync ==
    ASSUME SyncInv, [Next]_vars
    PROVE  SyncInv'
<1>1. CASE UNCHANGED vars
  BY <1>1 DEF vars, mdVars, optVars, userVars, pgVars, roundVars, boundVars, SyncInv,
              TypeOK, CatalogTypes, RoundTypes, BoundTypes, TodoSeen
<1>2. CASE Next
  BY <1>2, UserTypes, RoundStartTypes, RoundTypesKept DEF Next, SyncStep
<1> QED
  BY <1>1, <1>2

\* Type correctness.
THEOREM TypeCorrect == Spec => []TypeOK
<1>1. SyncInv => TypeOK
  BY DEF SyncInv
<1> QED
  BY <1>1, InitSync, StepSync, PTL DEF Spec

\* What DependentsKept says of one step.
KeepsDependents ==
    \A t \in pinned :
        shell'[t] # shell[t] => \E s \in Sessions : pc[s] = "syncing" /\ cascade[s]

\* The inductive invariant of the dependents.
DependentsInv == SyncInv /\ PinInv

\* A user's transaction that ends has worked on a relation without dependents.
LEMMA EndsDependents ==
    ASSUME DependentsInv, NEW t \in Tables, UserEnds(t)
    PROVE  PinInv' /\ KeepsDependents
<1> USE DEF DependentsInv
<1>1. UNCHANGED <<pinned, cascade>>
  BY DEF UserEnds, UserCreateEnds, UserDropEnds, roundVars
<1>2. Busy(t) /\ t \notin pinned
  BY DEF UserEnds, UserCreateEnds, UserDropEnds, Busy, PinInv
<1>3. \A u \in Tables \ {t} : shell'[u] = shell[u] /\ (Busy(u)' <=> Busy(u))
  BY DEF UserEnds, UserCreateEnds, UserDropEnds, PgCommits, Busy, SyncInv, TypeOK,
         CatalogTypes
<1>4. pinned \subseteq Tables \ {t}
  BY <1>2 DEF SyncInv, TypeOK, CatalogTypes
<1> QED
  BY <1>1, <1>3, <1>4 DEF PinInv, KeepsDependents, HasShell

\* Recreating a shell either fails and leaves it alone, or takes its dependents
\* with it, which only a round with drop_with_cascade does.
LEMMA TableDependents ==
    ASSUME DependentsInv, NEW s \in Syncers, NEW t \in Tables,
           SyncTable(s, t) \/ SyncTableRaced(s, t)
    PROVE  PinInv' /\ KeepsDependents
<1> USE DEF DependentsInv
<1>1. UNCHANGED cascade /\ pc[s] = "syncing"
  BY DEF SyncTable, SyncTableRaced
<1>2. \A u \in Tables \ {t} : shell'[u] = shell[u] /\ (Busy(u)' <=> Busy(u))
  BY DEF SyncTable, SyncTableRaced, userVars, Busy, SyncInv, TypeOK, CatalogTypes
<1>3. \/ UNCHANGED <<shell, pinned, userVars>>
      \/ pinned' = pinned \ {t} /\ (t \in pinned => cascade[s])
  <2>1. CASE SyncTable(s, t)
    BY <2>1 DEF SyncTable, Obstructed
  <2>2. CASE SyncTableRaced(s, t)
    BY <2>2 DEF SyncTableRaced, PinInv
  <2> QED
    BY <2>1, <2>2
<1>4. pinned \subseteq Tables
  BY DEF SyncInv, TypeOK, CatalogTypes
<1>5. CASE UNCHANGED <<shell, pinned, userVars>>
  BY <1>1, <1>5 DEF PinInv, KeepsDependents, HasShell, Busy, userVars
<1>6. CASE pinned' = pinned \ {t} /\ (t \in pinned => cascade[s])
  BY <1>1, <1>2, <1>4, <1>6 DEF PinInv, KeepsDependents, HasShell
<1> QED
  BY <1>3, <1>5, <1>6

\* The cleanup spares the shells with dependents, unless it cascades.
LEMMA CleanupDependents ==
    ASSUME DependentsInv, NEW s \in Syncers, Cleanup(s)
    PROVE  PinInv' /\ KeepsDependents
<1> USE DEF DependentsInv
<1> DEFINE kept == IF cascade[s] THEN {} ELSE NotOfThisRound(s) \cap pinned
           gone == NotOfThisRound(s) \ kept
<1>1. UNCHANGED <<cascade, userVars>> /\ pc[s] = "syncing"
  BY DEF Cleanup
<1>2. \/ UNCHANGED <<shell, pinned>>
      \/ /\ shell' = [t \in Tables |-> IF t \in gone THEN NoShell ELSE shell[t]]
         /\ pinned' = pinned \ gone
  BY DEF Cleanup
<1>3. \A t \in gone : t \in pinned => cascade[s]
  OBVIOUS
<1>4. pinned \subseteq Tables
  BY DEF SyncInv, TypeOK, CatalogTypes
<1> HIDE DEF gone
<1>5. CASE UNCHANGED <<shell, pinned>>
  BY <1>1, <1>5 DEF PinInv, KeepsDependents, HasShell, Busy, userVars
<1>6. CASE /\ shell' = [t \in Tables |-> IF t \in gone THEN NoShell ELSE shell[t]]
           /\ pinned' = pinned \ gone
  <2>1. \A t \in Tables : t \notin gone => shell'[t] = shell[t]
    BY <1>6
  <2> QED
    BY <1>1, <1>3, <1>4, <1>6, <2>1 DEF PinInv, KeepsDependents, HasShell, Busy, userVars
<1> QED
  BY <1>2, <1>5, <1>6

LEMMA StepDependents ==
    ASSUME DependentsInv, [Next]_vars
    PROVE  PinInv' /\ KeepsDependents
<1> USE DEF DependentsInv
<1>1. ASSUME UNCHANGED <<shell, pinned, userVars, cascade>>
      PROVE  PinInv' /\ KeepsDependents
  BY <1>1 DEF PinInv, KeepsDependents, HasShell, Busy, userVars
<1>2. ASSUME NEW t \in Tables, UserCreate(t) \/ UserDrop(t) \/ UserPin(t)
      PROVE  PinInv' /\ KeepsDependents
  <2>1. UNCHANGED <<shell, cascade>>
    BY <1>2 DEF UserCreate, UserDrop, UserPin, pgVars, roundVars
  <2>2. \A u \in Tables \ {t} : (Busy(u)' <=> Busy(u)) /\ (u \in pinned' <=> u \in pinned)
    BY <1>2 DEF UserCreate, UserDrop, UserPin, pgVars, userVars, Busy, SyncInv, TypeOK,
                CatalogTypes
  <2>3. t \in pinned' => HasShell(t) /\ ~Busy(t)'
    BY <1>2 DEF UserCreate, UserDrop, UserPin, pgVars, userVars, Busy, PinInv
  <2>4. pinned' \subseteq Tables
    BY <1>2 DEF UserCreate, UserDrop, UserPin, pgVars, SyncInv, TypeOK, CatalogTypes
  <2> QED
    BY <2>1, <2>2, <2>3, <2>4 DEF PinInv, KeepsDependents, HasShell
<1>3. ASSUME NEW t \in Tables, MdChange(t) \/ UserConflict(t)
      PROVE  PinInv' /\ KeepsDependents
  BY <1>1, <1>3 DEF MdChange, UserConflict, pgVars, roundVars
<1>4. CASE (\E x \in Schemas : Revoke(x)) \/ ChangeDefault
  BY <1>1, <1>4 DEF Revoke, ChangeDefault, pgVars, roundVars
<1>5. ASSUME NEW s \in Syncers,
             \/ FetchVersion(s) \/ BeginSync(s) \/ Abort(s) \/ Restart(s)
             \/ \E x \in Schemas : EnterSchema(s, x)
      PROVE  PinInv' /\ KeepsDependents
  BY <1>1, <1>5 DEF FetchVersion, BeginSync, Abort, Restart, EnterSchema, pgVars
<1>6. ASSUME NEW s \in Syncers, NEW c \in BOOLEAN, ForceSync(s, c)
      PROVE  PinInv' /\ KeepsDependents
  <2>1. /\ s \in Sessions /\ UNCHANGED <<shell, pinned, userVars>>
        /\ \A r \in Syncers \ {s} : cascade'[r] = cascade[r]
    BY <1>6 DEF ForceSync, pgVars, SyncInv, TypeOK, RoundTypes
  <2> QED
    BY <2>1 DEF PinInv, KeepsDependents, HasShell, Busy, userVars
<1>7. CASE UNCHANGED vars
  BY <1>1, <1>7 DEF vars, pgVars, roundVars
<1> QED
  BY <1>2, <1>3, <1>4, <1>5, <1>6, <1>7, EndsDependents, TableDependents,
     CleanupDependents DEF Next, UserStep, SyncStep

\* A round never drops or recreates a shell that other objects of Postgres depend
\* on, unless it is one of duckdb.force_motherduck_sync with drop_with_cascade:
\* for any number of workers and sessions, and any failures.
THEOREM DependentsAreKept == Spec => DependentsKept
<1>1. Init => DependentsInv
  BY InitSync DEF Init, DependentsInv, PinInv
<1>2. DependentsInv /\ [Next]_vars => DependentsInv'
  BY StepSync, StepDependents DEF DependentsInv
<1>3. DependentsInv /\ [Next]_vars => [KeepsDependents]_vars
  BY StepDependents
<1>4. Spec => [][KeepsDependents]_vars
  BY <1>1, <1>2, <1>3, PTL DEF Spec
<1> QED
  BY <1>4 DEF DependentsKept, KeepsDependents

-----------------------------------------------------------------------------
(* One syncer whose schemas can be entered.  Two concurrent rounds overwrite *)
(* each other's labels, and a schema that fails is passed over in silence,   *)
(* so that what follows is only true without them.                           *)

Undisturbed ==
    /\ \A r, s \in Syncers : r = s
    /\ MaxSchemaFailures = 0 /\ MaxRevokes = 0

\* The MotherDuck role may use every schema that exists.
AccessInv == schemaFailures = 0 /\ revokes = 0 /\ access = pgSchemas

\* No round knows a version that MotherDuck has not reached, and a round that
\* runs knows its own.
VersionInv ==
    /\ mdVersion > 0
    /\ \A s \in Syncers : /\ ver[s] <= mdVersion /\ lastKnown[s] <= mdVersion
                          /\ pc[s] = "syncing" => lastKnown[s] = ver[s]

\* A shell labelled with the current version has the current definition.
LabelInv ==
    \A t \in Tables :
        /\ shell[t].version <= mdVersion
        /\ shell[t].version = mdVersion =>
               Syncable(t) # 0 /\ shell[t].def = Syncable(t)

\* As long as the version is the one fetched, the catalog is the one read.
SnapInv ==
    \A s \in Syncers :
        pc[s] = "syncing" /\ ver[s] = mdVersion =>
            \A t \in Tables : snap[s][t] = Syncable(t)

\* What the round of s has still to look at.
Ahead(s, t) == t[1] \in schemasLeft[s] \/ t \in todo[s]

\* As long as nothing failed, a relation that the round saw and has passed bears
\* the labels of the round, unless a user dropped or created it afterwards.
PassedInv ==
    \A s \in Syncers : pc[s] = "syncing" /\ ok[s] =>
        \A t \in Tables :
            snap[s][t] # 0 =>
                \/ Ahead(s, t) \/ shell[t].version = 0
                \/ shell[t].version = ver[s] /\ shell[t].default = dflt[s]

\* If the version is still the one fetched, its shell has the definition of the
\* catalog and no user is changing it.
CurrentInv ==
    \A s \in Syncers : pc[s] = "syncing" /\ ok[s] /\ ver[s] = mdVersion =>
        \A t \in Tables :
            snap[s][t] # 0 =>
                \/ Ahead(s, t)
                \/ /\ shell[t].def = snap[s][t] /\ shell[t].default = dflt[s]
                   /\ ~Busy(t)

\* The shells match the catalog, and no user is changing a relation that matters.
Settled == Matches /\ \A t \in Tables : Syncable(t) # 0 => ~Busy(t)

\* The shells have the default database of the worker s.
OfDefault(s) ==
    s \in Workers => \A t \in Tables : Syncable(t) # 0 => shell[t].default = dflt[s]

\* What SkipIsSafe and DefaultFollowed say, and a little more.
SkipInv ==
    \A s \in Syncers :
        pc[s] # "syncing" /\ outcome[s] = "full" /\ lastKnown[s] = mdVersion =>
            Settled /\ OfDefault(s)

\* The inductive invariant of an undisturbed syncer.
RoundInv ==
    /\ Undisturbed /\ SyncInv /\ AccessInv /\ VersionInv
    /\ LabelInv /\ SnapInv /\ PassedInv /\ CurrentInv /\ SkipInv

\* What a step has to keep beyond SyncInv.
RoundParts ==
    /\ AccessInv /\ VersionInv
    /\ LabelInv /\ SnapInv /\ PassedInv /\ CurrentInv /\ SkipInv

LEMMA InitRound == Undisturbed /\ Init => RoundInv
<1> SUFFICES ASSUME Undisturbed, Init PROVE RoundInv
  OBVIOUS
<1>1. \A s \in Syncers : /\ pc[s] = "idle" /\ outcome[s] = "none"
                         /\ ver[s] = 0 /\ lastKnown[s] = 0
  BY DEF Init
<1>2. \A t \in Tables : shell[t].version = 0
  BY DEF Init, NoShell
<1>3. mdVersion = 1 /\ schemaFailures = 0 /\ revokes = 0 /\ access = pgSchemas
  BY DEF Init
<1>4. AccessInv /\ VersionInv /\ LabelInv
  BY <1>1, <1>2, <1>3 DEF AccessInv, VersionInv, LabelInv
<1>5. SnapInv /\ PassedInv /\ CurrentInv /\ SkipInv
  BY <1>1 DEF SnapInv, PassedInv, CurrentInv, SkipInv
<1> QED
  BY <1>4, <1>5, InitSync DEF RoundInv

\* The numbers in the state.
LEMMA RoundNumbers ==
    ASSUME SyncInv
    PROVE  /\ mdVersion \in Nat
           /\ \A s \in Syncers : ver[s] \in Nat /\ lastKnown[s] \in Nat
           /\ \A t \in Tables : shell[t].version \in Nat
<1>1. Versions \subseteq Nat
  BY SyncAssumption DEF Versions
<1>2. mdVersion \in Nat
  BY <1>1 DEF SyncInv, TypeOK, CatalogTypes
<1>3. \A s \in Syncers : ver[s] \in Nat /\ lastKnown[s] \in Nat
  BY <1>1 DEF SyncInv, TypeOK, RoundTypes
<1>4. \A t \in Tables : shell[t].version \in Nat
  <2> TAKE t \in Tables
  <2>1. shell[t] \in Rows
    BY DEF SyncInv, TypeOK, CatalogTypes
  <2> QED
    BY <1>1, <2>1 DEF Rows
<1> QED
  BY <1>2, <1>3, <1>4

\* A step that leaves the catalog, the shells and the rounds alone.
LEMMA QuietRound ==
    ASSUME RoundInv, UNCHANGED <<mdVars, userVars, shell, pgSchemas, access,
                                 roundVars, schemaFailures, revokes>>
    PROVE  RoundParts'
<1> USE DEF RoundInv, mdVars, userVars, roundVars
<1>1. AccessInv' /\ VersionInv'
  BY DEF AccessInv, VersionInv
<1>2. (\A t \in Tables : Syncable(t)' = Syncable(t) /\ (Busy(t)' <=> Busy(t)))
  BY DEF Syncable, Busy
<1>3. LabelInv' /\ SnapInv'
  BY <1>2 DEF LabelInv, SnapInv
<1>4. PassedInv' /\ CurrentInv'
  BY <1>2 DEF PassedInv, CurrentInv, Ahead
<1>5. SkipInv'
  BY <1>2 DEF SkipInv, Settled, OfDefault, Matches
<1> QED
  BY <1>1, <1>3, <1>4, <1>5 DEF RoundParts

\* A change of the catalog takes every label and every known version out of
\* date.
LEMMA ChangeRound ==
    ASSUME RoundInv, mdVersion' = mdVersion + 1,
           UNCHANGED <<pgVars, roundVars, boundVars>>
    PROVE  RoundParts'
<1> USE DEF RoundInv, pgVars, roundVars, boundVars
<1>1. /\ mdVersion' > 0
      /\ \A s \in Syncers : ver'[s] < mdVersion' /\ lastKnown'[s] < mdVersion'
      /\ \A t \in Tables : shell'[t].version < mdVersion'
  BY RoundNumbers DEF VersionInv, LabelInv
<1>2. mdVersion' \in Nat /\ (\A s \in Syncers : ver'[s] \in Nat /\ lastKnown'[s] \in Nat)
      /\ (\A t \in Tables : shell'[t].version \in Nat)
  BY RoundNumbers
<1>3. /\ \A s \in Syncers : ver'[s] # mdVersion' /\ lastKnown'[s] # mdVersion'
      /\ \A t \in Tables : shell'[t].version # mdVersion'
  BY <1>1, <1>2
<1>4. AccessInv'
  BY DEF AccessInv
<1>5. VersionInv'
  BY <1>1, <1>2 DEF VersionInv
<1>6. LabelInv'
  BY <1>1, <1>2, <1>3 DEF LabelInv
<1>7. SnapInv' /\ CurrentInv' /\ SkipInv'
  BY <1>3 DEF SnapInv, CurrentInv, SkipInv
<1>8. PassedInv'
  BY DEF PassedInv, Ahead
<1> QED
  BY <1>4, <1>5, <1>6, <1>7, <1>8 DEF RoundParts

\* A user drops the shell of a relation that MotherDuck does not have.
LEMMA DropRound ==
    ASSUME RoundInv, NEW t \in Tables, md[t] = 0, dropping' = dropping \cup {t},
           UNCHANGED <<mdVars, creating, pgVars, roundVars, boundVars>>
    PROVE  RoundParts'
<1> USE DEF RoundInv, mdVars, pgVars, roundVars, boundVars
<1>1. AccessInv' /\ VersionInv'
  BY DEF AccessInv, VersionInv
<1>2. /\ \A u \in Tables : Syncable(u)' = Syncable(u)
      /\ \A u \in Tables : Syncable(u) # 0 => (Busy(u)' <=> Busy(u))
  BY DEF Syncable, Busy
<1>3. LabelInv' /\ SnapInv'
  BY <1>2 DEF LabelInv, SnapInv
<1>4. PassedInv'
  BY DEF PassedInv, Ahead
<1>5. CurrentInv'
  BY <1>2, <1>3 DEF CurrentInv, SnapInv, Ahead
<1>6. SkipInv'
  BY <1>2 DEF SkipInv, Settled, OfDefault, Matches
<1> QED
  BY <1>1, <1>3, <1>4, <1>5, <1>6 DEF RoundParts

\* The transaction of a user ends in Postgres: the shell it leaves has no label,
\* and no round has counted on it.
LEMMA EndsRound ==
    ASSUME RoundInv, NEW t \in Tables, UserEnds(t)
    PROVE  RoundParts'
<1> USE DEF RoundInv
<1>1. UNCHANGED <<mdVars, pgSchemas, access, roundVars, schemaFailures, revokes>>
  BY DEF UserEnds, UserCreateEnds, UserDropEnds
<1>2. Busy(t)
  BY DEF UserEnds, UserCreateEnds, UserDropEnds, Busy
<1>3. /\ \A u \in Tables \ {t} : shell'[u] = shell[u]
      /\ shell'[t] = shell[t] \/ shell'[t].version = 0
  BY DEF UserEnds, UserCreateEnds, UserDropEnds, PgCommits, UserShell, NoShell,
         SyncInv, TypeOK, CatalogTypes
<1>4. \A u \in Tables : Busy(u)' => Busy(u)
  BY DEF UserEnds, UserCreateEnds, UserDropEnds, Busy, SyncInv, TypeOK, CatalogTypes
<1>5. \A u \in Tables : Syncable(u)' = Syncable(u)
  BY <1>1 DEF Syncable, mdVars
<1> USE DEF mdVars, roundVars
<1>6. AccessInv' /\ VersionInv'
  BY <1>1 DEF AccessInv, VersionInv
<1>7. LabelInv'
  <2>1. \A u \in Tables : shell'[u] = shell[u] \/ shell'[u].version = 0
    BY <1>3
  <2>2. mdVersion \in Nat /\ mdVersion > 0
    BY RoundNumbers DEF VersionInv
  <2> QED
    BY <1>1, <1>5, <2>1, <2>2 DEF LabelInv
<1>8. SnapInv'
  BY <1>1, <1>5 DEF SnapInv
<1>9. PassedInv'
  BY <1>1, <1>3 DEF PassedInv, Ahead
<1>10. CurrentInv'
  <2>1. \A u \in Tables : ~Busy(u) => shell'[u] = shell[u] /\ ~Busy(u)'
    BY <1>2, <1>3, <1>4
  <2> QED
    BY <1>1, <2>1 DEF CurrentInv, Ahead
<1>11. SkipInv'
  <2> SUFFICES ASSUME NEW s \in Syncers, pc'[s] # "syncing",
                      outcome'[s] = "full", lastKnown'[s] = mdVersion'
               PROVE  Settled' /\ OfDefault(s)'
    BY DEF SkipInv
  <2>1. OfDefault(s) /\ Matches /\ \A u \in Tables : Syncable(u) # 0 => ~Busy(u)
    BY <1>1 DEF SkipInv, Settled
  <2>2. \A u \in Tables : Syncable(u)' # 0 => ~Busy(u)'
    BY <1>4, <1>5, <2>1
  <2>3. \A u \in Tables : Syncable(u) # 0 => u # t
    BY <1>2, <2>1
  <2>4. Matches'
    BY <1>3, <1>5, <2>1, <2>3 DEF Matches
  <2>5. OfDefault(s)'
    BY <1>1, <1>3, <1>5, <2>1, <2>3 DEF OfDefault
  <2> QED
    BY <2>2, <2>4, <2>5 DEF Settled
<1> QED
  BY <1>6, <1>7, <1>8, <1>9, <1>10, <1>11 DEF RoundParts

\* A step of an undisturbed syncer is a step of the only one.
LEMMA OnlySyncer ==
    ASSUME RoundInv, NEW s \in Syncers
    PROVE  \A r \in Syncers : r = s
  BY DEF RoundInv, Undisturbed

\* What the shells and the catalog say of each other survives every step that
\* leaves both alone.
LEMMA SameCatalog ==
    ASSUME RoundInv, UNCHANGED <<mdVars, userVars, shell>>
    PROVE  /\ LabelInv'
           /\ \A t \in Tables : Syncable(t)' = Syncable(t) /\ (Busy(t)' <=> Busy(t))
           /\ Settled => Settled'
           /\ \A s \in Syncers : UNCHANGED dflt /\ OfDefault(s) => OfDefault(s)'
<1>1. \A t \in Tables : Syncable(t)' = Syncable(t) /\ (Busy(t)' <=> Busy(t))
  BY DEF Syncable, Busy, mdVars, userVars
<1>2. LabelInv'
  BY <1>1 DEF LabelInv, RoundInv, mdVars
<1>3. Settled => Settled'
  BY <1>1 DEF Settled, Matches
<1>4. \A s \in Syncers : UNCHANGED dflt /\ OfDefault(s) => OfDefault(s)'
  BY <1>1 DEF OfDefault
<1> QED
  BY <1>1, <1>2, <1>3, <1>4

\* A round that starts fetches the current version; a forced one forgets what
\* the session knew.
LEMMA FetchRound ==
    ASSUME RoundInv, NEW s \in Syncers,
           FetchVersion(s) \/ \E c \in BOOLEAN : ForceSync(s, c)
    PROVE  RoundParts'
<1> USE DEF RoundInv
<1>1. UNCHANGED <<mdVars, userVars, pgVars, boundVars, dflt, outcome>>
  BY DEF FetchVersion, ForceSync
<1>2. pc'[s] = "fetched" /\ ver'[s] = mdVersion /\ pc[s] = "idle"
  BY DEF FetchVersion, ForceSync, SyncInv, TypeOK, RoundTypes
<1>3. lastKnown'[s] \in {0, lastKnown[s]}
  BY DEF FetchVersion, ForceSync, SyncInv, TypeOK, RoundTypes
<1>4. \A r \in Syncers : r = s
  BY OnlySyncer
<1>5. AccessInv'
  BY <1>1 DEF AccessInv, pgVars, boundVars
<1>6. VersionInv'
  BY <1>1, <1>2, <1>3, <1>4, RoundNumbers DEF VersionInv, mdVars
<1>7. SnapInv' /\ PassedInv' /\ CurrentInv'
  BY <1>2, <1>4 DEF SnapInv, PassedInv, CurrentInv
<1>8. UNCHANGED <<mdVars, userVars, shell>>
  BY <1>1 DEF pgVars
<1>9. SkipInv'
  <2>1. lastKnown'[s] = mdVersion' => lastKnown[s] = mdVersion
    BY <1>1, <1>3, RoundNumbers DEF VersionInv, mdVars
  <2>2. lastKnown[s] = mdVersion /\ outcome[s] = "full" => Settled /\ OfDefault(s)
    BY <1>2 DEF SkipInv
  <2>3. lastKnown[s] = mdVersion /\ outcome[s] = "full" => Settled' /\ OfDefault(s)'
    BY <1>1, <1>8, <2>2, SameCatalog
  <2> QED
    BY <1>1, <1>4, <2>1, <2>3 DEF SkipInv
<1> QED
  BY <1>5, <1>6, <1>7, <1>8, <1>9, SameCatalog DEF RoundParts

\* A round that runs has read the catalog, and everything is ahead of it.
LEMMA BeginRound ==
    ASSUME RoundInv, NEW s \in Syncers, BeginSync(s)
    PROVE  RoundParts'
<1> USE DEF RoundInv
<1>1. UNCHANGED <<mdVars, userVars, pgVars, boundVars, ver, dflt>> /\ pc[s] = "fetched"
  BY DEF BeginSync
<1>2. UNCHANGED <<mdVars, userVars, shell>>
  BY <1>1 DEF pgVars
<1>3. \A r \in Syncers : r = s
  BY OnlySyncer
<1>4. AccessInv'
  BY <1>1 DEF AccessInv, pgVars, boundVars
<1>5. \A t \in Tables : Syncable(t)' = Syncable(t) /\ (Busy(t)' <=> Busy(t))
  BY <1>2, SameCatalog
<1>6. CASE pc'[s] = "idle" /\ UNCHANGED <<lastKnown, snap, schemasLeft, todo, ok, outcome>>
  <2>1. VersionInv'
    BY <1>1, <1>3, <1>6 DEF VersionInv, mdVars
  <2>2. SnapInv' /\ PassedInv' /\ CurrentInv'
    BY <1>3, <1>6 DEF SnapInv, PassedInv, CurrentInv
  <2>3. SkipInv'
    <3>1. lastKnown[s] = mdVersion /\ outcome[s] = "full" => Settled /\ OfDefault(s)
      BY <1>1 DEF SkipInv
    <3>2. lastKnown[s] = mdVersion /\ outcome[s] = "full" => Settled' /\ OfDefault(s)'
      BY <1>1, <1>2, <3>1, SameCatalog
    <3> QED
      BY <1>1, <1>3, <1>6, <3>2 DEF SkipInv, mdVars
  <2> QED
    BY <1>2, <1>4, <2>1, <2>2, <2>3, SameCatalog DEF RoundParts
<1>7. CASE /\ pc'[s] = "syncing" /\ lastKnown'[s] = ver[s]
           /\ snap'[s] = [t \in Tables |-> Syncable(t)]
           /\ schemasLeft'[s] = Schemas
  <2>1. VersionInv'
    BY <1>1, <1>3, <1>7 DEF VersionInv, mdVars
  <2>2. SnapInv'
    BY <1>3, <1>5, <1>7 DEF SnapInv
  <2>3. \A t \in Tables : Ahead(s, t)'
    BY <1>7 DEF Ahead, Tables
  <2>4. PassedInv' /\ CurrentInv'
    BY <1>3, <2>3 DEF PassedInv, CurrentInv
  <2>5. SkipInv'
    BY <1>3, <1>7 DEF SkipInv
  <2> QED
    BY <1>2, <1>4, <2>1, <2>2, <2>4, <2>5, SameCatalog DEF RoundParts
<1> QED
  BY <1>6, <1>7 DEF BeginSync, KnownVersion, SyncInv, TypeOK, RoundTypes

\* A round that is given up is not complete.
LEMMA AbortRound ==
    ASSUME RoundInv, NEW s \in Syncers, Abort(s)
    PROVE  RoundParts'
<1> USE DEF RoundInv
<1>1. UNCHANGED <<mdVars, userVars, pgVars, ver, schemaFailures, revokes>>
  BY DEF Abort
<1>2. pc'[s] = "idle" /\ outcome'[s] = "none" /\ lastKnown'[s] \in {0, lastKnown[s]}
  BY DEF Abort, SyncInv, TypeOK, RoundTypes
<1>3. \A r \in Syncers : r = s
  BY OnlySyncer
<1>4. AccessInv'
  BY <1>1 DEF AccessInv, pgVars
<1>5. VersionInv'
  BY <1>1, <1>2, <1>3, RoundNumbers DEF VersionInv, mdVars
<1>6. SnapInv' /\ PassedInv' /\ CurrentInv' /\ SkipInv'
  BY <1>2, <1>3 DEF SnapInv, PassedInv, CurrentInv, SkipInv
<1>7. UNCHANGED <<mdVars, userVars, shell>>
  BY <1>1 DEF pgVars
<1> QED
  BY <1>4, <1>5, <1>6, <1>7, SameCatalog DEF RoundParts

\* A worker that starts again knows no version: what it skipped on is forgotten.
LEMMA RestartRound ==
    ASSUME RoundInv, NEW s \in Syncers, Restart(s)
    PROVE  RoundParts'
<1> USE DEF RoundInv
<1>1. UNCHANGED <<mdVars, userVars, pgVars, boundVars, pc, ver, outcome>>
  BY DEF Restart
<1>2. pc[s] = "idle" /\ lastKnown'[s] = IF s \in Workers THEN 0 ELSE lastKnown[s]
  BY DEF Restart, SyncInv, TypeOK, RoundTypes
<1>3. \A r \in Syncers : r = s
  BY OnlySyncer
<1>4. AccessInv'
  BY <1>1 DEF AccessInv, pgVars, boundVars
<1>5. VersionInv'
  BY <1>1, <1>2, <1>3, RoundNumbers DEF VersionInv, mdVars
<1>6. SnapInv' /\ PassedInv' /\ CurrentInv'
  BY <1>1, <1>2, <1>3 DEF SnapInv, PassedInv, CurrentInv
<1>7. UNCHANGED <<mdVars, userVars, shell>>
  BY <1>1 DEF pgVars
<1>8. SkipInv'
  <2> SUFFICES ASSUME outcome'[s] = "full", lastKnown'[s] = mdVersion'
               PROVE  Settled' /\ OfDefault(s)'
    BY <1>3 DEF SkipInv
  <2>1. s \notin Workers /\ lastKnown[s] = mdVersion
    BY <1>1, <1>2 DEF VersionInv, mdVars
  <2>2. Settled'
    BY <1>1, <1>2, <1>7, <2>1, SameCatalog DEF SkipInv
  <2> QED
    BY <2>1, <2>2 DEF OfDefault
<1> QED
  BY <1>4, <1>5, <1>6, <1>7, <1>8, SameCatalog DEF RoundParts

\* A schema that exists can be entered, and one that does not is created: its
\* relations that the round saw are all to be synced.
LEMMA EnterRound ==
    ASSUME RoundInv, NEW s \in Syncers, NEW x \in Schemas, EnterSchema(s, x)
    PROVE  RoundParts'
<1> USE DEF RoundInv
<1>1. UNCHANGED <<mdVars, userVars, shell, pc, lastKnown, ver, snap, ok, dflt, outcome,
                  revokes>>
  BY DEF EnterSchema
<1>2. pc[s] = "syncing" /\ todo[s] = {} /\ schemasLeft'[s] = schemasLeft[s] \ {x}
  BY DEF EnterSchema, SyncInv, TypeOK, RoundTypes
<1>3. /\ todo' = [todo EXCEPT ![s] = {t \in Tables : t[1] = x /\ snap[s][t] # 0}]
      /\ pgSchemas' = pgSchemas \cup {x} /\ access' = access \cup {x}
      /\ UNCHANGED schemaFailures
  <2>1. ~(x \notin access /\ ~GrantsAccess(x))
    BY DEF AccessInv, GrantsAccess
  <2>2. ~(schemaFailures < MaxSchemaFailures)
    BY DEF AccessInv, Undisturbed
  <2> QED
    BY <2>1, <2>2 DEF EnterSchema
<1>4. \A r \in Syncers : r = s
  BY OnlySyncer
<1>5. AccessInv'
  BY <1>1, <1>3 DEF AccessInv
<1>6. VersionInv'
  BY <1>1 DEF VersionInv, mdVars
<1>7. \A t \in Tables : Syncable(t)' = Syncable(t) /\ (Busy(t)' <=> Busy(t))
  BY <1>1, SameCatalog
<1>8. SnapInv'
  BY <1>1, <1>7 DEF SnapInv, mdVars
<1>9. \A t \in Tables : snap[s][t] # 0 /\ Ahead(s, t) => Ahead(s, t)'
  <2>1. todo'[s] = {t \in Tables : t[1] = x /\ snap[s][t] # 0}
    BY <1>3 DEF SyncInv, TypeOK, RoundTypes
  <2> QED
    BY <1>2, <2>1 DEF Ahead
<1>10. PassedInv'
  BY <1>1, <1>4, <1>9 DEF PassedInv
<1>11. CurrentInv'
  BY <1>1, <1>4, <1>7, <1>9 DEF CurrentInv, mdVars
<1>12. SkipInv'
  BY <1>1, <1>2, <1>4 DEF SkipInv
<1> QED
  BY <1>1, <1>5, <1>6, <1>8, <1>10, <1>11, <1>12, SameCatalog DEF RoundParts

\* A relation that is synced gets the label of the round and the definition
\* that the round saw; one that is not makes the round incomplete.
LEMMA TableRound ==
    ASSUME RoundInv, NEW s \in Syncers, NEW t \in Tables, SyncTable(s, t)
    PROVE  RoundParts'
<1> USE DEF RoundInv
<1>1. UNCHANGED <<mdVars, userVars, pgSchemas, access, pc, lastKnown, ver, snap,
                  schemasLeft, dflt, outcome, schemaFailures, revokes>>
  BY DEF SyncTable
<1>2. pc[s] = "syncing" /\ t \in todo[s] /\ ~Busy(t) /\ todo'[s] = todo[s] \ {t}
  BY DEF SyncTable, SyncInv, TypeOK, RoundTypes
<1>3. \/ UNCHANGED shell /\ ok'[s] = FALSE
      \/ shell' = [shell EXCEPT ![t] = SyncedShell(s, t)] /\ UNCHANGED ok
  BY DEF SyncTable, NotOk, SyncInv, TypeOK, RoundTypes
<1>4. \A r \in Syncers : r = s
  BY OnlySyncer
<1>5. /\ \A u \in Tables \ {t} : shell'[u] = shell[u]
      /\ ok'[s] => /\ ok[s]
                   /\ shell'[t].def = snap[s][t] /\ shell'[t].version = ver[s]
                   /\ shell'[t].default = dflt[s]
      /\ \/ shell'[t] = shell[t]
         \/ shell'[t].def = snap[s][t] /\ shell'[t].version = ver[s]
  BY <1>3 DEF SyncedShell, SyncInv, TypeOK, CatalogTypes
<1>6. \A u \in Tables : Syncable(u)' = Syncable(u) /\ (Busy(u)' <=> Busy(u))
  BY <1>1 DEF Syncable, Busy, mdVars, userVars
<1>7. AccessInv' /\ VersionInv'
  BY <1>1 DEF AccessInv, VersionInv, mdVars
<1>8. SnapInv'
  BY <1>1, <1>6 DEF SnapInv, mdVars
<1>9. LabelInv'
  <2>1. snap[s][t] # 0 /\ ver[s] <= mdVersion
    BY <1>2 DEF SyncInv, TodoSeen, VersionInv
  <2>2. ver[s] = mdVersion => snap[s][t] = Syncable(t)
    BY <1>2 DEF SnapInv
  <2>3. /\ shell'[t].version <= mdVersion
        /\ shell'[t].version = mdVersion =>
               Syncable(t) # 0 /\ shell'[t].def = Syncable(t)
    BY <1>5, <2>1, <2>2 DEF LabelInv
  <2>4. \A u \in Tables \ {t} :
            /\ shell'[u].version <= mdVersion
            /\ shell'[u].version = mdVersion =>
                   Syncable(u) # 0 /\ shell'[u].def = Syncable(u)
    BY <1>5 DEF LabelInv
  <2> QED
    BY <1>1, <1>6, <2>3, <2>4 DEF LabelInv, mdVars
<1>10. \A u \in Tables \ {t} : Ahead(s, u) => Ahead(s, u)'
  BY <1>1, <1>2 DEF Ahead
<1>11. PassedInv'
  <2> SUFFICES ASSUME ok'[s], NEW u \in Tables, snap'[s][u] # 0
               PROVE  \/ Ahead(s, u)' \/ shell'[u].version = 0
                      \/ shell'[u].version = ver'[s] /\ shell'[u].default = dflt'[s]
    BY <1>4 DEF PassedInv
  <2>1. CASE u = t
    BY <1>1, <1>5, <2>1
  <2>2. CASE u # t
    <3>1. \/ Ahead(s, u) \/ shell[u].version = 0
          \/ shell[u].version = ver[s] /\ shell[u].default = dflt[s]
      BY <1>1, <1>2, <1>5 DEF PassedInv
    <3> QED
      BY <1>1, <1>5, <1>10, <2>2, <3>1
  <2> QED
    BY <2>1, <2>2
<1>12. CurrentInv'
  <2> SUFFICES ASSUME ok'[s], ver'[s] = mdVersion', NEW u \in Tables, snap'[s][u] # 0
               PROVE  \/ Ahead(s, u)'
                      \/ /\ shell'[u].def = snap'[s][u] /\ ~Busy(u)'
                         /\ shell'[u].default = dflt'[s]
    BY <1>4 DEF CurrentInv
  <2>1. CASE u = t
    BY <1>1, <1>2, <1>5, <1>6, <2>1
  <2>2. CASE u # t
    <3>1. \/ Ahead(s, u)
          \/ shell[u].def = snap[s][u] /\ ~Busy(u) /\ shell[u].default = dflt[s]
      BY <1>1, <1>2, <1>5 DEF CurrentInv, mdVars
    <3> QED
      BY <1>1, <1>5, <1>6, <1>10, <2>2, <3>1
  <2> QED
    BY <2>1, <2>2
<1>13. SkipInv'
  BY <1>1, <1>2, <1>4 DEF SkipInv
<1> QED
  BY <1>7, <1>8, <1>9, <1>11, <1>12, <1>13 DEF RoundParts

\* A round that meets the transaction of a user is not complete.
LEMMA RacedRound ==
    ASSUME RoundInv, NEW s \in Syncers, NEW t \in Tables, SyncTableRaced(s, t)
    PROVE  RoundParts'
<1> USE DEF RoundInv
<1>1. UNCHANGED <<mdVars, pgSchemas, access, pc, lastKnown, ver, snap, outcome,
                  boundVars>>
  BY DEF SyncTableRaced
<1>2. pc[s] = "syncing" /\ ~ok'[s]
  BY DEF SyncTableRaced, NotOk, SyncInv, TypeOK, RoundTypes
<1>3. \A r \in Syncers : r = s
  BY OnlySyncer
<1>4. \A u \in Tables : shell'[u] = shell[u] \/ shell'[u].version = 0
  BY DEF SyncTableRaced, UserShell, NoShell, SyncInv, TypeOK, CatalogTypes
<1>5. \A u \in Tables : Syncable(u)' = Syncable(u)
  BY <1>1 DEF Syncable, mdVars
<1>6. AccessInv' /\ VersionInv'
  BY <1>1 DEF AccessInv, VersionInv, mdVars, boundVars
<1>7. SnapInv'
  BY <1>1, <1>5 DEF SnapInv, mdVars
<1>8. LabelInv'
  <2>1. mdVersion \in Nat /\ mdVersion > 0
    BY RoundNumbers DEF VersionInv
  <2> QED
    BY <1>1, <1>4, <1>5, <2>1 DEF LabelInv, mdVars
<1>9. PassedInv' /\ CurrentInv' /\ SkipInv'
  BY <1>1, <1>2, <1>3 DEF PassedInv, CurrentInv, SkipInv
<1> QED
  BY <1>6, <1>7, <1>8, <1>9 DEF RoundParts

\* A cleanup that has nothing ahead of it and nothing failed behind it only takes
\* shells of relations that the round did not find, and shells that users made
\* with another default database.
LEMMA CleanupSpares ==
    ASSUME RoundInv, NEW s \in Syncers, Cleanup(s), ok[s], NEW t \in NotOfThisRound(s)
    PROVE  MayBeTaken(s, t)
<1>1. /\ t \in Tables /\ pc[s] = "syncing" /\ ~Ahead(s, t)
      /\ shell[t].version \notin {0, ver[s]} \/ shell[t].default # dflt[s]
  BY DEF NotOfThisRound, Cleanup, Ahead
<1>2. \/ snap[s][t] = 0 \/ shell[t].version = 0
      \/ shell[t].version = ver[s] /\ shell[t].default = dflt[s]
  BY <1>1 DEF RoundInv, PassedInv
<1> QED
  BY <1>1, <1>2 DEF MayBeTaken

\* A complete round leaves the shells as the catalog has them.
LEMMA CleanupRound ==
    ASSUME RoundInv, NEW s \in Syncers, Cleanup(s)
    PROVE  RoundParts'
<1> USE DEF RoundInv
<1>1. UNCHANGED <<mdVars, userVars, pgSchemas, access, lastKnown, ver, dflt, boundVars>>
  BY DEF Cleanup
<1>2. pc[s] = "syncing" /\ pc'[s] = "idle" /\ \A t \in Tables : ~Ahead(s, t)
  BY DEF Cleanup, Ahead, SyncInv, TypeOK, RoundTypes
<1>3. \A r \in Syncers : r = s
  BY OnlySyncer
<1>4. \A t \in Tables : shell'[t] = shell[t] \/ shell'[t] = NoShell
  BY DEF Cleanup
<1>5. \A t \in Tables : Syncable(t)' = Syncable(t) /\ (Busy(t)' <=> Busy(t))
  BY <1>1 DEF Syncable, Busy, mdVars, userVars
<1>6. AccessInv' /\ VersionInv'
  BY <1>1, <1>2, <1>3 DEF AccessInv, VersionInv, mdVars, boundVars
<1>7. LabelInv'
  <2>1. mdVersion \in Nat /\ mdVersion > 0 /\ NoShell.version = 0
    BY RoundNumbers DEF VersionInv, NoShell
  <2> QED
    BY <1>1, <1>4, <1>5, <2>1 DEF LabelInv, mdVars
<1>8. SnapInv' /\ PassedInv' /\ CurrentInv'
  BY <1>2, <1>3 DEF SnapInv, PassedInv, CurrentInv
<1>9. SkipInv'
  <2> SUFFICES ASSUME outcome'[s] = "full", lastKnown'[s] = mdVersion'
               PROVE  Settled' /\ OfDefault(s)'
    BY <1>3 DEF SkipInv
  <2>1. ok[s] /\ ver[s] = mdVersion
    <3>1. ok[s]
      BY DEF Cleanup, SyncInv, TypeOK, RoundTypes
    <3> QED
      BY <1>1, <1>2, <3>1 DEF VersionInv, mdVars
  <2>2. \A t \in Tables :
            shell'[t] = IF t \in NotOfThisRound(s) THEN NoShell ELSE shell[t]
    <3> DEFINE kept == IF cascade[s] THEN {} ELSE NotOfThisRound(s) \cap pinned
    <3>1. kept = {}
      BY <2>1 DEF Cleanup, SyncInv, TypeOK, RoundTypes
    <3>2. shell' = [t \in Tables |-> IF t \in NotOfThisRound(s) \ kept THEN NoShell
                                     ELSE shell[t]]
      BY <2>1 DEF Cleanup
    <3> QED
      BY <3>1, <3>2
  <2>3. \A t \in Tables :
            Syncable(t) # 0 => /\ shell[t].def = Syncable(t) /\ ~Busy(t)
                               /\ shell[t].default = dflt[s]
                               /\ t \notin NotOfThisRound(s)
    <3> SUFFICES ASSUME NEW t \in Tables, Syncable(t) # 0
                 PROVE  /\ shell[t].def = Syncable(t) /\ ~Busy(t)
                        /\ shell[t].default = dflt[s]
                        /\ t \notin NotOfThisRound(s)
      OBVIOUS
    <3>1. snap[s][t] = Syncable(t)
      BY <1>2, <2>1 DEF SnapInv
    <3>2. shell[t].def = snap[s][t] /\ ~Busy(t) /\ shell[t].default = dflt[s]
      BY <1>2, <2>1, <3>1 DEF CurrentInv
    <3>3. t \notin NotOfThisRound(s)
      BY <2>1, <3>1, <3>2, CleanupSpares DEF MayBeTaken
    <3> QED
      BY <3>1, <3>2, <3>3
  <2>4. \A t \in Tables : Syncable(t) = 0 => shell'[t].version = 0
    <3> SUFFICES ASSUME NEW t \in Tables, Syncable(t) = 0
                 PROVE  shell'[t].version = 0
      OBVIOUS
    <3>1. shell[t].version # mdVersion
      BY DEF LabelInv
    <3>2. CASE t \in NotOfThisRound(s)
      BY <2>2, <3>2 DEF NoShell
    <3>3. CASE t \notin NotOfThisRound(s)
      <4>1. shell[t].version = 0
        BY <2>1, <3>1, <3>3 DEF NotOfThisRound, HasShell, NoShell
      <4> QED
        BY <2>2, <3>3, <4>1
    <3> QED
      BY <3>2, <3>3
  <2>5. Matches'
    BY <1>5, <2>2, <2>3, <2>4 DEF Matches
  <2>6. OfDefault(s)'
    BY <1>1, <1>5, <2>2, <2>3 DEF OfDefault
  <2> QED
    BY <1>5, <2>3, <2>5, <2>6 DEF Settled
<1> QED
  BY <1>6, <1>7, <1>8, <1>9 DEF RoundParts

\* Every step of an undisturbed syncer, of users and of MotherDuck.
LEMMA StepRound ==
    ASSUME RoundInv, [Next]_vars
    PROVE  RoundInv'
<1> USE DEF RoundInv
<1>1. SyncInv' /\ Undisturbed'
  BY StepSync DEF Undisturbed
<1>2. ASSUME UNCHANGED vars
      PROVE  RoundParts'
  BY <1>2, QuietRound DEF vars, pgVars, boundVars
<1>3. ASSUME NEW t \in Tables, UserStep(t)
      PROVE  RoundParts'
  <2>1. CASE UserPin(t) \/ UserConflict(t)
    BY <2>1, QuietRound DEF UserPin, UserConflict, boundVars
  <2>2. CASE MdChange(t) \/ UserCreate(t)
    BY <2>2, ChangeRound DEF MdChange, UserCreate
  <2>3. CASE UserDrop(t)
    <3>1. CASE md[t] = 0 /\ UNCHANGED mdVars
      BY <2>3, <3>1, DropRound DEF UserDrop
    <3>2. CASE mdVersion' = mdVersion + 1
      BY <2>3, <3>2, ChangeRound DEF UserDrop
    <3> QED
      BY <2>3, <3>1, <3>2 DEF UserDrop
  <2> QED
    BY <1>3, <2>1, <2>2, <2>3 DEF UserStep
<1>4. ASSUME NEW x \in Schemas, Revoke(x)
      PROVE  RoundParts'
  BY <1>4 DEF Revoke, AccessInv, Undisturbed
<1>5. ASSUME NEW s \in Syncers, SyncStep(s) \/ Abort(s) \/ Restart(s)
      PROVE  RoundParts'
  BY <1>5, FetchRound, BeginRound, AbortRound, RestartRound, EnterRound, TableRound,
     RacedRound, CleanupRound DEF SyncStep
<1>6. ASSUME ChangeDefault
      PROVE  RoundParts'
  BY <1>6, QuietRound DEF ChangeDefault, pgVars, boundVars
<1>7. RoundParts'
  BY <1>2, <1>3, <1>4, <1>5, <1>6, EndsRound DEF Next
<1> QED
  BY <1>1, <1>7 DEF RoundParts

\* SyncMotherDuckCatalogsWithPg may skip a round whose catalog version it knows,
\* if its last round was complete: the only syncer of a database, whose schemas
\* can be created and used, for any relations, changes and failures.
THEOREM SkippingIsSafe == Undisturbed /\ Spec => []SkipIsSafe
<1>1. RoundInv => SkipIsSafe
  BY DEF RoundInv, SkipInv, Settled, SkipIsSafe
<1> QED
  BY <1>1, InitRound, StepRound, PTL DEF Spec

\* The worker that skips a round has given every relation a shell with the default
\* database that it now has, although a change of the default database leaves the
\* catalog version alone: the new instance starts with no version known.
THEOREM DefaultIsFollowed == Undisturbed /\ Spec => []DefaultFollowed
<1>1. RoundInv => DefaultFollowed
  BY DEF RoundInv, SkipInv, OfDefault, DefaultFollowed, Syncers
<1> QED
  BY <1>1, InitRound, StepRound, PTL DEF Spec

\* What DropsOnlyDeleted says of one step.
DropsDeleted ==
    \A t \in Tables :
        HasShell(t) /\ shell'[t] = NoShell =>
            t \in dropping \/ \E s \in Syncers : MayBeTaken(s, t)

\* A user's DROP takes the shell of a relation in dropping, a recreated shell has
\* the definition that the round saw, and the other shells are taken by a cleanup.
LEMMA StepDropsDeleted ==
    ASSUME RoundInv, [Next]_vars
    PROVE  DropsDeleted
<1> SUFFICES ASSUME NEW t \in Tables, HasShell(t), shell'[t] = NoShell, t \notin dropping
             PROVE  \E s \in Syncers : MayBeTaken(s, t)
  BY DEF DropsDeleted
<1>1. shell'[t] # shell[t]
  BY DEF HasShell
<1>2. SyncInv
  BY DEF RoundInv
<1>3. ASSUME NEW u \in Tables, UserEnds(u)
      PROVE  FALSE
  BY <1>1, <1>2, <1>3 DEF UserEnds, UserCreateEnds, UserDropEnds, PgCommits, UserShell,
     NoShell, SyncInv, TypeOK, CatalogTypes
<1>4. ASSUME NEW s \in Syncers, NEW u \in Tables, SyncTable(s, u)
      PROVE  FALSE
  <2>1. SyncedShell(s, u) # NoShell
    BY <1>2, <1>4 DEF SyncTable, SyncInv, TodoSeen, SyncedShell, NoShell
  <2>2. shell' = shell \/ shell' = [shell EXCEPT ![u] = SyncedShell(s, u)]
    BY <1>4 DEF SyncTable
  <2> QED
    BY <1>1, <1>2, <2>1, <2>2 DEF SyncInv, TypeOK, CatalogTypes
<1>5. ASSUME NEW s \in Syncers, NEW u \in Tables, SyncTableRaced(s, u)
      PROVE  FALSE
  <2>1. u \in dropping \/ \A d \in inForce : UserShell(u, d) # NoShell
    BY <1>5 DEF SyncTableRaced, Busy, UserShell, NoShell
  <2> QED
    BY <1>1, <1>2, <1>5, <2>1 DEF SyncTableRaced, SyncInv, TypeOK, CatalogTypes
<1>6. ASSUME NEW s \in Syncers, Cleanup(s)
      PROVE  MayBeTaken(s, t)
  <2>1. pc[s] = "syncing" /\ ok[s] /\ t \in NotOfThisRound(s)
    BY <1>1, <1>6 DEF Cleanup
  <2> QED
    BY <1>6, <2>1, CleanupSpares
<1>7. ~\E u \in Tables : UserStep(u)
  BY <1>1 DEF UserStep, MdChange, UserCreate, UserDrop, UserPin, UserConflict, pgVars
<1>8. ~ChangeDefault /\ ~\E x \in Schemas : Revoke(x)
  BY <1>1 DEF ChangeDefault, Revoke, pgVars
<1>9. ASSUME NEW s \in Syncers,
             \/ FetchVersion(s) \/ BeginSync(s) \/ Abort(s) \/ Restart(s)
             \/ \E c \in BOOLEAN : ForceSync(s, c)
             \/ \E x \in Schemas : EnterSchema(s, x)
      PROVE  FALSE
  BY <1>1, <1>9 DEF FetchVersion, BeginSync, Abort, Restart, ForceSync, EnterSchema,
                    pgVars
<1>10. ~UNCHANGED vars
  BY <1>1 DEF vars, pgVars
<1> QED
  BY <1>3, <1>4, <1>5, <1>6, <1>7, <1>8, <1>9, <1>10 DEF Next, SyncStep

\* A shell is dropped by its user, or by the cleanup of a round that did not find
\* its relation, or whose instance has another default database than the user's
\* who created it: for the only syncer of a database, whose schemas can be created
\* and used.
THEOREM DropsAreDeleted == Undisturbed /\ Spec => DropsOnlyDeleted
<1>1. Undisturbed /\ Spec => []RoundInv
  BY InitRound, StepRound, PTL DEF Spec
<1>2. RoundInv /\ [Next]_vars => [DropsDeleted]_vars
  BY StepDropsDeleted
<1>3. Undisturbed /\ Spec => [][DropsDeleted]_vars
  BY <1>1, <1>2, PTL DEF Spec
<1> QED
  BY <1>3 DEF DropsOnlyDeleted, DropsDeleted
=============================================================================
