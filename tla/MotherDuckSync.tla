--------------------------- MODULE MotherDuckSync ---------------------------
(***************************************************************************)
(* The catalog synchronisation of one MotherDuck database with the "shell" *)
(* tables and views of Postgres: SyncMotherDuckCatalogsWithPg, run in a    *)
(* loop by the background worker and once by duckdb.force_motherduck_sync. *)
(*                                                                         *)
(* A round reads the catalog version, then the catalog, recreates the      *)
(* shell of every relation it read, labels it with the version (column     *)
(* motherduck_catalog_version of duckdb.tables) and with the default       *)
(* database of its instance, and finally drops the shells with another     *)
(* version or default database.  Each shell is recreated in a Postgres     *)
(* transaction of its own, so users, other MotherDuck clients and other    *)
(* rounds get in between.  Users also create and drop MotherDuck relations *)
(* through Postgres; DuckDB then commits before Postgres does.             *)
(*                                                                         *)
(* The default database is an option of the server that an instance reads  *)
(* once, when it is created: a change of it reaches a syncer or a session  *)
(* with its next instance.  It is changed among databases other than the   *)
(* one that is modelled; becoming the default one would move its shells    *)
(* to other schemas of Postgres.                                           *)
(*                                                                         *)
(* A definition is named by the catalog version that introduced it.  Every *)
(* schema of Schemas exists in MotherDuck throughout; MotherDuck is        *)
(* enabled.  A round whose version query fails changes nothing.            *)
(***************************************************************************)
EXTENDS Naturals, FiniteSets

CONSTANTS
    Schemas, Names,     \* a relation is <<schema, name>>
    Workers,            \* background workers of the database
    Sessions,           \* backends that call force_motherduck_sync
    IsDefaultDb,        \* is_default_db
    Defaults,           \* names of default databases
    MaxDefaultChanges,  \* bound: changes of the default database
    MaxVersion,         \* bound: catalog versions
    MaxFailures,        \* bound: failing CREATEs and commits, aborted rounds
    MaxSchemaFailures,  \* bound: failing CREATE SCHEMAs and GRANTs
    MaxRevokes          \* bound: revocations of CREATE on a schema

ASSUME SyncAssumption ==
    /\ Workers \cap Sessions = {}
    /\ IsDefaultDb \in BOOLEAN
    /\ MaxVersion \in Nat \ {0} /\ MaxFailures \in Nat
    /\ MaxSchemaFailures \in Nat /\ MaxRevokes \in Nat
    /\ Defaults # {} /\ MaxDefaultChanges \in Nat
    /\ IsDefaultDb => MaxDefaultChanges = 0

Tables == Schemas \X Names
Syncers == Workers \cup Sessions

VARIABLES
    \* MotherDuck (external)
    mdVersion,      \* server_catalog_version
    md,             \* md[t]: the definition of t, 0 if there is no such relation
    unsupported,    \* relations none of whose columns has a supported type
    \* Postgres
    shell,          \* shell[t]: the shell of t and its row in duckdb.tables
    pinned,         \* shells that other Postgres objects depend on
    conflict,       \* names taken by relations that are not MotherDuck's
    pgSchemas,      \* schemas that exist in Postgres
    access,         \* schemas the MotherDuck role may CREATE in
    creating,       \* creating[t]: definition in a CREATE committed by DuckDB only
    dropping,       \* relations whose DROP is committed by DuckDB only
    defaultDb,      \* default_database of the server, as committed
    inForce,        \* default databases that instances of sessions may have
    \* a round of each syncer
    pc,             \* idle, fetched or syncing
    lastKnown,      \* last_known_motherduck_catalog_versions, 0 if unknown
    ver,            \* catalog_version of the round
    snap,           \* snap[s][t]: the definition the round saw, 0 if none
    schemasLeft,    \* schemas not yet visited
    todo,           \* relations of the visited schema not yet synced
    ok,             \* all_tables_synced_successfully
    cascade,        \* drop_with_cascade
    dflt,           \* default database of the instance of the syncer
    \* history and bounds
    outcome,        \* how the last round ended: none, full or partial
    failures, schemaFailures, revokes, defaultChanges

mdVars    == <<mdVersion, md, unsupported>>
userVars  == <<creating, dropping>>
optVars   == <<defaultDb, inForce, defaultChanges>>
pgVars    == <<shell, pinned, conflict, pgSchemas, access>>
roundVars == <<pc, lastKnown, ver, snap, schemasLeft, todo, ok, cascade, dflt,
               outcome>>
boundVars == <<failures, schemaFailures, revokes>>
vars == <<mdVars, userVars, optVars, pgVars, roundVars, boundVars>>

\* version 0 stands for NULL: the shell was created by a user's DDL.
NoShell == [def |-> 0, version |-> 0, default |-> "none"]
HasShell(t) == shell[t] # NoShell
Busy(t) == creating[t] # 0 \/ t \in dropping

\* What CreatePgTableString and CreatePgViewString can express.
Syncable(t) == IF t \in unsupported THEN 0 ELSE md[t]

-----------------------------------------------------------------------------
(* MotherDuck clients and users of Postgres.                               *)

\* Another client creates, alters or drops a relation.
MdChange(t) ==
    /\ mdVersion < MaxVersion
    /\ mdVersion' = mdVersion + 1
    /\ \/ /\ md' = [md EXCEPT ![t] = mdVersion + 1]
          /\ (unsupported' = unsupported \ {t}) \/ (unsupported' = unsupported \cup {t})
       \/ /\ md[t] # 0
          /\ md' = [md EXCEPT ![t] = 0]
          /\ unsupported' = unsupported \ {t}
    /\ UNCHANGED <<optVars, userVars, pgVars, roundVars, boundVars>>

\* CREATE TABLE or VIEW through Postgres, up to the commit of DuckDB.
UserCreate(t) ==
    /\ mdVersion < MaxVersion
    /\ t[1] \in pgSchemas
    /\ ~HasShell(t) /\ t \notin conflict /\ ~Busy(t)
    /\ md[t] = 0
    /\ mdVersion' = mdVersion + 1
    /\ md' = [md EXCEPT ![t] = mdVersion + 1]
    /\ creating' = [creating EXCEPT ![t] = mdVersion + 1]
    /\ UNCHANGED <<optVars, unsupported, dropping, pgVars, roundVars, boundVars>>

\* The row a user's CREATE leaves in duckdb.tables: no catalog version, and the
\* default database of the instance of the session.
UserShell(t, d) == [def |-> creating[t], version |-> 0, default |-> d]

\* Postgres commits, or fails although DuckDB has committed.
PgCommits(t, new) ==
    \/ shell' = [shell EXCEPT ![t] = new] /\ UNCHANGED failures
    \/ failures < MaxFailures /\ failures' = failures + 1 /\ UNCHANGED shell

UserCreateEnds(t) ==
    /\ creating[t] # 0
    /\ creating' = [creating EXCEPT ![t] = 0]
    /\ \E d \in inForce : PgCommits(t, UserShell(t, d))
    /\ UNCHANGED <<mdVars, optVars, dropping, pinned, conflict, pgSchemas, access,
                   roundVars, schemaFailures, revokes>>

\* DROP through Postgres, up to the commit of DuckDB (DROP ... IF EXISTS).
UserDrop(t) ==
    /\ HasShell(t) /\ t \notin pinned /\ ~Busy(t)
    /\ \/ md[t] = 0 /\ UNCHANGED mdVars
       \/ /\ md[t] # 0
          /\ mdVersion < MaxVersion
          /\ mdVersion' = mdVersion + 1
          /\ md' = [md EXCEPT ![t] = 0]
          /\ unsupported' = unsupported \ {t}
    /\ dropping' = dropping \cup {t}
    /\ UNCHANGED <<optVars, creating, pgVars, roundVars, boundVars>>

UserDropEnds(t) ==
    /\ t \in dropping
    /\ dropping' = dropping \ {t}
    /\ PgCommits(t, NoShell)
    /\ UNCHANGED <<mdVars, optVars, creating, pinned, conflict, pgSchemas, access,
                   roundVars, schemaFailures, revokes>>

\* A Postgres view or function starts or stops to depend on a shell.
UserPin(t) ==
    /\ HasShell(t) /\ ~Busy(t)
    /\ pinned' = IF t \in pinned THEN pinned \ {t} ELSE pinned \cup {t}
    /\ UNCHANGED <<mdVars, optVars, userVars, shell, conflict, pgSchemas, access,
                   roundVars, boundVars>>

\* A Postgres relation takes or frees the name.
UserConflict(t) ==
    /\ t[1] \in pgSchemas
    /\ ~HasShell(t) /\ ~Busy(t)
    /\ conflict' = IF t \in conflict THEN conflict \ {t} ELSE conflict \cup {t}
    /\ UNCHANGED <<mdVars, optVars, userVars, shell, pinned, pgSchemas, access,
                   roundVars, boundVars>>

\* The DBA takes CREATE on a schema away from the MotherDuck role.
Revoke(x) ==
    /\ revokes < MaxRevokes
    /\ x \in access
    /\ access' = access \ {x}
    /\ revokes' = revokes + 1
    /\ UNCHANGED <<mdVars, optVars, userVars, shell, pinned, conflict, pgSchemas,
                   roundVars, failures, schemaFailures>>

\* ALTER SERVER ... OPTIONS (SET default_database ...).  Instances keep theirs.
ChangeDefault ==
    /\ defaultChanges < MaxDefaultChanges
    /\ defaultChanges' = defaultChanges + 1
    /\ defaultDb' \in Defaults \ {defaultDb}
    /\ inForce' = inForce \cup {defaultDb'}
    /\ UNCHANGED <<mdVars, userVars, pgVars, roundVars, boundVars>>

-----------------------------------------------------------------------------
(* A round.                                                                *)

\* The start of a round: the version query of the worker's next check.
FetchVersion(s) ==
    /\ s \in Workers
    /\ pc[s] = "idle"
    /\ pc' = [pc EXCEPT ![s] = "fetched"]
    /\ ver' = [ver EXCEPT ![s] = mdVersion]
    /\ UNCHANGED <<mdVars, optVars, userVars, pgVars, boundVars, lastKnown, snap,
                   schemasLeft, todo, ok, cascade, dflt, outcome>>

\* The same in force_motherduck_sync, which first forgets the known versions.
ForceSync(s, c) ==
    /\ s \in Sessions
    /\ pc[s] = "idle"
    /\ pc' = [pc EXCEPT ![s] = "fetched"]
    /\ ver' = [ver EXCEPT ![s] = mdVersion]
    /\ lastKnown' = [lastKnown EXCEPT ![s] = 0]
    /\ cascade' = [cascade EXCEPT ![s] = c]
    /\ UNCHANGED <<mdVars, optVars, userVars, pgVars, boundVars, snap, schemasLeft, todo,
                   ok, dflt, outcome>>

\* Mutant: the version is recorded as it is once the catalog is read.
KnownVersionNow(s) == mdVersion
\* What the round records as known: the version it fetched.
KnownVersion(s) == ver[s]

\* Mutant: any known version counts as unchanged.
UnchangedIfKnown(s) == lastKnown[s] # 0
UnchangedVersion(s) == lastKnown[s] = ver[s]

\* BeginTransaction and GetSchemas: the catalog as it is now, which may be
\* newer than the version fetched before.
BeginSync(s) ==
    /\ pc[s] = "fetched"
    /\ \/ /\ UnchangedVersion(s)
          /\ pc' = [pc EXCEPT ![s] = "idle"]
          /\ UNCHANGED <<lastKnown, snap, schemasLeft, todo, ok, outcome>>
       \/ /\ ~UnchangedVersion(s)
          /\ pc' = [pc EXCEPT ![s] = "syncing"]
          /\ lastKnown' = [lastKnown EXCEPT ![s] = KnownVersion(s)]
          /\ snap' = [snap EXCEPT ![s] = [t \in Tables |-> Syncable(t)]]
          /\ schemasLeft' = [schemasLeft EXCEPT ![s] = Schemas]
          /\ todo' = [todo EXCEPT ![s] = {}]
          /\ ok' = [ok EXCEPT ![s] = TRUE]
          /\ outcome' = [outcome EXCEPT ![s] = "none"]
    /\ UNCHANGED <<mdVars, optVars, userVars, pgVars, boundVars, ver, cascade, dflt>>

\* CREATE is granted on a new schema, and on an existing ddb$ schema.
GrantsAccess(x) == x \notin pgSchemas \/ ~IsDefaultDb

\* CreateSchemaIfNotExists.  A schema that fails is skipped, and that does not
\* count as a failure of the round.
EnterSchema(s, x) ==
    /\ pc[s] = "syncing" /\ todo[s] = {}
    /\ x \in schemasLeft[s]
    /\ schemasLeft' = [schemasLeft EXCEPT ![s] = @ \ {x}]
    /\ \/ /\ x \in access \/ GrantsAccess(x)
          /\ todo' = [todo EXCEPT ![s] = {t \in Tables : t[1] = x /\ snap[s][t] # 0}]
          /\ pgSchemas' = pgSchemas \cup {x}
          /\ access' = access \cup {x}
          /\ UNCHANGED schemaFailures
       \/ /\ x \notin access /\ ~GrantsAccess(x)
          /\ UNCHANGED <<todo, pgSchemas, access, schemaFailures>>
       \/ /\ x \notin access           \* CREATE SCHEMA or GRANT fails
          /\ schemaFailures < MaxSchemaFailures
          /\ schemaFailures' = schemaFailures + 1
          /\ UNCHANGED <<todo, pgSchemas, access>>
    /\ UNCHANGED <<mdVars, optVars, userVars, shell, pinned, conflict, pc, lastKnown, ver,
                   snap, ok, cascade, dflt, outcome, failures, revokes>>

\* Mutant: CASCADE whatever was asked for.
ObstructedIfTaken(s, t) == t \in conflict \/ t[1] \notin access
\* The name is taken, the old shell cannot be dropped, or the MotherDuck role
\* has lost CREATE on the schema since the round entered it.
Obstructed(s, t) ==
    t \in conflict \/ (t \in pinned /\ ~cascade[s]) \/ t[1] \notin access

\* The row of a shell created during a round.
SyncedShell(s, t) ==
    [def |-> snap[s][t], version |-> ver[s], default |-> dflt[s]]

NotOk(s) == ok' = [ok EXCEPT ![s] = FALSE]

\* CreateTable and CreateView: drop the old shell and create the new one in one
\* subtransaction, then commit.  The commands wait for a user's transaction.
SyncTable(s, t) ==
    /\ pc[s] = "syncing"
    /\ t \in todo[s]
    /\ ~Busy(t)
    /\ todo' = [todo EXCEPT ![s] = @ \ {t}]
    /\ \/ /\ Obstructed(s, t)
          /\ NotOk(s)
          /\ UNCHANGED <<shell, pinned, failures>>
       \/ /\ ~Obstructed(s, t)
          /\ shell' = [shell EXCEPT ![t] = SyncedShell(s, t)]
          /\ pinned' = pinned \ {t}
          /\ UNCHANGED <<ok, failures>>
       \/ /\ ~Obstructed(s, t)         \* CREATE fails: the DROP is undone
          /\ failures < MaxFailures
          /\ failures' = failures + 1
          /\ NotOk(s)
          /\ UNCHANGED <<shell, pinned>>
    /\ UNCHANGED <<mdVars, optVars, userVars, conflict, pgSchemas, access, pc, lastKnown,
                   ver, snap, schemasLeft, cascade, dflt, outcome, schemaFailures,
                   revokes>>

\* The command waited for a user's transaction, which then committed: the name
\* is taken, or the shell to drop is gone.
SyncTableRaced(s, t) ==
    /\ pc[s] = "syncing"
    /\ t \in todo[s]
    /\ Busy(t)
    /\ todo' = [todo EXCEPT ![s] = @ \ {t}]
    /\ NotOk(s)
    /\ \E d \in inForce :
          shell' = [shell EXCEPT ![t] = IF t \in dropping THEN NoShell
                                        ELSE UserShell(t, d)]
    /\ creating' = [creating EXCEPT ![t] = 0]
    /\ dropping' = dropping \ {t}
    /\ UNCHANGED <<mdVars, optVars, pinned, conflict, pgSchemas, access, pc, lastKnown,
                   ver, snap, schemasLeft, cascade, dflt, outcome, boundVars>>

\* Mutant: NULL is taken for another version.
NotOfThisRoundOrNull(s) ==
    {t \in Tables : /\ HasShell(t)
                    /\ \/ shell[t].version # ver[s]
                       \/ shell[t].default # dflt[s]}
\* motherduck_catalog_version != $2, which NULL does not satisfy, or
\* default_database != $3.
NotOfThisRound(s) ==
    {t \in Tables : /\ HasShell(t)
                    /\ \/ shell[t].version \notin {0, ver[s]}
                       \/ shell[t].default # dflt[s]}

\* The end of a round: the shells that were not updated are dropped in one
\* transaction, unless a relation failed.  A failing DROP is only a warning.
Cleanup(s) ==
    LET old  == NotOfThisRound(s)
        kept == IF cascade[s] THEN {} ELSE old \cap pinned
    IN  /\ pc[s] = "syncing" /\ todo[s] = {} /\ schemasLeft[s] = {}
        /\ pc' = [pc EXCEPT ![s] = "idle"]
        /\ \/ /\ ~ok[s]
              /\ outcome' = [outcome EXCEPT ![s] = "partial"]
              /\ UNCHANGED <<shell, pinned>>
           \/ /\ ok[s]
              /\ \A t \in old : ~Busy(t)
              /\ shell' = [t \in Tables |-> IF t \in old \ kept THEN NoShell
                                            ELSE shell[t]]
              /\ pinned' = pinned \ (old \ kept)
              /\ outcome' = [outcome EXCEPT ![s] = IF kept = {} THEN "full"
                                                   ELSE "partial"]
        /\ UNCHANGED <<mdVars, optVars, userVars, conflict, pgSchemas, access, lastKnown,
                       ver, snap, schemasLeft, todo, ok, cascade, dflt, boundVars>>

\* The cache version changed, or any other ERROR: the round ends where it is.
\* The worker restarts and knows no version; a session keeps what it recorded.
Abort(s) ==
    /\ pc[s] # "idle"
    /\ failures < MaxFailures
    /\ failures' = failures + 1
    /\ pc' = [pc EXCEPT ![s] = "idle"]
    /\ lastKnown' = IF s \in Workers THEN [lastKnown EXCEPT ![s] = 0] ELSE lastKnown
    /\ schemasLeft' = [schemasLeft EXCEPT ![s] = {}]
    /\ todo' = [todo EXCEPT ![s] = {}]
    /\ outcome' = [outcome EXCEPT ![s] = "none"]
    /\ dflt' = IF s \in Workers THEN [dflt EXCEPT ![s] = defaultDb] ELSE dflt
    /\ UNCHANGED <<mdVars, optVars, userVars, pgVars, ver, snap, ok, cascade,
                   schemaFailures, revokes>>

\* Mutant: the known versions outlive the instance.
RestartKnowing(s) ==
    /\ pc[s] = "idle"
    /\ dflt' = [dflt EXCEPT ![s] = defaultDb]
    /\ UNCHANGED <<mdVars, optVars, userVars, pgVars, boundVars, pc, lastKnown, ver,
                   snap, schemasLeft, todo, ok, cascade, outcome>>

\* Between two rounds: a worker exits and is started again, and knows no
\* version; a session resets its instance with recycle_ddb().
Restart(s) ==
    /\ pc[s] = "idle"
    /\ dflt' = [dflt EXCEPT ![s] = defaultDb]
    /\ lastKnown' = IF s \in Workers THEN [lastKnown EXCEPT ![s] = 0] ELSE lastKnown
    /\ UNCHANGED <<mdVars, optVars, userVars, pgVars, boundVars, pc, ver, snap,
                   schemasLeft, todo, ok, cascade, outcome>>

-----------------------------------------------------------------------------
\* MotherDuck has a first relation.  Schemas of the default database may exist
\* in Postgres already; the MotherDuck role may use those.
Init ==
    /\ mdVersion = 1
    /\ \E t \in Tables : md = [u \in Tables |-> IF u = t THEN 1 ELSE 0]
    /\ unsupported = {}
    /\ shell = [t \in Tables |-> NoShell]
    /\ pinned = {}
    /\ conflict = {}
    /\ pgSchemas \in (IF IsDefaultDb THEN SUBSET Schemas ELSE {{}})
    /\ access = pgSchemas
    /\ creating = [t \in Tables |-> 0]
    /\ dropping = {}
    /\ pc = [s \in Syncers |-> "idle"]
    /\ lastKnown = [s \in Syncers |-> 0]
    /\ ver = [s \in Syncers |-> 0]
    /\ snap = [s \in Syncers |-> [t \in Tables |-> 0]]
    /\ schemasLeft = [s \in Syncers |-> {}]
    /\ todo = [s \in Syncers |-> {}]
    /\ ok = [s \in Syncers |-> TRUE]
    /\ cascade = [s \in Syncers |-> FALSE]
    /\ outcome = [s \in Syncers |-> "none"]
    /\ defaultDb \in Defaults /\ inForce = {defaultDb}
    /\ dflt = [s \in Syncers |-> defaultDb]
    /\ failures = 0 /\ schemaFailures = 0 /\ revokes = 0 /\ defaultChanges = 0

UserStep(t) ==
    \/ MdChange(t) \/ UserCreate(t) \/ UserDrop(t) \/ UserPin(t) \/ UserConflict(t)

UserEnds(t) == UserCreateEnds(t) \/ UserDropEnds(t)

SyncStep(s) ==
    \/ FetchVersion(s) \/ BeginSync(s) \/ Cleanup(s)
    \/ \E c \in BOOLEAN : ForceSync(s, c)
    \/ \E x \in Schemas : EnterSchema(s, x)
    \/ \E t \in Tables : SyncTable(s, t) \/ SyncTableRaced(s, t)

Next ==
    \/ \E t \in Tables : UserStep(t) \/ UserEnds(t)
    \/ \E x \in Schemas : Revoke(x)
    \/ ChangeDefault
    \/ \E s \in Syncers : SyncStep(s) \/ Abort(s) \/ Restart(s)

Spec == Init /\ [][Next]_vars

\* The worker polls for ever, and the commit of a user's transaction ends.
FairSpec ==
    /\ Spec
    /\ \A s \in Workers : WF_vars(SyncStep(s))
    /\ \A t \in Tables : WF_vars(UserEnds(t))

-----------------------------------------------------------------------------
Versions == 0..MaxVersion
Rows == [def : Versions, version : Versions, default : Defaults \cup {"none"}]

CatalogTypes ==
    /\ mdVersion \in Versions
    /\ md \in [Tables -> Versions] /\ unsupported \subseteq Tables
    /\ shell \in [Tables -> Rows]
    /\ pinned \subseteq Tables /\ conflict \subseteq Tables
    /\ pgSchemas \subseteq Schemas /\ access \subseteq pgSchemas
    /\ creating \in [Tables -> Versions] /\ dropping \subseteq Tables
    /\ defaultDb \in Defaults /\ inForce \subseteq Defaults

RoundTypes ==
    /\ pc \in [Syncers -> {"idle", "fetched", "syncing"}]
    /\ lastKnown \in [Syncers -> Versions] /\ ver \in [Syncers -> Versions]
    /\ snap \in [Syncers -> [Tables -> Versions]]
    /\ schemasLeft \in [Syncers -> SUBSET Schemas]
    /\ todo \in [Syncers -> SUBSET Tables]
    /\ ok \in [Syncers -> BOOLEAN] /\ cascade \in [Syncers -> BOOLEAN]
    /\ dflt \in [Syncers -> Defaults]
    /\ outcome \in [Syncers -> {"none", "full", "partial"}]

BoundTypes ==
    /\ failures \in Nat /\ schemaFailures \in Nat /\ revokes \in Nat
    /\ defaultChanges \in Nat

\* The type of every variable.
TypeOK == CatalogTypes /\ RoundTypes /\ BoundTypes

\* A round only works on relations it has seen, and only recreates the shell of
\* a relation when there is something to recreate.
TodoSeen == \A s \in Syncers : \A t \in todo[s] : snap[s][t] # 0

\* Every relation of MotherDuck has a shell with its current definition, and
\* no shell that a round made has lost its relation.
Matches ==
    \A t \in Tables :
        /\ Syncable(t) # 0 => shell[t].def = Syncable(t)
        /\ Syncable(t) = 0 => shell[t].version = 0

\* A syncer that finds the catalog version unchanged may skip the round: if its
\* last round was complete, the shells match the catalog, whatever changed in
\* MotherDuck or through Postgres while that round ran.
SkipIsSafe ==
    \A s \in Syncers :
        pc[s] # "syncing" /\ outcome[s] = "full" /\ lastKnown[s] = mdVersion
            => Matches

\* A worker that skips a round has made the shell of every relation with the
\* default database it has now, although a change of that is no change of the
\* catalog version: an instance that is new knows no version.
DefaultFollowed ==
    \A s \in Workers :
        pc[s] # "syncing" /\ outcome[s] = "full" /\ lastKnown[s] = mdVersion =>
            \A t \in Tables : Syncable(t) # 0 => shell[t].default = dflt[s]

\* What the cleanup of a round may take: the shell of a relation that the round
\* did not find in MotherDuck, or one that a user has created since with an
\* instance that has another default database.
MayBeTaken(s, t) ==
    /\ pc[s] = "syncing"
    /\ \/ snap[s][t] = 0 /\ shell[t].version # 0
       \/ shell[t].version = 0 /\ shell[t].default # dflt[s]

\* A shell disappears only because its user drops it, or because the cleanup of
\* a round may take it: never because its relation failed to be synced, or was
\* just created by a user with the default database of the syncer.
DropsOnlyDeleted ==
    [][\A t \in Tables :
          HasShell(t) /\ shell'[t] = NoShell =>
              t \in dropping \/ \E s \in Syncers : MayBeTaken(s, t)
      ]_vars

\* A shell that other objects of Postgres depend on is never dropped or
\* recreated by a worker, nor by a forced round without drop_with_cascade,
\* whatever users, other rounds and failing schemas do in the meantime.
DependentsKept ==
    [][\A t \in pinned :
          shell'[t] # shell[t] =>
              \E s \in Sessions : pc[s] = "syncing" /\ cascade[s]
      ]_vars

\* No one changes a relation with dependents, and only forced rounds cascade.
PinInv ==
    /\ \A t \in pinned : HasShell(t) /\ ~Busy(t)
    /\ \A s \in Syncers : cascade[s] => s \in Sessions

\* If rounds stop failing, the shells end up matching the catalog.
Converges ==
    (\A s \in Workers : <>[](outcome[s] = "full")) => <>[]Matches

-----------------------------------------------------------------------------
(* What comments of the code say and the code does not do.                 *)

\* "Otherwise we might accidentally cleanup a table that is still there, but
\* which failed to be updated for some reason": no cleanup takes the shell of a
\* relation every round has seen, although its schema could not be entered.
StillThereKeepsShell ==
    [][\A t \in Tables :
          HasShell(t) /\ shell'[t] = NoShell =>
              t \in dropping \/ \E s \in Syncers : snap[s][t] = 0
      ]_vars
=============================================================================
