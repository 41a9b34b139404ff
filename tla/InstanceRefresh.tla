--------------------------- MODULE InstanceRefresh ---------------------------
(***************************************************************************)
(* The DuckDB instance of one backend and what it keeps up to date with    *)
(* the catalogs of Postgres: whether the extension is installed (the       *)
(* metadata cache), the MotherDuck server and user mapping (the user data  *)
(* cache), the secrets and the DuckDB extensions loaded in the instance.   *)
(*                                                                         *)
(* A catalog is a version that other sessions raise by committing.  They   *)
(* put invalidation messages into the shared queue; the backend takes all  *)
(* of them when it starts a transaction, and may take them wherever it     *)
(* opens a catalog, in the middle of filling a cache too.  The extensions  *)
(* table has no syscache: a sequence counts its changes, is raised when a  *)
(* change is made and not when it commits, and is never rolled back.       *)
(*                                                                         *)
(* A statement is a walk through the places where the code reads one of    *)
(* these.  Callbacks are registered just before the first load; a message  *)
(* that arrives before that would find nothing valid to invalidate.        *)
(***************************************************************************)
EXTENDS Integers

CONSTANTS
    MaxGen,         \* bound: creations and drops of the extension
    MaxFdw,         \* bound: versions of the servers and user mappings
    MaxTab,         \* bound: versions of duckdb.extensions
    MaxSeq,         \* bound: values of extensions_table_seq
    Levels          \* the isolation levels it uses, of the two below

ReadCommitted == "read committed"
RepeatableRead == "repeatable read"

ASSUME BoundsAssumption ==
    /\ MaxGen \in Nat \ {0} /\ MaxFdw \in Nat \ {0}
    /\ MaxTab \in Nat \ {0} /\ MaxSeq \in Nat \ {0}
    /\ Levels # {} /\ Levels \subseteq {ReadCommitted, RepeatableRead}

VARIABLES
    \* committed by other sessions
    extGen,         \* CREATE and DROP EXTENSION so far; odd: installed
    fdw,            \* version of pg_foreign_server and pg_user_mapping
    tab,            \* version of duckdb.extensions
    seq,            \* last value of extensions_table_seq
    writing,        \* a session has changed duckdb.extensions, uncommitted
    pending,        \* messages the backend has not taken
    \* the metadata cache
    metaValid,      \* cache.valid
    initializing,   \* cache.initializing
    metaGen,        \* the generation extension_oid was read from
    \* the user data cache
    udValid,        \* cache.valid
    udVer,          \* the version of the servers it was read from, 0: none
    \* DuckDBManager
    up,             \* database is not null
    tx,             \* the connection has an active transaction
    secrets,        \* the version of the secrets it sees, 0: none loaded
    saved,          \* the version it sees again if tx rolls back, Untouched: this
    secretsValid,   \* secrets_valid
    loaded,         \* the version of duckdb.extensions that was loaded
    curSeq,         \* extensions_table_current_seq
    \* the statement
    pc,             \* the next place it reads something
    block,          \* in a transaction block
    level,          \* the isolation level of the transaction
    roleSet,        \* the transaction has changed GetUserId()
    locks,          \* the transaction holds a lock on duckdb.extensions
    snapTab,        \* the version of duckdb.extensions its snapshot sees, 0: none
    snapFdw,        \* the version of the servers its snapshot sees
    readSeq,        \* extensions_table_last_seq, a local variable
    readFdw,        \* the version the secret queries were built from
    \* history
    start,          \* the committed versions at the transaction's start
    lost            \* what was left stale by a cause named below

world == <<extGen, fdw, tab, seq, writing>>
meta == <<metaValid, initializing, metaGen>>
ud == <<udValid, udVer>>
made == <<secrets, saved>>
inst == <<up, tx, made, secretsValid, loaded, curSeq>>
session == <<block, level, roleSet>>
snaps == <<snapTab, snapFdw>>
reads == <<locks, snaps, readSeq, readFdw>>
vars == <<world, pending, meta, ud, inst, pc, session, reads, start, lost>>

Installed(g) == g % 2 = 1

Untouched == -1

Messages == {"namespace", "foreign", "reset"}
Parts == {"meta", "ud", "secrets", "exts"}

\* planner: IsExtensionRegistered; server, mapping: InitUserDataCache;
\* functions: the rest of the metadata cache; connect: DuckDBManager::Get;
\* create, attach: Initialize; begin: GetConnection; exts, loadexts, secrets,
\* list, make: RefreshConnectionState; query: DuckDB runs the statement;
\* plain: the statement is left to Postgres; done: it was recycle_ddb().
Places == {"idle", "planner", "server", "mapping", "functions", "connect",
           "create", "attach", "begin", "exts", "loadexts", "secrets",
           "list", "make", "query", "plain", "done"}

Starts == [gen : 1..MaxGen, fdw : 1..MaxFdw, tab : 1..MaxTab]

NoTransaction == [gen |-> 1, fdw |-> 1, tab |-> 1]

Flags ==
    /\ writing \in BOOLEAN /\ metaValid \in BOOLEAN /\ initializing \in BOOLEAN
    /\ udValid \in BOOLEAN /\ up \in BOOLEAN /\ tx \in BOOLEAN
    /\ secretsValid \in BOOLEAN /\ block \in BOOLEAN /\ locks \in BOOLEAN

Values ==
    /\ extGen \in 1..MaxGen /\ fdw \in 1..MaxFdw
    /\ tab \in 1..MaxTab /\ seq \in 1..MaxSeq
    /\ pending \subseteq Messages
    /\ metaGen \in 0..MaxGen /\ udVer \in 0..MaxFdw
    /\ secrets \in 0..MaxFdw /\ saved \in {Untouched} \union 0..MaxFdw
    /\ loaded \in 0..MaxTab /\ curSeq \in 0..MaxSeq
    /\ pc \in Places
    /\ snapTab \in 0..MaxTab /\ snapFdw \in 0..MaxFdw
    /\ readSeq \in 0..MaxSeq /\ readFdw \in 0..MaxFdw
    /\ start \in Starts
    /\ lost \subseteq Parts

Session ==
    level \in {ReadCommitted, RepeatableRead} /\ roleSet \in BOOLEAN

TypeOK == Flags /\ Values /\ Session

\* A new backend of a database with the extension.
Init ==
    /\ extGen = 1 /\ fdw = 1 /\ tab = 1 /\ seq = 1 /\ writing = FALSE
    /\ pending = {}
    /\ metaValid = FALSE /\ initializing = FALSE
    /\ metaGen = 0
    /\ udValid = FALSE /\ udVer = 0
    /\ up = FALSE /\ tx = FALSE
    /\ secrets = 0 /\ saved = Untouched /\ secretsValid = FALSE
    /\ loaded = 0 /\ curSeq = 0
    /\ pc = "idle" /\ block = FALSE /\ locks = FALSE
    /\ level = ReadCommitted /\ roleSet = FALSE
    /\ snapTab = 0 /\ snapFdw = 0 /\ readSeq = 0 /\ readFdw = 0
    /\ start = NoTransaction
    /\ lost = {}

------------------------------------------------------------------------------
(* Other sessions *)

backend == <<meta, ud, inst, pc, session, reads, start, lost>>

\* CREATE, ALTER or DROP of a server or a user mapping commits.
ChangeForeign ==
    /\ Installed(extGen) /\ fdw < MaxFdw
    /\ fdw' = fdw + 1
    /\ pending' = pending \union {"foreign"}
    /\ UNCHANGED <<extGen, tab, seq, writing, backend>>

\* A statement changes duckdb.extensions: extensions_table_seq_tr fires.
WriteExtensions ==
    /\ Installed(extGen) /\ ~writing
    /\ seq < MaxSeq /\ tab < MaxTab
    /\ seq' = seq + 1
    /\ writing' = TRUE
    /\ UNCHANGED <<extGen, fdw, tab, pending, backend>>

\* Its transaction ends; the sequence keeps its value either way.
EndWriteExtensions ==
    /\ writing
    /\ writing' = FALSE
    /\ \/ tab < MaxTab /\ tab' = tab + 1
       \/ tab' = tab
    /\ UNCHANGED <<extGen, fdw, seq, pending, backend>>

\* DROP EXTENSION ... CASCADE takes the schema and every server with it.  It
\* waits for the locks others have on duckdb.extensions.
DropExtension ==
    /\ Installed(extGen) /\ ~writing /\ ~locks
    /\ extGen < MaxGen /\ fdw < MaxFdw
    /\ extGen' = extGen + 1
    /\ fdw' = fdw + 1
    /\ pending' = pending \union {"namespace", "foreign"}
    /\ UNCHANGED <<tab, seq, writing, backend>>

\* CREATE EXTENSION: the sequence starts again.  An instance that has seen a
\* higher value will not notice changes until the new one has passed it.
CreateExtension ==
    /\ ~Installed(extGen) /\ extGen < MaxGen
    /\ extGen' = extGen + 1
    /\ seq' = 1
    /\ pending' = pending \union {"namespace"}
    /\ lost' = lost \union {"exts"}
    /\ UNCHANGED <<fdw, tab, writing, meta, ud, inst, pc, session, reads, start>>

\* The shared queue overflows before the backend has read its messages: every
\* callback will be called for everything, with the hash value 0.
Overflow ==
    /\ "reset" \notin pending
    /\ pending' = pending \union {"reset"}
    /\ UNCHANGED <<world, backend>>

------------------------------------------------------------------------------
(* Invalidation *)

\* InvalidateCaches: called for "duckdb" when its schema changed.  The hash
\* value of a reset is 0, so a reset is taken for another schema.
IsOurSchema(messages) == "namespace" \in messages /\ "reset" \notin messages
InvalidatesMeta(messages) == IsOurSchema(messages) /\ metaValid

\* Mutant: "not installed" is never forgotten.
InvalidateCachesIfInstalled(messages) ==
    IF InvalidatesMeta(messages) /\ Installed(metaGen)
    THEN initializing' = FALSE /\ metaValid' = FALSE /\ metaGen' = 0
    ELSE UNCHANGED meta

InvalidateCaches(messages) ==
    IF InvalidatesMeta(messages)
    THEN /\ initializing' = FALSE /\ metaValid' = FALSE
         /\ metaGen' = IF Installed(metaGen) THEN 0 ELSE metaGen
    ELSE UNCHANGED meta

\* Mutants: only the user data is invalidated, or only the secrets.
InvalidateUserDataOnly(messages) ==
    /\ IF messages \intersect {"foreign", "reset"} # {}
       THEN udValid' = FALSE /\ udVer' = IF udValid THEN 0 ELSE udVer
       ELSE UNCHANGED <<udValid, udVer>>
    /\ UNCHANGED secretsValid

InvalidateSecretsOnly(messages) ==
    /\ secretsValid' = IF messages \intersect {"foreign", "reset"} # {}
                       THEN secretsValid /\ ~up ELSE secretsValid
    /\ UNCHANGED ud

\* InvalidateCache of the user data: forget the oids, and let the instance, if
\* there is one, load its secrets again.
InvalidateCache(messages) ==
    IF messages \intersect {"foreign", "reset"} # {}
    THEN /\ udValid' = FALSE
         /\ udVer' = IF udValid THEN 0 ELSE udVer
         /\ secretsValid' = (secretsValid /\ ~up)
    ELSE UNCHANGED <<ud, secretsValid>>

\* What the callbacks cannot repair: a cache that is being filled is not valid
\* yet, so it ignores the message and becomes valid with what it has read; the
\* same holds of the secrets between the query that lists them and the flag.
\* The user data may also go away after the check that MotherDuck is enabled.
LostTo(messages) ==
    (IF /\ "namespace" \in messages
        /\ ~InvalidatesMeta(messages) /\ (metaValid \/ initializing)
     THEN {"meta"} ELSE {})
    \union
    (IF /\ messages \intersect {"foreign", "reset"} # {}
        /\ pc \in {"mapping", "create"}
     THEN {"ud"} ELSE {})
    \union
    (IF messages \intersect {"foreign", "reset"} # {} /\ pc = "make"
     THEN {"secrets"} ELSE {})

\* AcceptInvalidationMessages.
AcceptMessages ==
    /\ InvalidateCaches(pending)
    /\ InvalidateCache(pending)
    /\ lost' = lost \union LostTo(pending)
    /\ pending' = {}

\* Taken where the backend opens a catalog.
Accept ==
    /\ pending # {}
    /\ pc # "idle" \/ block
    /\ AcceptMessages
    /\ UNCHANGED <<world, up, tx, made, loaded, curSeq, pc, session, reads,
                   start>>

\* What the transaction starts with: the committed versions.
AtStart == [gen |-> extGen, fdw |-> fdw, tab |-> tab]

------------------------------------------------------------------------------
(* Transactions *)

\* A statement takes a snapshot, unless its transaction keeps the one of its
\* first statement; outside a block it starts a transaction too, which takes
\* the messages.
KeepsSnapshot == block /\ level = RepeatableRead /\ snapTab # 0

StartStatement ==
    /\ pc = "idle"
    /\ pc' = "planner"
    /\ IF KeepsSnapshot THEN UNCHANGED snaps
                        ELSE snapTab' = tab /\ snapFdw' = fdw
    /\ IF block
       THEN UNCHANGED <<pending, meta, ud, secretsValid, start, lost, level>>
       ELSE AcceptMessages /\ start' = AtStart /\ level' \in Levels
    /\ UNCHANGED <<world, up, tx, made, loaded, curSeq, block, roleSet,
                   locks, readSeq, readFdw>>

BeginBlock ==
    /\ pc = "idle" /\ ~block
    /\ block' = TRUE
    /\ AcceptMessages /\ start' = AtStart /\ level' \in Levels
    /\ UNCHANGED <<world, up, tx, made, loaded, curSeq, pc, roleSet, reads>>

\* Both loads use the user mappings of GetUserId(), and nothing is loaded again
\* when that changes: what was loaded is that of another role.
RoleParts == {"ud", "secrets"}

\* SET ROLE in a block; outside it is a block of one statement.
SetRole ==
    /\ pc = "idle" /\ block
    /\ roleSet' = TRUE
    /\ lost' = lost \union RoleParts
    /\ UNCHANGED <<world, pending, meta, ud, inst, pc, block, level, reads, start>>

\* The transaction callback of DuckDB's side: COMMIT or ROLLBACK of tx.  The
\* secrets are entries of DuckDB's own catalog and roll back with it, while
\* secrets_valid is not part of any transaction.
CommitTx ==
    /\ tx' = FALSE /\ saved' = Untouched
    /\ UNCHANGED secrets

UndoesSecrets == tx /\ secretsValid /\ saved # Untouched

RollbackTx ==
    /\ tx' = FALSE /\ saved' = Untouched
    /\ secrets' = IF tx /\ saved # Untouched THEN saved ELSE secrets

\* What it may leave stale: secrets whose load it takes back, and anything that
\* was loaded for a role it takes back.
LostByRollback ==
    (IF UndoesSecrets THEN {"secrets"} ELSE {})
    \union (IF roleSet THEN RoleParts ELSE {})

\* Locals go out of scope, and the snapshot with them unless the transaction
\* keeps it; locks are released.
LeaveStatement ==
    /\ readSeq' = 0 /\ readFdw' = 0
    /\ IF block' /\ level = RepeatableRead
       THEN UNCHANGED snaps
       ELSE snapTab' = 0 /\ snapFdw' = 0

EndTransaction ==
    /\ locks' = FALSE /\ roleSet' = FALSE
    /\ start' = NoTransaction /\ level' = ReadCommitted

\* A statement that is done commits unless it is in a block.
EndStatement ==
    /\ pc \in {"query", "plain", "done"}
    /\ pc' = "idle" /\ block' = block
    /\ IF block THEN UNCHANGED <<tx, made, locks, start, level, roleSet>>
                ELSE CommitTx /\ EndTransaction
    /\ LeaveStatement
    /\ UNCHANGED <<world, pending, meta, ud, up, secretsValid, loaded, curSeq, lost>>

\* COMMIT keeps a role that was set for the session and takes back one that was
\* set for the transaction; ROLLBACK takes back both.
EndBlock ==
    /\ pc = "idle" /\ block
    /\ block' = FALSE
    /\ \/ CommitTx /\ lost' = lost
       \/ CommitTx /\ roleSet /\ lost' = lost \union RoleParts
       \/ RollbackTx /\ lost' = lost \union LostByRollback
    /\ LeaveStatement /\ EndTransaction
    /\ UNCHANGED <<world, pending, meta, ud, up, secretsValid, loaded, curSeq, pc>>

\* An error of the statement (a cancel, a missing schema, a server of an old
\* snapshot that is gone, a DuckDB error) ends its transaction.  Nothing resets
\* cache.initializing, and an instance that could not attach or load everything
\* stays as it is.
StatementError ==
    /\ pc \notin {"idle", "plain", "done"}
    /\ pc' = "idle" /\ block' = FALSE
    /\ LeaveStatement /\ EndTransaction
    /\ RollbackTx
    /\ lost' = lost \union LostByRollback
         \union (IF initializing THEN {"meta"} ELSE {})
         \union (IF pc = "attach" THEN {"exts"} ELSE {})
    /\ UNCHANGED <<world, pending, meta, ud, up, secretsValid, loaded, curSeq>>

------------------------------------------------------------------------------
(* The metadata cache and the user data cache *)

\* Reset of the manager: the instance goes with its secrets, its extensions
\* and its transaction.  secrets_valid and extensions_table_current_seq stay.
Reset ==
    /\ up' = FALSE /\ tx' = FALSE
    /\ secrets' = 0 /\ saved' = Untouched /\ loaded' = 0
    /\ lost' = lost \union (IF up /\ secretsValid THEN {"secrets"} ELSE {})
    /\ UNCHANGED <<secretsValid, curSeq>>

\* IsExtensionRegistered with a cache that answers: the cached value, or "not
\* installed" while the cache is being initialized further up the stack.
IsRegisteredCached ==
    /\ pc = "planner"
    /\ metaValid \/ initializing
    /\ pc' = IF metaValid /\ Installed(metaGen) THEN "connect" ELSE "plain"
    /\ UNCHANGED <<world, pending, meta, ud, inst, session, reads, start, lost>>

\* IsExtensionRegistered fills the cache: the extension is there.
IsRegisteredLoad ==
    /\ pc = "planner"
    /\ ~metaValid /\ ~initializing
    /\ Installed(extGen)
    /\ initializing' = TRUE
    /\ metaGen' = extGen
    /\ pc' = IF udValid THEN "functions" ELSE "server"
    /\ lost' = lost \ {"meta"}
    /\ UNCHANGED <<world, pending, metaValid, ud, inst, session, reads,
                   start>>

\* IsExtensionRegistered fills the cache: the extension is not there, and an
\* instance that is left is dropped.
IsRegisteredAbsent ==
    /\ pc = "planner"
    /\ ~metaValid /\ ~initializing
    /\ ~Installed(extGen)
    /\ metaValid' = TRUE
    /\ metaGen' = extGen
    /\ pc' = "plain"
    /\ IF up THEN Reset ELSE UNCHANGED <<inst, lost>>
    /\ UNCHANGED <<world, pending, initializing, ud, session, reads, start>>

\* What a query through SPI sees of the servers: it takes a new snapshot unless
\* the transaction keeps its own.  A load that reads an old version after the
\* message about the new one was taken stays stale once the transaction is over.
ReadServers == IF level = RepeatableRead THEN snapFdw ELSE fdw

Behind(part) ==
    IF ReadServers # fdw /\ "foreign" \notin pending THEN {part} ELSE {}

\* LoadMotherDuckCache: the server is looked up, then its user mapping.
LoadServer ==
    /\ pc = "server"
    /\ udVer' = ReadServers
    /\ pc' = "mapping"
    /\ lost' = (lost \ {"ud"}) \union Behind("ud")
    /\ UNCHANGED <<world, pending, meta, udValid, inst, session, reads, start>>

\* The rest of InitUserDataCache, and the return to its caller.
LoadMapping ==
    /\ pc = "mapping"
    /\ udValid' = TRUE
    /\ pc' = IF initializing THEN "functions" ELSE "create"
    /\ UNCHANGED <<world, pending, meta, udVer, inst, session, reads, start, lost>>

\* BuildDuckdbOnlyFunctions and the lookups after it, of which the one of the
\* schema raises an error if the schema is gone.
BuildFunctions ==
    /\ pc = "functions"
    /\ Installed(extGen)
    /\ metaValid' = TRUE /\ initializing' = FALSE
    /\ pc' = "connect"
    /\ UNCHANGED <<world, pending, metaGen, ud, inst, session, reads, start, lost>>

------------------------------------------------------------------------------
(* The instance and its connection *)

\* DuckDBManager::Get, and the first look at the user data in Initialize.
GetInstance ==
    /\ pc = "connect"
    /\ pc' = CASE up -> "begin"
               [] ~up /\ udValid -> "create"
               [] OTHER -> "server"
    /\ UNCHANGED <<world, pending, meta, ud, inst, session, reads, start, lost>>

\* duckdb.recycle_ddb(), refused in a transaction block.
RecycleDdb ==
    /\ pc = "connect" /\ ~block
    /\ pc' = "done"
    /\ Reset
    /\ UNCHANGED <<world, pending, meta, ud, session, reads, start>>

\* Initialize: database is set as soon as DuckDB is open.
CreateInstance ==
    /\ pc = "create"
    /\ up' = TRUE
    /\ pc' = "attach"
    /\ UNCHANGED <<world, pending, meta, ud, tx, made, secretsValid, loaded,
                   curSeq, session, reads, start, lost>>

\* The rest of Initialize: settings, the attached databases, a second look at
\* the user data, and the extensions its snapshot sees.
AttachAndLoad ==
    /\ pc = "attach"
    /\ Installed(extGen)
    /\ udValid' = TRUE
    /\ IF udValid
       THEN UNCHANGED <<udVer, lost>>
       ELSE /\ udVer' = ReadServers
            /\ lost' = (lost \ {"ud"}) \union Behind("ud")
    /\ loaded' = snapTab
    /\ locks' = TRUE
    /\ pc' = "begin"
    /\ UNCHANGED <<world, pending, meta, up, tx, made, secretsValid, curSeq, session,
                   snaps, readSeq, readFdw, start>>

\* GetConnection: BEGIN in a block, or when the caller forces it.
BeginTx ==
    /\ pc = "begin"
    /\ \E force \in BOOLEAN : tx' = (tx \/ block \/ force)
    /\ pc' = "exts"
    /\ UNCHANGED <<world, pending, meta, ud, up, made, secretsValid, loaded, curSeq,
                   session, reads, start, lost>>

\* Mutant: the sequence value is recorded before the extensions are loaded.
CheckAndCount ==
    /\ pc = "exts"
    /\ Installed(extGen)
    /\ readSeq' = seq
    /\ curSeq' = seq
    /\ locks' = TRUE
    /\ pc' = IF curSeq < seq THEN "loadexts" ELSE "secrets"
    /\ lost' = CASE curSeq >= seq -> lost
                 [] curSeq < seq /\ (writing \/ tab # snapTab)
                      -> lost \union {"exts"}
                 [] OTHER -> lost \ {"exts"}
    /\ UNCHANGED <<world, pending, meta, ud, up, tx, made, secretsValid, loaded,
                   session, snaps, readFdw, start>>

\* RefreshConnectionState reads the sequence.  A change that it counts and
\* that the snapshot does not see will not be looked for again.
CheckExtensions ==
    /\ pc = "exts"
    /\ Installed(extGen)
    /\ readSeq' = seq
    /\ locks' = TRUE
    /\ pc' = IF curSeq < seq THEN "loadexts" ELSE "secrets"
    /\ lost' = CASE curSeq >= seq -> lost
                 [] curSeq < seq /\ (writing \/ tab # snapTab)
                      -> lost \union {"exts"}
                 [] OTHER -> lost \ {"exts"}
    /\ UNCHANGED <<world, pending, meta, ud, inst, session, snaps, readFdw, start>>

\* LoadExtensions, and only then UpdateExtensionsSeq.
LoadExtensions ==
    /\ pc = "loadexts"
    /\ loaded' = snapTab
    /\ curSeq' = readSeq
    /\ pc' = "secrets"
    /\ UNCHANGED <<world, pending, meta, ud, up, tx, made, secretsValid, session,
                   reads, start, lost>>

\* RefreshConnectionState looks at secrets_valid; DropSecrets.
SetSecrets(version) ==
    /\ secrets' = version
    /\ saved' = IF tx /\ saved = Untouched THEN secrets ELSE saved

DropSecrets ==
    /\ pc = "secrets"
    /\ IF secretsValid
       THEN pc' = "query" /\ UNCHANGED made
       ELSE pc' = "list" /\ SetSecrets(0)
    /\ UNCHANGED <<world, pending, meta, ud, up, tx, secretsValid, loaded,
                   curSeq, session, reads, start, lost>>

\* ListDuckDBCreateSecretQueries reads the servers, and the user mappings of the
\* role of the moment.
ListSecrets ==
    /\ pc = "list"
    /\ readFdw' = ReadServers
    /\ pc' = "make"
    /\ lost' = (lost \ {"secrets"}) \union Behind("secrets")
    /\ UNCHANGED <<world, pending, meta, ud, inst, session, locks, snaps, readSeq,
                   start>>

\* The rest of LoadSecrets, and secrets_valid.
MakeSecrets ==
    /\ pc = "make"
    /\ SetSecrets(readFdw)
    /\ secretsValid' = TRUE
    /\ pc' = "query"
    /\ UNCHANGED <<world, pending, meta, ud, up, tx, loaded, curSeq, session,
                   reads, start, lost>>

Next ==
    \/ ChangeForeign \/ WriteExtensions \/ EndWriteExtensions
    \/ DropExtension \/ CreateExtension \/ Overflow
    \/ Accept
    \/ StartStatement \/ EndStatement \/ StatementError
    \/ BeginBlock \/ EndBlock \/ SetRole
    \/ IsRegisteredCached \/ IsRegisteredLoad \/ IsRegisteredAbsent
    \/ LoadServer \/ LoadMapping \/ BuildFunctions
    \/ GetInstance \/ RecycleDdb \/ CreateInstance \/ AttachAndLoad
    \/ BeginTx \/ CheckExtensions \/ LoadExtensions
    \/ DropSecrets \/ ListSecrets \/ MakeSecrets

Spec == Init /\ [][Next]_vars

------------------------------------------------------------------------------
(* Properties *)

\* A statement that DuckDB runs sees secrets made from servers and user mappings
\* at least as new as its transaction, whatever other sessions changed and
\* rollbacks took back, unless the refresh was lost to one of the named causes:
\* a message during the load, a load by an old snapshot, a rollback of the load,
\* a reset, a change of the role.
SecretsFresh == pc = "query" /\ "secrets" \notin lost => secrets >= start.fdw

\* A statement that DuckDB runs has the extensions that duckdb.extensions
\* listed when its transaction started, whatever errors and recycled instances
\* came before, unless a change was counted early or the sequence restarted.
ExtensionsFresh ==
    pc = "query" /\ "exts" \notin lost => loaded >= start.tab

\* The instance is created with the MotherDuck server and user mapping that
\* were there when the transaction started, or newer ones, unless a message came
\* during the load, the load used an old snapshot, or the role was changed after
\* it.
UserDataFresh == pc = "create" /\ "ud" \notin lost => udVer >= start.fdw

\* A statement is given to DuckDB, or left to Postgres, by what is true of the
\* extension since its transaction started: it is left to Postgres only if the
\* extension was absent then or has changed, and given to DuckDB by oids that
\* are not those of an extension dropped before.
DecisionIsCurrent ==
    "meta" \notin lost =>
        /\ pc = "plain" => ~Installed(start.gen) \/ extGen # start.gen
        /\ pc = "connect" /\ metaValid => metaGen >= start.gen

------------------------------------------------------------------------------
(* Inductive invariants behind them *)

\* The versions that were read are versions that were there.
Ordered ==
    /\ start.gen <= extGen /\ start.fdw <= fdw /\ start.tab <= tab
    /\ metaGen <= extGen
    /\ secrets <= fdw /\ saved <= fdw /\ udVer <= fdw
    /\ snapTab <= tab /\ snapFdw <= fdw
    /\ pc # "idle" => snapTab # 0
    /\ pc = "idle" /\ ~block => snapTab = 0
    /\ snapTab # 0 => snapTab >= start.tab /\ snapFdw >= start.fdw

\* A valid flag that is not lost means the newest version, or a message that
\* will withdraw it; loads that are under way have read such a version.
Current(version, newest, message) == version = newest \/ message \in pending

HasInstance == {"attach", "begin", "exts", "loadexts", "secrets", "list",
                "make", "query"}

SecretsInv ==
    /\ pc \in HasInstance => up
    /\ pc \in {"list", "make"} => ~secretsValid
    /\ secretsValid /\ "secrets" \notin lost =>
          up /\ secrets >= start.fdw /\ Current(secrets, fdw, "foreign")
    /\ pc = "make" =>
          /\ readFdw >= start.fdw /\ readFdw <= fdw
          /\ "secrets" \notin lost => Current(readFdw, fdw, "foreign")
    /\ SecretsFresh

UserDataInv ==
    /\ pc \in {"server", "mapping"} => ~udValid
    /\ udValid \/ pc = "mapping" =>
          \/ "ud" \in lost
          \/ udVer >= start.fdw /\ Current(udVer, fdw, "foreign")
    /\ pc = "create" => udValid \/ "ud" \in lost

MetaInv ==
    /\ initializing => ~metaValid
    /\ pc = "functions" => initializing
    /\ metaValid \/ initializing =>
          \/ "meta" \in lost
          \/ metaGen >= start.gen /\ Current(metaGen, extGen, "namespace")
    /\ initializing => pc \in {"server", "mapping", "functions"} \/ "meta" \in lost
    /\ pc = "plain" =>
          "meta" \in lost \/ ~Installed(start.gen) \/ extGen > start.gen

\* Unless lost: a sequence value that was recorded counts no open change, the
\* snapshot of a statement sees every change it counts, and an instance has
\* loaded them.
ExtensionsInv ==
    "exts" \notin lost =>
        /\ curSeq <= seq
        /\ curSeq = seq => ~writing
        /\ curSeq = seq /\ snapTab # 0 => snapTab = tab
        /\ curSeq = seq /\ up /\ pc # "attach" => loaded >= tab
        /\ pc = "loadexts" /\ readSeq = seq => ~writing /\ snapTab = tab
        /\ pc = "loadexts" => readSeq <= seq
        /\ pc \in {"secrets", "list", "make", "query"} => loaded >= start.tab

==============================================================================
