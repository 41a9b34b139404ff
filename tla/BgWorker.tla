------------------------------ MODULE BgWorker ------------------------------
(***************************************************************************)
(* The MotherDuck background worker of one database: how backends start    *)
(* it, how a file lock keeps it unique, what it shares with backends in    *)
(* shared memory (the BgwStatePerDB entry), how activity of backends makes *)
(* it refresh, and how one backend borrows its MotherDuck session hint.    *)
(*                                                                         *)
(* A worker is a slot of the postmaster: registered, started, stopped for  *)
(* good (exit code 0), or stopped with an error and started again after    *)
(* bgw_restart_time.  An ERROR passes PG_FINALLY, which removes the shared *)
(* entry; a FATAL (SIGTERM, pg_terminate_backend) does not.                *)
(*                                                                         *)
(* The spinlock makes every access to the entry one step.  The latch only  *)
(* shortens a wait that also ends by timeout, so it is not modelled.  The  *)
(* extension is installed: IsExtensionRegistered() holds in the worker.    *)
(***************************************************************************)
EXTENDS Integers

CONSTANTS
    Backends,       \* client backends of the database
    Workers,        \* postmaster slots for workers
    None,           \* no worker
    MaxActivity,    \* bound: activity counted in one entry
    MaxFailures,    \* bound: failures of workers
    MaxHooks        \* bound: exit hooks one backend registers

ASSUME WorkersAssumption ==
    /\ None \notin Workers
    /\ MaxActivity \in Nat /\ MaxFailures \in Nat /\ MaxHooks \in Nat

VARIABLES
    mdEnabled,      \* IsMotherDuckEnabled()
    wstate,         \* wstate[w]: where the worker of slot w is
    lockHolder,     \* the worker that has the lock file, or None
    entry,          \* the worker that set the entry, None if there is no entry
    activity,       \* activity_count of the entry
    reused,         \* bgw_session_hint_is_reused of the entry
    lastCount,      \* last_activity_count of each worker
    hint,           \* hint[b]: reused_bgw_session_hint of backend b
    hooks,          \* hooks[b]: exit hooks backend b has registered
    alive,          \* the backends that are connected
    failures,       \* failures so far
    owed            \* activity was triggered and no refresh has followed yet

evars == <<entry, activity, reused>>
bvars == <<hint, hooks, alive>>
vars == <<mdEnabled, wstate, lockHolder, evars, lastCount, bvars, failures,
          owed>>

\* free: not registered; starting: the postmaster will start it; locked: has
\* the lock; connected: connected to the database; check, wait: in BgwMainLoop;
\* leaving, failing: after the loop, or after an ERROR in it; exit0, exit1:
\* about to exit with that code.
WorkerStates == {"free", "starting", "locked", "connected", "check", "wait",
                 "leaving", "failing", "exit0", "exit1"}

\* pgstat shows a worker once it is connected to the database.
HasBgwRunningForMyDatabase ==
    \E w \in Workers : wstate[w] \notin {"free", "starting", "locked"}

Step(w, from, to) == wstate[w] = from /\ wstate' = [wstate EXCEPT ![w] = to]

-----------------------------------------------------------------------------
(* Starting a worker.                                                       *)

\* StartBackgroundWorkerIfNeeded in some backend; the slot is any free one.
StartBackgroundWorkerIfNeeded(w) ==
    /\ alive # {}
    /\ mdEnabled
    /\ ~HasBgwRunningForMyDatabase
    /\ Step(w, "free", "starting")
    /\ UNCHANGED <<mdEnabled, lockHolder, evars, lastCount, bvars, failures,
                   owed>>

\* Mutant: the result of flock is ignored.
TakeLockBlindly(w) == Step(w, "starting", "locked") /\ lockHolder' = w
\* CanTakeBgwLockForDatabase: a worker that does not get the lock returns,
\* which is exit code 0.
CanTakeBgwLockForDatabase(w) ==
    \/ /\ lockHolder = None
       /\ Step(w, "starting", "locked")
       /\ lockHolder' = w
    \/ /\ lockHolder # None
       /\ Step(w, "starting", "free")
       /\ UNCHANGED lockHolder

WorkerStart(w) ==
    /\ CanTakeBgwLockForDatabase(w)
    /\ UNCHANGED <<mdEnabled, evars, lastCount, bvars, failures, owed>>

\* BackgroundWorkerInitializeConnectionByOid.
WorkerConnect(w) ==
    /\ Step(w, "locked", "connected")
    /\ UNCHANGED <<mdEnabled, lockHolder, evars, lastCount, bvars, failures,
                   owed>>

\* Mutant: the count of a new entry does not force a refresh.
NoForcedCheck == 0
\* The initial last_activity_count of BgwMainLoop.
ForceCheck == -1

\* SetBackgroundWorkerState, then the start of BgwMainLoop.
WorkerSetState(w) ==
    /\ Step(w, "connected", "check")
    /\ entry' = w
    /\ activity' = 0
    /\ reused' = FALSE
    /\ lastCount' = [lastCount EXCEPT ![w] = ForceCheck]
    /\ UNCHANGED <<mdEnabled, lockHolder, bvars, failures, owed>>

-----------------------------------------------------------------------------
(* BgwMainLoop and its exits.                                               *)

\* RunOneCheck says exit: MotherDuck is not enabled.
WorkerGivesUp(w) ==
    /\ ~mdEnabled
    /\ Step(w, "check", "leaving")
    /\ UNCHANGED <<mdEnabled, lockHolder, evars, lastCount, bvars, failures,
                   owed>>

\* RunOneCheck says exit: the connection, which the first iteration creates,
\* fails.
WorkerConnectionFails(w) ==
    /\ mdEnabled
    /\ lastCount[w] = ForceCheck
    /\ failures < MaxFailures
    /\ failures' = failures + 1
    /\ Step(w, "check", "leaving")
    /\ UNCHANGED <<mdEnabled, lockHolder, evars, lastCount, bvars, owed>>

\* BackgroundWorkerCheck: a changed count restarts MotherDuck's own catalog
\* refresh, then the catalog is synchronized.
WorkerCheck(w) ==
    /\ mdEnabled
    /\ entry # None
    /\ Step(w, "check", "wait")
    /\ lastCount' = [lastCount EXCEPT ![w] = activity]
    /\ owed' = (owed /\ lastCount[w] = activity)
    /\ UNCHANGED <<mdEnabled, lockHolder, evars, bvars, failures>>

\* WaitLatch returns for the latch or after a second.
WorkerWake(w) ==
    /\ Step(w, "wait", "check")
    /\ UNCHANGED <<mdEnabled, lockHolder, evars, lastCount, bvars, failures,
                   owed>>

\* An ERROR in the loop: DuckDB fails, the sync is aborted because the cache
\* version changed, or GetState finds no entry.
WorkerError(w) ==
    /\ failures < MaxFailures
    /\ failures' = failures + 1
    /\ Step(w, "check", "failing")
    /\ UNCHANGED <<mdEnabled, lockHolder, evars, lastCount, bvars, owed>>

\* A FATAL error: no PG_FINALLY.
WorkerFatal(w) ==
    /\ failures < MaxFailures
    /\ failures' = failures + 1
    /\ \E s \in {"locked", "connected", "check", "wait"} : Step(w, s, "exit1")
    /\ UNCHANGED <<mdEnabled, lockHolder, evars, lastCount, bvars, owed>>

\* PG_FINALLY of pgduckdb_background_worker_main: HASH_REMOVE.
WorkerRemoveState(w) ==
    /\ Step(w, "leaving", "exit0") \/ Step(w, "failing", "exit1")
    /\ entry' = None
    /\ activity' = 0
    /\ reused' = FALSE
    /\ UNCHANGED <<mdEnabled, lockHolder, lastCount, bvars, failures, owed>>

\* The process ends, which releases the lock; exit code 1 means a restart.
WorkerExit(w) ==
    /\ Step(w, "exit0", "free") \/ Step(w, "exit1", "starting")
    /\ lockHolder' = IF lockHolder = w THEN None ELSE lockHolder
    /\ UNCHANGED <<mdEnabled, evars, lastCount, bvars, failures, owed>>

-----------------------------------------------------------------------------
(* Backends.                                                                *)

\* TriggerActivity, from the planner hook or the error hook.
TriggerActivity ==
    /\ alive # {}
    /\ mdEnabled
    /\ owed' = TRUE
    /\ \/ /\ entry # None
          /\ activity < MaxActivity
          /\ activity' = activity + 1
       \/ /\ entry = None
          /\ UNCHANGED activity
    /\ UNCHANGED <<mdEnabled, wstate, lockHolder, entry, reused, lastCount,
                   bvars, failures>>

\* PossiblyReuseBgwSessionHint while DuckDB is initialized, when it claims.
\* The flag meant to make the exit hook unique is never set.
PossiblyReuseBgwSessionHint(b) ==
    /\ b \in alive
    /\ mdEnabled
    /\ ~hint[b]
    /\ entry # None /\ ~reused
    /\ hooks[b] < MaxHooks
    /\ reused' = TRUE
    /\ hint' = [hint EXCEPT ![b] = TRUE]
    /\ hooks' = [hooks EXCEPT ![b] = @ + 1]
    /\ UNCHANGED <<mdEnabled, wstate, lockHolder, entry, activity, lastCount,
                   alive, failures, owed>>

\* Mutant: only the backend's own flag is cleared.
UnclaimLocally(b) == UNCHANGED reused
\* UnclaimBgwSessionHint, as far as the entry goes.
UnclaimBgwSessionHint(b) ==
    reused' = (reused /\ ~(hint[b] /\ entry # None))

\* DuckDBManager::Reset (duckdb.recycle_ddb() and others).
ResetDuckdb(b) ==
    /\ b \in alive
    /\ hint[b]
    /\ UnclaimBgwSessionHint(b)
    /\ hint' = [hint EXCEPT ![b] = FALSE]
    /\ UNCHANGED <<mdEnabled, wstate, lockHolder, entry, activity, lastCount,
                   hooks, alive, failures, owed>>

\* A backend exits: the hook unclaims.
BackendExit(b) ==
    /\ b \in alive
    /\ IF hooks[b] > 0 THEN UnclaimBgwSessionHint(b) ELSE UNCHANGED reused
    /\ alive' = alive \ {b}
    /\ hint' = [hint EXCEPT ![b] = FALSE]
    /\ hooks' = [hooks EXCEPT ![b] = 0]
    /\ UNCHANGED <<mdEnabled, wstate, lockHolder, entry, activity, lastCount,
                   failures, owed>>

BackendStart(b) ==
    /\ b \notin alive
    /\ alive' = alive \cup {b}
    /\ UNCHANGED <<mdEnabled, wstate, lockHolder, evars, lastCount, hint, hooks,
                   failures, owed>>

\* The MotherDuck SERVER is created or dropped.
ToggleMotherDuck ==
    /\ mdEnabled' = ~mdEnabled
    /\ UNCHANGED <<wstate, lockHolder, evars, lastCount, bvars, failures, owed>>

-----------------------------------------------------------------------------
Init ==
    /\ mdEnabled = FALSE
    /\ wstate = [w \in Workers |-> "free"]
    /\ lockHolder = None
    /\ entry = None
    /\ activity = 0
    /\ reused = FALSE
    /\ lastCount = [w \in Workers |-> ForceCheck]
    /\ hint = [b \in Backends |-> FALSE]
    /\ hooks = [b \in Backends |-> 0]
    /\ alive = {}
    /\ failures = 0
    /\ owed = FALSE

\* What a worker does by itself.
WorkerStep(w) ==
    \/ WorkerStart(w) \/ WorkerConnect(w) \/ WorkerSetState(w)
    \/ WorkerGivesUp(w) \/ WorkerCheck(w) \/ WorkerWake(w)
    \/ WorkerRemoveState(w) \/ WorkerExit(w)

BackendStep(b) ==
    \/ PossiblyReuseBgwSessionHint(b) \/ ResetDuckdb(b)
    \/ BackendExit(b) \/ BackendStart(b)

Next ==
    \/ \E w \in Workers :
          \/ StartBackgroundWorkerIfNeeded(w) \/ WorkerStep(w)
          \/ WorkerConnectionFails(w) \/ WorkerError(w) \/ WorkerFatal(w)
    \/ TriggerActivity
    \/ \E b \in Backends : BackendStep(b)
    \/ ToggleMotherDuck

Spec == Init /\ [][Next]_vars

\* The operating system runs every started process, and the postmaster starts
\* and restarts registered workers.  Backends and failures need not happen.
FairSpec == Spec /\ \A w \in Workers : WF_vars(WorkerStep(w))

-----------------------------------------------------------------------------
Shape ==
    /\ wstate \in [Workers -> WorkerStates]
    /\ lockHolder \in Workers \cup {None}
    /\ entry \in Workers \cup {None}
    /\ hint \in [Backends -> BOOLEAN]
    /\ hooks \in [Backends -> Nat]

Counts ==
    /\ activity \in Nat /\ failures \in Nat
    /\ lastCount \in [Workers -> Nat \cup {-1}]
    /\ alive \subseteq Backends

Flags == mdEnabled \in BOOLEAN /\ reused \in BOOLEAN /\ owed \in BOOLEAN

\* The type of every variable.
TypeOK == Shape /\ Counts /\ Flags

\* Whoever is past the lock file has it, and its entry is in shared memory
\* while it is in the loop: GetState finds it, and no other worker removes or
\* replaces it, through any race of registrations, failures and restarts.
EntryIsOwn ==
    \A w \in Workers :
        /\ wstate[w] \notin {"free", "starting"} => lockHolder = w
        /\ wstate[w] \in {"check", "wait", "leaving", "failing"} => entry = w

\* When the hint is marked as reused, some connected backend has it: it comes
\* back when that backend exits or resets DuckDB, also across worker restarts.
HintNotLeaked ==
    reused => entry # None /\ \E b \in alive : hint[b] /\ hooks[b] > 0

\* Triggered activity is followed by a refresh as long as a worker is there
\* and MotherDuck stays enabled, also when the worker fails in between and its
\* restart forgets the counter.
ActivityIsServed ==
    owed ~> \/ ~owed \/ ~mdEnabled
            \/ \A w \in Workers : wstate[w] = "free"
=============================================================================
