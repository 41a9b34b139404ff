---------------------------- MODULE PostgresScan ----------------------------
(***************************************************************************)
(* A scan of a Postgres table by DuckDB.  Postgres parallel workers scan   *)
(* the table into one queue each; DuckDB threads take tuples out of the    *)
(* queues in batches, under the process lock, and convert them without it. *)
(* The last thread that finds the scan exhausted cleans the reader up,     *)
(* while DuckDB may still create threads for the same scan.  Without       *)
(* workers, or with one thread, one thread reads what the workers deliver  *)
(* and then scans the rest itself.                                         *)
(*                                                                         *)
(* Tuples are the numbers 1..Tuples, in the order in which the table hands *)
(* them out.  A COUNT( * ) scan is the one-thread case with partial counts *)
(* as tuples.  The slots of a local state and the readers live in memory   *)
(* that the clean-up frees.                                                *)
(***************************************************************************)
EXTENDS Integers, Sequences, FiniteSets, SequencesExt

CONSTANTS
    Threads,        \* DuckDB threads, duckdb.threads_for_postgres_scan of them
    Workers,        \* Postgres parallel workers that were asked for
    Tuples,         \* bound: tuples of the table
    QueueSize,      \* bound: tuples a worker's queue holds
    BatchSize,      \* tuples per batch, LOCAL_STATE_SLOT_BATCH_SIZE
    NumBatches,     \* batches per chunk
    NoThread        \* nobody holds the process lock

ASSUME ScanAssumption ==
    /\ NoThread \notin Threads
    /\ IsFiniteSet(Threads) /\ IsFiniteSet(Workers)
    /\ Tuples \in Nat /\ QueueSize \in Nat \ {0}
    /\ BatchSize \in Nat \ {0} /\ NumBatches \in Nat \ {0}

VARIABLES
    \* Postgres (external)
    scanned,        \* tuples the table has handed out
    running,        \* the workers that are scanning
    failed,         \* a worker has failed and nobody has reported it yet
    queue,          \* queue[w]: tuples worker w has delivered
    latch,          \* the latch of the backend is set
    \* PostgresTableReader
    readers,        \* parallel_worker_readers[0..nreaders-1]
    nextReader,     \* next_parallel_reader
    cleanedUp,      \* cleaned_up
    \* PostgresScanGlobalState
    parallel,       \* MaxThreads() > 1
    registered,     \* registered_local_states
    destroyed,      \* DuckDB has destroyed the global state
    outcome,        \* "open", "error" (an exception reached DuckDB), or
                    \* "crash" (an exception left a destructor)
    \* PostgresScanLocalState and the thread running it
    lock,           \* who holds GlobalProcessLock
    pc,             \* where each thread is
    late,           \* threads whose RegisterLocalState failed
    exhausted,      \* exhausted_scan
    batch,          \* batch_idx, plus one
    fetched,        \* tuples in the current batch
    nvisited,       \* of the GetNextWorkerTuple under way
    delivered       \* delivered[n]: how often tuple n was put into a batch

pgVars == <<scanned, running, failed, queue, latch>>
readerVars == <<readers, nextReader, cleanedUp>>
globalVars == <<parallel, registered, destroyed, outcome>>
threadVars == <<pc, late, exhausted, batch, fetched, nvisited, delivered>>
vars == <<pgVars, readerVars, globalVars, lock, threadVars>>

Set(f, t, v) == [f EXCEPT ![t] = v]
Goto(t, l) == pc' = Set(pc, t, l)

\* batch_size and num_batches of PostgresScanFunction.
Batch == IF parallel THEN BatchSize ELSE BatchSize * NumBatches
\* Mutant: one batch more than the chunk has room for.
BatchesOffByOne == IF parallel THEN NumBatches + 1 ELSE 1
Batches == IF parallel THEN NumBatches ELSE 1

-----------------------------------------------------------------------------
(* Postgres workers.                                                        *)

WorkerScan(w) ==
    /\ w \in running
    /\ scanned < Tuples
    /\ Len(queue[w]) < QueueSize
    /\ scanned' = scanned + 1
    /\ queue' = [queue EXCEPT ![w] = Append(@, scanned + 1)]
    /\ latch' = TRUE
    /\ UNCHANGED <<running, failed, readerVars, globalVars, lock, threadVars>>

\* The worker finds the end of the table and detaches from its queue.
WorkerDone(w) ==
    /\ w \in running
    /\ scanned = Tuples
    /\ running' = running \ {w}
    /\ latch' = TRUE
    /\ UNCHANGED <<scanned, failed, queue, readerVars, globalVars, lock,
                   threadVars>>

\* The worker fails on the tuple it has taken from the table.  To the reader
\* this looks like WorkerDone; the error message waits for an interrupt check.
WorkerFails(w) ==
    /\ w \in running
    /\ scanned < Tuples
    /\ scanned' = scanned + 1
    /\ running' = running \ {w}
    /\ failed' = TRUE
    /\ latch' = TRUE
    /\ UNCHANGED <<queue, readerVars, globalVars, lock, threadVars>>

-----------------------------------------------------------------------------
(* Local states.                                                            *)

\* Mutant: a local state may register at any time.
RegisterAlways(t) ==
    /\ registered' = IF registered < 0 THEN 1 ELSE registered + 1
    /\ UNCHANGED late
\* RegisterLocalState.
RegisterLocalState(t) ==
    IF registered < 0
    THEN late' = late \cup {t} /\ UNCHANGED registered
    ELSE registered' = registered + 1 /\ UNCHANGED late

\* PostgresScanInitLocal.  DuckDB keeps to MaxThreads().
InitLocal(t) ==
    /\ ~destroyed
    /\ pc[t] = "new"
    /\ lock = NoThread
    /\ parallel \/ \A u \in Threads : pc[u] = "new"
    /\ RegisterLocalState(t)
    /\ Goto(t, "idle")
    /\ UNCHANGED <<pgVars, readerVars, parallel, destroyed, outcome, lock,
                   exhausted, batch, fetched, nvisited, delivered>>

\* PostgresScanFunction, up to its loop.
ScanFunction(t) ==
    /\ pc[t] = "idle" /\ ~exhausted[t]
    /\ batch' = Set(batch, t, 1)
    /\ Goto(t, "acquire")
    /\ UNCHANGED <<pgVars, readerVars, globalVars, lock, late,
                   exhausted, fetched, nvisited, delivered>>

\* PostgresScanFunction on an exhausted scan returns an empty chunk; or DuckDB
\* needs no more tuples (LIMIT, an error elsewhere).
ScanEnds(t) ==
    /\ pc[t] = "idle"
    /\ Goto(t, "done")
    /\ UNCHANGED <<pgVars, readerVars, globalVars, lock, late,
                   exhausted, batch, fetched, nvisited, delivered>>

AcquireLock(t) ==
    /\ pc[t] = "acquire"
    /\ lock = NoThread
    /\ lock' = t
    /\ fetched' = Set(fetched, t, 0)
    /\ nvisited' = Set(nvisited, t, 0)
    /\ Goto(t, "fetch")
    /\ UNCHANGED <<pgVars, readerVars, globalVars, late, exhausted,
                   batch, delivered>>

-----------------------------------------------------------------------------
(* Fetching one batch, with the lock held.                                  *)

Fetching(t) == pc[t] = "fetch" /\ lock = t

\* The batch ends after this tuple, or the reader is asked again.
Got(t, n) ==
    /\ delivered' = [delivered EXCEPT ![n] = @ + 1]
    /\ fetched' = Set(fetched, t, fetched[t] + 1)
    /\ nvisited' = Set(nvisited, t, 0)
    /\ IF fetched[t] + 1 = Batch
       THEN Goto(t, "convert") /\ lock' = NoThread
       ELSE UNCHANGED <<pc, lock>>
    /\ UNCHANGED exhausted

GotNothing(t) ==
    /\ exhausted' = Set(exhausted, t, TRUE)
    /\ Goto(t, "convert")
    /\ lock' = NoThread
    /\ UNCHANGED <<delivered, fetched, nvisited>>

\* GetNextWorkerTuple looks at this reader, if there is one.
HasReader == nextReader < Len(readers)
Reader == readers[nextReader + 1]
HasTuple == queue[Reader] # <<>>
IsDone == ~HasTuple /\ Reader \notin running

\* GetNextWorkerTuple: the reader returns a tuple.
FetchTuple(t) ==
    /\ Fetching(t)
    /\ HasReader /\ HasTuple
    /\ queue' = [queue EXCEPT ![Reader] = Tail(@)]
    /\ Got(t, Head(queue[Reader]))
    /\ UNCHANGED <<scanned, running, failed, latch, readerVars, globalVars,
                   late, batch>>

\* Mutant: the index is not wrapped when the last reader of the array is done.
NextAfterRemovalUnwrapped(n) == nextReader
\* The next reader once one of them is removed and n are left.
NextAfterRemoval(n) == IF nextReader >= n THEN 0 ELSE nextReader

\* GetNextWorkerTuple: the reader is done.  After the last one a parallel scan
\* is exhausted; a serial scan goes on with its own scan.
FetchReaderDone(t) ==
    /\ Fetching(t)
    /\ HasReader /\ IsDone
    /\ readers' = RemoveAt(readers, nextReader + 1)
    /\ nextReader' = IF readers' = <<>> THEN nextReader
                                        ELSE NextAfterRemoval(Len(readers'))
    /\ IF readers' = <<>> /\ parallel
       THEN GotNothing(t)
       ELSE UNCHANGED <<exhausted, pc, lock, delivered, fetched, nvisited>>
    /\ UNCHANGED <<pgVars, cleanedUp, globalVars, late, batch>>

\* GetNextWorkerTuple: the reader has nothing now; after a full round the
\* thread waits.
FetchNothingYet(t) ==
    /\ Fetching(t)
    /\ HasReader /\ ~HasTuple /\ ~IsDone
    /\ nextReader' = (nextReader + 1) % Len(readers)
    /\ nvisited' = Set(nvisited, t, nvisited[t] + 1)
    /\ IF nvisited[t] + 1 >= Len(readers) THEN Goto(t, "wait") ELSE UNCHANGED pc
    /\ UNCHANGED <<pgVars, readers, cleanedUp, globalVars, lock, late,
                   exhausted, batch, fetched, delivered>>

Waiting(t) == pc[t] = "wait" /\ lock = t
AfterWait(t) ==
    /\ nvisited' = Set(nvisited, t, 0)
    /\ UNCHANGED <<scanned, running, failed, queue, readerVars, globalVars,
                   lock, late, exhausted, batch, fetched, delivered>>
\* Mutant: the latch is reset before the wait instead of after it.
ResetLatchFirst(t) ==
    /\ Waiting(t)
    /\ \/ nvisited[t] > 0 /\ latch' = FALSE /\ UNCHANGED pc
       \/ nvisited[t] = 0 /\ latch /\ UNCHANGED latch /\ Goto(t, "fetch")
    /\ AfterWait(t)
\* GetNextWorkerTuple: WaitLatch, then ResetLatch, with the lock held.
WaitLatch(t) ==
    /\ Waiting(t)
    /\ latch
    /\ latch' = FALSE
    /\ Goto(t, "fetch")
    /\ AfterWait(t)

\* A parallel scan without a reader is exhausted.
FetchExhausted(t) ==
    /\ Fetching(t)
    /\ ~HasReader
    /\ parallel
    /\ GotNothing(t)
    /\ UNCHANGED <<pgVars, readerVars, globalVars, late, batch>>

\* GetNextTupleUnsafe: a serial scan without a reader takes part in the scan.
FetchOwn(t) ==
    /\ Fetching(t)
    /\ ~HasReader
    /\ ~parallel
    /\ IF scanned = Tuples
       THEN GotNothing(t) /\ UNCHANGED scanned
       ELSE Got(t, scanned + 1) /\ scanned' = scanned + 1
    /\ UNCHANGED <<running, failed, queue, latch, readerVars, globalVars, late,
                   batch>>

\* The own scan checks for interrupts and raises the error of a worker.
FetchOwnRaises(t) ==
    /\ Fetching(t)
    /\ ~HasReader
    /\ ~parallel
    /\ failed
    /\ failed' = FALSE
    /\ outcome' = "error"
    /\ lock' = NoThread
    /\ Goto(t, "done")
    /\ UNCHANGED <<scanned, running, queue, latch, readerVars, parallel,
                   registered, destroyed, late, exhausted, batch, fetched,
                   nvisited, delivered>>

-----------------------------------------------------------------------------
(* After a batch.                                                           *)

\* A parallel scan stores the tuples in the slots of the local state and
\* converts them.  The next batch follows, also after an exhausted one.
Convert(t) ==
    /\ pc[t] = "convert"
    /\ IF batch[t] < Batches
       THEN batch' = Set(batch, t, batch[t] + 1) /\ Goto(t, "acquire")
       ELSE /\ UNCHANGED batch
            /\ Goto(t, IF exhausted[t] THEN "unregister" ELSE "idle")
    /\ UNCHANGED <<pgVars, readerVars, globalVars, lock, late, exhausted,
                   fetched, nvisited, delivered>>

\* Mutant: the workers are stopped without a look at their errors.
CleanupSilently(error) ==
    /\ cleanedUp' = TRUE
    /\ running' = {} /\ failed' = FALSE
    /\ queue' = [w \in Workers |-> <<>>]
    /\ UNCHANGED outcome
\* PostgresTableReader::Cleanup: waits for the workers, raises their error, and
\* frees the readers and the slots; nreaders stays.
Cleanup(error) ==
    /\ cleanedUp' = TRUE
    /\ running' = {} /\ failed' = FALSE
    /\ queue' = [w \in Workers |-> <<>>]
    /\ outcome' = IF failed THEN error ELSE outcome

\* UnregisterLocalState, which ends PostgresScanFunction.  A late local state
\* takes the counter further below zero.
UnregisterLocalState(t) ==
    /\ pc[t] = "unregister"
    /\ lock = NoThread
    /\ Goto(t, IF registered = 1 /\ failed THEN "done" ELSE "idle")
    /\ IF registered = 1
       THEN registered' = -1 /\ Cleanup("error")
       ELSE /\ registered' = registered - 1
            /\ UNCHANGED <<cleanedUp, running, failed, queue, outcome>>
    /\ UNCHANGED <<scanned, latch, readers, nextReader, parallel, destroyed,
                   lock, late, exhausted, batch, fetched, nvisited, delivered>>

\* The query is over: ~PostgresTableReader cleans up what is left.  An
\* exception there ends the process.
Destroy ==
    /\ ~destroyed
    /\ \A t \in Threads : pc[t] \in {"new", "done"}
    /\ \E t \in Threads : pc[t] = "done"
    /\ destroyed' = TRUE
    /\ \/ cleanedUp /\ UNCHANGED <<cleanedUp, running, failed, queue, outcome>>
       \/ ~cleanedUp /\ Cleanup("crash")
    /\ UNCHANGED <<scanned, latch, readers, nextReader, parallel, registered,
                   lock, threadVars>>

-----------------------------------------------------------------------------
(* Specification.                                                           *)

\* PostgresTableReader::Init has launched some of the workers and, if there are
\* any, DuckDB may use several threads.
Init ==
    /\ \E S \in SUBSET Workers :
          /\ running = S
          /\ readers \in {q \in [1..Cardinality(S) -> S] : IsInjective(q)}
    /\ parallel \in {p \in BOOLEAN : p => Cardinality(Threads) > 1 /\ running # {}}
    /\ scanned = 0 /\ failed = FALSE /\ latch = FALSE
    /\ queue = [w \in Workers |-> <<>>]
    /\ nextReader = 0 /\ cleanedUp = FALSE
    /\ registered = 0 /\ destroyed = FALSE /\ outcome = "open"
    /\ lock = NoThread
    /\ pc = [t \in Threads |-> "new"]
    /\ late = {}
    /\ exhausted = [t \in Threads |-> FALSE]
    /\ batch = [t \in Threads |-> 0]
    /\ fetched = [t \in Threads |-> 0]
    /\ nvisited = [t \in Threads |-> 0]
    /\ delivered = [n \in 1..Tuples |-> 0]

WorkerStep(w) == WorkerScan(w) \/ WorkerDone(w)

ThreadStep(t) ==
    \/ ScanFunction(t) \/ AcquireLock(t)
    \/ FetchTuple(t) \/ FetchReaderDone(t) \/ FetchNothingYet(t)
    \/ FetchExhausted(t) \/ FetchOwn(t) \/ FetchOwnRaises(t)
    \/ WaitLatch(t) \/ Convert(t) \/ UnregisterLocalState(t)

Next ==
    \/ \E w \in Workers : WorkerStep(w) \/ WorkerFails(w)
    \/ \E t \in Threads : InitLocal(t) \/ ThreadStep(t) \/ ScanEnds(t)
    \/ Destroy

Spec == Init /\ [][Next]_vars

\* Workers and threads are processes and threads of the operating system, and
\* DuckDB calls the scan again until it is exhausted or no longer needed.  The
\* lock may go to any thread that waits for it.
FairSpec ==
    /\ Spec
    /\ \A w \in Workers : WF_vars(WorkerStep(w))
    /\ \A t \in Threads : WF_vars(ThreadStep(t))
    /\ \A t \in Threads : WF_vars(ScanEnds(t) /\ exhausted[t])

-----------------------------------------------------------------------------
(* Properties.                                                              *)

TypeOK ==
    /\ scanned \in 0..Tuples /\ running \subseteq Workers
    /\ failed \in BOOLEAN /\ latch \in BOOLEAN
    /\ queue \in [Workers -> Seq(1..Tuples)]
    /\ readers \in Seq(Workers) /\ nextReader \in Nat /\ cleanedUp \in BOOLEAN
    /\ parallel \in BOOLEAN /\ registered \in Int /\ destroyed \in BOOLEAN
    /\ outcome \in {"open", "error", "crash"}
    /\ lock \in Threads \cup {NoThread}
    /\ pc \in [Threads -> {"new", "idle", "acquire", "fetch", "wait", "convert",
                           "unregister", "done"}]
    /\ late \subseteq Threads /\ exhausted \in [Threads -> BOOLEAN]
    /\ batch \in [Threads -> 0..NumBatches]
    /\ fetched \in [Threads -> Nat] /\ nvisited \in [Threads -> Nat]
    /\ delivered \in [1..Tuples -> Nat]

\* Thread t is about to touch what the clean-up frees: the readers, the scan of
\* a serial thread, or the slots its tuples go to.
UsesReader(t) ==
    \/ pc[t] \in {"fetch", "wait"} /\ (HasReader \/ ~parallel)
    \/ pc[t] = "convert" /\ parallel /\ fetched[t] > 0

\* The clean-up frees nothing that is still in use: no thread touches a reader,
\* scan or slot afterwards, a local state that may still register finds the
\* reader alive (InitTupleSlot), the clean-up does not run twice (the D_ASSERT
\* of Cleanup), and a local state that came too late never has a tuple for the
\* slots it did not get.
ReaderAlive ==
    /\ cleanedUp => \A t \in Threads : ~UsesReader(t)
    /\ registered >= 0 /\ ~destroyed => ~cleanedUp
    /\ cleanedUp => \A t \in Threads : ~(pc[t] = "unregister" /\ registered = 1)
    /\ \A t \in late : fetched[t] = 0

\* When every thread that took part has seen the end of the scan and no
\* exception was raised, every tuple of the table was delivered exactly once;
\* none is ever delivered twice.  In particular a worker that fails, which looks
\* to its reader like one that is done, never leads to a short result, and its
\* error is left to the destructor, where raising it ends the process, only
\* when DuckDB has stopped asking for tuples before the end.
ScanIsComplete ==
    /\ \A n \in 1..Tuples : delivered[n] <= 1
    /\ /\ outcome = "open"
       /\ \E t \in Threads : pc[t] = "done"
       /\ \A t \in Threads :
             pc[t] = "new" \/ (pc[t] = "done" /\ exhausted[t])
       => \A n \in 1..Tuples : delivered[n] = 1

\* A thread that has started to scan finishes: waiting for the latch with the
\* process lock held blocks neither the thread itself nor the others for ever.
ScanTerminates ==
    \A t \in Threads : (pc[t] = "idle") ~> (pc[t] = "done")

\* What DuckDB sees of the scan: the clean-up by the last local state ends it.
ScanState ==
    CASE outcome # "open" -> "failed"
      [] outcome = "open" /\ registered < 0 -> "complete"
      [] outcome = "open" /\ registered >= 0 /\ destroyed -> "abandoned"
      [] OTHER -> "scanning"
Promise == INSTANCE ScanPromise WITH rows <- delivered, state <- ScanState

\* The threads and workers together implement the scan of ScanPromise: no step
\* of theirs hands a tuple over twice or after the scan has ended, the last
\* local state unregisters without an error only when every tuple was handed
\* over, and the end of a scan is final, whatever threads DuckDB still creates.
KeepsPromise == Promise!Spec
=============================================================================
