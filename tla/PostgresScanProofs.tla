------------------------- MODULE PostgresScanProofs -------------------------
(***************************************************************************)
(* Proofs about PostgresScan for any number of threads, workers, tuples,   *)
(* queue slots and batches: the clean-up frees nothing that is in use, the *)
(* result is complete, and the scan implements ScanPromise.                *)
(*                                                                         *)
(* The invariant has three parts beside the types.  Registration: the      *)
(* counter of the global state is the number of local states that have     *)
(* registered and not unregistered, and only a parallel scan whose readers *)
(* are all gone meets local states that come too late.  Readers: whoever   *)
(* may still deliver a tuple has a reader.  Tuples: a tuple the table has  *)
(* handed out was delivered, is in one queue, or was lost by a worker      *)
(* whose error is still to be reported.                                    *)
(***************************************************************************)
EXTENDS PostgresScan, TLAPS, SequenceTheorems, FiniteSetTheorems

-----------------------------------------------------------------------------
(* The inductive invariant.                                                 *)

PgTypes ==
    /\ scanned \in 0..Tuples /\ running \subseteq Workers
    /\ failed \in BOOLEAN /\ latch \in BOOLEAN
    /\ queue \in [Workers -> Seq(1..Tuples)]

SharedTypes ==
    /\ readers \in Seq(Workers) /\ nextReader \in Nat /\ cleanedUp \in BOOLEAN
    /\ parallel \in BOOLEAN /\ registered \in Int /\ destroyed \in BOOLEAN
    /\ outcome \in {"open", "error", "crash"}
    /\ lock \in Threads \cup {NoThread}

ThreadTypes ==
    /\ pc \in [Threads -> {"new", "idle", "acquire", "fetch", "wait", "convert",
                           "unregister", "done"}]
    /\ late \subseteq Threads /\ exhausted \in [Threads -> BOOLEAN]
    /\ batch \in [Threads -> 0..NumBatches]
    /\ fetched \in [Threads -> Nat] /\ nvisited \in [Threads -> Nat]
    /\ delivered \in [1..Tuples -> Nat]

Types == PgTypes /\ SharedTypes /\ ThreadTypes

\* The local state of t has registered and has not unregistered yet.
Enlisted ==
    {t \in Threads : /\ pc[t] # "new" /\ t \notin late
                     /\ ~(exhausted[t] /\ pc[t] \in {"idle", "done"})}

\* Where threads are.
ThreadInv ==
    /\ \A t \in Threads : pc[t] = "new" => fetched[t] = 0 /\ ~exhausted[t]
    /\ \A t \in Threads : pc[t] = "unregister" => exhausted[t]
    /\ \A t \in Threads :
          pc[t] \in {"acquire", "fetch", "wait", "convert"} => batch[t] > 0
    /\ \A t \in Threads :
          ~parallel /\ pc[t] \in {"acquire", "fetch", "wait"} => ~exhausted[t]
    /\ \A t, u \in Threads :
          ~parallel /\ pc[t] # "new" /\ pc[u] # "new" => t = u
    /\ destroyed => \A t \in Threads : pc[t] \in {"new", "done"}

\* What the counter of registered local states says.
RegisterInv ==
    /\ registered >= 0 => registered = Cardinality(Enlisted) /\ late = {}
    /\ registered < 0 => Enlisted = {} /\ cleanedUp
    /\ registered >= 0 /\ ~destroyed => ~cleanedUp
    /\ registered = 0 => \A t \in Threads : pc[t] = "new"
    /\ registered < 0 => \E t \in Threads : pc[t] # "new"
    /\ late # {} => parallel
    /\ \A t \in late : fetched[t] = 0

\* The readers that are left.
ReaderInv ==
    /\ readers # <<>> => nextReader < Len(readers)
    /\ \A w \in Workers :
          w \in running \/ queue[w] # <<>> =>
              \E i \in 1..Len(readers) : readers[i] = w
    /\ \A t \in Threads :
          exhausted[t] => readers = <<>> /\ (parallel \/ scanned = Tuples)
    /\ registered < 0 => readers = <<>>

\* Where the tuples are.
TupleInv ==
    /\ \A n \in 1..Tuples : delivered[n] <= 1
    /\ \A n \in 1..Tuples : n > scanned => delivered[n] = 0
    /\ \A w \in Workers : \A i \in 1..Len(queue[w]) :
          queue[w][i] <= scanned /\ delivered[queue[w][i]] = 0
    /\ \A v, w \in Workers : \A i \in 1..Len(queue[v]), j \in 1..Len(queue[w]) :
          queue[v][i] = queue[w][j] => v = w /\ i = j

\* No worker's error is on its way or was reported, and the reader is in use.
Sound == ~cleanedUp /\ ~failed /\ outcome = "open"

\* Tuple n is still in the table, in a queue, or delivered.
Kept(n) ==
    \/ n > scanned \/ delivered[n] = 1
    \/ \E w \in Workers : \E i \in 1..Len(queue[w]) : queue[w][i] = n

\* The one thread of a serial scan was ended by an exception.
SerialRaised ==
    /\ ~parallel
    /\ \A t \in Threads : pc[t] \in {"new", "done"}
    /\ \E t \in Threads : pc[t] = "done"

\* Nothing is lost without an error.
LossInv ==
    /\ Sound => \A n \in 1..Tuples : Kept(n)
    /\ Sound /\ parallel => running # {} \/ scanned = Tuples
    /\ registered < 0 /\ outcome = "open" => \A n \in 1..Tuples : delivered[n] = 1
    /\ outcome # "open" => destroyed \/ registered < 0 \/ SerialRaised

IInv ==
    Types /\ ThreadInv /\ RegisterInv /\ ReaderInv /\ TupleInv /\ LossInv

-----------------------------------------------------------------------------
(* Operators and steps.                                                     *)

\* What is left once the i-th element is taken out.
LEMMA RemoveAtFacts ==
  ASSUME NEW W, NEW s \in Seq(W), NEW i \in 1..Len(s)
  PROVE  /\ RemoveAt(s, i) \in Seq(W)
         /\ Len(RemoveAt(s, i)) = Len(s) - 1
         /\ \A j \in 1..(Len(s) - 1) :
              RemoveAt(s, i)[j] = IF j < i THEN s[j] ELSE s[j + 1]
<1> DEFINE a == SubSeq(s, 1, i - 1)
           b == SubSeq(s, i + 1, Len(s))
<1>0. Len(s) \in Nat /\ i \in Nat /\ 1 <= i /\ i <= Len(s)
  OBVIOUS
<1>1. /\ a \in Seq(W) /\ Len(a) = i - 1
      /\ \A j \in 1..(i - 1) : a[j] = s[j]
  <2>1. \A j \in 1..(i - 1) : s[j] \in W
    BY <1>0, ElementOfSeq
  <2>2. /\ a \in Seq(W) /\ Len(a) = IF 1 <= i - 1 THEN (i - 1) - 1 + 1 ELSE 0
        /\ \A j \in 1..((i - 1) - 1 + 1) : a[j] = s[1 + j - 1]
    BY <1>0, <2>1, SubSeqProperties
  <2> HIDE DEF a
  <2> QED
    BY <1>0, <2>2
<1>2. /\ b \in Seq(W) /\ Len(b) = Len(s) - i
      /\ \A j \in 1..(Len(s) - i) : b[j] = s[i + j]
  <2>1. \A j \in (i + 1)..Len(s) : s[j] \in W
    BY <1>0, ElementOfSeq
  <2>2. /\ b \in Seq(W) /\ Len(b) = IF i + 1 <= Len(s) THEN Len(s) - (i + 1) + 1 ELSE 0
        /\ \A j \in 1..(Len(s) - (i + 1) + 1) : b[j] = s[i + 1 + j - 1]
    BY <1>0, <2>1, SubSeqProperties
  <2> HIDE DEF b
  <2> QED
    BY <1>0, <2>2
<1>3. RemoveAt(s, i) = a \o b
  BY DEF RemoveAt
<1> HIDE DEF a, b
<1>4. /\ a \o b \in Seq(W) /\ Len(a \o b) = Len(a) + Len(b)
      /\ \A j \in 1..(Len(a) + Len(b)) : (a \o b)[j] =
            IF j <= Len(a) THEN a[j] ELSE b[j - Len(a)]
  BY <1>1, <1>2, ConcatProperties
<1>5. Len(a \o b) = Len(s) - 1
  BY <1>0, <1>1, <1>2, <1>4
<1>6. ASSUME NEW j \in 1..(Len(s) - 1)
      PROVE  (a \o b)[j] = IF j < i THEN s[j] ELSE s[j + 1]
  <2>1. (a \o b)[j] = IF j <= Len(a) THEN a[j] ELSE b[j - Len(a)]
    BY <1>0, <1>1, <1>2, <1>4
  <2>2. CASE j < i
    BY <1>0, <1>1, <2>1, <2>2
  <2>3. CASE ~(j < i)
    <3>1. j - Len(a) \in 1..(Len(s) - i) /\ i + (j - Len(a)) = j + 1
      BY <1>0, <1>1, <2>3
    <3> QED
      BY <1>0, <1>1, <1>2, <2>1, <2>3, <3>1
  <2> QED
    BY <2>2, <2>3
<1> QED
  BY <1>3, <1>4, <1>5, <1>6

\* The index of the next reader stays inside the array.
LEMMA ModFacts ==
  ASSUME NEW a \in Nat, NEW b \in Nat, b # 0
  PROVE  a % b \in Nat /\ a % b < b
  OBVIOUS

LEMMA StepCases ==
  ASSUME [Next]_vars
  PROVE  \/ UNCHANGED vars
         \/ \E w \in Workers : WorkerScan(w) \/ WorkerDone(w) \/ WorkerFails(w)
         \/ \E t \in Threads : InitLocal(t) \/ ThreadStep(t) \/ ScanEnds(t)
         \/ Destroy
  BY DEF Next, WorkerStep

-----------------------------------------------------------------------------
(* Types.                                                                   *)

LEMMA TypeParts == TypeOK <=> Types
  BY DEF TypeOK, Types, PgTypes, SharedTypes, ThreadTypes

LEMMA ReaderFacts ==
  ASSUME PgTypes, SharedTypes, HasReader
  PROVE  /\ nextReader + 1 \in 1..Len(readers) /\ Reader \in Workers
         /\ queue[Reader] \in Seq(1..Tuples)
         /\ Len(readers) \in Nat /\ Len(readers) > 0 /\ readers # <<>>
<1>1. Len(readers) \in Nat
  BY DEF SharedTypes
<1>2. nextReader + 1 \in 1..Len(readers)
  BY <1>1 DEF HasReader, SharedTypes
<1>3. Reader \in Workers
  BY <1>2, ElementOfSeq DEF Reader, SharedTypes
<1>4. readers # <<>>
  BY <1>2, EmptySeq
<1> QED
  BY <1>1, <1>2, <1>3, <1>4 DEF PgTypes

LEMMA CleanupTypes ==
  ASSUME PgTypes, SharedTypes, NEW e \in {"error", "crash"}, Cleanup(e)
  PROVE  /\ cleanedUp' = TRUE /\ running' = {} /\ failed' = FALSE
         /\ queue' \in [Workers -> Seq(1..Tuples)]
         /\ outcome' \in {"open", "error", "crash"}
  BY DEF Cleanup, PgTypes, SharedTypes

\* What Got and GotNothing leave.
LEMMA GotTypes ==
  ASSUME ThreadTypes, SharedTypes, NEW t \in Threads, NEW n \in 1..Tuples,
         Got(t, n) \/ GotNothing(t), UNCHANGED <<late, batch>>
  PROVE  ThreadTypes' /\ lock' \in Threads \cup {NoThread}
<1>1. CASE Got(t, n)
  <2>1. /\ delivered' = [delivered EXCEPT ![n] = delivered[n] + 1]
        /\ fetched' = [fetched EXCEPT ![t] = fetched[t] + 1]
        /\ nvisited' = [nvisited EXCEPT ![t] = 0]
        /\ UNCHANGED exhausted
        /\ \/ pc' = [pc EXCEPT ![t] = "convert"] /\ lock' = NoThread
           \/ UNCHANGED <<pc, lock>>
    BY <1>1 DEF Got, Set, Goto
  <2>2. delivered' \in [1..Tuples -> Nat]
    <3>1. delivered[n] + 1 \in Nat /\ delivered \in [1..Tuples -> Nat]
      BY DEF ThreadTypes
    <3> QED
      BY <2>1, <3>1
  <2>3. fetched' \in [Threads -> Nat] /\ nvisited' \in [Threads -> Nat]
    BY <2>1 DEF ThreadTypes
  <2>4. /\ pc' \in [Threads -> {"new", "idle", "acquire", "fetch", "wait", "convert",
                              "unregister", "done"}]
        /\ lock' \in Threads \cup {NoThread}
    BY <2>1 DEF ThreadTypes, SharedTypes
  <2> QED
    BY <2>1, <2>2, <2>3, <2>4 DEF ThreadTypes
<1>2. CASE GotNothing(t)
  BY <1>2 DEF GotNothing, Set, Goto, ThreadTypes, SharedTypes
<1> QED
  BY <1>1, <1>2

LEMMA WorkerTypes ==
  ASSUME Types, NEW w \in Workers, WorkerScan(w) \/ WorkerDone(w) \/ WorkerFails(w)
  PROVE  Types'
<1> USE DEF Types
<1>1. UNCHANGED <<readerVars, globalVars, lock, threadVars>>
  BY DEF WorkerScan, WorkerDone, WorkerFails
<1>2. SharedTypes' /\ ThreadTypes'
  BY <1>1 DEF SharedTypes, ThreadTypes, readerVars, globalVars, threadVars
<1>3. PgTypes'
  <2>1. CASE WorkerScan(w)
    <3>1. scanned + 1 \in 1..Tuples /\ scanned + 1 \in 0..Tuples
      BY <2>1, ScanAssumption DEF WorkerScan, PgTypes
    <3>2. Append(queue[w], scanned + 1) \in Seq(1..Tuples)
      BY <3>1, AppendProperties DEF PgTypes
    <3> QED
      BY <2>1, <3>1, <3>2 DEF WorkerScan, PgTypes
  <2>2. CASE WorkerDone(w)
    BY <2>2 DEF WorkerDone, PgTypes
  <2>3. CASE WorkerFails(w)
    BY <2>3, ScanAssumption DEF WorkerFails, PgTypes
  <2> QED
    BY <2>1, <2>2, <2>3
<1> QED
  BY <1>2, <1>3

LEMMA FetchTypes ==
  ASSUME Types, NEW t \in Threads,
         \/ FetchTuple(t) \/ FetchReaderDone(t) \/ FetchNothingYet(t)
         \/ FetchExhausted(t) \/ FetchOwn(t) \/ FetchOwnRaises(t) \/ WaitLatch(t)
  PROVE  Types'
<1> USE DEF Types
<1>1. CASE FetchTuple(t)
  <2>1. Reader \in Workers /\ queue[Reader] \in Seq(1..Tuples) /\ queue[Reader] # <<>>
    BY <1>1, ReaderFacts DEF FetchTuple, HasTuple
  <2>2. Head(queue[Reader]) \in 1..Tuples /\ Tail(queue[Reader]) \in Seq(1..Tuples)
    BY <2>1, HeadTailProperties
  <2>3. /\ Got(t, Head(queue[Reader]))
        /\ queue' = [queue EXCEPT ![Reader] = Tail(queue[Reader])]
        /\ UNCHANGED <<scanned, running, failed, latch, readerVars, globalVars, late, batch>>
    BY <1>1 DEF FetchTuple
  <2>4. ThreadTypes' /\ lock' \in Threads \cup {NoThread}
    BY <2>2, <2>3, GotTypes
  <2>5. PgTypes'
    BY <2>1, <2>2, <2>3 DEF PgTypes
  <2> QED
    BY <2>3, <2>4, <2>5 DEF SharedTypes, readerVars, globalVars
<1>2. CASE FetchReaderDone(t)
  <2>1. /\ nextReader + 1 \in 1..Len(readers)
        /\ RemoveAt(readers, nextReader + 1) \in Seq(Workers)
    BY <1>2, ReaderFacts, RemoveAtFacts DEF FetchReaderDone, SharedTypes
  <2>2. /\ readers' = RemoveAt(readers, nextReader + 1)
        /\ nextReader' \in {nextReader, 0}
        /\ UNCHANGED <<pgVars, cleanedUp, globalVars, late, batch>>
        /\ GotNothing(t) \/ UNCHANGED <<exhausted, pc, lock, delivered, fetched, nvisited>>
    BY <1>2 DEF FetchReaderDone, NextAfterRemoval
  <2>3. ThreadTypes' /\ lock' \in Threads \cup {NoThread}
    <3>1. CASE GotNothing(t)
      BY <2>2, <3>1 DEF GotNothing, Set, Goto, ThreadTypes
    <3>2. CASE UNCHANGED <<exhausted, pc, lock, delivered, fetched, nvisited>>
      BY <2>2, <3>2 DEF ThreadTypes, SharedTypes
    <3> QED
      BY <2>2, <3>1, <3>2
  <2> QED
    BY <2>1, <2>2, <2>3 DEF PgTypes, SharedTypes, pgVars, globalVars
<1>3. CASE FetchNothingYet(t)
  <2>1. Len(readers) \in Nat /\ Len(readers) # 0
    BY <1>3, ReaderFacts DEF FetchNothingYet
  <2>2. /\ nextReader' = (nextReader + 1) % Len(readers)
        /\ nvisited' = [nvisited EXCEPT ![t] = nvisited[t] + 1]
        /\ UNCHANGED pc \/ pc' = [pc EXCEPT ![t] = "wait"]
        /\ UNCHANGED <<pgVars, readers, cleanedUp, globalVars, lock, late,
                       exhausted, batch, fetched, delivered>>
    BY <1>3 DEF FetchNothingYet, Set, Goto
  <2>3. nextReader' \in Nat
    BY <2>1, <2>2, ModFacts DEF SharedTypes
  <2>4. nvisited' \in [Threads -> Nat]
    BY <2>2 DEF ThreadTypes
  <2>5. pc' \in [Threads -> {"new", "idle", "acquire", "fetch", "wait", "convert",
                            "unregister", "done"}]
    BY <2>2 DEF ThreadTypes
  <2>6. ThreadTypes'
    BY <2>2, <2>4, <2>5 DEF ThreadTypes
  <2> QED
    BY <2>2, <2>3, <2>6 DEF PgTypes, SharedTypes, pgVars, globalVars
<1>4. CASE FetchExhausted(t)
  BY <1>4 DEF FetchExhausted, GotNothing, Set, Goto, PgTypes, SharedTypes, ThreadTypes,
     pgVars, readerVars, globalVars
<1>5. CASE FetchOwn(t)
  <2>1. UNCHANGED <<running, failed, queue, latch, readerVars, globalVars, late, batch>>
    BY <1>5 DEF FetchOwn
  <2>2. CASE scanned = Tuples
    BY <1>5, <2>1, <2>2 DEF FetchOwn, GotNothing, Set, Goto, PgTypes, SharedTypes,
       ThreadTypes, readerVars, globalVars
  <2>3. CASE scanned # Tuples
    <3>1. scanned + 1 \in 1..Tuples /\ scanned + 1 \in 0..Tuples
      BY <2>3, ScanAssumption DEF PgTypes
    <3>2. Got(t, scanned + 1) /\ scanned' = scanned + 1
      BY <1>5, <2>3 DEF FetchOwn
    <3>3. ThreadTypes' /\ lock' \in Threads \cup {NoThread}
      BY <2>1, <3>1, <3>2, GotTypes
    <3> QED
      BY <2>1, <3>1, <3>2, <3>3 DEF PgTypes, SharedTypes, readerVars, globalVars
  <2> QED
    BY <2>2, <2>3
<1>6. CASE FetchOwnRaises(t)
  BY <1>6 DEF FetchOwnRaises, Set, Goto, PgTypes, SharedTypes, ThreadTypes, readerVars
<1>7. CASE WaitLatch(t)
  BY <1>7 DEF WaitLatch, AfterWait, Set, Goto, PgTypes, SharedTypes, ThreadTypes,
     readerVars, globalVars
<1> QED
  BY <1>1, <1>2, <1>3, <1>4, <1>5, <1>6, <1>7

LEMMA TypeStep ==
  ASSUME Types, [Next]_vars
  PROVE  Types'
<1> USE DEF Types
<1>1. CASE UNCHANGED vars
  BY <1>1 DEF vars, PgTypes, SharedTypes, ThreadTypes, pgVars, readerVars,
     globalVars, threadVars
<1>2. CASE Destroy
  <2>1. /\ cleanedUp' \in BOOLEAN /\ running' \subseteq Workers /\ failed' \in BOOLEAN
        /\ queue' \in [Workers -> Seq(1..Tuples)]
        /\ outcome' \in {"open", "error", "crash"}
    BY <1>2, CleanupTypes DEF Destroy, PgTypes, SharedTypes
  <2> QED
    BY <1>2, <2>1 DEF Destroy, PgTypes, SharedTypes, ThreadTypes, threadVars
<1>3. ASSUME NEW w \in Workers, WorkerScan(w) \/ WorkerDone(w) \/ WorkerFails(w)
      PROVE  Types'
  BY <1>3, WorkerTypes
<1>4. ASSUME NEW t \in Threads, InitLocal(t) \/ ThreadStep(t) \/ ScanEnds(t)
      PROVE  Types'
  <2>1. CASE InitLocal(t)
    BY <2>1 DEF InitLocal, RegisterLocalState, Set, Goto, PgTypes, SharedTypes,
       ThreadTypes, pgVars, readerVars
  <2>2. CASE ScanFunction(t) \/ ScanEnds(t)
    <3>1. 1 \in 0..NumBatches
      BY ScanAssumption
    <3> QED
      BY <2>2, <3>1 DEF ScanFunction, ScanEnds, Set, Goto, PgTypes, SharedTypes,
         ThreadTypes, pgVars, readerVars, globalVars
  <2>3. CASE AcquireLock(t)
    BY <2>3 DEF AcquireLock, Set, Goto, PgTypes, SharedTypes, ThreadTypes, pgVars,
       readerVars, globalVars
  <2>4. CASE Convert(t)
    <3>1. /\ \/ batch[t] < Batches /\ batch' = [batch EXCEPT ![t] = batch[t] + 1]
             \/ UNCHANGED batch
          /\ pc' \in {[pc EXCEPT ![t] = l] : l \in {"acquire", "unregister", "idle"}}
          /\ UNCHANGED <<pgVars, readerVars, globalVars, lock, late, exhausted,
                         fetched, nvisited, delivered>>
      BY <2>4 DEF Convert, Set, Goto
    <3>2. batch' \in [Threads -> 0..NumBatches]
      <4>1. batch[t] \in 0..NumBatches /\ NumBatches \in Nat /\ NumBatches >= 1
        BY ScanAssumption DEF ThreadTypes
      <4>2. CASE batch[t] < Batches /\ batch' = [batch EXCEPT ![t] = batch[t] + 1]
        <5>1. batch[t] + 1 \in 0..NumBatches
          BY <4>1, <4>2 DEF Batches
        <5> QED
          BY <4>2, <5>1 DEF ThreadTypes
      <4> QED
        BY <3>1, <4>2 DEF ThreadTypes
    <3>3. /\ UNCHANGED <<pgVars, readerVars, globalVars, lock, late, exhausted,
                         fetched, nvisited, delivered>>
          /\ pc' \in [Threads -> {"new", "idle", "acquire", "fetch", "wait", "convert",
                           "unregister", "done"}]
      BY <3>1 DEF ThreadTypes
    <3> QED
      BY <3>2, <3>3 DEF PgTypes, SharedTypes, ThreadTypes, pgVars, readerVars, globalVars
  <2>5. CASE UnregisterLocalState(t)
    <3>1. /\ cleanedUp' \in BOOLEAN /\ running' \subseteq Workers /\ failed' \in BOOLEAN
          /\ queue' \in [Workers -> Seq(1..Tuples)]
          /\ outcome' \in {"open", "error", "crash"} /\ registered' \in Int
      <4>1. CASE registered = 1
        <5>1. Cleanup("error") /\ registered' = -1
          BY <2>5, <4>1 DEF UnregisterLocalState
        <5>2. cleanedUp' = TRUE /\ running' = {} /\ failed' = FALSE /\ registered' \in Int
          BY <5>1 DEF Cleanup
        <5> QED
          BY <5>1, <5>2, CleanupTypes
      <4>2. CASE registered # 1
        BY <2>5, <4>2 DEF UnregisterLocalState, PgTypes, SharedTypes
      <4> QED
        BY <4>1, <4>2
    <3> QED
      BY <2>5, <3>1 DEF UnregisterLocalState, Set, Goto, PgTypes, SharedTypes,
         ThreadTypes
  <2> QED
    BY <1>4, <2>1, <2>2, <2>3, <2>4, <2>5, FetchTypes DEF ThreadStep
<1> QED
  BY <1>1, <1>2, <1>3, <1>4, StepCases

-----------------------------------------------------------------------------
(* Where threads are.                                                       *)

\* The steps of thread t, one by one.
LEMMA ThreadCases ==
  ASSUME NEW t \in Threads, InitLocal(t) \/ ThreadStep(t) \/ ScanEnds(t)
  PROVE  \/ InitLocal(t) \/ ScanEnds(t) \/ ScanFunction(t) \/ AcquireLock(t)
         \/ FetchTuple(t) \/ FetchReaderDone(t) \/ FetchNothingYet(t)
         \/ FetchExhausted(t) \/ FetchOwn(t) \/ FetchOwnRaises(t)
         \/ WaitLatch(t) \/ Convert(t) \/ UnregisterLocalState(t)
  BY DEF ThreadStep

LEMMA ThreadStepInv ==
  ASSUME Types, ThreadInv, [Next]_vars
  PROVE  ThreadInv'
<1> USE DEF Types
<1>1. CASE UNCHANGED vars
  BY <1>1 DEF vars, ThreadInv, globalVars, threadVars
<1>2. CASE Destroy
  BY <1>2 DEF Destroy, ThreadInv, threadVars
<1>3. ASSUME NEW w \in Workers, WorkerScan(w) \/ WorkerDone(w) \/ WorkerFails(w)
      PROVE  ThreadInv'
  BY <1>3 DEF WorkerScan, WorkerDone, WorkerFails, ThreadInv, globalVars, threadVars
<1>4. ASSUME NEW t \in Threads, InitLocal(t) \/ ThreadStep(t) \/ ScanEnds(t)
      PROVE  ThreadInv'
  <2> USE DEF ThreadInv, ThreadTypes, globalVars, Set, Goto
  <2>1. CASE InitLocal(t)
    BY <2>1 DEF InitLocal
  <2>2. CASE ScanEnds(t)
    BY <2>2 DEF ScanEnds
  <2>3. CASE ScanFunction(t)
    BY <2>3 DEF ScanFunction
  <2>4. CASE AcquireLock(t)
    BY <2>4 DEF AcquireLock
  <2>5. CASE FetchTuple(t)
    BY <2>5 DEF FetchTuple, Fetching, Got
  <2>6. CASE FetchReaderDone(t)
    BY <2>6 DEF FetchReaderDone, Fetching, GotNothing
  <2>7. CASE FetchNothingYet(t)
    BY <2>7 DEF FetchNothingYet, Fetching
  <2>8. CASE FetchExhausted(t)
    BY <2>8 DEF FetchExhausted, Fetching, GotNothing
  <2>9. CASE FetchOwn(t)
    <3>1. /\ pc[t] = "fetch" /\ UNCHANGED <<parallel, destroyed, batch>>
          /\ GotNothing(t) \/ Got(t, scanned + 1)
      BY <2>9 DEF FetchOwn, Fetching
    <3>2. CASE GotNothing(t)
      BY <3>1, <3>2 DEF GotNothing
    <3>3. CASE Got(t, scanned + 1)
      BY <3>1, <3>3 DEF Got
    <3> QED
      BY <3>1, <3>2, <3>3
  <2>10. CASE FetchOwnRaises(t)
    BY <2>10 DEF FetchOwnRaises, Fetching
  <2>11. CASE WaitLatch(t)
    BY <2>11 DEF WaitLatch, Waiting, AfterWait
  <2>12. CASE Convert(t)
    <3>1. batch[t] \in Int /\ batch[t] > 0
      BY <2>12, ScanAssumption DEF Convert
    <3>2. CASE batch[t] < Batches
      <4>1. parallel /\ batch[t] + 1 > 0
        BY <3>1, <3>2 DEF Batches
      <4> QED
        BY <2>12, <3>2, <4>1 DEF Convert
    <3>3. CASE ~(batch[t] < Batches)
      BY <2>12, <3>3 DEF Convert
    <3> QED
      BY <3>2, <3>3
  <2>13. CASE UnregisterLocalState(t)
    BY <2>13 DEF UnregisterLocalState
  <2> QED
    BY <1>4, <2>1, <2>2, <2>3, <2>4, <2>5, <2>6, <2>7, <2>8, <2>9, <2>10, <2>11,
       <2>12, <2>13, ThreadCases
<1> QED
  BY <1>1, <1>2, <1>3, <1>4, StepCases

-----------------------------------------------------------------------------
(* Registration.                                                            *)

\* A step of thread t between its registration and its unregistration.
Quiet(t) ==
    \/ ScanEnds(t) \/ ScanFunction(t) \/ AcquireLock(t)
    \/ FetchTuple(t) \/ FetchReaderDone(t) \/ FetchNothingYet(t)
    \/ FetchExhausted(t) \/ FetchOwn(t) \/ FetchOwnRaises(t)
    \/ WaitLatch(t) \/ Convert(t)

\* Such a step leaves alone who is enlisted, and gives t a tuple only where
\* there is a reader or the scan is serial.
LEMMA QuietFacts ==
  ASSUME Types, ThreadInv, NEW t \in Threads, Quiet(t)
  PROVE  /\ UNCHANGED <<late, registered, destroyed, parallel, cleanedUp>>
         /\ \A u \in Threads \ {t} : /\ pc'[u] = pc[u] /\ exhausted'[u] = exhausted[u]
                                     /\ fetched'[u] = fetched[u]
         /\ pc[t] # "new" /\ pc'[t] # "new"
         /\ (exhausted'[t] /\ pc'[t] \in {"idle", "done"})
               <=> (exhausted[t] /\ pc[t] \in {"idle", "done"})
         /\ fetched'[t] = fetched[t] \/ fetched'[t] = 0 \/ HasReader \/ ~parallel
<1> USE DEF Types, ThreadInv, ThreadTypes, globalVars, readerVars, Set, Goto
<1>1. CASE ScanEnds(t)
  BY <1>1 DEF ScanEnds
<1>2. CASE ScanFunction(t)
  BY <1>2 DEF ScanFunction
<1>3. CASE AcquireLock(t)
  BY <1>3 DEF AcquireLock
<1>4. CASE FetchTuple(t)
  BY <1>4 DEF FetchTuple, Fetching, Got
<1>5. CASE FetchReaderDone(t)
  BY <1>5 DEF FetchReaderDone, Fetching, GotNothing
<1>6. CASE FetchNothingYet(t)
  BY <1>6 DEF FetchNothingYet, Fetching
<1>7. CASE FetchExhausted(t)
  BY <1>7 DEF FetchExhausted, Fetching, GotNothing
<1>8. CASE FetchOwn(t)
  <2>1. /\ pc[t] = "fetch" /\ ~parallel
        /\ UNCHANGED <<late, registered, destroyed, parallel, cleanedUp>>
        /\ GotNothing(t) \/ Got(t, scanned + 1)
    BY <1>8 DEF FetchOwn, Fetching
  <2>2. CASE GotNothing(t)
    BY <2>1, <2>2 DEF GotNothing
  <2>3. CASE Got(t, scanned + 1)
    BY <2>1, <2>3 DEF Got
  <2> QED
    BY <2>1, <2>2, <2>3
<1>9. CASE FetchOwnRaises(t)
  BY <1>9 DEF FetchOwnRaises, Fetching
<1>10. CASE WaitLatch(t)
  BY <1>10 DEF WaitLatch, Waiting, AfterWait
<1>11. CASE Convert(t)
  <2>1. /\ UNCHANGED <<late, registered, destroyed, parallel, cleanedUp, exhausted, fetched>>
        /\ pc[t] = "convert"
        /\ \/ pc' = [pc EXCEPT ![t] = "acquire"]
           \/ pc' = [pc EXCEPT ![t] = IF exhausted[t] THEN "unregister" ELSE "idle"]
    BY <1>11 DEF Convert
  <2> QED
    BY <2>1
<1> QED
  BY <1>1, <1>2, <1>3, <1>4, <1>5, <1>6, <1>7, <1>8, <1>9, <1>10, <1>11 DEF Quiet

\* Who is enlisted is a finite set.
LEMMA EnlistedFinite ==
  /\ IsFiniteSet(Enlisted) /\ Cardinality(Enlisted) \in Nat
  /\ Enlisted = {} <=> Cardinality(Enlisted) = 0
<1>1. Enlisted \subseteq Threads
  BY DEF Enlisted
<1>2. IsFiniteSet(Enlisted)
  BY <1>1, FS_Subset, ScanAssumption
<1> QED
  BY <1>2, FS_CardinalityType, FS_EmptySet

\* A thread enlists when its local state registers in time, and only then.
LEMMA InitLocalFacts ==
  ASSUME Types, ThreadInv, RegisterInv, NEW t \in Threads, InitLocal(t)
  PROVE  IF registered < 0
         THEN Enlisted' = Enlisted
         ELSE Enlisted' = Enlisted \cup {t} /\ t \notin Enlisted
<1> USE DEF Types, ThreadTypes, ThreadInv
<1>1. /\ pc[t] = "new" /\ pc' = [pc EXCEPT ![t] = "idle"] /\ UNCHANGED exhausted
      /\ ~exhausted[t]
  BY DEF InitLocal, Set, Goto
<1>2. CASE registered < 0
  <2>1. late' = late \cup {t}
    BY <1>2 DEF InitLocal, RegisterLocalState
  <2> QED
    BY <1>1, <1>2, <2>1 DEF Enlisted
<1>3. CASE ~(registered < 0)
  <2>1. UNCHANGED late /\ late = {}
    BY <1>3 DEF InitLocal, RegisterLocalState, RegisterInv, SharedTypes
  <2> QED
    BY <1>1, <1>3, <2>1 DEF Enlisted
<1> QED
  BY <1>2, <1>3

\* A thread that unregisters leaves, unless it came too late.
LEMMA UnregisterFacts ==
  ASSUME Types, ThreadInv, RegisterInv, NEW t \in Threads, UnregisterLocalState(t)
  PROVE  /\ registered # 0
         /\ registered > 0 => Enlisted' = Enlisted \ {t} /\ t \in Enlisted
         /\ registered < 0 => Enlisted' = {}
<1> USE DEF Types, ThreadTypes
<1>1. /\ pc[t] = "unregister" /\ exhausted[t] /\ UNCHANGED <<exhausted, late>>
      /\ \E l \in {"idle", "done"} : pc' = [pc EXCEPT ![t] = l]
  BY DEF UnregisterLocalState, ThreadInv, Set, Goto
<1>2. registered # 0
  BY <1>1 DEF RegisterInv
<1>3. ASSUME registered > 0
      PROVE  Enlisted' = Enlisted \ {t} /\ t \in Enlisted
  <2>1. late = {}
    BY <1>3 DEF RegisterInv, SharedTypes
  <2> QED
    BY <1>1, <2>1 DEF Enlisted
<1>4. ASSUME registered < 0
      PROVE  Enlisted' = {}
  <2>1. Enlisted = {}
    BY <1>4 DEF RegisterInv
  <2> QED
    BY <1>1, <2>1 DEF Enlisted
<1> QED
  BY <1>2, <1>3, <1>4

LEMMA RegisterStep ==
  ASSUME Types, ThreadInv, RegisterInv, ReaderInv, [Next]_vars
  PROVE  RegisterInv'
<1> USE DEF Types
<1>0. registered \in Int
  BY DEF SharedTypes
<1>1. CASE UNCHANGED vars
  BY <1>1 DEF vars, RegisterInv, Enlisted, globalVars, readerVars, threadVars
<1>2. CASE Destroy
  <2>1. /\ UNCHANGED <<Enlisted, registered, parallel, threadVars>>
        /\ destroyed' /\ cleanedUp'
    BY <1>2 DEF Destroy, Enlisted, threadVars, Cleanup
  <2> QED
    BY <2>1 DEF RegisterInv, threadVars
<1>3. ASSUME NEW w \in Workers, WorkerScan(w) \/ WorkerDone(w) \/ WorkerFails(w)
      PROVE  RegisterInv'
  <2>1. UNCHANGED <<readerVars, globalVars, threadVars>>
    BY <1>3 DEF WorkerScan, WorkerDone, WorkerFails
  <2> QED
    BY <2>1 DEF RegisterInv, Enlisted, globalVars, readerVars, threadVars
<1>4. ASSUME NEW t \in Threads, InitLocal(t)
      PROVE  RegisterInv'
  <2>1. /\ pc[t] = "new" /\ ~destroyed /\ pc' = [pc EXCEPT ![t] = "idle"]
        /\ fetched[t] = 0
        /\ UNCHANGED <<parallel, destroyed, cleanedUp, fetched>>
        /\ parallel \/ \A u \in Threads : pc[u] = "new"
    BY <1>4 DEF InitLocal, Set, Goto, readerVars, ThreadInv
  <2>2. pc'[t] = "idle" /\ pc'[t] # "new"
    BY <2>1 DEF ThreadTypes
  <2>3. CASE registered < 0
    <3>1. UNCHANGED registered /\ late' = late \cup {t} /\ Enlisted' = Enlisted
      BY <1>4, <2>3, InitLocalFacts DEF InitLocal, RegisterLocalState
    <3>2. parallel
      BY <2>1, <2>3 DEF RegisterInv
    <3> QED
      BY <1>0, <2>1, <2>2, <2>3, <3>1, <3>2 DEF RegisterInv
  <2>4. CASE ~(registered < 0)
    <3>1. registered' = registered + 1 /\ UNCHANGED late
      BY <1>4, <2>4 DEF InitLocal, RegisterLocalState
    <3>2. Enlisted' = Enlisted \cup {t} /\ t \notin Enlisted
      BY <1>4, <2>4, InitLocalFacts
    <3>3. Cardinality(Enlisted') = Cardinality(Enlisted) + 1
      BY <3>2, EnlistedFinite, FS_AddElement
    <3>4. registered >= 0 /\ registered' > 0
      BY <1>0, <2>4, <3>1
    <3> QED
      BY <1>0, <2>1, <3>1, <3>3, <3>4 DEF RegisterInv
  <2> QED
    BY <2>3, <2>4
<1>5. ASSUME NEW t \in Threads, UnregisterLocalState(t)
      PROVE  RegisterInv'
  <2>1. /\ UNCHANGED <<parallel, destroyed, late, fetched>>
        /\ \E l \in {"idle", "done"} : pc' = [pc EXCEPT ![t] = l]
    BY <1>5 DEF UnregisterLocalState, Set, Goto
  <2>2. pc'[t] # "new"
    BY <2>1 DEF ThreadTypes
  <2>3. CASE registered = 1
    <3>1. registered' = -1 /\ cleanedUp'
      BY <1>5, <2>3 DEF UnregisterLocalState, Cleanup
    <3>2. Enlisted' = Enlisted \ {t} /\ t \in Enlisted
      BY <1>5, <2>3, UnregisterFacts
    <3>3. Cardinality(Enlisted) = 1
      BY <2>3 DEF RegisterInv
    <3>4. IsFiniteSet(Enlisted')  /\ Cardinality(Enlisted') = 0
      BY <3>2, <3>3, EnlistedFinite, FS_RemoveElement
    <3>5. Enlisted' = {}
      BY <3>4, FS_EmptySet
    <3> QED
      BY <2>1, <2>2, <3>1, <3>5 DEF RegisterInv
  <2>4. CASE registered < 0
    <3>1. registered' = registered - 1 /\ UNCHANGED cleanedUp
      BY <1>5, <2>4 DEF UnregisterLocalState
    <3>2. Enlisted' = {} /\ registered' < 0
      BY <1>0, <1>5, <2>4, <3>1, UnregisterFacts
    <3> QED
      BY <1>0, <2>1, <2>2, <2>4, <3>1, <3>2 DEF RegisterInv
  <2>5. CASE registered > 1
    <3>1. registered' = registered - 1 /\ UNCHANGED cleanedUp
      BY <1>0, <1>5, <2>5 DEF UnregisterLocalState
    <3>2. Enlisted' = Enlisted \ {t} /\ t \in Enlisted
      BY <1>0, <1>5, <2>5, UnregisterFacts
    <3>3. Cardinality(Enlisted') = Cardinality(Enlisted) - 1
      BY <3>2, EnlistedFinite, FS_RemoveElement
    <3>4. registered' > 0
      BY <1>0, <2>5, <3>1
    <3> QED
      BY <1>0, <2>1, <2>5, <3>1, <3>3, <3>4 DEF RegisterInv
  <2> QED
    BY <1>0, <1>5, <2>3, <2>4, <2>5, UnregisterFacts
<1>6. ASSUME NEW t \in Threads, Quiet(t)
      PROVE  RegisterInv'
  <2>1. /\ UNCHANGED <<late, registered, destroyed, parallel, cleanedUp>>
        /\ \A u \in Threads : pc'[u] = "new" <=> pc[u] = "new"
    BY <1>6, QuietFacts
  <2>2. UNCHANGED Enlisted
    <3> HIDE DEF Types
    <3>1. \A u \in Threads : (exhausted'[u] /\ pc'[u] \in {"idle", "done"})
                               <=> (exhausted[u] /\ pc[u] \in {"idle", "done"})
      BY <1>6, QuietFacts
    <3> QED
      BY <2>1, <3>1 DEF Enlisted
  <2>3. \A u \in late : fetched'[u] = 0
    <3>1. SUFFICES ASSUME NEW u \in late PROVE fetched'[u] = 0
      OBVIOUS
    <3>2. fetched[u] = 0 /\ parallel /\ registered < 0 /\ u \in Threads
      BY <1>0, <3>1 DEF RegisterInv, ThreadTypes
    <3>3. ~HasReader
      BY <3>2 DEF ReaderInv, HasReader, SharedTypes
    <3> QED
      BY <1>6, <3>2, <3>3, QuietFacts
  <2> QED
    BY <2>1, <2>2, <2>3 DEF RegisterInv
<1> QED
  BY <1>1, <1>2, <1>3, <1>4, <1>5, <1>6, StepCases, ThreadCases DEF Quiet

-----------------------------------------------------------------------------
(* The readers that are left.                                               *)

\* Worker w has a reader.
Has(w) == \E i \in 1..Len(readers) : readers[i] = w

\* What a reader that is taken out of the array leaves behind.
LEMMA RemovalKeeps ==
  ASSUME Types, HasReader, readers' = RemoveAt(readers, nextReader + 1),
         NEW w \in Workers, w # Reader, Has(w)
  PROVE  Has(w)'
<1>1. /\ nextReader + 1 \in 1..Len(readers) /\ Len(readers) \in Nat
      /\ readers \in Seq(Workers) /\ nextReader \in Nat
  BY ReaderFacts DEF Types, SharedTypes
<1>2. /\ Len(readers') = Len(readers) - 1
      /\ \A j \in 1..(Len(readers) - 1) :
            readers'[j] = IF j < nextReader + 1 THEN readers[j] ELSE readers[j + 1]
  BY <1>1, RemoveAtFacts
<1>3. PICK i \in 1..Len(readers) : readers[i] = w
  BY DEF Has
<1>4. i # nextReader + 1
  BY <1>3 DEF Reader
<1>5. CASE i < nextReader + 1
  <2>1. i \in 1..(Len(readers) - 1)
    BY <1>1, <1>3, <1>5
  <2>2. readers'[i] = w
    BY <1>2, <1>3, <1>5, <2>1
  <2> QED
    BY <1>2, <2>1, <2>2 DEF Has
<1>6. CASE i > nextReader + 1
  <2>1. i - 1 \in 1..(Len(readers) - 1) /\ ~(i - 1 < nextReader + 1) /\ (i - 1) + 1 = i
    BY <1>1, <1>6
  <2>2. readers'[i - 1] = w
    BY <1>2, <1>3, <2>1
  <2>3. i - 1 \in 1..Len(readers')
    BY <1>2, <2>1
  <2> QED
    BY <2>2, <2>3 DEF Has
<1> QED
  BY <1>1, <1>4, <1>5, <1>6

\* A step that leaves the readers alone.
LEMMA ReaderFrame ==
  ASSUME Types, ReaderInv, UNCHANGED <<readers, nextReader, parallel>>,
         \A w \in Workers : w \in running' \/ queue'[w] # <<>> =>
                                w \in running \/ queue[w] # <<>>,
         scanned' = scanned \/ scanned # Tuples,
         \A u \in Threads : exhausted'[u] =>
             exhausted[u] \/ (readers = <<>> /\ (parallel \/ scanned' = Tuples)),
         registered' < 0 => registered < 0 \/ readers = <<>>
  PROVE  ReaderInv'
<1>1. (readers # <<>> => nextReader < Len(readers))'
  BY DEF ReaderInv
<1>2. (\A w \in Workers : w \in running \/ queue[w] # <<>> =>
          \E i \in 1..Len(readers) : readers[i] = w)'
  BY DEF ReaderInv
<1>3. (\A t \in Threads : exhausted[t] => readers = <<>> /\ (parallel \/ scanned = Tuples))'
  BY DEF ReaderInv
<1>4. (registered < 0 => readers = <<>>)'
  BY DEF ReaderInv
<1> QED
  BY <1>1, <1>2, <1>3, <1>4 DEF ReaderInv

\* The clean-up leaves nobody who could deliver.
LEMMA CleanupEmpties ==
  ASSUME NEW e, Cleanup(e)
  PROVE  \A w \in Workers : ~(w \in running' \/ queue'[w] # <<>>)
  BY DEF Cleanup

\* A reader that is taken out.
LEMMA ReaderDoneStep ==
  ASSUME Types, ReaderInv, NEW t \in Threads, FetchReaderDone(t)
  PROVE  ReaderInv'
<1> USE DEF Types
<1>1. /\ nextReader + 1 \in 1..Len(readers) /\ Len(readers) \in Nat
      /\ readers \in Seq(Workers) /\ nextReader \in Nat /\ readers # <<>>
      /\ HasReader
  BY ReaderFacts DEF SharedTypes, FetchReaderDone
<1>2. /\ readers' = RemoveAt(readers, nextReader + 1)
      /\ nextReader' = IF readers' = <<>> THEN nextReader
                                          ELSE NextAfterRemoval(Len(readers'))
      /\ IsDone
      /\ UNCHANGED <<scanned, running, queue, parallel, registered>>
  BY DEF FetchReaderDone, pgVars, globalVars
<1>3. readers' \in Seq(Workers) /\ Len(readers') = Len(readers) - 1
  BY <1>1, <1>2, RemoveAtFacts
<1>4. (readers # <<>> => nextReader < Len(readers))'
  <2>1. SUFFICES ASSUME readers' # <<>>
                 PROVE  nextReader' < Len(readers')
    OBVIOUS
  <2>2. Len(readers') > 0
    BY <1>3, <2>1, EmptySeq
  <2> QED
    BY <1>1, <1>2, <1>3, <2>1, <2>2 DEF NextAfterRemoval
<1>5. (\A w \in Workers : w \in running \/ queue[w] # <<>> =>
          \E i \in 1..Len(readers) : readers[i] = w)'
  <2>1. SUFFICES ASSUME NEW w \in Workers, w \in running \/ queue[w] # <<>>
                 PROVE  Has(w)'
    BY <1>2 DEF Has
  <2>2. w # Reader
    BY <1>2, <2>1 DEF IsDone, HasTuple
  <2>3. Has(w)
    BY <2>1 DEF ReaderInv, Has
  <2> QED
    BY <1>1, <1>2, <2>2, <2>3, RemovalKeeps
<1>6. (\A u \in Threads : exhausted[u] => readers = <<>> /\ (parallel \/ scanned = Tuples))'
  <2>1. \A u \in Threads : ~exhausted[u]
    BY <1>1 DEF ReaderInv
  <2>2. UNCHANGED exhausted \/ (readers' = <<>> /\ parallel)
    BY DEF FetchReaderDone
  <2> QED
    BY <1>2, <2>1, <2>2
<1>7. (registered < 0 => readers = <<>>)'
  BY <1>1, <1>2 DEF ReaderInv
<1> QED
  BY <1>4, <1>5, <1>6, <1>7 DEF ReaderInv

LEMMA ReaderStep ==
  ASSUME Types, ThreadInv, ReaderInv, [Next]_vars
  PROVE  ReaderInv'
<1> USE DEF Types
<1>0. ~HasReader => readers = <<>>
  BY DEF ReaderInv, HasReader
<1>1. CASE UNCHANGED vars
  BY <1>1, ReaderFrame DEF vars, pgVars, readerVars, globalVars, threadVars
<1>2. CASE Destroy
  <2>1. \A w \in Workers : w \in running' \/ queue'[w] # <<>> =>
                              w \in running \/ queue[w] # <<>>
    BY <1>2, CleanupEmpties DEF Destroy
  <2>2. UNCHANGED <<readers, nextReader, parallel, scanned, exhausted, registered>>
    BY <1>2 DEF Destroy, threadVars
  <2> QED
    BY <2>1, <2>2, ReaderFrame
<1>3. ASSUME NEW w \in Workers, WorkerScan(w) \/ WorkerDone(w) \/ WorkerFails(w)
      PROVE  ReaderInv'
  <2>1. UNCHANGED <<readerVars, globalVars, threadVars>>
    BY <1>3 DEF WorkerScan, WorkerDone, WorkerFails
  <2>2. \A v \in Workers : v \in running' \/ queue'[v] # <<>> =>
                              v \in running \/ queue[v] # <<>>
    BY <1>3 DEF WorkerScan, WorkerDone, WorkerFails, PgTypes
  <2>3. scanned' = scanned \/ scanned # Tuples
    BY <1>3, ScanAssumption DEF WorkerScan, WorkerDone, WorkerFails, PgTypes
  <2> QED
    BY <2>1, <2>2, <2>3, ReaderFrame DEF readerVars, globalVars, threadVars
<1>4. ASSUME NEW t \in Threads, InitLocal(t)
      PROVE  ReaderInv'
  <2>1. UNCHANGED <<readers, nextReader, parallel, running, queue, scanned, exhausted>>
    BY <1>4 DEF InitLocal, pgVars, readerVars
  <2>2. registered' < 0 => registered < 0
    BY <1>4 DEF InitLocal, RegisterLocalState, SharedTypes
  <2> QED
    BY <2>1, <2>2, ReaderFrame
<1>5. ASSUME NEW t \in Threads, UnregisterLocalState(t)
      PROVE  ReaderInv'
  <2>1. UNCHANGED <<readers, nextReader, parallel, scanned, exhausted>>
    BY <1>5 DEF UnregisterLocalState
  <2>2. readers = <<>>
    BY <1>5 DEF UnregisterLocalState, ThreadInv, ReaderInv
  <2>3. \A w \in Workers : w \in running' \/ queue'[w] # <<>> =>
                              w \in running \/ queue[w] # <<>>
    BY <1>5, CleanupEmpties DEF UnregisterLocalState
  <2> QED
    BY <2>1, <2>2, <2>3, ReaderFrame
<1>6. ASSUME NEW t \in Threads,
             ScanEnds(t) \/ ScanFunction(t) \/ AcquireLock(t) \/ WaitLatch(t) \/ Convert(t)
      PROVE  ReaderInv'
  <2>1. UNCHANGED <<readers, nextReader, parallel, running, queue, scanned, exhausted,
                    registered>>
    BY <1>6 DEF ScanEnds, ScanFunction, AcquireLock, WaitLatch, AfterWait, Convert,
       pgVars, readerVars, globalVars
  <2> QED
    BY <2>1, ReaderFrame
<1>7. ASSUME NEW t \in Threads, FetchTuple(t)
      PROVE  ReaderInv'
  <2>1. UNCHANGED <<readers, nextReader, parallel, running, scanned, exhausted, registered>>
    BY <1>7 DEF FetchTuple, Got, readerVars, globalVars
  <2>2. \A w \in Workers : queue'[w] # <<>> => queue[w] # <<>>
    BY <1>7 DEF FetchTuple, HasTuple, PgTypes
  <2> QED
    BY <2>1, <2>2, ReaderFrame
<1>8. ASSUME NEW t \in Threads, FetchNothingYet(t)
      PROVE  ReaderInv'
  <2>1. UNCHANGED <<readers, parallel, running, queue, scanned, exhausted, registered>>
    BY <1>8 DEF FetchNothingYet, pgVars, globalVars
  <2>2. Len(readers) \in Nat /\ Len(readers) # 0 /\ nextReader \in Nat
    BY <1>8, ReaderFacts DEF FetchNothingYet, SharedTypes
  <2>3. nextReader' < Len(readers)
    BY <1>8, <2>2, ModFacts DEF FetchNothingYet
  <2> QED
    BY <2>1, <2>3 DEF ReaderInv
<1>9. ASSUME NEW t \in Threads, FetchExhausted(t) \/ FetchOwn(t) \/ FetchOwnRaises(t)
      PROVE  ReaderInv'
  <2>1. /\ UNCHANGED <<readers, nextReader, parallel, running, queue, registered>>
        /\ readers = <<>>
    BY <1>0, <1>9 DEF FetchExhausted, FetchOwn, FetchOwnRaises, pgVars, readerVars,
       globalVars
  <2>2. scanned' = scanned \/ scanned # Tuples
    BY <1>9 DEF FetchExhausted, FetchOwn, FetchOwnRaises, pgVars
  <2>3. UNCHANGED exhausted \/ parallel \/ scanned' = Tuples
    BY <1>9 DEF FetchExhausted, FetchOwn, FetchOwnRaises, Got
  <2> QED
    BY <2>1, <2>2, <2>3, ReaderFrame
<1> QED
  BY <1>1, <1>2, <1>3, <1>4, <1>5, <1>6, <1>7, <1>8, <1>9, ReaderDoneStep, StepCases,
     ThreadCases

-----------------------------------------------------------------------------
(* Where the tuples are.                                                    *)

\* What is in a queue is a tuple of the table.
LEMMA QueuedFacts ==
  ASSUME Types, NEW w \in Workers, NEW i \in 1..Len(queue[w])
  PROVE  queue[w][i] \in 1..Tuples /\ queue[w][i] \in Int
<1>1. queue[w] \in Seq(1..Tuples)
  BY DEF Types, PgTypes
<1>2. queue[w][i] \in 1..Tuples
  BY <1>1, ElementOfSeq
<1> QED
  BY <1>2

\* No tuple is queued twice.
LEMMA QueuedApart ==
  ASSUME TupleInv, NEW v \in Workers, NEW w \in Workers,
         NEW i \in 1..Len(queue[v]), NEW j \in 1..Len(queue[w]),
         queue[v][i] = queue[w][j]
  PROVE  v = w /\ i = j
  BY DEF TupleInv

\* A step that neither delivers nor queues anything.
LEMMA TupleFrame ==
  ASSUME Types, TupleInv, UNCHANGED delivered, scanned' \in Int, scanned' >= scanned,
         UNCHANGED queue \/ \A w \in Workers : queue'[w] = <<>>
  PROVE  TupleInv'
<1>0. scanned \in Int
  BY DEF Types, PgTypes
<1>1. (\A n \in 1..Tuples : n > scanned => delivered[n] = 0)'
  BY <1>0 DEF TupleInv
<1>2. (\A w \in Workers : \A i \in 1..Len(queue[w]) :
          queue[w][i] <= scanned /\ delivered[queue[w][i]] = 0)'
  <2>1. CASE UNCHANGED queue
    <3>1. \A w \in Workers : \A i \in 1..Len(queue[w]) : queue[w][i] \in Int
      BY QueuedFacts
    <3> QED
      BY <1>0, <2>1, <3>1 DEF TupleInv
  <2>2. CASE \A w \in Workers : queue'[w] = <<>>
    BY <2>2
  <2> QED
    BY <2>1, <2>2
<1>3. (\A v, w \in Workers : \A i \in 1..Len(queue[v]), j \in 1..Len(queue[w]) :
          queue[v][i] = queue[w][j] => v = w /\ i = j)'
  <2>1. CASE UNCHANGED queue
    BY <2>1 DEF TupleInv
  <2>2. CASE \A w \in Workers : queue'[w] = <<>>
    BY <2>2
  <2> QED
    BY <2>1, <2>2
<1> QED
  BY <1>1, <1>2, <1>3 DEF TupleInv

\* A worker queues the next tuple of the table.
LEMMA ScanTuple ==
  ASSUME Types, TupleInv, NEW w \in Workers, WorkerScan(w)
  PROVE  TupleInv'
<1>0. /\ scanned \in Int /\ scanned + 1 \in 1..Tuples /\ scanned' = scanned + 1
      /\ UNCHANGED delivered
  BY ScanAssumption DEF WorkerScan, Types, PgTypes, threadVars
<1>1. /\ queue[w] \in Seq(1..Tuples) /\ Len(queue[w]) \in Nat
      /\ queue'[w] = Append(queue[w], scanned + 1)
      /\ \A v \in Workers \ {w} : queue'[v] = queue[v]
  BY DEF WorkerScan, Types, PgTypes
<1>2. /\ Len(queue'[w]) = Len(queue[w]) + 1
      /\ \A i \in 1..Len(queue[w]) : queue'[w][i] = queue[w][i]
      /\ queue'[w][Len(queue[w]) + 1] = scanned + 1
  BY <1>0, <1>1, AppendProperties
<1>3. ASSUME NEW v \in Workers, NEW i \in 1..Len(queue'[v])
      PROVE  \/ i \in 1..Len(queue[v]) /\ queue'[v][i] = queue[v][i]
             \/ v = w /\ i = Len(queue[w]) + 1 /\ queue'[v][i] = scanned + 1
  BY <1>1, <1>2
<1>4. \A v \in Workers : \A i \in 1..Len(queue[v]) :
          queue[v][i] \in Int /\ queue[v][i] <= scanned /\ delivered[queue[v][i]] = 0
  BY QueuedFacts DEF TupleInv
<1>5. (\A n \in 1..Tuples : n > scanned => delivered[n] = 0)'
  BY <1>0 DEF TupleInv
<1>6. (\A v \in Workers : \A i \in 1..Len(queue[v]) :
          queue[v][i] <= scanned /\ delivered[queue[v][i]] = 0)'
  <2>1. delivered[scanned + 1] = 0
    BY <1>0 DEF TupleInv
  <2> QED
    BY <1>0, <1>3, <1>4, <2>1
<1>7. (\A u, v \in Workers : \A i \in 1..Len(queue[u]), j \in 1..Len(queue[v]) :
          queue[u][i] = queue[v][j] => u = v /\ i = j)'
  <2>1. SUFFICES ASSUME NEW u \in Workers, NEW v \in Workers,
                        NEW i \in 1..Len(queue'[u]), NEW j \in 1..Len(queue'[v]),
                        queue'[u][i] = queue'[v][j]
                 PROVE  u = v /\ i = j
    OBVIOUS
  <2>2. CASE i \in 1..Len(queue[u]) /\ queue'[u][i] = queue[u][i]
    <3>1. queue'[v][j] # scanned + 1
      BY <1>0, <1>4, <2>1, <2>2
    <3>2. j \in 1..Len(queue[v]) /\ queue'[v][j] = queue[v][j]
      BY <1>3, <3>1
    <3>3. queue[u][i] = queue[v][j]
      BY <2>1, <2>2, <3>2
    <3> QED
      BY <2>2, <3>2, <3>3, QueuedApart
  <2>3. CASE u = w /\ i = Len(queue[w]) + 1 /\ queue'[u][i] = scanned + 1
    <3>1. ~(j \in 1..Len(queue[v]) /\ queue'[v][j] = queue[v][j])
      BY <1>0, <1>4, <2>1, <2>3
    <3> QED
      BY <1>3, <2>3, <3>1
  <2> QED
    BY <1>3, <2>2, <2>3
<1> QED
  BY <1>0, <1>5, <1>6, <1>7 DEF TupleInv

\* Tuple n, which no queue holds any longer, is delivered.
LEMMA DeliverTuple ==
  ASSUME Types, TupleInv, NEW n \in 1..Tuples, delivered[n] = 0,
         delivered' = [delivered EXCEPT ![n] = delivered[n] + 1],
         scanned' \in Int, scanned' >= scanned, n <= scanned',
         \A w \in Workers : \A i \in 1..Len(queue'[w]) :
             /\ queue'[w][i] # n
             /\ queue'[w][i] \in 1..Tuples
             /\ queue'[w][i] <= scanned /\ delivered[queue'[w][i]] = 0,
         \A v, w \in Workers : \A i \in 1..Len(queue'[v]), j \in 1..Len(queue'[w]) :
             queue'[v][i] = queue'[w][j] => v = w /\ i = j
  PROVE  TupleInv'
<1>0. scanned \in Int /\ delivered \in [1..Tuples -> Nat]
  BY DEF Types, PgTypes, ThreadTypes
<1>1. \A m \in 1..Tuples : delivered'[m] = IF m = n THEN 1 ELSE delivered[m]
  BY <1>0
<1>2. (\A m \in 1..Tuples : delivered[m] <= 1)'
  BY <1>1 DEF TupleInv
<1>3. (\A m \in 1..Tuples : m > scanned => delivered[m] = 0)'
  BY <1>0, <1>1 DEF TupleInv
<1>4. (\A w \in Workers : \A i \in 1..Len(queue[w]) :
          queue[w][i] <= scanned /\ delivered[queue[w][i]] = 0)'
  BY <1>0, <1>1
<1> QED
  BY <1>2, <1>3, <1>4 DEF TupleInv

\* A reader returns the tuple at the head of its queue.
LEMMA FetchFacts ==
  ASSUME Types, TupleInv, NEW t \in Threads, FetchTuple(t)
  PROVE  LET h == Head(queue[Reader]) IN
         /\ Reader \in Workers /\ h \in 1..Tuples /\ Got(t, h)
         /\ 1 \in 1..Len(queue[Reader]) /\ queue[Reader][1] = h
         /\ delivered[h] = 0 /\ h <= scanned
         /\ Len(queue'[Reader]) = Len(queue[Reader]) - 1
         /\ \A i \in 1..Len(queue'[Reader]) :
               i + 1 \in 1..Len(queue[Reader]) /\ queue'[Reader][i] = queue[Reader][i + 1]
         /\ \A v \in Workers \ {Reader} : queue'[v] = queue[v]
<1> DEFINE h == Head(queue[Reader])
<1>1. Reader \in Workers /\ queue[Reader] \in Seq(1..Tuples) /\ queue[Reader] # <<>>
  BY ReaderFacts DEF FetchTuple, HasTuple, Types
<1>2. /\ h \in 1..Tuples /\ Tail(queue[Reader]) \in Seq(1..Tuples)
      /\ Len(Tail(queue[Reader])) = Len(queue[Reader]) - 1
      /\ \A i \in 1..Len(Tail(queue[Reader])) :
            Tail(queue[Reader])[i] = queue[Reader][i + 1]
  BY <1>1, HeadTailProperties
<1>3. Len(queue[Reader]) \in Nat /\ Len(queue[Reader]) > 0
  BY <1>1, EmptySeq
<1>4. queue[Reader][1] = h /\ 1 \in 1..Len(queue[Reader])
  BY <1>1, <1>3
<1>5. /\ queue'[Reader] = Tail(queue[Reader])
      /\ \A v \in Workers \ {Reader} : queue'[v] = queue[v]
      /\ Got(t, h)
  BY <1>1 DEF FetchTuple, Types, PgTypes
<1>6. delivered[h] = 0 /\ h <= scanned
  BY <1>1, <1>4 DEF TupleInv
<1> HIDE DEF h
<1>7. \A i \in 1..Len(queue'[Reader]) :
          i + 1 \in 1..Len(queue[Reader]) /\ queue'[Reader][i] = queue[Reader][i + 1]
  BY <1>2, <1>3, <1>5
<1>8. Len(queue'[Reader]) = Len(queue[Reader]) - 1
  BY <1>2, <1>5
<1> QED
  BY <1>1, <1>2, <1>4, <1>5, <1>6, <1>7, <1>8 DEF h

LEMMA FetchedTuple ==
  ASSUME Types, TupleInv, NEW t \in Threads, FetchTuple(t)
  PROVE  TupleInv'
<1> DEFINE h == Head(queue[Reader])
           r == Reader
<1>1. /\ r \in Workers /\ h \in 1..Tuples /\ Got(t, h)
      /\ 1 \in 1..Len(queue[r]) /\ queue[r][1] = h
      /\ delivered[h] = 0 /\ h <= scanned
      /\ \A i \in 1..Len(queue'[r]) :
            i + 1 \in 1..Len(queue[r]) /\ queue'[r][i] = queue[r][i + 1]
      /\ \A v \in Workers \ {r} : queue'[v] = queue[v]
  BY FetchFacts
<1>2. /\ delivered' = [delivered EXCEPT ![h] = delivered[h] + 1]
      /\ scanned' = scanned /\ scanned \in Int
  BY <1>1 DEF FetchTuple, Got, Types, PgTypes
<1> HIDE DEF h, r
<1> DEFINE at(v, i) == IF v = r THEN i + 1 ELSE i
<1>3. ASSUME NEW v \in Workers, NEW i \in 1..Len(queue'[v])
      PROVE  at(v, i) \in 1..Len(queue[v]) /\ queue'[v][i] = queue[v][at(v, i)]
  BY <1>1
<1>4. ASSUME NEW v \in Workers, NEW i \in 1..Len(queue'[v])
      PROVE  /\ queue'[v][i] # h /\ queue'[v][i] \in 1..Tuples
             /\ queue'[v][i] <= scanned /\ delivered[queue'[v][i]] = 0
  <2>1. at(v, i) \in 1..Len(queue[v]) /\ queue'[v][i] = queue[v][at(v, i)]
    BY <1>3
  <2>2. v # r \/ at(v, i) # 1
    OBVIOUS
  <2> HIDE DEF at
  <2> QED
    BY <1>1, <2>1, <2>2, QueuedFacts DEF TupleInv
<1>5. ASSUME NEW u \in Workers, NEW v \in Workers,
             NEW i \in 1..Len(queue'[u]), NEW j \in 1..Len(queue'[v]),
             queue'[u][i] = queue'[v][j]
      PROVE  u = v /\ i = j
  <2>1. u = v /\ at(u, i) = at(v, j)
    <3>1. at(u, i) \in 1..Len(queue[u]) /\ queue'[u][i] = queue[u][at(u, i)]
      BY <1>3
    <3>2. at(v, j) \in 1..Len(queue[v]) /\ queue'[v][j] = queue[v][at(v, j)]
      BY <1>3
    <3> HIDE DEF at
    <3>3. queue[u][at(u, i)] = queue[v][at(v, j)]
      BY <1>5, <3>1, <3>2
    <3> QED
      BY <3>1, <3>2, <3>3, QueuedApart
  <2> QED
    BY <2>1
<1> HIDE DEF at
<1>6. scanned' \in Int /\ scanned' >= scanned /\ h <= scanned'
  BY <1>1, <1>2
<1>7. \A w \in Workers : \A i \in 1..Len(queue'[w]) :
          /\ queue'[w][i] # h
          /\ queue'[w][i] \in 1..Tuples
          /\ queue'[w][i] <= scanned /\ delivered[queue'[w][i]] = 0
  BY <1>4
<1>8. \A v, w \in Workers : \A i \in 1..Len(queue'[v]), j \in 1..Len(queue'[w]) :
          queue'[v][i] = queue'[w][j] => v = w /\ i = j
  BY <1>5
<1>9. h \in 1..Tuples /\ delivered[h] = 0
  BY <1>1
<1> QED
  BY <1>2, <1>6, <1>7, <1>8, <1>9, DeliverTuple

LEMMA TupleStep ==
  ASSUME Types, ReaderInv, TupleInv, [Next]_vars
  PROVE  TupleInv'
<1>0. scanned \in Int /\ scanned >= scanned
  BY DEF Types, PgTypes
<1>1. CASE UNCHANGED vars
  BY <1>0, <1>1, TupleFrame DEF vars, pgVars, threadVars
<1>2. CASE Destroy
  BY <1>0, <1>2, CleanupEmpties, TupleFrame DEF Destroy, threadVars
<1>3. ASSUME NEW w \in Workers, WorkerDone(w) \/ WorkerFails(w)
      PROVE  TupleInv'
  <2>1. UNCHANGED <<queue, delivered>> /\ scanned' \in {scanned, scanned + 1}
    BY <1>3 DEF WorkerDone, WorkerFails, threadVars
  <2> QED
    BY <1>0, <2>1, TupleFrame
<1>4. ASSUME NEW t \in Threads,
             \/ InitLocal(t) \/ ScanEnds(t) \/ ScanFunction(t) \/ AcquireLock(t)
             \/ FetchReaderDone(t) \/ FetchNothingYet(t) \/ FetchExhausted(t)
             \/ FetchOwnRaises(t) \/ WaitLatch(t) \/ Convert(t)
      PROVE  TupleInv'
  <2>1. UNCHANGED <<queue, delivered, scanned>>
    BY <1>4 DEF InitLocal, ScanEnds, ScanFunction, AcquireLock, FetchReaderDone,
       FetchNothingYet, FetchExhausted, FetchOwnRaises, WaitLatch, AfterWait, Convert,
       GotNothing, pgVars
  <2> QED
    BY <1>0, <2>1, TupleFrame
<1>5. ASSUME NEW t \in Threads, FetchOwn(t)
      PROVE  TupleInv'
  <2>1. CASE scanned = Tuples
    BY <1>0, <1>5, <2>1, TupleFrame DEF FetchOwn, GotNothing
  <2>2. CASE scanned # Tuples
    <3> DEFINE n == scanned + 1
    <3>1. n \in 1..Tuples /\ delivered[n] = 0
      BY <2>2, ScanAssumption DEF TupleInv, Types, PgTypes
    <3>2. /\ delivered' = [delivered EXCEPT ![n] = delivered[n] + 1]
          /\ scanned' = n /\ UNCHANGED queue
      BY <1>5, <2>2 DEF FetchOwn, Got
    <3>3. \A w \in Workers : \A i \in 1..Len(queue'[w]) :
             /\ queue'[w][i] # n
             /\ queue'[w][i] \in 1..Tuples
             /\ queue'[w][i] <= scanned /\ delivered[queue'[w][i]] = 0
      BY <1>0, <3>2, QueuedFacts DEF TupleInv
    <3>4. \A v, w \in Workers : \A i \in 1..Len(queue'[v]), j \in 1..Len(queue'[w]) :
             queue'[v][i] = queue'[w][j] => v = w /\ i = j
      BY <3>2, QueuedApart
    <3>5. scanned' \in Int /\ scanned' >= scanned /\ n <= scanned'
      BY <1>0, <3>2
    <3>6. delivered' = [delivered EXCEPT ![n] = delivered[n] + 1]
      BY <3>2
    <3> HIDE DEF n
    <3> QED
      BY <3>1, <3>3, <3>4, <3>5, <3>6, DeliverTuple
  <2> QED
    BY <2>1, <2>2
<1>6. ASSUME NEW t \in Threads, UnregisterLocalState(t)
      PROVE  TupleInv'
  BY <1>0, <1>6, CleanupEmpties, TupleFrame DEF UnregisterLocalState
<1> QED
  BY <1>1, <1>2, <1>3, <1>4, <1>5, <1>6, ScanTuple, FetchedTuple, StepCases, ThreadCases

-----------------------------------------------------------------------------
(* Nothing is lost without an error.                                        *)

\* Without a reader nobody is left who could deliver.
LEMMA NoReaderFacts ==
  ASSUME Types, ReaderInv, readers = <<>>
  PROVE  running = {} /\ \A w \in Workers : queue[w] = <<>> /\ Len(queue[w]) = 0
<1>1. Len(readers) = 0
  OBVIOUS
<1>2. \A w \in Workers : w \notin running /\ queue[w] = <<>>
  BY <1>1 DEF ReaderInv
<1>3. running \subseteq Workers
  BY DEF Types, PgTypes
<1> QED
  BY <1>2, <1>3

\* A step that leaves the tuples and what is known of them alone.
LEMMA LossFrame ==
  ASSUME LossInv,
         UNCHANGED <<scanned, running, failed, queue, cleanedUp, parallel, registered,
                     destroyed, outcome, delivered>>,
         UNCHANGED pc \/ \E t \in Threads : pc[t] \notin {"new", "done"}
  PROVE  LossInv'
<1>1. /\ Sound' <=> Sound
      /\ \A n \in 1..Tuples : Kept(n)' <=> Kept(n)
  BY DEF Sound, Kept
<1>2. SerialRaised => SerialRaised'
  BY DEF SerialRaised
<1> QED
  BY <1>1, <1>2 DEF LossInv

LEMMA WorkerLoss ==
  ASSUME Types, LossInv, NEW w \in Workers, WorkerScan(w) \/ WorkerDone(w) \/ WorkerFails(w)
  PROVE  LossInv'
<1>0. /\ UNCHANGED <<readerVars, globalVars, threadVars>>
      /\ w \in running /\ scanned \in 0..Tuples /\ Tuples \in Nat
  BY ScanAssumption DEF WorkerScan, WorkerDone, WorkerFails, Types, PgTypes
<1>1. /\ UNCHANGED <<cleanedUp, parallel, registered, destroyed, outcome, delivered, pc>>
      /\ SerialRaised => SerialRaised'
  BY <1>0 DEF readerVars, globalVars, threadVars, SerialRaised
<1>2. CASE WorkerScan(w)
  <2>1. /\ scanned' = scanned + 1 /\ UNCHANGED <<running, failed>>
        /\ queue[w] \in Seq(1..Tuples) /\ Len(queue[w]) \in Nat
        /\ queue'[w] = Append(queue[w], scanned + 1)
        /\ \A v \in Workers \ {w} : queue'[v] = queue[v]
    BY <1>2 DEF WorkerScan, Types, PgTypes
  <2>2. /\ Len(queue'[w]) = Len(queue[w]) + 1
        /\ \A i \in 1..Len(queue[w]) : queue'[w][i] = queue[w][i]
        /\ queue'[w][Len(queue[w]) + 1] = scanned + 1
    BY <1>0, <2>1, AppendProperties
  <2>3. Len(queue[w]) + 1 \in 1..Len(queue'[w])
    BY <2>1, <2>2
  <2>4. ASSUME NEW v \in Workers, NEW i \in 1..Len(queue[v])
        PROVE  i \in 1..Len(queue'[v]) /\ queue'[v][i] = queue[v][i]
    <3>1. CASE v = w
      BY <2>1, <2>2, <2>4, <3>1
    <3>2. CASE v # w
      BY <2>1, <2>4, <3>2
    <3> QED
      BY <3>1, <3>2
  <2>5. ASSUME NEW n \in 1..Tuples, Kept(n)
        PROVE  Kept(n)'
    <3>1. CASE n > scanned
      <4>1. n > scanned' \/ n = scanned + 1
        BY <1>0, <2>1, <3>1
      <4>2. CASE n = scanned + 1
        <5>1. queue'[w][Len(queue[w]) + 1] = n
          BY <2>2, <4>2
        <5> QED
          BY <2>3, <5>1 DEF Kept
      <4> QED
        BY <4>1, <4>2 DEF Kept
    <3>2. CASE delivered[n] = 1
      BY <1>1, <3>2 DEF Kept
    <3>3. CASE \E v \in Workers : \E i \in 1..Len(queue[v]) : queue[v][i] = n
      BY <2>4, <3>3 DEF Kept
    <3> QED
      BY <2>5, <3>1, <3>2, <3>3 DEF Kept
  <2>6. Sound' <=> Sound
    BY <1>1, <2>1 DEF Sound
  <2>7. running' # {}
    BY <1>0, <2>1
  <2> QED
    BY <1>1, <2>5, <2>6, <2>7 DEF LossInv
<1>3. CASE WorkerDone(w)
  <2>1. scanned = Tuples /\ UNCHANGED <<scanned, failed, queue>>
    BY <1>3 DEF WorkerDone
  <2>2. /\ Sound' <=> Sound
        /\ \A n \in 1..Tuples : Kept(n)' <=> Kept(n)
    BY <1>1, <2>1 DEF Sound, Kept
  <2> QED
    BY <1>1, <2>1, <2>2 DEF LossInv
<1>4. CASE WorkerFails(w)
  <2>1. ~Sound'
    BY <1>4 DEF WorkerFails, Sound
  <2> QED
    BY <1>1, <2>1 DEF LossInv
<1> QED
  BY <1>2, <1>3, <1>4

\* A thread that is fetching has registered in time.
LEMMA FetcherEnlisted ==
  ASSUME Types, RegisterInv, NEW t \in Threads, pc[t] = "fetch", ~parallel
  PROVE  registered >= 0
<1>1. t \notin late
  BY DEF RegisterInv
<1>2. t \in Enlisted
  BY <1>1 DEF Enlisted
<1> QED
  BY <1>2 DEF RegisterInv, Types, SharedTypes

\* A tuple is handed over while the scan is going on.
LEMMA FetchLoss ==
  ASSUME Types, RegisterInv, ReaderInv, TupleInv, LossInv, NEW t \in Threads,
         FetchTuple(t) \/ FetchOwn(t)
  PROVE  LossInv'
<1>0. /\ UNCHANGED <<running, failed, cleanedUp, parallel, registered, destroyed, outcome>>
      /\ pc[t] = "fetch" /\ Fetching(t) /\ scanned \in 0..Tuples
      /\ Tuples \in Nat /\ registered \in Int
  BY ScanAssumption DEF FetchTuple, FetchOwn, Fetching, readerVars, globalVars, Types,
     PgTypes, SharedTypes
<1>1. registered >= 0
  <2>1. CASE FetchTuple(t)
    <3>1. readers # <<>>
      BY <2>1, ReaderFacts DEF FetchTuple, Types
    <3> QED
      BY <1>0, <3>1 DEF ReaderInv
  <2>2. CASE FetchOwn(t)
    BY <1>0, <2>2, FetcherEnlisted DEF FetchOwn
  <2> QED
    BY <2>1, <2>2
<1>2. outcome # "open" => destroyed
  BY <1>0, <1>1 DEF LossInv, SerialRaised
<1>3. Sound' <=> Sound
  BY <1>0 DEF Sound
<1>4. scanned' = Tuples \/ ~(scanned = Tuples)
  BY DEF FetchTuple, FetchOwn
<1>5. ASSUME NEW n \in 1..Tuples, Kept(n)
      PROVE  Kept(n)'
  <2>0. delivered \in [1..Tuples -> Nat]
    BY DEF Types, ThreadTypes
  <2>1. CASE FetchTuple(t)
    <3> DEFINE h == Head(queue[Reader])
               r == Reader
    <3>1. /\ r \in Workers /\ h \in 1..Tuples /\ Got(t, h) /\ delivered[h] = 0
          /\ queue[r][1] = h /\ Len(queue[r]) \in Nat
          /\ Len(queue'[r]) = Len(queue[r]) - 1
          /\ \A i \in 1..Len(queue'[r]) : queue'[r][i] = queue[r][i + 1]
          /\ \A v \in Workers \ {r} : queue'[v] = queue[v]
      BY <2>1, FetchFacts DEF Types, PgTypes
    <3>2. scanned' = scanned
      BY <2>1 DEF FetchTuple
    <3> HIDE DEF h, r
    <3>3. \A m \in 1..Tuples : delivered'[m] = IF m = h THEN 1 ELSE delivered[m]
      BY <2>0, <3>1 DEF Got
    <3>4. CASE n = h
      BY <3>3, <3>4 DEF Kept
    <3>5. CASE n # h
      <4>1. CASE n > scanned \/ delivered[n] = 1
        BY <3>2, <3>3, <3>5, <4>1 DEF Kept
      <4>2. CASE \E v \in Workers : \E i \in 1..Len(queue[v]) : queue[v][i] = n
        <5>0. PICK v \in Workers : \E i \in 1..Len(queue[v]) : queue[v][i] = n
          BY <4>2
        <5>1. PICK i \in 1..Len(queue[v]) : queue[v][i] = n
          BY <5>0
        <5>2. CASE v = r
          <6>1. i # 1
            BY <3>1, <3>5, <5>1, <5>2
          <6>2. i - 1 \in 1..Len(queue'[r]) /\ (i - 1) + 1 = i
            BY <3>1, <5>1, <5>2, <6>1
          <6>3. queue'[r][i - 1] = n
            BY <3>1, <5>1, <5>2, <6>2
          <6> QED
            BY <3>1, <6>2, <6>3 DEF Kept
        <5>3. CASE v # r
          BY <3>1, <5>1, <5>3 DEF Kept
        <5> QED
          BY <5>2, <5>3
      <4> QED
        BY <1>5, <4>1, <4>2 DEF Kept
    <3> QED
      BY <3>4, <3>5
  <2>2. CASE FetchOwn(t)
    <3>1. UNCHANGED queue
      BY <2>2 DEF FetchOwn
    <3>2. CASE scanned = Tuples
      BY <1>5, <2>2, <3>1, <3>2 DEF FetchOwn, GotNothing, Kept
    <3>3. CASE scanned # Tuples
      <4>1. scanned + 1 \in 1..Tuples /\ scanned' = scanned + 1 /\ delivered[scanned + 1] = 0
        BY <1>0, <2>2, <3>3 DEF FetchOwn, TupleInv
      <4>2. \A m \in 1..Tuples : delivered'[m] = IF m = scanned + 1 THEN 1 ELSE delivered[m]
        <5>1. delivered' = [delivered EXCEPT ![scanned + 1] = delivered[scanned + 1] + 1]
          BY <2>2, <3>3 DEF FetchOwn, Got
        <5> QED
          BY <2>0, <4>1, <5>1
      <4>3. n > scanned => n > scanned' \/ delivered'[n] = 1
        BY <1>0, <4>1, <4>2
      <4>4. delivered[n] = 1 => delivered'[n] = 1
        BY <4>2
      <4> QED
        BY <1>5, <3>1, <4>3, <4>4 DEF Kept
    <3> QED
      BY <3>2, <3>3
  <2> QED
    BY <2>1, <2>2
<1>6. scanned = Tuples => scanned' = Tuples
  BY <1>4
<1> QED
  BY <1>0, <1>1, <1>2, <1>3, <1>5, <1>6 DEF LossInv

\* The last local state ends the scan: without an error nothing is missing.
LEMMA UnregisterLoss ==
  ASSUME Types, ThreadInv, RegisterInv, ReaderInv, LossInv, NEW t \in Threads,
         UnregisterLocalState(t)
  PROVE  /\ LossInv'
         /\ registered = 1 /\ ~failed => \A n \in 1..Tuples : delivered[n] = 1
         /\ registered = 1 => outcome = "open"
<1>0. /\ registered \in Int /\ registered # 0 /\ pc[t] = "unregister"
      /\ UNCHANGED <<scanned, delivered, parallel, destroyed>>
  BY UnregisterFacts DEF UnregisterLocalState, Types, SharedTypes
<1>1. ~destroyed /\ exhausted[t] /\ readers = <<>> /\ (parallel \/ scanned = Tuples)
  BY <1>0 DEF ThreadInv, ReaderInv
<1>2. ~SerialRaised
  BY <1>0 DEF SerialRaised
<1>3. CASE registered = 1
  <2>1. registered' = -1 /\ cleanedUp' /\ outcome' = IF failed THEN "error" ELSE outcome
    BY <1>3, <1>0 DEF UnregisterLocalState, Cleanup
  <2>2. outcome = "open" /\ ~cleanedUp
    BY <1>1, <1>2, <1>3 DEF LossInv, RegisterInv
  <2>3. ASSUME ~failed, NEW n \in 1..Tuples
        PROVE  delivered[n] = 1
    <3>1. Sound
      BY <2>2, <2>3 DEF Sound
    <3>2. running = {} /\ \A w \in Workers : Len(queue[w]) = 0
      BY <1>1, NoReaderFacts
    <3>3. scanned = Tuples
      BY <1>1, <3>1, <3>2 DEF LossInv
    <3>4. Kept(n) /\ ~(n > scanned)
      BY <3>1, <3>3, ScanAssumption DEF LossInv
    <3>5. ~\E w \in Workers : \E i \in 1..Len(queue[w]) : queue[w][i] = n
      BY <3>2
    <3> QED
      BY <3>4, <3>5 DEF Kept
  <2>4. ~Sound'
    BY <2>1 DEF Sound
  <2>5. LossInv'
    BY <1>0, <2>1, <2>2, <2>3, <2>4 DEF LossInv
  <2> QED
    BY <2>2, <2>3, <2>5
<1>4. CASE registered # 1
  <2>1. /\ registered' = registered - 1
        /\ UNCHANGED <<cleanedUp, running, failed, queue, outcome>>
    BY <1>4 DEF UnregisterLocalState
  <2>2. registered' < 0 <=> registered < 0
    BY <1>0, <1>4, <2>1
  <2>3. /\ Sound' <=> Sound
        /\ \A n \in 1..Tuples : Kept(n)' <=> Kept(n)
    BY <1>0, <2>1 DEF Sound, Kept
  <2>4. LossInv'
    BY <1>0, <1>2, <2>1, <2>2, <2>3 DEF LossInv
  <2> QED
    BY <1>4, <2>4
<1> QED
  BY <1>3, <1>4

LEMMA LossStep ==
  ASSUME Types, ThreadInv, RegisterInv, ReaderInv, TupleInv, LossInv, [Next]_vars
  PROVE  LossInv'
<1>1. CASE UNCHANGED vars
  BY <1>1, LossFrame DEF vars, pgVars, readerVars, globalVars, threadVars
<1>2. CASE Destroy
  <2>1. /\ destroyed' /\ cleanedUp' /\ UNCHANGED <<registered, delivered>>
        /\ outcome' = "open" => outcome = "open"
    BY <1>2 DEF Destroy, Cleanup, threadVars
  <2>2. ~Sound'
    BY <2>1 DEF Sound
  <2> QED
    BY <2>1, <2>2 DEF LossInv
<1>3. ASSUME NEW t \in Threads, InitLocal(t)
      PROVE  LossInv'
  <2>1. /\ ~destroyed
        /\ parallel \/ \A u \in Threads : pc[u] = "new"
        /\ UNCHANGED <<scanned, running, failed, queue, cleanedUp, parallel, destroyed,
                       outcome, delivered>>
        /\ registered' < 0 <=> registered < 0
    BY <1>3 DEF InitLocal, RegisterLocalState, pgVars, readerVars, Types, SharedTypes
  <2>2. ~SerialRaised
    BY <2>1 DEF SerialRaised
  <2>3. /\ Sound' <=> Sound
        /\ \A n \in 1..Tuples : Kept(n)' <=> Kept(n)
    BY <2>1 DEF Sound, Kept
  <2> QED
    BY <2>1, <2>2, <2>3 DEF LossInv
<1>4. ASSUME NEW t \in Threads,
             \/ ScanEnds(t) \/ ScanFunction(t) \/ AcquireLock(t) \/ FetchReaderDone(t)
             \/ FetchNothingYet(t) \/ FetchExhausted(t) \/ WaitLatch(t) \/ Convert(t)
      PROVE  LossInv'
  <2>1. UNCHANGED <<scanned, running, failed, queue, cleanedUp, parallel, registered,
                    destroyed, outcome, delivered>>
    BY <1>4 DEF ScanEnds, ScanFunction, AcquireLock, FetchReaderDone, FetchNothingYet,
       FetchExhausted, WaitLatch, AfterWait, Convert, GotNothing, pgVars, readerVars,
       globalVars
  <2>2. pc[t] \notin {"new", "done"}
    BY <1>4 DEF ScanEnds, ScanFunction, AcquireLock, FetchReaderDone, FetchNothingYet,
       FetchExhausted, WaitLatch, Convert, Fetching, Waiting
  <2> QED
    BY <2>1, <2>2, LossFrame
<1>5. ASSUME NEW t \in Threads, FetchOwnRaises(t)
      PROVE  LossInv'
  <2>1. /\ outcome' = "error" /\ ~parallel /\ UNCHANGED parallel /\ pc[t] = "fetch"
        /\ pc' = [pc EXCEPT ![t] = "done"]
    BY <1>5 DEF FetchOwnRaises, Fetching, Set, Goto
  <2>2. pc'[t] = "done" /\ \A u \in Threads \ {t} : pc'[u] = "new"
    BY <2>1 DEF ThreadInv, Types, ThreadTypes
  <2>3. SerialRaised' /\ ~Sound'
    BY <2>1, <2>2 DEF SerialRaised, Sound
  <2> QED
    BY <2>1, <2>3 DEF LossInv
<1> QED
  BY <1>1, <1>2, <1>3, <1>4, <1>5, WorkerLoss, FetchLoss, UnregisterLoss, StepCases,
     ThreadCases

-----------------------------------------------------------------------------
(* The initial states.                                                      *)

\* The readers are the workers that were launched, each of them once.
LEMMA InitReaders ==
  ASSUME Init
  PROVE  /\ running \subseteq Workers /\ readers \in Seq(Workers)
         /\ \A w \in running : \E i \in 1..Len(readers) : readers[i] = w
<1>1. PICK S \in SUBSET Workers :
        /\ running = S
        /\ readers \in [1..Cardinality(S) -> S] /\ IsInjective(readers)
  BY DEF Init
<1>2. IsFiniteSet(S) /\ Cardinality(S) \in Nat
  BY FS_Subset, FS_CardinalityType, ScanAssumption
<1>3. readers \in Seq(S) /\ Len(readers) = Cardinality(S)
  <2>1. readers \in Seq(S)
    BY <1>1, <1>2, IsASeq
  <2> QED
    BY <1>1, <1>2, <2>1, LenProperties
<1>4. readers \in Seq(Workers)
  BY <1>3, SeqMonotonic
<1>5. ASSUME NEW w \in S, \A i \in 1..Cardinality(S) : readers[i] # w
      PROVE  FALSE
  <2>1. readers \in [1..Cardinality(S) -> S \ {w}]
    BY <1>1, <1>5
  <2>2. IsFiniteSet(S \ {w}) /\ Cardinality(S \ {w}) = Cardinality(S) - 1
    BY <1>2, FS_RemoveElement
  <2>3. /\ IsFiniteSet(1..Cardinality(S))
        /\ Cardinality(1..Cardinality(S)) = Cardinality(S)
    <3>1. Cardinality(S) # 0
      BY <1>2, <1>5, FS_EmptySet
    <3>2. /\ IsFiniteSet(1..Cardinality(S))
          /\ Cardinality(1..Cardinality(S)) =
                IF 1 > Cardinality(S) THEN 0 ELSE Cardinality(S) - 1 + 1
      BY <1>2, FS_Interval
    <3> QED
      BY <1>2, <3>1, <3>2
  <2>4. Cardinality(S \ {w}) < Cardinality(1..Cardinality(S))
    BY <1>2, <2>2, <2>3
  <2>5. PICK x, y \in 1..Cardinality(S) : x # y /\ readers[x] = readers[y]
    <3> DEFINE D == 1..Cardinality(S)
               T == S \ {w}
    <3>1. /\ IsFiniteSet(D) /\ IsFiniteSet(T) /\ Cardinality(T) < Cardinality(D)
          /\ readers \in [D -> T]
      BY <2>1, <2>2, <2>3, <2>4
    <3> HIDE DEF D, T
    <3>2. \E x, y \in D : x # y /\ readers[x] = readers[y]
      BY <3>1, FS_PigeonHole
    <3> QED
      BY <3>2 DEF D
  <2> QED
    BY <1>1, <2>5 DEF IsInjective
<1> QED
  BY <1>1, <1>3, <1>4, <1>5

LEMMA InitInv ==
  ASSUME Init
  PROVE  IInv
<1>1. /\ scanned = 0 /\ failed = FALSE /\ latch = FALSE
      /\ queue = [w \in Workers |-> <<>>] /\ nextReader = 0 /\ cleanedUp = FALSE
      /\ registered = 0 /\ destroyed = FALSE /\ outcome = "open" /\ lock = NoThread
      /\ parallel \in BOOLEAN
      /\ parallel => running # {}
  BY DEF Init
<1>2. /\ pc = [t \in Threads |-> "new"] /\ late = {}
      /\ exhausted = [t \in Threads |-> FALSE] /\ batch = [t \in Threads |-> 0]
      /\ fetched = [t \in Threads |-> 0] /\ nvisited = [t \in Threads |-> 0]
      /\ delivered = [n \in 1..Tuples |-> 0]
  BY DEF Init
<1>3. Types
  <2>1. PgTypes
    <3>1. queue \in [Workers -> Seq(1..Tuples)]
      BY <1>1, EmptySeq
    <3>2. scanned \in 0..Tuples
      BY <1>1, ScanAssumption
    <3>3. running \subseteq Workers
      BY InitReaders
    <3> QED
      BY <1>1, <3>1, <3>2, <3>3, Zenon DEF PgTypes
  <2>2. SharedTypes
    <3>1. readers \in Seq(Workers)
      BY InitReaders
    <3>2. nextReader \in Nat /\ registered \in Int
      BY <1>1
    <3>3. outcome \in {"open", "error", "crash"} /\ lock \in Threads \cup {NoThread}
      BY <1>1
    <3>4. cleanedUp \in BOOLEAN /\ parallel \in BOOLEAN /\ destroyed \in BOOLEAN
      BY <1>1
    <3> QED
      BY <3>1, <3>2, <3>3, <3>4 DEF SharedTypes
  <2>3. ThreadTypes
    BY <1>2, ScanAssumption DEF ThreadTypes
  <2> QED
    BY <2>1, <2>2, <2>3 DEF Types
<1>4. ThreadInv
  BY <1>1, <1>2 DEF ThreadInv
<1>5. RegisterInv
  <2>1. Enlisted = {}
    BY <1>2 DEF Enlisted
  <2> QED
    BY <1>1, <1>2, <2>1, FS_EmptySet DEF RegisterInv
<1>6. ReaderInv
  <2>1. readers # <<>> => nextReader < Len(readers)
    BY <1>1, InitReaders, EmptySeq
  <2> QED
    BY <1>1, <1>2, <2>1, InitReaders DEF ReaderInv
<1>7. TupleInv
  BY <1>1, <1>2 DEF TupleInv
<1>8. LossInv
  BY <1>1, <1>2 DEF LossInv, Kept
<1> QED
  BY <1>3, <1>4, <1>5, <1>6, <1>7, <1>8 DEF IInv

-----------------------------------------------------------------------------
(* Theorems.                                                                *)

LEMMA Invariance == Spec => []IInv
<1>1. Init => IInv
  BY InitInv
<1>2. IInv /\ [Next]_vars => IInv'
  BY TypeStep, ThreadStepInv, RegisterStep, ReaderStep, TupleStep, LossStep DEF IInv
<1> QED
  BY <1>1, <1>2, PTL DEF Spec

\* Every variable of the scan keeps its type; in particular the index of the
\* next reader is never negative and a chunk has no more batches than NumBatches.
THEOREM TypeCorrect == Spec => []TypeOK
<1>1. IInv => TypeOK
  BY TypeParts DEF IInv
<1> QED
  BY <1>1, Invariance, PTL

\* The clean-up of PostgresTableReader frees nothing that is in use, however
\* many threads DuckDB creates and however late: the counter of registered
\* local states tells who still needs the reader.
THEOREM ReaderStaysAlive == Spec => []ReaderAlive
<1>1. IInv => ReaderAlive
  <2>1. SUFFICES ASSUME IInv PROVE ReaderAlive
    OBVIOUS
  <2> USE <2>1 DEF IInv
  <2>2. ASSUME cleanedUp, NEW t \in Threads
        PROVE  ~UsesReader(t) /\ ~(pc[t] = "unregister" /\ registered = 1)
    <3>1. CASE destroyed
      BY <3>1 DEF ThreadInv, UsesReader
    <3>2. CASE ~destroyed
      <4>1. registered < 0 /\ registered # 1
        BY <2>2, <3>2 DEF RegisterInv, Types, SharedTypes
      <4>2. readers = <<>> /\ ~HasReader
        BY <4>1 DEF ReaderInv, HasReader, Types, SharedTypes
      <4>3. ASSUME pc[t] \in {"fetch", "wait", "convert"}
            PROVE  t \in late
        BY <4>1, <4>3 DEF RegisterInv, Enlisted
      <4>4. ASSUME t \in late PROVE parallel /\ fetched[t] = 0
        BY <4>4 DEF RegisterInv
      <4> QED
        BY <4>1, <4>2, <4>3, <4>4 DEF UsesReader
    <3> QED
      BY <3>1, <3>2
  <2> QED
    BY <2>2 DEF ReaderAlive, RegisterInv
<1> QED
  BY <1>1, Invariance, PTL

\* A scan that every thread has seen the end of, and that raised nothing, has
\* delivered every tuple once, whatever the workers did and whichever threads
\* took part.
THEOREM ScanCompletes == Spec => []ScanIsComplete
<1>1. IInv => ScanIsComplete
  <2>1. SUFFICES ASSUME IInv PROVE ScanIsComplete
    OBVIOUS
  <2> USE <2>1 DEF IInv
  <2>2. ASSUME outcome = "open", \E t \in Threads : pc[t] = "done",
               \A t \in Threads : pc[t] = "new" \/ (pc[t] = "done" /\ exhausted[t])
        PROVE  \A n \in 1..Tuples : delivered[n] = 1
    <3>1. Enlisted = {}
      BY <2>2 DEF Enlisted
    <3>2. registered # 0
      BY <2>2 DEF RegisterInv
    <3>3. registered < 0
      BY <3>1, <3>2, FS_EmptySet DEF RegisterInv, Types, SharedTypes
    <3> QED
      BY <2>2, <3>3 DEF LossInv
  <2> QED
    BY <2>2 DEF ScanIsComplete, TupleInv
<1> QED
  BY <1>1, Invariance, PTL

-----------------------------------------------------------------------------
(* The threads and workers implement the scan of ScanPromise.               *)

\* What DuckDB sees, case by case.
LEMMA StateFacts ==
  ASSUME Types
  PROVE  /\ outcome # "open" => ScanState = "failed"
         /\ outcome = "open" /\ registered < 0 => ScanState = "complete"
         /\ outcome = "open" /\ registered >= 0 /\ destroyed => ScanState = "abandoned"
         /\ outcome = "open" /\ registered >= 0 /\ ~destroyed => ScanState = "scanning"
<1>1. registered \in Int /\ outcome \in {"open", "error", "crash"} /\ destroyed \in BOOLEAN
  BY DEF Types, SharedTypes
<1> QED
  BY <1>1 DEF ScanState

\* A step that changes neither the tuples nor what DuckDB sees.
LEMMA SameState ==
  ASSUME Types, Types', UNCHANGED <<outcome, destroyed, delivered>>,
         registered' < 0 <=> registered < 0
  PROVE  UNCHANGED Promise!promiseVars
<1>1. registered \in Int /\ registered' \in Int
  BY DEF Types, SharedTypes
<1>2. ScanState' = ScanState
  BY <1>1 DEF ScanState
<1> QED
  BY <1>2 DEF Promise!promiseVars

\* A thread that is fetching with a reader or on its own reads an open scan.
LEMMA FetcherOpen ==
  ASSUME IInv, NEW t \in Threads, FetchTuple(t) \/ FetchOwn(t) \/ FetchOwnRaises(t)
  PROVE  outcome = "open" /\ registered >= 0 /\ ~destroyed
<1> USE DEF IInv
<1>1. pc[t] = "fetch" /\ registered \in Int
  BY DEF FetchTuple, FetchOwn, FetchOwnRaises, Fetching, Types, SharedTypes
<1>2. registered >= 0
  <2>1. CASE FetchTuple(t)
    <3>1. readers # <<>>
      BY <2>1, ReaderFacts DEF FetchTuple, Types
    <3> QED
      BY <1>1, <3>1 DEF ReaderInv
  <2>2. CASE FetchOwn(t) \/ FetchOwnRaises(t)
    BY <1>1, <2>2, FetcherEnlisted DEF FetchOwn, FetchOwnRaises
  <2> QED
    BY <2>1, <2>2
<1>3. ~destroyed /\ ~SerialRaised
  BY <1>1 DEF ThreadInv, SerialRaised
<1> QED
  BY <1>1, <1>2, <1>3 DEF LossInv

\* A tuple that a thread gets is handed over.
LEMMA GotPromised ==
  ASSUME IInv, Types', NEW t \in Threads, FetchTuple(t) \/ FetchOwn(t),
         NEW n \in 1..Tuples, Got(t, n), delivered[n] = 0
  PROVE  Promise!HandOver(n)
<1>1. UNCHANGED <<outcome, registered, destroyed>>
  BY DEF FetchTuple, FetchOwn, globalVars
<1>2. ScanState = "scanning"
  BY FetcherOpen, StateFacts DEF IInv
<1>3. ScanState' = ScanState
  BY <1>1 DEF ScanState
<1>4. delivered' = [delivered EXCEPT ![n] = 1]
  BY DEF Got
<1> QED
  BY <1>2, <1>3, <1>4 DEF Promise!HandOver

LEMMA PromiseStep ==
  ASSUME IInv, Types', [Next]_vars
  PROVE  [Promise!Next]_(Promise!promiseVars)
<1> USE DEF IInv
<1>0. registered \in Int
  BY DEF Types, SharedTypes
<1>1. CASE UNCHANGED vars
  BY <1>1, SameState DEF vars, globalVars, threadVars
<1>2. CASE Destroy
  <2>1. UNCHANGED <<registered, delivered>> /\ ~destroyed /\ destroyed'
    BY <1>2 DEF Destroy, threadVars
  <2>2. CASE outcome # "open"
    <3>1. outcome' # "open"
      BY <1>2, <2>2 DEF Destroy, Cleanup
    <3>2. ScanState = "failed" /\ ScanState' = "failed"
      BY <2>2, <3>1 DEF ScanState
    <3> QED
      BY <2>1, <3>2 DEF Promise!promiseVars
  <2>3. CASE outcome = "open" /\ registered < 0
    <3>1. outcome' = "open"
      BY <1>2, <2>3 DEF Destroy, RegisterInv
    <3>2. ScanState = "complete" /\ ScanState' = "complete"
      BY <1>0, <2>1, <2>3, <3>1 DEF ScanState
    <3> QED
      BY <2>1, <3>2 DEF Promise!promiseVars
  <2>4. CASE outcome = "open" /\ registered >= 0
    <3>1. ScanState = "scanning"
      BY <2>1, <2>4, StateFacts
    <3>2. ScanState' \in {"abandoned", "failed"}
      BY <1>0, <2>1, <2>4 DEF ScanState
    <3> QED
      BY <2>1, <3>1, <3>2 DEF Promise!Next, Promise!Stop
  <2> QED
    BY <1>0, <2>2, <2>3, <2>4
<1>3. ASSUME NEW w \in Workers, WorkerScan(w) \/ WorkerDone(w) \/ WorkerFails(w)
      PROVE  UNCHANGED Promise!promiseVars
  BY <1>3, SameState DEF WorkerScan, WorkerDone, WorkerFails, globalVars, threadVars
<1>4. ASSUME NEW t \in Threads,
             \/ ScanEnds(t) \/ ScanFunction(t) \/ AcquireLock(t) \/ FetchReaderDone(t)
             \/ FetchNothingYet(t) \/ FetchExhausted(t) \/ WaitLatch(t) \/ Convert(t)
      PROVE  UNCHANGED Promise!promiseVars
  <2>1. UNCHANGED <<registered, destroyed, outcome, delivered>>
    BY <1>4 DEF ScanEnds, ScanFunction, AcquireLock, FetchReaderDone, FetchNothingYet,
       FetchExhausted, WaitLatch, AfterWait, Convert, GotNothing, globalVars
  <2> QED
    BY <2>1, SameState
<1>5. ASSUME NEW t \in Threads, InitLocal(t)
      PROVE  UNCHANGED Promise!promiseVars
  <2>1. /\ UNCHANGED <<destroyed, outcome, delivered>>
        /\ registered' < 0 <=> registered < 0
    BY <1>0, <1>5 DEF InitLocal, RegisterLocalState
  <2> QED
    BY <2>1, SameState
<1>6. ASSUME NEW t \in Threads, FetchTuple(t)
      PROVE  Promise!Next
  <2>1. \E n \in 1..Tuples : Got(t, n) /\ delivered[n] = 0
    BY <1>6, FetchFacts
  <2> QED
    BY <1>6, <2>1, GotPromised DEF Promise!Next
<1>7. ASSUME NEW t \in Threads, FetchOwn(t)
      PROVE  [Promise!Next]_(Promise!promiseVars)
  <2>1. CASE scanned = Tuples
    BY <1>7, <2>1, SameState DEF FetchOwn, GotNothing, globalVars
  <2>2. CASE scanned # Tuples
    <3> DEFINE n == scanned + 1
    <3>1. n \in 1..Tuples /\ delivered[n] = 0 /\ Got(t, n)
      BY <1>7, <2>2, ScanAssumption DEF FetchOwn, TupleInv, Types, PgTypes
    <3> HIDE DEF n
    <3> QED
      BY <1>7, <3>1, GotPromised DEF Promise!Next
  <2> QED
    BY <2>1, <2>2
<1>8. ASSUME NEW t \in Threads, FetchOwnRaises(t)
      PROVE  Promise!Next
  <2>1. outcome' = "error" /\ UNCHANGED delivered
    BY <1>8 DEF FetchOwnRaises
  <2>2. ScanState = "scanning"
    BY <1>8, FetcherOpen, StateFacts
  <2>3. ScanState' = "failed"
    BY <2>1 DEF ScanState
  <2> QED
    BY <2>1, <2>2, <2>3 DEF Promise!Next, Promise!Stop
<1>9. ASSUME NEW t \in Threads, UnregisterLocalState(t)
      PROVE  [Promise!Next]_(Promise!promiseVars)
  <2>1. UNCHANGED <<destroyed, delivered>> /\ ~destroyed /\ registered # 0
    BY <1>9, UnregisterFacts DEF UnregisterLocalState, ThreadInv
  <2>2. CASE registered = 1
    <3>1. registered' = -1 /\ outcome' = (IF failed THEN "error" ELSE outcome)
      BY <1>9, <2>2 DEF UnregisterLocalState, Cleanup
    <3>2. outcome = "open"
      BY <1>9, <2>2, UnregisterLoss
    <3>3. ScanState = "scanning"
      BY <2>1, <2>2, <3>2, StateFacts
    <3>4. CASE failed
      <4>1. ScanState' = "failed"
        BY <3>1, <3>4 DEF ScanState
      <4> QED
        BY <2>1, <3>3, <4>1 DEF Promise!Next, Promise!Stop
    <3>5. CASE ~failed
      <4>1. ScanState' = "complete"
        BY <3>1, <3>2, <3>5 DEF ScanState
      <4>2. \A n \in 1..Tuples : delivered[n] = 1
        BY <1>9, <2>2, <3>5, UnregisterLoss
      <4> QED
        BY <2>1, <3>3, <4>1, <4>2 DEF Promise!Next, Promise!Complete
    <3> QED
      BY <3>4, <3>5
  <2>3. CASE registered # 1
    <3>1. registered' = registered - 1 /\ UNCHANGED outcome
      BY <1>9, <2>3 DEF UnregisterLocalState
    <3>2. registered' < 0 <=> registered < 0
      BY <1>0, <2>1, <2>3, <3>1
    <3> QED
      BY <2>1, <3>1, <3>2, SameState
  <2> QED
    BY <2>2, <2>3
<1> QED
  BY <1>1, <1>2, <1>3, <1>4, <1>5, <1>6, <1>7, <1>8, <1>9, StepCases, ThreadCases

\* The scan of PostgresTableReader, with its workers, its threads and its
\* clean-up, implements ScanPromise: every step hands one new tuple over, ends
\* the scan, or changes nothing that DuckDB sees.
THEOREM ScanKeepsPromise == Spec => KeepsPromise
<1>1. Init => Promise!Init
  <2>1. ASSUME Init PROVE ScanState = "scanning"
    BY <2>1 DEF Init, ScanState
  <2> QED
    BY <2>1 DEF Init, Promise!Init
<1>2. IInv /\ IInv' /\ [Next]_vars => [Promise!Next]_(Promise!promiseVars)
  BY PromiseStep DEF IInv
<1>3. Spec => Promise!Init /\ [][Promise!Next]_(Promise!promiseVars)
  BY <1>1, <1>2, Invariance, PTL DEF Spec
<1> QED
  BY <1>3 DEF KeepsPromise, Promise!Spec
=============================================================================
