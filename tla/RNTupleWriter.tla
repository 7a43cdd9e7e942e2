---------------------------- MODULE RNTupleWriter ----------------------------
(***************************************************************************)
(* HitRNTupleWriter (include/io/typed_rntuple_writer.hpp): several RNTuples *)
(* in one TFile, filled by phlex observers that run with                   *)
(* concurrency::unlimited on a pool of TBB threads.                        *)
(*                                                                         *)
(* Every TypedHitWriter keeps one fill context per thread.  A thread fills *)
(* its own context without a lock; only when the context asks for a        *)
(* cluster flush does it take the mutex of the file service, because the   *)
(* flush writes to the TFile the tuples share.  Construction and           *)
(* destruction touch the TFile too, on the main thread.                    *)
(*                                                                         *)
(* A hit is the pair <<c, i>>: the i-th element of the vector passed to    *)
(* the observer call c.  The tuples are numbered in the order their        *)
(* writers are constructed: ReconstructedWriters first, SimTruthWriters    *)
(* after them, and only when the job is configured with simulation.        *)
(***************************************************************************)
EXTENDS Integers, Sequences, FiniteSets, Functions

CONSTANTS Threads,    \* threads of the TBB pool
          NReco,      \* number of tuples in ReconstructedWriters
          NSim,       \* number of tuples in SimTruthWriters, 0 unless isSim
          Calls,      \* observer calls the framework makes: write, write_sim
          TupleOf,    \* TupleOf[c]: the tuple the hit type of call c selects
          Size,       \* Size[c]: number of hits in the vector of call c
          MaxFaults,  \* bound: I/O errors in one behaviour
          NoThread, NoCall

Tuples == 1 .. (NReco + NSim)
Sim == (NReco + 1) .. (NReco + NSim)

ASSUME BundleAssumption == NReco \in Nat \ {0} /\ NSim \in Nat
ASSUME CallAssumption   == TupleOf \in [Calls -> Tuples] /\ Size \in [Calls -> Nat]
ASSUME FaultAssumption  == MaxFaults \in Nat
ASSUME NullAssumption   == NoThread \notin Threads /\ NoCall \notin Calls

HitsOf(n) == UNION { {c} \X (1 .. Size[c]) : c \in {d \in Calls : TupleOf[d] = n} }
Hits == UNION { {c} \X (1 .. Size[c]) : c \in Calls }

VARIABLES
    phase,     \* life cycle of the HitRNTupleWriter object
    appended,  \* number of writers whose constructor has returned
    mutex,     \* owner of RNTupleFileService::mutex_
    pending,   \* calls the framework has not started
    pc,        \* where each thread is
    cur,       \* the call each thread executes
    done,      \* done[c]: hits of call c handed to FillNoFlush
    ctx,       \* ctx[n]: threads whose FillState of tuple n holds a context
    buffer,    \* buffer[n][t]: filled and not yet flushed by that context
    committed, \* committed[n]: entries of tuple n in the file, in order
    dying,     \* tuple whose TypedHitWriter is being destroyed, or 0
    sealed,    \* tuples whose RNTupleParallelWriter is destroyed
    faults     \* I/O errors so far

job     == <<phase, appended, dying, sealed>>
threads == <<mutex, pending, pc, cur, done>>
data    == <<ctx, buffer, committed>>
vars    == <<job, threads, data, faults>>

TypeOK ==
    /\ phase \in {"opening", "appending", "running", "teardown", "closed"}
    /\ appended \in 0 .. (NReco + NSim)
    /\ mutex \in Threads \union {NoThread}
    /\ pending \in SUBSET Calls
    /\ pc \in [Threads -> {"idle", "write", "flush", "commit"}]
    /\ cur \in [Threads -> Calls \union {NoCall}]
    /\ done \in [Calls -> Nat]
    /\ ctx \in [Tuples -> SUBSET Threads]
    /\ buffer \in [Tuples -> [Threads -> Seq(Hits)]]
    /\ committed \in [Tuples -> Seq(Hits)]
    /\ dying \in Tuples \union {0}
    /\ sealed \in SUBSET Tuples
    /\ faults \in 0 .. MaxFaults

Init ==
    /\ phase = "opening"
    /\ appended = 0
    /\ mutex = NoThread
    /\ pending = Calls
    /\ pc = [t \in Threads |-> "idle"]
    /\ cur = [t \in Threads |-> NoCall]
    /\ done = [c \in Calls |-> 0]
    /\ ctx = [n \in Tuples |-> {}]
    /\ buffer = [n \in Tuples |-> [t \in Threads |-> <<>>]]
    /\ committed = [n \in Tuples |-> <<>>]
    /\ dying = 0
    /\ sealed = {}
    /\ faults = 0

Fault == faults < MaxFaults /\ faults' = faults + 1

-------------------------------------------------------------------------------
(* Construction, on the main thread, before any observer runs. *)

OpenFile ==
    /\ phase = "opening"
    /\ phase' = "appending"
    /\ UNCHANGED <<appended, dying, sealed, threads, data, faults>>

\* TFile::Open returned null or a zombie: the constructor throws.
OpenFails ==
    /\ phase = "opening"
    /\ Fault
    /\ phase' = "teardown"
    /\ UNCHANGED <<appended, dying, sealed, threads, data>>

AppendWriter_CountsOneMore ==
    /\ phase = "appending"
    /\ mutex = NoThread
    /\ appended' = appended + 1
    /\ phase' = IF appended = NReco + NSim THEN "running" ELSE "appending"
    /\ UNCHANGED <<dying, sealed, threads, data, faults>>

\* The next TypedHitWriter appends its RNTuple under the file mutex.
AppendWriter ==
    /\ phase = "appending"
    /\ mutex = NoThread
    /\ appended' = appended + 1
    /\ phase' = IF appended' = NReco + NSim THEN "running" ELSE "appending"
    /\ UNCHANGED <<dying, sealed, threads, data, faults>>

\* RNTupleParallelWriter::Append throws: the writers built so far unwind.
AppendFails ==
    /\ phase = "appending"
    /\ Fault
    /\ phase' = "teardown"
    /\ UNCHANGED <<appended, dying, sealed, threads, data>>

-------------------------------------------------------------------------------
(* Observer calls, one at a time on a thread and any number at a time.  The *)
(* framework starts no further call once one of them has thrown.           *)

StartCall(t, c) ==
    /\ phase = "running"
    /\ faults = 0
    /\ pc[t] = "idle"
    /\ c \in pending
    /\ pending' = pending \ {c}
    /\ cur' = [cur EXCEPT ![t] = c]
    /\ pc' = [pc EXCEPT ![t] = "write"]
    /\ UNCHANGED <<job, mutex, done, data, faults>>

\* The hit goes into whichever FillState comes first, not the thread's own.
FillHit_AnyContext(t) ==
    LET c == cur[t]
        n == TupleOf[c]
    IN  /\ pc[t] = "write"
        /\ done[c] < Size[c]
        /\ \E u \in Threads :
              /\ ctx' = [ctx EXCEPT ![n] = @ \union {u}]
              /\ buffer' = [buffer EXCEPT ![n][u] = Append(@, <<c, done[c] + 1>>)]
        /\ done' = [done EXCEPT ![c] = @ + 1]
        /\ \E next \in {"write", "flush"} : pc' = [pc EXCEPT ![t] = next]
        /\ UNCHANGED <<job, mutex, pending, cur, committed, faults>>

\* The context is created anew for every hit.
FillHit_NewContext(t) ==
    LET c == cur[t]
        n == TupleOf[c]
    IN  /\ pc[t] = "write"
        /\ done[c] < Size[c]
        /\ ctx' = [ctx EXCEPT ![n] = @ \union {t}]
        /\ buffer' = [buffer EXCEPT ![n][t] = << <<c, done[c] + 1>> >>]
        /\ done' = [done EXCEPT ![c] = @ + 1]
        /\ \E next \in {"write", "flush"} : pc' = [pc EXCEPT ![t] = next]
        /\ UNCHANGED <<job, mutex, pending, cur, committed, faults>>

\* TypedHitWriter::write up to the test of ShouldFlushCluster, on the
\* thread's own FillState.  ROOT decides when a cluster is full.
FillHit(t) ==
    LET c == cur[t]
        n == TupleOf[c]
    IN  /\ pc[t] = "write"
        /\ done[c] < Size[c]
        /\ ctx' = [ctx EXCEPT ![n] = @ \union {t}]
        /\ buffer' = [buffer EXCEPT ![n][t] = Append(@, <<c, done[c] + 1>>)]
        /\ done' = [done EXCEPT ![c] = @ + 1]
        /\ \E next \in {"write", "flush"} : pc' = [pc EXCEPT ![t] = next]
        /\ UNCHANGED <<job, mutex, pending, cur, committed, faults>>

\* CreateFillContext, CreateEntry or FillNoFlush throws: the hit is not filled and
\* the rest of the vector is skipped.  The context may have been made already.
FillFails(t) ==
    LET c == cur[t]
    IN  /\ pc[t] = "write"
        /\ done[c] < Size[c]
        /\ Fault
        /\ \E made \in SUBSET {t} : ctx' = [ctx EXCEPT ![TupleOf[c]] = @ \union made]
        /\ pc' = [pc EXCEPT ![t] = "idle"]
        /\ cur' = [cur EXCEPT ![t] = NoCall]
        /\ UNCHANGED <<job, mutex, pending, done, buffer, committed>>

AcquireFile_NoLock(t) ==
    /\ pc[t] = "flush"
    /\ mutex' = t
    /\ pc' = [pc EXCEPT ![t] = "commit"]
    /\ UNCHANGED <<job, pending, cur, done, data, faults>>

\* std::scoped_lock on the file mutex, after FlushColumns.
AcquireFile(t) ==
    /\ pc[t] = "flush"
    /\ mutex = NoThread
    /\ mutex' = t
    /\ pc' = [pc EXCEPT ![t] = "commit"]
    /\ UNCHANGED <<job, pending, cur, done, data, faults>>

\* FlushColumns throws, before the lock.
FlushColumnsFails(t) ==
    /\ pc[t] = "flush"
    /\ Fault
    /\ pc' = [pc EXCEPT ![t] = "idle"]
    /\ cur' = [cur EXCEPT ![t] = NoCall]
    /\ UNCHANGED <<job, mutex, pending, done, data>>

CommitCluster_KeepsCluster(n, t) ==
    /\ committed' = [committed EXCEPT ![n] = @ \o buffer[n][t]]
    /\ UNCHANGED buffer

\* The cluster of thread t becomes the next entries of tuple n.
CommitCluster(n, t) ==
    /\ committed' = [committed EXCEPT ![n] = @ \o buffer[n][t]]
    /\ buffer' = [buffer EXCEPT ![n][t] = <<>>]

FlushCluster(t) ==
    /\ pc[t] = "commit"
    /\ CommitCluster(TupleOf[cur[t]], t)
    /\ mutex' = NoThread
    /\ pc' = [pc EXCEPT ![t] = "write"]
    /\ UNCHANGED <<job, pending, cur, done, ctx, faults>>

FlushFails_KeepsMutex(t) ==
    /\ pc[t] = "commit"
    /\ Fault
    /\ pc' = [pc EXCEPT ![t] = "idle"]
    /\ cur' = [cur EXCEPT ![t] = NoCall]
    /\ UNCHANGED <<job, mutex, pending, done, data>>

\* FlushCluster throws: scoped_lock unlocks, the rest of the vector is
\* skipped.  The context keeps its cluster and tries again when destroyed.
FlushFails(t) ==
    /\ pc[t] = "commit"
    /\ Fault
    /\ mutex' = NoThread
    /\ pc' = [pc EXCEPT ![t] = "idle"]
    /\ cur' = [cur EXCEPT ![t] = NoCall]
    /\ UNCHANGED <<job, pending, done, data>>

EndCall(t) ==
    /\ pc[t] = "write"
    /\ done[cur[t]] = Size[cur[t]]
    /\ pc' = [pc EXCEPT ![t] = "idle"]
    /\ cur' = [cur EXCEPT ![t] = NoCall]
    /\ UNCHANGED <<job, mutex, pending, done, data, faults>>

ThreadStep(t) ==
    \/ \E c \in Calls : StartCall(t, c)
    \/ FillHit(t) \/ FillFails(t)
    \/ AcquireFile(t) \/ FlushColumnsFails(t)
    \/ FlushCluster(t)
    \/ FlushFails(t)
    \/ EndCall(t)

-------------------------------------------------------------------------------
(* Destruction, on the main thread, after the last observer has returned.  *)
(* Members go in reverse order of declaration: sim_writers_, writers_,     *)
(* file_service_; inside a writer states_ and then writer_.  A std::tuple  *)
(* may destroy its elements in any order.                                  *)

BeginTeardown_TooEarly ==
    /\ phase = "running"
    /\ pending = {} \/ faults > 0
    /\ phase' = "teardown"
    /\ UNCHANGED <<appended, dying, sealed, threads, data, faults>>

BeginTeardown ==
    /\ phase = "running"
    /\ \A t \in Threads : pc[t] = "idle"
    /\ pending = {} \/ faults > 0
    /\ phase' = "teardown"
    /\ UNCHANGED <<appended, dying, sealed, threads, data, faults>>

Destroyable(n) ==
    /\ n \in (1 .. appended) \ sealed
    /\ n \notin Sim => Sim \intersect (1 .. appended) \subseteq sealed

DestroyWriter(n) ==
    /\ phase = "teardown"
    /\ dying = 0
    /\ Destroyable(n)
    /\ dying' = n
    /\ UNCHANGED <<phase, appended, sealed, threads, data, faults>>

\* ~RNTupleFillContext flushes what the context still holds, without the
\* file mutex.
DestroyContext(t) ==
    /\ dying # 0
    /\ t \in ctx[dying]
    /\ ctx' = [ctx EXCEPT ![dying] = @ \ {t}]
    /\ CommitCluster(dying, t)
    /\ UNCHANGED <<job, threads, faults>>

\* The same flush fails; the destructor logs the error and drops the data.
DestroyContextFails(t) ==
    /\ dying # 0
    /\ t \in ctx[dying]
    /\ Fault
    /\ ctx' = [ctx EXCEPT ![dying] = @ \ {t}]
    /\ buffer' = [buffer EXCEPT ![dying][t] = <<>>]
    /\ UNCHANGED <<job, threads, committed>>

\* states_ declared before writer_, hence destroyed after it.
CommitDataset_BeforeContexts ==
    /\ dying # 0
    /\ sealed' = sealed \union {dying}
    /\ dying' = 0
    /\ UNCHANGED <<phase, appended, threads, data, faults>>

\* ~RNTupleParallelWriter, once states_ is gone.
CommitDataset ==
    /\ dying # 0
    /\ ctx[dying] = {}
    /\ sealed' = sealed \union {dying}
    /\ dying' = 0
    /\ UNCHANGED <<phase, appended, threads, data, faults>>

\* The commit fails: the destructor logs the error, and the clusters of the tuple
\* stay in a file without its footer.
CommitDatasetFails ==
    /\ dying # 0
    /\ ctx[dying] = {}
    /\ Fault
    /\ sealed' = sealed \union {dying}
    /\ dying' = 0
    /\ UNCHANGED <<phase, appended, threads, data>>

\* file_service_ declared last, hence destroyed before the writers.
CloseFile_First ==
    /\ phase = "teardown"
    /\ dying = 0
    /\ phase' = "closed"
    /\ UNCHANGED <<appended, dying, sealed, threads, data, faults>>

CloseFile ==
    /\ phase = "teardown"
    /\ dying = 0
    /\ 1 .. appended \subseteq sealed
    /\ phase' = "closed"
    /\ UNCHANGED <<appended, dying, sealed, threads, data, faults>>

\* ~TFile cannot write the directory of the file; it does not throw either.
CloseFileFails ==
    /\ phase = "teardown"
    /\ dying = 0
    /\ 1 .. appended \subseteq sealed
    /\ Fault
    /\ phase' = "closed"
    /\ UNCHANGED <<appended, dying, sealed, threads, data>>

MainStep ==
    \/ OpenFile \/ OpenFails \/ AppendWriter \/ AppendFails
    \/ BeginTeardown
    \/ \E n \in Tuples : DestroyWriter(n)
    \/ \E t \in Threads : DestroyContext(t) \/ DestroyContextFails(t)
    \/ CommitDataset \/ CommitDatasetFails
    \/ CloseFile \/ CloseFileFails

Finished == phase = "closed" /\ UNCHANGED vars

Next == MainStep \/ (\E t \in Threads : ThreadStep(t)) \/ Finished

\* The pool runs every thread that can run; the main thread is never blocked
\* for ever by anything but the guards above.
Fairness == WF_vars(MainStep) /\ \A t \in Threads : WF_vars(ThreadStep(t))

Spec == Init /\ [][Next]_vars
FairSpec == Spec /\ Fairness

-------------------------------------------------------------------------------
(* Properties *)

\* The TFile is never used by two flushes at once, and while the main thread
\* uses it without the mutex (building and destroying the writers) no
\* observer is anywhere inside write().
FileExclusive ==
    /\ \A t, u \in Threads : pc[t] = "commit" /\ pc[u] = "commit" => t = u
    /\ phase # "running" => \A t \in Threads : pc[t] = "idle"

AcceptedOf(n) == {h \in HitsOf(n) : h[2] <= done[h[1]]}
StoredOf(n) == Range(committed[n]) \union UNION {Range(buffer[n][t]) : t \in Threads}

\* No hit is in the output twice, nor both in the output and still waiting in
\* a context, whatever the interleaving of flushes, failures and retries.
NoHitTwice ==
    \A n \in Tuples :
        /\ IsInjective(committed[n])
        /\ \A t \in Threads :
              /\ IsInjective(buffer[n][t])
              /\ Range(buffer[n][t]) \intersect Range(committed[n]) = {}
              /\ \A u \in Threads \ {t} :
                    Range(buffer[n][t]) \intersect Range(buffer[n][u]) = {}

\* A tuple holds only hits handed to its own writer and, until an I/O error,
\* all of them: each is in the file or in the context that will flush it.
NoHitLost ==
    \A n \in Tuples :
        /\ StoredOf(n) \subseteq AcceptedOf(n)
        /\ faults = 0 => AcceptedOf(n) \subseteq StoredOf(n)

\* Hits of one call keep the order they had in the vector, although clusters
\* of other calls may come between them.
CallOrder ==
    \A n \in Tuples : \A p, q \in DOMAIN committed[n] :
        p < q /\ committed[n][p][1] = committed[n][q][1]
            => committed[n][p][2] < committed[n][q][2]

\* When the file closes and no I/O error happened, every hit of every call is
\* in its tuple, including what only the destructors flushed.
CleanCloseIsComplete ==
    phase = "closed" /\ faults = 0 =>
        \A n \in Tuples : Range(committed[n]) = HitsOf(n)

\* Once the dataset of a tuple is committed no entry is added to that tuple,
\* and the entries of any tuple only grow at the end.
SealedIsFrozen ==
    [][\A n \in Tuples :
         /\ n \in sealed => committed'[n] = committed[n]
         /\ Len(committed[n]) <= Len(committed'[n])
         /\ SubSeq(committed'[n], 1, Len(committed[n])) = committed[n]]_vars

\* The job always gets to the end of the destructors: no thread waits for ever
\* for the file mutex, also when the flush of its owner threw.
Terminates == <>(phase = "closed")

\* The writer implements the abstract store of hits.
Store == INSTANCE HitStore WITH
    accepted <- [n \in Tuples |-> AcceptedOf(n)],
    durable <- [n \in Tuples |-> Range(committed[n])],
    status <- IF phase = "closed" THEN IF faults = 0 THEN "complete" ELSE "damaged"
              ELSE IF faults = 0 THEN "open" ELSE "faulty"
StoreSpec == Store!Spec
===============================================================================
